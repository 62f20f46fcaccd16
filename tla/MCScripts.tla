------------------------------ MODULE MCScripts -----------------------------
(* Scripts for TLC: the files.                                               *)
EXTENDS Scripts

MCKeywords == {<<"a", "e">>}

(* Every short text of the characters that matter to one part of the lexer.   *)
Comments == SeqOf({"/", "*", " ", "newline", "a"}, 6)
Numbers  == SeqOf({"1", "+", ".", "e", " "}, 5)
Strings  == SeqOf({"quote", "backslash", "n", "newline"}, 6)
              \cup SeqOf({"quote", "backslash", "t", "tab", "a"}, 5)
Names    == SeqOf({"a", "e", "_", "1", "$", " "}, 4)
Symbols  == SeqOf({"=", "<", "!", ";", "#", NUL, "quote", "backslash"}, 4)

Texts == Comments \cup Numbers \cup Strings \cup Names \cup Symbols

(* Each of them below a shebang, and every short file.                        *)
MCFiles ==
  {<<"#", "!", "a", "newline", "newline">> \o s : s \in Texts}
    \cup SeqOf({"#", "!", "a", "newline"}, 5)

=============================================================================
