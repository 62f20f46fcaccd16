-------------------------------- MODULE Lexer -------------------------------
(***************************************************************************)
(* The lexer of the CGI language, lang/src/lexer.cpp: nextToken() and what   *)
(* it calls.                                                                *)
(*                                                                         *)
(* A source is a sequence of characters; positions count from 0, as in the   *)
(* code, and beyond the end every character is NUL.  A token has the type,    *)
(* the positions of its first character and behind its last, the decoded text *)
(* of a string, and the line and column the code gives it.                    *)
(***************************************************************************)
EXTENDS Integers, SequencesExt

CONSTANTS
  Letters, Digits,   (* the letters, among them "e" perhaps; the digits        *)
  Keywords           (* sequences of letters                                  *)

NUL    == "NUL"
Spaces == {" ", "tab", "newline"}
Signs  == {"+", "-"}
Marks  == Signs \cup Spaces
            \cup {NUL, ".", "_", "*", "/", "%", "=", "<", ">", "!", ";", ",", ":", "(", ")",
                  "{", "}", "quote", "backslash", "$", "#"}

(* isalpha() and isdigit() tell them apart.                                   *)
ASSUME CharacterAssumption ==
  Letters \cap Digits = {} /\ (Letters \cup Digits) \cap Marks = {}

VARIABLES
  source, position, line, column,   (* the fields of the Lexer                 *)
  tokens                            (* what nextToken() has returned           *)

vars == <<source, position, line, column, tokens>>

-----------------------------------------------------------------------------
(* Scanning s from position p.                                               *)

At(s, p) == IF p < Len(s) THEN s[p + 1] ELSE NUL

(* The first position from p on where the character is not in C, a set that   *)
(* does not contain NUL.                                                     *)
Past(s, p, C) == Min({q \in p .. Len(s) + 2 : q >= p /\ At(s, q) \notin C})

(* A comment that is not closed goes on to the end; the first two characters   *)
(* are skipped before its end is looked for.                                 *)
MutCommentStop(s, p) ==
  Min({q \in p + 1 .. Len(s) + 2 : At(s, q) = NUL \/ (At(s, q) = "*" /\ At(s, q + 1) = "/")})
CommentStop(s, p) ==
  Min({q \in p + 2 .. Len(s) + 2 : At(s, q) = NUL \/ (At(s, q) = "*" /\ At(s, q + 1) = "/")})
PastComment(s, p) ==
  IF ~(At(s, p) = "/" /\ At(s, p + 1) = "*") THEN p
  ELSE IF At(s, CommentStop(s, p)) = NUL THEN CommentStop(s, p)
  ELSE CommentStop(s, p) + 2

(* skipWhitespace(); skipComment(); skipWhitespace(): one comment at most.     *)
MutTokenStart(s, p) == PastComment(s, Past(s, p, Spaces))
TokenStart(s, p) == Past(s, PastComment(s, Past(s, p, Spaces)), Spaces)

(* A sign belongs to the digit behind it.                                     *)
IsNumber(s, p) == At(s, p) \in Digits \/ (At(s, p) \in Signs /\ At(s, p + 1) \in Digits)

(* readNumber(): sign, digits, fraction, exponent.                            *)
Integral(s, p) == Past(s, IF At(s, p) \in Signs THEN p + 1 ELSE p, Digits)
Fraction(s, p) == IF At(s, p) = "." THEN Past(s, p + 1, Digits) ELSE p
Exponent(s, p) ==
  IF At(s, p) # "e" THEN p
  ELSE Past(s, IF At(s, p + 1) \in Signs THEN p + 2 ELSE p + 1, Digits)
NumberEnd(s, p) == Exponent(s, Fraction(s, Integral(s, p)))

(* readString(): where the string that begins behind the quote at p stops; a   *)
(* backslash takes the next character with it, whatever it is.               *)
StringStop(s, p) ==
  LET stop[q \in p + 1 .. Len(s) + 2] ==
        IF At(s, q) \in {"quote", NUL} THEN q
        ELSE stop[q + (IF At(s, q) = "backslash" THEN 2 ELSE 1)]
  IN  stop[p + 1]

(* The text between p and stop: an unknown escape stands for itself.          *)
MutEscaped(c) == IF c = "n" THEN <<"newline">> ELSE <<"backslash", c>>
Escaped(c) == IF c = "n" THEN <<"newline">>
              ELSE IF c = "t" THEN <<"tab">>
              ELSE IF c \in {"quote", "backslash"} THEN <<c>>
              ELSE <<"backslash", c>>
StringText(s, p, stop) ==
  LET text[q \in p .. Len(s) + 2] ==
        IF q >= stop THEN <<>>
        ELSE IF At(s, q) = "backslash" THEN Escaped(At(s, q + 1)) \o text[q + 2]
        ELSE <<At(s, q)>> \o text[q + 1]
  IN  text[p]

Alnum == Letters \cup Digits \cup {"_"}

(* One or two characters; "=" may follow some.                               *)
Singles == {"+", "-", "*", "/", "%", "=", "<", ">", ";", ",", ":", "(", ")", "{", "}"}
OperatorEnd(s, p) == IF At(s, p) \in {"=", "<", ">", "!"} /\ At(s, p + 1) = "="
                       THEN p + 2 ELSE p + 1

(* advance(); return Token(TokenType::ERROR, ...)                            *)
MutErrorEnd(p) == p
ErrorEnd(p) == p + 1

Token(type, from, to, text, named) ==
  [type |-> type, from |-> from, to |-> to, text |-> text, named |-> named]

(* nextToken() with the token beginning at p; named is the position whose line *)
(* and column the token gets.                                                *)
Scan(s, p) ==
  LET c == At(s, p) IN
  CASE c = NUL -> Token("END_OF_FILE", p, p, <<>>, p)
    [] IsNumber(s, p) ->
         Token(IF NumberEnd(s, p) = Integral(s, p) THEN "INTEGER" ELSE "REALNUM",
               p, NumberEnd(s, p), <<>>, NumberEnd(s, p))
    [] c = "quote" /\ At(s, StringStop(s, p)) = "quote" ->
         Token("STRINGLIT", p, StringStop(s, p) + 1,
               StringText(s, p + 1, StringStop(s, p)), StringStop(s, p) + 1)
    [] c = "quote" /\ At(s, StringStop(s, p)) # "quote" ->
         Token("ERROR", p, StringStop(s, p), <<>>, p)
    [] c = "$" ->
         Token(IF Past(s, p + 1, Alnum) = p + 1 THEN "ERROR" ELSE "ENV_VAR",
               p, Past(s, p + 1, Alnum), <<>>, p)
    [] c \in Letters \cup {"_"} ->
         Token(IF SubSeq(s, p + 1, Past(s, p, Alnum)) \in Keywords
                 THEN "KEYWORD" ELSE "IDENTIFIER",
               p, Past(s, p, Alnum), <<>>, p)
    [] (c \in Singles \/ (c = "!" /\ At(s, p + 1) = "=")) /\ ~IsNumber(s, p) ->
         Token("OPERATOR", p, OperatorEnd(s, p), <<>>, p)
    [] OTHER -> Token("ERROR", p, ErrorEnd(p), <<>>, p)

-----------------------------------------------------------------------------
(* The state.                                                                *)

(* Lexer::Lexer(), but for the source, which is there when nextToken() is      *)
(* called.                                                                   *)
Constructed ==
  /\ source = <<>>
  /\ position = 0 /\ line = 1 /\ column = 0
  /\ tokens = <<>>

(* advance() from position to p: a newline begins a line.                     *)
Newlines(p) == {q \in position .. p - 1 : At(source, q) = "newline"}
MutColumnAt(p) == column + (p - position)
ColumnAt(p) == IF Newlines(p) = {} THEN column + (p - position) ELSE p - Max(Newlines(p)) - 1
LineAt(p)   == line + Cardinality(Newlines(p))

Ended == tokens # <<>> /\ Last(tokens).type = "END_OF_FILE"

(* A call of nextToken(); the parser makes one or two more at the end of the   *)
(* file, of which one is modelled.                                           *)
NextToken ==
  /\ ~(Ended /\ Len(tokens) > 1 /\ tokens[Len(tokens) - 1].type = "END_OF_FILE")
  /\ LET t == Scan(source, TokenStart(source, position)) IN
       /\ tokens' = Append(tokens, [type |-> t.type, from |-> t.from, to |-> t.to,
                                    text |-> t.text, line |-> LineAt(t.named),
                                    column |-> ColumnAt(t.named)])
       /\ position' = t.to
       /\ line' = LineAt(t.to) /\ column' = ColumnAt(t.to)
  /\ UNCHANGED source

-----------------------------------------------------------------------------

(* The characters of the source from one position to another.                 *)
Between(from, to) == SubSeq(source, from + 1, IF to < Len(source) THEN to ELSE Len(source))

(* Blanks, a comment perhaps, and blanks.  A comment is "/*" up to the first   *)
(* "*/" behind it, or up to the end of the source.                           *)
IsComment(s, atEnd) ==
  /\ Len(s) >= 2 /\ s[1] = "/" /\ s[2] = "*"
  /\ LET ends == {q \in 3 .. Len(s) - 1 : s[q] = "*" /\ s[q + 1] = "/"}
     IN  ends = {Len(s) - 1} \/ (ends = {} /\ atEnd)
IsGap(s, atEnd) ==
  \E i, j \in 0 .. Len(s) :
    /\ i <= j
    /\ ToSet(SubSeq(s, 1, i)) \cup ToSet(SubSeq(s, j + 1, Len(s))) \subseteq Spaces
    /\ i = j \/ IsComment(SubSeq(s, i + 1, j), atEnd /\ j = Len(s))

(* Tokens follow each other in the source; between two there is nothing but    *)
(* blanks and at most one comment.                                           *)
NothingLost ==
  \A i \in DOMAIN tokens :
    LET before == IF i = 1 THEN 0 ELSE tokens[i - 1].to IN
      /\ before <= tokens[i].from
      /\ IsGap(Between(before, tokens[i].from), At(source, tokens[i].from) = NUL)

(* The tokens that the whole of s has, before its end.                        *)
LexAll(s) ==
  LET all[p \in 0 .. Len(s) + 2] ==
        LET t == Scan(s, TokenStart(s, p)) IN
          IF t.type = "END_OF_FILE" THEN <<>>
          ELSE <<[type |-> t.type, text |-> t.text]>> \o all[t.to]
  IN  all[0]

(* Only blanks and comments separate tokens: written with single blanks       *)
(* between them, those before the end are the same tokens.                    *)
Relexes ==
  Ended =>
    LET end    == Min({i \in DOMAIN tokens : tokens[i].type = "END_OF_FILE"})
        real   == SubSeq(tokens, 1, end - 1)
        joined == FlattenSeq([i \in DOMAIN real |-> Between(real[i].from, real[i].to) \o <<" ">>])
    IN  LexAll(joined) = [i \in DOMAIN real |-> [type |-> real[i].type, text |-> real[i].text]]

(* A string literal keeps its text: quoted again, it is read as the same text. *)
Quote(text) ==
  <<"quote">> \o FlattenSeq([i \in DOMAIN text |->
     IF text[i] = "newline" THEN <<"backslash", "n">>
     ELSE IF text[i] = "tab" THEN <<"backslash", "t">>
     ELSE IF text[i] \in {"quote", "backslash"} THEN <<"backslash", text[i]>>
     ELSE <<text[i]>>]) \o <<"quote">>
StringsKeepText ==
  \A i \in DOMAIN tokens :
    tokens[i].type = "STRINGLIT" /\ NUL \notin ToSet(tokens[i].text) =>
      LexAll(Quote(tokens[i].text)) = <<[type |-> "STRINGLIT", text |-> tokens[i].text]>>

(* A token has the line and the column where it begins, a number and a string  *)
(* the ones where it ends, however the lines of comments and strings went.    *)
LinesBefore(p) == {q \in 0 .. p - 1 : At(source, q) = "newline"}
NamedPosition(t) == IF t.type \in {"INTEGER", "REALNUM", "STRINGLIT"} THEN t.to ELSE t.from
PositionsRight ==
  \A i \in DOMAIN tokens :
    LET p == NamedPosition(tokens[i]) IN
      /\ tokens[i].line = 1 + Cardinality(LinesBefore(p))
      /\ tokens[i].column = p - (IF LinesBefore(p) = {} THEN 0 ELSE Max(LinesBefore(p)) + 1)

(* Every call gets on in the source or returns the end, and after the end      *)
(* there is only the end.                                                    *)
GetsOn ==
  [][tokens' # <<>> =>
       /\ position' > position \/ Last(tokens').type = "END_OF_FILE"
       /\ Ended => Last(tokens').type = "END_OF_FILE"]_vars

=============================================================================
