--------------------------- MODULE LanguageProofs ----------------------------
(***************************************************************************)
(* What holds of the CGI language before the parser and behind it: theorems   *)
(* about Scripts, and about Interpreter.                                      *)
(*                                                                         *)
(* Before: that a script with a shebang reaches the lexer whole, for every     *)
(* file; and that the lexer gets on in it, leaves nothing of it out but blanks  *)
(* and comments, and knows the line and the column where it is.  Its strings    *)
(* keep their texts, and blanks separate its tokens.                           *)
(*                                                                         *)
(* Behind: what holds of every program that the interpreter runs, whatever its *)
(* trees, its input and its environment are.                                  *)
(***************************************************************************)
EXTENDS Scripts, Interpreter, SequenceLemmas, FiniteSetTheorems, TLAPS

-----------------------------------------------------------------------------
(* Scripts.                                                                  *)

(* The characters of a file, those that the lexer tells apart among them.      *)
Chars == STRING \cup Marks \cup {"n", "t"}

LEMMA FilesOfChars == \A f \in Files : f \in Seq(Chars)
<1>1. ASSUME NEW f \in Seq(STRING) PROVE f \in Seq(Chars)
  <2>1. f \in [1 .. Len(f) -> Chars] /\ Len(f) \in Nat
    BY LenProperties DEF Chars
  <2>. QED
    BY <2>1, SeqDef
<1>. QED
  BY <1>1, FileAssumption

(* The lines of a file.                                                      *)
First == IF Launcher!Shebang(file) THEN <<>> ELSE Launcher!FirstLine(file)
Below == Launcher!Following(file)

-----------------------------------------------------------------------------

LEMMA MinExists ==
  ASSUME NEW S \in SUBSET Nat, S # {}
  PROVE  Launcher!Min(S) \in S /\ \A y \in S : Launcher!Min(S) <= y
<1>1. \E x \in S : \A y \in S : x <= y
  BY LeastNumber
<1>. QED
  BY <1>1 DEF Launcher!Min

(* The end of the first line, and what is behind it.                          *)
LEMMA FirstNewline ==
  ASSUME NEW s \in Seq(Chars), Launcher!Newlines(s) # {}
  PROVE  \E m \in 1 .. Len(s) :
           /\ s[m] = "newline"
           /\ Launcher!FirstLine(s) = SubSeq(s, 1, m - 1)
           /\ Launcher!Following(s) = SubSeq(s, m + 1, Len(s))
<1>1. Launcher!Newlines(s) \in SUBSET Nat
  BY DEF Launcher!Newlines
<1>2. Launcher!Min(Launcher!Newlines(s)) \in Launcher!Newlines(s)
  BY <1>1, MinExists
<1> DEFINE m == Launcher!Min(Launcher!Newlines(s))
<1>3. m \in 1 .. Len(s) /\ s[m] = "newline"
  BY <1>2 DEF Launcher!Newlines
<1>4. /\ Launcher!FirstLine(s) = SubSeq(s, 1, m - 1)
      /\ Launcher!Following(s) = SubSeq(s, m + 1, Len(s))
  BY DEF Launcher!FirstLine, Launcher!Following
<1> QED
  BY <1>3, <1>4

LEMMA NoNewline ==
  ASSUME NEW s, Launcher!Newlines(s) = {}
  PROVE  Launcher!FirstLine(s) = s /\ Launcher!Following(s) = <<>>
BY DEF Launcher!FirstLine, Launcher!Following

LEMMA FollowingType ==
  ASSUME NEW s \in Seq(Chars)
  PROVE  Launcher!Following(s) \in Seq(Chars)
<1>1. CASE Launcher!Newlines(s) = {}
  <2>1. Launcher!Following(s) = <<>>
    BY <1>1, NoNewline
  <2> QED
    BY <2>1, EmptySeq
<1>2. CASE Launcher!Newlines(s) # {}
  <2>1. PICK m \in 1 .. Len(s) : Launcher!Following(s) = SubSeq(s, m + 1, Len(s))
    BY <1>2, FirstNewline
  <2> QED
    BY <2>1
<1> QED
  BY <1>1, <1>2

(* A shebang is on the first line, which is cleared.                          *)
LEMMA ShebangCleared ==
  ASSUME NEW s \in Seq(Chars), Launcher!Shebang(s)
  PROVE  Launcher!Kept(Launcher!FirstLine(s)) = <<>>
<1>1. Len(s) >= 2 /\ s[1] = "#" /\ s[2] = "!"
  <2>1. 2 <= Len(s) /\ SubSeq(<<"#", "!">>, 1, 2) = SubSeq(s, 1, 2)
    BY DEF Launcher!Shebang, Launcher!IsPrefix
  <2>2. SubSeq(<<"#", "!">>, 1, 2)[1] = "#" /\ SubSeq(<<"#", "!">>, 1, 2)[2] = "!"
    OBVIOUS
  <2>3. SubSeq(s, 1, 2)[1] = s[1] /\ SubSeq(s, 1, 2)[2] = s[2]
    BY <2>1
  <2> QED
    BY <2>1, <2>2, <2>3
<1>2. CASE Launcher!Newlines(s) = {}
  BY <1>2, NoNewline DEF Launcher!Kept
<1>3. CASE Launcher!Newlines(s) # {}
  <2>1. PICK m \in 1 .. Len(s) : s[m] = "newline" /\ Launcher!FirstLine(s) = SubSeq(s, 1, m - 1)
    BY <1>3, FirstNewline
  <2>2. m >= 3
    BY <1>1, <2>1
  <2>3. Launcher!Shebang(SubSeq(s, 1, m - 1))
    <3>1. Len(SubSeq(s, 1, m - 1)) = m - 1
      BY <2>1, <2>2
    <3>2. SubSeq(SubSeq(s, 1, m - 1), 1, 2) = SubSeq(s, 1, 2)
      BY <2>1, <2>2
    <3> QED
      BY <2>2, <3>1, <3>2 DEF Launcher!Shebang, Launcher!IsPrefix
  <2> QED
    BY <2>1, <2>3 DEF Launcher!Kept
<1> QED
  BY <1>2, <1>3

(* A line that is no shebang is kept.                                         *)
LEMMA OtherKept ==
  ASSUME NEW s \in Seq(Chars), ~Launcher!Shebang(s)
  PROVE  Launcher!Kept(Launcher!FirstLine(s)) = Launcher!FirstLine(s)
<1>1. CASE Launcher!Newlines(s) = {}
  BY <1>1, NoNewline DEF Launcher!Kept
<1>2. CASE Launcher!Newlines(s) # {}
  <2>1. PICK m \in 1 .. Len(s) : Launcher!FirstLine(s) = SubSeq(s, 1, m - 1)
    BY <1>2, FirstNewline
  <2> DEFINE f == SubSeq(s, 1, m - 1)
  <2>2. Len(f) = m - 1 /\ Len(s) \in Nat
    BY <2>1
  <2>3. ASSUME Launcher!Shebang(f) PROVE FALSE
    <3>1. 2 <= Len(f) /\ SubSeq(<<"#", "!">>, 1, 2) = SubSeq(f, 1, 2)
      BY <2>3 DEF Launcher!Shebang, Launcher!IsPrefix
    <3>2. SubSeq(f, 1, 2) = SubSeq(s, 1, 2) /\ 2 <= Len(s)
      BY <2>1, <2>2, <3>1
    <3>. QED
      BY <3>1, <3>2 DEF Launcher!Shebang, Launcher!IsPrefix
  <2>. QED
    BY <2>1, <2>3 DEF Launcher!Kept
<1>. QED
  BY <1>1, <1>2

-----------------------------------------------------------------------------
(* What the launcher has read at every step.                                  *)

Rest(n) == SubSeq(Below, n + 1, Len(Below))

Whole ==
  /\ file \in Seq(Chars)
  /\ pc = "getline" => rest = file /\ (good \/ file = <<>>)
  /\ pc = "ignore" => firstLine = First /\ rest = Below /\ (good \/ Below = <<>>)
  /\ pc = "rest" => /\ firstLine = First /\ (good \/ rest = <<>>)
                    /\ \E n \in 0 .. 1 : n <= Len(Below) /\ rest = Rest(n)
  /\ pc = "handle" => \E n \in 0 .. 1 : n <= Len(Below) /\ script = First \o Rest(n)
  /\ ScriptKept

LEMMA WholeAtFirst == Init => Whole
BY FilesOfChars DEF Init, Launcher!Init, Whole, ScriptKept

LEMMA GetLineStep ==
  ASSUME Whole, Launcher!GetLine
  PROVE  Whole'
<1>1. /\ pc = "getline" /\ pc' = "ignore" /\ file' = file /\ rest = file
      /\ good \/ file = <<>>
      /\ file \in Seq(Chars)
  BY DEF Launcher!GetLine, Whole
<1>2. /\ firstLine' = IF good THEN Launcher!Kept(Launcher!FirstLine(rest)) ELSE <<>>
      /\ rest' = Launcher!Following(rest)
      /\ good' = (good /\ Launcher!Newlines(rest) # {})
  BY DEF Launcher!GetLine
<1>3. First' = First /\ Below' = Below
  BY <1>1 DEF First, Below
<1>4. Launcher!Kept(Launcher!FirstLine(file)) = First
  BY <1>1, ShebangCleared, OtherKept DEF First
<1>5. firstLine' = First
  <2>1. CASE good
    BY <1>1, <1>2, <1>4, <2>1
  <2>2. CASE ~good
    <3>1. file = <<>>
      BY <1>1, <2>2
    <3>2. Launcher!Newlines(file) = {}
      BY <3>1 DEF Launcher!Newlines
    <3>3. First = <<>>
      BY <3>1, <3>2, NoNewline DEF First
    <3>. QED
      BY <1>2, <2>2, <3>3
  <2>. QED
    BY <2>1, <2>2
<1>6. rest' = Below
  BY <1>1, <1>2 DEF Below
<1>7. good' \/ Below = <<>>
  <2>1. CASE Launcher!Newlines(file) = {}
    BY <2>1, NoNewline DEF Below
  <2>2. CASE Launcher!Newlines(file) # {}
    <3>1. file # <<>>
      BY <2>2 DEF Launcher!Newlines
    <3> QED
      BY <1>1, <1>2, <2>2, <3>1
  <2> QED
    BY <2>1, <2>2
<1> QED
  BY <1>1, <1>3, <1>5, <1>6, <1>7 DEF Whole, ScriptKept

LEMMA IgnoreStep ==
  ASSUME Whole, Launcher!Ignore
  PROVE  Whole'
<1>1. /\ pc = "ignore" /\ pc' = "rest" /\ file' = file /\ firstLine' = firstLine
      /\ rest' = Launcher!Ignored /\ good' = (good /\ rest # <<>>)
  BY DEF Launcher!Ignore
<1>2. First' = First /\ Below' = Below /\ Below \in Seq(Chars)
  BY <1>1, FollowingType DEF First, Below, Whole
<1>3. firstLine = First /\ rest = Below /\ (good \/ Below = <<>>)
  BY <1>1 DEF Whole
<1>4. /\ good' \/ rest' = <<>>
      /\ \E n \in 0 .. 1 : n <= Len(Below) /\ rest' = Rest(n)
  <2>1. CASE Below = <<>>
    <3>1. rest' = Below /\ Len(Below) = 0
      BY <1>1, <1>3, <2>1 DEF Launcher!Ignored
    <3>2. rest' = Rest(0)
      BY <1>2, <3>1, SubSeqFull DEF Rest
    <3>. QED
      BY <2>1, <3>1, <3>2
  <2>2. CASE Below # <<>>
    <3>1. rest' = Tail(Below) /\ good'
      BY <1>1, <1>3, <2>2 DEF Launcher!Ignored
    <3>2. Tail(Below) = SubSeq(Below, 2, Len(Below)) /\ 1 <= Len(Below)
      BY <1>2, <2>2, TailIsSubSeq, EmptySeq, LenProperties
    <3>3. rest' = Rest(1)
      BY <3>1, <3>2 DEF Rest
    <3>. QED
      BY <3>1, <3>2, <3>3
  <2>. QED
    BY <2>1, <2>2
<1> QED
  BY <1>1, <1>2, <1>3, <1>4 DEF Whole, ScriptKept, Rest

LEMMA ReadRestStep ==
  ASSUME Whole, Launcher!ReadRest
  PROVE  Whole'
<1>1. /\ pc = "rest" /\ pc' = "handle" /\ file' = file
      /\ script' = firstLine \o (IF good THEN rest ELSE <<>>)
  BY DEF Launcher!ReadRest
<1>2. First' = First /\ Below' = Below
  BY <1>1 DEF First, Below
<1>3. script' = First \o rest /\ \E n \in 0 .. 1 : n <= Len(Below) /\ rest = Rest(n)
  BY <1>1 DEF Whole
<1> QED
  BY <1>1, <1>2, <1>3 DEF Whole, ScriptKept, Rest

(* The lexer does not touch its source.                                       *)
LEMMA LexerStep ==
  ASSUME Whole, Handle \/ Lex
  PROVE  Whole'
<1>1. file' = file /\ pc' = "lexing"
  BY DEF Handle, Lex, launcherVars
<1>2. First' = First /\ Below' = Below
  BY <1>1 DEF First, Below
<1>3. \E n \in 0 .. 1 : n <= Len(Below) /\ source' = First \o Rest(n)
  <2>1. CASE Handle
    BY <2>1 DEF Handle, Whole
  <2>2. CASE Lex
    BY <2>2 DEF Lex, NextToken, Whole, ScriptKept, First, Below, Rest
  <2> QED
    BY <2>1, <2>2
<1> QED
  BY <1>1, <1>2, <1>3 DEF Whole, ScriptKept, First, Below, Rest

(* Of every file the lexer gets the first line, if it is no shebang, and what   *)
(* is below it but for one character, however the reads of main() divide it.   *)
THEOREM ScriptsKept == Spec => []ScriptKept
<1>1. Whole /\ [Next]_<<launcherVars, vars>> => Whole'
  <2>1. SUFFICES ASSUME Whole, [Next]_<<launcherVars, vars>>
                 PROVE  Whole'
    OBVIOUS
  <2>2. CASE Launch
    BY <2>1, <2>2, GetLineStep, IgnoreStep, ReadRestStep DEF Launch, Launcher!Next
  <2>3. CASE Handle \/ Lex
    BY <2>1, <2>3, LexerStep
  <2>4. CASE UNCHANGED <<launcherVars, vars>>
    BY <2>1, <2>4 DEF launcherVars, vars, Whole, ScriptKept, First, Below, Rest
  <2> QED
    BY <2>1, <2>2, <2>3, <2>4 DEF Next
<1>2. Whole => ScriptKept
  BY DEF Whole
<1> QED
  BY WholeAtFirst, <1>1, <1>2, PTL DEF Spec

-----------------------------------------------------------------------------
(* Scanning.                                                                 *)

LEMMA LeastOf ==
  ASSUME NEW S \in SUBSET Nat, S # {}
  PROVE  Min(S) \in S /\ \A y \in S : Min(S) <= y
<1>1. \E x \in S : \A y \in S : x <= y
  BY LeastNumber
<1>. QED
  BY <1>1 DEF Min

LEMMA AtEnd ==
  ASSUME NEW s \in Seq(Chars), NEW p \in Nat
  PROVE  /\ p >= Len(s) => At(s, p) = NUL
         /\ At(s, p) # NUL => p < Len(s)
BY DEF At

(* From p one gets over characters of C to r, and not further.               *)
Skips(s, p, r, C) ==
  /\ r \in Nat /\ p <= r /\ r <= Len(s) + 2
  /\ At(s, r) \notin C
  /\ \A q \in Nat : p <= q /\ q < r => At(s, q) \in C
  /\ p <= Len(s) => r <= Len(s)

LEMMA PastSkips ==
  ASSUME NEW s \in Seq(Chars), NEW p \in Nat, p <= Len(s) + 2, NEW C, NUL \notin C
  PROVE  Skips(s, p, Past(s, p, C), C)
<1> DEFINE S == {q \in p .. Len(s) + 2 : q >= p /\ At(s, q) \notin C}
<1>1. Len(s) + 2 \in S
  BY AtEnd
<1>2. S \in SUBSET Nat
  OBVIOUS
<1>3. Min(S) \in S /\ \A y \in S : Min(S) <= y
  <2> HIDE DEF S
  <2>. QED
    BY <1>1, <1>2, LeastOf
<1> DEFINE r == Past(s, p, C)
<1>4. r \in S /\ \A y \in S : r <= y
  BY <1>3 DEF Past
<1> HIDE DEF r
<1>5. r \in Nat /\ p <= r /\ r <= Len(s) + 2 /\ At(s, r) \notin C
  BY <1>4
<1>6. \A q \in Nat : p <= q /\ q < r => At(s, q) \in C
  BY <1>4, <1>5
<1>7. p <= Len(s) => r <= Len(s)
  <2>1. At(s, Len(s)) = NUL /\ Len(s) \in Nat
    BY AtEnd
  <2>. QED
    BY <1>4, <1>5, <2>1
<1>. QED
  BY <1>5, <1>6, <1>7 DEF Skips, r

(* A comment begins at p.                                                    *)
Opens(s, p) == At(s, p) = "/" /\ At(s, p + 1) = "*"
Closes(s, q) == At(s, q) = "*" /\ At(s, q + 1) = "/"

(* A comment that begins at p is open up to r, and not further.              *)
Comments(s, p, r) ==
  /\ r \in Nat /\ p + 2 <= r /\ r <= Len(s)
  /\ At(s, r) = NUL \/ Closes(s, r)
  /\ \A q \in Nat : p + 2 <= q /\ q < r => At(s, q) # NUL /\ ~Closes(s, q)

LEMMA CommentStops ==
  ASSUME NEW s \in Seq(Chars), NEW p \in Nat, Opens(s, p)
  PROVE  Comments(s, p, CommentStop(s, p))
<1> DEFINE S == {q \in p + 2 .. Len(s) + 2 : At(s, q) = NUL \/ (At(s, q) = "*" /\ At(s, q + 1) = "/")}
<1>1. p + 2 <= Len(s) /\ Len(s) \in Nat
  BY AtEnd DEF Opens, NUL
<1>2. Len(s) \in S
  BY <1>1, AtEnd
<1>3. S \in SUBSET Nat
  OBVIOUS
<1>4. Min(S) \in S /\ \A y \in S : Min(S) <= y
  <2> HIDE DEF S
  <2>. QED
    BY <1>2, <1>3, LeastOf
<1> DEFINE r == CommentStop(s, p)
<1>5. r \in S /\ \A y \in S : r <= y
  BY <1>4 DEF CommentStop
<1> HIDE DEF r
<1>6. r \in Nat /\ p + 2 <= r /\ r <= Len(s) /\ (At(s, r) = NUL \/ Closes(s, r))
  BY <1>1, <1>2, <1>5 DEF Closes
<1>7. \A q \in Nat : p + 2 <= q /\ q < r => At(s, q) # NUL /\ ~Closes(s, q)
  BY <1>1, <1>5, <1>6 DEF Closes
<1>. QED
  BY <1>6, <1>7 DEF Comments, r

(* From a to b there is nothing, or a comment, which may be open at the end.   *)
Remark(s, a, b) ==
  \/ a = b
  \/ /\ Opens(s, a) /\ b <= Len(s)
     /\ \/ /\ a + 4 <= b /\ Closes(s, b - 2)
           /\ \A q \in Nat : a + 2 <= q /\ q < b - 2 => ~Closes(s, q)
        \/ /\ a + 2 <= b /\ At(s, b) = NUL
           /\ \A q \in Nat : a + 2 <= q /\ q < b => ~Closes(s, q)

LEMMA PastCommentIs ==
  ASSUME NEW s \in Seq(Chars), NEW p \in Nat
  PROVE  /\ PastComment(s, p) \in Nat /\ p <= PastComment(s, p)
         /\ PastComment(s, p) = p \/ PastComment(s, p) <= Len(s)
         /\ Remark(s, p, PastComment(s, p))
<1>1. CASE ~Opens(s, p)
  BY <1>1 DEF PastComment, Opens, Remark
<1>2. CASE Opens(s, p)
  <2> DEFINE r == CommentStop(s, p)
  <2>1. Comments(s, p, r)
    BY <1>2, CommentStops
  <2>2. PastComment(s, p) = IF At(s, r) = NUL THEN r ELSE r + 2
    BY <1>2 DEF PastComment, Opens
  <2> HIDE DEF r
  <2>3. CASE At(s, r) = NUL
    BY <1>2, <2>1, <2>2, <2>3 DEF Comments, Remark
  <2>4. CASE At(s, r) # NUL
    <3>1. Closes(s, r) /\ r \in Nat /\ p + 2 <= r
      BY <2>1, <2>4 DEF Comments
    <3>2. r + 2 <= Len(s)
      BY <3>1, AtEnd DEF Closes, NUL
    <3>3. PastComment(s, p) = r + 2 /\ r + 2 - 2 = r
      BY <2>2, <2>4, <3>1
    <3>4. \A q \in Nat : p + 2 <= q /\ q < r => ~Closes(s, q)
      BY <2>1 DEF Comments
    <3>5. Remark(s, p, r + 2)
      BY <1>2, <3>1, <3>2, <3>3, <3>4 DEF Remark
    <3>. QED
      BY <3>1, <3>2, <3>3, <3>5
  <2>. QED
    BY <2>3, <2>4
<1>. QED
  BY <1>1, <1>2

(* Blanks from p to a, a comment perhaps from a to b, blanks from b to r.      *)
Gap(s, p, a, b, r) ==
  /\ a \in Nat /\ b \in Nat /\ r \in Nat
  /\ p <= a /\ a <= b /\ b <= r
  /\ \A q \in Nat : p <= q /\ q < a => At(s, q) \in Spaces
  /\ Remark(s, a, b)
  /\ \A q \in Nat : b <= q /\ q < r => At(s, q) \in Spaces

(* Where the next token begins there is no blank, and only a gap before it.    *)
Starts(s, p, r) ==
  /\ r \in Nat /\ p <= r /\ r <= Len(s) + 2
  /\ At(s, r) \notin Spaces
  /\ p <= Len(s) => r <= Len(s)
  /\ p > Len(s) => r = p
  /\ \E a, b \in Nat : Gap(s, p, a, b, r)

LEMMA SpacesAreNotNul == NUL \notin Spaces
BY DEF NUL, Spaces

LEMMA TokenStarts ==
  ASSUME NEW s \in Seq(Chars), NEW p \in Nat, p <= Len(s) + 2
  PROVE  Starts(s, p, TokenStart(s, p))
<1> DEFINE a == Past(s, p, Spaces)
           b == PastComment(s, a)
           r == Past(s, b, Spaces)
<1>1. Skips(s, p, a, Spaces)
  BY PastSkips, SpacesAreNotNul
<1>2. a \in Nat
  BY <1>1 DEF Skips
<1>3. b \in Nat /\ a <= b /\ (b = a \/ b <= Len(s)) /\ Remark(s, a, b)
  <2> HIDE DEF a
  <2>. QED
    BY <1>2, PastCommentIs
<1>4. b <= Len(s) + 2
  <2> HIDE DEF a, b
  <2>. QED
    BY <1>1, <1>3 DEF Skips
<1>5. Skips(s, b, r, Spaces)
  <2> HIDE DEF a, b
  <2>. QED
    BY <1>3, <1>4, PastSkips, SpacesAreNotNul
<1>6. TokenStart(s, p) = r
  BY DEF TokenStart
<1> HIDE DEF a, b, r
<1>7. r \in Nat /\ p <= a /\ b <= r /\ r <= Len(s) + 2 /\ At(s, r) \notin Spaces
  BY <1>1, <1>5 DEF Skips
<1>8. p <= Len(s) => r <= Len(s)
  BY <1>1, <1>3, <1>5 DEF Skips
<1>9. p > Len(s) => r = p
  <2>1. SUFFICES ASSUME p > Len(s) PROVE r = p
    OBVIOUS
  <2>2. At(s, p) \notin Spaces /\ Len(s) \in Nat
    BY <2>1, AtEnd, SpacesAreNotNul
  <2>3. a = p
    BY <1>1, <2>2 DEF Skips
  <2>4. b = p
    BY <1>3, <2>1, <2>2, <2>3
  <2>. QED
    BY <1>5, <2>2, <2>4 DEF Skips
<1>10. Gap(s, p, a, b, r)
  <2>1. \A q \in Nat : p <= q /\ q < a => At(s, q) \in Spaces
    BY <1>1 DEF Skips
  <2>2. \A q \in Nat : b <= q /\ q < r => At(s, q) \in Spaces
    BY <1>5 DEF Skips
  <2>. QED
    BY <1>2, <1>3, <1>7, <2>1, <2>2 DEF Gap
<1>11. Starts(s, p, r)
  BY <1>2, <1>3, <1>7, <1>8, <1>9, <1>10 DEF Starts
<1>. QED
  BY <1>6, <1>11

(* The characters of a part.                                                 *)
LEMMA PieceAt ==
  ASSUME NEW s \in Seq(Chars), NEW a \in Nat, NEW b \in Nat, a <= b, b <= Len(s)
  PROVE  /\ Part(s, a, b) \in Seq(Chars) /\ Len(Part(s, a, b)) = b - a
         /\ \A k \in 1 .. b - a : Part(s, a, b)[k] = At(s, a + k - 1)
<1>1. /\ Part(s, a, b) \in Seq(Chars) /\ Len(Part(s, a, b)) = b - a
      /\ \A i \in 1 .. b - a : Part(s, a, b)[i] = s[a + i]
  BY PartType
<1>2. ASSUME NEW k \in 1 .. b - a PROVE s[a + k] = At(s, a + k - 1)
  <2>1. a + k - 1 < Len(s) /\ (a + k - 1) + 1 = a + k
    OBVIOUS
  <2>. QED
    BY <2>1 DEF At
<1>. QED
  BY <1>1, <1>2

(* A part of blanks.                                                         *)
LEMMA Blanks ==
  ASSUME NEW s \in Seq(Chars), NEW a \in Nat, NEW b \in Nat, a <= b, b <= Len(s),
         \A q \in Nat : a <= q /\ q < b => At(s, q) \in Spaces
  PROVE  ToSet(Part(s, a, b)) \subseteq Spaces
<1> DEFINE g == Part(s, a, b)
<1>1. /\ g \in Seq(Chars) /\ Len(g) = b - a
      /\ \A k \in 1 .. b - a : g[k] = At(s, a + k - 1)
  BY PieceAt
<1> HIDE DEF g
<1>2. ASSUME NEW k \in DOMAIN g PROVE g[k] \in Spaces
  <2>1. k \in 1 .. b - a
    BY <1>1
  <2>2. a + k - 1 \in Nat /\ a <= a + k - 1 /\ a + k - 1 < b
    BY <2>1
  <2>. QED
    BY <1>1, <2>1, <2>2
<1>3. ToSet(g) \subseteq Spaces
  BY <1>2 DEF ToSet
<1>. QED
  BY <1>3 DEF g

(* A part that is a comment.                                                 *)
LEMMA RemarkIsComment ==
  ASSUME NEW s \in Seq(Chars), NEW a \in Nat, NEW b \in Nat, a <= b, b <= Len(s), a # b,
         Remark(s, a, b)
  PROVE  IsComment(Part(s, a, b), At(s, b) = NUL)
<1> DEFINE g == Part(s, a, b)
           n == b - a
           ends == {q \in 3 .. Len(g) - 1 : g[q] = "*" /\ g[q + 1] = "/"}
<1>1. /\ g \in Seq(Chars) /\ Len(g) = n
      /\ \A k \in 1 .. n : g[k] = At(s, a + k - 1)
  BY PieceAt
<1> HIDE DEF g
<1>2. Opens(s, a) /\ a + 2 <= b
  BY DEF Remark
<1>3. n >= 2 /\ g[1] = "/" /\ g[2] = "*"
  <2>1. n >= 2 /\ a + 1 - 1 = a /\ a + 2 - 1 = a + 1
    BY <1>2
  <2>. QED
    BY <1>1, <1>2, <2>1 DEF Opens
<1>4. ASSUME NEW q \in 3 .. n - 1
      PROVE  (g[q] = "*" /\ g[q + 1] = "/") <=> Closes(s, a + q - 1)
  <2>1. q \in 1 .. n /\ q + 1 \in 1 .. n /\ a + (q + 1) - 1 = (a + q - 1) + 1
    OBVIOUS
  <2>. QED
    BY <1>1, <2>1 DEF Closes
<1>5. ends = {n - 1} \/ (ends = {} /\ At(s, b) = NUL)
  <2>1. ends = {q \in 3 .. n - 1 : Closes(s, a + q - 1)}
    BY <1>1, <1>4
  <2>2. CASE /\ a + 4 <= b /\ Closes(s, b - 2)
             /\ \A q \in Nat : a + 2 <= q /\ q < b - 2 => ~Closes(s, q)
    <3>1. n - 1 \in 3 .. n - 1 /\ a + (n - 1) - 1 = b - 2
      BY <2>2
    <3>2. ASSUME NEW q \in 3 .. n - 1, Closes(s, a + q - 1) PROVE q = n - 1
      <4>1. a + q - 1 \in Nat /\ a + 2 <= a + q - 1
        OBVIOUS
      <4>2. ~(a + q - 1 < b - 2)
        BY <2>2, <3>2, <4>1
      <4>. QED
        BY <4>2
    <3>. QED
      BY <2>1, <2>2, <3>1, <3>2
  <2>3. CASE /\ At(s, b) = NUL
             /\ \A q \in Nat : a + 2 <= q /\ q < b => ~Closes(s, q)
    <3>1. ASSUME NEW q \in 3 .. n - 1 PROVE ~Closes(s, a + q - 1)
      <4>1. a + q - 1 \in Nat /\ a + 2 <= a + q - 1 /\ a + q - 1 < b
        OBVIOUS
      <4>. QED
        BY <2>3, <4>1
    <3>. QED
      BY <2>1, <2>3, <3>1
  <2>. QED
    BY <2>2, <2>3 DEF Remark
<1>6. IsComment(g, At(s, b) = NUL)
  BY <1>1, <1>3, <1>5 DEF IsComment
<1>. QED
  BY <1>6 DEF g

(* What begins a token has nothing before it but a gap.                       *)
LEMMA GapIsGap ==
  ASSUME NEW s \in Seq(Chars), NEW p \in Nat, p <= Len(s), NEW r, Starts(s, p, r)
  PROVE  IsGap(Part(s, p, r), At(s, r) = NUL)
<1>1. /\ r \in Nat /\ p <= r /\ r <= Len(s) /\ At(s, r) \notin Spaces
  BY DEF Starts
<1>2. PICK a, b \in Nat : Gap(s, p, a, b, r)
  BY DEF Starts
<1>3. p <= a /\ a <= b /\ b <= r /\ Remark(s, a, b)
  BY <1>2 DEF Gap
<1> DEFINE g == Part(s, p, r)
<1>4. g \in Seq(Chars) /\ Len(g) = r - p
  BY <1>1, PieceAt
<1>5. PICK i \in Nat : p + i = a
  <2>1. a - p \in Nat /\ p + (a - p) = a
    BY <1>3
  <2>. QED
    BY <2>1
<1>6. PICK j \in Nat : p + j = b
  <2>1. b - p \in Nat /\ p + (b - p) = b
    BY <1>3
  <2>. QED
    BY <2>1
<1>7. PICK n \in Nat : p + n = r /\ n = r - p
  <2>1. r - p \in Nat /\ p + (r - p) = r
    BY <1>1
  <2>. QED
    BY <2>1
<1>8. 0 <= i /\ i <= j /\ j <= n /\ n <= r - p
  BY <1>3, <1>5, <1>6, <1>7
<1>9. Part(g, 0, i) = Part(s, p, a)
  <2>1. Part(g, 0, i) = Part(s, p + 0, p + i)
    <3>1. 0 \in Nat /\ 0 <= i /\ i <= r - p
      BY <1>1, <1>7, <1>8
    <3>. QED
      BY <1>1, <1>8, <3>1, PartOfPart
  <2>. QED
    BY <2>1, <1>5
<1>10. Part(g, i, j) = Part(s, a, b)
  <2>1. j <= r - p
    BY <1>1, <1>7, <1>8
  <2>2. Part(g, i, j) = Part(s, p + i, p + j)
    BY <1>1, <1>8, <2>1, PartOfPart
  <2>. QED
    BY <1>5, <1>6, <2>2
<1>11. Part(g, j, n) = Part(s, b, r)
  BY <1>1, <1>6, <1>7, <1>8, PartOfPart
<1>12. ToSet(Part(s, p, a)) \subseteq Spaces
  <2>1. a <= Len(s) /\ \A q \in Nat : p <= q /\ q < a => At(s, q) \in Spaces
    BY <1>1, <1>2, <1>3 DEF Gap
  <2>. QED
    BY <1>3, <2>1, Blanks
<1>13. ToSet(Part(s, b, r)) \subseteq Spaces
  <2>1. \A q \in Nat : b <= q /\ q < r => At(s, q) \in Spaces
    BY <1>2 DEF Gap
  <2>. QED
    BY <1>1, <1>3, <2>1, Blanks
<1>14. a # b => IsComment(Part(s, a, b), At(s, b) = NUL)
  <2>1. b <= Len(s)
    BY <1>1, <1>3
  <2>. QED
    BY <1>3, <2>1, RemarkIsComment
<1>15. At(s, b) = NUL => b = r
  <2>1. b < r => At(s, b) \in Spaces
    BY <1>2 DEF Gap
  <2>. QED
    BY <1>1, <1>3, <2>1, SpacesAreNotNul
<1>16. a # b => IsComment(Part(g, i, j), At(s, r) = NUL /\ j = n)
  <2>1. SUFFICES ASSUME a # b PROVE IsComment(Part(g, i, j), At(s, r) = NUL /\ j = n)
    OBVIOUS
  <2>2. (At(s, b) = NUL) <=> (At(s, r) = NUL /\ j = n)
    BY <1>6, <1>7, <1>15
  <2>. QED
    BY <1>10, <1>14, <2>1, <2>2 DEF IsComment
<1> HIDE DEF g
<1>17. IsGap(g, At(s, r) = NUL)
  <2>1. Len(g) = n /\ i \in 0 .. n /\ j \in 0 .. n /\ i <= j
    BY <1>4, <1>7, <1>8
  <2>2. ToSet(SubSeq(g, 1, i)) \cup ToSet(SubSeq(g, j + 1, Len(g))) \subseteq Spaces
    <3>1. SubSeq(g, 1, i) = Part(s, p, a)
      BY <1>9 DEF Part
    <3>2. SubSeq(g, j + 1, Len(g)) = Part(s, b, r)
      BY <1>11, <2>1 DEF Part
    <3>. QED
      BY <1>12, <1>13, <3>1, <3>2
  <2>3. i = j \/ IsComment(SubSeq(g, i + 1, j), At(s, r) = NUL /\ j = Len(g))
    <3>1. a = b => i = j
      BY <1>5, <1>6
    <3>2. a # b => IsComment(SubSeq(g, i + 1, j), At(s, r) = NUL /\ j = n)
      BY <1>16 DEF Part
    <3>. QED
      BY <2>1, <3>1, <3>2
  <2>. QED
    BY <2>1, <2>2, <2>3 DEF IsGap
<1>. QED
  BY <1>17 DEF g

-----------------------------------------------------------------------------
(* Tokens.                                                                   *)

(* A character is of one kind.                                               *)
LEMMA Kinds ==
  ASSUME NEW c
  PROVE  /\ c \in Digits => c \notin Letters \cup Signs \cup Singles \cup {NUL, "_", "!", "quote", "$"}
         /\ c \in Letters \cup {"_"} => c \notin Signs \cup Singles \cup {NUL, "!", "quote", "$"}
         /\ c \in Signs => c \notin {NUL, "quote", "$"}
         /\ c \in Singles \cup {"!"} => c \notin {NUL, "quote", "$"}
BY CharacterAssumption DEF Marks, NUL, Singles, Signs

LEMMA OneKind == "quote" # "$" /\ "quote" # NUL /\ "$" # NUL
BY DEF NUL

LEMMA CharSets ==
  /\ NUL \notin Digits /\ NUL \notin Letters /\ NUL \notin Alnum
  /\ NUL \notin Singles /\ NUL \notin Signs
  /\ \A c \in {".", "e"} : c # NUL
  /\ \A c \in {"quote", "$"} : c \notin Digits /\ c \notin Signs /\ c # NUL
BY CharacterAssumption DEF Marks, Alnum, NUL, Singles, Signs

(* What the function in StringStop does with one character.                   *)
Stops(s, b, f) ==
  f = [q \in b .. Len(s) + 2 |->
         IF At(s, q) \in {"quote", NUL} THEN q
         ELSE f[q + (IF At(s, q) = "backslash" THEN 2 ELSE 1)]]

(* A character that ends a string, or the text, at or behind q.               *)
Ends(s, q, r) == r \in Nat /\ q <= r /\ r <= Len(s) + 2 /\ At(s, r) \in {"quote", NUL}

LEMMA StopsExists ==
  ASSUME NEW s \in Seq(Chars), NEW b \in Nat, b <= Len(s) + 2
  PROVE  \E f : Stops(s, b, f)
<1> DEFINE m == Len(s) + 2
           Step(q) == q + (IF At(s, q) = "backslash" THEN 2 ELSE 1)
           From(a, f) == \A q \in a .. m : f[q] = IF At(s, q) \in {"quote", NUL} THEN q ELSE f[Step(q)]
           Good(n) == n <= m => \E f \in [m - n .. m -> Nat] : From(m - n, f)
<1>1. Len(s) \in Nat /\ m \in Nat
  OBVIOUS
<1>2. \A q \in Nat : At(s, q) \notin {"quote", NUL} => Step(q) \in Nat /\ q < Step(q) /\ Step(q) <= m
  BY AtEnd
<1>3. Good(0)
  <2> DEFINE f == [q \in m .. m |-> q]
  <2>1. f \in [m - 0 .. m -> Nat]
    BY <1>1
  <2>2. At(s, m) = NUL
    BY <1>1, AtEnd
  <2>3. From(m - 0, f)
    BY <1>1, <2>2
  <2> HIDE DEF From, f
  <2>. QED
    BY <2>1, <2>3
<1>4. ASSUME NEW n \in Nat, Good(n) PROVE Good(n + 1)
  <2>1. SUFFICES ASSUME n + 1 <= m
                 PROVE  \E f \in [m - (n + 1) .. m -> Nat] : From(m - (n + 1), f)
    OBVIOUS
  <2> HIDE DEF From, Step
  <2>2. n <= m
    BY <1>1, <2>1
  <2>3. PICK f \in [m - n .. m -> Nat] : From(m - n, f)
    BY <1>4, <2>2
  <2>4. PICK a \in Nat : a = m - (n + 1) /\ m - n = a + 1
    <3>1. m - (n + 1) \in Nat /\ m - n = (m - (n + 1)) + 1
      BY <1>1, <2>1
    <3>. QED
      BY <3>1
  <2> HIDE DEF m
  <2> DEFINE first == IF At(s, a) \in {"quote", NUL} THEN a ELSE f[Step(a)]
             h == [q \in a .. m |-> IF q = a THEN first ELSE f[q]]
  <2>5. a <= m
    BY <1>1, <2>1, <2>4
  <2>6. At(s, a) \notin {"quote", NUL} => Step(a) \in a + 1 .. m
    BY <1>1, <1>2, <2>4
  <2>7. first \in Nat
    BY <2>3, <2>4, <2>6
  <2> HIDE DEF first
  <2>8. h \in [a .. m -> Nat]
    BY <2>3, <2>4, <2>7
  <2>9. h[a] = first /\ \A q \in a + 1 .. m : h[q] = f[q]
    BY <1>1, <2>4, <2>5
  <2> HIDE DEF h
  <2>10. ASSUME NEW q \in a .. m
         PROVE  h[q] = IF At(s, q) \in {"quote", NUL} THEN q ELSE h[Step(q)]
    <3>1. CASE q = a
      <4>1. At(s, a) \notin {"quote", NUL} => h[Step(a)] = f[Step(a)]
        BY <2>6, <2>9
      <4>. QED
        BY <2>9, <3>1, <4>1 DEF first
    <3>2. CASE q # a
      <4>1. q \in a + 1 .. m
        BY <1>1, <3>2
      <4>2. At(s, q) \notin {"quote", NUL} => Step(q) \in a + 1 .. m
        BY <1>1, <1>2, <4>1
      <4>3. f[q] = IF At(s, q) \in {"quote", NUL} THEN q ELSE f[Step(q)]
        BY <2>3, <2>4, <4>1 DEF From
      <4>. QED
        BY <2>9, <4>1, <4>2, <4>3
    <3>. QED
      BY <3>1, <3>2
  <2>11. From(a, h)
    BY <2>10 DEF From
  <2>. QED
    BY <2>4, <2>8, <2>11
<1>5. \A n \in Nat : Good(n)
  <2> DEFINE G == {n \in Nat : Good(n)}
  <2> HIDE DEF Good
  <2>1. 0 \in G
    BY <1>3
  <2>2. \A n \in Nat : n \in G => n + 1 \in G
    BY <1>4
  <2>3. \A n \in Nat : n \in G
    <3> HIDE DEF G
    <3>. QED
      BY <2>1, <2>2, Induction
  <2>. QED
    BY <2>3
<1>6. PICK n \in Nat : n <= m /\ m - n = b
  <2>1. m - b \in Nat /\ m - b <= m /\ m - (m - b) = b
    BY <1>1
  <2>. QED
    BY <2>1
<1>7. PICK f \in [b .. m -> Nat] : From(b, f)
  <2> HIDE DEF From, m
  <2>. QED
    BY <1>5, <1>6
<1>8. f = [q \in b .. m |-> IF At(s, q) \in {"quote", NUL} THEN q ELSE f[Step(q)]]
  <2> HIDE DEF m, Step
  <2>. QED
    BY <1>7 DEF From
<1>9. Stops(s, b, f)
  BY <1>8 DEF Stops
<1>. QED
  BY <1>9

LEMMA StopsEnds ==
  ASSUME NEW s \in Seq(Chars), NEW b \in Nat, NEW f, Stops(s, b, f)
  PROVE  \A q \in b .. Len(s) + 2 : Ends(s, q, f[q])
<1> DEFINE m == Len(s) + 2
           Step(q) == q + (IF At(s, q) = "backslash" THEN 2 ELSE 1)
           Good(n) == \A q \in b .. m : m - n <= q => Ends(s, q, f[q])
<1>1. Len(s) \in Nat /\ m \in Nat
  OBVIOUS
<1>2. \A q \in Nat : At(s, q) \notin {"quote", NUL} => Step(q) \in Nat /\ q < Step(q) /\ Step(q) <= m
  BY AtEnd
<1>3. \A q \in b .. m : f[q] = IF At(s, q) \in {"quote", NUL} THEN q ELSE f[Step(q)]
  BY DEF Stops
<1> HIDE DEF Step
<1>4. Good(0)
  <2>1. At(s, m) \in {"quote", NUL}
    BY <1>1, AtEnd
  <2>2. ASSUME NEW q \in b .. m, m <= q PROVE Ends(s, q, f[q])
    <3>1. q = m
      BY <1>1, <2>2
    <3>2. f[q] = q
      BY <1>3, <2>1, <3>1
    <3>. QED
      BY <1>1, <2>1, <3>1, <3>2 DEF Ends
  <2>. QED
    BY <1>1, <2>2
<1>5. ASSUME NEW n \in Nat, Good(n) PROVE Good(n + 1)
  <2>1. SUFFICES ASSUME NEW q \in b .. m, m - (n + 1) <= q PROVE Ends(s, q, f[q])
    OBVIOUS
  <2> HIDE DEF m
  <2>2. CASE At(s, q) \in {"quote", NUL}
    <3>1. f[q] = q
      BY <1>3, <2>2
    <3>. QED
      BY <1>1, <2>2, <3>1 DEF Ends, m
  <2>3. CASE At(s, q) \notin {"quote", NUL}
    <3>1. Step(q) \in Nat /\ q < Step(q) /\ Step(q) <= m /\ q \in Nat
      BY <1>1, <1>2, <2>3
    <3>2. Step(q) \in b .. m /\ m - n <= Step(q)
      BY <1>1, <2>1, <3>1
    <3>3. Ends(s, Step(q), f[Step(q)])
      BY <1>5, <3>2
    <3>4. f[q] = f[Step(q)]
      BY <1>3, <2>3
    <3>. QED
      BY <3>1, <3>3, <3>4 DEF Ends
  <2>. QED
    BY <2>2, <2>3
<1>6. \A n \in Nat : Good(n)
  <2> DEFINE G == {n \in Nat : Good(n)}
  <2> HIDE DEF Good
  <2>1. 0 \in G
    BY <1>4
  <2>2. \A n \in Nat : n \in G => n + 1 \in G
    BY <1>5
  <2>3. \A n \in Nat : n \in G
    <3> HIDE DEF G
    <3>. QED
      BY <2>1, <2>2, Induction
  <2>. QED
    BY <2>3
<1>7. Good(m)
  <2> HIDE DEF Good
  <2>. QED
    BY <1>1, <1>6
<1>8. \A q \in b .. m : m - m <= q
  BY <1>1
<1>. QED
  BY <1>7, <1>8

LEMMA StringStops ==
  ASSUME NEW s \in Seq(Chars), NEW p \in Nat, p + 1 <= Len(s) + 2
  PROVE  Ends(s, p + 1, StringStop(s, p))
<1> DEFINE f == CHOOSE f : f = [q \in p + 1 .. Len(s) + 2 |->
                  IF At(s, q) \in {"quote", NUL} THEN q
                  ELSE f[q + (IF At(s, q) = "backslash" THEN 2 ELSE 1)]]
<1>1. StringStop(s, p) = f[p + 1]
  BY DEF StringStop
<1>2. Stops(s, p + 1, f)
  <2>1. p + 1 \in Nat
    OBVIOUS
  <2>2. \E g : Stops(s, p + 1, g)
    BY <2>1, StopsExists
  <2>. QED
    BY <2>2 DEF Stops
<1> HIDE DEF f
<1>3. p + 1 \in p + 1 .. Len(s) + 2 /\ p + 1 \in Nat
  OBVIOUS
<1>. QED
  BY <1>1, <1>2, <1>3, StopsEnds

(* A number that begins with a digit, or with a sign and a digit.             *)
LEMMA NumberEnds ==
  ASSUME NEW s \in Seq(Chars), NEW p \in Nat,
         IsNumber(s, p)
  PROVE  NumberEnd(s, p) \in Nat /\ p < NumberEnd(s, p) /\ NumberEnd(s, p) <= Len(s)
<1> DEFINE b == IF At(s, p) \in Signs THEN p + 1 ELSE p
           i == Integral(s, p)
           j == Fraction(s, i)
           k == Exponent(s, j)
<1>1. b \in Nat /\ p <= b /\ b < Len(s) /\ At(s, b) \in Digits
  <2>1. At(s, p) \in Digits => At(s, p) \notin Signs
    BY Kinds
  <2>2. b \in Nat /\ p <= b /\ At(s, b) \in Digits
    BY <2>1 DEF IsNumber
  <2> HIDE DEF b
  <2>. QED
    BY <2>2, AtEnd, CharSets
<1>2. i \in Nat /\ b < i /\ i <= Len(s)
  <2>1. i = Past(s, b, Digits)
    BY DEF Integral
  <2> HIDE DEF b, i
  <2>2. Skips(s, b, i, Digits)
    BY <1>1, <2>1, PastSkips, CharSets
  <2>. QED
    BY <1>1, <2>2 DEF Skips
<1> HIDE DEF i
<1>3. j \in Nat /\ i <= j /\ j <= Len(s)
  <2>1. CASE At(s, i) = "."
    <3>1. i + 1 <= Len(s) /\ i + 1 \in Nat
      BY <1>2, <2>1, AtEnd, CharSets
    <3>2. Skips(s, i + 1, j, Digits)
      BY <2>1, <3>1, PastSkips, CharSets DEF Fraction
    <3>. QED
      BY <1>2, <3>1, <3>2 DEF Skips
  <2>2. CASE At(s, i) # "."
    BY <1>2, <2>2 DEF Fraction
  <2>. QED
    BY <2>1, <2>2
<1> HIDE DEF j
<1>4. k \in Nat /\ j <= k /\ k <= Len(s)
  <2>1. CASE At(s, j) = "e"
    <3> DEFINE e == IF At(s, j + 1) \in Signs THEN j + 2 ELSE j + 1
    <3>1. e <= Len(s) /\ e \in Nat /\ j <= e
      BY <1>3, <2>1, AtEnd, CharSets
    <3>2. Skips(s, e, k, Digits)
      <4>1. k = Past(s, e, Digits)
        BY <2>1 DEF Exponent
      <4> HIDE DEF e, k
      <4>. QED
        BY <3>1, <4>1, PastSkips, CharSets
    <3> HIDE DEF e, k
    <3>. QED
      BY <1>3, <3>1, <3>2 DEF Skips
  <2>2. CASE At(s, j) # "e"
    BY <1>3, <2>2 DEF Exponent
  <2>. QED
    BY <2>1, <2>2
<1>5. NumberEnd(s, p) = k
  BY DEF NumberEnd, i, j
<1> HIDE DEF b, k
<1>. QED
  BY <1>1, <1>2, <1>3, <1>4, <1>5

(* What nextToken() makes of a token that begins at p.                        *)
Scanned(s, p, t) ==
  /\ t.from = p
  /\ t.to \in Nat /\ t.to <= Len(s) + 2
  /\ t.named = NamedPosition(t)
  /\ IF t.type = "END_OF_FILE" THEN At(s, p) = NUL /\ t.to = p ELSE At(s, p) # NUL /\ p < t.to

LEMMA TokenScanned ==
  ASSUME NEW s, NEW p \in Nat, NEW type, type # "END_OF_FILE", NEW text, At(s, p) # NUL,
         NEW to \in Nat, p < to, to <= Len(s) + 2,
         NEW named, named = IF type \in {"INTEGER", "REALNUM", "STRINGLIT"} THEN to ELSE p
  PROVE  Scanned(s, p, Token(type, p, to, text, named))
BY DEF Scanned, Token, NamedPosition

LEMMA NameEnds ==
  ASSUME NEW s \in Seq(Chars), NEW p \in Nat, p <= Len(s)
  PROVE  /\ Past(s, p, Alnum) \in Nat /\ p <= Past(s, p, Alnum) /\ Past(s, p, Alnum) <= Len(s)
         /\ At(s, p) \in Alnum => p < Past(s, p, Alnum)
<1>1. Skips(s, p, Past(s, p, Alnum), Alnum)
  <2>1. p <= Len(s) + 2
    OBVIOUS
  <2>. QED
    BY <2>1, PastSkips, CharSets
<1>. QED
  BY <1>1 DEF Skips

LEMMA ScanScans ==
  ASSUME NEW s \in Seq(Chars), NEW p \in Nat, p <= Len(s) + 2
  PROVE  Scanned(s, p, Scan(s, p))
<1> DEFINE c == At(s, p)
           to == NumberEnd(s, p)
           r == StringStop(s, p)
           e == Past(s, p + 1, Alnum)
           a == Past(s, p, Alnum)
<1>1. CASE c = NUL
  <2>1. ~IsNumber(s, p) /\ c \notin Letters \cup {"_"} \cup Singles /\ c \notin {"quote", "$", "!"}
    BY <1>1, Kinds, OneKind DEF IsNumber
  <2>2. Scan(s, p) = Token("END_OF_FILE", p, p, <<>>, p)
    BY <1>1, <2>1 DEF Scan
  <2>. QED
    BY <1>1, <2>2 DEF Scanned, Token, NamedPosition
<1>2. CASE c # NUL
  <2> HIDE DEF c
  <2>1. p < Len(s) /\ p + 1 \in Nat /\ p + 1 <= Len(s) /\ Len(s) \in Nat
    BY <1>2, AtEnd DEF c
  <2>2. CASE IsNumber(s, p)
    <3>1. to \in Nat /\ p < to /\ to <= Len(s) + 2
      BY <2>1, <2>2, NumberEnds
    <3> DEFINE type == IF to = Integral(s, p) THEN "INTEGER" ELSE "REALNUM"
    <3>2. c \in Digits \cup Signs
      BY <2>2 DEF IsNumber, c
    <3>3. c \notin Letters \cup {"_"} /\ c # "quote" /\ c # "$"
      BY <3>2, Kinds
    <3> HIDE DEF to, type
    <3>4. Scan(s, p) = Token(type, p, to, <<>>, to)
      BY <1>2, <2>2, <3>3 DEF Scan, c, to, type
    <3>5. type \in {"INTEGER", "REALNUM"}
      BY DEF type
    <3>. QED
      BY <1>2, <3>1, <3>4, <3>5, TokenScanned DEF c
  <2>3. CASE c = "quote"
    <3>1. Ends(s, p + 1, r)
      BY <2>1, StringStops
    <3>2. ~IsNumber(s, p) /\ c \notin Letters \cup {"_"} \cup Singles /\ c # "$" /\ c # "!"
      BY <2>3, Kinds, OneKind DEF IsNumber, c
    <3> HIDE DEF r
    <3>3. CASE At(s, r) = "quote"
      <4>1. Scan(s, p) = Token("STRINGLIT", p, r + 1, StringText(s, p + 1, r), r + 1)
        BY <1>2, <2>3, <3>2, <3>3 DEF Scan, c, r
      <4>2. r + 1 \in Nat /\ p < r + 1 /\ r + 1 <= Len(s) + 2
        BY <3>1, <3>3, AtEnd, OneKind DEF Ends
      <4>. QED
        BY <1>2, <4>1, <4>2, TokenScanned DEF c
    <3>4. CASE At(s, r) # "quote"
      <4>1. Scan(s, p) = Token("ERROR", p, r, <<>>, p)
        BY <1>2, <2>3, <3>2, <3>4 DEF Scan, c, r
      <4>2. r \in Nat /\ p < r /\ r <= Len(s) + 2
        BY <3>1 DEF Ends
      <4>. QED
        BY <1>2, <4>1, <4>2, TokenScanned DEF c
    <3>. QED
      BY <3>3, <3>4
  <2>4. CASE c = "$"
    <3>1. e \in Nat /\ p < e /\ e <= Len(s) + 2
      <4>1. e \in Nat /\ p + 1 <= e /\ e <= Len(s)
        BY <2>1, NameEnds
      <4>. QED
        BY <2>1, <4>1
    <3>2. ~IsNumber(s, p) /\ c \notin Letters \cup {"_"} \cup Singles /\ c # "quote" /\ c # "!"
      BY <2>4, Kinds, OneKind DEF IsNumber, c
    <3> DEFINE type == IF e = p + 1 THEN "ERROR" ELSE "ENV_VAR"
    <3> HIDE DEF type, e
    <3>3. Scan(s, p) = Token(type, p, e, <<>>, p)
      BY <1>2, <2>4, <3>2 DEF Scan, c, e, type
    <3>4. type \in {"ERROR", "ENV_VAR"}
      BY DEF type
    <3>. QED
      BY <1>2, <3>1, <3>3, <3>4, TokenScanned DEF c
  <2>5. CASE c \in Letters \cup {"_"}
    <3>1. a \in Nat /\ p < a /\ a <= Len(s) + 2
      <4>1. p <= Len(s)
        BY <2>1
      <4>2. At(s, p) \in Alnum
        BY <2>5, Zenon DEF c, Alnum
      <4>3. a \in Nat /\ p < a /\ a <= Len(s)
        BY <4>1, <4>2, NameEnds
      <4>. QED
        BY <2>1, <4>3
    <3>2. ~IsNumber(s, p) /\ c \notin Singles /\ c # "quote" /\ c # "!" /\ c # "$"
      BY <2>5, Kinds DEF IsNumber, c
    <3> DEFINE type == IF SubSeq(s, p + 1, a) \in Keywords THEN "KEYWORD" ELSE "IDENTIFIER"
    <3> HIDE DEF type, a
    <3>3. Scan(s, p) = Token(type, p, a, <<>>, p)
      BY <1>2, <2>5, <3>2 DEF Scan, c, a, type
    <3>4. type \in {"KEYWORD", "IDENTIFIER"}
      BY DEF type
    <3>. QED
      BY <1>2, <3>1, <3>3, <3>4, TokenScanned DEF c
  <2>6. CASE (c \in Singles \/ (c = "!" /\ At(s, p + 1) = "=")) /\ ~IsNumber(s, p)
    <3> DEFINE o == OperatorEnd(s, p)
    <3>1. o \in {p + 1, p + 2}
      BY DEF OperatorEnd
    <3>2. c \notin Letters \cup {"_"} /\ c # "quote" /\ c # "$"
      BY <2>6, Kinds
    <3> HIDE DEF o
    <3>3. Scan(s, p) = Token("OPERATOR", p, o, <<>>, p)
      BY <1>2, <2>6, <3>2 DEF Scan, c, o
    <3>4. o \in Nat /\ p < o /\ o <= Len(s) + 2
      BY <2>1, <3>1
    <3>. QED
      BY <1>2, <3>3, <3>4, TokenScanned DEF c
  <2>7. CASE /\ ~IsNumber(s, p) /\ c \notin Letters \cup {"_"} /\ c # "quote" /\ c # "$"
             /\ ~(c \in Singles \/ (c = "!" /\ At(s, p + 1) = "="))
    <3>1. Scan(s, p) = Token("ERROR", p, p + 1, <<>>, p)
      BY <1>2, <2>7 DEF Scan, c, ErrorEnd
    <3>2. p + 1 \in Nat /\ p < p + 1 /\ p + 1 <= Len(s) + 2
      BY <2>1
    <3>. QED
      BY <1>2, <3>1, <3>2, TokenScanned DEF c
  <2>. QED
    BY <2>2, <2>3, <2>4, <2>5, <2>6, <2>7
<1>. QED
  BY <1>1, <1>2

-----------------------------------------------------------------------------
(* Lines and columns.                                                        *)

LEMMA GreatestOf ==
  ASSUME NEW S \in SUBSET Nat, S # {}, NEW n \in Nat, \A y \in S : y <= n
  PROVE  Max(S) \in S /\ \A y \in S : y <= Max(S)
<1> DEFINE U == {u \in Nat : \A y \in S : y <= u}
<1>1. PICK x \in U : \A u \in U : x <= u
  <2>1. U \in SUBSET Nat /\ n \in U
    OBVIOUS
  <2> HIDE DEF U
  <2>. QED
    BY <2>1, LeastNumber
<1>2. x \in S
  <2>1. SUFFICES ASSUME x \notin S PROVE FALSE
    OBVIOUS
  <2>2. PICK y \in S : TRUE
    OBVIOUS
  <2>3. \A z \in S : z <= x - 1
    BY <1>1, <2>1
  <2>4. x - 1 \in Nat
    BY <1>1, <2>1, <2>2
  <2>5. x - 1 \in U
    BY <2>3, <2>4
  <2>. QED
    BY <1>1, <2>5
<1>3. \A y \in S : x >= y
  BY <1>1
<1>4. Max(S) \in S /\ \A y \in S : Max(S) >= y
  BY <1>2, <1>3 DEF Max
<1>. QED
  BY <1>4

(* The newlines between two positions.                                       *)
Breaks(s, a, p) == {q \in a .. p - 1 : At(s, q) = "newline"}
LineOf(s, p)    == 1 + Cardinality(Breaks(s, 0, p))
ColumnOf(s, p)  == p - (IF Breaks(s, 0, p) = {} THEN 0 ELSE Max(Breaks(s, 0, p)) + 1)

LEMMA BreaksFinite ==
  ASSUME NEW s, NEW a \in Nat, NEW p \in Nat
  PROVE  /\ Breaks(s, a, p) \in SUBSET Nat /\ IsFiniteSet(Breaks(s, a, p))
         /\ Cardinality(Breaks(s, a, p)) \in Nat
         /\ Breaks(s, a, p) # {} => /\ Max(Breaks(s, a, p)) \in Breaks(s, a, p)
                                    /\ \A y \in Breaks(s, a, p) : y <= Max(Breaks(s, a, p))
<1> DEFINE S == Breaks(s, a, p)
<1>1. S \in SUBSET Nat /\ \A y \in S : y <= p
  BY DEF Breaks
<1> HIDE DEF S
<1>2. IsFiniteSet(S)
  BY <1>1, FS_BoundedSetOfNaturals
<1>3. Cardinality(S) \in Nat
  BY <1>2, FS_CardinalityType
<1>4. S # {} => Max(S) \in S /\ \A y \in S : y <= Max(S)
  BY <1>1, GreatestOf
<1>. QED
  BY <1>1, <1>2, <1>3, <1>4 DEF S

(* advance() from a to p keeps line and column right.                         *)
LEMMA Advance ==
  ASSUME NEW s, NEW a \in Nat, NEW p \in Nat, a <= p
  PROVE  /\ LineOf(s, a) + Cardinality(Breaks(s, a, p)) = LineOf(s, p)
         /\ ColumnOf(s, p) = IF Breaks(s, a, p) = {} THEN ColumnOf(s, a) + (p - a)
                             ELSE p - Max(Breaks(s, a, p)) - 1
<1> DEFINE A == Breaks(s, 0, a)
           N == Breaks(s, a, p)
           B == Breaks(s, 0, p)
<1>1. /\ A \in SUBSET Nat /\ IsFiniteSet(A) /\ Cardinality(A) \in Nat
      /\ A # {} => Max(A) \in A /\ \A y \in A : y <= Max(A)
  BY BreaksFinite
<1>2. /\ N \in SUBSET Nat /\ IsFiniteSet(N) /\ Cardinality(N) \in Nat
      /\ N # {} => Max(N) \in N /\ \A y \in N : y <= Max(N)
  BY BreaksFinite
<1>3. /\ B \in SUBSET Nat
      /\ B # {} => Max(B) \in B /\ \A y \in B : y <= Max(B)
  BY BreaksFinite
<1>4. B = A \cup N /\ A \cap N = {} /\ \A x \in A, y \in N : x < y
  BY DEF Breaks
<1>5. LineOf(s, a) = 1 + Cardinality(A) /\ LineOf(s, p) = 1 + Cardinality(B)
  BY DEF LineOf
<1>6. /\ ColumnOf(s, a) = a - (IF A = {} THEN 0 ELSE Max(A) + 1)
      /\ ColumnOf(s, p) = p - (IF B = {} THEN 0 ELSE Max(B) + 1)
  BY DEF ColumnOf
<1> HIDE DEF A, N, B
<1>7. Cardinality(B) = Cardinality(A) + Cardinality(N)
  <2>1. Cardinality(A \cup N) = Cardinality(A) + Cardinality(N) - Cardinality(A \cap N)
    BY <1>1, <1>2, FS_Union
  <2>2. Cardinality(A \cap N) = 0
    BY <1>4, FS_EmptySet
  <2>. QED
    BY <1>1, <1>2, <1>4, <2>1, <2>2
<1>8. CASE N = {}
  <2>1. B = A
    BY <1>4, <1>8
  <2>2. ColumnOf(s, p) = ColumnOf(s, a) + (p - a)
    <3>1. CASE A = {}
      BY <1>6, <2>1, <3>1
    <3>2. CASE A # {}
      <4>1. Max(A) \in Nat
        BY <1>1, <3>2
      <4>. QED
        BY <1>6, <2>1, <3>2, <4>1
    <3>. QED
      BY <3>1, <3>2
  <2>. QED
    BY <1>1, <1>2, <1>5, <1>7, <1>8, <2>2 DEF N
<1>9. CASE N # {}
  <2> DEFINE m == Max(N)
             b == Max(B)
  <2>1. m \in N /\ m \in Nat /\ m \in B
    BY <1>2, <1>4, <1>9
  <2>2. B # {} /\ b \in B /\ b \in Nat
    BY <1>3, <2>1
  <2>3. m <= b
    BY <1>3, <2>1
  <2>4. b <= m
    <3>1. b \in A => b < m
      BY <1>4, <2>1
    <3>2. b \in N => b <= m
      BY <1>2
    <3> HIDE DEF m, b
    <3>. QED
      BY <1>4, <2>1, <2>2, <3>1, <3>2
  <2>5. ColumnOf(s, p) = p - (b + 1)
    BY <1>6, <2>2
  <2>6. ColumnOf(s, p) = p - m - 1
    <3> HIDE DEF m, b
    <3>. QED
      BY <2>1, <2>2, <2>3, <2>4, <2>5
  <2>. QED
    BY <1>1, <1>2, <1>5, <1>7, <1>9, <2>6 DEF N
<1>. QED
  BY <1>8, <1>9

LEMMA FirstPlace ==
  ASSUME NEW s
  PROVE  LineOf(s, 0) = 1 /\ ColumnOf(s, 0) = 0
<1>1. Breaks(s, 0, 0) = {}
  BY DEF Breaks
<1>. QED
  BY <1>1, FS_EmptySet DEF LineOf, ColumnOf

-----------------------------------------------------------------------------
(* What passes from the file to the lexer is text, and nothing is read before. *)
Handed ==
  /\ file \in Seq(Chars) /\ rest \in Seq(Chars) /\ firstLine \in Seq(Chars)
  /\ script \in Seq(Chars) /\ source \in Seq(Chars)
  /\ pc # "lexing" => tokens = <<>> /\ position = 0 /\ line = 1 /\ column = 0

LEMMA FirstLineType ==
  ASSUME NEW s \in Seq(Chars)
  PROVE  Launcher!FirstLine(s) \in Seq(Chars)
<1>1. CASE Launcher!Newlines(s) = {}
  BY <1>1, NoNewline
<1>2. CASE Launcher!Newlines(s) # {}
  <2>1. PICK m \in 1 .. Len(s) : Launcher!FirstLine(s) = SubSeq(s, 1, m - 1)
    BY <1>2, FirstNewline
  <2>. QED
    BY <2>1
<1>. QED
  BY <1>1, <1>2

LEMMA HandedAtFirst == Init => Handed
BY FilesOfChars, EmptySeq DEF Init, Launcher!Init, Constructed, Handed

LEMMA HandedStep ==
  ASSUME Handed, [Next]_<<launcherVars, vars>>
  PROVE  Handed'
<1>1. CASE Launch
  <2>1. UNCHANGED vars
    BY <1>1 DEF Launch
  <2>2. pc # "lexing" /\ file' = file
    BY <1>1 DEF Launch, Launcher!Next, Launcher!GetLine, Launcher!Ignore, Launcher!ReadRest
  <2>3. CASE Launcher!GetLine
    <3>1. Launcher!FirstLine(rest) \in Seq(Chars) /\ Launcher!Following(rest) \in Seq(Chars)
      BY FirstLineType, FollowingType DEF Handed
    <3>. QED
      BY <2>1, <2>2, <2>3, <3>1, EmptySeq DEF Handed, vars, Launcher!GetLine, Launcher!Kept
  <2>4. CASE Launcher!Ignore
    <3>1. Launcher!Ignored \in Seq(Chars)
      BY HeadTailProperties DEF Handed, Launcher!Ignored
    <3>. QED
      BY <2>1, <2>2, <2>4, <3>1 DEF Handed, vars, Launcher!Ignore
  <2>5. CASE Launcher!ReadRest
    <3>1. firstLine \o (IF good THEN rest ELSE <<>>) \in Seq(Chars)
      BY ConcatProperties, EmptySeq DEF Handed
    <3>. QED
      BY <2>1, <2>2, <2>5, <3>1, EmptySeq DEF Handed, vars, Launcher!ReadRest
  <2>. QED
    BY <1>1, <2>3, <2>4, <2>5 DEF Launch, Launcher!Next
<1>2. CASE Handle
  BY <1>2 DEF Handle, Handed
<1>3. CASE Lex
  BY <1>3 DEF Lex, NextToken, launcherVars, Handed
<1>4. CASE UNCHANGED <<launcherVars, vars>>
  BY <1>4 DEF launcherVars, vars, Handed
<1>. QED
  BY <1>1, <1>2, <1>3, <1>4 DEF Next

-----------------------------------------------------------------------------
(* The lexer in its source.                                                  *)

(* The token has the line and column of its named position.                   *)
Located(s, t) ==
  t.line = LineOf(s, NamedPosition(t)) /\ t.column = ColumnOf(s, NamedPosition(t))

(* There is only a gap between the position before and the token.             *)
Found(s, before, t) ==
  /\ before <= t.from
  /\ IsGap(SubSeq(s, before + 1, IF t.from < Len(s) THEN t.from ELSE Len(s)), At(s, t.from) = NUL)

(* The position behind the first n tokens.                                    *)
Behind(ts, n) == IF n = 0 THEN 0 ELSE ts[n].to

(* Where the lexer is, and what it has returned on the way.                   *)
Reading ==
  /\ position \in Nat /\ position <= Len(source) + 2
  /\ line = LineOf(source, position) /\ column = ColumnOf(source, position)
  /\ \E S : tokens \in Seq(S)
  /\ position = Behind(tokens, Len(tokens))
  /\ Ended => At(source, position) = NUL
  /\ \A i \in 1 .. Len(tokens) : Located(source, tokens[i])
  /\ \A i \in 1 .. Len(tokens) : Found(source, Behind(tokens, i - 1), tokens[i])

LEMMA ReadingAtStart ==
  ASSUME NEW s \in Seq(Chars), position = 0, line = 1, column = 0, tokens = <<>>, source = s
  PROVE  Reading
<1>1. tokens \in Seq({}) /\ Len(tokens) = 0
  BY EmptySeq
<1>2. ~Ended
  BY DEF Ended
<1>. QED
  BY <1>1, <1>2, FirstPlace DEF Reading, Behind

(* A call of nextToken(): what it returns, and where it leaves the lexer.      *)
Called(s, p, t) ==
  /\ Starts(s, p, t.from)
  /\ t.to \in Nat /\ t.to <= Len(s) + 2
  /\ p <= t.from /\ t.from <= t.to /\ t.from <= NamedPosition(t) /\ NamedPosition(t) \in Nat
  /\ IF t.type = "END_OF_FILE" THEN At(s, t.from) = NUL /\ t.to = t.from
     ELSE At(s, t.from) # NUL /\ t.from < t.to

LEMMA CallScans ==
  ASSUME NEW s \in Seq(Chars), NEW p \in Nat, p <= Len(s) + 2
  PROVE  LET t == Scan(s, TokenStart(s, p)) IN Called(s, p, t) /\ t.named = NamedPosition(t)
<1> DEFINE r == TokenStart(s, p)
           t == Scan(s, r)
<1>1. Starts(s, p, r)
  BY TokenStarts
<1> HIDE DEF r
<1>2. r \in Nat /\ p <= r /\ r <= Len(s) + 2
  BY <1>1 DEF Starts
<1>3. Scanned(s, r, t)
  BY <1>2, ScanScans
<1> HIDE DEF t
<1>4. t.from = r /\ t.to \in Nat /\ t.to <= Len(s) + 2 /\ r <= t.to /\ t.named = NamedPosition(t)
  BY <1>2, <1>3 DEF Scanned
<1>5. NamedPosition(t) \in {t.from, t.to}
  BY DEF NamedPosition
<1>6. r <= NamedPosition(t) /\ NamedPosition(t) \in Nat
  BY <1>2, <1>4, <1>5
<1>7. Called(s, p, t)
  BY <1>1, <1>2, <1>3, <1>4, <1>6 DEF Called, Scanned
<1>. QED
  BY <1>4, <1>7 DEF t, r

(* A token behind a gap is found.                                            *)
LEMMA CalledFound ==
  ASSUME NEW s \in Seq(Chars), NEW p \in Nat, NEW t, Called(s, p, t)
  PROVE  Found(s, p, t)
<1> DEFINE r == t.from
<1>1. Starts(s, p, r) /\ p <= r
  BY DEF Called
<1>2. r \in Nat /\ Len(s) \in Nat
  BY <1>1 DEF Starts
<1>3. CASE p <= Len(s)
  <2>1. r <= Len(s)
    BY <1>1, <1>3 DEF Starts
  <2>2. (IF r < Len(s) THEN r ELSE Len(s)) = r
    BY <1>2, <2>1
  <2>3. IsGap(SubSeq(s, p + 1, r), At(s, r) = NUL)
    BY <1>1, <1>3, GapIsGap DEF Part
  <2>. QED
    BY <1>1, <2>2, <2>3 DEF Found
<1>4. CASE p > Len(s)
  <2>1. r = p
    BY <1>1, <1>4 DEF Starts
  <2>2. (IF r < Len(s) THEN r ELSE Len(s)) = Len(s)
    BY <1>2, <1>4, <2>1
  <2>3. SubSeq(s, p + 1, Len(s)) = <<>>
    BY <1>2, <1>4
  <2>4. IsGap(<<>>, At(s, r) = NUL)
    <3>1. Len(<<>>) = 0 /\ 0 \in 0 .. 0
      OBVIOUS
    <3>2. SubSeq(<<>>, 1, 0) = <<>> /\ SubSeq(<<>>, 0 + 1, 0) = <<>>
      OBVIOUS
    <3>3. ToSet(<<>>) = {}
      BY DEF ToSet
    <3>4. /\ 0 \in 0 .. Len(<<>>)
          /\ ToSet(SubSeq(<<>>, 1, 0)) \cup ToSet(SubSeq(<<>>, 0 + 1, Len(<<>>))) \subseteq Spaces
      BY <3>1, <3>2, <3>3
    <3>5. \E i, j \in 0 .. Len(<<>>) :
            /\ i <= j
            /\ ToSet(SubSeq(<<>>, 1, i)) \cup ToSet(SubSeq(<<>>, j + 1, Len(<<>>))) \subseteq Spaces
            /\ i = j
      <4>1. 0 <= 0
        OBVIOUS
      <4>. QED
        BY <3>4, <4>1, Zenon
    <3>. QED
      BY <3>5 DEF IsGap
  <2>. QED
    BY <1>1, <2>2, <2>3, <2>4 DEF Found
<1>. QED
  BY <1>2, <1>3, <1>4

(* The token that a call of nextToken() adds.                                 *)
Adds(u) ==
  /\ tokens' = Append(tokens, u)
  /\ source' = source
  /\ position' = u.to /\ line' = LineOf(source, u.to) /\ column' = ColumnOf(source, u.to)
  /\ Called(source, position, u) /\ Located(source, u)

LEMMA NextTokenAdds ==
  ASSUME source \in Seq(Chars), Reading, NextToken
  PROVE  \E u : Adds(u)
<1> DEFINE t == Scan(source, TokenStart(source, position))
           u == [type |-> t.type, from |-> t.from, to |-> t.to, text |-> t.text,
                 line |-> LineAt(t.named), column |-> ColumnAt(t.named)]
<1>1. Called(source, position, t) /\ t.named = NamedPosition(t)
  <2>1. position \in Nat /\ position <= Len(source) + 2
    BY DEF Reading
  <2>. QED
    BY <2>1, CallScans
<1>2. /\ tokens' = Append(tokens, u) /\ source' = source
      /\ position' = t.to /\ line' = LineAt(t.to) /\ column' = ColumnAt(t.to)
  BY DEF NextToken
<1> HIDE DEF t
<1>3. /\ u.type = t.type /\ u.from = t.from /\ u.to = t.to
      /\ u.line = LineAt(t.named) /\ u.column = ColumnAt(t.named)
  OBVIOUS
<1> HIDE DEF u
<1>4. NamedPosition(u) = NamedPosition(t)
  BY <1>3 DEF NamedPosition
<1>5. Called(source, position, u)
  BY <1>1, <1>3, <1>4 DEF Called
<1>6. ASSUME NEW p \in Nat, position <= p
      PROVE  LineAt(p) = LineOf(source, p) /\ ColumnAt(p) = ColumnOf(source, p)
  <2>1. position \in Nat /\ line = LineOf(source, position) /\ column = ColumnOf(source, position)
    BY DEF Reading
  <2>2. Newlines(p) = Breaks(source, position, p)
    BY DEF Newlines, Breaks
  <2>3. /\ LineOf(source, position) + Cardinality(Breaks(source, position, p)) = LineOf(source, p)
        /\ ColumnOf(source, p) = IF Breaks(source, position, p) = {}
                                   THEN ColumnOf(source, position) + (p - position)
                                 ELSE p - Max(Breaks(source, position, p)) - 1
    BY <1>6, <2>1, Advance
  <2>. QED
    BY <2>1, <2>2, <2>3 DEF LineAt, ColumnAt
<1>7. /\ position \in Nat /\ t.to \in Nat /\ position <= t.to
      /\ NamedPosition(t) \in Nat /\ position <= NamedPosition(t)
  <2>1. position \in Nat
    BY DEF Reading
  <2>2. t.from \in Nat
    BY <1>1 DEF Called, Starts
  <2>. QED
    BY <1>1, <2>1, <2>2 DEF Called
<1>8. line' = LineOf(source, u.to) /\ column' = ColumnOf(source, u.to)
  BY <1>2, <1>3, <1>6, <1>7
<1>9. Located(source, u)
  BY <1>1, <1>3, <1>4, <1>6, <1>7 DEF Located
<1>10. Adds(u)
  BY <1>2, <1>3, <1>5, <1>8, <1>9 DEF Adds
<1>. QED
  BY <1>10

LEMMA NextTokenStep ==
  ASSUME source \in Seq(Chars), Reading, NextToken
  PROVE  Reading'
<1>1. PICK u : Adds(u)
  BY NextTokenAdds
<1>2. /\ tokens' = Append(tokens, u) /\ source' = source /\ position' = u.to
      /\ Called(source, position, u) /\ Located(source, u)
  BY <1>1 DEF Adds
<1> DEFINE n == Len(tokens)
<1>3. PICK S : tokens \in Seq(S)
  BY DEF Reading
<1>4. /\ n \in Nat /\ tokens' \in Seq(S \cup {u}) /\ Len(tokens') = n + 1
      /\ tokens'[n + 1] = u /\ \A i \in 1 .. n : tokens'[i] = tokens[i]
  <2>1. tokens \in Seq(S \cup {u})
    BY <1>3
  <2>. QED
    BY <1>2, <2>1, AppendProperties, LenProperties
<1> HIDE DEF n
<1>5. (position \in Nat /\ position <= Len(source) + 2)'
  BY <1>2 DEF Called
<1>6. (line = LineOf(source, position) /\ column = ColumnOf(source, position))'
  BY <1>1 DEF Adds
<1>7. (position = Behind(tokens, Len(tokens)))'
  BY <1>2, <1>4 DEF Behind
<1>8. (Ended => At(source, position) = NUL)'
  <2>1. Ended' => u.type = "END_OF_FILE"
    BY <1>4 DEF Ended, Last
  <2>2. u.type = "END_OF_FILE" => At(source, u.to) = NUL
    BY <1>2 DEF Called
  <2>3. At(source, position)' = At(source, u.to)
    BY <1>2
  <2>. QED
    BY <2>1, <2>2, <2>3
<1>9. ASSUME NEW i \in 1 .. n + 1
      PROVE  /\ Located(source, tokens'[i])
             /\ Found(source, Behind(tokens', i - 1), tokens'[i])
  <2>1. CASE i = n + 1
    <3>1. tokens'[i] = u
      BY <1>4, <2>1
    <3>2. Behind(tokens', i - 1) = position
      <4>1. position = Behind(tokens, n)
        BY DEF Reading, n
      <4>2. n # 0 => tokens'[n] = tokens[n]
        BY <1>4
      <4>3. i - 1 = n
        BY <1>4, <2>1
      <4>. QED
        BY <4>1, <4>2, <4>3 DEF Behind
    <3>3. Found(source, position, u)
      <4>1. position \in Nat
        BY DEF Reading
      <4>. QED
        BY <1>2, <4>1, CalledFound
    <3>. QED
      BY <1>2, <3>1, <3>2, <3>3
  <2>2. CASE i \in 1 .. n
    <3>1. tokens'[i] = tokens[i]
      BY <1>4, <2>2
    <3>2. Behind(tokens', i - 1) = Behind(tokens, i - 1)
      <4>1. i - 1 # 0 => tokens'[i - 1] = tokens[i - 1]
        BY <1>4, <2>2
      <4>. QED
        BY <4>1 DEF Behind
    <3>3. Located(source, tokens[i]) /\ Found(source, Behind(tokens, i - 1), tokens[i])
      BY <2>2 DEF Reading, n
    <3>. QED
      BY <3>1, <3>2, <3>3
  <2>. QED
    BY <1>4, <2>1, <2>2
<1>10. (\A i \in 1 .. Len(tokens) : Located(source, tokens[i]))'
  BY <1>2, <1>4, <1>9
<1>11. (\A i \in 1 .. Len(tokens) : Found(source, Behind(tokens, i - 1), tokens[i]))'
  BY <1>2, <1>4, <1>9
<1>12. (\E T : tokens \in Seq(T))'
  BY <1>4
<1>. QED
  BY <1>5, <1>6, <1>7, <1>8, <1>10, <1>11, <1>12 DEF Reading

LEMMA ReadingAtFirst == Init => Reading
<1>1. SUFFICES ASSUME Init PROVE Reading
  OBVIOUS
<1>2. source \in Seq(Chars) /\ position = 0 /\ line = 1 /\ column = 0 /\ tokens = <<>>
  BY <1>1, EmptySeq DEF Init, Constructed
<1>. QED
  BY <1>2, ReadingAtStart

LEMMA ReadingStep ==
  ASSUME Handed, Reading, [Next]_<<launcherVars, vars>>
  PROVE  Reading'
<1>1. CASE Launch \/ UNCHANGED <<launcherVars, vars>>
  <2>1. UNCHANGED <<source, position, line, column, tokens>>
    BY <1>1 DEF Launch, vars
  <2>. QED
    BY <2>1 DEF Reading, Ended
<1>2. CASE Handle
  <2>1. (source \in Seq(Chars) /\ position = 0 /\ line = 1 /\ column = 0 /\ tokens = <<>>)'
    BY <1>2 DEF Handle, Handed
  <2>2. tokens' \in Seq({}) /\ Len(tokens') = 0 /\ ~Ended'
    BY <2>1, EmptySeq DEF Ended
  <2>. QED
    BY <2>1, <2>2, FirstPlace DEF Reading, Behind
<1>3. CASE Lex
  BY <1>3, NextTokenStep DEF Lex, Handed
<1>. QED
  BY <1>1, <1>2, <1>3 DEF Next

(* Both hold in every reachable state.                                       *)
LEMMA ReadingAlways == Spec => [](Handed /\ Reading)
<1>1. Init => Handed /\ Reading
  BY HandedAtFirst, ReadingAtFirst
<1>2. (Handed /\ Reading) /\ [Next]_<<launcherVars, vars>> => (Handed /\ Reading)'
  BY HandedStep, ReadingStep
<1>. QED
  BY <1>1, <1>2, PTL DEF Spec

(* Of every file: the tokens nextToken() returns follow each other in the      *)
(* script, and between two there is nothing but blanks and at most one        *)
(* comment, so nothing of a script is skipped unread.                        *)
THEOREM TokensCoverScript == Spec => []NothingLost
<1>1. Reading => NothingLost
  <2>1. SUFFICES ASSUME Reading, NEW i \in DOMAIN tokens
                 PROVE  LET before == IF i = 1 THEN 0 ELSE tokens[i - 1].to IN
                          /\ before <= tokens[i].from
                          /\ IsGap(Between(before, tokens[i].from), At(source, tokens[i].from) = NUL)
    BY DEF NothingLost
  <2>2. i \in 1 .. Len(tokens)
    BY <2>1 DEF Reading
  <2>3. Found(source, Behind(tokens, i - 1), tokens[i])
    BY <2>1, <2>2 DEF Reading
  <2>4. Behind(tokens, i - 1) = IF i = 1 THEN 0 ELSE tokens[i - 1].to
    BY <2>2 DEF Behind
  <2>. QED
    BY <2>3, <2>4 DEF Found, Between
<1>. QED
  BY <1>1, ReadingAlways, PTL

(* Every token has the line and the column of its beginning, a number and a    *)
(* string of their end, whatever comments and strings went over lines before.  *)
THEOREM TokensLocated == Spec => []PositionsRight
<1>1. Reading => PositionsRight
  <2>1. SUFFICES ASSUME Reading, NEW i \in DOMAIN tokens
                 PROVE  LET p == NamedPosition(tokens[i]) IN
                          /\ tokens[i].line = 1 + Cardinality(LinesBefore(p))
                          /\ tokens[i].column = p - (IF LinesBefore(p) = {} THEN 0
                                                     ELSE Max(LinesBefore(p)) + 1)
    BY DEF PositionsRight
  <2>2. i \in 1 .. Len(tokens)
    BY <2>1 DEF Reading
  <2>3. Located(source, tokens[i])
    BY <2>1, <2>2 DEF Reading
  <2> DEFINE p == NamedPosition(tokens[i])
  <2>4. LinesBefore(p) = Breaks(source, 0, p)
    BY DEF LinesBefore, Breaks
  <2>. QED
    BY <2>3, <2>4 DEF Located, LineOf, ColumnOf
<1>. QED
  BY <1>1, ReadingAlways, PTL

(* Every call of nextToken() gets on in the script or returns the end of the   *)
(* file, and after the end there is only the end: so the lexer reads every    *)
(* script in a bounded number of calls.                                      *)
THEOREM LexerGetsOn == Spec => GetsOn
<1> DEFINE Step == tokens' # <<>> =>
                     /\ position' > position \/ Last(tokens').type = "END_OF_FILE"
                     /\ Ended => Last(tokens').type = "END_OF_FILE"
<1>1. (Handed /\ Reading) /\ [Next]_<<launcherVars, vars>> => [Step]_vars
  <2>1. SUFFICES ASSUME Handed, Reading, Next PROVE Step \/ UNCHANGED vars
    BY DEF vars
  <2>2. CASE Launch
    BY <2>2 DEF Launch
  <2>3. CASE Handle
    <3>1. tokens' = <<>>
      BY <2>1, <2>3 DEF Handle, Handed
    <3>. QED
      BY <3>1
  <2>4. CASE Lex
    <3>1. PICK u : Adds(u)
      BY <2>1, <2>4, NextTokenAdds DEF Lex, Handed
    <3>2. tokens' = Append(tokens, u) /\ position' = u.to /\ Called(source, position, u)
      BY <3>1 DEF Adds
    <3>3. PICK S : tokens \in Seq(S)
      BY <2>1 DEF Reading
    <3>4. Last(tokens') = u
      <4>1. tokens \in Seq(S \cup {u})
        BY <3>3
      <4>2. Len(tokens') = Len(tokens) + 1 /\ tokens'[Len(tokens) + 1] = u
        BY <3>2, <4>1, AppendProperties
      <4>. QED
        BY <4>2 DEF Last
    <3>5. position \in Nat /\ u.from \in Nat
      BY <2>1, <3>2 DEF Reading, Called, Starts
    <3>6. u.type # "END_OF_FILE" => position' > position
      BY <3>2, <3>5 DEF Called
    <3>7. Ended => u.type = "END_OF_FILE"
      <4>1. SUFFICES ASSUME Ended PROVE At(source, u.from) = NUL
        BY <3>2 DEF Called
      <4>2. At(source, position) = NUL
        BY <2>1, <4>1 DEF Reading
      <4>3. PICK a, b \in Nat : Gap(source, position, a, b, u.from)
        BY <3>2 DEF Called, Starts
      <4>4. u.from = position
        <5>1. a = position
          BY <3>5, <4>2, <4>3, SpacesAreNotNul DEF Gap
        <5>2. ~Opens(source, a)
          BY <4>2, <5>1 DEF Opens, NUL
        <5>3. b = a
          BY <4>3, <5>2 DEF Gap, Remark
        <5>. QED
          BY <3>5, <4>2, <4>3, <5>1, <5>3, SpacesAreNotNul DEF Gap
      <4>. QED
        BY <4>2, <4>4
    <3>. QED
      BY <3>4, <3>6, <3>7
  <2>. QED
    BY <2>1, <2>2, <2>3, <2>4 DEF Next
<1>2. Spec => [][Step]_vars
  BY <1>1, ReadingAlways, PTL DEF Spec
<1>. QED
  BY <1>2 DEF GetsOn

-----------------------------------------------------------------------------
(* Functions that gather a sequence on the way to the end.                    *)

(* f[q] is what is gathered from q to the end: head[q], and then what is       *)
(* gathered from next[q].                                                    *)
Gathers(D, ends, head, next, f) ==
  f = [q \in D |-> IF q \in ends THEN <<>> ELSE head[q] \o f[next[q]]]

LEMMA GathersExists ==
  ASSUME NEW S, NEW b \in Nat, NEW m \in Nat, NEW ends,
         NEW head \in [b .. m -> Seq(S)], NEW next \in [b .. m -> Nat],
         \A q \in b .. m : q \notin ends => q < next[q] /\ next[q] <= m
  PROVE  \E f \in [b .. m -> Seq(S)] : Gathers(b .. m, ends, head, next, f)
<1> DEFINE From(a, f) == \A q \in a .. m : f[q] = IF q \in ends THEN <<>> ELSE head[q] \o f[next[q]]
           Good(n) == n <= m + 1 /\ b <= (m + 1) - n =>
                        \E f \in [(m + 1) - n .. m -> Seq(S)] : From((m + 1) - n, f)
<1>1. Good(0)
  <2> DEFINE f == [q \in m + 1 .. m |-> <<>>]
  <2>1. m + 1 .. m = {}
    OBVIOUS
  <2>3. f \in [m + 1 .. m -> Seq(S)] /\ From(m + 1, f)
    BY <2>1
  <2>2. (m + 1) - 0 = m + 1
    OBVIOUS
  <2> HIDE DEF f, From
  <2>. QED
    BY <2>2, <2>3
<1>2. ASSUME NEW n \in Nat, Good(n) PROVE Good(n + 1)
  <2>1. SUFFICES ASSUME n + 1 <= m + 1, b <= (m + 1) - (n + 1)
                 PROVE  \E f \in [(m + 1) - (n + 1) .. m -> Seq(S)] : From((m + 1) - (n + 1), f)
    OBVIOUS
  <2> HIDE DEF From
  <2>2. n <= m + 1 /\ b <= (m + 1) - n
    BY <2>1
  <2>3. PICK f \in [(m + 1) - n .. m -> Seq(S)] : From((m + 1) - n, f)
    BY <1>2, <2>2
  <2>4. PICK a \in Nat : a = (m + 1) - (n + 1) /\ (m + 1) - n = a + 1
    <3>1. (m + 1) - (n + 1) \in Nat /\ (m + 1) - n = ((m + 1) - (n + 1)) + 1
      BY <2>1
    <3>. QED
      BY <3>1
  <2>5. a <= m /\ b <= a /\ a \in b .. m
    BY <2>1, <2>4
  <2> DEFINE first == IF a \in ends THEN <<>> ELSE head[a] \o f[next[a]]
             h == [q \in a .. m |-> IF q = a THEN first ELSE f[q]]
  <2>6. a \notin ends => next[a] \in a + 1 .. m
    BY <2>5
  <2>7. first \in Seq(S)
    <3>1. a \notin ends => f[next[a]] \in Seq(S)
      BY <2>3, <2>4, <2>6
    <3>2. head[a] \in Seq(S)
      BY <2>5
    <3>. QED
      BY <3>1, <3>2, EmptySeq, ConcatProperties
  <2> HIDE DEF first
  <2>8. h \in [a .. m -> Seq(S)]
    BY <2>3, <2>4, <2>7
  <2>9. h[a] = first /\ \A q \in a + 1 .. m : h[q] = f[q]
    BY <2>4, <2>5
  <2> HIDE DEF h
  <2>10. ASSUME NEW q \in a .. m
         PROVE  h[q] = IF q \in ends THEN <<>> ELSE head[q] \o h[next[q]]
    <3>1. CASE q = a
      <4>1. a \notin ends => h[next[a]] = f[next[a]]
        BY <2>6, <2>9
      <4>. QED
        BY <2>9, <3>1, <4>1 DEF first
    <3>2. CASE q # a
      <4>1. q \in a + 1 .. m /\ q \in b .. m
        BY <2>5, <3>2
      <4>2. q \notin ends => next[q] \in a + 1 .. m
        BY <4>1
      <4>3. f[q] = IF q \in ends THEN <<>> ELSE head[q] \o f[next[q]]
        BY <2>3, <2>4, <4>1 DEF From
      <4>. QED
        BY <2>9, <4>1, <4>2, <4>3
    <3>. QED
      BY <3>1, <3>2
  <2>11. From(a, h)
    BY <2>10 DEF From
  <2>. QED
    BY <2>4, <2>8, <2>11
<1>3. \A n \in Nat : Good(n)
  <2> DEFINE G == {n \in Nat : Good(n)}
  <2> HIDE DEF Good
  <2>1. 0 \in G
    BY <1>1
  <2>2. \A n \in Nat : n \in G => n + 1 \in G
    BY <1>2
  <2>3. \A n \in Nat : n \in G
    <3> HIDE DEF G
    <3>. QED
      BY <2>1, <2>2, Induction
  <2>. QED
    BY <2>3
<1>4. CASE b <= m + 1
  <2>1. PICK n \in Nat : n <= m + 1 /\ (m + 1) - n = b
    <3>1. (m + 1) - b \in Nat /\ (m + 1) - b <= m + 1 /\ (m + 1) - ((m + 1) - b) = b
      BY <1>4
    <3>. QED
      BY <3>1
  <2>2. PICK f \in [b .. m -> Seq(S)] : From(b, f)
    <3>1. b <= (m + 1) - n
      BY <2>1
    <3> HIDE DEF From
    <3>. QED
      BY <1>3, <2>1, <3>1
  <2>3. Gathers(b .. m, ends, head, next, f)
    BY <2>2 DEF Gathers
  <2>. QED
    BY <2>3
<1>5. CASE ~(b <= m + 1)
  <2> DEFINE f == [q \in b .. m |-> <<>>]
  <2>1. b .. m = {}
    BY <1>5
  <2>2. f \in [b .. m -> Seq(S)] /\ Gathers(b .. m, ends, head, next, f)
    BY <2>1 DEF Gathers
  <2>. QED
    BY <2>2
<1>. QED
  BY <1>4, <1>5

(* What one such function gathers, each of them does.                         *)
LEMMA GathersType ==
  ASSUME NEW S, NEW b \in Nat, NEW m \in Nat, NEW ends,
         NEW head \in [b .. m -> Seq(S)], NEW next \in [b .. m -> Nat],
         \A q \in b .. m : q \notin ends => q < next[q] /\ next[q] <= m,
         NEW f, Gathers(b .. m, ends, head, next, f)
  PROVE  \A q \in b .. m : f[q] \in Seq(S)
<1> DEFINE Good(n) == \A q \in b .. m : m - n <= q => f[q] \in Seq(S)
<1>1. \A q \in b .. m : f[q] = IF q \in ends THEN <<>> ELSE head[q] \o f[next[q]]
  BY DEF Gathers
<1>2. ASSUME NEW q \in b .. m, \A r \in b .. m : q < r => f[r] \in Seq(S)
      PROVE  f[q] \in Seq(S)
  <2>1. CASE q \in ends
    BY <1>1, <2>1, EmptySeq
  <2>2. CASE q \notin ends
    <3>1. next[q] \in b .. m /\ q < next[q]
      BY <2>2
    <3>2. f[next[q]] \in Seq(S)
      BY <1>2, <3>1
    <3>3. head[q] \o f[next[q]] \in Seq(S)
      BY <3>2, ConcatProperties
    <3>. QED
      BY <1>1, <2>2, <3>3
  <2>. QED
    BY <2>1, <2>2
<1>3. Good(0)
  <2>1. ASSUME NEW q \in b .. m, m - 0 <= q PROVE f[q] \in Seq(S)
    <3>1. \A r \in b .. m : ~(q < r)
      BY <2>1
    <3>. QED
      BY <1>2, <3>1
  <2>. QED
    BY <2>1
<1>4. ASSUME NEW n \in Nat, Good(n) PROVE Good(n + 1)
  <2>1. ASSUME NEW q \in b .. m, m - (n + 1) <= q PROVE f[q] \in Seq(S)
    <3>1. ASSUME NEW r \in b .. m, q < r PROVE f[r] \in Seq(S)
      <4>1. m - n <= r
        BY <2>1, <3>1
      <4>. QED
        BY <1>4, <4>1
    <3>. QED
      BY <1>2, <3>1
  <2>. QED
    BY <2>1
<1>5. \A n \in Nat : Good(n)
  <2> DEFINE G == {n \in Nat : Good(n)}
  <2> HIDE DEF Good
  <2>1. 0 \in G
    BY <1>3
  <2>2. \A n \in Nat : n \in G => n + 1 \in G
    BY <1>4
  <2>3. \A n \in Nat : n \in G
    <3> HIDE DEF G
    <3>. QED
      BY <2>1, <2>2, Induction
  <2>. QED
    BY <2>3
<1>6. \A q \in b .. m : m - m <= q
  OBVIOUS
<1>7. Good(m)
  <2> HIDE DEF Good
  <2>. QED
    BY <1>5
<1>. QED
  BY <1>6, <1>7

-----------------------------------------------------------------------------
(* The texts and the tokens of a source.                                     *)

LEMMA AtType ==
  ASSUME NEW s \in Seq(Chars), NEW p \in Nat
  PROVE  At(s, p) \in Chars
<1>1. "NUL" \in Chars
  BY DEF Chars, Marks, NUL
<1>2. CASE p < Len(s)
  BY <1>2 DEF At
<1>3. CASE ~(p < Len(s))
  BY <1>1, <1>3 DEF At, NUL
<1>. QED
  BY <1>2, <1>3

LEMMA EscapedType ==
  ASSUME NEW c \in Chars
  PROVE  Escaped(c) \in Seq(Chars)
<1>1. "newline" \in Chars /\ "tab" \in Chars /\ "backslash" \in Chars
  BY DEF Chars, Marks, Spaces
<1>2. <<"newline">> \in Seq(Chars) /\ <<"tab">> \in Seq(Chars) /\ <<c>> \in Seq(Chars) /\ <<"backslash", c>> \in Seq(Chars)
  BY <1>1
<1>. QED
  BY <1>2 DEF Escaped

(* f[q] is the text between q and stop.                                      *)
TextFrom(s, p, stop, f) ==
  \A q \in p .. Len(s) + 2 :
    f[q] = IF q >= stop THEN <<>>
           ELSE IF At(s, q) = "backslash" THEN Escaped(At(s, q + 1)) \o f[q + 2]
           ELSE <<At(s, q)>> \o f[q + 1]

LEMMA StringTextIs ==
  ASSUME NEW s \in Seq(Chars), NEW p \in Nat, NEW stop \in Nat, stop <= Len(s) + 2
  PROVE  \E f : /\ StringText(s, p, stop) = f[p]
                /\ TextFrom(s, p, stop, f)
                /\ \A q \in p .. Len(s) + 2 : f[q] \in Seq(Chars)
<1> DEFINE m == Len(s) + 2
           Is(g) == g = [q \in p .. Len(s) + 2 |->
                           IF q >= stop THEN <<>>
                           ELSE IF At(s, q) = "backslash" THEN Escaped(At(s, q + 1)) \o g[q + 2]
                           ELSE <<At(s, q)>> \o g[q + 1]]
           ends == {q \in p .. m : q >= stop}
           head == [q \in p .. m |-> IF At(s, q) = "backslash" THEN Escaped(At(s, q + 1))
                                     ELSE <<At(s, q)>>]
           next == [q \in p .. m |-> IF At(s, q) = "backslash" THEN q + 2 ELSE q + 1]
<1>1. m \in Nat /\ Len(s) \in Nat
  OBVIOUS
<1>2. head \in [p .. m -> Seq(Chars)] /\ next \in [p .. m -> Nat]
  <2>1. \A q \in p .. m : At(s, q) \in Chars /\ At(s, q + 1) \in Chars
    BY <1>1, AtType
  <2>2. ASSUME NEW q \in p .. m PROVE Escaped(At(s, q + 1)) \in Seq(Chars)
    BY <2>1, EscapedType
  <2>3. \A q \in p .. m : <<At(s, q)>> \in Seq(Chars)
    BY <2>1
  <2>4. \A q \in p .. m : q + 2 \in Nat /\ q + 1 \in Nat
    BY <1>1
  <2> HIDE DEF m
  <2>. QED
    BY <2>2, <2>3, <2>4
<1>3. \A q \in p .. m : q \notin ends => q < next[q] /\ next[q] <= m
  <2>1. \A q \in p .. m : At(s, q) = "backslash" => q < Len(s)
    BY <1>1, AtEnd DEF NUL
  <2>. QED
    BY <1>1, <2>1
<1>4. \A g : Is(g) <=> Gathers(p .. m, ends, head, next, g)
  <2> HIDE DEF m
  <2>1. ASSUME NEW g, NEW q \in p .. m
        PROVE  (IF q \in ends THEN <<>> ELSE head[q] \o g[next[q]])
                 = IF q >= stop THEN <<>>
                   ELSE IF At(s, q) = "backslash" THEN Escaped(At(s, q + 1)) \o g[q + 2]
                   ELSE <<At(s, q)>> \o g[q + 1]
    OBVIOUS
  <2> HIDE DEF ends, head, next
  <2>2. ASSUME NEW g
        PROVE  [q \in p .. m |-> IF q \in ends THEN <<>> ELSE head[q] \o g[next[q]]]
                 = [q \in p .. m |->
                      IF q >= stop THEN <<>>
                      ELSE IF At(s, q) = "backslash" THEN Escaped(At(s, q + 1)) \o g[q + 2]
                      ELSE <<At(s, q)>> \o g[q + 1]]
    BY <2>1
  <2>. QED
    BY <2>2 DEF Gathers, m
<1> DEFINE f == CHOOSE g : Is(g)
<1>5. StringText(s, p, stop) = f[p]
  BY DEF StringText
<1> HIDE DEF ends, head, next
<1>6. Is(f)
  <2>1. \E g \in [p .. m -> Seq(Chars)] : Gathers(p .. m, ends, head, next, g)
    <3> HIDE DEF m
    <3>. QED
      BY <1>1, <1>2, <1>3, GathersExists
  <2>2. \E g : Is(g)
    BY <1>4, <2>1
  <2> HIDE DEF Is
  <2>. QED
    BY <2>2
<1>7. \A q \in p .. m : f[q] \in Seq(Chars)
  <2>1. Gathers(p .. m, ends, head, next, f)
    BY <1>4, <1>6
  <2> HIDE DEF f, m
  <2>. QED
    BY <1>1, <1>2, <1>3, <2>1, GathersType
<1> HIDE DEF f
<1>8. TextFrom(s, p, stop, f)
  BY <1>6 DEF TextFrom
<1>. QED
  BY <1>5, <1>7, <1>8

(* The token that nextToken() returns at position p, and what LexAll keeps.    *)
TokenAt(s, p) == Scan(s, TokenStart(s, p))
KeptOf(t) == [type |-> t.type, text |-> t.text]

(* f[p] is what LexAll finds from position p on.                              *)
LexesFrom(s, f) ==
  \A p \in 0 .. Len(s) + 2 :
    f[p] = IF TokenAt(s, p).type = "END_OF_FILE" THEN <<>>
           ELSE <<KeptOf(TokenAt(s, p))>> \o f[TokenAt(s, p).to]

LEMMA LexAllIs ==
  ASSUME NEW s \in Seq(Chars)
  PROVE  \E f : LexAll(s) = f[0] /\ LexesFrom(s, f)
<1> DEFINE m == Len(s) + 2
           Is(g) == g = [p \in 0 .. Len(s) + 2 |->
                           LET t == Scan(s, TokenStart(s, p)) IN
                             IF t.type = "END_OF_FILE" THEN <<>>
                             ELSE <<[type |-> t.type, text |-> t.text]>> \o g[t.to]]
           S == {KeptOf(TokenAt(s, p)) : p \in 0 .. m}
           ends == {p \in 0 .. m : TokenAt(s, p).type = "END_OF_FILE"}
           head == [p \in 0 .. m |-> <<KeptOf(TokenAt(s, p))>>]
           next == [p \in 0 .. m |-> TokenAt(s, p).to]
<1>1. m \in Nat /\ Len(s) \in Nat
  OBVIOUS
<1>2. ASSUME NEW p \in 0 .. m
      PROVE  Called(s, p, TokenAt(s, p))
  <2>1. p \in Nat /\ p <= Len(s) + 2
    BY <1>1
  <2>. QED
    BY <2>1, CallScans DEF TokenAt
<1>3. head \in [0 .. m -> Seq(S)]
  <2>1. \A p \in 0 .. m : KeptOf(TokenAt(s, p)) \in S
    OBVIOUS
  <2> HIDE DEF S, m
  <2>. QED
    BY <2>1
<1>4. next \in [0 .. m -> Nat] /\ \A p \in 0 .. m : p \notin ends => p < next[p] /\ next[p] <= m
  <2>1. ASSUME NEW p \in 0 .. m
        PROVE  /\ TokenAt(s, p).to \in Nat /\ TokenAt(s, p).to <= m
               /\ TokenAt(s, p).type # "END_OF_FILE" => p < TokenAt(s, p).to
    <3>1. PICK t : t = TokenAt(s, p)
      OBVIOUS
    <3>2. Called(s, p, t)
      BY <1>2, <3>1
    <3>3. t.from \in Nat
      BY <3>2 DEF Called, Starts
    <3>4. t.to \in Nat /\ t.to <= m /\ (t.type # "END_OF_FILE" => p < t.to)
      BY <1>1, <3>2, <3>3 DEF Called
    <3>. QED
      BY <3>1, <3>4
  <2> HIDE DEF m
  <2>. QED
    BY <2>1
<1>5. \A g : Is(g) <=> Gathers(0 .. m, ends, head, next, g)
  <2> HIDE DEF m
  <2>1. ASSUME NEW g, NEW p \in 0 .. m
        PROVE  (IF p \in ends THEN <<>> ELSE head[p] \o g[next[p]])
                 = LET t == Scan(s, TokenStart(s, p)) IN
                     IF t.type = "END_OF_FILE" THEN <<>>
                     ELSE <<[type |-> t.type, text |-> t.text]>> \o g[t.to]
    BY DEF TokenAt, KeptOf
  <2> HIDE DEF ends, head, next
  <2>2. ASSUME NEW g
        PROVE  [p \in 0 .. m |-> IF p \in ends THEN <<>> ELSE head[p] \o g[next[p]]]
                 = [p \in 0 .. m |->
                      LET t == Scan(s, TokenStart(s, p)) IN
                        IF t.type = "END_OF_FILE" THEN <<>>
                        ELSE <<[type |-> t.type, text |-> t.text]>> \o g[t.to]]
    BY <2>1
  <2>. QED
    BY <2>2 DEF Gathers, m
<1> DEFINE f == CHOOSE g : Is(g)
<1>6. LexAll(s) = f[0]
  BY DEF LexAll
<1> HIDE DEF ends, head, next, S
<1>7. Is(f)
  <2>1. \E g \in [0 .. m -> Seq(S)] : Gathers(0 .. m, ends, head, next, g)
    <3>1. 0 \in Nat
      OBVIOUS
    <3> HIDE DEF m
    <3>. QED
      BY <1>1, <1>3, <1>4, <3>1, GathersExists
  <2>2. \E g : Is(g)
    BY <1>5, <2>1
  <2> HIDE DEF Is
  <2>. QED
    BY <2>2
<1> HIDE DEF f
<1>8. LexesFrom(s, f)
  BY <1>7 DEF LexesFrom, TokenAt, KeptOf
<1>. QED
  BY <1>6, <1>8

-----------------------------------------------------------------------------
(* A text quoted again.                                                      *)

(* The function of StringStop, and what it is at the beginning.               *)
LEMMA StringStopIs ==
  ASSUME NEW s \in Seq(Chars), NEW p \in Nat, p + 1 <= Len(s) + 2
  PROVE  \E f : StringStop(s, p) = f[p + 1] /\ Stops(s, p + 1, f)
<1> DEFINE f == CHOOSE f : f = [q \in p + 1 .. Len(s) + 2 |->
                  IF At(s, q) \in {"quote", NUL} THEN q
                  ELSE f[q + (IF At(s, q) = "backslash" THEN 2 ELSE 1)]]
<1>1. StringStop(s, p) = f[p + 1]
  BY DEF StringStop
<1>2. Stops(s, p + 1, f)
  <2>1. p + 1 \in Nat
    OBVIOUS
  <2>2. \E g : Stops(s, p + 1, g)
    BY <2>1, StopsExists
  <2>. QED
    BY <2>2 DEF Stops
<1>. QED
  BY <1>1, <1>2

(* From a to b a string spells the character c.                               *)
Spelt(s, a, b, c) ==
  \/ b = a + 1 /\ At(s, a) = c /\ c \notin {"quote", "backslash", NUL}
  \/ b = a + 2 /\ At(s, a) = "backslash" /\ Escaped(At(s, a + 1)) = <<c>>

(* A string that spells the text t, the k-th character up to O[k].            *)
LEMMA SpeltOut ==
  ASSUME NEW s \in Seq(Chars), NEW t \in Seq(Chars), NEW O \in [0 .. Len(t) -> Nat],
         O[0] = 1, O[Len(t)] <= Len(s), At(s, O[Len(t)]) = "quote",
         \A k \in 1 .. Len(t) : Spelt(s, O[k - 1], O[k], t[k])
  PROVE  StringStop(s, 0) = O[Len(t)] /\ StringText(s, 1, O[Len(t)]) = t
<1> DEFINE n == Len(t)
           e == O[n]
<1>1. n \in Nat /\ e \in Nat /\ e <= Len(s) /\ Len(s) \in Nat /\ At(s, e) = "quote"
  BY LenProperties
<1>2. PICK f : StringStop(s, 0) = f[1] /\ Stops(s, 1, f)
  <2>1. 0 + 1 <= Len(s) + 2 /\ 0 + 1 = 1
    BY <1>1
  <2>. QED
    BY <2>1, StringStopIs
<1>3. PICK g : StringText(s, 1, e) = g[1] /\ TextFrom(s, 1, e, g)
  <2>1. e <= Len(s) + 2 /\ 1 \in Nat
    BY <1>1
  <2> HIDE DEF e
  <2>. QED
    BY <1>1, <2>1, StringTextIs
<1> DEFINE Good(j) == j <= n =>
             /\ 1 <= O[n - j] /\ O[n - j] <= e
             /\ f[O[n - j]] = e /\ g[O[n - j]] = Part(t, n - j, n)
<1>4. \A q \in 1 .. Len(s) + 2 :
        f[q] = IF At(s, q) \in {"quote", NUL} THEN q
               ELSE f[q + (IF At(s, q) = "backslash" THEN 2 ELSE 1)]
  BY <1>2 DEF Stops
<1>5. \A k \in 1 .. n : O[k - 1] \in Nat /\ O[k] \in Nat /\ O[k - 1] < O[k]
  <2>1. ASSUME NEW k \in 1 .. n PROVE O[k - 1] \in Nat /\ O[k] \in Nat /\ O[k - 1] < O[k]
    <3>1. O[k - 1] \in Nat /\ O[k] \in Nat
      OBVIOUS
    <3>2. Spelt(s, O[k - 1], O[k], t[k])
      OBVIOUS
    <3>. QED
      BY <3>1, <3>2 DEF Spelt
  <2>. QED
    BY <2>1
<1>6. \A k \in 0 .. n : O[k] \in Nat /\ 1 <= O[k]
  <2> DEFINE G == {k \in Nat : k <= n => 1 <= O[k]}
  <2>1. 0 \in G
    OBVIOUS
  <2>2. ASSUME NEW k \in Nat, k \in G PROVE k + 1 \in G
    <3>1. CASE k + 1 <= n
      <4>1. k + 1 \in 1 .. n /\ (k + 1) - 1 = k /\ k <= n
        BY <1>1, <3>1
      <4>2. O[k] < O[k + 1] /\ O[k] \in Nat /\ O[k + 1] \in Nat
        BY <1>5, <4>1
      <4>3. 1 <= O[k]
        BY <2>2, <4>1
      <4>. QED
        BY <4>2, <4>3
    <3>2. CASE ~(k + 1 <= n)
      BY <3>2
    <3>. QED
      BY <3>1, <3>2
  <2>3. \A k \in Nat : k \in G
    <3> HIDE DEF G
    <3>. QED
      BY <2>1, <2>2, Induction
  <2>4. \A k \in 0 .. n : O[k] \in Nat
    OBVIOUS
  <2>. QED
    BY <2>3, <2>4
<1>7. Good(0)
  <2>1. n - 0 = n /\ 1 <= e /\ e \in 1 .. Len(s) + 2
    BY <1>1, <1>6
  <2>2. f[e] = e
    BY <1>1, <1>4, <2>1
  <2>3. g[e] = <<>>
    <3> HIDE DEF e
    <3>1. e >= e
      BY <1>1
    <3>. QED
      BY <1>3, <2>1, <3>1 DEF TextFrom
  <2>4. Part(t, n, n) = <<>>
    BY <1>1, PartEmpty
  <2>. QED
    BY <2>1, <2>2, <2>3, <2>4
<1>8. ASSUME NEW j \in Nat, Good(j) PROVE Good(j + 1)
  <2>1. SUFFICES ASSUME j + 1 <= n
                 PROVE  /\ 1 <= O[n - (j + 1)] /\ O[n - (j + 1)] <= e
                        /\ f[O[n - (j + 1)]] = e /\ g[O[n - (j + 1)]] = Part(t, n - (j + 1), n)
    OBVIOUS
  <2>2. PICK k \in 1 .. n : k = n - j /\ k - 1 = n - (j + 1)
    <3>1. n - j \in 1 .. n /\ (n - j) - 1 = n - (j + 1)
      BY <1>1, <2>1
    <3>. QED
      BY <3>1
  <2>3. 1 <= O[k] /\ O[k] <= e /\ f[O[k]] = e /\ g[O[k]] = Part(t, k, n)
    BY <1>1, <1>8, <2>1, <2>2
  <2>4. Spelt(s, O[k - 1], O[k], t[k])
    BY <2>2
  <2>5. PICK a \in Nat, b \in Nat : a = O[k - 1] /\ b = O[k] /\ a < b
    BY <1>5, <2>2
  <2>6. 1 <= a /\ b <= e
    BY <1>6, <2>2, <2>3, <2>5
  <2>7. t[k] \in Chars /\ Part(t, k - 1, n) = <<t[k]>> \o Part(t, k, n)
    <3>1. k - 1 \in Nat /\ k \in Nat /\ k - 1 <= k /\ k <= n
      BY <1>1, <2>2
    <3>2. Part(t, k - 1, k) \o Part(t, k, n) = Part(t, k - 1, n)
      <4>1. n <= Len(t)
        BY <1>1
      <4> HIDE DEF n
      <4>. QED
        BY <1>1, <3>1, <4>1, PartConcat
    <3>3. /\ Part(t, k - 1, k) \in Seq(Chars) /\ Len(Part(t, k - 1, k)) = 1
          /\ Part(t, k - 1, k)[1] = t[k]
      <4>1. k - (k - 1) = 1 /\ (k - 1) + 1 = k /\ 1 \in 1 .. 1
        BY <3>1
      <4>2. /\ Part(t, k - 1, k) \in Seq(Chars) /\ Len(Part(t, k - 1, k)) = k - (k - 1)
            /\ \A i \in 1 .. k - (k - 1) : Part(t, k - 1, k)[i] = t[(k - 1) + i]
        <5>1. \A i \in Nat : i <= k /\ k <= Len(t) =>
                /\ Part(t, i, k) \in Seq(Chars) /\ Len(Part(t, i, k)) = k - i
                /\ \A x \in 1 .. k - i : Part(t, i, k)[x] = t[i + x]
          BY <3>1, PartType
        <5>2. k <= Len(t)
          BY <3>1
        <5> HIDE DEF n
        <5>. QED
          BY <3>1, <5>1, <5>2
      <4>. QED
        BY <4>1, <4>2
    <3>4. t[k] \in Chars
      BY <2>2, LenProperties
    <3>5. Part(t, k - 1, k) = <<t[k]>>
      BY <3>3, <3>4
    <3>. QED
      BY <3>2, <3>4, <3>5
  <2> HIDE DEF n, e
  <2>8. a \in 1 .. Len(s) + 2 /\ a < e
    BY <1>1, <2>5, <2>6
  <2>9. g[a] = IF At(s, a) = "backslash" THEN Escaped(At(s, a + 1)) \o g[a + 2]
               ELSE <<At(s, a)>> \o g[a + 1]
    BY <1>1, <1>3, <2>5, <2>8 DEF TextFrom
  <2>10. f[a] = f[b] /\ g[a] = <<t[k]>> \o g[b]
    <3>1. CASE b = a + 1 /\ At(s, a) = t[k] /\ t[k] \notin {"quote", "backslash", NUL}
      BY <1>4, <2>8, <2>9, <3>1
    <3>2. CASE b = a + 2 /\ At(s, a) = "backslash" /\ Escaped(At(s, a + 1)) = <<t[k]>>
      <4>1. "backslash" \notin {"quote", NUL}
        BY DEF NUL
      <4>. QED
        BY <1>4, <2>8, <2>9, <3>2, <4>1
    <3>. QED
      BY <2>4, <2>5, <3>1, <3>2 DEF Spelt
  <2>11. 1 <= O[k - 1] /\ O[k - 1] <= e /\ f[O[k - 1]] = e /\ g[O[k - 1]] = Part(t, k - 1, n)
    BY <1>1, <2>3, <2>5, <2>6, <2>7, <2>8, <2>10
  <2>. QED
    BY <2>2, <2>11
<1>9. \A j \in Nat : Good(j)
  <2> DEFINE G == {j \in Nat : Good(j)}
  <2> HIDE DEF Good
  <2>1. 0 \in G
    BY <1>7
  <2>2. \A j \in Nat : j \in G => j + 1 \in G
    BY <1>8
  <2>3. \A j \in Nat : j \in G
    <3> HIDE DEF G
    <3>. QED
      BY <2>1, <2>2, Induction
  <2>. QED
    BY <2>3
<1>10. f[1] = e /\ g[1] = Part(t, 0, n)
  <2>1. Good(n)
    <3> HIDE DEF Good
    <3>. QED
      BY <1>1, <1>9
  <2>2. n - n = 0 /\ n <= n
    BY <1>1
  <2>. QED
    BY <2>1, <2>2
<1>11. Part(t, 0, n) = t
  BY PartFull
<1>. QED
  BY <1>2, <1>3, <1>10, <1>11

(* Where the elements of the k-th sequence are in what they all make.          *)
LEMMA FlatAt ==
  ASSUME NEW S, NEW seqs \in Seq(Seq(S))
  PROVE  /\ Runs(seqs) \in [0 .. Len(seqs) -> Seq(S)]
         /\ Len(Runs(seqs)[0]) = 0 /\ Len(Runs(seqs)[Len(seqs)]) = Len(FlattenSeq(seqs))
         /\ \A k \in 1 .. Len(seqs) :
              /\ Len(Runs(seqs)[k]) = Len(Runs(seqs)[k - 1]) + Len(seqs[k])
              /\ Len(Runs(seqs)[k]) <= Len(FlattenSeq(seqs))
              /\ \A i \in 1 .. Len(seqs[k]) :
                   FlattenSeq(seqs)[Len(Runs(seqs)[k - 1]) + i] = seqs[k][i]
<1> DEFINE R == Runs(seqs)
           F == FlattenSeq(seqs)
<1>1. /\ R \in [0 .. Len(seqs) -> Seq(S)]
      /\ R[0] = <<>> /\ R[Len(seqs)] = F
      /\ \A k \in 1 .. Len(seqs) : R[k] = R[k - 1] \o seqs[k]
  BY RunsProperties
<1>2. F \in Seq(S)
  BY FlattenType
<1>3. \A k \in 1 .. Len(seqs) : Within(F, seqs[k], Len(R[k - 1]), Len(R[k]))
  BY RunsAt
<1> HIDE DEF R, F
<1>4. Len(R[0]) = 0 /\ Len(R[Len(seqs)]) = Len(F)
  BY <1>1, EmptySeq
<1>5. ASSUME NEW k \in 1 .. Len(seqs)
      PROVE  /\ Len(R[k]) = Len(R[k - 1]) + Len(seqs[k])
             /\ Len(R[k]) <= Len(F)
             /\ \A i \in 1 .. Len(seqs[k]) : F[Len(R[k - 1]) + i] = seqs[k][i]
  <2>1. seqs[k] \in Seq(S)
    BY LenProperties
  <2>2. PICK p \in Seq(S) : p = seqs[k]
    BY <2>1
  <2>3. PICK a \in Nat : a = Len(R[k - 1])
    BY <1>3 DEF Within
  <2>4. PICK b \in Nat : b = Len(R[k]) /\ b = a + Len(p)
    <3>1. Within(F, p, a, Len(R[k]))
      BY <1>3, <2>2, <2>3
    <3>2. Len(R[k]) = a + Len(p) /\ a + Len(p) \in Nat
      BY <3>1, LenProperties DEF Within
    <3>. QED
      BY <3>2
  <2>5. Within(F, p, a, b)
    BY <1>3, <2>2, <2>3, <2>4
  <2>6. a <= b /\ b <= Len(F) /\ Part(F, a, b) = p /\ Len(p) \in Nat /\ b - a = Len(p)
    BY <2>4, <2>5, LenProperties DEF Within, Part
  <2>7. \A i \in 1 .. b - a : Part(F, a, b)[i] = F[a + i]
    <3>1. a <= b /\ b <= Len(F)
      BY <2>6
    <3>. QED
      BY <1>2, <3>1, PartType, Zenon
  <2>8. \A i \in 1 .. Len(p) : F[a + i] = p[i]
    BY <2>6, <2>7
  <2>. QED
    BY <2>2, <2>3, <2>4, <2>6, <2>8
<1>. QED
  BY <1>1, <1>4, <1>5 DEF R, F

(* Between quotes: one character, the text, one character.                    *)
LEMMA InQuotes ==
  ASSUME NEW F \in Seq(Chars)
  PROVE  LET s == <<"quote">> \o F \o <<"quote">> IN
           /\ s \in Seq(Chars) /\ Len(s) = Len(F) + 2
           /\ At(s, 0) = "quote" /\ At(s, Len(F) + 1) = "quote"
           /\ \A i \in 1 .. Len(F) : At(s, i) = F[i]
<1> DEFINE q == <<"quote">>
           s == (q \o F) \o q
<1>1. q \in Seq(Chars) /\ Len(q) = 1 /\ q[1] = "quote"
  <2>1. "quote" \in Chars
    BY DEF Chars, Marks
  <2>. QED
    BY <2>1
<1> HIDE DEF q
<1>2. /\ q \o F \in Seq(Chars) /\ Len(q \o F) = 1 + Len(F)
      /\ \A i \in 1 .. 1 + Len(F) : (q \o F)[i] = IF i <= 1 THEN q[i] ELSE F[i - 1]
  BY <1>1, ConcatProperties
<1>3. Len(F) \in Nat
  BY LenProperties
<1>4. /\ s \in Seq(Chars) /\ Len(s) = (1 + Len(F)) + 1
      /\ \A i \in 1 .. (1 + Len(F)) + 1 :
           s[i] = IF i <= 1 + Len(F) THEN (q \o F)[i] ELSE q[i - (1 + Len(F))]
  <2>1. PICK t \in Seq(Chars) : t = q \o F
    BY <1>2
  <2>. QED
    BY <1>1, <1>2, <2>1, ConcatProperties
<1> HIDE DEF s
<1>5. \A i \in 0 .. Len(F) + 1 : At(s, i) = s[i + 1]
  BY <1>3, <1>4 DEF At
<1>6. At(s, 0) = "quote"
  BY <1>1, <1>2, <1>3, <1>4, <1>5
<1>7. At(s, Len(F) + 1) = "quote"
  BY <1>1, <1>3, <1>4, <1>5
<1>8. ASSUME NEW i \in 1 .. Len(F) PROVE At(s, i) = F[i]
  <2>1. At(s, i) = (q \o F)[i + 1]
    <3>1. i \in 0 .. Len(F) + 1 /\ i + 1 \in 1 .. (1 + Len(F)) + 1 /\ i + 1 <= 1 + Len(F)
      BY <1>3
    <3>2. At(s, i) = s[i + 1]
      BY <1>5, <3>1
    <3>. QED
      BY <1>4, <3>1, <3>2
  <2>2. i + 1 \in 1 .. 1 + Len(F) /\ ~(i + 1 <= 1) /\ (i + 1) - 1 = i
    BY <1>3
  <2>. QED
    BY <1>2, <2>1, <2>2
<1>. QED
  BY <1>3, <1>4, <1>6, <1>7, <1>8 DEF s, q

(* How Quote spells a character.                                              *)
SpellingOf(c) == IF c = "newline" THEN <<"backslash", "n">>
                 ELSE IF c = "tab" THEN <<"backslash", "t">>
                 ELSE IF c \in {"quote", "backslash"} THEN <<"backslash", c>> ELSE <<c>>

LEMMA SpellingSpells ==
  ASSUME NEW c \in Chars, c # NUL, NEW s, NEW a \in Nat,
         \A i \in 1 .. Len(SpellingOf(c)) : At(s, (a + i) - 1) = SpellingOf(c)[i]
  PROVE  SpellingOf(c) \in Seq(Chars) /\ Spelt(s, a, a + Len(SpellingOf(c)), c)
<1>0. {"backslash", "n", "t"} \subseteq Chars
  BY DEF Chars, Marks
<1>1. CASE c = "newline"
  <2>1. SpellingOf(c) = <<"backslash", "n">>
    BY <1>1 DEF SpellingOf
  <2>2. Len(SpellingOf(c)) = 2 /\ 1 \in 1 .. 2 /\ 2 \in 1 .. 2 /\ (a + 1) - 1 = a /\ (a + 2) - 1 = a + 1
    BY <2>1
  <2>3. At(s, a) = "backslash" /\ At(s, a + 1) = "n"
    BY <2>1, <2>2
  <2>4. Escaped("n") = <<"newline">>
    BY DEF Escaped
  <2>. QED
    BY <1>0, <1>1, <2>1, <2>2, <2>3, <2>4 DEF Spelt
<1>4. CASE c = "tab"
  <2>1. SpellingOf(c) = <<"backslash", "t">>
    BY <1>4 DEF SpellingOf
  <2>2. Len(SpellingOf(c)) = 2 /\ 1 \in 1 .. 2 /\ 2 \in 1 .. 2 /\ (a + 1) - 1 = a /\ (a + 2) - 1 = a + 1
    BY <2>1
  <2>3. At(s, a) = "backslash" /\ At(s, a + 1) = "t"
    BY <2>1, <2>2
  <2>4. Escaped("t") = <<"tab">>
    BY DEF Escaped
  <2>. QED
    BY <1>0, <1>4, <2>1, <2>2, <2>3, <2>4 DEF Spelt
<1>2. CASE c \in {"quote", "backslash"}
  <2>1. SpellingOf(c) = <<"backslash", c>>
    BY <1>2 DEF SpellingOf
  <2>2. Len(SpellingOf(c)) = 2 /\ 1 \in 1 .. 2 /\ 2 \in 1 .. 2 /\ (a + 1) - 1 = a /\ (a + 2) - 1 = a + 1
    BY <2>1
  <2>3. At(s, a) = "backslash" /\ At(s, a + 1) = c
    BY <2>1, <2>2
  <2>4. Escaped(c) = <<c>>
    BY <1>2 DEF Escaped
  <2>. QED
    BY <1>0, <2>1, <2>2, <2>3, <2>4 DEF Spelt
<1>3. CASE c \notin {"newline", "tab", "quote", "backslash"}
  <2>1. SpellingOf(c) = <<c>>
    BY <1>3 DEF SpellingOf
  <2>2. Len(SpellingOf(c)) = 1 /\ 1 \in 1 .. 1 /\ (a + 1) - 1 = a
    BY <2>1
  <2>3. At(s, a) = c
    BY <2>1, <2>2
  <2>. QED
    BY <1>3, <2>1, <2>2, <2>3 DEF Spelt
<1>. QED
  BY <1>1, <1>2, <1>3, <1>4

LEMMA QuoteReads ==
  ASSUME NEW t \in Seq(Chars), NUL \notin ToSet(t)
  PROVE  LET s == Quote(t) IN
           /\ s \in Seq(Chars) /\ Len(s) >= 2 /\ At(s, 0) = "quote"
           /\ StringStop(s, 0) = Len(s) - 1 /\ At(s, Len(s) - 1) = "quote"
           /\ StringText(s, 1, Len(s) - 1) = t
<1> DEFINE seqs == [i \in DOMAIN t |-> SpellingOf(t[i])]
           F == FlattenSeq(seqs)
           s == <<"quote">> \o F \o <<"quote">>
           R == Runs(seqs)
           n == Len(t)
           O == [k \in 0 .. n |-> 1 + Len(R[k])]
<1>1. Quote(t) = s
  BY DEF Quote, SpellingOf
<1>2. n \in Nat /\ DOMAIN t = 1 .. n /\ \A i \in 1 .. n : t[i] \in Chars /\ t[i] # NUL
  BY LenProperties DEF ToSet
<1>3. ASSUME NEW c \in Chars PROVE SpellingOf(c) \in Seq(Chars)
  <2>1. {"backslash", "n", "t"} \subseteq Chars
    BY DEF Chars, Marks
  <2>. QED
    BY <1>3, <2>1 DEF SpellingOf
<1>4. seqs \in Seq(Seq(Chars)) /\ Len(seqs) = n
  <2>1. seqs \in [1 .. n -> Seq(Chars)]
    BY <1>2, <1>3
  <2> HIDE DEF seqs, n
  <2>. QED
    BY <1>2, <2>1, SeqDef
<1>5. \A k \in 1 .. n : seqs[k] = SpellingOf(t[k])
  BY <1>2
<1> HIDE DEF seqs, n
<1>6. /\ R \in [0 .. n -> Seq(Chars)]
      /\ Len(R[0]) = 0 /\ Len(R[n]) = Len(F)
      /\ \A k \in 1 .. n :
           /\ Len(R[k]) = Len(R[k - 1]) + Len(seqs[k])
           /\ Len(R[k]) <= Len(F)
           /\ \A i \in 1 .. Len(seqs[k]) : F[Len(R[k - 1]) + i] = seqs[k][i]
  BY <1>4, FlatAt
<1>7. F \in Seq(Chars) /\ Len(F) \in Nat
  BY <1>4, FlattenType, LenProperties
<1> HIDE DEF F, R
<1>8. /\ s \in Seq(Chars) /\ Len(s) = Len(F) + 2
      /\ At(s, 0) = "quote" /\ At(s, Len(F) + 1) = "quote"
      /\ \A i \in 1 .. Len(F) : At(s, i) = F[i]
  BY <1>7, InQuotes
<1> HIDE DEF s
<1>9. \A k \in 0 .. n : Len(R[k]) \in Nat
  BY <1>6, LenProperties
<1>10. /\ O \in [0 .. n -> Nat] /\ O[0] = 1 /\ O[n] = Len(F) + 1
       /\ \A k \in 0 .. n : O[k] = 1 + Len(R[k])
  BY <1>2, <1>6, <1>7, <1>9
<1> HIDE DEF O
<1>11. ASSUME NEW k \in 1 .. n PROVE Spelt(s, O[k - 1], O[k], t[k])
  <2>1. PICK a \in Nat : a = Len(R[k - 1])
    BY <1>2, <1>9
  <2>2. /\ Len(R[k]) = a + Len(seqs[k]) /\ Len(R[k]) <= Len(F)
        /\ \A i \in 1 .. Len(seqs[k]) : F[a + i] = seqs[k][i]
    BY <1>6, <2>1
  <2>3. seqs[k] \in Seq(Chars) /\ Len(seqs[k]) \in Nat
    BY <1>4, LenProperties
  <2>4. ASSUME NEW i \in 1 .. Len(seqs[k]) PROVE At(s, ((a + 1) + i) - 1) = seqs[k][i]
    <3>1. ((a + 1) + i) - 1 = a + i /\ a + i \in 1 .. Len(F)
      BY <1>7, <2>2, <2>3
    <3>. QED
      BY <1>8, <2>2, <3>1
  <2>5. Spelt(s, a + 1, (a + 1) + Len(SpellingOf(t[k])), t[k])
    <3>1. PICK c \in Chars : c = t[k] /\ c # NUL
      BY <1>2
    <3>2. a + 1 \in Nat
      OBVIOUS
    <3>3. \A i \in 1 .. Len(SpellingOf(c)) : At(s, ((a + 1) + i) - 1) = SpellingOf(c)[i]
      BY <1>5, <2>4, <3>1
    <3>. QED
      BY <3>1, <3>2, <3>3, SpellingSpells
  <2>6. O[k - 1] = a + 1 /\ O[k] = (a + 1) + Len(SpellingOf(t[k]))
    <3>1. k - 1 \in 0 .. n /\ k \in 0 .. n
      BY <1>2
    <3>2. O[k - 1] = 1 + a /\ O[k] = 1 + (a + Len(seqs[k]))
      BY <1>10, <2>1, <2>2, <3>1
    <3>. QED
      BY <1>5, <2>3, <3>2
  <2>. QED
    BY <2>5, <2>6
<1>12. StringStop(s, 0) = O[n] /\ StringText(s, 1, O[n]) = t
  <2>1. O[n] <= Len(s) /\ At(s, O[n]) = "quote"
    BY <1>7, <1>8, <1>10
  <2>2. n = Len(t)
    BY DEF n
  <2>. QED
    BY <1>8, <1>10, <1>11, <2>1, <2>2, SpeltOut
<1>13. O[n] = Len(s) - 1 /\ Len(s) >= 2
  BY <1>7, <1>8, <1>10
<1>. QED
  BY <1>1, <1>8, <1>10, <1>12, <1>13

(* Where there is no blank and no comment, the token begins.                  *)
LEMMA StartsHere ==
  ASSUME NEW s \in Seq(Chars), NEW p \in Nat, p <= Len(s) + 2,
         At(s, p) \notin Spaces, ~Opens(s, p)
  PROVE  TokenStart(s, p) = p
<1>1. PICK r : r = TokenStart(s, p)
  OBVIOUS
<1>2. Starts(s, p, r)
  BY <1>1, TokenStarts
<1>3. PICK a, b \in Nat : Gap(s, p, a, b, r)
  BY <1>2 DEF Starts
<1>4. a = p
  BY <1>3 DEF Gap
<1>5. b = a
  BY <1>3, <1>4 DEF Gap, Remark
<1>6. r = p
  BY <1>3, <1>4, <1>5 DEF Gap
<1>. QED
  BY <1>1, <1>6

(* At the end of the text there is the end of the file.                       *)
LEMMA EndThere ==
  ASSUME NEW s \in Seq(Chars), NEW p \in Nat, p <= Len(s) + 2, At(s, p) = NUL
  PROVE  TokenAt(s, p).type = "END_OF_FILE"
<1>1. ~Opens(s, p)
  BY DEF Opens, NUL
<1>2. TokenStart(s, p) = p
  BY <1>1, StartsHere, SpacesAreNotNul
<1>3. Scanned(s, p, Scan(s, p))
  BY ScanScans
<1>. QED
  BY <1>2, <1>3 DEF Scanned, TokenAt

(* What is scanned at a quote.                                               *)
LEMMA ScanString ==
  ASSUME NEW s \in Seq(Chars), NEW p \in Nat, At(s, p) = "quote"
  PROVE  Scan(s, p) = IF At(s, StringStop(s, p)) = "quote"
                        THEN Token("STRINGLIT", p, StringStop(s, p) + 1,
                                   StringText(s, p + 1, StringStop(s, p)), StringStop(s, p) + 1)
                      ELSE Token("ERROR", p, StringStop(s, p), <<>>, p)
<1> DEFINE c == At(s, p)
           r == StringStop(s, p)
<1>1. ~IsNumber(s, p) /\ c \notin Letters \cup {"_"} \cup Singles /\ c # "$" /\ c # "!" /\ c # NUL
  BY Kinds, OneKind DEF IsNumber
<1> HIDE DEF r
<1>2. CASE At(s, r) = "quote"
  BY <1>1, <1>2 DEF Scan, r
<1>3. CASE At(s, r) # "quote"
  BY <1>1, <1>3 DEF Scan, r
<1>. QED
  BY <1>2, <1>3 DEF r

(* A text, quoted, is read as the one string that it is.                      *)
LEMMA QuoteRelexes ==
  ASSUME NEW t \in Seq(Chars), NUL \notin ToSet(t)
  PROVE  LexAll(Quote(t)) = <<[type |-> "STRINGLIT", text |-> t]>>
<1>1. PICK s : s = Quote(t)
  OBVIOUS
<1>2. /\ s \in Seq(Chars) /\ Len(s) >= 2 /\ At(s, 0) = "quote"
      /\ StringStop(s, 0) = Len(s) - 1 /\ At(s, Len(s) - 1) = "quote"
      /\ StringText(s, 1, Len(s) - 1) = t
  BY <1>1, QuoteReads
<1>3. Len(s) \in Nat
  BY <1>2, LenProperties
<1>4. TokenStart(s, 0) = 0
  <2>1. "quote" # "/" /\ "quote" \notin Spaces
    BY DEF Spaces
  <2>2. ~Opens(s, 0) /\ At(s, 0) \notin Spaces
    BY <1>2, <2>1, Zenon DEF Opens
  <2>3. 0 <= Len(s) + 2
    BY <1>3
  <2>. QED
    BY <1>2, <2>2, <2>3, StartsHere
<1>5. Scan(s, 0) = Token("STRINGLIT", 0, Len(s), t, Len(s))
  <2>1. (Len(s) - 1) + 1 = Len(s) /\ 0 + 1 = 1
    BY <1>3
  <2>2. Scan(s, 0) = Token("STRINGLIT", 0, (Len(s) - 1) + 1, StringText(s, 0 + 1, Len(s) - 1),
                           (Len(s) - 1) + 1)
    BY <1>2, ScanString
  <2>. QED
    BY <1>2, <2>1, <2>2
<1>6. TokenAt(s, 0).type = "STRINGLIT" /\ TokenAt(s, 0).to = Len(s) /\ TokenAt(s, 0).text = t
  BY <1>4, <1>5 DEF TokenAt, Token
<1>7. TokenAt(s, Len(s)).type = "END_OF_FILE"
  <2>1. At(s, Len(s)) = NUL
    BY <1>2, <1>3, AtEnd
  <2>2. Len(s) <= Len(s) + 2
    BY <1>3
  <2>. QED
    BY <1>2, <1>3, <2>1, <2>2, EndThere
<1>8. PICK f : LexAll(s) = f[0] /\ LexesFrom(s, f)
  BY <1>2, LexAllIs
<1>9. f[Len(s)] = <<>>
  <2>1. Len(s) \in 0 .. Len(s) + 2
    BY <1>3
  <2>. QED
    BY <1>7, <1>8, <2>1 DEF LexesFrom
<1>10. f[0] = <<KeptOf(TokenAt(s, 0))>> \o f[Len(s)]
  <2>1. 0 \in 0 .. Len(s) + 2
    BY <1>3
  <2>. QED
    BY <1>6, <1>8, <2>1 DEF LexesFrom
<1>11. KeptOf(TokenAt(s, 0)) = [type |-> "STRINGLIT", text |-> t]
  BY <1>6 DEF KeptOf
<1> DEFINE k == [type |-> "STRINGLIT", text |-> t]
<1>12. <<k>> \o <<>> = <<k>>
  <2>1. <<k>> \in Seq({k})
    OBVIOUS
  <2> HIDE DEF k
  <2>. QED
    BY <2>1, ConcatEmptySeq
<1>. QED
  BY <1>1, <1>8, <1>9, <1>10, <1>11, <1>12

-----------------------------------------------------------------------------
(* Every token is what Scan() finds behind the token before.                  *)
Like(u, t) == u.type = t.type /\ u.from = t.from /\ u.to = t.to /\ u.text = t.text

Traced ==
  \A i \in 1 .. Len(tokens) : Like(tokens[i], TokenAt(source, Behind(tokens, i - 1)))

LEMMA TracedStep ==
  ASSUME Handed, Reading, Traced, [Next]_<<launcherVars, vars>>
  PROVE  Traced'
<1>1. CASE Launch \/ UNCHANGED <<launcherVars, vars>>
  <2>1. UNCHANGED <<source, tokens>>
    BY <1>1 DEF Launch, vars
  <2>. QED
    BY <2>1 DEF Traced
<1>2. CASE Handle
  <2>1. tokens' = <<>>
    BY <1>2 DEF Handle, Handed
  <2>2. Len(tokens') = 0
    BY <2>1, EmptySeq
  <2>. QED
    BY <2>2 DEF Traced
<1>3. CASE Lex
  <2>1. PICK u : /\ tokens' = Append(tokens, u) /\ source' = source
                 /\ Like(u, TokenAt(source, position))
    BY <1>3 DEF Lex, NextToken, Like, TokenAt
  <2> DEFINE n == Len(tokens)
  <2>2. PICK S : tokens \in Seq(S)
    BY DEF Reading
  <2>3. /\ n \in Nat /\ Len(tokens') = n + 1
        /\ tokens'[n + 1] = u /\ \A i \in 1 .. n : tokens'[i] = tokens[i]
    <3>1. tokens \in Seq(S \cup {u})
      BY <2>2
    <3>. QED
      BY <2>1, <3>1, AppendProperties, LenProperties
  <2> HIDE DEF n
  <2>4. ASSUME NEW i \in 1 .. n + 1
        PROVE  Like(tokens'[i], TokenAt(source, Behind(tokens', i - 1)))
    <3>1. Behind(tokens', i - 1) = Behind(tokens, i - 1)
      <4>1. i - 1 # 0 => tokens'[i - 1] = tokens[i - 1]
        BY <2>3
      <4>. QED
        BY <4>1 DEF Behind
    <3>2. CASE i = n + 1
      <4>1. Behind(tokens, i - 1) = position /\ tokens'[i] = u
        <5>1. i - 1 = n
          BY <2>3, <3>2
        <5>. QED
          BY <2>3, <3>2, <5>1 DEF Reading, n
      <4>. QED
        BY <2>1, <3>1, <4>1
    <3>3. CASE i # n + 1
      <4>1. i \in 1 .. n
        BY <2>3, <3>3
      <4>2. tokens'[i] = tokens[i] /\ Like(tokens[i], TokenAt(source, Behind(tokens, i - 1)))
        BY <2>3, <4>1 DEF Traced, n
      <4>. QED
        BY <3>1, <4>2
    <3>. QED
      BY <3>2, <3>3
  <2>. QED
    BY <2>1, <2>3, <2>4 DEF Traced
<1>. QED
  BY <1>1, <1>2, <1>3 DEF Next

LEMMA TracedAlways == Spec => [](Handed /\ Reading /\ Traced)
<1>1. Init => Traced
  <2>1. SUFFICES ASSUME Init PROVE Traced
    OBVIOUS
  <2>2. tokens = <<>> /\ Len(tokens) = 0
    BY <2>1, EmptySeq DEF Init, Constructed
  <2>. QED
    BY <2>2 DEF Traced
<1>2. (Handed /\ Reading) /\ Traced /\ [Next]_<<launcherVars, vars>> => Traced'
  BY TracedStep
<1>. QED
  BY <1>1, <1>2, ReadingAlways, PTL DEF Spec

(* The tokens end behind each other, within what can be read.                 *)
LEMMA TracedInText ==
  ASSUME Handed, Reading, Traced
  PROVE  \A i \in 1 .. Len(tokens) :
           /\ Behind(tokens, i - 1) \in Nat /\ Behind(tokens, i - 1) <= Len(source) + 2
           /\ Called(source, Behind(tokens, i - 1), TokenAt(source, Behind(tokens, i - 1)))
<1> DEFINE Good(n) == n <= Len(tokens) => Behind(tokens, n) \in Nat /\ Behind(tokens, n) <= Len(source) + 2
<1>1. PICK s \in Seq(Chars) : s = source
  BY DEF Handed
<1>2. Len(tokens) \in Nat /\ Len(s) \in Nat
  BY LenProperties DEF Reading
<1>3. Good(0)
  BY <1>1, <1>2 DEF Behind
<1>4. \A p \in Nat : p <= Len(s) + 2 => Called(s, p, TokenAt(s, p))
  BY CallScans DEF TokenAt
<1>5. ASSUME NEW n \in Nat, Good(n) PROVE Good(n + 1)
  <2>1. SUFFICES ASSUME n + 1 <= Len(tokens)
                 PROVE  Behind(tokens, n + 1) \in Nat /\ Behind(tokens, n + 1) <= Len(source) + 2
    OBVIOUS
  <2>2. PICK p \in Nat : p = Behind(tokens, n) /\ p <= Len(s) + 2
    BY <1>1, <1>2, <1>5, <2>1
  <2>3. Like(tokens[n + 1], TokenAt(s, p))
    <3>1. n + 1 \in 1 .. Len(tokens) /\ (n + 1) - 1 = n
      BY <1>2, <2>1
    <3>. QED
      BY <1>1, <2>2, <3>1 DEF Traced
  <2>4. tokens[n + 1].to \in Nat /\ tokens[n + 1].to <= Len(s) + 2
    BY <1>4, <2>2, <2>3 DEF Like, Called
  <2>5. n + 1 # 0
    OBVIOUS
  <2>. QED
    BY <1>1, <2>4, <2>5 DEF Behind
<1>6. \A n \in Nat : Good(n)
  <2> DEFINE G == {n \in Nat : Good(n)}
  <2> HIDE DEF Good
  <2>1. 0 \in G
    BY <1>3
  <2>2. \A n \in Nat : n \in G => n + 1 \in G
    BY <1>5
  <2>3. \A n \in Nat : n \in G
    <3> HIDE DEF G
    <3>. QED
      BY <2>1, <2>2, Induction
  <2>. QED
    BY <2>3
<1>7. ASSUME NEW i \in 1 .. Len(tokens)
      PROVE  /\ Behind(tokens, i - 1) \in Nat /\ Behind(tokens, i - 1) <= Len(source) + 2
             /\ Called(source, Behind(tokens, i - 1), TokenAt(source, Behind(tokens, i - 1)))
  <2>1. i - 1 \in Nat /\ i - 1 <= Len(tokens)
    BY <1>2
  <2>2. Good(i - 1)
    <3> HIDE DEF Good
    <3>. QED
      BY <1>6, <2>1
  <2>3. PICK p \in Nat : p = Behind(tokens, i - 1) /\ p <= Len(s) + 2
    BY <1>1, <2>1, <2>2
  <2>. QED
    BY <1>1, <1>4, <2>3
<1>. QED
  BY <1>7

(* A string token has a text of characters.                                   *)
LEMMA StringsHaveText ==
  ASSUME NEW s \in Seq(Chars), NEW p \in Nat, p <= Len(s) + 2,
         Scan(s, p).type = "STRINGLIT"
  PROVE  Scan(s, p).text \in Seq(Chars)
<1>1. At(s, p) = "quote"
  <2>1. SUFFICES ASSUME At(s, p) # "quote" PROVE FALSE
    OBVIOUS
  <2>2. Scan(s, p).type \in {"END_OF_FILE", "INTEGER", "REALNUM", "ERROR", "ENV_VAR",
                             "KEYWORD", "IDENTIFIER", "OPERATOR"}
    BY <2>1 DEF Scan, Token
  <2>. QED
    BY <2>2
<1> DEFINE r == StringStop(s, p)
<1>2. Scan(s, p).text = StringText(s, p + 1, r)
  BY <1>1, ScanString DEF Token
<1>3. r \in Nat /\ r <= Len(s) + 2 /\ p + 1 <= r
  <2>1. p < Len(s)
    BY <1>1, AtEnd DEF NUL
  <2>2. Ends(s, p + 1, r)
    BY <2>1, StringStops
  <2>. QED
    BY <2>2 DEF Ends
<1> HIDE DEF r
<1>4. PICK f : /\ StringText(s, p + 1, r) = f[p + 1]
               /\ \A q \in p + 1 .. Len(s) + 2 : f[q] \in Seq(Chars)
  <2>1. p + 1 \in Nat
    OBVIOUS
  <2>. QED
    BY <1>3, <2>1, StringTextIs
<1>5. p + 1 \in p + 1 .. Len(s) + 2
  BY <1>3
<1>. QED
  BY <1>2, <1>4, <1>5

(* Of every file: a string literal that is read, is written in quotes again    *)
(* and read again, has the same text, whatever characters and escapes are in   *)
(* it.                                                                       *)
THEOREM StringsKept == Spec => []StringsKeepText
<1>1. Handed /\ Reading /\ Traced => StringsKeepText
  <2>1. SUFFICES ASSUME Handed, Reading, Traced, NEW i \in DOMAIN tokens,
                        tokens[i].type = "STRINGLIT", NUL \notin ToSet(tokens[i].text)
                 PROVE  LexAll(Quote(tokens[i].text))
                          = <<[type |-> "STRINGLIT", text |-> tokens[i].text]>>
    BY DEF StringsKeepText
  <2>2. i \in 1 .. Len(tokens)
    BY <2>1 DEF Reading
  <2>3. PICK s \in Seq(Chars) : s = source
    BY <2>1 DEF Handed
  <2>4. PICK p : p = Behind(tokens, i - 1)
    OBVIOUS
  <2>5. Called(s, p, TokenAt(s, p)) /\ p \in Nat /\ p <= Len(s) + 2
    BY <2>1, <2>2, <2>3, <2>4, TracedInText
  <2>6. PICK r \in Nat : r = TokenStart(s, p) /\ r <= Len(s) + 2
    <3>1. Starts(s, p, TokenStart(s, p))
      BY <2>5, TokenStarts
    <3>. QED
      BY <3>1 DEF Starts
  <2>7. Like(tokens[i], Scan(s, r))
    BY <2>1, <2>2, <2>3, <2>4, <2>6 DEF Traced, TokenAt
  <2>8. tokens[i].text \in Seq(Chars)
    BY <2>1, <2>6, <2>7, StringsHaveText DEF Like
  <2>. QED
    BY <2>1, <2>8, QuoteRelexes
<1>. QED
  BY <1>1, TracedAlways, PTL

-----------------------------------------------------------------------------
(* What is scanned depends on the characters of the token alone.               *)

LEMMA ScanNumber ==
  ASSUME NEW s, NEW p, IsNumber(s, p)
  PROVE  Scan(s, p) = Token(IF NumberEnd(s, p) = Integral(s, p) THEN "INTEGER" ELSE "REALNUM",
                            p, NumberEnd(s, p), <<>>, NumberEnd(s, p))
<1> DEFINE c == At(s, p)
           e == NumberEnd(s, p)
           type == IF NumberEnd(s, p) = Integral(s, p) THEN "INTEGER" ELSE "REALNUM"
<1>1. c \in Digits \cup Signs
  BY DEF IsNumber
<1>2. c \notin Letters \cup {"_"} /\ c # "quote" /\ c # "$" /\ c # NUL
  BY <1>1, Kinds
<1> HIDE DEF c
<1>3. Scan(s, p) = Token(type, p, e, <<>>, e)
  BY <1>2 DEF Scan, c
<1>. QED
  BY <1>3

LEMMA ScanVariable ==
  ASSUME NEW s, NEW p, At(s, p) = "$"
  PROVE  Scan(s, p) = Token(IF Past(s, p + 1, Alnum) = p + 1 THEN "ERROR" ELSE "ENV_VAR",
                            p, Past(s, p + 1, Alnum), <<>>, p)
<1> DEFINE c == At(s, p)
<1>1. ~IsNumber(s, p) /\ c \notin Letters \cup {"_"} \cup Singles /\ c # "quote" /\ c # "!" /\ c # NUL
  BY Kinds, OneKind DEF IsNumber
<1>. QED
  BY <1>1 DEF Scan

LEMMA ScanName ==
  ASSUME NEW s, NEW p, At(s, p) \in Letters \cup {"_"}
  PROVE  Scan(s, p) = Token(IF SubSeq(s, p + 1, Past(s, p, Alnum)) \in Keywords
                              THEN "KEYWORD" ELSE "IDENTIFIER",
                            p, Past(s, p, Alnum), <<>>, p)
<1> DEFINE c == At(s, p)
<1>1. /\ ~IsNumber(s, p)
      /\ c \notin Singles /\ c # "quote" /\ c # "!" /\ c # "$" /\ c # NUL
  BY Kinds DEF IsNumber
<1> HIDE DEF c
<1>. QED
  BY <1>1 DEF Scan, c

(* An operator begins at p.                                                  *)
Operates(s, p) == At(s, p) \in Singles \/ (At(s, p) = "!" /\ At(s, p + 1) = "=")

LEMMA ScanOperator ==
  ASSUME NEW s, NEW p, Operates(s, p), ~IsNumber(s, p)
  PROVE  Scan(s, p) = Token("OPERATOR", p, OperatorEnd(s, p), <<>>, p)
<1> DEFINE c == At(s, p)
           o == OperatorEnd(s, p)
<1>1. c \in Singles \/ (c = "!" /\ At(s, p + 1) = "=")
  BY DEF Operates
<1>2. c \notin Letters \cup {"_"} /\ c # "quote" /\ c # "$" /\ c # NUL
  BY <1>1, Kinds
<1> HIDE DEF c, o
<1>. QED
  BY <1>1, <1>2 DEF Scan, c, o

LEMMA ScanOther ==
  ASSUME NEW s, NEW p, ~Operates(s, p), ~IsNumber(s, p),
         At(s, p) \notin Letters \cup {"_"}, At(s, p) \notin {"quote", "$", NUL}
  PROVE  Scan(s, p) = Token("ERROR", p, p + 1, <<>>, p)
BY DEF Scan, ErrorEnd, Operates

(* A string that is not closed.                                              *)
Broken(s, p) == At(s, p) = "quote" /\ At(s, StringStop(s, p)) # "quote"

(* Whatever else is scanned is in the text.                                   *)
LEMMA ScanWithin ==
  ASSUME NEW s \in Seq(Chars), NEW p \in Nat, p <= Len(s), At(s, p) # NUL, ~Broken(s, p)
  PROVE  Scan(s, p).to <= Len(s)
<1>1. p < Len(s) /\ Len(s) \in Nat /\ p + 1 \in Nat /\ p + 1 <= Len(s)
  BY AtEnd, LenProperties
<1>2. CASE IsNumber(s, p)
  BY <1>2, ScanNumber, NumberEnds DEF Token
<1>3. CASE At(s, p) = "quote"
  <2> DEFINE r == StringStop(s, p)
  <2>1. At(s, r) = "quote"
    BY <1>3 DEF Broken
  <2>2. Scan(s, p).to = r + 1
    BY <1>3, <2>1, ScanString DEF Token
  <2>3. Ends(s, p + 1, r)
    BY <1>1, StringStops
  <2> HIDE DEF r
  <2>4. r < Len(s) /\ r \in Nat
    BY <2>1, <2>3, AtEnd, OneKind DEF Ends
  <2>. QED
    BY <1>1, <2>2, <2>4
<1>4. CASE At(s, p) = "$"
  <2>1. Past(s, p + 1, Alnum) <= Len(s)
    BY <1>1, NameEnds
  <2>. QED
    BY <1>4, <2>1, ScanVariable DEF Token
<1>5. CASE At(s, p) \in Letters \cup {"_"}
  <2>1. Past(s, p, Alnum) <= Len(s)
    BY NameEnds
  <2>2. PICK type : Scan(s, p) = Token(type, p, Past(s, p, Alnum), <<>>, p)
    BY <1>5, ScanName, Zenon
  <2>. QED
    BY <2>1, <2>2 DEF Token
<1>6. CASE Operates(s, p) /\ ~IsNumber(s, p)
  <2>1. OperatorEnd(s, p) = p + 1 \/ (OperatorEnd(s, p) = p + 2 /\ At(s, p + 1) = "=")
    BY DEF OperatorEnd
  <2>2. At(s, p + 1) = "=" => p + 1 < Len(s)
    BY <1>1, AtEnd DEF NUL
  <2>3. OperatorEnd(s, p) <= Len(s)
    BY <1>1, <2>1, <2>2
  <2>. QED
    BY <1>6, <2>3, ScanOperator DEF Token
<1>7. CASE /\ ~Operates(s, p) /\ ~IsNumber(s, p)
           /\ At(s, p) \notin Letters \cup {"_"} /\ At(s, p) \notin {"quote", "$", NUL}
  <2>1. Scan(s, p) = Token("ERROR", p, p + 1, <<>>, p)
    BY <1>7, ScanOther, Zenon
  <2>. QED
    BY <1>1, <2>1 DEF Token
<1>. QED
  BY <1>2, <1>3, <1>4, <1>5, <1>6, <1>7

Space == " "

(* The n characters at p in s are those at o in z, and a blank follows there.  *)
Agree(s, p, z, o, n) ==
  /\ \A i \in Nat : i < n => At(z, o + i) = At(s, p + i)
  /\ At(z, o + n) = Space

LEMMA BlankKinds ==
  /\ Space \in Spaces /\ Space # NUL
  /\ Space \notin Digits /\ Space \notin Signs /\ Space \notin Alnum
  /\ Space \notin Letters \cup {"_"} /\ Space \notin Singles
  /\ Space \notin {"quote", "backslash", "=", ".", "e", "*", "/"}
<1>1. Space \in Spaces
  BY Zenon DEF Space, Spaces
<1>2. Space # NUL /\ Space \notin {"quote", "backslash", "=", ".", "e", "*", "/"}
  BY Zenon DEF Space, NUL
<1>3. Space \notin Signs /\ Space # "_"
  BY Zenon DEF Space, Signs
<1>4. Space \notin Singles
  BY Zenon DEF Space, Singles
<1>5. Space \in Marks
  BY <1>1 DEF Marks
<1>6. Space \notin Digits /\ Space \notin Letters
  BY <1>5, CharacterAssumption
<1>. QED
  BY <1>1, <1>2, <1>3, <1>4, <1>6 DEF Alnum

LEMMA AgreeWithin ==
  ASSUME NEW s, NEW p, NEW z \in Seq(Chars), NEW o \in Nat, NEW n \in Nat, Agree(s, p, z, o, n)
  PROVE  o + n < Len(z) /\ Len(z) \in Nat
<1>1. At(z, o + n) # NUL
  BY BlankKinds DEF Agree
<1>2. o + n \in Nat
  OBVIOUS
<1>. QED
  BY <1>1, <1>2, AtEnd, LenProperties

(* From the i-th character behind p one gets over characters of C to the j-th. *)
Skipped(s, p, i, j, C) ==
  i <= j /\ p + i <= Len(s) + 2 /\ Past(s, p + i, C) = p + j

(* Characters of a kind are skipped there as here.                            *)
LEMMA PastMoves ==
  ASSUME NEW s \in Seq(Chars), NEW p \in Nat, NEW z \in Seq(Chars), NEW o \in Nat, NEW n \in Nat,
         Agree(s, p, z, o, n),
         NEW C, NUL \notin C, Space \notin C,
         NEW i \in Nat, NEW j \in Nat, j <= n, Skipped(s, p, i, j, C)
  PROVE  Skipped(z, o, i, j, C)
<1>1. Skips(s, p + i, p + j, C)
  <2>1. p + i \in Nat /\ p + i <= Len(s) + 2 /\ Past(s, p + i, C) = p + j
    BY DEF Skipped
  <2>. QED
    BY <2>1, PastSkips
<1>2. i <= j /\ At(s, p + j) \notin C
  BY <1>1 DEF Skips
<1>3. \A k \in Nat : i <= k /\ k < j => At(s, p + k) \in C
  <2>1. ASSUME NEW k \in Nat, i <= k, k < j PROVE At(s, p + k) \in C
    <3>1. p + k \in Nat /\ p + i <= p + k /\ p + k < p + j
      BY <2>1
    <3>. QED
      BY <1>1, <3>1 DEF Skips
  <2>. QED
    BY <2>1
<1>4. \A k \in Nat : i <= k /\ k < j => At(z, o + k) \in C
  <2>1. ASSUME NEW k \in Nat, i <= k, k < j PROVE At(z, o + k) \in C
    <3>1. k < n
      BY <2>1
    <3>2. At(z, o + k) = At(s, p + k)
      BY <3>1 DEF Agree
    <3>. QED
      BY <1>3, <2>1, <3>2
  <2>. QED
    BY <2>1
<1>5. At(z, o + j) \notin C
  <2>1. CASE j < n
    BY <1>2, <2>1 DEF Agree
  <2>2. CASE j = n
    BY <2>2 DEF Agree
  <2>. QED
    BY <2>1, <2>2
<1>6. PICK r : r = Past(z, o + i, C)
  OBVIOUS
<1>7. Skips(z, o + i, r, C)
  <2>1. o + i \in Nat /\ o + i <= Len(z) + 2
    BY <1>2, AgreeWithin
  <2>. QED
    BY <1>6, <2>1, PastSkips
<1>8. PICK k \in Nat : r = o + k
  <2>1. r \in Nat /\ o + i <= r
    BY <1>7 DEF Skips
  <2>2. r - o \in Nat /\ r = o + (r - o)
    BY <2>1
  <2>. QED
    BY <2>2
<1>9. i <= k /\ At(z, o + k) \notin C
  BY <1>7, <1>8 DEF Skips
<1>10. ~(k < j)
  BY <1>4, <1>9
<1>11. ~(j < k)
  <2>1. SUFFICES ASSUME j < k PROVE FALSE
    OBVIOUS
  <2>2. o + j \in Nat /\ o + i <= o + j /\ o + j < o + k
    BY <1>2, <2>1
  <2>3. At(z, o + j) \in C
    BY <1>7, <1>8, <2>2 DEF Skips
  <2>. QED
    BY <1>5, <2>3
<1>. QED
  BY <1>2, <1>6, <1>7, <1>8, <1>10, <1>11, AgreeWithin DEF Skipped

(* The i-th character behind p is one of C.                                   *)
Holds(s, p, i, C) == At(s, p + i) \in C

LEMMA KindMoves ==
  ASSUME NEW s, NEW p, NEW z, NEW o, NEW n \in Nat, Agree(s, p, z, o, n),
         NEW C, Space \notin C, NEW i \in Nat, i <= n, Holds(s, p, i, C) => i < n
  PROVE  Holds(z, o, i, C) <=> Holds(s, p, i, C)
<1>1. CASE i < n
  BY <1>1 DEF Agree, Holds
<1>2. CASE i = n
  BY <1>2 DEF Agree, Holds
<1>. QED
  BY <1>1, <1>2

(* The parts of a number at p: its first digit, the end of its digits, of its   *)
(* fraction and of its exponent, as distances from p.                          *)
Parts(s, p, b, i, j, n) ==
  /\ b = IF At(s, p) \in Signs THEN 1 ELSE 0
  /\ At(s, p + b) \in Digits /\ Past(s, p + b, Digits) = p + i
  /\ b < i /\ i <= j /\ j <= n
  /\ Integral(s, p) = p + i /\ Fraction(s, p + i) = p + j
  /\ Exponent(s, p + j) = p + n /\ NumberEnd(s, p) = p + n
  /\ p + n <= Len(s)

(* A number at p has them.                                                   *)
LEMMA NumberParts ==
  ASSUME NEW s \in Seq(Chars), NEW p \in Nat, IsNumber(s, p)
  PROVE  \E b, i, j, n \in Nat : Parts(s, p, b, i, j, n)
<1>1. PICK b \in Nat : b = IF At(s, p) \in Signs THEN 1 ELSE 0
  OBVIOUS
<1>2. At(s, p + b) \in Digits /\ p + b < Len(s)
  <2>1. At(s, p) \in Digits => At(s, p) \notin Signs
    BY Kinds
  <2>2. At(s, p + b) \in Digits
    BY <1>1, <2>1 DEF IsNumber
  <2>3. At(s, p + b) # NUL
    BY <2>2, CharSets
  <2>4. p + b \in Nat
    OBVIOUS
  <2>. QED
    BY <2>2, <2>3, <2>4, AtEnd
<1>3. PICK x : x = Integral(s, p)
  OBVIOUS
<1>4. x = Past(s, p + b, Digits)
  BY <1>1, <1>3 DEF Integral
<1>5. x \in Nat /\ p + b < x /\ x <= Len(s)
  <2>1. p + b \in Nat /\ p + b <= Len(s) + 2 /\ p + b <= Len(s)
    BY <1>2
  <2>2. Skips(s, p + b, x, Digits)
    BY <1>4, <2>1, PastSkips, CharSets
  <2>3. x # p + b
    BY <1>2, <2>2 DEF Skips
  <2>. QED
    BY <2>1, <2>2, <2>3 DEF Skips
<1>6. PICK y : y = Fraction(s, x)
  OBVIOUS
<1>7. y \in Nat /\ x <= y /\ y <= Len(s)
  <2>1. CASE At(s, x) = "."
    <3>1. x + 1 <= Len(s) /\ x + 1 \in Nat /\ x + 1 <= Len(s) + 2
      BY <1>5, <2>1, AtEnd, CharSets
    <3>2. Skips(s, x + 1, y, Digits)
      BY <1>6, <2>1, <3>1, PastSkips, CharSets DEF Fraction
    <3>. QED
      BY <1>5, <3>1, <3>2 DEF Skips
  <2>2. CASE At(s, x) # "."
    BY <1>5, <1>6, <2>2 DEF Fraction
  <2>. QED
    BY <2>1, <2>2
<1>8. PICK w : w = Exponent(s, y)
  OBVIOUS
<1>9. w \in Nat /\ y <= w /\ w <= Len(s)
  <2>1. CASE At(s, y) = "e"
    <3>1. PICK e : e = IF At(s, y + 1) \in Signs THEN y + 2 ELSE y + 1
      OBVIOUS
    <3>2. y < Len(s)
      BY <1>7, <2>1, AtEnd, CharSets
    <3>3. At(s, y + 1) \in Signs => y + 1 < Len(s)
      BY <1>7, AtEnd, CharSets
    <3>4. e <= Len(s) /\ e \in Nat /\ y <= e /\ e <= Len(s) + 2
      BY <1>7, <3>1, <3>2, <3>3
    <3>5. w = Past(s, e, Digits)
      BY <1>8, <2>1, <3>1 DEF Exponent
    <3>6. Skips(s, e, w, Digits)
      BY <3>4, <3>5, PastSkips, CharSets
    <3>. QED
      BY <1>7, <3>4, <3>6 DEF Skips
  <2>2. CASE At(s, y) # "e"
    BY <1>7, <1>8, <2>2 DEF Exponent
  <2>. QED
    BY <2>1, <2>2
<1>10. NumberEnd(s, p) = w
  BY <1>3, <1>6, <1>8 DEF NumberEnd
<1>11. PICK i, j, n \in Nat : x = p + i /\ y = p + j /\ w = p + n
  <2>1. x - p \in Nat /\ y - p \in Nat /\ w - p \in Nat
    BY <1>5, <1>7, <1>9
  <2>2. x = p + (x - p) /\ y = p + (y - p) /\ w = p + (w - p)
    BY <1>5, <1>7, <1>9
  <2>. QED
    BY <2>1, <2>2
<1>12. b < i /\ i <= j /\ j <= n /\ p + n <= Len(s)
  BY <1>5, <1>7, <1>9, <1>11
<1>13. Parts(s, p, b, i, j, n)
  BY <1>1, <1>2, <1>3, <1>4, <1>6, <1>8, <1>10, <1>11, <1>12 DEF Parts
<1>. QED
  BY <1>13

(* The fraction that may begin behind i characters ends behind j.              *)
FractionEnds(s, p, i, j) == i <= j /\ Fraction(s, p + i) = p + j

LEMMA FractionMoves ==
  ASSUME NEW s \in Seq(Chars), NEW p \in Nat, NEW z \in Seq(Chars), NEW o \in Nat, NEW n \in Nat,
         Agree(s, p, z, o, n), p + n <= Len(s),
         NEW i \in Nat, NEW j \in Nat, j <= n, FractionEnds(s, p, i, j)
  PROVE  FractionEnds(z, o, i, j)
<1>0. i <= j /\ i <= n /\ Fraction(s, p + i) = p + j
  BY DEF FractionEnds
<1>1. CASE At(s, p + i) = "."
  <2>1. PICK k \in Nat : k = i + 1 /\ (p + i) + 1 = p + k /\ (o + i) + 1 = o + k
    <3>1. i + 1 \in Nat /\ (p + i) + 1 = p + (i + 1) /\ (o + i) + 1 = o + (i + 1)
      OBVIOUS
    <3>. QED
      BY <3>1
  <2>2. Past(s, p + k, Digits) = p + j /\ p + k <= Len(s) + 2
    BY <1>0, <1>1, <2>1 DEF Fraction
  <2>3. k <= j
    <3>1. p + k \in Nat
      OBVIOUS
    <3>2. Skips(s, p + k, p + j, Digits)
      BY <2>2, <3>1, PastSkips, CharSets
    <3>. QED
      BY <3>2 DEF Skips
  <2>4. Skipped(s, p, k, j, Digits)
    BY <2>2, <2>3 DEF Skipped
  <2>5. Skipped(z, o, k, j, Digits)
    BY <2>4, PastMoves, CharSets, BlankKinds
  <2>6. At(z, o + i) = "."
    <3>1. i < n
      BY <2>1, <2>3
    <3>. QED
      BY <1>1, <3>1 DEF Agree
  <2>. QED
    BY <1>0, <2>1, <2>5, <2>6 DEF Fraction, FractionEnds, Skipped
<1>2. CASE At(s, p + i) # "."
  <2>1. i = j
    BY <1>0, <1>2 DEF Fraction
  <2>2. ~Holds(s, p, i, {"."})
    BY <1>2 DEF Holds
  <2>3. Space \notin {"."}
    BY BlankKinds
  <2>4. ~Holds(z, o, i, {"."})
    BY <1>0, <2>2, <2>3, KindMoves
  <2>. QED
    BY <2>1, <2>4 DEF Fraction, FractionEnds, Holds
<1>. QED
  BY <1>1, <1>2

(* The exponent that may begin behind j characters ends behind n.              *)
ExponentEnds(s, p, j, n) == j <= n /\ Exponent(s, p + j) = p + n

LEMMA ExponentMoves ==
  ASSUME NEW s \in Seq(Chars), NEW p \in Nat, NEW z \in Seq(Chars), NEW o \in Nat, NEW n \in Nat,
         Agree(s, p, z, o, n), p + n <= Len(s),
         NEW j \in Nat, ExponentEnds(s, p, j, n)
  PROVE  ExponentEnds(z, o, j, n)
<1>0. j <= n /\ Exponent(s, p + j) = p + n
  BY DEF ExponentEnds
<1>1. CASE At(s, p + j) = "e"
  <2>1. PICK k \in Nat : k = j + 1 /\ (p + j) + 1 = p + k /\ (o + j) + 1 = o + k
    <3>1. j + 1 \in Nat /\ (p + j) + 1 = p + (j + 1) /\ (o + j) + 1 = o + (j + 1)
      OBVIOUS
    <3>. QED
      BY <3>1
  <2>2. PICK d \in Nat : /\ d = IF At(s, p + k) \in Signs THEN j + 2 ELSE k
                         /\ (p + j) + 2 = p + (j + 2) /\ (o + j) + 2 = o + (j + 2)
    <3>1. j + 2 \in Nat /\ (p + j) + 2 = p + (j + 2) /\ (o + j) + 2 = o + (j + 2)
      OBVIOUS
    <3>. QED
      BY <3>1
  <2>3. Past(s, p + d, Digits) = p + n /\ p + d <= Len(s) + 2
    BY <1>0, <1>1, <2>1, <2>2 DEF Exponent
  <2>4. d <= n
    <3>1. p + d \in Nat
      OBVIOUS
    <3>2. Skips(s, p + d, p + n, Digits)
      BY <2>3, <3>1, PastSkips, CharSets
    <3>. QED
      BY <3>2 DEF Skips
  <2>5. Skipped(z, o, d, n, Digits)
    <3>1. Skipped(s, p, d, n, Digits) /\ n <= n
      BY <2>3, <2>4 DEF Skipped
    <3>. QED
      BY <3>1, PastMoves, CharSets, BlankKinds
  <2>6. At(z, o + j) = "e"
    <3>1. j < n
      BY <2>1, <2>2, <2>4
    <3>. QED
      BY <1>1, <3>1 DEF Agree
  <2>7. At(z, o + k) \in Signs <=> At(s, p + k) \in Signs
    <3>1. k <= n /\ (Holds(s, p, k, Signs) => k < n)
      BY <2>1, <2>2, <2>4 DEF Holds
    <3>2. Holds(z, o, k, Signs) <=> Holds(s, p, k, Signs)
      BY <3>1, KindMoves, BlankKinds
    <3>. QED
      BY <3>2 DEF Holds
  <2>8. Exponent(z, o + j) = Past(z, o + d, Digits)
    BY <2>1, <2>2, <2>6, <2>7 DEF Exponent
  <2>. QED
    BY <1>0, <2>5, <2>8 DEF ExponentEnds, Skipped
<1>2. CASE At(s, p + j) # "e"
  <2>1. j = n
    BY <1>0, <1>2 DEF Exponent
  <2>2. ~Holds(s, p, j, {"e"})
    BY <1>2 DEF Holds
  <2>3. Space \notin {"e"}
    BY BlankKinds
  <2>4. ~Holds(z, o, j, {"e"})
    BY <1>0, <2>2, <2>3, KindMoves
  <2>. QED
    BY <2>1, <2>4 DEF Exponent, ExponentEnds, Holds
<1>. QED
  BY <1>1, <1>2

LEMMA NumberMoves ==
  ASSUME NEW s \in Seq(Chars), NEW p \in Nat, IsNumber(s, p), NEW z \in Seq(Chars), NEW o \in Nat,
         NEW n \in Nat, Agree(s, p, z, o, n), NumberEnd(s, p) = p + n
  PROVE  /\ IsNumber(z, o) /\ NumberEnd(z, o) = o + n
         /\ Integral(z, o) = o + n <=> Integral(s, p) = p + n
<1>1. PICK b, i, j \in Nat : Parts(s, p, b, i, j, n)
  <2>1. PICK b, i, j, m \in Nat : Parts(s, p, b, i, j, m)
    BY NumberParts
  <2>2. m = n
    BY <2>1 DEF Parts
  <2>. QED
    BY <2>1, <2>2
<1>2. /\ b = IF At(s, p) \in Signs THEN 1 ELSE 0
      /\ At(s, p + b) \in Digits /\ Past(s, p + b, Digits) = p + i
      /\ b < i /\ i <= j /\ j <= n
      /\ Integral(s, p) = p + i /\ Fraction(s, p + i) = p + j
      /\ Exponent(s, p + j) = p + n /\ p + n <= Len(s)
  BY <1>1 DEF Parts
<1>3. At(z, o) = At(s, p) /\ At(z, o + b) = At(s, p + b)
  <2>1. 0 < n /\ b < n /\ p + 0 = p /\ o + 0 = o
    BY <1>2
  <2>. QED
    BY <2>1 DEF Agree
<1>4. IsNumber(z, o)
  <2>1. CASE At(s, p) \in Signs
    BY <1>2, <1>3, <2>1 DEF IsNumber
  <2>2. CASE At(s, p) \notin Signs
    BY <1>2, <1>3, <2>2 DEF IsNumber
  <2>. QED
    BY <2>1, <2>2
<1>5. Past(z, o + b, Digits) = o + i
  <2>1. Skipped(s, p, b, i, Digits) /\ i <= n
    BY <1>2 DEF Skipped
  <2>2. Skipped(z, o, b, i, Digits)
    BY <2>1, PastMoves, CharSets, BlankKinds
  <2>. QED
    BY <2>2 DEF Skipped
<1>6. Integral(z, o) = o + i
  <2>1. CASE At(s, p) \in Signs
    BY <1>2, <1>3, <1>5, <2>1 DEF Integral
  <2>2. CASE At(s, p) \notin Signs
    <3>1. b = 0 /\ o + b = o
      BY <1>2, <2>2
    <3>. QED
      BY <1>3, <1>5, <2>2, <3>1 DEF Integral
  <2>. QED
    BY <2>1, <2>2
<1>7. Fraction(z, o + i) = o + j
  <2>1. FractionEnds(s, p, i, j) /\ j <= n /\ p + n <= Len(s)
    BY <1>2 DEF FractionEnds
  <2>2. FractionEnds(z, o, i, j)
    BY <2>1, FractionMoves
  <2>. QED
    BY <2>2 DEF FractionEnds
<1>8. Exponent(z, o + j) = o + n
  <2>1. ExponentEnds(s, p, j, n) /\ p + n <= Len(s)
    BY <1>2 DEF ExponentEnds
  <2>2. ExponentEnds(z, o, j, n)
    BY <2>1, ExponentMoves
  <2>. QED
    BY <2>2 DEF ExponentEnds
<1>9. NumberEnd(z, o) = o + n
  BY <1>6, <1>7, <1>8 DEF NumberEnd
<1>. QED
  BY <1>2, <1>4, <1>6, <1>9

(* How f gets on from the i-th character behind p.                             *)
GetsOver(s, p, i, f) ==
  /\ Ends(s, p + i, f[p + i])
  /\ At(s, p + i) \in {"quote", NUL} => f[p + i] = p + i
  /\ At(s, p + i) \notin {"quote", NUL} =>
       \E d \in {1, 2} :
         /\ d = IF At(s, p + i) = "backslash" THEN 2 ELSE 1
         /\ f[p + i] = f[p + (i + d)] /\ p + i < Len(s)

LEMMA StopsAt ==
  ASSUME NEW s \in Seq(Chars), NEW p \in Nat, NEW f, Stops(s, p + 1, f),
         NEW i \in Nat, 1 <= i, p + i <= Len(s) + 2
  PROVE  GetsOver(s, p, i, f)
<1>1. p + i \in p + 1 .. Len(s) + 2 /\ p + 1 \in Nat /\ p + i \in Nat /\ Len(s) \in Nat
  BY LenProperties
<1>2. Ends(s, p + i, f[p + i])
  BY <1>1, StopsEnds
<1>3. f[p + i] = IF At(s, p + i) \in {"quote", NUL} THEN p + i
                 ELSE f[(p + i) + (IF At(s, p + i) = "backslash" THEN 2 ELSE 1)]
  BY <1>1 DEF Stops
<1>4. (p + i) + 1 = p + (i + 1) /\ (p + i) + 2 = p + (i + 2)
  OBVIOUS
<1>5. At(s, p + i) \notin {"quote", NUL} => p + i < Len(s)
  BY <1>1, AtEnd
<1>. QED
  BY <1>2, <1>3, <1>4, <1>5 DEF GetsOver

(* A string that is closed behind j characters.                               *)
Closed(s, p, j) == StringStop(s, p) = p + j /\ At(s, p + j) = "quote"

LEMMA StringMoves ==
  ASSUME NEW s \in Seq(Chars), NEW p \in Nat, NEW z \in Seq(Chars), NEW o \in Nat,
         NEW j \in Nat, 1 <= j, p + j < Len(s), Closed(s, p, j), Agree(s, p, z, o, j + 1)
  PROVE  /\ Closed(z, o, j)
         /\ StringText(z, o + 1, o + j) = StringText(s, p + 1, p + j)
<1>1. StringStop(s, p) = p + j /\ At(s, p + j) = "quote"
  BY DEF Closed
<1>2. \A i \in Nat : i <= j => At(z, o + i) = At(s, p + i)
  BY DEF Agree
<1>3. o + (j + 1) < Len(z) /\ Len(z) \in Nat /\ Len(s) \in Nat
  <2>1. j + 1 \in Nat
    OBVIOUS
  <2>. QED
    BY <2>1, AgreeWithin, LenProperties
<1>4. PICK f : f[p + 1] = p + j /\ Stops(s, p + 1, f)
  <2>1. p + 1 <= Len(s) + 2
    BY <1>3
  <2>. QED
    BY <1>1, <2>1, StringStopIs
<1>5. PICK h : StringStop(z, o) = h[o + 1] /\ Stops(z, o + 1, h)
  <2>1. o + 1 <= Len(z) + 2
    BY <1>3
  <2>. QED
    BY <2>1, StringStopIs
<1>6. PICK g : StringText(s, p + 1, p + j) = g[p + 1] /\ TextFrom(s, p + 1, p + j, g)
  <2>1. p + 1 \in Nat /\ p + j \in Nat /\ p + j <= Len(s) + 2
    BY <1>3
  <2>. QED
    BY <2>1, StringTextIs
<1>7. PICK w : StringText(z, o + 1, o + j) = w[o + 1] /\ TextFrom(z, o + 1, o + j, w)
  <2>1. o + 1 \in Nat /\ o + j \in Nat /\ o + j <= Len(z) + 2
    BY <1>3
  <2>. QED
    BY <2>1, StringTextIs
<1> DEFINE Good(i) == h[o + i] = o + j /\ w[o + i] = g[p + i]
<1>8. ASSUME NEW i \in Nat, 1 <= i, i <= j
      PROVE  /\ g[p + i] = IF p + i >= p + j THEN <<>>
                           ELSE IF At(s, p + i) = "backslash"
                                  THEN Escaped(At(s, p + (i + 1))) \o g[p + (i + 2)]
                           ELSE <<At(s, p + i)>> \o g[p + (i + 1)]
             /\ w[o + i] = IF o + i >= o + j THEN <<>>
                           ELSE IF At(z, o + i) = "backslash"
                                  THEN Escaped(At(z, o + (i + 1))) \o w[o + (i + 2)]
                           ELSE <<At(z, o + i)>> \o w[o + (i + 1)]
  <2>1. /\ p + i \in p + 1 .. Len(s) + 2 /\ o + i \in o + 1 .. Len(z) + 2
        /\ (p + i) + 1 = p + (i + 1) /\ (p + i) + 2 = p + (i + 2)
        /\ (o + i) + 1 = o + (i + 1) /\ (o + i) + 2 = o + (i + 2)
    BY <1>3, <1>8
  <2>2. g[p + i] = IF p + i >= p + j THEN <<>>
                   ELSE IF At(s, p + i) = "backslash"
                          THEN Escaped(At(s, (p + i) + 1)) \o g[(p + i) + 2]
                   ELSE <<At(s, p + i)>> \o g[(p + i) + 1]
    BY <1>6, <2>1, Zenon DEF TextFrom
  <2>3. w[o + i] = IF o + i >= o + j THEN <<>>
                   ELSE IF At(z, o + i) = "backslash"
                          THEN Escaped(At(z, (o + i) + 1)) \o w[(o + i) + 2]
                   ELSE <<At(z, o + i)>> \o w[(o + i) + 1]
    BY <1>7, <2>1, Zenon DEF TextFrom
  <2>. QED
    BY <2>1, <2>2, <2>3
<1>9. ASSUME NEW i \in Nat, 1 <= i, i <= j
      PROVE  /\ At(s, p + i) \in {"quote", NUL} => f[p + i] = p + i
             /\ At(s, p + i) \notin {"quote", NUL} =>
                  \E d \in {1, 2} :
                    /\ d = IF At(s, p + i) = "backslash" THEN 2 ELSE 1
                    /\ f[p + i] = f[p + (i + d)] /\ h[o + i] = h[o + (i + d)]
             /\ At(s, p + i) \in {"quote", NUL} => h[o + i] = o + i
  <2>1. p + i <= Len(s) + 2 /\ o + i <= Len(z) + 2
    BY <1>3, <1>9
  <2>2. /\ At(s, p + i) \in {"quote", NUL} => f[p + i] = p + i
        /\ At(s, p + i) \notin {"quote", NUL} =>
             \E d \in {1, 2} : /\ d = IF At(s, p + i) = "backslash" THEN 2 ELSE 1
                               /\ f[p + i] = f[p + (i + d)]
    <3>1. GetsOver(s, p, i, f)
      BY <1>4, <1>9, <2>1, StopsAt
    <3>. QED
      BY <3>1 DEF GetsOver
  <2>3. /\ At(z, o + i) \in {"quote", NUL} => h[o + i] = o + i
        /\ At(z, o + i) \notin {"quote", NUL} =>
             \E d \in {1, 2} : /\ d = IF At(z, o + i) = "backslash" THEN 2 ELSE 1
                               /\ h[o + i] = h[o + (i + d)]
    <3>1. GetsOver(z, o, i, h)
      BY <1>5, <1>9, <2>1, StopsAt
    <3>. QED
      BY <3>1 DEF GetsOver
  <2>4. At(z, o + i) = At(s, p + i)
    BY <1>2, <1>9
  <2>. QED
    BY <2>2, <2>3, <2>4
<1>10. ASSUME NEW i \in Nat, 1 <= i, i <= j, f[p + i] = p + j,
              \A k \in Nat : i < k /\ k <= j /\ f[p + k] = p + j => Good(k)
       PROVE  Good(i)
  <2>1. CASE i = j
    <3>1. h[o + j] = o + j
      BY <1>1, <1>9, <1>10, <2>1
    <3>2. g[p + j] = <<>> /\ w[o + j] = <<>>
      <4>1. p + j >= p + j /\ o + j >= o + j
        OBVIOUS
      <4>. QED
        BY <1>8, <1>10, <2>1, <4>1
    <3>. QED
      BY <2>1, <3>1, <3>2
  <2>2. CASE i # j
    <3>1. At(s, p + i) \notin {"quote", NUL}
      <4>1. p + i # p + j
        BY <2>2
      <4>. QED
        BY <1>9, <1>10, <4>1
    <3>2. PICK d \in {1, 2} :
            /\ d = IF At(s, p + i) = "backslash" THEN 2 ELSE 1
            /\ f[p + i] = f[p + (i + d)] /\ h[o + i] = h[o + (i + d)]
      BY <1>9, <1>10, <3>1
    <3>3. PICK k \in Nat : k = i + d /\ i < k
      BY <3>2
    <3>4. f[p + k] = p + j
      BY <1>10, <3>2, <3>3
    <3>5. k <= j
      <4>1. p + i < Len(s)
        BY <1>10
      <4>2. p + k <= Len(s) + 2 /\ 1 <= k
        BY <1>3, <3>2, <3>3, <4>1
      <4>3. Ends(s, p + k, f[p + k])
        BY <1>4, <4>2, StopsAt DEF GetsOver
      <4>. QED
        BY <3>4, <4>3 DEF Ends
    <3>6. Good(k)
      BY <1>10, <3>3, <3>4, <3>5
    <3>7. At(z, o + i) = At(s, p + i) /\ At(z, o + (i + 1)) = At(s, p + (i + 1))
      <4>1. i + 1 \in Nat /\ i + 1 <= j
        BY <1>10, <2>2
      <4>. QED
        BY <1>2, <1>10, <4>1
    <3>8. ~(p + i >= p + j) /\ ~(o + i >= o + j)
      BY <1>10, <2>2
    <3>9. w[o + i] = g[p + i]
      <4>1. CASE At(s, p + i) = "backslash"
        <5>1. k = i + 2
          BY <3>2, <3>3, <4>1
        <5>. QED
          BY <1>8, <1>10, <3>6, <3>7, <3>8, <4>1, <5>1
      <4>2. CASE At(s, p + i) # "backslash"
        <5>1. k = i + 1
          BY <3>2, <3>3, <4>2
        <5>. QED
          BY <1>8, <1>10, <3>6, <3>7, <3>8, <4>2, <5>1
      <4>. QED
        BY <4>1, <4>2
    <3>. QED
      BY <3>2, <3>3, <3>6, <3>9
  <2>. QED
    BY <2>1, <2>2
<1>11. Good(1)
  <2> HIDE DEF Good
  <2> DEFINE G == {m \in Nat : \A i \in Nat : 1 <= i /\ i <= j /\ j - m <= i /\ f[p + i] = p + j => Good(i)}
  <2>1. 0 \in G
    <3>1. ASSUME NEW i \in Nat, 1 <= i, i <= j, j - 0 <= i, f[p + i] = p + j PROVE Good(i)
      <4>1. \A k \in Nat : ~(i < k /\ k <= j)
        BY <3>1
      <4>. QED
        BY <1>10, <3>1, <4>1
    <3>. QED
      BY <3>1
  <2>2. ASSUME NEW m \in Nat, m \in G PROVE m + 1 \in G
    <3>1. ASSUME NEW i \in Nat, 1 <= i, i <= j, j - (m + 1) <= i, f[p + i] = p + j PROVE Good(i)
      <4>1. ASSUME NEW k \in Nat, i < k, k <= j, f[p + k] = p + j PROVE Good(k)
        <5>1. 1 <= k /\ j - m <= k
          BY <3>1, <4>1
        <5>. QED
          BY <2>2, <4>1, <5>1
      <4>. QED
        BY <1>10, <3>1, <4>1
    <3>. QED
      BY <3>1
  <2>3. \A m \in Nat : m \in G
    <3> HIDE DEF G
    <3>. QED
      BY <2>1, <2>2, Induction
  <2>4. \A i \in Nat : 1 <= i /\ i <= j /\ j - j <= i /\ f[p + i] = p + j => Good(i)
    BY <2>3
  <2>5. j - j <= 1 /\ 1 <= j /\ f[p + 1] = p + j
    BY <1>4
  <2>. QED
    BY <2>4, <2>5
<1>12. At(z, o + j) = "quote"
  BY <1>1, <1>2
<1>. QED
  BY <1>5, <1>6, <1>7, <1>11, <1>12 DEF Closed

(* A string that is not closed here is not closed at the end of z, either.     *)
LEMMA BrokenMoves ==
  ASSUME NEW s \in Seq(Chars), NEW p \in Nat, Broken(s, p), NEW z \in Seq(Chars), NEW o \in Nat,
         NEW n \in Nat, 1 <= n, p + n <= Len(s), p + n <= StringStop(s, p),
         Agree(s, p, z, o, n), Len(z) = o + (n + 1)
  PROVE  StringStop(z, o) = Len(z)
<1>1. Len(z) \in Nat /\ Len(s) \in Nat
  BY LenProperties
<1>2. PICK f : f[p + 1] = StringStop(s, p) /\ Stops(s, p + 1, f)
  <2>1. p + 1 <= Len(s) + 2
    BY <1>1
  <2>. QED
    BY <2>1, StringStopIs
<1>3. PICK h : StringStop(z, o) = h[o + 1] /\ Stops(z, o + 1, h)
  <2>1. o + 1 <= Len(z) + 2
    BY <1>1
  <2>. QED
    BY <2>1, StringStopIs
<1>4. PICK r \in Nat : r = StringStop(s, p) /\ p + n <= r
  <2>1. p + 1 <= Len(s) + 2
    BY <1>1
  <2>. QED
    BY <2>1, StringStops DEF Ends
<1>5. \A i \in Nat : 1 <= i /\ i <= n => GetsOver(s, p, i, f)
  <2>1. ASSUME NEW i \in Nat, 1 <= i, i <= n PROVE GetsOver(s, p, i, f)
    <3>1. p + i <= Len(s) + 2
      BY <1>1, <2>1
    <3>. QED
      BY <1>2, <2>1, <3>1, StopsAt
  <2>. QED
    BY <2>1
<1>6. \A i \in Nat : 1 <= i /\ i <= n + 1 => GetsOver(z, o, i, h)
  <2>1. ASSUME NEW i \in Nat, 1 <= i, i <= n + 1 PROVE GetsOver(z, o, i, h)
    <3>1. o + i <= Len(z) + 2
      BY <1>1, <2>1
    <3>. QED
      BY <1>3, <2>1, <3>1, StopsAt
  <2>. QED
    BY <2>1
<1> DEFINE Good(i) == h[o + i] = Len(z)
<1>7. Good(n + 1)
  <2>1. At(z, o + (n + 1)) = NUL
    BY <1>1, AtEnd
  <2>2. GetsOver(z, o, n + 1, h)
    <3>1. n + 1 \in Nat /\ 1 <= n + 1 /\ n + 1 <= n + 1
      OBVIOUS
    <3>. QED
      BY <1>6, <3>1, Zenon
  <2>. QED
    BY <2>1, <2>2 DEF GetsOver
<1>8. Good(n)
  <2>1. At(z, o + n) = Space
    BY DEF Agree
  <2>2. GetsOver(z, o, n, h)
    BY <1>6
  <2>3. Space \notin {"quote", NUL} /\ Space # "backslash"
    BY BlankKinds
  <2>4. h[o + n] = h[o + (n + 1)]
    BY <2>1, <2>2, <2>3 DEF GetsOver
  <2>. QED
    BY <1>7, <2>4
<1>9. ASSUME NEW i \in Nat, 1 <= i, i < n, f[p + i] = r,
             \A k \in Nat : i < k /\ k < n /\ f[p + k] = r => Good(k)
      PROVE  Good(i)
  <2>1. GetsOver(s, p, i, f) /\ GetsOver(z, o, i, h) /\ At(z, o + i) = At(s, p + i)
    BY <1>5, <1>6, <1>9 DEF Agree
  <2>2. At(s, p + i) \notin {"quote", NUL}
    <3>1. p + i # r
      BY <1>4, <1>9
    <3>. QED
      BY <1>9, <2>1, <3>1 DEF GetsOver
  <2>3. PICK d \in {1, 2} : f[p + i] = f[p + (i + d)] /\ h[o + i] = h[o + (i + d)]
    BY <2>1, <2>2 DEF GetsOver
  <2>4. PICK k \in Nat : k = i + d /\ i < k /\ k <= n + 1
    BY <1>9, <2>3
  <2>5. Good(k)
    <3>1. CASE k < n
      BY <1>9, <2>3, <2>4, <3>1
    <3>2. CASE k = n
      BY <1>8, <3>2
    <3>3. CASE k = n + 1
      BY <1>7, <3>3
    <3>. QED
      BY <2>4, <3>1, <3>2, <3>3
  <2>. QED
    BY <2>3, <2>4, <2>5
<1>10. Good(1)
  <2>1. CASE n = 1
    BY <1>8, <2>1
  <2>2. CASE n # 1
    <3> HIDE DEF Good
    <3> DEFINE G == {m \in Nat : \A i \in Nat : 1 <= i /\ i < n /\ n - m <= i /\ f[p + i] = r => Good(i)}
    <3>1. 0 \in G
      OBVIOUS
    <3>2. ASSUME NEW m \in Nat, m \in G PROVE m + 1 \in G
      <4>1. ASSUME NEW i \in Nat, 1 <= i, i < n, n - (m + 1) <= i, f[p + i] = r PROVE Good(i)
        <5>1. ASSUME NEW k \in Nat, i < k, k < n, f[p + k] = r PROVE Good(k)
          <6>1. 1 <= k /\ n - m <= k
            BY <4>1, <5>1
          <6>. QED
            BY <3>2, <5>1, <6>1
        <5>. QED
          BY <1>9, <4>1, <5>1
      <4>. QED
        BY <4>1
    <3>3. \A m \in Nat : m \in G
      <4> HIDE DEF G
      <4>. QED
        BY <3>1, <3>2, Induction
    <3>4. \A i \in Nat : 1 <= i /\ i < n /\ n - n <= i /\ f[p + i] = r => Good(i)
      BY <3>3
    <3>5. 1 < n /\ n - n <= 1 /\ f[p + 1] = r
      BY <1>2, <1>4, <2>2
    <3>. QED
      BY <3>4, <3>5
  <2>. QED
    BY <2>1, <2>2
<1>. QED
  BY <1>3, <1>10

(* The token at p is there the same at o, if the string it may be is closed.   *)
Moved(t, u, o, n) == u.type = t.type /\ u.text = t.text /\ u.to = o + n

LEMMA ScanMoves ==
  ASSUME NEW s \in Seq(Chars), NEW p \in Nat, p < Len(s), At(s, p) # NUL, ~Broken(s, p),
         NEW z \in Seq(Chars), NEW o \in Nat, NEW n \in Nat, Scan(s, p).to = p + n,
         Agree(s, p, z, o, n)
  PROVE  Moved(Scan(s, p), Scan(z, o), o, n)
<1>1. 1 <= n /\ p + n <= Len(s) /\ Len(s) \in Nat
  <2>1. p <= Len(s) + 2 /\ p <= Len(s) /\ Len(s) \in Nat
    BY LenProperties
  <2>2. Scanned(s, p, Scan(s, p))
    BY <2>1, ScanScans
  <2>3. p < p + n
    BY <2>2 DEF Scanned
  <2>4. p + n <= Len(s)
    BY <2>1, ScanWithin
  <2>. QED
    BY <2>1, <2>3, <2>4
<1>2. At(z, o) = At(s, p)
  <2>1. 0 < n /\ p + 0 = p /\ o + 0 = o
    BY <1>1
  <2>. QED
    BY <2>1 DEF Agree
<1>3. o + n < Len(z) /\ Len(z) \in Nat
  BY AgreeWithin
<1>4. CASE IsNumber(s, p)
  <2>1. NumberEnd(s, p) = p + n
    BY <1>4, ScanNumber DEF Token
  <2>2. /\ IsNumber(z, o) /\ NumberEnd(z, o) = o + n
        /\ Integral(z, o) = o + n <=> Integral(s, p) = p + n
    BY <1>4, <2>1, NumberMoves
  <2>. QED
    BY <1>4, <2>1, <2>2, ScanNumber DEF Token, Moved
<1>5. CASE At(s, p) = "quote"
  <2>1. PICK j \in Nat : StringStop(s, p) = p + j /\ 1 <= j
    <3>1. p + 1 <= Len(s) + 2
      BY <1>1
    <3>2. StringStop(s, p) \in Nat /\ p + 1 <= StringStop(s, p)
      BY <3>1, StringStops DEF Ends
    <3>3. PICK r \in Nat : r = StringStop(s, p)
      BY <3>2
    <3>4. r - p \in Nat /\ r = p + (r - p) /\ 1 <= r - p
      BY <3>2, <3>3
    <3>. QED
      BY <3>3, <3>4
  <2>2. Closed(s, p, j)
    BY <1>5, <2>1 DEF Broken, Closed
  <2>3. Scan(s, p) = Token("STRINGLIT", p, (p + j) + 1, StringText(s, p + 1, p + j), (p + j) + 1)
    BY <1>5, <2>1, <2>2, ScanString DEF Closed
  <2>4. n = j + 1 /\ p + j < Len(s)
    <3>1. p + n = (p + j) + 1
      BY <2>3 DEF Token
    <3>. QED
      BY <1>1, <3>1
  <2>5. /\ Closed(z, o, j)
        /\ StringText(z, o + 1, o + j) = StringText(s, p + 1, p + j)
    BY <2>1, <2>2, <2>4, StringMoves
  <2>6. Scan(z, o) = Token("STRINGLIT", o, (o + j) + 1, StringText(z, o + 1, o + j), (o + j) + 1)
    BY <1>2, <1>5, <2>5, ScanString DEF Closed
  <2>7. (o + j) + 1 = o + n
    BY <2>4
  <2>. QED
    BY <2>3, <2>5, <2>6, <2>7 DEF Token, Moved
<1>6. CASE At(s, p) = "$"
  <2>1. PICK e : e = Past(s, p + 1, Alnum)
    OBVIOUS
  <2>2. PICK type : /\ Scan(s, p) = Token(type, p, e, <<>>, p)
                    /\ type = IF e = p + 1 THEN "ERROR" ELSE "ENV_VAR"
    BY <1>6, <2>1, ScanVariable
  <2>3. e = p + n
    BY <2>2 DEF Token
  <2>4. Skipped(s, p, 1, n, Alnum) /\ 1 \in Nat /\ n <= n
    BY <1>1, <2>1, <2>3 DEF Skipped
  <2>5. Skipped(z, o, 1, n, Alnum)
    BY <2>4, PastMoves, CharSets, BlankKinds
  <2>6. Past(z, o + 1, Alnum) = o + n
    BY <2>5 DEF Skipped
  <2>7. Scan(z, o) = Token(IF o + n = o + 1 THEN "ERROR" ELSE "ENV_VAR", o, o + n, <<>>, o)
    BY <1>2, <1>6, <2>6, ScanVariable
  <2>8. (e = p + 1) <=> (o + n = o + 1)
    BY <2>3
  <2>. QED
    BY <2>2, <2>7, <2>8 DEF Token, Moved
<1>7. CASE At(s, p) \in Letters \cup {"_"}
  <2>1. PICK e : e = Past(s, p, Alnum)
    OBVIOUS
  <2>2. Scan(s, p) = Token(IF SubSeq(s, p + 1, e) \in Keywords THEN "KEYWORD" ELSE "IDENTIFIER",
                           p, e, <<>>, p)
    BY <1>7, <2>1, ScanName
  <2>3. e = p + n
    BY <2>2 DEF Token
  <2>0. p + 0 = p /\ o + 0 = o /\ p <= Len(s) + 2
    BY <1>1
  <2>4. Skipped(s, p, 0, n, Alnum) /\ 0 \in Nat /\ n <= n
    <3>1. 0 <= n /\ p + 0 <= Len(s) + 2
      BY <1>1
    <3>2. Past(s, p + 0, Alnum) = p + n
      BY <2>0, <2>1, <2>3
    <3>. QED
      BY <3>1, <3>2 DEF Skipped
  <2>5. Skipped(z, o, 0, n, Alnum)
    BY <2>4, PastMoves, CharSets, BlankKinds
  <2>6. Past(z, o, Alnum) = o + n
    BY <2>0, <2>5 DEF Skipped
  <2>7. SubSeq(z, o + 1, o + n) = SubSeq(s, p + 1, p + n)
    <3>1. /\ Part(s, p, p + n) \in Seq(Chars) /\ Len(Part(s, p, p + n)) = n
          /\ \A k \in 1 .. n : Part(s, p, p + n)[k] = At(s, p + k - 1)
      <4>1. PICK q \in Nat : q = p + n /\ p <= q /\ q - p = n /\ q <= Len(s)
        BY <1>1
      <4>2. /\ Part(s, p, q) \in Seq(Chars) /\ Len(Part(s, p, q)) = q - p
            /\ \A k \in 1 .. q - p : Part(s, p, q)[k] = At(s, p + k - 1)
        BY <4>1, PieceAt, Zenon
      <4>. QED
        BY <4>1, <4>2
    <3>2. /\ Part(z, o, o + n) \in Seq(Chars) /\ Len(Part(z, o, o + n)) = n
          /\ \A k \in 1 .. n : Part(z, o, o + n)[k] = At(z, o + k - 1)
      <4>1. PICK q \in Nat : q = o + n /\ o <= q /\ q - o = n /\ q <= Len(z)
        BY <1>3
      <4>2. /\ Part(z, o, q) \in Seq(Chars) /\ Len(Part(z, o, q)) = q - o
            /\ \A k \in 1 .. q - o : Part(z, o, q)[k] = At(z, o + k - 1)
        BY <4>1, PieceAt, Zenon
      <4>. QED
        BY <4>1, <4>2
    <3>3. ASSUME NEW k \in 1 .. n PROVE At(z, o + k - 1) = At(s, p + k - 1)
      <4>1. k - 1 \in Nat /\ k - 1 < n /\ o + k - 1 = o + (k - 1) /\ p + k - 1 = p + (k - 1)
        OBVIOUS
      <4>2. At(z, o + (k - 1)) = At(s, p + (k - 1))
        BY <4>1 DEF Agree
      <4>. QED
        BY <4>1, <4>2
    <3>4. Part(z, o, o + n) = Part(s, p, p + n)
      <4>1. PICK u, v \in Seq(Chars) : u = Part(z, o, o + n) /\ v = Part(s, p, p + n)
        BY <3>1, <3>2
      <4>2. Len(u) = Len(v) /\ \A k \in 1 .. Len(u) : u[k] = v[k]
        BY <3>1, <3>2, <3>3, <4>1
      <4>. QED
        BY <4>1, <4>2, SeqEqual
    <3>. QED
      BY <3>4 DEF Part
  <2>8. Scan(z, o) = Token(IF SubSeq(s, p + 1, e) \in Keywords THEN "KEYWORD" ELSE "IDENTIFIER",
                           o, o + n, <<>>, o)
    BY <1>2, <1>7, <2>3, <2>6, <2>7, ScanName
  <2>. QED
    BY <2>2, <2>8 DEF Token, Moved
<1>8. CASE ~IsNumber(s, p) /\ At(s, p) \notin Letters \cup {"_"} /\ At(s, p) \notin {"quote", "$"}
  <2>1. ~IsNumber(z, o)
    <3>1. CASE At(s, p) \in Signs
      <4>1. Scan(s, p) = Token("OPERATOR", p, OperatorEnd(s, p), <<>>, p) /\ OperatorEnd(s, p) = p + 1
        <5>1. At(s, p) \in Singles /\ At(s, p) \notin {"=", "<", ">", "!"}
          BY <3>1 DEF Signs, Singles
        <5>. QED
          BY <1>8, <5>1, ScanOperator DEF Operates, OperatorEnd
      <4>2. n = 1
        <5>1. Scan(s, p).to = p + 1
          BY <4>1 DEF Token
        <5>. QED
          BY <5>1
      <4>3. At(z, o + 1) = Space
        BY <4>2 DEF Agree
      <4>. QED
        BY <1>2, <3>1, <4>3, Kinds, BlankKinds DEF IsNumber
    <3>2. CASE At(s, p) \notin Signs
      BY <1>2, <1>8, <3>2 DEF IsNumber
    <3>. QED
      BY <3>1, <3>2
  <2>2. At(z, o) = At(s, p) /\ At(z, o) \notin Letters \cup {"_"} /\ At(z, o) \notin {"quote", "$", NUL}
    BY <1>2, <1>8
  <2>3. n = 1 => At(z, o + 1) # "="
    <3>1. n = 1 => At(z, o + 1) = Space
      BY DEF Agree
    <3>. QED
      BY <3>1, BlankKinds
  <2>4. CASE Operates(s, p)
    <3>1. Scan(s, p) = Token("OPERATOR", p, OperatorEnd(s, p), <<>>, p)
      BY <1>8, <2>4, ScanOperator
    <3>2. OperatorEnd(s, p) = p + n
      BY <3>1 DEF Token
    <3>3. CASE At(s, p) \in {"=", "<", ">", "!"} /\ At(s, p + 1) = "="
      <4>1. n = 2
        BY <3>2, <3>3 DEF OperatorEnd
      <4>2. At(z, o + 1) = "="
        BY <3>3, <4>1 DEF Agree
      <4>3. Operates(z, o) /\ OperatorEnd(z, o) = o + n
        BY <1>2, <2>4, <3>3, <4>1, <4>2 DEF Operates, OperatorEnd
      <4>4. Scan(z, o) = Token("OPERATOR", o, OperatorEnd(z, o), <<>>, o)
        BY <2>1, <4>3, ScanOperator
      <4>. QED
        BY <3>1, <4>3, <4>4 DEF Token, Moved
    <3>4. CASE ~(At(s, p) \in {"=", "<", ">", "!"} /\ At(s, p + 1) = "=")
      <4>1. n = 1
        BY <3>2, <3>4 DEF OperatorEnd
      <4>2. Operates(z, o) /\ OperatorEnd(z, o) = o + n
        BY <1>2, <2>3, <2>4, <3>4, <4>1 DEF Operates, OperatorEnd
      <4>3. Scan(z, o) = Token("OPERATOR", o, OperatorEnd(z, o), <<>>, o)
        BY <2>1, <4>2, ScanOperator
      <4>. QED
        BY <3>1, <4>2, <4>3 DEF Token, Moved
    <3>. QED
      BY <3>3, <3>4
  <2>5. CASE ~Operates(s, p)
    <3>1. Scan(s, p) = Token("ERROR", p, p + 1, <<>>, p)
      BY <1>2, <1>8, <2>2, <2>5, ScanOther, Zenon
    <3>2. n = 1
      <4>1. Scan(s, p).to = p + 1
        BY <3>1 DEF Token
      <4>. QED
        BY <4>1
    <3>3. ~Operates(z, o)
      BY <2>2, <2>3, <2>5, <3>2 DEF Operates
    <3>4. Scan(z, o) = Token("ERROR", o, o + 1, <<>>, o)
      BY <2>1, <2>2, <3>3, ScanOther, Zenon
    <3>. QED
      BY <3>1, <3>2, <3>4 DEF Token, Moved
  <2>. QED
    BY <2>4, <2>5
<1>. QED
  BY <1>4, <1>5, <1>6, <1>7, <1>8

(* Behind a blank the token begins, where there is no other and no comment.    *)
LEMMA StartsBehindBlank ==
  ASSUME NEW s \in Seq(Chars), NEW p \in Nat, NEW r \in Nat, r = p + 1, r <= Len(s) + 2,
         At(s, p) = Space, At(s, r) \notin Spaces, ~Opens(s, r)
  PROVE  TokenStart(s, p) = r
<1>1. PICK t : t = TokenStart(s, p)
  OBVIOUS
<1>2. Starts(s, p, t)
  <2>1. p <= Len(s) + 2
    OBVIOUS
  <2>. QED
    BY <1>1, <2>1, TokenStarts
<1>3. PICK a, b \in Nat : Gap(s, p, a, b, t)
  BY <1>2 DEF Starts
<1>4. At(s, t) \notin Spaces /\ t \in Nat /\ p <= t
  BY <1>2 DEF Starts
<1>5. At(s, p) \in Spaces /\ At(s, p) # "/"
  BY BlankKinds
<1>6. p < t
  BY <1>4, <1>5
<1>7. a <= r
  <2>1. a > r => At(s, r) \in Spaces
    BY <1>3 DEF Gap
  <2>. QED
    BY <2>1
<1>8. b = a
  <2>1. ~Opens(s, a)
    <3>1. ~Opens(s, p)
      BY <1>5 DEF Opens
    <3>2. a = p \/ a = r
      BY <1>3, <1>7 DEF Gap
    <3>. QED
      BY <3>1, <3>2
  <2>. QED
    BY <1>3, <2>1 DEF Gap, Remark
<1>9. t = r
  <2>1. t > r => At(s, r) \in Spaces
    BY <1>3, <1>7, <1>8 DEF Gap
  <2>. QED
    BY <1>4, <1>6, <2>1
<1>. QED
  BY <1>1, <1>9

(* z holds m pieces of s and a blank behind each: the k-th is N[k] characters    *)
(* from P[k], and they are a token, or the beginning of a string that is not     *)
(* closed, and the last piece; it ends at O[k], with its blank.                 *)
Piece(s, z, m, p, n, o, k) ==
  /\ p < Len(s) /\ At(s, p) # NUL /\ At(s, p) \notin Spaces
  /\ 1 <= n /\ Agree(s, p, z, o, n)
  /\ Opens(s, p) => n = 1
  /\ \/ ~Broken(s, p) /\ Scan(s, p).to = p + n
     \/ Broken(s, p) /\ k = m /\ p + n <= Len(s) /\ p + n <= StringStop(s, p)
Pieces(s, z, m, P, N, O) ==
  /\ P \in [1 .. m -> Nat] /\ N \in [1 .. m -> Nat] /\ O \in [0 .. m -> Nat]
  /\ O[0] = 0 /\ O[m] = Len(z)
  /\ \A k \in 1 .. m : /\ Piece(s, z, m, P[k], N[k], O[k - 1], k)
                       /\ O[k] = O[k - 1] + (N[k] + 1) /\ O[k] <= Len(z)

(* Behind a piece, or its blank, the next one begins.                         *)
LEMMA PieceStarts ==
  ASSUME NEW s \in Seq(Chars), NEW z \in Seq(Chars), NEW m \in Nat, NEW P, NEW N, NEW O,
         Pieces(s, z, m, P, N, O), NEW k \in 0 .. m,
         NEW x \in Nat, x = O[k] \/ (x + 1 = O[k] /\ At(z, x) = Space)
  PROVE  TokenStart(z, x) = O[k] /\ x <= Len(z) + 2
<1>1. PICK o \in Nat : o = O[k]
  BY DEF Pieces
<1>2. Len(z) \in Nat
  BY LenProperties
<1>3. At(z, o) \notin Spaces /\ ~Opens(z, o) /\ o <= Len(z)
  <2>1. CASE k = m
    <3>1. At(z, o) = NUL /\ o <= Len(z)
      BY <1>1, <1>2, <2>1, AtEnd DEF Pieces
    <3>2. "/" # NUL
      BY DEF NUL
    <3>. QED
      BY <3>1, <3>2, SpacesAreNotNul DEF Opens
  <2>2. CASE k # m
    <3>1. PICK j \in 1 .. m : j = k + 1 /\ j - 1 = k
      BY <2>2
    <3>2. PICK p \in Nat, n \in Nat : /\ Piece(s, z, m, p, n, o, j)
                                      /\ O[j] = o + (n + 1) /\ O[j] <= Len(z) /\ O[j] \in Nat
      <4>1. /\ Piece(s, z, m, P[j], N[j], O[j - 1], j) /\ P[j] \in Nat /\ N[j] \in Nat
            /\ O[j] = O[j - 1] + (N[j] + 1) /\ O[j] <= Len(z) /\ O[j] \in Nat
        BY <3>1 DEF Pieces
      <4>2. O[j - 1] = o
        BY <1>1, <3>1
      <4>. QED
        BY <4>1, <4>2
    <3>3. At(z, o) = At(s, p)
      <4>1. Agree(s, p, z, o, n) /\ 0 < n /\ p + 0 = p /\ o + 0 = o
        BY <3>2 DEF Piece
      <4>. QED
        BY <4>1 DEF Agree
    <3>4. ~Opens(z, o)
      <4>1. CASE n = 1
        <5>1. At(z, o + 1) = Space
          BY <3>2, <4>1 DEF Piece, Agree
        <5>. QED
          BY <5>1, BlankKinds DEF Opens
      <4>2. CASE n # 1
        <5>1. At(z, o + 1) = At(s, p + 1)
          BY <3>2, <4>2 DEF Piece, Agree
        <5>. QED
          BY <3>2, <3>3, <4>2, <5>1 DEF Opens, Piece
      <4>. QED
        BY <4>1, <4>2
    <3>. QED
      BY <1>2, <3>2, <3>3, <3>4 DEF Piece
  <2>. QED
    BY <2>1, <2>2
<1>4. CASE x = o
  BY <1>1, <1>2, <1>3, <1>4, StartsHere
<1>5. CASE x + 1 = o /\ At(z, x) = Space
  <2>1. o = x + 1 /\ o <= Len(z) + 2
    BY <1>2, <1>3, <1>5
  <2>2. TokenStart(z, x) = o
    BY <1>3, <1>5, <2>1, StartsBehindBlank
  <2>. QED
    BY <1>1, <2>1, <2>2
<1>. QED
  BY <1>1, <1>4, <1>5

(* The tokens of the pieces are read, each where it stands, and then the end.  *)
LEMMA PieceReads ==
  ASSUME NEW s \in Seq(Chars), NEW z \in Seq(Chars), NEW m \in Nat, NEW P, NEW N, NEW O,
         Pieces(s, z, m, P, N, O), NEW k \in 1 .. m
  PROVE  LET t == Scan(s, P[k])
             u == Scan(z, O[k - 1])
         IN  /\ t.type # "END_OF_FILE" /\ u.type = t.type /\ u.text = t.text
             /\ u.to \in Nat /\ (u.to = O[k] \/ (u.to + 1 = O[k] /\ At(z, u.to) = Space))
<1>1. PICK p \in Nat, n \in Nat, o \in Nat :
        /\ p = P[k] /\ o = O[k - 1] /\ O[k] = o + (n + 1)
        /\ Piece(s, z, m, p, n, o, k)
  <2>1. k - 1 \in 0 .. m
    OBVIOUS
  <2>. QED
    BY <2>1 DEF Pieces
<1>2. p < Len(s) /\ At(s, p) # NUL /\ 1 <= n /\ Agree(s, p, z, o, n)
  BY <1>1 DEF Piece
<1>3. Scan(s, p).type # "END_OF_FILE"
  <2>1. p <= Len(s) + 2
    BY <1>2, LenProperties
  <2>. QED
    BY <1>2, <2>1, ScanScans DEF Scanned
<1>4. CASE ~Broken(s, p) /\ Scan(s, p).to = p + n
  <2>1. Moved(Scan(s, p), Scan(z, o), o, n)
    BY <1>2, <1>4, ScanMoves
  <2>2. At(z, o + n) = Space
    BY <1>2 DEF Agree
  <2>3. Scan(z, o).to = o + n
    BY <2>1 DEF Moved
  <2>4. o + n \in Nat /\ (o + n) + 1 = O[k]
    BY <1>1
  <2>. QED
    BY <1>1, <1>3, <2>1, <2>2, <2>3, <2>4 DEF Moved
<1>5. CASE Broken(s, p) /\ k = m /\ p + n <= Len(s) /\ p + n <= StringStop(s, p)
  <2>1. Len(z) = o + (n + 1) /\ O[k] = Len(z) /\ Len(z) \in Nat
    BY <1>1, <1>5, LenProperties DEF Pieces
  <2>2. StringStop(z, o) = Len(z)
    BY <1>2, <1>5, <2>1, BrokenMoves
  <2>3. At(z, o) = "quote" /\ At(s, p) = "quote" /\ At(s, StringStop(s, p)) # "quote"
    <3>1. 0 < n /\ p + 0 = p /\ o + 0 = o
      BY <1>2
    <3>2. At(z, o) = At(s, p)
      BY <1>2, <3>1 DEF Agree
    <3>. QED
      BY <1>5, <3>2 DEF Broken
  <2>4. At(z, Len(z)) # "quote"
    BY <2>1, AtEnd, OneKind
  <2>5. Scan(s, p) = Token("ERROR", p, StringStop(s, p), <<>>, p)
    BY <2>3, ScanString
  <2>6. Scan(z, o) = Token("ERROR", o, Len(z), <<>>, o)
    BY <2>2, <2>3, <2>4, ScanString
  <2>. QED
    BY <1>1, <1>3, <2>1, <2>5, <2>6 DEF Token
<1>. QED
  BY <1>1, <1>4, <1>5 DEF Piece

(* What the lexer reads of z are the tokens of the pieces.                    *)
LEMMA PiecesRead ==
  ASSUME NEW s \in Seq(Chars), NEW z \in Seq(Chars), NEW m \in Nat, NEW P, NEW N, NEW O,
         Pieces(s, z, m, P, N, O)
  PROVE  LexAll(z) = [k \in 1 .. m |-> KeptOf(Scan(s, P[k]))]
<1> DEFINE K == [k \in 1 .. m |-> KeptOf(Scan(s, P[k]))]
           S == {KeptOf(Scan(s, P[k])) : k \in 1 .. m}
<1>1. PICK f : LexAll(z) = f[0] /\ LexesFrom(z, f)
  BY LexAllIs
<1>2. K \in Seq(S) /\ Len(K) = m
  <2>1. K \in [1 .. m -> S]
    OBVIOUS
  <2> HIDE DEF K, S
  <2>. QED
    BY <2>1, SeqDef, LenProperties
<1>3. O \in [0 .. m -> Nat] /\ O[0] = 0 /\ O[m] = Len(z) /\ Len(z) \in Nat
  BY LenProperties DEF Pieces
<1>4. ASSUME NEW k \in 0 .. m, NEW x \in Nat, x = O[k] \/ (x + 1 = O[k] /\ At(z, x) = Space)
      PROVE  x \in 0 .. Len(z) + 2 /\ TokenAt(z, x) = Scan(z, O[k])
  <2>1. TokenStart(z, x) = O[k] /\ x <= Len(z) + 2
    BY <1>4, PieceStarts
  <2>. QED
    BY <1>3, <2>1 DEF TokenAt
<1> DEFINE Good(k) == \A x \in Nat : x = O[k] \/ (x + 1 = O[k] /\ At(z, x) = Space) => f[x] = Part(K, k, m)
<1>5. Good(m)
  <2>1. m \in 0 .. m
    OBVIOUS
  <2>2. Scan(z, O[m]).type = "END_OF_FILE"
    <3>1. PICK o \in Nat : o = O[m] /\ o = Len(z)
      BY <1>3
    <3>2. o <= Len(z) + 2 /\ At(z, o) = NUL
      BY <1>3, <3>1, AtEnd
    <3>3. Scanned(z, o, Scan(z, o))
      BY <3>2, ScanScans
    <3>. QED
      BY <3>1, <3>2, <3>3 DEF Scanned
  <2>3. ASSUME NEW x \in Nat, x = O[m] \/ (x + 1 = O[m] /\ At(z, x) = Space) PROVE f[x] = <<>>
    <3>1. x \in 0 .. Len(z) + 2 /\ TokenAt(z, x) = Scan(z, O[m])
      BY <1>4, <2>1, <2>3
    <3>. QED
      BY <1>1, <2>2, <3>1 DEF LexesFrom
  <2>. QED
    BY <2>3, PartEmpty
<1>6. ASSUME NEW k \in 1 .. m, Good(k) PROVE Good(k - 1)
  <2>1. PICK j \in 0 .. m : j = k - 1
    OBVIOUS
  <2> DEFINE t == Scan(s, P[k])
             u == Scan(z, O[k - 1])
  <2>2. /\ t.type # "END_OF_FILE" /\ u.type = t.type /\ u.text = t.text
        /\ u.to \in Nat /\ (u.to = O[k] \/ (u.to + 1 = O[k] /\ At(z, u.to) = Space))
    BY PieceReads
  <2>3. KeptOf(u) = K[k]
    BY <2>2 DEF KeptOf
  <2>4. f[u.to] = Part(K, k, m)
    BY <1>6, <2>2
  <2>5. <<K[k]>> \o Part(K, k, m) = Part(K, j, m)
    <3>1. Part(K, j, k) \o Part(K, k, m) = Part(K, j, m)
      <4> HIDE DEF K, S
      <4>. QED
        BY <1>2, <2>1, PartConcat
    <3>2. Part(K, j, k) \in Seq(S) /\ Len(Part(K, j, k)) = 1 /\ Part(K, j, k)[1] = K[k]
      <4> HIDE DEF K, S
      <4>0. j \in Nat /\ k \in Nat /\ j <= k /\ k <= Len(K)
        BY <1>2, <2>1
      <4>1. /\ Part(K, j, k) \in Seq(S) /\ Len(Part(K, j, k)) = k - j
            /\ \A i \in 1 .. k - j : Part(K, j, k)[i] = K[j + i]
        BY <1>2, <4>0, PartType
      <4>2. k - j = 1 /\ j + 1 = k
        BY <2>1
      <4>. QED
        BY <4>1, <4>2
    <3>3. K[k] \in S
      OBVIOUS
    <3>4. Part(K, j, k) = <<K[k]>>
      <4> HIDE DEF K, S
      <4>1. PICK v \in Seq(S), w \in Seq(S) : v = Part(K, j, k) /\ w = <<K[k]>>
        BY <3>2, <3>3
      <4>2. Len(w) = 1 /\ w[1] = K[k]
        BY <4>1
      <4>3. Len(v) = Len(w) /\ \A i \in 1 .. Len(v) : v[i] = w[i]
        BY <3>2, <4>1, <4>2
      <4>. QED
        BY <4>1, <4>3, SeqEqual
    <3>. QED
      BY <3>1, <3>4
  <2> HIDE DEF t, u, K
  <2>6. ASSUME NEW x \in Nat, x = O[j] \/ (x + 1 = O[j] /\ At(z, x) = Space) PROVE f[x] = Part(K, j, m)
    <3>1. x \in 0 .. Len(z) + 2 /\ TokenAt(z, x) = Scan(z, O[j])
      BY <1>4, <2>6
    <3>2. TokenAt(z, x) = u
      BY <2>1, <3>1 DEF u
    <3>3. f[x] = <<KeptOf(u)>> \o f[u.to]
      BY <1>1, <2>2, <3>1, <3>2 DEF LexesFrom
    <3>. QED
      BY <2>3, <2>4, <2>5, <3>3
  <2>. QED
    BY <2>1, <2>6
<1>7. Good(0)
  <2> HIDE DEF Good
  <2> DEFINE G == {i \in Nat : i <= m => Good(m - i)}
  <2>1. 0 \in G
    <3>1. m - 0 = m
      OBVIOUS
    <3>. QED
      BY <1>5, <3>1
  <2>2. ASSUME NEW i \in Nat, i \in G PROVE i + 1 \in G
    <3>1. SUFFICES ASSUME i + 1 <= m PROVE Good(m - (i + 1))
      OBVIOUS
    <3>2. m - i \in 1 .. m /\ Good(m - i) /\ (m - i) - 1 = m - (i + 1)
      BY <2>2, <3>1
    <3>3. Good((m - i) - 1)
      BY <1>6, <3>2
    <3>. QED
      BY <3>2, <3>3
  <2>3. \A i \in Nat : i \in G
    <3> HIDE DEF G
    <3>. QED
      BY <2>1, <2>2, Induction
  <2>4. m \in G /\ m - m = 0
    BY <2>3
  <2>. QED
    BY <2>4
<1>8. f[0] = Part(K, 0, m)
  BY <1>3, <1>7
<1> HIDE DEF K, S
<1>9. Part(K, 0, m) = K
  BY <1>2, PartFull
<1>. QED
  BY <1>1, <1>8, <1>9 DEF K

(* w is the n characters of s from p, and a blank behind them.                *)
BlankText(s, p, n, w) ==
  \E q \in Nat : q = p + n /\ q <= Len(s) /\ w = Part(s, p, q) \o <<Space>>

LEMMA BlankBehind ==
  ASSUME NEW s \in Seq(Chars), NEW p \in Nat, NEW n \in Nat, NEW w, BlankText(s, p, n, w)
  PROVE  /\ w \in Seq(Chars) /\ Len(w) = n + 1 /\ w[n + 1] = Space
         /\ \A i \in Nat : i < n => w[i + 1] = At(s, p + i)
<1>0. PICK q \in Nat : q = p + n /\ q <= Len(s) /\ w = Part(s, p, q) \o <<Space>>
  BY DEF BlankText
<1>1. p <= q /\ q - p = n
  BY <1>0
<1>2. /\ Part(s, p, q) \in Seq(Chars) /\ Len(Part(s, p, q)) = n
      /\ \A k \in 1 .. n : Part(s, p, q)[k] = At(s, p + k - 1)
  <2>1. /\ Part(s, p, q) \in Seq(Chars) /\ Len(Part(s, p, q)) = q - p
        /\ \A k \in 1 .. q - p : Part(s, p, q)[k] = At(s, p + k - 1)
    BY <1>0, <1>1, PieceAt, Zenon
  <2>. QED
    BY <1>1, <2>1
<1>3. <<Space>> \in Seq(Chars) /\ Len(<<Space>>) = 1 /\ <<Space>>[1] = Space
  <2>1. Space \in Chars
    BY BlankKinds DEF Chars, Marks
  <2>. QED
    BY <2>1
<1>4. /\ w \in Seq(Chars) /\ Len(w) = n + 1
      /\ \A i \in 1 .. n + 1 : w[i] = IF i <= n THEN Part(s, p, q)[i] ELSE <<Space>>[i - n]
  BY <1>0, <1>2, <1>3, ConcatProperties
<1>5. w[n + 1] = Space
  <2>1. n + 1 \in 1 .. n + 1 /\ ~(n + 1 <= n) /\ (n + 1) - n = 1
    OBVIOUS
  <2>. QED
    BY <1>3, <1>4, <2>1
<1>6. ASSUME NEW i \in Nat, i < n PROVE w[i + 1] = At(s, p + i)
  <2>1. i + 1 \in 1 .. n /\ i + 1 \in 1 .. n + 1 /\ i + 1 <= n /\ p + (i + 1) - 1 = p + i
    BY <1>6
  <2>2. w[i + 1] = Part(s, p, q)[i + 1]
    BY <1>4, <2>1
  <2>3. Part(s, p, q)[i + 1] = At(s, p + (i + 1) - 1)
    BY <1>2, <2>1
  <2>. QED
    BY <2>1, <2>2, <2>3
<1>. QED
  BY <1>4, <1>5, <1>6

(* w is in z, behind o characters.                                            *)
Lies(w, z, o) == o + Len(w) <= Len(z) /\ \A i \in 1 .. Len(w) : z[o + i] = w[i]

LEMMA BlankAgrees ==
  ASSUME NEW s \in Seq(Chars), NEW p \in Nat, NEW n \in Nat, NEW w, BlankText(s, p, n, w),
         NEW z \in Seq(Chars), NEW o \in Nat, Lies(w, z, o)
  PROVE  Agree(s, p, z, o, n)
<1>1. /\ Len(w) = n + 1 /\ w[n + 1] = Space
      /\ \A i \in Nat : i < n => w[i + 1] = At(s, p + i)
  BY BlankBehind
<1>2. ASSUME NEW i \in Nat, i <= n PROVE At(z, o + i) = w[i + 1]
  <2>1. i + 1 \in 1 .. Len(w) /\ o + i < Len(z) /\ (o + i) + 1 = o + (i + 1)
    BY <1>1, <1>2, LenProperties DEF Lies
  <2>2. At(z, o + i) = z[(o + i) + 1]
    BY <2>1 DEF At
  <2>3. z[o + (i + 1)] = w[i + 1]
    BY <2>1 DEF Lies
  <2>. QED
    BY <2>1, <2>2, <2>3
<1>3. At(z, o + n) = Space
  BY <1>1, <1>2
<1>4. ASSUME NEW i \in Nat, i < n PROVE At(z, o + i) = At(s, p + i)
  BY <1>1, <1>2, <1>4
<1>. QED
  BY <1>3, <1>4 DEF Agree

(* A token that was returned is what is scanned where it begins.              *)
Returned(s, t) ==
  /\ t.from \in Nat /\ t.to \in Nat /\ t.from < t.to /\ t.from < Len(s)
  /\ At(s, t.from) # NUL /\ At(s, t.from) \notin Spaces
  /\ Like(t, Scan(s, t.from))
  /\ Opens(s, t.from) => t.to = t.from + 1

LEMMA TokensReturned ==
  ASSUME Handed, Reading, Traced, NEW i \in 1 .. Len(tokens), tokens[i].type # "END_OF_FILE"
  PROVE  Returned(source, tokens[i])
<1>1. PICK s \in Seq(Chars) : s = source
  BY DEF Handed
<1>2. PICK p : p = Behind(tokens, i - 1)
  OBVIOUS
<1>3. Called(s, p, TokenAt(s, p)) /\ p \in Nat /\ p <= Len(s) + 2
  BY <1>1, <1>2, TracedInText
<1>4. PICK r \in Nat : r = TokenStart(s, p) /\ r <= Len(s) + 2 /\ At(s, r) \notin Spaces
  <2>1. Starts(s, p, TokenStart(s, p))
    BY <1>3, TokenStarts
  <2>. QED
    BY <2>1 DEF Starts
<1>5. PICK t : t = tokens[i]
  OBVIOUS
<1>6. Like(t, Scan(s, r))
  BY <1>1, <1>2, <1>4, <1>5 DEF Traced, TokenAt
<1>7. Scanned(s, r, Scan(s, r)) /\ Scan(s, r).type # "END_OF_FILE"
  BY <1>4, <1>5, <1>6, ScanScans DEF Like
<1>8. t.from = r /\ t.to \in Nat /\ r < t.to /\ At(s, r) # NUL
  BY <1>6, <1>7 DEF Like, Scanned
<1>9. r < Len(s)
  BY <1>4, <1>8, AtEnd
<1>10. Opens(s, r) => t.to = r + 1
  <2>1. SUFFICES ASSUME At(s, r) = "/" PROVE t.to = r + 1
    BY DEF Opens
  <2>2. At(s, r) \in Singles /\ At(s, r) \notin Signs /\ At(s, r) \notin {"=", "<", ">", "!"}
    BY <2>1 DEF Singles, Signs
  <2>3. At(s, r) \notin Digits
    BY <2>2, Kinds
  <2>4. Scan(s, r) = Token("OPERATOR", r, OperatorEnd(s, r), <<>>, r)
    BY <2>2, <2>3, ScanOperator DEF Operates, IsNumber
  <2>5. OperatorEnd(s, r) = r + 1
    BY <2>2 DEF OperatorEnd
  <2>. QED
    BY <1>6, <2>4, <2>5 DEF Like, Token
<1>. QED
  BY <1>1, <1>4, <1>5, <1>6, <1>8, <1>9, <1>10 DEF Returned

(* Behind a string that is not closed there is only the end.                  *)
LEMMA BrokenIsLast ==
  ASSUME Handed, Reading, Traced, NEW i \in 1 .. Len(tokens), tokens[i].type # "END_OF_FILE",
         Broken(source, tokens[i].from), i + 1 <= Len(tokens)
  PROVE  tokens[i + 1].type = "END_OF_FILE"
<1>1. PICK s \in Seq(Chars) : s = source
  BY DEF Handed
<1>2. Returned(s, tokens[i])
  BY <1>1, TokensReturned
<1>3. PICK p \in Nat : p = tokens[i].from /\ p < Len(s) /\ Like(tokens[i], Scan(s, p))
  BY <1>2 DEF Returned
<1>4. Ends(s, p + 1, StringStop(s, p))
  BY <1>3, StringStops, LenProperties
<1>5. PICK r \in Nat : r = StringStop(s, p) /\ r <= Len(s) + 2 /\ At(s, r) \in {"quote", NUL}
  BY <1>4 DEF Ends
<1>6. At(s, p) = "quote" /\ At(s, r) = NUL
  BY <1>1, <1>3, <1>5 DEF Broken
<1>7. tokens[i].to = r
  <2>1. Scan(s, p) = Token("ERROR", p, r, <<>>, p)
    BY <1>5, <1>6, ScanString, OneKind
  <2>. QED
    BY <1>3, <2>1 DEF Token, Like
<1>8. PICK j \in 1 .. Len(tokens) : j = i + 1 /\ j - 1 = i
  OBVIOUS
<1>9. Like(tokens[j], TokenAt(s, r))
  <2>1. Behind(tokens, j - 1) = r
    BY <1>7, <1>8 DEF Behind
  <2>. QED
    BY <1>1, <2>1 DEF Traced
<1>10. TokenAt(s, r).type = "END_OF_FILE"
  BY <1>5, <1>6, EndThere
<1>. QED
  BY <1>8, <1>9, <1>10 DEF Like

(* The texts of tokens of s, with a blank behind each.                        *)
Blanked(s, ts) ==
  [i \in DOMAIN ts |->
     SubSeq(s, ts[i].from + 1, IF ts[i].to < Len(s) THEN ts[i].to ELSE Len(s)) \o <<Space>>]

(* w is what s has of the token t, n characters from p, and a blank.           *)
PieceText(s, t, w, p, n) ==
  /\ p = t.from /\ 1 <= n /\ BlankText(s, p, n, w)
  /\ Opens(s, p) => n = 1
  /\ \/ ~Broken(s, p) /\ Scan(s, p).to = p + n
     \/ Broken(s, p) /\ p + n <= Len(s) /\ p + n <= StringStop(s, p)

LEMMA BlankedAt ==
  ASSUME NEW s \in Seq(Chars), NEW ts, NEW i \in DOMAIN ts, Returned(s, ts[i])
  PROVE  \E p, n \in Nat : PieceText(s, ts[i], Blanked(s, ts)[i], p, n)
<1>1. Len(s) \in Nat
  BY LenProperties
<1>2. PICK p, e \in Nat : /\ p = ts[i].from /\ e = ts[i].to /\ p < e /\ p < Len(s)
                          /\ At(s, p) # NUL /\ Like(ts[i], Scan(s, p))
                          /\ Opens(s, p) => e = p + 1
  BY DEF Returned
<1>3. PICK q \in Nat : q = IF e < Len(s) THEN e ELSE Len(s)
  BY <1>1
<1>4. PICK n \in Nat : q = p + n /\ 1 <= n /\ q <= Len(s) /\ q <= e
  <2>1. q - p \in Nat /\ q = p + (q - p) /\ 1 <= q - p /\ q <= Len(s) /\ q <= e
    BY <1>1, <1>2, <1>3
  <2>. QED
    BY <2>1
<1>5. BlankText(s, p, n, Blanked(s, ts)[i])
  <2>1. Blanked(s, ts)[i] = Part(s, p, q) \o <<Space>>
    BY <1>2, <1>3 DEF Blanked, Part
  <2>. QED
    BY <1>4, <2>1 DEF BlankText
<1>6. Opens(s, p) => n = 1
  BY <1>2, <1>4
<1>7. Scan(s, p).to = e
  BY <1>2 DEF Like
<1>8. ~Broken(s, p) => Scan(s, p).to = p + n
  <2>1. ~Broken(s, p) => e <= Len(s)
    BY <1>1, <1>2, <1>7, ScanWithin
  <2>. QED
    BY <1>1, <1>3, <1>4, <1>7, <2>1
<1>9. Broken(s, p) => p + n <= Len(s) /\ p + n <= StringStop(s, p)
  <2>1. Broken(s, p) => Scan(s, p).to = StringStop(s, p)
    BY <1>2, ScanString DEF Broken, Token
  <2>. QED
    BY <1>4, <1>7, <2>1
<1>. QED
  BY <1>2, <1>4, <1>5, <1>6, <1>8, <1>9 DEF PieceText

(* The tokens, written with single blanks between them, are pieces.           *)
LEMMA BlankedPieces ==
  ASSUME NEW s \in Seq(Chars), NEW m \in Nat, NEW ts, DOMAIN ts = 1 .. m,
         \A i \in 1 .. m : Returned(s, ts[i]),
         \A i \in 1 .. m : Broken(s, ts[i].from) => i = m
  PROVE  /\ FlattenSeq(Blanked(s, ts)) \in Seq(Chars)
         /\ \E N, O : Pieces(s, FlattenSeq(Blanked(s, ts)), m, [i \in 1 .. m |-> ts[i].from], N, O)
<1> DEFINE seqs == Blanked(s, ts)
           z == FlattenSeq(seqs)
           P == [i \in 1 .. m |-> ts[i].from]
           N == [i \in 1 .. m |-> Len(seqs[i]) - 1]
           O == [k \in 0 .. m |-> Len(Runs(seqs)[k])]
<1>1. ASSUME NEW i \in 1 .. m
      PROVE  /\ seqs[i] \in Seq(Chars)
             /\ \E p, n \in Nat : PieceText(s, ts[i], seqs[i], p, n) /\ Len(seqs[i]) = n + 1
  <2>1. PICK p, n \in Nat : PieceText(s, ts[i], seqs[i], p, n)
    BY BlankedAt
  <2> HIDE DEF seqs
  <2>2. BlankText(s, p, n, seqs[i])
    BY <2>1 DEF PieceText
  <2>3. seqs[i] \in Seq(Chars) /\ Len(seqs[i]) = n + 1
    <3>1. PICK w : w = seqs[i]
      OBVIOUS
    <3>2. w \in Seq(Chars) /\ Len(w) = n + 1
      BY <2>2, <3>1, BlankBehind
    <3>. QED
      BY <3>1, <3>2
  <2>. QED
    BY <2>1, <2>3
<1>2. seqs \in Seq(Seq(Chars)) /\ Len(seqs) = m
  <2>1. seqs \in [1 .. m -> Seq(Chars)]
    <3>1. seqs = [i \in 1 .. m |-> seqs[i]]
      BY DEF Blanked
    <3> HIDE DEF seqs
    <3>. QED
      BY <1>1, <3>1
  <2> HIDE DEF seqs
  <2>. QED
    BY <2>1, SeqDef, LenProperties
<1> HIDE DEF seqs
<1>3. z \in Seq(Chars)
  BY <1>2, FlattenType
<1>4. /\ Runs(seqs) \in [0 .. m -> Seq(Chars)]
      /\ Len(Runs(seqs)[0]) = 0 /\ Len(Runs(seqs)[m]) = Len(z)
      /\ \A k \in 1 .. m :
           /\ Len(Runs(seqs)[k]) = Len(Runs(seqs)[k - 1]) + Len(seqs[k])
           /\ Len(Runs(seqs)[k]) <= Len(z)
           /\ \A i \in 1 .. Len(seqs[k]) : z[Len(Runs(seqs)[k - 1]) + i] = seqs[k][i]
  BY <1>2, FlatAt, Zenon
<1> HIDE DEF z
<1>5. P \in [1 .. m -> Nat] /\ N \in [1 .. m -> Nat]
  <2>1. ASSUME NEW i \in 1 .. m PROVE ts[i].from \in Nat /\ Len(seqs[i]) - 1 \in Nat
    <3>1. PICK p, n \in Nat : PieceText(s, ts[i], seqs[i], p, n) /\ Len(seqs[i]) = n + 1
      BY <1>1
    <3>. QED
      BY <3>1 DEF PieceText
  <2>. QED
    BY <2>1
<1>6. O \in [0 .. m -> Nat] /\ O[0] = 0 /\ O[m] = Len(z)
  BY <1>4, LenProperties
<1>7. ASSUME NEW k \in 1 .. m
      PROVE  Piece(s, z, m, P[k], N[k], O[k - 1], k) /\ O[k] = O[k - 1] + (N[k] + 1) /\ O[k] <= Len(z)
  <2>1. PICK p, n \in Nat : PieceText(s, ts[k], seqs[k], p, n) /\ Len(seqs[k]) = n + 1
    BY <1>1
  <2>0. p = P[k] /\ n = N[k]
    BY <2>1 DEF PieceText
  <2>2. PICK o \in Nat : o = O[k - 1] /\ o = Len(Runs(seqs)[k - 1])
    <3>1. k - 1 \in 0 .. m
      OBVIOUS
    <3>. QED
      BY <1>6, <3>1
  <2>3. O[k] = o + (n + 1) /\ O[k] <= Len(z) /\ Lies(seqs[k], z, o)
    <3>1. /\ Len(Runs(seqs)[k]) = o + Len(seqs[k]) /\ Len(Runs(seqs)[k]) <= Len(z)
          /\ \A i \in 1 .. Len(seqs[k]) : z[o + i] = seqs[k][i]
      BY <1>4, <2>2
    <3>2. O[k] = Len(Runs(seqs)[k])
      OBVIOUS
    <3>. QED
      BY <2>1, <3>1, <3>2 DEF Lies
  <2>4. Agree(s, p, z, o, n)
    <3>1. BlankText(s, p, n, seqs[k])
      BY <2>1 DEF PieceText
    <3>. QED
      BY <1>3, <2>3, <3>1, BlankAgrees DEF z
  <2>5. p < Len(s) /\ At(s, p) # NUL /\ At(s, p) \notin Spaces /\ (Broken(s, p) => k = m)
    BY <2>1 DEF Returned, PieceText
  <2>6. Piece(s, z, m, p, n, o, k)
    BY <2>1, <2>4, <2>5 DEF Piece, PieceText
  <2>. QED
    BY <2>0, <2>2, <2>3, <2>6
<1>8. Pieces(s, z, m, P, N, O)
  BY <1>5, <1>6, <1>7 DEF Pieces
<1> HIDE DEF P, N, O
<1>. QED
  BY <1>3, <1>8 DEF P, z, seqs

(* The first end of the file among the tokens.                                *)
EndAt(ts) == Min({i \in DOMAIN ts : ts[i].type = "END_OF_FILE"})

LEMMA EndAtFirst ==
  ASSUME Reading, Ended
  PROVE  /\ EndAt(tokens) \in 1 .. Len(tokens) /\ Len(tokens) \in Nat
         /\ \A i \in 1 .. Len(tokens) : i < EndAt(tokens) => tokens[i].type # "END_OF_FILE"
         /\ tokens[EndAt(tokens)].type = "END_OF_FILE"
<1> DEFINE E == {i \in DOMAIN tokens : tokens[i].type = "END_OF_FILE"}
<1>1. DOMAIN tokens = 1 .. Len(tokens) /\ Len(tokens) \in Nat
  BY LenProperties DEF Reading
<1>2. Len(tokens) \in E
  <2>1. Last(tokens) = tokens[Len(tokens)] /\ Len(tokens) # 0
    BY EmptySeq DEF Ended, Last, Reading
  <2>. QED
    BY <1>1, <2>1 DEF Ended
<1>3. E \in SUBSET Nat
  BY <1>1
<1>4. Min(E) \in E /\ \A y \in E : Min(E) <= y
  <2> HIDE DEF E
  <2>. QED
    BY <1>2, <1>3, LeastOf
<1>5. EndAt(tokens) = Min(E)
  BY DEF EndAt
<1> DEFINE e == Min(E)
<1>6. e \in E /\ \A y \in E : e <= y
  BY <1>4
<1> HIDE DEF e
<1>7. e \in 1 .. Len(tokens) /\ tokens[e].type = "END_OF_FILE"
  BY <1>1, <1>6
<1>8. ASSUME NEW i \in 1 .. Len(tokens), i < e PROVE tokens[i].type # "END_OF_FILE"
  BY <1>1, <1>6, <1>7, <1>8
<1>. QED
  BY <1>1, <1>5, <1>7, <1>8 DEF e

(* What Relexes says, with a name for the texts with a blank behind each.      *)
LEMMA RelexesMeans ==
  ASSUME Ended =>
           LexAll(FlattenSeq(Blanked(source, SubSeq(tokens, 1, EndAt(tokens) - 1))))
             = [i \in DOMAIN SubSeq(tokens, 1, EndAt(tokens) - 1) |->
                  [type |-> SubSeq(tokens, 1, EndAt(tokens) - 1)[i].type,
                   text |-> SubSeq(tokens, 1, EndAt(tokens) - 1)[i].text]]
  PROVE  Relexes
BY Zenon DEF Relexes, Blanked, Between, EndAt, Space

(* Of every file: the tokens that the lexer makes of it, written with single   *)
(* blanks between them in place of its blanks, comments and ends of lines, are *)
(* read as the same tokens, with the same texts.                              *)
THEOREM RelexesAlways == Spec => []Relexes
<1>1. ASSUME Handed, Reading, Traced PROVE Relexes
  <2> DEFINE m == EndAt(tokens) - 1
             ts == SubSeq(tokens, 1, m)
  <2>1. ASSUME Ended
        PROVE  LexAll(FlattenSeq(Blanked(source, ts))) = [i \in DOMAIN ts |-> [type |-> ts[i].type, text |-> ts[i].text]]
    <3>1. /\ m \in Nat /\ Len(tokens) \in Nat /\ m + 1 \in 1 .. Len(tokens)
          /\ \A i \in 1 .. Len(tokens) : i < m + 1 => tokens[i].type # "END_OF_FILE"
      <4>1. PICK e : e = EndAt(tokens)
        OBVIOUS
      <4>2. /\ e \in 1 .. Len(tokens) /\ Len(tokens) \in Nat
            /\ \A i \in 1 .. Len(tokens) : i < e => tokens[i].type # "END_OF_FILE"
        BY <1>1, <2>1, <4>1, EndAtFirst
      <4>3. e - 1 \in Nat /\ (e - 1) + 1 = e
        BY <4>2
      <4>. QED
        BY <4>1, <4>2, <4>3
    <3> HIDE DEF m
    <3>2. DOMAIN ts = 1 .. m /\ \A i \in 1 .. m : ts[i] = tokens[i]
      <4>1. PICK S : tokens \in Seq(S)
        BY <1>1 DEF Reading
      <4>2. /\ ts \in Seq(S) /\ Len(ts) = m
            /\ \A i \in 1 .. m : ts[i] = tokens[i]
        <5>1. /\ Part(tokens, 0, m) \in Seq(S) /\ Len(Part(tokens, 0, m)) = m - 0
              /\ \A i \in 1 .. m - 0 : Part(tokens, 0, m)[i] = tokens[0 + i]
          <6>1. 0 \in Nat /\ 0 <= m /\ m <= Len(tokens)
            BY <3>1
          <6>. QED
            BY <3>1, <4>1, <6>1, PartType
        <5>2. m - 0 = m /\ (\A i \in 1 .. m : 0 + i = i) /\ 0 + 1 = 1
          BY <3>1
        <5>. QED
          BY <5>1, <5>2 DEF Part
      <4> HIDE DEF ts
      <4>. QED
        BY <4>2, LenProperties
    <3> HIDE DEF ts
    <3>3. PICK s \in Seq(Chars) : s = source
      BY <1>1 DEF Handed
    <3>4. ASSUME NEW i \in 1 .. m
          PROVE  Returned(s, ts[i]) /\ (Broken(s, ts[i].from) => i = m)
      <4>1. i \in 1 .. Len(tokens) /\ tokens[i].type # "END_OF_FILE" /\ i + 1 <= Len(tokens)
        BY <3>1
      <4>2. i # m => i + 1 \in 1 .. Len(tokens) /\ i + 1 < m + 1
        BY <3>1
      <4>3. i # m => tokens[i + 1].type # "END_OF_FILE"
        BY <3>1, <4>2
      <4>4. ts[i] = tokens[i]
        BY <3>2
      <4>. QED
        BY <1>1, <3>3, <4>1, <4>3, <4>4, TokensReturned, BrokenIsLast
    <3>5. PICK z \in Seq(Chars) :
            /\ z = FlattenSeq(Blanked(s, ts))
            /\ \E N, O : Pieces(s, z, m, [i \in 1 .. m |-> ts[i].from], N, O)
      BY <3>1, <3>2, <3>4, BlankedPieces
    <3>6. PICK P : P = [i \in 1 .. m |-> ts[i].from]
      OBVIOUS
    <3>7. LexAll(z) = [k \in 1 .. m |-> KeptOf(Scan(s, P[k]))]
      BY <3>1, <3>5, <3>6, PiecesRead
    <3>8. ASSUME NEW k \in 1 .. m
          PROVE  KeptOf(Scan(s, P[k])) = [type |-> ts[k].type, text |-> ts[k].text]
      BY <3>4, <3>6 DEF Returned, Like, KeptOf
    <3>. QED
      BY <3>2, <3>3, <3>5, <3>7, <3>8
  <2>. QED
    BY <2>1, RelexesMeans
<1>2. Handed /\ Reading /\ Traced => Relexes
  BY <1>1
<1>. QED
  BY <1>2, TracedAlways, PTL

-----------------------------------------------------------------------------
(* The interpreter.                                                          *)

LEMMA HighestNat == Highest \in Nat
BY ProgramsAssumption

-----------------------------------------------------------------------------
(* What is defined height by height exists.                                   *)

LEMMA ExpressionTreesAt ==
  \A h \in 0 .. Highest :
    ExpressionTrees[h] = IF h = 0 THEN {} ELSE ExpressionsOver(ExpressionTrees[h - 1])
<1> DEFINE Table(n, g) ==
             g = [h \in 0 .. n |-> IF h = 0 THEN {} ELSE ExpressionsOver(g[h - 1])]
           G == {n \in Nat : \E g : Table(n, g)}
<1>1. 0 \in G
  <2>1. Table(0, [h \in 0 .. 0 |-> {}])
    OBVIOUS
  <2> HIDE DEF Table
  <2>. QED
    BY <2>1
<1>2. ASSUME NEW n \in Nat, n \in G PROVE n + 1 \in G
  <2>1. PICK g : Table(n, g)
    BY <1>2
  <2> DEFINE k == [h \in 0 .. n + 1 |-> IF h = n + 1 THEN ExpressionsOver(g[n]) ELSE g[h]]
  <2>2. ASSUME NEW h \in 0 .. n + 1
        PROVE  k[h] = IF h = 0 THEN {} ELSE ExpressionsOver(k[h - 1])
    <3>1. CASE h = n + 1
      <4>1. k[h] = ExpressionsOver(g[n]) /\ k[n] = g[n] /\ h # 0 /\ h - 1 = n
        BY <3>1
      <4>. QED
        BY <4>1
    <3>2. CASE h \in 0 .. n
      <4>1. k[h] = g[h] /\ (h # 0 => k[h - 1] = g[h - 1])
        BY <3>2
      <4>2. g[h] = IF h = 0 THEN {} ELSE ExpressionsOver(g[h - 1])
        BY <2>1, <3>2
      <4>. QED
        BY <4>1, <4>2
    <3>. QED
      BY <3>1, <3>2
  <2>3. Table(n + 1, k)
    <3>1. k = [h \in 0 .. n + 1 |-> k[h]]
      OBVIOUS
    <3> HIDE DEF k
    <3>. QED
      BY <2>2, <3>1
  <2> HIDE DEF Table, k
  <2>. QED
    BY <2>3
<1>3. PICK g : Table(Highest, g)
  <2>1. Highest \in G
    <3> HIDE DEF G
    <3>. QED
      BY <1>1, <1>2, Induction, HighestNat
  <2>. QED
    BY <2>1
<1>4. Table(Highest, ExpressionTrees)
  BY <1>3 DEF ExpressionTrees
<1>. QED
  BY <1>4

LEMMA StatementTreesAt ==
  \A h \in 0 .. Highest :
    StatementTrees[h] = IF h = 0 THEN {} ELSE StatementsOver(Expressions, StatementTrees[h - 1])
<1> DEFINE F(h, v) == IF h = 0 THEN {} ELSE StatementsOver(Expressions, v)
           Table(n, g) == g = [h \in 0 .. n |-> F(h, g[h - 1])]
           G == {n \in Nat : \E g : Table(n, g)}
<1>1. ASSUME NEW v, NEW w PROVE F(0, v) = F(0, w)
  OBVIOUS
<1>2. 0 \in G
  <2> DEFINE k == [h \in 0 .. 0 |-> F(0, {})]
  <2>1. ASSUME NEW h \in 0 .. 0 PROVE k[h] = F(h, k[h - 1])
    <3>1. h = 0 /\ k[h] = F(0, {})
      OBVIOUS
    <3>2. F(0, {}) = F(0, k[h - 1])
      BY <1>1
    <3> HIDE DEF F
    <3>. QED
      BY <3>1, <3>2
  <2>2. k = [h \in 0 .. 0 |-> k[h]]
    OBVIOUS
  <2>3. Table(0, k)
    <3> HIDE DEF k, F
    <3>. QED
      BY <2>1, <2>2
  <2> HIDE DEF Table, k
  <2>. QED
    BY <2>3
<1>3. ASSUME NEW n \in Nat, n \in G PROVE n + 1 \in G
  <2>1. PICK g : Table(n, g)
    BY <1>3
  <2> DEFINE k == [h \in 0 .. n + 1 |-> IF h = n + 1 THEN F(h, g[n]) ELSE g[h]]
  <2>2. ASSUME NEW h \in 0 .. n + 1 PROVE k[h] = F(h, k[h - 1])
    <3> HIDE DEF F
    <3>1. CASE h = n + 1
      <4>1. k[h] = F(h, g[n]) /\ k[n] = g[n] /\ h - 1 = n
        BY <3>1
      <4>. QED
        BY <4>1
    <3>2. CASE h \in 0 .. n
      <4>1. k[h] = g[h] /\ (h # 0 => k[h - 1] = g[h - 1])
        BY <3>2
      <4>2. g[h] = F(h, g[h - 1])
        BY <2>1, <3>2
      <4>3. h = 0 => F(h, g[h - 1]) = F(h, k[h - 1])
        <5>1. F(0, g[h - 1]) = F(0, k[h - 1])
          <6> HIDE DEF k
          <6>. QED
            BY <1>1
        <5>. QED
          BY <5>1
      <4>. QED
        BY <4>1, <4>2, <4>3
    <3>. QED
      BY <3>1, <3>2
  <2>3. k = [h \in 0 .. n + 1 |-> k[h]]
    OBVIOUS
  <2>4. Table(n + 1, k)
    <3> HIDE DEF k, F
    <3>. QED
      BY <2>2, <2>3
  <2> HIDE DEF Table, k
  <2>. QED
    BY <2>4
<1>4. PICK g : Table(Highest, g)
  <2>1. Highest \in G
    <3> HIDE DEF G
    <3>. QED
      BY <1>2, <1>3, Induction, HighestNat
  <2>. QED
    BY <2>1
<1>5. Table(Highest, StatementTrees)
  BY <1>4 DEF StatementTrees
<1>. QED
  BY <1>5

LEMMA EvaluateTreesAt ==
  ASSUME NEW names
  PROVE  \A h \in 0 .. Highest :
           EvaluateTrees(names)[h] = [e \in ExpressionTrees[h] |->
                    [s \in [names -> Values] |-> EvaluateNode(EvaluateTrees(names)[h - 1], e, s)]]
<1> DEFINE F(h, v) == [e \in ExpressionTrees[h] |->
             [s \in [names -> Values] |-> EvaluateNode(v, e, s)]]
           Table(n, g) == g = [h \in 0 .. n |-> F(h, g[h - 1])]
           G == {n \in Nat : \E g : Table(n, g)}
<1>1. ASSUME NEW v, NEW w PROVE F(0, v) = F(0, w)
  <2>1. ExpressionTrees[0] = {}
    BY ExpressionTreesAt, HighestNat
  <2>. QED
    BY <2>1
<1>2. 0 \in G
  <2> DEFINE k == [h \in 0 .. 0 |-> F(0, {})]
  <2>1. ASSUME NEW h \in 0 .. 0 PROVE k[h] = F(h, k[h - 1])
    <3>1. h = 0 /\ k[h] = F(0, {})
      OBVIOUS
    <3>2. F(0, {}) = F(0, k[h - 1])
      BY <1>1
    <3> HIDE DEF F
    <3>. QED
      BY <3>1, <3>2
  <2>2. k = [h \in 0 .. 0 |-> k[h]]
    OBVIOUS
  <2>3. Table(0, k)
    <3> HIDE DEF k, F
    <3>. QED
      BY <2>1, <2>2
  <2> HIDE DEF Table, k
  <2>. QED
    BY <2>3
<1>3. ASSUME NEW n \in Nat, n \in G PROVE n + 1 \in G
  <2>1. PICK g : Table(n, g)
    BY <1>3
  <2> DEFINE k == [h \in 0 .. n + 1 |-> IF h = n + 1 THEN F(h, g[n]) ELSE g[h]]
  <2>2. ASSUME NEW h \in 0 .. n + 1 PROVE k[h] = F(h, k[h - 1])
    <3> HIDE DEF F
    <3>1. CASE h = n + 1
      <4>1. k[h] = F(h, g[n]) /\ k[n] = g[n] /\ h - 1 = n
        BY <3>1
      <4>. QED
        BY <4>1
    <3>2. CASE h \in 0 .. n
      <4>1. k[h] = g[h] /\ (h # 0 => k[h - 1] = g[h - 1])
        BY <3>2
      <4>2. g[h] = F(h, g[h - 1])
        BY <2>1, <3>2
      <4>3. h = 0 => F(h, g[h - 1]) = F(h, k[h - 1])
        <5>1. F(0, g[h - 1]) = F(0, k[h - 1])
          <6> HIDE DEF k
          <6>. QED
            BY <1>1
        <5>. QED
          BY <5>1
      <4>. QED
        BY <4>1, <4>2, <4>3
    <3>. QED
      BY <3>1, <3>2
  <2>3. k = [h \in 0 .. n + 1 |-> k[h]]
    OBVIOUS
  <2>4. Table(n + 1, k)
    <3> HIDE DEF k, F
    <3>. QED
      BY <2>2, <2>3
  <2> HIDE DEF Table, k
  <2>. QED
    BY <2>4
<1>4. PICK g : Table(Highest, g)
  <2>1. Highest \in G
    <3> HIDE DEF G
    <3>. QED
      BY <1>2, <1>3, Induction, HighestNat
  <2>. QED
    BY <2>1
<1>5. Table(Highest, EvaluateTrees(names))
  BY <1>4 DEF EvaluateTrees
<1>. QED
  BY <1>5

LEMMA TypesOfTreesAt ==
  ASSUME NEW types
  PROVE  \A h \in 0 .. Highest :
           TypesOfTrees(types)[h] = [e \in ExpressionTrees[h] |-> TypeOfNode(TypesOfTrees(types)[h - 1], types, e)]
<1> DEFINE F(h, v) == [e \in ExpressionTrees[h] |-> TypeOfNode(v, types, e)]
           Table(n, g) == g = [h \in 0 .. n |-> F(h, g[h - 1])]
           G == {n \in Nat : \E g : Table(n, g)}
<1>1. ASSUME NEW v, NEW w PROVE F(0, v) = F(0, w)
  <2>1. ExpressionTrees[0] = {}
    BY ExpressionTreesAt, HighestNat
  <2>. QED
    BY <2>1
<1>2. 0 \in G
  <2> DEFINE k == [h \in 0 .. 0 |-> F(0, {})]
  <2>1. ASSUME NEW h \in 0 .. 0 PROVE k[h] = F(h, k[h - 1])
    <3>1. h = 0 /\ k[h] = F(0, {})
      OBVIOUS
    <3>2. F(0, {}) = F(0, k[h - 1])
      BY <1>1
    <3> HIDE DEF F
    <3>. QED
      BY <3>1, <3>2
  <2>2. k = [h \in 0 .. 0 |-> k[h]]
    OBVIOUS
  <2>3. Table(0, k)
    <3> HIDE DEF k, F
    <3>. QED
      BY <2>1, <2>2
  <2> HIDE DEF Table, k
  <2>. QED
    BY <2>3
<1>3. ASSUME NEW n \in Nat, n \in G PROVE n + 1 \in G
  <2>1. PICK g : Table(n, g)
    BY <1>3
  <2> DEFINE k == [h \in 0 .. n + 1 |-> IF h = n + 1 THEN F(h, g[n]) ELSE g[h]]
  <2>2. ASSUME NEW h \in 0 .. n + 1 PROVE k[h] = F(h, k[h - 1])
    <3> HIDE DEF F
    <3>1. CASE h = n + 1
      <4>1. k[h] = F(h, g[n]) /\ k[n] = g[n] /\ h - 1 = n
        BY <3>1
      <4>. QED
        BY <4>1
    <3>2. CASE h \in 0 .. n
      <4>1. k[h] = g[h] /\ (h # 0 => k[h - 1] = g[h - 1])
        BY <3>2
      <4>2. g[h] = F(h, g[h - 1])
        BY <2>1, <3>2
      <4>3. h = 0 => F(h, g[h - 1]) = F(h, k[h - 1])
        <5>1. F(0, g[h - 1]) = F(0, k[h - 1])
          <6> HIDE DEF k
          <6>. QED
            BY <1>1
        <5>. QED
          BY <5>1
      <4>. QED
        BY <4>1, <4>2, <4>3
    <3>. QED
      BY <3>1, <3>2
  <2>3. k = [h \in 0 .. n + 1 |-> k[h]]
    OBVIOUS
  <2>4. Table(n + 1, k)
    <3> HIDE DEF k, F
    <3>. QED
      BY <2>2, <2>3
  <2> HIDE DEF Table, k
  <2>. QED
    BY <2>4
<1>4. PICK g : Table(Highest, g)
  <2>1. Highest \in G
    <3> HIDE DEF G
    <3>. QED
      BY <1>2, <1>3, Induction, HighestNat
  <2>. QED
    BY <2>1
<1>5. Table(Highest, TypesOfTrees(types))
  BY <1>4 DEF TypesOfTrees
<1>. QED
  BY <1>5

LEMMA WellTypedTreesAt ==
  ASSUME NEW types
  PROVE  \A h \in 0 .. Highest :
           WellTypedTrees(types)[h] = IF h = 0 THEN {} ELSE WellTypedOver(types, WellTypedTrees(types)[h - 1])
<1> DEFINE F(h, v) == IF h = 0 THEN {} ELSE WellTypedOver(types, v)
           Table(n, g) == g = [h \in 0 .. n |-> F(h, g[h - 1])]
           G == {n \in Nat : \E g : Table(n, g)}
<1>1. ASSUME NEW v, NEW w PROVE F(0, v) = F(0, w)
  OBVIOUS
<1>2. 0 \in G
  <2> DEFINE k == [h \in 0 .. 0 |-> F(0, {})]
  <2>1. ASSUME NEW h \in 0 .. 0 PROVE k[h] = F(h, k[h - 1])
    <3>1. h = 0 /\ k[h] = F(0, {})
      OBVIOUS
    <3>2. F(0, {}) = F(0, k[h - 1])
      BY <1>1
    <3> HIDE DEF F
    <3>. QED
      BY <3>1, <3>2
  <2>2. k = [h \in 0 .. 0 |-> k[h]]
    OBVIOUS
  <2>3. Table(0, k)
    <3> HIDE DEF k, F
    <3>. QED
      BY <2>1, <2>2
  <2> HIDE DEF Table, k
  <2>. QED
    BY <2>3
<1>3. ASSUME NEW n \in Nat, n \in G PROVE n + 1 \in G
  <2>1. PICK g : Table(n, g)
    BY <1>3
  <2> DEFINE k == [h \in 0 .. n + 1 |-> IF h = n + 1 THEN F(h, g[n]) ELSE g[h]]
  <2>2. ASSUME NEW h \in 0 .. n + 1 PROVE k[h] = F(h, k[h - 1])
    <3> HIDE DEF F
    <3>1. CASE h = n + 1
      <4>1. k[h] = F(h, g[n]) /\ k[n] = g[n] /\ h - 1 = n
        BY <3>1
      <4>. QED
        BY <4>1
    <3>2. CASE h \in 0 .. n
      <4>1. k[h] = g[h] /\ (h # 0 => k[h - 1] = g[h - 1])
        BY <3>2
      <4>2. g[h] = F(h, g[h - 1])
        BY <2>1, <3>2
      <4>3. h = 0 => F(h, g[h - 1]) = F(h, k[h - 1])
        <5>1. F(0, g[h - 1]) = F(0, k[h - 1])
          <6> HIDE DEF k
          <6>. QED
            BY <1>1
        <5>. QED
          BY <5>1
      <4>. QED
        BY <4>1, <4>2, <4>3
    <3>. QED
      BY <3>1, <3>2
  <2>3. k = [h \in 0 .. n + 1 |-> k[h]]
    OBVIOUS
  <2>4. Table(n + 1, k)
    <3> HIDE DEF k, F
    <3>. QED
      BY <2>2, <2>3
  <2> HIDE DEF Table, k
  <2>. QED
    BY <2>4
<1>4. PICK g : Table(Highest, g)
  <2>1. Highest \in G
    <3> HIDE DEF G
    <3>. QED
      BY <1>2, <1>3, Induction, HighestNat
  <2>. QED
    BY <2>1
<1>5. Table(Highest, WellTypedTrees(types))
  BY <1>4 DEF WellTypedTrees
<1>. QED
  BY <1>5

(* The trees in a statement are statements, and well-typed when it is.         *)
LEMMA OptionalWider ==
  ASSUME NEW A, NEW B, A \subseteq B
  PROVE  Optional(A) \subseteq Optional(B) /\ Seq(A) \subseteq Seq(B)
<1>1. Seq(A) \subseteq Seq(B)
  OBVIOUS
<1>. QED
  BY <1>1 DEF Optional

LEMMA StatementsWider ==
  ASSUME NEW E, NEW A, NEW B, A \subseteq B
  PROVE  StatementsOver(E, A) \subseteq StatementsOver(E, B)
<1>1. Optional(A) \subseteq Optional(B) /\ Seq(A) \subseteq Seq(B)
  BY OptionalWider
<1>. QED
  BY <1>1 DEF StatementsOver

LEMMA WellTypedIn ==
  ASSUME NEW types
  PROVE  WellTypedTrees(types)[Highest]
           \subseteq WellTypedOver(types, WellTypedTrees(types)[Highest])
<1> DEFINE W == WellTypedTrees(types)
           G == {n \in Nat : n < Highest => W[n] \subseteq W[n + 1]}
<1>1. \A h \in 0 .. Highest : W[h] = IF h = 0 THEN {} ELSE WellTypedOver(types, W[h - 1])
  BY WellTypedTreesAt
<1> HIDE DEF W
<1>2. ASSUME NEW A, NEW B, A \subseteq B PROVE WellTypedOver(types, A) \subseteq WellTypedOver(types, B)
  <2> DEFINE E == {e \in Expressions : Typed(e, types)}
  <2>1. StatementsOver(E, A) \subseteq StatementsOver(E, B)
    <3> HIDE DEF E
    <3>. QED
      BY <1>2, StatementsWider
  <2> HIDE DEF E
  <2>. QED
    BY <2>1 DEF WellTypedOver, E
<1>3. 0 \in G
  <2>1. 0 < Highest => W[0] = {}
    BY <1>1, HighestNat
  <2>. QED
    BY <2>1
<1>4. ASSUME NEW n \in Nat, n \in G PROVE n + 1 \in G
  <2>1. SUFFICES ASSUME n + 1 < Highest PROVE W[n + 1] \subseteq W[n + 1 + 1]
    OBVIOUS
  <2>2. W[n] \subseteq W[n + 1]
    BY <1>4, <2>1, HighestNat
  <2>3. WellTypedOver(types, W[n]) \subseteq WellTypedOver(types, W[n + 1])
    BY <1>2, <2>2
  <2>4. n + 1 \in 0 .. Highest /\ n + 1 + 1 \in 0 .. Highest /\ n + 1 # 0 /\ n + 1 + 1 # 0
    BY <2>1, HighestNat
  <2>5. W[n + 1] = WellTypedOver(types, W[n + 1 - 1]) /\ n + 1 - 1 = n
    BY <1>1, <2>4
  <2>6. W[n + 1 + 1] = WellTypedOver(types, W[n + 1 + 1 - 1]) /\ n + 1 + 1 - 1 = n + 1
    BY <1>1, <2>4
  <2>. QED
    BY <2>3, <2>5, <2>6
<1>5. \A n \in Nat : n \in G
  <2> HIDE DEF G
  <2>. QED
    BY <1>3, <1>4, Induction
<1>6. CASE Highest = 0
  BY <1>1, <1>6 DEF W
<1>7. CASE Highest # 0
  <2>1. Highest - 1 \in Nat /\ Highest - 1 < Highest /\ Highest - 1 + 1 = Highest /\ Highest \in 0 .. Highest
    BY <1>7, HighestNat
  <2>2. W[Highest - 1] \subseteq W[Highest]
    BY <1>5, <2>1
  <2>3. W[Highest] = WellTypedOver(types, W[Highest - 1])
    BY <1>1, <1>7, <2>1
  <2>. QED
    BY <1>2, <2>2, <2>3 DEF W
<1>. QED
  BY <1>6, <1>7

-----------------------------------------------------------------------------
(* Values.                                                                   *)

IsOf(v, t) == v \in Values /\ v.type = t
Failures   == {Throw(why) : why \in DivisionErrors \cup {SIGFPE}}

LEMMA ValueIs ==
  ASSUME NEW t, NEW d
  PROVE  /\ t = "INT" /\ d \in MinInt .. MaxInt => IsOf(Val(t, d), t)
         /\ t = "REAL" /\ d \in Int             => IsOf(Val(t, d), t)
         /\ t = "STRING" /\ d \in Strings       => IsOf(Val(t, d), t)
         /\ t = "BOOLEAN" /\ d \in BOOLEAN      => IsOf(Val(t, d), t)
BY DEF IsOf, Val, Values

LEMMA ValueHas ==
  ASSUME NEW v \in Values
  PROVE  /\ v.type \in Types
         /\ v.type = "INT"     => v.data \in MinInt .. MaxInt
         /\ v.type = "REAL"    => v.data \in Int
         /\ v.type = "STRING"  => v.data \in Strings
         /\ v.type = "BOOLEAN" => v.data \in BOOLEAN
         /\ ~Throws(v)
BY DEF Values, Types, Throws

LEMMA FailureThrows ==
  ASSUME NEW v \in Failures
  PROVE  Throws(v) /\ v.data \in DivisionErrors \cup {SIGFPE}
BY DEF Failures, Throw, Throws

LEMMA Widths == MaxInt \in Nat /\ MinInt \in Int /\ 2 * (MaxInt + 1) \in Nat \ {0}
                /\ MinInt + 2 * (MaxInt + 1) = MaxInt + 1
BY SurroundingsAssumption DEF MinInt

LEMMA RemainderBelow ==
  ASSUME NEW a \in Int, NEW k \in Nat \ {0}
  PROVE  a % k \in 0 .. k - 1
OBVIOUS

LEMMA NumberIs ==
  ASSUME NEW t \in Numeric, NEW n \in Int
  PROVE  IsOf(Number(t, n), t)
<1>1. CASE t = "INT"
  <2> DEFINE k == 2 * (MaxInt + 1)
             r == (n - MinInt) % k
  <2>1. k \in Nat \ {0} /\ n - MinInt \in Int /\ MinInt + k = MaxInt + 1 /\ MinInt \in Int
        /\ MaxInt \in Int
    BY Widths
  <2>2. r \in 0 .. k - 1
    <3> HIDE DEF k
    <3>. QED
      BY <2>1, RemainderBelow
  <2>3. r + MinInt \in MinInt .. MaxInt
    <3> HIDE DEF k, r
    <3>. QED
      BY <2>1, <2>2
  <2>4. Number(t, n) = Val("INT", r + MinInt)
    BY <1>1 DEF Number
  <2> HIDE DEF k, r
  <2>. QED
    BY <1>1, <2>3, <2>4, ValueIs
<1>2. CASE t = "REAL"
  BY <1>2, ValueIs DEF Number
<1>. QED
  BY <1>1, <1>2 DEF Numeric

LEMMA ModuloIs ==
  ASSUME NEW l, NEW r, IsOf(l, "INT"), IsOf(r, "INT")
  PROVE  IsOf(Modulo(l, r), "INT") \/ Modulo(l, r) \in Failures
<1>1. l.data \in MinInt .. MaxInt /\ r.data \in MinInt .. MaxInt /\ MinInt \in Int /\ MaxInt \in Nat
      /\ MinInt = -(MaxInt + 1)
  BY ValueHas, Widths DEF IsOf, MinInt
<1>2. CASE r.data = 0 \/ (l.data = MinInt /\ r.data = -1)
  BY <1>2 DEF Modulo, Failures, DivisionErrors, IsOf
<1>3. CASE r.data # 0 /\ ~(l.data = MinInt /\ r.data = -1)
  <2> DEFINE m == Magnitude(l.data) % Magnitude(r.data)
  <2>1. Magnitude(l.data) \in Nat /\ Magnitude(r.data) \in 1 .. MaxInt + 1
    BY <1>1, <1>3 DEF Magnitude
  <2>2. m \in 0 .. MaxInt
    <3>1. m \in 0 .. Magnitude(r.data) - 1
      BY <2>1, RemainderBelow
    <3> HIDE DEF m
    <3>. QED
      BY <2>1, <3>1, <1>1
  <2>3. Remainder(l.data, r.data) \in MinInt .. MaxInt
    <3>1. Remainder(l.data, r.data) = IF l.data < 0 THEN -m ELSE m
      BY DEF Remainder
    <3> HIDE DEF m
    <3>. QED
      BY <1>1, <2>2, <3>1
  <2>4. Modulo(l, r) = Val("INT", Remainder(l.data, r.data))
    BY <1>3 DEF Modulo, IsOf
  <2>. QED
    BY <2>3, <2>4, ValueIs
<1>. QED
  BY <1>2, <1>3

LEMMA ArithmeticIs ==
  ASSUME NEW op \in {"+", "-", "*"}, NEW l \in Values, NEW r \in Values,
         BinaryType(op, l.type, r.type) # "ill-typed"
  PROVE  IsOf(Arithmetic(op, l, r), BinaryType(op, l.type, r.type))
<1>1. CASE {l.type, r.type} \subseteq Numeric
  <2>1. BinaryType(op, l.type, r.type) = Wider(l, r) /\ Wider(l, r) \in Numeric
    BY <1>1 DEF BinaryType, Wider, Numeric
  <2>2. l.data \in Int /\ r.data \in Int
    BY <1>1, ValueHas, Widths DEF Numeric
  <2>3. l.data + r.data \in Int /\ l.data - r.data \in Int /\ l.data * r.data \in Int
    BY <2>2
  <2>4. \E n \in Int : Arithmetic(op, l, r) = Number(Wider(l, r), n)
    <3>1. CASE op = "+"
      <4>1. Arithmetic(op, l, r) = Number(Wider(l, r), l.data + r.data)
        BY <1>1, <3>1 DEF Arithmetic, Numeric
      <4>. QED
        BY <2>3, <4>1
    <3>2. CASE op = "-"
      <4>1. Arithmetic(op, l, r) = Number(Wider(l, r), l.data - r.data)
        BY <1>1, <3>2 DEF Arithmetic
      <4>. QED
        BY <2>3, <4>1
    <3>3. CASE op = "*"
      <4>1. Arithmetic(op, l, r) = Number(Wider(l, r), l.data * r.data)
        BY <1>1, <3>3 DEF Arithmetic
      <4>. QED
        BY <2>3, <4>1
    <3>. QED
      BY <3>1, <3>2, <3>3
  <2>. QED
    BY <2>1, <2>4, NumberIs
<1>2. CASE ~({l.type, r.type} \subseteq Numeric)
  <2>1. op = "+" /\ l.type = "STRING" /\ r.type = "STRING"
    BY <1>2 DEF BinaryType
  <2>2. BinaryType(op, l.type, r.type) = "STRING"
    BY <1>2, <2>1 DEF BinaryType
  <2>3. l.data \o r.data \in Strings
    <3>1. l.data \in Strings /\ r.data \in Strings
      BY <2>1, ValueHas
    <3>. QED
      BY <3>1, ConcatProperties DEF Strings
  <2>4. Arithmetic(op, l, r) = Val("STRING", l.data \o r.data)
    BY <1>2, <2>1 DEF Arithmetic, Str
  <2>. QED
    BY <2>2, <2>3, <2>4, ValueIs
<1>. QED
  BY <1>1, <1>2

LEMMA BoolIs ==
  ASSUME NEW b \in BOOLEAN
  PROVE  IsOf(Bool(b), "BOOLEAN")
BY ValueIs DEF Bool

LEMMA LessIs ==
  ASSUME NEW l, NEW r
  PROVE  Less(l, r) \in BOOLEAN
<1>1. StringLess(l.data, r.data) \in BOOLEAN
  BY Zenon DEF StringLess
<1>2. (l.data < r.data) \in BOOLEAN
  OBVIOUS
<1>. QED
  BY <1>1, <1>2 DEF Less

LEMMA CompareIs ==
  ASSUME NEW op, NEW l \in Values, NEW r \in Values,
         op \in {"<", ">", "<=", ">=", "==", "!="},
         BinaryType(op, l.type, r.type) # "ill-typed"
  PROVE  /\ BinaryType(op, l.type, r.type) = "BOOLEAN"
         /\ IsOf(Compare(op, l, r), "BOOLEAN")
<1>1. BinaryType(op, l.type, r.type) = "BOOLEAN"
  BY DEF BinaryType
<1>2. \/ Ordered(l, r)
      \/ op \in {"==", "!="} /\ Equatable(l, r)
  BY DEF BinaryType, Ordered, Equatable
<1>3. \E b \in BOOLEAN : Compare(op, l, r) = Bool(b)
  <2>1. CASE op = "<" /\ Ordered(l, r)
    BY <2>1, LessIs DEF Compare
  <2>2. CASE op = ">" /\ Ordered(l, r)
    BY <2>2, LessIs DEF Compare
  <2>3. CASE op = "<=" /\ Ordered(l, r)
    BY <2>3 DEF Compare
  <2>4. CASE op = ">=" /\ Ordered(l, r)
    BY <2>4 DEF Compare
  <2>5. CASE op = "==" /\ Equatable(l, r)
    BY <2>5 DEF Compare
  <2>6. CASE op = "!=" /\ Equatable(l, r)
    BY <2>6 DEF Compare
  <2>. QED
    BY <1>2, <2>1, <2>2, <2>3, <2>4, <2>5, <2>6 DEF Equatable
<1>. QED
  BY <1>1, <1>3, BoolIs

LEMMA LogicIs ==
  ASSUME NEW op \in {"and", "or"}, NEW l \in Values, NEW r \in Values,
         BinaryType(op, l.type, r.type) # "ill-typed"
  PROVE  /\ BinaryType(op, l.type, r.type) = "BOOLEAN"
         /\ IsOf(Logic(op, l, r), "BOOLEAN")
<1>1. {l.type, r.type} = {"BOOLEAN"}
  BY DEF BinaryType
<1>2. BinaryType(op, l.type, r.type) = "BOOLEAN"
  BY <1>1 DEF BinaryType
<1>3. \E b \in BOOLEAN : Logic(op, l, r) = Bool(b)
  <2> DEFINE b == IF op = "and" THEN l.data /\ r.data ELSE l.data \/ r.data
  <2>1. b \in BOOLEAN
    BY Zenon
  <2>2. Logic(op, l, r) = Bool(b)
    BY <1>1, Zenon DEF Logic
  <2> HIDE DEF b
  <2>. QED
    BY <2>1, <2>2
<1>. QED
  BY <1>2, <1>3, BoolIs

(* An operator gives a value of the type that the typing expects of it, or it   *)
(* fails to divide.                                                          *)
LEMMA BinaryIs ==
  ASSUME NEW op, NEW l \in Values, NEW r \in Values,
         BinaryType(op, l.type, r.type) # "ill-typed"
  PROVE  IsOf(Binary(op, l, r), BinaryType(op, l.type, r.type)) \/ Binary(op, l, r) \in Failures
<1>1. CASE op \in {"+", "-", "*"}
  <2>1. Binary(op, l, r) = Arithmetic(op, l, r)
    BY <1>1 DEF Binary
  <2>. QED
    BY <1>1, <2>1, ArithmeticIs
<1>2. CASE op = "/"
  BY <1>2 DEF Binary, Divide, Failures, DivisionErrors
<1>3. CASE op = "%"
  <2>1. Binary(op, l, r) = Modulo(l, r) /\ BinaryType(op, l.type, r.type) = "INT"
        /\ l.type = "INT" /\ r.type = "INT"
    BY <1>3 DEF Binary, BinaryType
  <2>. QED
    BY <2>1, ModuloIs DEF IsOf
<1>4. CASE op \in {"and", "or"}
  <2>1. Binary(op, l, r) = Logic(op, l, r)
    BY <1>4 DEF Binary
  <2>. QED
    BY <1>4, <2>1, LogicIs
<1>5. CASE op \in {"<", ">", "<=", ">=", "==", "!="}
  <2>1. Binary(op, l, r) = Compare(op, l, r)
    BY <1>5 DEF Binary
  <2>. QED
    BY <1>5, <2>1, CompareIs
<1>. QED
  BY <1>1, <1>2, <1>3, <1>4, <1>5 DEF BinaryType

LEMMA UnaryIs ==
  ASSUME NEW op, NEW v \in Values,
         (op = "-" /\ v.type \in Numeric) \/ (op = "not" /\ v.type = "BOOLEAN")
  PROVE  IsOf(Unary(op, v), v.type)
<1>1. CASE op = "-" /\ v.type \in Numeric
  <2>1. Unary(op, v) = Number(v.type, -v.data)
    BY <1>1 DEF Unary, Numeric
  <2>2. -v.data \in Int
    BY <1>1, ValueHas, Widths DEF Numeric
  <2>. QED
    BY <1>1, <2>1, <2>2, NumberIs
<1>2. CASE op = "not" /\ v.type = "BOOLEAN"
  <2>1. Unary(op, v) = Bool(~v.data)
    BY <1>2, Zenon DEF Unary
  <2>2. \E b \in BOOLEAN : b = ~v.data
    BY Zenon
  <2>. QED
    BY <1>2, <2>1, <2>2, BoolIs
<1>. QED
  BY <1>1, <1>2

-----------------------------------------------------------------------------
(* Expressions.                                                              *)

(* The variables are those that types has, and have these types; and what a    *)
(* well-typed expression leaves behind.                                       *)
Fits(s, types) ==
  s \in [DOMAIN types -> Values] /\ \A n \in DOMAIN types : s[n].type = types[n]
Sound(r, t, types) == Fits(r.vars, types) /\ (IsOf(r.value, t) \/ r.value \in Failures)

LEMMA SoundCases ==
  ASSUME NEW r, NEW t, NEW types, Sound(r, t, types)
  PROVE  /\ ~Throws(r.value) => r.value \in Values /\ r.value.type = t /\ IsOf(r.value, t)
         /\ Throws(r.value) => r.value \in Failures
         /\ Fits(r.vars, types)
BY ValueHas, FailureThrows DEF Sound, IsOf

LEMMA BinaryTyped ==
  ASSUME NEW op, NEW l, NEW r, BinaryType(op, l, r) # "ill-typed"
  PROVE  l # "ill-typed" /\ r # "ill-typed"
BY DEF BinaryType, Numeric

LEMMA GetEnvIs ==
  ASSUME NEW n
  PROVE  IsOf(GetEnv(n), "STRING")
<1>1. \E d \in Strings : GetEnv(n) = Val("STRING", d)
  <2>1. (IF n \in DOMAIN Environment THEN Environment[n] ELSE <<>>) \in Strings
    BY SurroundingsAssumption DEF Strings
  <2>. QED
    BY <2>1 DEF GetEnv, Str
<1>. QED
  BY <1>1, ValueIs

LEMMA NodeSound ==
  ASSUME NEW types, NEW E, NEW eval, NEW type,
         \A x \in E : \A s :
           type[x] # "ill-typed" /\ Fits(s, types) => Sound(eval[x][s], type[x], types),
         NEW e \in ExpressionsOver(E), TypeOfNode(type, types, e) # "ill-typed",
         NEW s, Fits(s, types)
  PROVE  Sound(EvaluateNode(eval, e, s), TypeOfNode(type, types, e), types)
<1> DEFINE R == EvaluateNode(eval, e, s)
           T == TypeOfNode(type, types, e)
<1>1. CASE e.kind = "literal"
  <2>1. e.value \in Values
    BY <1>1 DEF ExpressionsOver
  <2>2. R = Result(e.value, s) /\ T = e.value.type
    BY <1>1 DEF EvaluateNode, TypeOfNode
  <2> HIDE DEF R, T
  <2>3. Sound(R, T, types)
    BY <2>1, <2>2 DEF Sound, IsOf, Result
  <2>. QED
    BY <2>3 DEF R, T
<1>2. CASE e.kind = "identifier"
  <2>1. e.name \in DOMAIN types /\ T = types[e.name]
    BY <1>2 DEF TypeOfNode
  <2>2. R = Result(s[e.name], s)
    <3>1. R = Result(GetVariable(e.name, s), s)
      BY <1>2 DEF EvaluateNode
    <3>2. DOMAIN s = DOMAIN types
      BY DEF Fits
    <3> HIDE DEF R
    <3>. QED
      BY <2>1, <3>1, <3>2 DEF GetVariable
  <2> HIDE DEF R, T
  <2>3. Sound(R, T, types)
    BY <2>1, <2>2 DEF Sound, IsOf, Result, Fits
  <2>. QED
    BY <2>3 DEF R, T
<1>3. CASE e.kind = "environment"
  <2>1. T = "STRING"
    BY <1>3 DEF TypeOfNode
  <2>2. R = Result(GetEnv(e.name), s)
    BY <1>3 DEF EvaluateNode
  <2> HIDE DEF R, T
  <2>3. Sound(R, T, types)
    BY <2>1, <2>2, GetEnvIs DEF Sound, Result
  <2>. QED
    BY <2>3 DEF R, T
<1>4. CASE e.kind = "binary"
  <2> DEFINE l == eval[e.left][s]
             r == eval[e.right][l.vars]
  <2>1. e.left \in E /\ e.right \in E
    BY <1>4 DEF ExpressionsOver
  <2>2. T = BinaryType(e.op, type[e.left], type[e.right])
    BY <1>4 DEF TypeOfNode
  <2>3. type[e.left] # "ill-typed" /\ type[e.right] # "ill-typed"
    BY <2>2, BinaryTyped
  <2>4. Sound(l, type[e.left], types)
    BY <2>1, <2>3
  <2>5. Sound(r, type[e.right], types)
    <3>1. Fits(l.vars, types)
      BY <2>4 DEF Sound
    <3>. QED
      BY <2>1, <2>3, <3>1
  <2>6. R = IF Throws(l.value) THEN l ELSE IF Throws(r.value) THEN r
            ELSE Result(Binary(e.op, l.value, r.value), r.vars)
    BY <1>4 DEF EvaluateNode, EvaluateBinary
  <2> HIDE DEF R, T, l, r
  <2>7. CASE Throws(l.value)
    <3>1. Sound(R, T, types)
      BY <2>4, <2>6, <2>7, SoundCases DEF Sound
    <3>. QED
      BY <3>1 DEF R, T
  <2>8. CASE ~Throws(l.value) /\ Throws(r.value)
    <3>1. Sound(R, T, types)
      BY <2>5, <2>6, <2>8, SoundCases DEF Sound
    <3>. QED
      BY <3>1 DEF R, T
  <2>9. CASE ~Throws(l.value) /\ ~Throws(r.value)
    <3>1. /\ l.value \in Values /\ l.value.type = type[e.left]
          /\ r.value \in Values /\ r.value.type = type[e.right]
          /\ Fits(r.vars, types)
      BY <2>4, <2>5, <2>9, SoundCases
    <3>2. IsOf(Binary(e.op, l.value, r.value), T) \/ Binary(e.op, l.value, r.value) \in Failures
      <4>1. T # "ill-typed" /\ T = BinaryType(e.op, l.value.type, r.value.type)
        BY <2>2, <3>1 DEF T
      <4>. QED
        BY <3>1, <4>1, BinaryIs
    <3>3. R = Result(Binary(e.op, l.value, r.value), r.vars)
      BY <2>6, <2>9
    <3>4. Sound(R, T, types)
      BY <3>1, <3>2, <3>3 DEF Sound, Result
    <3>. QED
      BY <3>4 DEF R, T
  <2>. QED
    BY <2>7, <2>8, <2>9
<1>5. CASE e.kind = "unary"
  <2> DEFINE r == eval[e.expr][s]
  <2>1. e.expr \in E
    BY <1>5 DEF ExpressionsOver
  <2>2. /\ T = type[e.expr] /\ type[e.expr] # "ill-typed"
        /\ (e.op = "-" /\ type[e.expr] \in Numeric) \/ (e.op = "not" /\ type[e.expr] = "BOOLEAN")
    BY <1>5 DEF TypeOfNode
  <2>3. Sound(r, T, types)
    BY <2>1, <2>2
  <2>4. R = IF Throws(r.value) THEN r ELSE Result(Unary(e.op, r.value), r.vars)
    BY <1>5 DEF EvaluateNode, EvaluateUnary
  <2> HIDE DEF R, T, r
  <2>5. Sound(R, T, types)
    <3>1. CASE Throws(r.value)
      BY <2>3, <2>4, <3>1
    <3>2. CASE ~Throws(r.value)
      <4>1. r.value \in Values /\ r.value.type = T /\ Fits(r.vars, types)
        BY <2>3, <3>2, SoundCases
      <4>2. IsOf(Unary(e.op, r.value), T)
        BY <2>2, <4>1, UnaryIs
      <4>. QED
        BY <2>4, <3>2, <4>1, <4>2 DEF Sound, Result
    <3>. QED
      BY <3>1, <3>2
  <2>. QED
    BY <2>5 DEF R, T
<1>6. CASE e.kind = "assignment"
  <2> DEFINE r == eval[e.expr][s]
  <2>1. e.expr \in E
    BY <1>6 DEF ExpressionsOver
  <2>2. T = type[e.expr] /\ type[e.expr] # "ill-typed"
        /\ e.name \in DOMAIN types /\ types[e.name] = T
    BY <1>6 DEF TypeOfNode
  <2>3. Sound(r, T, types)
    BY <2>1, <2>2
  <2>4. R = IF Throws(r.value) THEN r ELSE SetVariable(e.name, r.value, r.vars)
    BY <1>6 DEF EvaluateNode, EvaluateAssignment
  <2> HIDE DEF R, T, r
  <2>5. Sound(R, T, types)
    <3>1. CASE Throws(r.value)
      BY <2>3, <2>4, <3>1
    <3>2. CASE ~Throws(r.value)
      <4>1. r.value \in Values /\ r.value.type = T /\ Fits(r.vars, types)
        BY <2>3, <3>2, SoundCases
      <4>2. R = Result(r.value, [r.vars EXCEPT ![e.name] = r.value])
        BY <2>2, <2>4, <3>2, <4>1 DEF SetVariable, Fits
      <4>3. Fits([r.vars EXCEPT ![e.name] = r.value], types)
        BY <2>2, <4>1 DEF Fits
      <4>. QED
        BY <4>1, <4>2, <4>3 DEF Sound, Result, IsOf
    <3>. QED
      BY <3>1, <3>2
  <2>. QED
    BY <2>5 DEF R, T
<1>. QED
  BY <1>1, <1>2, <1>3, <1>4, <1>5, <1>6 DEF ExpressionsOver

(* A well-typed expression evaluates to a value of its type and leaves the      *)
(* variables with theirs, unless a division in it fails.                       *)
LEMMA EvaluateSound ==
  ASSUME NEW types, NEW e \in Expressions, Typed(e, types), NEW s, Fits(s, types)
  PROVE  Sound(Evaluate(e, s), TypeOf(e, types), types)
<1> DEFINE V == EvaluateTrees(DOMAIN types)
           T == TypesOfTrees(types)
           X == ExpressionTrees
           Good(n) == \A x \in X[n] : \A t :
                        T[n][x] # "ill-typed" /\ Fits(t, types) => Sound(V[n][x][t], T[n][x], types)
           G == {n \in Nat : n <= Highest => Good(n)}
<1>1. /\ \A h \in 0 .. Highest : X[h] = IF h = 0 THEN {} ELSE ExpressionsOver(X[h - 1])
      /\ \A h \in 0 .. Highest : \A x \in X[h] :
           /\ T[h][x] = TypeOfNode(T[h - 1], types, x)
           /\ \A t \in [DOMAIN types -> Values] : V[h][x][t] = EvaluateNode(V[h - 1], x, t)
  <2>1. \A h \in 0 .. Highest :
          V[h] = [x \in X[h] |-> [t \in [DOMAIN types -> Values] |-> EvaluateNode(V[h - 1], x, t)]]
    BY EvaluateTreesAt
  <2>2. \A h \in 0 .. Highest : T[h] = [x \in X[h] |-> TypeOfNode(T[h - 1], types, x)]
    BY TypesOfTreesAt
  <2>3. \A h \in 0 .. Highest : X[h] = IF h = 0 THEN {} ELSE ExpressionsOver(X[h - 1])
    BY ExpressionTreesAt
  <2> HIDE DEF V, T, X
  <2>4. ASSUME NEW h \in 0 .. Highest, NEW x \in X[h]
        PROVE  /\ T[h][x] = TypeOfNode(T[h - 1], types, x)
               /\ \A t \in [DOMAIN types -> Values] : V[h][x][t] = EvaluateNode(V[h - 1], x, t)
    <3>1. T[h] = [y \in X[h] |-> TypeOfNode(T[h - 1], types, y)]
      BY <2>2
    <3>2. V[h] = [y \in X[h] |-> [t \in [DOMAIN types -> Values] |-> EvaluateNode(V[h - 1], y, t)]]
      BY <2>1
    <3>3. V[h][x] = [t \in [DOMAIN types -> Values] |-> EvaluateNode(V[h - 1], x, t)]
      BY <3>2
    <3>. QED
      BY <3>1, <3>3
  <2>. QED
    BY <2>3, <2>4
<1> HIDE DEF V, T, X
<1>2. 0 \in G
  <2>1. X[0] = {}
    BY <1>1, HighestNat
  <2>. QED
    BY <2>1
<1>3. ASSUME NEW n \in Nat, n \in G PROVE n + 1 \in G
  <2>1. SUFFICES ASSUME n + 1 <= Highest, NEW x \in X[n + 1], NEW t,
                        T[n + 1][x] # "ill-typed", Fits(t, types)
                 PROVE  Sound(V[n + 1][x][t], T[n + 1][x], types)
    OBVIOUS
  <2>2. n + 1 \in 0 .. Highest /\ n + 1 # 0 /\ n + 1 - 1 = n /\ n <= Highest
    BY <2>1, HighestNat
  <2>3. x \in ExpressionsOver(X[n])
    BY <1>1, <2>1, <2>2
  <2>4. T[n + 1][x] = TypeOfNode(T[n], types, x) /\ V[n + 1][x][t] = EvaluateNode(V[n], x, t)
    <3>1. t \in [DOMAIN types -> Values]
      BY <2>1 DEF Fits
    <3>. QED
      BY <1>1, <2>1, <2>2, <3>1
  <2>5. \A y \in X[n] : \A u :
          T[n][y] # "ill-typed" /\ Fits(u, types) => Sound(V[n][y][u], T[n][y], types)
    BY <1>3, <2>2
  <2>6. TypeOfNode(T[n], types, x) # "ill-typed"
    BY <2>1, <2>4
  <2>7. Sound(EvaluateNode(V[n], x, t), TypeOfNode(T[n], types, x), types)
    <3> HIDE DEF G
    <3>. QED
      BY <2>1, <2>3, <2>5, <2>6, NodeSound
  <2>. QED
    BY <2>4, <2>7
<1>4. Good(Highest)
  <2>1. Highest \in G
    <3> HIDE DEF G
    <3>. QED
      BY <1>2, <1>3, Induction, HighestNat
  <2>. QED
    BY <2>1
<1>5. e \in X[Highest] /\ T[Highest][e] # "ill-typed"
  BY DEF X, T, Expressions, Typed, TypeOf
<1>6. Sound(V[Highest][e][s], T[Highest][e], types)
  BY <1>4, <1>5
<1>7. DOMAIN s = DOMAIN types
  BY DEF Fits
<1>. QED
  BY <1>6, <1>7 DEF V, T, Evaluate, TypeOf

-----------------------------------------------------------------------------
(* Declarations.                                                             *)

LEMMA ProgramIs ==
  ASSUME NEW p \in Programs
  PROVE  /\ Len(p.decls) \in Nat /\ DOMAIN p.decls = 1 .. Len(p.decls)
         /\ \A i \in 1 .. Len(p.decls) : p.decls[i] \in Declarations
<1>1. p.decls \in Seq(Declarations)
  BY ProgramsAssumption
<1>. QED
  BY <1>1, LenProperties, ElementOfSeq

LEMMA NoneDeclared ==
  ASSUME NEW p
  PROVE  DOMAIN DeclaredTypes(p, 0) = {}
BY DEF DeclaredTypes

LEMMA DeclaredIn ==
  ASSUME NEW p \in Programs, NEW n \in 0 .. Len(p.decls), NEW x \in DOMAIN DeclaredTypes(p, n)
  PROVE  /\ x \in DOMAIN DeclaredTypes(p, Len(p.decls))
         /\ DeclaredTypes(p, n)[x] = DeclaredTypes(p, Len(p.decls))[x]
<1> DEFINE N(m) == {p.decls[i].name : i \in 1 .. m}
           C(y) == (CHOOSE d \in ToSet(p.decls) : d.name = y).type
<1>1. ASSUME NEW m PROVE DeclaredTypes(p, m) = [y \in N(m) |-> C(y)]
  BY DEF DeclaredTypes
<1>2. N(n) \subseteq N(Len(p.decls))
  <2>1. \A i \in 1 .. n : i \in 1 .. Len(p.decls)
    BY ProgramIs
  <2>. QED
    BY <2>1
<1>3. DeclaredTypes(p, n) = [y \in N(n) |-> C(y)]
      /\ DeclaredTypes(p, Len(p.decls)) = [y \in N(Len(p.decls)) |-> C(y)]
  BY <1>1
<1> HIDE DEF N, C
<1>. QED
  BY <1>2, <1>3

LEMMA DeclaredNext ==
  ASSUME NEW p \in Programs, WellTyped(p), NEW n \in Nat, n < Len(p.decls)
  PROVE  LET d == p.decls[n + 1]
             T == DeclaredTypes(p, n)
             U == DeclaredTypes(p, n + 1)
         IN  /\ d.name \notin DOMAIN T
             /\ DOMAIN U = DOMAIN T \cup {d.name}
             /\ U[d.name] = d.type
             /\ \A x \in DOMAIN T : U[x] = T[x]
<1> DEFINE d == p.decls[n + 1]
           T == DeclaredTypes(p, n)
           U == DeclaredTypes(p, n + 1)
           C(x) == (CHOOSE c \in ToSet(p.decls) : c.name = x).type
<1>1. /\ DOMAIN T = {p.decls[i].name : i \in 1 .. n}
      /\ DOMAIN U = {p.decls[i].name : i \in 1 .. n + 1}
      /\ \A x \in DOMAIN T : T[x] = C(x)
      /\ \A x \in DOMAIN U : U[x] = C(x)
  BY DEF DeclaredTypes
<1>2. Len(p.decls) \in Nat /\ DOMAIN p.decls = 1 .. Len(p.decls)
  BY ProgramIs
<1>3. \A i \in 1 .. Len(p.decls) : \A j \in 1 .. i - 1 : p.decls[j].name # p.decls[i].name
  BY <1>2 DEF WellTyped
<1>4. d.name \notin DOMAIN T
  <2>1. SUFFICES ASSUME NEW j \in 1 .. n PROVE p.decls[j].name # d.name
    <3> HIDE DEF T, d
    <3>. QED
      BY <1>1
  <2>2. n + 1 \in 1 .. Len(p.decls) /\ j \in 1 .. (n + 1) - 1
    BY <1>2
  <2>. QED
    BY <1>3, <2>2
<1>5. DOMAIN U = DOMAIN T \cup {d.name}
  <2>1. {p.decls[i].name : i \in 1 .. n + 1} = {p.decls[i].name : i \in 1 .. n} \cup {d.name}
    <3>1. ASSUME NEW i \in 1 .. n + 1 PROVE i \in 1 .. n \/ i = n + 1
      OBVIOUS
    <3>2. \A i \in 1 .. n : i \in 1 .. n + 1
      OBVIOUS
    <3>3. n + 1 \in 1 .. n + 1
      OBVIOUS
    <3>. QED
      BY <3>1, <3>2, <3>3
  <2> HIDE DEF T, U, d
  <2>. QED
    BY <1>1, <2>1
<1>6. C(d.name) = d.type
  <2>1. ToSet(p.decls) = {p.decls[i] : i \in 1 .. Len(p.decls)}
    BY <1>2 DEF ToSet
  <2>2. n + 1 \in 1 .. Len(p.decls)
    BY <1>2
  <2>3. d \in ToSet(p.decls)
    BY <2>1, <2>2
  <2>4. ASSUME NEW c \in ToSet(p.decls), c.name = d.name PROVE c = d
    <3>1. PICK i \in 1 .. Len(p.decls) : c = p.decls[i]
      BY <2>1
    <3>2. i < n + 1 => i \in 1 .. (n + 1) - 1
      OBVIOUS
    <3>3. n + 1 < i => n + 1 \in 1 .. i - 1
      OBVIOUS
    <3>4. i = n + 1
      BY <1>3, <2>2, <2>4, <3>1, <3>2, <3>3
    <3>. QED
      BY <3>1, <3>4
  <2> HIDE DEF d
  <2>. QED
    BY <2>3, <2>4
<1>7. \A x \in DOMAIN T : U[x] = T[x]
  <2> HIDE DEF T, U, C, d
  <2>. QED
    BY <1>1, <1>5
<1>8. U[d.name] = d.type
  <2> HIDE DEF T, U, C, d
  <2>. QED
    BY <1>1, <1>5, <1>6
<1>. QED
  BY <1>4, <1>5, <1>7, <1>8

LEMMA DefaultIs ==
  ASSUME NEW t \in Types, t # "STRING"
  PROVE  IsOf(Default(t), t)
<1>1. CASE t \in Numeric
  <2>1. 0 \in MinInt .. MaxInt
    BY Widths
  <2>2. Default(t) = Val(t, 0)
    BY <1>1 DEF Default, Numeric
  <2>. QED
    BY <1>1, <2>1, <2>2, ValueIs DEF Numeric
<1>2. CASE t = "BOOLEAN"
  <2>1. Default(t) = Bool(FALSE)
    BY <1>2 DEF Default, Numeric
  <2>. QED
    BY <1>2, <2>1, BoolIs
<1>. QED
  BY <1>1, <1>2 DEF Types, Numeric

(* A variable is initialized with a value of its type.                        *)
LEMMA InitialSound ==
  ASSUME NEW p \in Programs, WellTyped(p), NEW n \in Nat, n < Len(p.decls),
         Fits(variables, DeclaredTypes(p, n))
  PROVE  Sound(Initial(p.decls[n + 1]), p.decls[n + 1].type, DeclaredTypes(p, n))
<1> DEFINE d == p.decls[n + 1]
           T == DeclaredTypes(p, n)
<1>1. n + 1 \in 1 .. Len(p.decls) /\ n + 1 - 1 = n
  BY ProgramIs
<1>2. d \in Declarations
  BY <1>1, ProgramIs
<1>3. IF d.init.kind = "none" THEN d.type # "STRING" ELSE TypeOf(d.init, T) = d.type
  <2>1. n + 1 \in DOMAIN p.decls
    BY <1>1, ProgramIs
  <2>. QED
    BY <1>1, <2>1 DEF WellTyped
<1> HIDE DEF d, T
<1>4. d.type \in Types /\ (d.init.kind # "none" => d.init \in Expressions)
  BY <1>2 DEF Declarations
<1>5. Fits(variables, T)
  BY DEF T
<1>6. Sound(Initial(d), d.type, T)
  <2>1. CASE d.init.kind = "none"
    <3>1. Initial(d) = Result(Default(d.type), variables)
      BY <2>1 DEF Initial
    <3>. QED
      BY <1>3, <1>4, <1>5, <2>1, <3>1, DefaultIs DEF Sound, Result
  <2>2. CASE d.init.kind # "none"
    <3> DEFINE r == Evaluate(d.init, variables)
    <3>1. TypeOf(d.init, T) = d.type /\ Typed(d.init, T)
      BY <1>3, <1>4, <2>2 DEF Typed, Types
    <3>2. Sound(r, d.type, T)
      BY <1>4, <1>5, <2>2, <3>1, EvaluateSound
    <3>3. Initial(d) = IF Throws(r.value) \/ ~Mismatch(d.type, r.value) THEN r
                       ELSE Result(Throw("Type mismatch in initialization"), r.vars)
      BY <2>2 DEF Initial
    <3> HIDE DEF r
    <3>4. Throws(r.value) \/ ~Mismatch(d.type, r.value)
      BY <3>2, SoundCases DEF Mismatch
    <3>. QED
      BY <3>2, <3>3, <3>4
  <2>. QED
    BY <2>1, <2>2
<1>. QED
  BY <1>6 DEF d, T

-----------------------------------------------------------------------------
(* Statements: what there may be left to do of a well-typed program.           *)

TypedOnes(T)   == {e \in Expressions : Typed(e, T)}
Conditions(T)  == {e \in Expressions : Condition(e, T)}
WellTypedOf(T) == WellTypedTrees(T)[Highest]
Items(T) ==
  WellTypedOf(T)
    \cup [kind : {"expression"}, expr : TypedOnes(T)]
    \cup [kind : {"loop"}, cond : Optional(Conditions(T)), body : WellTypedOf(T),
          update : Optional(TypedOnes(T))]
    \cup [kind : {"write"}, exprs : Seq(TypedOnes(T))]

LEMMA OptionalOf ==
  ASSUME NEW S, NEW A, A \subseteq S, NEW s \in Optional(S), \A x \in ToSet(s) : x \in A
  PROVE  s \in Optional(A)
<1>1. s \in Seq(S) /\ Len(s) <= 1 /\ Len(s) \in Nat /\ DOMAIN s = 1 .. Len(s)
  BY LenProperties DEF Optional
<1>2. \A i \in 1 .. Len(s) : s[i] \in A
  BY <1>1 DEF ToSet
<1>3. s \in Seq(A)
  BY <1>1, <1>2
<1>. QED
  BY <1>1, <1>3 DEF Optional

LEMMA ConditionsTyped ==
  ASSUME NEW T
  PROVE  Conditions(T) \subseteq TypedOnes(T)
BY DEF Conditions, TypedOnes, Condition, Typed

LEMMA WellTypedParts ==
  ASSUME NEW T, NEW t \in WellTypedOf(T)
  PROVE  /\ t \in StatementsOver(TypedOnes(T), WellTypedOf(T))
         /\ t.kind \in {"if", "while", "do"} => t.cond \in Conditions(T)
         /\ t.kind = "for" => t.cond \in Optional(Conditions(T))
         /\ t.kind = "read" => t.name \in DOMAIN T
<1>1. t \in WellTypedOver(T, WellTypedOf(T))
  BY WellTypedIn DEF WellTypedOf
<1>2. /\ t \in StatementsOver(TypedOnes(T), WellTypedOf(T))
      /\ t.kind \in {"if", "while", "do"} => Condition(t.cond, T)
      /\ t.kind = "for" => \A e \in ToSet(t.cond) : Condition(e, T)
      /\ t.kind = "read" => t.name \in DOMAIN T
  BY <1>1 DEF WellTypedOver, TypedOnes
<1>3. t.kind \in {"if", "while", "do"} => t.cond \in Conditions(T)
  <2>1. t.kind \in {"if", "while", "do"} => t.cond \in TypedOnes(T)
    BY <1>2 DEF StatementsOver
  <2>. QED
    BY <1>2, <2>1 DEF Conditions, TypedOnes
<1>4. t.kind = "for" => t.cond \in Optional(Conditions(T))
  <2>1. SUFFICES ASSUME t.kind = "for" PROVE t.cond \in Optional(Conditions(T))
    OBVIOUS
  <2>2. t.cond \in Optional(TypedOnes(T))
    BY <1>2, <2>1 DEF StatementsOver
  <2>3. \A e \in ToSet(t.cond) : e \in Conditions(T)
    <3>1. t.cond \in Seq(TypedOnes(T))
      BY <2>2 DEF Optional
    <3>2. \A e \in ToSet(t.cond) : e \in TypedOnes(T)
      BY <3>1, LenProperties, ElementOfSeq DEF ToSet
    <3>. QED
      BY <1>2, <2>1, <3>2 DEF Conditions, TypedOnes
  <2>. QED
    BY <2>2, <2>3, ConditionsTyped, OptionalOf
<1>. QED
  BY <1>2, <1>3, <1>4

LEMMA ItemParts ==
  ASSUME NEW T, NEW t \in Items(T)
  PROVE  /\ t.kind = "expression" => t.expr \in TypedOnes(T)
         /\ t.kind = "compound" => t.stmts \in Seq(WellTypedOf(T))
         /\ t.kind = "if" =>
              /\ t.cond \in Conditions(T) /\ t.then \in WellTypedOf(T)
              /\ t.else \in Optional(WellTypedOf(T))
         /\ t.kind \in {"while", "do"} => t.cond \in Conditions(T) /\ t.body \in WellTypedOf(T)
         /\ t.kind = "for" => t.init \in Optional(TypedOnes(T))
         /\ t.kind \in {"for", "loop"} =>
              /\ t.cond \in Optional(Conditions(T)) /\ t.update \in Optional(TypedOnes(T))
              /\ t.body \in WellTypedOf(T)
         /\ t.kind = "write" =>
              /\ t.exprs \in Seq(TypedOnes(T))
              /\ \A es : [t EXCEPT !.exprs = es] = [kind |-> "write", exprs |-> es]
         /\ t.kind = "read" => t.name \in DOMAIN T
<1>1. CASE t \in WellTypedOf(T)
  <2>1. /\ t \in StatementsOver(TypedOnes(T), WellTypedOf(T))
        /\ t.kind \in {"if", "while", "do"} => t.cond \in Conditions(T)
        /\ t.kind = "for" => t.cond \in Optional(Conditions(T))
        /\ t.kind = "read" => t.name \in DOMAIN T
    BY <1>1, WellTypedParts
  <2>2. t.kind \in {"expression", "compound", "if", "while", "do", "for", "write", "read"}
    BY <2>1 DEF StatementsOver
  <2>3. t.kind = "expression" => t.expr \in TypedOnes(T)
    BY <2>1 DEF StatementsOver
  <2>4. t.kind = "compound" => t.stmts \in Seq(WellTypedOf(T))
    BY <2>1 DEF StatementsOver
  <2>5. t.kind = "if" => t.then \in WellTypedOf(T) /\ t.else \in Optional(WellTypedOf(T))
    BY <2>1 DEF StatementsOver
  <2>6. t.kind \in {"while", "do", "for"} => t.body \in WellTypedOf(T)
    BY <2>1 DEF StatementsOver
  <2>7. t.kind = "for" => t.init \in Optional(TypedOnes(T)) /\ t.update \in Optional(TypedOnes(T))
    BY <2>1 DEF StatementsOver
  <2>8. t.kind = "write" => t \in [kind : {"write"}, exprs : Seq(TypedOnes(T))]
    BY <2>1 DEF StatementsOver
  <2>9. t.kind = "write" =>
          /\ t.exprs \in Seq(TypedOnes(T))
          /\ \A es : [t EXCEPT !.exprs = es] = [kind |-> "write", exprs |-> es]
    BY <2>8
  <2>. QED
    BY <2>1, <2>2, <2>3, <2>4, <2>5, <2>6, <2>7, <2>9
<1>2. CASE t \notin WellTypedOf(T)
  BY <1>2 DEF Items
<1>. QED
  BY <1>1, <1>2

LEMMA ItemsOf ==
  ASSUME NEW T
  PROVE  /\ \A e \in TypedOnes(T) : [kind |-> "expression", expr |-> e] \in Items(T)
         /\ \A es \in Seq(TypedOnes(T)) : [kind |-> "write", exprs |-> es] \in Items(T)
         /\ \A c \in Optional(Conditions(T)), b \in WellTypedOf(T), u \in Optional(TypedOnes(T)) :
              Loop(c, b, u) \in Items(T)
         /\ WellTypedOf(T) \subseteq Items(T)
         /\ Seq(WellTypedOf(T)) \subseteq Seq(Items(T))
<1>1. WellTypedOf(T) \subseteq Items(T)
  BY DEF Items
<1>2. Seq(WellTypedOf(T)) \subseteq Seq(Items(T))
  BY <1>1, OptionalWider
<1>. QED
  BY <1>1, <1>2 DEF Items, Loop

LEMMA AsStatementsType ==
  ASSUME NEW T, NEW es \in Optional(TypedOnes(T))
  PROVE  AsStatements(es) \in Seq(Items(T))
<1>1. es \in Seq(TypedOnes(T)) /\ Len(es) \in Nat /\ DOMAIN es = 1 .. Len(es)
  BY LenProperties DEF Optional
<1>2. AsStatements(es) = [i \in 1 .. Len(es) |-> [kind |-> "expression", expr |-> es[i]]]
  BY <1>1 DEF AsStatements
<1>3. \A i \in 1 .. Len(es) : [kind |-> "expression", expr |-> es[i]] \in Items(T)
  BY <1>1, ElementOfSeq, ItemsOf
<1>. QED
  BY <1>1, <1>2, <1>3

(* What there is of a well-typed program in T's variables while it runs.        *)
Excuses == {"", "Invalid input", SIGFPE} \cup DivisionErrors
Kept(T) ==
  /\ Fits(variables, T)
  /\ thrown \in Excuses
  /\ thrown = "" => todo \in Seq(Items(T))

LEMMA Next1 ==
  ASSUME NEW T, Kept(T), Running, todo # <<>>
  PROVE  /\ todo \in Seq(Items(T))
         /\ Head(todo) \in Items(T) /\ Tail(todo) \in Seq(Items(T))
<1>1. todo \in Seq(Items(T))
  BY DEF Kept, Running
<1>. QED
  BY <1>1, HeadTailProperties

LEMMA JumpKeeps ==
  ASSUME NEW T, Kept(T), NEW next \in Seq(Items(T)), Jump(next)
  PROVE  Kept(T)'
BY DEF Kept, Jump

LEMMA ContinueKeeps ==
  ASSUME NEW T, Kept(T), NEW e \in TypedOnes(T), NEW next \in Seq(Items(T)), Continue(e, next)
  PROVE  Kept(T)'
<1> DEFINE r == Evaluate(e, variables)
<1>1. Sound(r, TypeOf(e, T), T)
  BY EvaluateSound DEF Kept, TypedOnes
<1>2. /\ variables' = r.vars
      /\ IF Throws(r.value) THEN thrown' = r.value.data /\ todo' = todo
                            ELSE thrown' = thrown /\ todo' = next
  BY DEF Continue
<1> HIDE DEF r
<1>3. Fits(variables', T)
  BY <1>1, <1>2 DEF Sound
<1>4. CASE Throws(r.value)
  <2>1. thrown' \in DivisionErrors \cup {SIGFPE}
    BY <1>1, <1>2, <1>4, SoundCases, FailureThrows
  <2>2. thrown' # ""
    BY <2>1 DEF DivisionErrors, SIGFPE
  <2>. QED
    BY <1>3, <2>1, <2>2 DEF Kept, Excuses
<1>5. CASE ~Throws(r.value)
  BY <1>2, <1>3, <1>5 DEF Kept
<1>. QED
  BY <1>4, <1>5

LEMMA BranchKeeps ==
  ASSUME NEW T, Kept(T), NEW e \in Conditions(T),
         NEW true \in Seq(Items(T)), NEW false \in Seq(Items(T)), Branch(e, true, false)
  PROVE  Kept(T)'
<1> DEFINE r == Evaluate(e, variables)
<1>1. Sound(r, "BOOLEAN", T)
  BY EvaluateSound DEF Kept, Conditions, Condition, Typed
<1>2. /\ variables' = r.vars
      /\ IF Throws(r.value) THEN thrown' = r.value.data /\ todo' = todo
         ELSE IF r.value.type # "BOOLEAN" THEN thrown' = "Value is not a boolean" /\ todo' = todo
         ELSE thrown' = thrown /\ todo' = (IF r.value.data THEN true ELSE false)
  BY DEF Branch
<1> HIDE DEF r
<1>3. Fits(variables', T)
  BY <1>1, <1>2 DEF Sound
<1>4. CASE Throws(r.value)
  <2>1. thrown' \in DivisionErrors \cup {SIGFPE}
    BY <1>1, <1>2, <1>4, SoundCases, FailureThrows
  <2>2. thrown' # ""
    BY <2>1 DEF DivisionErrors, SIGFPE
  <2>. QED
    BY <1>3, <2>1, <2>2 DEF Kept, Excuses
<1>5. CASE ~Throws(r.value)
  <2>1. r.value.type = "BOOLEAN"
    BY <1>1, <1>5, SoundCases
  <2>2. thrown' = thrown /\ todo' \in {true, false}
    BY <1>2, <1>5, <2>1, Zenon
  <2>. QED
    BY <1>3, <2>2 DEF Kept
<1>. QED
  BY <1>4, <1>5

LEMMA ExecuteKeeps ==
  ASSUME NEW T, Kept(T), Execute
  PROVE  Kept(T)'
<1> DEFINE I == Items(T)
           W == WellTypedOf(T)
<1>0. Running
  BY DEF Execute, ExecuteExpression, ExecuteCompound, ExecuteIf, ExecuteWhile, ExecuteDo, ExecuteFor,
         ExecuteLoop, ExecuteWrite, ExecuteRead, Executes
<1>1. todo # <<>>
  BY DEF Execute, ExecuteExpression, ExecuteCompound, ExecuteIf, ExecuteWhile, ExecuteDo, ExecuteFor,
         ExecuteLoop, ExecuteWrite, ExecuteRead, Executes
<1>2. todo \in Seq(I) /\ Stmt \in I /\ Then \in Seq(I)
  BY <1>0, <1>1, Next1 DEF Stmt, Then
<1>3. /\ W \subseteq I /\ Seq(W) \subseteq Seq(I)
      /\ \A x \in I : <<x>> \in Seq(I)
      /\ \A a \in Seq(I), b \in Seq(I) : a \o b \in Seq(I)
  BY ItemsOf, ConcatProperties
<1> HIDE DEF I, W
<1>4. CASE ExecuteExpression
  <2>1. Stmt.expr \in TypedOnes(T) /\ Continue(Stmt.expr, Then)
    BY <1>2, <1>4, ItemParts DEF ExecuteExpression, Executes, Stmt, I
  <2>. QED
    BY <1>2, <2>1, ContinueKeeps DEF I
<1>5. CASE ExecuteCompound
  <2>1. Stmt.stmts \in Seq(W) /\ Jump(Stmt.stmts \o Then)
    BY <1>2, <1>5, ItemParts DEF ExecuteCompound, Executes, Stmt, I, W
  <2>2. Stmt.stmts \o Then \in Seq(I)
    BY <1>2, <1>3, <2>1
  <2>. QED
    BY <2>1, <2>2, JumpKeeps DEF I
<1>6. CASE ExecuteIf
  <2>1. /\ Stmt.cond \in Conditions(T) /\ Stmt.then \in W /\ Stmt.else \in Optional(W)
        /\ Branch(Stmt.cond, <<Stmt.then>> \o Then, Stmt.else \o Then)
    BY <1>2, <1>6, ItemParts DEF ExecuteIf, Executes, Stmt, I, W
  <2>2. Stmt.else \in Seq(W)
    BY <2>1 DEF Optional
  <2>3. <<Stmt.then>> \o Then \in Seq(I) /\ Stmt.else \o Then \in Seq(I)
    BY <1>2, <1>3, <2>1, <2>2
  <2>. QED
    BY <2>1, <2>3, BranchKeeps DEF I
<1>7. ASSUME NEW c \in Conditions(T), NEW b \in W PROVE Loop(<<c>>, b, <<>>) \in I
  <2>1. <<c>> \in Optional(Conditions(T)) /\ <<>> \in Optional(TypedOnes(T))
    BY DEF Optional
  <2>. QED
    BY <2>1, <1>7, ItemsOf DEF I, W
<1>8. CASE ExecuteWhile
  <2>1. /\ Stmt.cond \in Conditions(T) /\ Stmt.body \in W
        /\ Jump(<<Loop(<<Stmt.cond>>, Stmt.body, <<>>)>> \o Then)
    BY <1>2, <1>8, ItemParts DEF ExecuteWhile, Executes, Stmt, I, W
  <2>2. <<Loop(<<Stmt.cond>>, Stmt.body, <<>>)>> \o Then \in Seq(I)
    BY <1>2, <1>3, <1>7, <2>1
  <2>. QED
    BY <2>1, <2>2, JumpKeeps DEF I
<1>9. CASE ExecuteDo
  <2>1. /\ Stmt.cond \in Conditions(T) /\ Stmt.body \in W
        /\ Jump(<<Stmt.body>> \o <<Loop(<<Stmt.cond>>, Stmt.body, <<>>)>> \o Then)
    BY <1>2, <1>9, ItemParts DEF ExecuteDo, DoFirst, Executes, Stmt, I, W
  <2>2. <<Loop(<<Stmt.cond>>, Stmt.body, <<>>)>> \in Seq(I) /\ <<Stmt.body>> \in Seq(I)
    BY <1>3, <1>7, <2>1
  <2>3. <<Stmt.body>> \o <<Loop(<<Stmt.cond>>, Stmt.body, <<>>)>> \o Then \in Seq(I)
    BY <1>2, <1>3, <2>2
  <2>. QED
    BY <2>1, <2>3, JumpKeeps DEF I
<1>10. CASE ExecuteFor
  <2>1. /\ Stmt.init \in Optional(TypedOnes(T)) /\ Stmt.update \in Optional(TypedOnes(T))
        /\ Stmt.cond \in Optional(Conditions(T)) /\ Stmt.body \in W
        /\ Jump(AsStatements(Stmt.init) \o <<Loop(Stmt.cond, Stmt.body, Stmt.update)>> \o Then)
    BY <1>2, <1>10, ItemParts DEF ExecuteFor, Executes, Stmt, I, W
  <2>2. AsStatements(Stmt.init) \in Seq(I)
    BY <2>1, AsStatementsType DEF I
  <2>3. Loop(Stmt.cond, Stmt.body, Stmt.update) \in I
    BY <2>1, ItemsOf DEF I, W
  <2>4. AsStatements(Stmt.init) \o <<Loop(Stmt.cond, Stmt.body, Stmt.update)>> \o Then \in Seq(I)
    BY <1>2, <1>3, <2>2, <2>3
  <2>. QED
    BY <2>1, <2>4, JumpKeeps DEF I
<1>11. CASE ExecuteLoop
  <2> DEFINE again == <<Stmt.body>> \o AsStatements(Stmt.update) \o todo
  <2>1. /\ Stmt.update \in Optional(TypedOnes(T))
        /\ Stmt.cond \in Optional(Conditions(T)) /\ Stmt.body \in W
    BY <1>2, <1>11, ItemParts DEF ExecuteLoop, Executes, Stmt, I, W
  <2>2. again \in Seq(I)
    <3>1. AsStatements(Stmt.update) \in Seq(I) /\ <<Stmt.body>> \in Seq(I)
      BY <1>3, <2>1, AsStatementsType DEF I
    <3>. QED
      BY <1>2, <1>3, <3>1
  <2>3. \/ Jump(again)
        \/ Stmt.cond # <<>> /\ Branch(Stmt.cond[1], again, Then)
    BY <1>11 DEF ExecuteLoop
  <2> HIDE DEF again
  <2>4. CASE Jump(again)
    BY <2>2, <2>4, JumpKeeps DEF I
  <2>5. CASE Stmt.cond # <<>> /\ Branch(Stmt.cond[1], again, Then)
    <3>1. Stmt.cond[1] \in Conditions(T)
      <4>1. Stmt.cond \in Seq(Conditions(T)) /\ Stmt.cond # <<>>
        BY <2>1, <2>5 DEF Optional
      <4>. QED
        BY <4>1
    <3>. QED
      BY <1>2, <2>2, <2>5, <3>1, BranchKeeps DEF I
  <2>. QED
    BY <2>3, <2>4, <2>5
<1>12. CASE ExecuteWrite
  <2>1. /\ Stmt.exprs \in Seq(TypedOnes(T))
        /\ \A es : [Stmt EXCEPT !.exprs = es] = [kind |-> "write", exprs |-> es]
    BY <1>2, <1>12, ItemParts DEF ExecuteWrite, Executes, Stmt, I
  <2>2. CASE Jump(Then)
    BY <1>2, <2>2, JumpKeeps DEF I
  <2>3. CASE Stmt.exprs # <<>>
             /\ Continue(Head(Stmt.exprs), <<[Stmt EXCEPT !.exprs = Tail(@)]>> \o Then)
    <3>1. Head(Stmt.exprs) \in TypedOnes(T) /\ Tail(Stmt.exprs) \in Seq(TypedOnes(T))
      BY <2>1, <2>3, HeadTailProperties
    <3>2. [Stmt EXCEPT !.exprs = Tail(@)] = [kind |-> "write", exprs |-> Tail(Stmt.exprs)]
      BY <2>1
    <3>3. [Stmt EXCEPT !.exprs = Tail(@)] \in I
      BY <3>1, <3>2, ItemsOf DEF I
    <3>4. <<[Stmt EXCEPT !.exprs = Tail(@)]>> \o Then \in Seq(I)
      BY <1>2, <1>3, <3>3
    <3>. QED
      BY <2>3, <3>1, <3>4, ContinueKeeps DEF I
  <2>. QED
    BY <1>12, <2>2, <2>3 DEF ExecuteWrite
<1>13. ASSUME NEW given \in Inputs, ExecuteRead(given) PROVE Kept(T)'
  <2> DEFINE current == GetVariable(Stmt.name, variables)
             v == Converted(given, current.type)
  <2>1. Stmt.name \in DOMAIN T
    BY <1>2, <1>13, ItemParts DEF ExecuteRead, Executes, Stmt, I
  <2>2. /\ Fits(variables, T) /\ thrown \in Excuses
        /\ current = variables[Stmt.name] /\ current \in Values /\ current.type = T[Stmt.name]
    BY <2>1 DEF Kept, Fits, GetVariable
  <2>3. ~Throws(current)
    BY <2>2, ValueHas
  <2>4. IF Throws(v) THEN thrown' = v.data /\ variables' = variables /\ todo' = todo
        ELSE variables' = [variables EXCEPT ![Stmt.name] = v] /\ todo' = Then /\ thrown' = thrown
    BY <1>13, <2>3 DEF ExecuteRead
  <2>5. IsOf(v, current.type) \/ v = Throw("Invalid input")
    <3>1. CASE current.type = "STRING"
      <4>1. v = Val("STRING", given.text) /\ given.text \in Strings
        BY <1>13, <3>1, SurroundingsAssumption DEF Converted, Str
      <4>. QED
        BY <3>1, <4>1, ValueIs
    <3>2. CASE current.type # "STRING" /\ current.type \in DOMAIN given.means
      <4>1. v = Val(current.type, given.means[current.type]) /\ v \in Values
        BY <1>13, <3>2, SurroundingsAssumption DEF Converted
      <4> HIDE DEF v, current
      <4>2. v.type = current.type
        BY <4>1 DEF Val
      <4>. QED
        BY <4>1, <4>2 DEF IsOf
    <3>3. CASE current.type # "STRING" /\ current.type \notin DOMAIN given.means
      BY <3>3 DEF Converted
    <3>. QED
      BY <3>1, <3>2, <3>3
  <2> HIDE DEF v, current
  <2>6. CASE v = Throw("Invalid input")
    <3>1. Throws(v) /\ v.data = "Invalid input"
      BY <2>6 DEF Throw, Throws
    <3>. QED
      BY <2>2, <2>4, <3>1 DEF Kept, Excuses
  <2>7. CASE IsOf(v, current.type)
    <3>1. ~Throws(v) /\ v \in Values /\ v.type = T[Stmt.name]
      BY <2>2, <2>7, ValueHas DEF IsOf
    <3>2. Fits([variables EXCEPT ![Stmt.name] = v], T)
      BY <2>1, <2>2, <3>1 DEF Fits
    <3>. QED
      BY <1>2, <2>2, <2>4, <3>1, <3>2 DEF Kept, I
  <2>. QED
    BY <2>5, <2>6, <2>7
<1>. QED
  BY <1>4, <1>5, <1>6, <1>8, <1>9, <1>10, <1>11, <1>12, <1>13 DEF Execute

-----------------------------------------------------------------------------
(* The inductive invariant: the variables are those of the first declarations, *)
(* with their types, and what is left to do is well-typed.                     *)
KeptTypes(p) ==
  /\ program = p
  /\ declared \in 0 .. Len(p.decls)
  /\ WellTyped(p) =>
       /\ \E n \in 0 .. Len(p.decls) :
            Fits(variables, DeclaredTypes(p, n)) /\ (thrown = "" => n = declared)
       /\ thrown \in Excuses
       /\ thrown = "" => todo \in Seq(Items(DeclaredTypes(p, Len(p.decls))))
Soundness == \E p \in Programs : KeptTypes(p)

LEMMA SoundnessInitially == ProgramInit => Soundness
<1>1. SUFFICES ASSUME ProgramInit PROVE KeptTypes(program)
  BY DEF Soundness, ProgramInit
<1>2. thrown = ""
  BY <1>1, Zenon DEF ProgramInit
<1>3. program \in Programs /\ declared = 0 /\ variables = <<>> /\ todo = program.stmts
  BY <1>1, Zenon DEF ProgramInit
<1>4. 0 \in 0 .. Len(program.decls)
  BY <1>3, ProgramIs
<1>4a. Fits(variables, DeclaredTypes(program, 0))
  BY <1>3, NoneDeclared DEF Fits
<1>5. thrown \in Excuses
  BY <1>2 DEF Excuses
<1>6. ASSUME WellTyped(program)
      PROVE  todo \in Seq(Items(DeclaredTypes(program, Len(program.decls))))
  BY <1>3, <1>6, ItemsOf DEF WellTyped, WellTypedOf
<1>. QED
  BY <1>2, <1>3, <1>4, <1>4a, <1>5, <1>6, Zenon DEF KeptTypes

LEMMA DeclareKeeps ==
  ASSUME NEW p \in Programs, KeptTypes(p), Declare
  PROVE  KeptTypes(p)'
<1> DEFINE d == p.decls[declared + 1]
           r == Initial(d)
           T == DeclaredTypes(p, declared)
           U == DeclaredTypes(p, declared + 1)
<1>0. thrown = ""
  BY Zenon DEF Declare, Running
<1>1. /\ program = p /\ program' = p /\ todo' = todo /\ declared' = declared + 1
      /\ declared \in 0 .. Len(p.decls) /\ declared # Len(p.decls)
  BY Zenon DEF Declare, Declared, KeptTypes
<1>1a. /\ declared \in Nat /\ declared < Len(p.decls) /\ declared + 1 \in 0 .. Len(p.decls)
  BY <1>1, ProgramIs
<1>2. SUFFICES ASSUME WellTyped(p)
               PROVE  /\ \E n \in 0 .. Len(p.decls) :
                           Fits(variables', DeclaredTypes(p, n)) /\ (thrown' = "" => n = declared + 1)
                      /\ thrown' \in Excuses
  <2>1. program' = p /\ declared' \in 0 .. Len(p.decls)
    BY <1>1, <1>1a
  <2>2. ASSUME WellTyped(p) PROVE thrown' = "" => todo' \in Seq(Items(DeclaredTypes(p, Len(p.decls))))
    BY <1>0, <1>1, <2>2, Zenon DEF KeptTypes
  <2>. QED
    BY <1>1, <2>1, <2>2, Zenon DEF KeptTypes
<1>3. Fits(variables, T)
  BY <1>0, <1>2, Zenon DEF KeptTypes
<1>4. Sound(r, d.type, T)
  BY <1>1a, <1>2, <1>3, InitialSound
<1>5. d.name \notin DOMAIN T /\ DOMAIN U = DOMAIN T \cup {d.name} /\ U[d.name] = d.type
      /\ \A x \in DOMAIN T : U[x] = T[x]
  BY <1>1a, <1>2, DeclaredNext
<1>6. IF Throws(r.value) THEN thrown' = r.value.data /\ variables' = r.vars
      ELSE IF d.name \in DOMAIN r.vars
        THEN thrown' = "Variable already declared" /\ variables' = r.vars
      ELSE /\ thrown' = thrown
           /\ variables' = [x \in DOMAIN r.vars \cup {d.name} |->
                              IF x = d.name THEN r.value ELSE r.vars[x]]
  BY DEF Declare, KeptTypes
<1> HIDE DEF d, r, T, U
<1>7. CASE Throws(r.value)
  <2>1. thrown' \in DivisionErrors \cup {SIGFPE} /\ Fits(variables', T)
    BY <1>4, <1>6, <1>7, SoundCases, FailureThrows
  <2>2. thrown' # "" /\ thrown' \in Excuses
    BY <2>1 DEF Excuses, DivisionErrors, SIGFPE
  <2>. QED
    BY <1>1, <2>1, <2>2 DEF T
<1>8. CASE ~Throws(r.value)
  <2>1. r.value \in Values /\ r.value.type = d.type /\ Fits(r.vars, T)
    BY <1>4, <1>8, SoundCases
  <2>2. DOMAIN r.vars = DOMAIN T
    BY <2>1 DEF Fits
  <2>3. thrown' = "" /\ variables' = [x \in DOMAIN U |-> IF x = d.name THEN r.value ELSE r.vars[x]]
    BY <1>0, <1>5, <1>6, <1>8, <2>2, Zenon
  <2>4. Fits(variables', U)
    <3>1. \A x \in DOMAIN U : variables'[x] \in Values /\ variables'[x].type = U[x]
      BY <1>5, <2>1, <2>3 DEF Fits
    <3>. QED
      BY <2>3, <3>1 DEF Fits
  <2>. QED
    BY <1>1a, <2>3, <2>4 DEF Excuses, U
<1>. QED
  BY <1>7, <1>8

LEMMA SoundnessInductive == Soundness /\ [ProgramNext]_programVars => Soundness'
<1>1. SUFFICES ASSUME NEW p \in Programs, KeptTypes(p), [ProgramNext]_programVars PROVE KeptTypes(p)'
  BY DEF Soundness
<1>2. CASE Declare
  BY <1>1, <1>2, DeclareKeeps
<1>3. CASE Execute
  <2> DEFINE T == DeclaredTypes(p, Len(p.decls))
  <2>1. /\ Running /\ Declared /\ program' = program /\ declared' = declared
    BY <1>3 DEF Execute, ExecuteExpression, ExecuteCompound, ExecuteIf, ExecuteWhile, ExecuteDo,
                ExecuteFor, ExecuteLoop, ExecuteWrite, ExecuteRead, Executes, Jump, Continue, Branch
  <2>2. thrown = "" /\ program = p /\ declared = Len(p.decls) /\ declared \in 0 .. Len(p.decls)
    BY <1>1, <2>1 DEF Running, Declared, KeptTypes
  <2>3. ASSUME WellTyped(p) PROVE Kept(T)
    BY <1>1, <2>2, <2>3 DEF KeptTypes, Kept
  <2>4. ASSUME WellTyped(p) PROVE Kept(T)'
    <3> HIDE DEF T
    <3>. QED
      BY <1>3, <2>3, <2>4, ExecuteKeeps
  <2>. QED
    BY <2>1, <2>2, <2>4 DEF KeptTypes, Kept
<1>4. CASE Respond
  BY <1>1, <1>4 DEF Respond, KeptTypes
<1>5. CASE UNCHANGED programVars
  BY <1>1, <1>5 DEF programVars, KeptTypes
<1>. QED
  BY <1>1, <1>2, <1>3, <1>4, <1>5 DEF ProgramNext

LEMMA SoundAlways == ProgramSpec => []Soundness
BY SoundnessInitially, SoundnessInductive, PTL DEF ProgramSpec

(* The variables of a well-typed program keep the types they are declared with *)
(* (WellTypedKeepsTypes), which Scope::setVariable() does not see to.           *)
THEOREM TypesKept == ProgramSpec => []WellTypedKeepsTypes
<1>1. Soundness => WellTypedKeepsTypes
  <2>1. SUFFICES ASSUME NEW p \in Programs, KeptTypes(p), WellTyped(p), NEW x \in DOMAIN variables
                 PROVE  /\ variables[x].type = DeclaredTypes(p, Len(p.decls))[x]
                        /\ variables[x].type = "INT" => variables[x].data \in MinInt .. MaxInt
    BY DEF Soundness, WellTypedKeepsTypes, KeptTypes
  <2>2. PICK n \in 0 .. Len(p.decls) : Fits(variables, DeclaredTypes(p, n))
    BY <2>1 DEF KeptTypes
  <2>3. /\ x \in DOMAIN DeclaredTypes(p, n) /\ variables[x] \in Values
        /\ variables[x].type = DeclaredTypes(p, n)[x]
    BY <2>1, <2>2 DEF Fits
  <2>. QED
    BY <2>3, DeclaredIn, ValueHas
<1>. QED
  BY <1>1, SoundAlways, PTL

(* A well-typed program ends of itself for no other reason than its input, a    *)
(* division or the remainder that traps (WellTypedNeverFails).                 *)
THEOREM NeverFails == ProgramSpec => []WellTypedNeverFails
<1>1. Soundness => WellTypedNeverFails
  BY DEF Soundness, KeptTypes, WellTypedNeverFails, Excuses
<1>. QED
  BY <1>1, SoundAlways, PTL

=============================================================================
