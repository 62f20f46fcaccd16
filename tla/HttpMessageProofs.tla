-------------------------- MODULE HttpMessageProofs --------------------------
(***************************************************************************)
(* What HttpMessage's constructor makes of texts of any length over any words, *)
(* and what toString() makes of the message.                                 *)
(***************************************************************************)
EXTENDS HttpMessage, SequenceLemmas, FiniteSetTheorems, TLAPS

(* Where the stream is in the text.                                           *)
At(k) == k \in 0 .. Len(text.lines) /\ rest = SubSeq(text.lines, k + 1, Len(text.lines))

(* A good stream at the end has read a newline; one that is not good is there. *)
Stream == /\ good \in BOOLEAN
          /\ good /\ rest = <<>> => text.closed
          /\ ~good => rest = <<>>

Reading == text \in Text /\ rest \in Seq(Line) /\ (pc # "done" => Stream)

-----------------------------------------------------------------------------

LEMMA TextType ==
  ASSUME NEW t \in Text
  PROVE  t.lines \in Seq(Line) /\ t.closed \in BOOLEAN /\ (t.lines = <<>> => t.closed)
<1>1. t \in [lines : SeqOf(Line, MaxLines), closed : BOOLEAN] /\ (t.lines = <<>> => t.closed)
  BY DEF Text
<1>2. PICK m \in 0 .. MaxLines : t.lines \in [1 .. m -> Line]
  BY <1>1 DEF SeqOf
<1>3. m \in Nat
  BY <1>2, BoundAssumption
<1>4. t.lines \in UNION {[1 .. n -> Line] : n \in Nat}
  BY <1>2, <1>3
<1>5. t.lines \in Seq(Line)
  BY <1>4, SeqDef, Zenon
<1>6. t.closed \in BOOLEAN
  BY <1>1
<1> QED
  BY <1>1, <1>5, <1>6

LEMMA LineType ==
  ASSUME NEW l \in Line
  PROVE  /\ Len(l.words) \in Nat /\ (l.words = <<>> <=> Len(l.words) = 0)
         /\ \A i \in 1 .. Len(l.words) : l.words[i] \in Words
<1>1. PICK m \in 0 .. MaxWords : l.words \in [1 .. m -> Words]
  BY DEF Line, SeqOf
<1>2. m \in Nat
  BY <1>1, BoundAssumption
<1>3. l.words \in Seq(Words) /\ Len(l.words) = m
  BY <1>1, <1>2
<1>. QED
  BY <1>1, <1>2, <1>3, EmptySeq

(* What is left of lines s behind position k.                                 *)
LEMMA Remaining ==
  ASSUME NEW s \in Seq(Line), NEW k \in 0 .. Len(s)
  PROVE  /\ SubSeq(s, k + 1, Len(s)) = <<>> <=> k = Len(s)
         /\ k < Len(s) => /\ Head(SubSeq(s, k + 1, Len(s))) = s[k + 1]
                          /\ Tail(SubSeq(s, k + 1, Len(s))) = SubSeq(s, k + 2, Len(s))
                          /\ Len(SubSeq(s, k + 1, Len(s))) = Len(s) - k
<1> DEFINE r == SubSeq(s, k + 1, Len(s))
<1>1. r \in Seq(Line) /\ Len(r) = Len(s) - k
  OBVIOUS
<1>2. r = <<>> <=> k = Len(s)
  <2> HIDE DEF r
  <2>1. Len(s) \in Nat /\ (r = <<>> <=> Len(r) = 0)
    BY <1>1, EmptySeq
  <2> QED
    BY <1>1, <2>1
<1>3. ASSUME k < Len(s)
      PROVE  Head(r) = s[k + 1] /\ Tail(r) = SubSeq(s, k + 2, Len(s))
  <2>1. k + 1 \in 1 .. Len(s) /\ Len(s) \in k + 1 .. Len(s) /\ (k + 1) + 1 = k + 2
    BY <1>3
  <2>2. Head(r) = s[k + 1] /\ Tail(r) = SubSeq(s, (k + 1) + 1, Len(s))
    BY <2>1, HeadTailOfSubSeq
  <2> QED
    BY <2>1, <2>2
<1> QED
  BY <1>1, <1>2, <1>3

-----------------------------------------------------------------------------

(* getline() leaves a stream as it finds it: whether it is good says whether    *)
(* there is anything left of it.                                             *)
LEMMA GetlineStep ==
  ASSUME Reading, text' = text, Stream, Getline
  PROVE  rest' \in Seq(Line) /\ Stream'
<1>1. rest \in Seq(Line) /\ text.closed \in BOOLEAN
  BY TextType DEF Reading
<1>2. CASE ~(good /\ rest # <<>>)
  BY <1>1, <1>2 DEF Getline, Stream
<1>3. CASE good /\ rest # <<>>
  <2>1. /\ Len(rest) \in Nat /\ Len(rest) >= 1 /\ Tail(rest) \in Seq(Line)
        /\ Len(Tail(rest)) = Len(rest) - 1
    BY <1>1, <1>3, EmptySeq, HeadTailProperties, LenProperties
  <2>2. Tail(rest) = <<>> <=> Len(rest) = 1
    BY <2>1, EmptySeq
  <2>3. rest' = Tail(rest) /\ good' = (Len(rest) > 1 \/ text.closed)
    BY <1>3 DEF Getline
  <2>. QED
    BY <1>1, <2>1, <2>2, <2>3 DEF Stream
<1>. QED
  BY <1>2, <1>3

LEMMA ReadingAtFirst == Init => Reading
<1>1. SUFFICES ASSUME Init PROVE Reading
  OBVIOUS
<1>2. text \in Text /\ rest = text.lines /\ good = TRUE
  BY <1>1 DEF Init
<1>. QED
  BY <1>2, TextType DEF Reading, Stream

LEMMA ReadingInductive == Reading /\ [Next]_vars => Reading'
<1>1. SUFFICES ASSUME Reading, [Next]_vars PROVE Reading'
  OBVIOUS
<1>2. CASE ReadTitle \/ ReadFirst \/ NextLine
  <2>1. Getline /\ text' = text /\ pc # "done"
    BY <1>2 DEF ReadTitle, ReadFirst, NextLine
  <2>. QED
    BY <1>1, <2>1, GetlineStep DEF Reading
<1>3. CASE Header \/ LoopEnds \/ UNCHANGED vars
  BY <1>1, <1>3 DEF Header, LoopEnds, vars, Reading, Stream
<1>4. CASE ReadBody
  BY <1>1, <1>4, EmptySeq DEF ReadBody, Reading
<1>. QED
  BY <1>1, <1>2, <1>3, <1>4 DEF Next

-----------------------------------------------------------------------------
(* Where the header ends.                                                    *)

(* The lines from the second to the m-th of t are lines of its header.         *)
Long(t, m) == \A i \in 2 .. m : ~Short(t.lines[i])

LEMMA LongHeader ==
  ASSUME NEW t, Len(t.lines) \in Nat, NEW m \in Nat, m <= Len(t.lines), Long(t, m)
  PROVE  /\ m < HeaderEnd(t) /\ HeaderEnd(t) \in Nat
         /\ m = Len(t.lines) => HeaderEnd(t) = m + 1 /\ Separators(t) = {}
         /\ m < Len(t.lines) /\ m >= 1 /\ Short(t.lines[m + 1]) => HeaderEnd(t) = m + 1
<1> DEFINE S == Separators(t)
<1>1. Len(t.lines) \in Nat
  OBVIOUS
<1>2. /\ S \in SUBSET Nat
      /\ \A i \in S : i \in 2 .. Len(t.lines) /\ Short(t.lines[i])
      /\ \A i \in 2 .. Len(t.lines) : Short(t.lines[i]) => i \in S
  BY <1>1 DEF Separators
<1> HIDE DEF S
<1>3. \A i \in S : i > m
  BY <1>1, <1>2 DEF Long
<1>4. CASE S = {}
  <2>1. HeaderEnd(t) = Len(t.lines) + 1
    BY <1>4 DEF HeaderEnd, S
  <2>2. ~(m < Len(t.lines) /\ m >= 1 /\ Short(t.lines[m + 1]))
    BY <1>1, <1>2, <1>4
  <2>. QED
    BY <1>1, <1>4, <2>1, <2>2 DEF S
<1>5. CASE S # {}
  <2>1. HeaderEnd(t) = Min(S)
    BY <1>5 DEF HeaderEnd, S
  <2>2. \E x \in S : \A y \in S : x <= y
    BY <1>2, <1>5, LeastNumber
  <2>3. Min(S) \in S /\ \A y \in S : Min(S) <= y
    BY <2>2 DEF Min
  <2> DEFINE e == Min(S)
  <2>4. e \in S /\ \A y \in S : e <= y
    BY <2>3
  <2> HIDE DEF e
  <2>5. e \in Nat /\ e > m /\ e <= Len(t.lines)
    BY <1>1, <1>2, <1>3, <2>4
  <2>6. m < Len(t.lines) /\ m >= 1 /\ Short(t.lines[m + 1]) => e = m + 1
    <3>1. SUFFICES ASSUME m < Len(t.lines), m >= 1, Short(t.lines[m + 1]) PROVE e = m + 1
      OBVIOUS
    <3>2. m + 1 \in S
      BY <1>1, <1>2, <3>1
    <3>3. e <= m + 1
      BY <2>4, <3>2
    <3>. QED
      BY <2>5, <3>3
  <2>7. m # Len(t.lines)
    BY <1>1, <2>5
  <2>. QED
    BY <2>1, <2>5, <2>6, <2>7 DEF e
<1>. QED
  BY <1>4, <1>5

-----------------------------------------------------------------------------
(* What the first m lines of t mean, the title apart.                         *)
Rows(t, m) ==
  [n \in {NameOf(t, i) : i \in 2 .. m} |->
     ValueOf(t, Max({i \in 2 .. m : NameOf(t, i) = n}))]

LEMMA NoRows ==
  ASSUME NEW t
  PROVE  Rows(t, 1) = <<>>
<1>1. {NameOf(t, i) : i \in 2 .. 1} = {}
  OBVIOUS
<1>2. Rows(t, 1) = [n \in {} |-> ValueOf(t, Max({i \in 2 .. 1 : NameOf(t, i) = n}))]
  BY <1>1 DEF Rows
<1>. QED
  BY <1>2

(* A line of the header sets the name that it has to its value.               *)
LEMMA NextRow ==
  ASSUME NEW t, NEW m \in Nat, m >= 2, headers = Rows(t, m - 1)
  PROVE  SetHeader(NameOf(t, m), ValueOf(t, m)) = Rows(t, m)
<1> DEFINE N == NameOf(t, m)
           Named(k) == {NameOf(t, i) : i \in 2 .. k}
           With(k, n) == {i \in 2 .. k : NameOf(t, i) = n}
           v == ValueOf(t, m)
<1>1. 2 .. m = (2 .. m - 1) \cup {m} /\ m \notin 2 .. m - 1
  OBVIOUS
<1>2. Named(m) = Named(m - 1) \cup {N}
  BY <1>1
<1>3. DOMAIN headers = Named(m - 1)
  BY DEF Rows
<1>4. Max(With(m, N)) = m
  <2>1. m \in With(m, N) /\ \A y \in With(m, N) : m >= y /\ y \in Nat
    BY <1>1
  <2> HIDE DEF With
  <2>2. \A x \in With(m, N) : (\A y \in With(m, N) : x >= y) => x = m
    BY <2>1
  <2>. QED
    BY <2>1, <2>2 DEF Max
<1>5. ASSUME NEW n \in Named(m - 1), n # N
      PROVE  With(m, n) = With(m - 1, n)
  BY <1>1, <1>5
<1>6. ASSUME NEW n \in Named(m - 1)
      PROVE  headers[n] = ValueOf(t, Max(With(m - 1, n)))
  BY DEF Rows
<1>7. SetHeader(N, v) = [n \in Named(m - 1) \cup {N} |-> IF n = N THEN v ELSE headers[n]]
  BY <1>3 DEF SetHeader
<1>8. ASSUME NEW n \in Named(m - 1) \cup {N}
      PROVE  (IF n = N THEN v ELSE headers[n]) = ValueOf(t, Max(With(m, n)))
  <2> HIDE DEF With, Named, N
  <2>. QED
    BY <1>4, <1>5, <1>6
<1>9. Rows(t, m) = [n \in Named(m) |-> ValueOf(t, Max(With(m, n)))]
  BY DEF Rows
<1>10. SetHeader(N, v) = Rows(t, m)
  <2> HIDE DEF With, Named, N, v
  <2>. QED
    BY <1>2, <1>7, <1>8, <1>9
<1>. QED
  BY <1>10

(* A name is the first word without its last character, which is the colon.    *)
LEMMA NameIsFront ==
  ASSUME NEW t, NEW i, Names(t.lines[i])
  PROVE  NameOf(t, i) = Front(t.lines[i].words[1])
<1> DEFINE w == t.lines[i].words[1]
<1>1. ColonsOf(w) = {Len(w)}
  BY DEF Names
<1>2. Min({Len(w)}) = Len(w)
  BY DEF Min
<1>. QED
  BY <1>1, <1>2 DEF NameOf, Front

-----------------------------------------------------------------------------
(* What the constructor has made of a well-formed text.                       *)

(* line is the k-th, and the stream is good if something follows it.           *)
OnLine(k) ==
  /\ k >= 1 /\ k <= Len(text.lines) /\ line = text.lines[k]
  /\ good = (k < Len(text.lines) \/ text.closed)

(* There has been no line to read: line is empty, or the title still.          *)
OffLines ==
  /\ ~good
  /\ line = EmptyLine \/ (Len(text.lines) = 1 /\ line = text.lines[1] /\ ~text.closed)

(* m lines, the title among them, have been made use of.                      *)
Used(m) ==
  /\ Long(text, m) /\ headers = Rows(text, m) /\ title = text.lines[1]
  /\ (\A i \in 2 .. m : ~HasValue(text.lines[i])) => h_body = <<>>

Meant ==
  WellFormed(text) =>
    /\ pc = "title" => At(0) /\ good /\ headers = <<>> /\ h_body = <<>>
    /\ pc = "first" => /\ At(1) /\ OnLine(1) /\ headers = <<>> /\ title = text.lines[1]
                       /\ h_body = <<>>
    /\ pc = "loop" => \E m \in Nat :
         /\ m >= 1 /\ Used(m)
         /\ \/ At(m + 1) /\ OnLine(m + 1)
            \/ At(m) /\ m = Len(text.lines) /\ OffLines
    /\ pc = "next" => \E m \in Nat : m >= 2 /\ Used(m) /\ At(m) /\ OnLine(m)
    /\ pc = "body" =>
         /\ headers = Rows(text, HeaderEnd(text) - 1) /\ title = text.lines[1]
         /\ IF HeaderEnd(text) < Len(text.lines)
              THEN good /\ rest = SubSeq(text.lines, HeaderEnd(text) + 1, Len(text.lines))
              ELSE good => rest = <<>> /\ text.closed
    /\ MeansText

LEMMA MeantAtFirst == Init => Meant
<1>1. SUFFICES ASSUME Init PROVE Meant
  OBVIOUS
<1>2. /\ text \in Text /\ rest = text.lines /\ good = TRUE /\ pc = "title" /\ headers = <<>>
      /\ h_body = <<>>
  BY <1>1 DEF Init
<1>3. text.lines \in Seq(Line)
  BY <1>2, TextType
<1>4. At(0)
  BY <1>2, <1>3, SubSeqFull DEF At
<1>. QED
  BY <1>2, <1>4 DEF Meant, MeansText

(* getline() on a line takes the next one, if there is one.                    *)
LEMMA GetlineOn ==
  ASSUME text \in Text, text' = text, Stream, Getline, NEW k \in Nat, At(k),
         k = 0 => good /\ Len(text.lines) > 0,
         k # 0 => OnLine(k)
  PROVE  IF k < Len(text.lines) THEN At(k + 1)' /\ OnLine(k + 1)'
         ELSE /\ At(k)' /\ good' = FALSE
              /\ line' = IF good THEN EmptyLine ELSE line
<1> DEFINE s == text.lines
<1>1. s \in Seq(Line) /\ text.closed \in BOOLEAN /\ k \in 0 .. Len(s) /\ Len(s) \in Nat
  BY TextType DEF At
<1>2. /\ rest = SubSeq(s, k + 1, Len(s))
      /\ rest = <<>> <=> k = Len(s)
      /\ k < Len(s) => /\ Head(rest) = s[k + 1] /\ Tail(rest) = SubSeq(s, k + 2, Len(s))
                       /\ Len(rest) = Len(s) - k
  <2>1. rest = SubSeq(s, k + 1, Len(s))
    BY DEF At
  <2> HIDE DEF s
  <2>. QED
    BY <1>1, <2>1, Remaining
<1>3. CASE k < Len(s)
  <2>1. good /\ rest # <<>>
    <3>1. rest # <<>>
      BY <1>1, <1>2, <1>3
    <3>2. k # 0 => good = (k < Len(text.lines) \/ text.closed)
      BY DEF OnLine
    <3>. QED
      BY <1>3, <3>1, <3>2
  <2>2. line' = s[k + 1] /\ rest' = SubSeq(s, (k + 1) + 1, Len(s))
    <3>1. k + 2 = (k + 1) + 1
      OBVIOUS
    <3>. QED
      BY <1>2, <1>3, <2>1, <3>1 DEF Getline
  <2>3. good' = (k + 1 < Len(s) \/ text.closed)
    BY <1>1, <1>2, <1>3, <2>1 DEF Getline
  <2>4. k + 1 \in 0 .. Len(s) /\ k + 1 >= 1 /\ k + 1 <= Len(s)
    BY <1>1, <1>3
  <2>. QED
    BY <1>3, <2>2, <2>3, <2>4 DEF At, OnLine
<1>4. CASE ~(k < Len(s))
  <2>1. k = Len(s) /\ rest = <<>>
    BY <1>1, <1>2, <1>4
  <2>2. rest' = rest /\ good' = FALSE /\ line' = IF good THEN EmptyLine ELSE line
    BY <2>1 DEF Getline, Stream
  <2>. QED
    BY <1>1, <1>2, <1>4, <2>1, <2>2 DEF At
<1>. QED
  BY <1>3, <1>4

LEMMA MeantTitle ==
  ASSUME Reading, Meant, ReadTitle
  PROVE  Meant'
<1>1. /\ Getline /\ text' = text /\ pc = "title" /\ pc' = "first" /\ text \in Text /\ Stream
      /\ headers' = headers /\ h_body' = h_body /\ title' = line'
  BY DEF ReadTitle, Reading
<1>2. SUFFICES ASSUME WellFormed(text)
               PROVE  (/\ At(1) /\ OnLine(1) /\ headers = <<>> /\ title = text.lines[1]
                       /\ h_body = <<>>)'
  BY <1>1 DEF Meant, MeansText
<1>3. At(0) /\ good /\ headers = <<>> /\ h_body = <<>>
  BY <1>1, <1>2 DEF Meant
<1>4. Len(text.lines) > 0
  BY <1>1, <1>2, TextType, EmptySeq, LenProperties DEF WellFormed
<1>5. At(0 + 1)' /\ OnLine(0 + 1)'
  BY <1>1, <1>3, <1>4, GetlineOn
<1>6. 0 + 1 = 1
  OBVIOUS
<1>7. At(1)' /\ OnLine(1)'
  BY <1>5, <1>6
<1>. QED
  BY <1>1, <1>3, <1>7 DEF OnLine

(* After the m-th line, another one or none.                                  *)
LEMMA MeantLine ==
  ASSUME Reading, Meant, ReadFirst \/ NextLine
  PROVE  Meant'
<1>1. /\ Getline /\ text' = text /\ pc \in {"first", "next"} /\ pc' = "loop"
      /\ text \in Text /\ Stream /\ headers' = headers /\ title' = title /\ h_body' = h_body
  BY DEF ReadFirst, NextLine, Reading
<1>2. SUFFICES ASSUME WellFormed(text)
               PROVE  (\E m \in Nat :
                         /\ m >= 1 /\ Used(m)
                         /\ \/ At(m + 1) /\ OnLine(m + 1)
                            \/ At(m) /\ m = Len(text.lines) /\ OffLines)'
  BY <1>1 DEF Meant, MeansText
<1>3. PICK m \in Nat : m >= 1 /\ Used(m) /\ At(m) /\ OnLine(m)
  <2>1. CASE pc = "first"
    <3>1. At(1) /\ OnLine(1) /\ headers = <<>> /\ title = text.lines[1] /\ h_body = <<>>
      BY <1>2, <2>1 DEF Meant
    <3>2. Used(1)
      BY <3>1, NoRows DEF Used, Long
    <3>. QED
      BY <3>1, <3>2
  <2>2. CASE pc = "next"
    BY <1>2, <2>2 DEF Meant
  <2>. QED
    BY <1>1, <2>1, <2>2
<1>4. Used(m)'
  BY <1>1, <1>3 DEF Used, Rows, Long
<1>5. IF m < Len(text.lines) THEN At(m + 1)' /\ OnLine(m + 1)'
      ELSE At(m)' /\ good' = FALSE /\ line' = IF good THEN EmptyLine ELSE line
  <2>1. m # 0
    BY <1>3
  <2>. QED
    BY <1>1, <1>3, <2>1, GetlineOn
<1>6. CASE m < Len(text.lines)
  BY <1>3, <1>4, <1>5, <1>6
<1>7. CASE ~(m < Len(text.lines))
  <2>1. Len(text.lines) \in Nat
    BY <1>1, TextType
  <2>2. m = Len(text.lines)
    BY <1>3, <1>7, <2>1 DEF OnLine
  <2>3. ~good => m = 1 /\ line = text.lines[1] /\ ~text.closed
    <3>1. SUFFICES ASSUME ~good PROVE m = 1 /\ ~text.closed
      BY <1>3 DEF OnLine
    <3>2. ~text.closed
      BY <1>3, <3>1 DEF OnLine
    <3>3. Separators(text) = {}
      BY <1>1, <1>3, <2>1, <2>2, LongHeader DEF Used
    <3>. QED
      BY <1>2, <2>2, <3>2, <3>3 DEF WellFormed, HasEnd
  <2>4. OffLines'
    BY <1>1, <1>5, <1>7, <2>2, <2>3 DEF OffLines
  <2>. QED
    BY <1>1, <1>3, <1>4, <1>5, <1>7, <2>2, <2>4
<1>. QED
  BY <1>6, <1>7

(* A line that is long is one of the header, and has a name and a value.       *)
LEMMA MeantHeader ==
  ASSUME Reading, Meant, Header
  PROVE  Meant'
<1>1. /\ text' = text /\ rest' = rest /\ good' = good /\ line' = line /\ title' = title
      /\ pc = "loop" /\ pc' \in {"undefined", "next"} /\ text \in Text /\ IsHeader(line)
  BY DEF Header, Reading
<1>2. SUFFICES ASSUME WellFormed(text), pc' = "next"
               PROVE  (\E m \in Nat : m >= 2 /\ Used(m) /\ At(m) /\ OnLine(m))'
  BY <1>1 DEF Meant, MeansText
<1>3. PICK m \in Nat : /\ m >= 1 /\ Used(m)
                       /\ \/ At(m + 1) /\ OnLine(m + 1)
                          \/ At(m) /\ m = Len(text.lines) /\ OffLines
  BY <1>1, <1>2 DEF Meant
<1>4. Len(text.lines) \in Nat
  BY <1>1, TextType
<1>5. At(m + 1) /\ OnLine(m + 1)
  <2>1. SUFFICES ASSUME m = Len(text.lines), OffLines PROVE FALSE
    BY <1>3
  <2>2. LineSize(EmptyLine) = 0
    BY DEF LineSize, EmptyLine
  <2>3. line = text.lines[1] /\ m = 1 /\ ~text.closed
    BY <1>1, <2>1, <2>2 DEF OffLines, IsHeader
  <2>4. Separators(text) = {}
    BY <1>1, <1>3, <1>4, <2>1, LongHeader DEF Used
  <2>5. ~Short(text.lines[1])
    BY <1>1, <2>3 DEF IsHeader, Short
  <2>. QED
    BY <1>2, <2>3, <2>4, <2>5 DEF WellFormed, HasEnd
<1> DEFINE k == m + 1
<1>6. k \in Nat /\ k >= 2 /\ k - 1 = m /\ k <= Len(text.lines) /\ line = text.lines[k]
  BY <1>3, <1>5 DEF OnLine
<1> HIDE DEF k
<1>7. Long(text, k)
  <2>1. ~Short(text.lines[k])
    BY <1>1, <1>6 DEF IsHeader, Short
  <2>2. \A i \in 2 .. k : i \in 2 .. m \/ i = k
    BY <1>6
  <2>. QED
    BY <1>3, <2>1, <2>2 DEF Used, Long
<1>8. /\ k \in HeaderRows(text) /\ HeaderRows(text) = 2 .. HeaderEnd(text) - 1
      /\ k < HeaderEnd(text) /\ HeaderEnd(text) \in Nat
  <2>1. k < HeaderEnd(text) /\ HeaderEnd(text) \in Nat
    BY <1>1, <1>4, <1>6, <1>7, LongHeader
  <2>. QED
    BY <1>6, <2>1 DEF HeaderRows
<1>9. /\ Names(text.lines[k])
      /\ HasValue(text.lines[k]) \/ \A i \in HeaderRows(text) : i < k => ~HasValue(text.lines[i])
  BY <1>2, <1>8 DEF WellFormed
<1>10. NameRead = text.lines[k].words[1] /\ Popped(NameRead) = NameOf(text, k)
  <2>1. NameRead = text.lines[k].words[1]
    BY <1>6, <1>9 DEF NameRead, Names
  <2>. QED
    BY <1>9, <2>1, NameIsFront DEF Popped
<1>11. BodyRead = ValueOf(text, k)
  <2>1. Len(line.words) \in Nat
    <3>1. k \in 1 .. Len(text.lines)
      BY <1>4, <1>6
    <3>. QED
      BY <1>1, <1>6, <3>1, TextType, LineType, LenProperties
  <2>2. CASE HasValue(text.lines[k])
    <3>1. ~(Len(line.words) < 2)
      BY <1>6, <2>1, <2>2 DEF HasValue
    <3>. QED
      BY <1>6, <2>2, <3>1 DEF BodyRead, ValueOf
  <2>3. CASE ~HasValue(text.lines[k])
    <3>1. \A i \in 2 .. m : i \in HeaderRows(text) /\ i < k
      BY <1>3, <1>6, <1>8
    <3>2. h_body = <<>>
      BY <1>3, <1>9, <2>3, <3>1 DEF Used
    <3>3. Len(line.words) < 2
      BY <1>6, <2>1, <2>3 DEF HasValue
    <3>. QED
      BY <2>3, <3>2, <3>3 DEF BodyRead, ValueOf
  <2>. QED
    BY <2>2, <2>3
<1>12. headers' = Rows(text, k) /\ h_body' = ValueOf(text, k)
  <2>1. headers' = SetHeader(h_name', h_body') /\ h_name' = Popped(NameRead) /\ h_body' = BodyRead
    BY <1>2 DEF Header
  <2>. QED
    BY <1>3, <1>6, <1>10, <1>11, <2>1, NextRow DEF Used
<1>13. Used(k)' /\ At(k)' /\ OnLine(k)'
  <2>1. (\A i \in 2 .. k : ~HasValue(text.lines[i])) => ValueOf(text, k) = <<>>
    BY <1>6 DEF ValueOf
  <2>2. headers' = Rows(text, k)' /\ Long(text, k)'
    BY <1>1, <1>7, <1>12 DEF Rows, Long
  <2>. QED
    BY <1>1, <1>3, <1>5, <1>6, <1>12, <2>1, <2>2 DEF Used, At, OnLine, k
<1>. QED
  BY <1>6, <1>13

(* A line that is short ends the header, and so does the end of the text.      *)
LEMMA MeantEnd ==
  ASSUME Reading, Meant, LoopEnds
  PROVE  Meant'
<1>1. /\ text' = text /\ rest' = rest /\ good' = good /\ title' = title /\ headers' = headers
      /\ pc = "loop" /\ pc' = "body" /\ text \in Text /\ Stream /\ Short(line)
  BY DEF LoopEnds, Reading, IsHeader, Short
<1>2. Len(text.lines) \in Nat /\ text.lines \in Seq(Line)
  BY <1>1, TextType
<1>3. SUFFICES ASSUME WellFormed(text)
               PROVE  /\ headers = Rows(text, HeaderEnd(text) - 1) /\ title = text.lines[1]
                      /\ IF HeaderEnd(text) < Len(text.lines)
                           THEN good /\ rest = SubSeq(text.lines, HeaderEnd(text) + 1, Len(text.lines))
                           ELSE good => rest = <<>> /\ text.closed
  BY <1>1 DEF Meant, MeansText
<1>4. PICK m \in Nat : /\ m >= 1 /\ Used(m)
                       /\ \/ At(m + 1) /\ OnLine(m + 1)
                          \/ At(m) /\ m = Len(text.lines) /\ OffLines
  BY <1>1, <1>3 DEF Meant
<1>5. headers = Rows(text, m) /\ title = text.lines[1] /\ Long(text, m)
  BY <1>4 DEF Used
<1>6. CASE At(m + 1) /\ OnLine(m + 1)
  <2>1. /\ m + 1 <= Len(text.lines) /\ line = text.lines[m + 1]
        /\ good = (m + 1 < Len(text.lines) \/ text.closed)
        /\ rest = SubSeq(text.lines, (m + 1) + 1, Len(text.lines))
    BY <1>6 DEF OnLine, At
  <2>2. HeaderEnd(text) = m + 1
    <3>1. m < Len(text.lines) /\ m <= Len(text.lines) /\ Short(text.lines[m + 1])
      BY <1>1, <1>2, <2>1
    <3>. QED
      BY <1>1, <1>2, <1>4, <1>5, <3>1, LongHeader
  <2>3. HeaderEnd(text) - 1 = m
    BY <2>2
  <2>4. ~(HeaderEnd(text) < Len(text.lines)) => (good => rest = <<>> /\ text.closed)
    <3>1. SUFFICES ASSUME ~(m + 1 < Len(text.lines)), good PROVE rest = <<>> /\ text.closed
      BY <2>2
    <3>2. m + 1 = Len(text.lines)
      BY <1>2, <2>1, <3>1
    <3>3. rest = <<>>
      BY <1>2, <2>1, <3>2
    <3>. QED
      BY <2>1, <3>1, <3>3
  <2>5. HeaderEnd(text) < Len(text.lines) => good
    BY <2>1, <2>2
  <2>. QED
    BY <1>5, <2>1, <2>2, <2>3, <2>4, <2>5
<1>7. CASE At(m) /\ m = Len(text.lines) /\ OffLines
  <2>1. HeaderEnd(text) = m + 1
    BY <1>1, <1>2, <1>5, <1>7, LongHeader
  <2>2. HeaderEnd(text) - 1 = m /\ ~(HeaderEnd(text) < Len(text.lines))
    BY <1>7, <2>1
  <2>3. ~good
    BY <1>7 DEF OffLines
  <2>. QED
    BY <1>5, <2>2, <2>3
<1>. QED
  BY <1>4, <1>6, <1>7

LEMMA MeantBody ==
  ASSUME Reading, Meant, ReadBody
  PROVE  Meant'
<1>1. /\ text' = text /\ title' = title /\ headers' = headers /\ text \in Text
      /\ pc = "body" /\ pc' = "done"
      /\ body' = IF good THEN [lines |-> rest, closed |-> text.closed] ELSE NoText
  BY DEF ReadBody, Reading
<1>2. SUFFICES ASSUME WellFormed(text) PROVE Result' = Meaning(text)
  BY <1>1 DEF Meant, MeansText
<1>3. /\ headers = Rows(text, HeaderEnd(text) - 1) /\ title = text.lines[1]
      /\ IF HeaderEnd(text) < Len(text.lines)
           THEN good /\ rest = SubSeq(text.lines, HeaderEnd(text) + 1, Len(text.lines))
           ELSE good => rest = <<>> /\ text.closed
  BY <1>1, <1>2 DEF Meant
<1>4. Len(text.lines) \in Nat /\ text.closed \in BOOLEAN /\ HeaderEnd(text) \in Nat
  <2>1. Long(text, 0) /\ 0 <= Len(text.lines)
    BY <1>1, TextType, LenProperties DEF Long
  <2>. QED
    BY <1>1, <2>1, TextType, LongHeader
<1>5. body' = Meaning(text).body
  <2>1. Meaning(text).body = IF HeaderEnd(text) >= Len(text.lines) THEN NoText
                             ELSE [lines  |-> SubSeq(text.lines, HeaderEnd(text) + 1, Len(text.lines)),
                                   closed |-> text.closed]
    BY DEF Meaning
  <2>2. CASE HeaderEnd(text) < Len(text.lines)
    <3>1. ~(HeaderEnd(text) >= Len(text.lines))
      BY <1>4, <2>2
    <3>2. good /\ rest = SubSeq(text.lines, HeaderEnd(text) + 1, Len(text.lines))
      BY <1>3, <2>2
    <3>. QED
      BY <1>1, <2>1, <3>1, <3>2
  <2>3. CASE ~(HeaderEnd(text) < Len(text.lines))
    <3>1. body' = NoText
      BY <1>1, <1>3, <1>4, <2>3 DEF NoText
    <3>2. HeaderEnd(text) >= Len(text.lines)
      BY <1>4, <2>3
    <3>. QED
      BY <2>1, <3>1, <3>2
  <2>. QED
    BY <2>2, <2>3
<1>6. headers' = Meaning(text).headers
  BY <1>1, <1>3 DEF Meaning, Rows, HeaderRows
<1>7. title' = Meaning(text).title
  BY <1>1, <1>3 DEF Meaning
<1>8. Meaning(text) = [title   |-> Meaning(text).title,
                       headers |-> Meaning(text).headers,
                       body    |-> Meaning(text).body]
  BY DEF Meaning
<1>. QED
  BY <1>5, <1>6, <1>7, <1>8 DEF Result

LEMMA MeantInductive == Reading /\ Meant /\ [Next]_vars => Meant'
<1>1. SUFFICES ASSUME Reading, Meant, [Next]_vars PROVE Meant'
  OBVIOUS
<1>2. CASE UNCHANGED vars
  BY <1>1, <1>2 DEF vars, Meant, MeansText, Result, At, OnLine, OffLines, Used, Long
<1>. QED
  BY <1>1, <1>2, MeantTitle, MeantLine, MeantHeader, MeantEnd, MeantBody DEF Next

(* Of every well-formed text, of any length and over any words, the message    *)
(* the constructor makes has the first line, for each name, which is what      *)
(* stands in front of the colon, the value that came last, and all that is     *)
(* behind the empty line.                                                    *)
THEOREM MessageMeansText == Spec => []MeansText
<1>1. Meant => MeansText
  BY DEF Meant, MeansText
<1>2. Init => Reading /\ Meant
  BY ReadingAtFirst, MeantAtFirst
<1>3. (Reading /\ Meant) /\ [Next]_vars => (Reading /\ Meant)'
  BY ReadingInductive, MeantInductive
<1>. QED
  BY <1>1, <1>2, <1>3, PTL DEF Spec

-----------------------------------------------------------------------------
(* toString().                                                               *)

Characters == (UNION {ToSet(w) : w \in Words}) \cup {Colon}

LEMMA WordType ==
  ASSUME NEW w \in Words
  PROVE  w \in Seq(Characters) /\ Len(w) \in Nat /\ Len(w) > 0
<1>1. w \in Seq(ToSet(w)) /\ w # <<>>
  BY WordAssumption
<1>2. ToSet(w) \subseteq Characters
  BY DEF Characters
<1>3. w \in Seq(Characters)
  BY <1>1, <1>2
<1>. QED
  BY <1>1, <1>3, EmptySeq, LenProperties

LEMMA FrontType ==
  ASSUME NEW w \in Words
  PROVE  /\ Front(w) \in Seq(Characters) /\ Len(Front(w)) = Len(w) - 1
         /\ ColonsOf(w) = {Len(w)} => ColonsOf(Front(w)) = {}
<1>1. w \in Seq(Characters) /\ Len(w) \in Nat /\ Len(w) > 0
  BY WordType
<1>2. \A i \in 1 .. Len(w) - 1 : w[i] \in Characters
  BY <1>1, LenProperties
<1> DEFINE n == Len(w) - 1
           f == SubSeq(w, 1, n)
<1>3. /\ f \in Seq(Characters) /\ Len(f) = (IF 1 <= n THEN n - 1 + 1 ELSE 0)
      /\ \A i \in 1 .. n - 1 + 1 : f[i] = w[1 + i - 1]
  BY <1>1, <1>2, SubSeqProperties
<1>4. Len(f) = n
  <2>1. n \in Nat
    BY <1>1
  <2> HIDE DEF n, f
  <2>. QED
    BY <1>3, <2>1
<1>5. ASSUME NEW i \in 1 .. n PROVE f[i] = w[i] /\ i # Len(w) /\ i \in DOMAIN w
  <2>1. 1 + i - 1 = i /\ i \in 1 .. n - 1 + 1
    BY <1>1
  <2>2. f[i] = w[i]
    BY <1>3, <2>1
  <2>. QED
    BY <1>1, <2>2, LenProperties
<1>6. DOMAIN f = 1 .. n
  BY <1>3, <1>4, LenProperties
<1>7. ColonsOf(w) = {Len(w)} => ColonsOf(f) = {}
  <2> HIDE DEF f, n
  <2>. QED
    BY <1>5, <1>6 DEF ColonsOf
<1>8. Front(w) = f
  BY DEF Front
<1> HIDE DEF f
<1>. QED
  BY <1>3, <1>4, <1>7, <1>8

LEMMA FrontAppend ==
  ASSUME NEW S, NEW n \in Seq(S), NEW c \in S
  PROVE  Front(Append(n, c)) = n
<1> DEFINE a == Append(n, c)
<1>1. /\ a \in Seq(S) /\ Len(a) = Len(n) + 1 /\ Len(n) \in Nat
      /\ \A i \in 1 .. Len(n) : a[i] = n[i]
  BY AppendProperties, LenProperties
<1> HIDE DEF a
<1>2. Front(a) = SubSeq(a, 1, Len(n))
  <2>1. Len(a) - 1 = Len(n)
    BY <1>1
  <2>. QED
    BY <2>1 DEF Front
<1>3. /\ SubSeq(a, 1, Len(n)) \in Seq(S) /\ Len(SubSeq(a, 1, Len(n))) = Len(n)
      /\ \A i \in 1 .. Len(n) : SubSeq(a, 1, Len(n))[i] = a[i]
  <2>1. \A i \in 1 .. Len(n) : a[i] \in S
    BY <1>1, LenProperties
  <2>. QED
    BY <1>1, <2>1, SubSeqProperties
<1>4. \A i \in 1 .. Len(n) : SubSeq(a, 1, Len(n))[i] = n[i]
  BY <1>1, <1>3
<1>5. SubSeq(a, 1, Len(n)) = n
  BY <1>3, <1>4, SeqEqual
<1>. QED
  BY <1>2, <1>5 DEF a

(* The line that toString() writes for a header is long, and says what the      *)
(* header does.                                                              *)
LEMMA LineWritten ==
  ASSUME NEW n \in Seq(Characters), ColonsOf(n) = {}, NEW v \in Words
  PROVE  LET l == HeaderLine(n, v) IN
         ~Short(l) /\ Names(l) /\ HasValue(l) /\ Front(l.words[1]) = n /\ l.words[2] = v
<1> DEFINE a == Append(n, Colon)
           l == HeaderLine(n, v)
<1>1. v \in Seq(Characters) /\ Len(v) \in Nat /\ Len(v) > 0 /\ v # <<>>
  BY WordType, EmptySeq
<1>2. Colon \in Characters
  BY DEF Characters
<1>3. /\ a \in Seq(Characters) /\ Len(a) \in Nat /\ Len(a) > 0 /\ Front(a) = n
      /\ ColonsOf(a) = {Len(a)}
  <2>1. Front(a) = n
    BY <1>2, FrontAppend
  <2>2. /\ a \in Seq(Characters) /\ Len(a) = Len(n) + 1 /\ a[Len(n) + 1] = Colon
        /\ \A i \in 1 .. Len(n) : a[i] = n[i]
    BY <1>2, AppendProperties
  <2>3. DOMAIN n = 1 .. Len(n) /\ DOMAIN a = 1 .. Len(a) /\ Len(n) \in Nat
    BY <2>2, LenProperties
  <2> HIDE DEF a
  <2>4. ASSUME NEW i \in DOMAIN a PROVE a[i] = Colon <=> i = Len(a)
    <3>1. i \in 1 .. Len(n) \/ i = Len(n) + 1
      BY <2>2, <2>3
    <3>2. CASE i \in 1 .. Len(n)
      <4>1. a[i] # Colon
        BY <2>2, <2>3, <3>2 DEF ColonsOf
      <4>2. i # Len(a)
        BY <2>2, <2>3, <3>2
      <4>. QED
        BY <4>1, <4>2
    <3>. QED
      BY <2>2, <3>1, <3>2
  <2>5. Len(a) \in DOMAIN a
    BY <2>2, <2>3
  <2>6. ColonsOf(a) = {Len(a)}
    BY <2>4, <2>5 DEF ColonsOf
  <2>. QED
    BY <2>1, <2>2, <2>3, <2>6
<1> HIDE DEF a
<1>4. l = [words |-> <<a, v>>, blanks |-> 0]
  <2>1. <<a>> \o <<v>> = <<a, v>>
    <3> DEFINE s == <<a>>
               t == <<v>>
               u == <<a, v>>
               S == Seq(Characters)
    <3>1. /\ s \in Seq(S) /\ Len(s) = 1 /\ s[1] = a
          /\ t \in Seq(S) /\ Len(t) = 1 /\ t[1] = v
          /\ u \in Seq(S) /\ Len(u) = 2 /\ u[1] = a /\ u[2] = v
      BY <1>1, <1>3
    <3> HIDE DEF s, t, u, S
    <3>2. s \o t \in Seq(S) /\ Len(s \o t) = 2 /\ (s \o t)[1] = a /\ (s \o t)[2] = v
      <4>1. s \in Seq(S) /\ t \in Seq(S) /\ Len(s) = 1 /\ Len(t) = 1
        BY <3>1
      <4>5. /\ s \o t \in Seq(S) /\ Len(s \o t) = Len(s) + Len(t)
            /\ \A i \in 1 .. Len(s) + Len(t) :
                 (s \o t)[i] = IF i <= Len(s) THEN s[i] ELSE t[i - Len(s)]
        BY ONLY <4>1, ConcatProperties
      <4>2. (s \o t)[1] = a
        BY <3>1, <4>1, <4>5
      <4>3. (s \o t)[2] = v
        BY <3>1, <4>1, <4>5
      <4>. QED
        BY <4>1, <4>5, <4>2, <4>3
    <3>3. \A i \in 1 .. 2 : (s \o t)[i] = u[i]
      BY <3>1, <3>2
    <3>4. s \o t = u
      BY <3>1, <3>2, <3>3, SeqEqual
    <3>. QED
      BY <3>4 DEF s, t, u
  <2>. QED
    BY <1>1, <2>1 DEF HeaderLine, a
<1> HIDE DEF l
<1>5. l.words = <<a, v>> /\ l.blanks = 0
  BY <1>4
<1> DEFINE ws == <<a, v>>
<1>6. ws \in Seq(Seq(Characters)) /\ Len(ws) = 2 /\ ws[1] = a /\ ws[2] = v /\ ws # <<>>
  BY <1>1, <1>3
<1> HIDE DEF ws
<1>7. FlattenSeq(ws) = (<<>> \o a) \o v
  <2>1. /\ Runs(ws)[0] = <<>> /\ Runs(ws)[2] = FlattenSeq(ws)
        /\ \A k \in 1 .. 2 : Runs(ws)[k] = Runs(ws)[k - 1] \o ws[k]
    BY <1>6, RunsProperties
  <2>2. Runs(ws)[1] = Runs(ws)[0] \o ws[1]
    <3>1. 1 \in 1 .. 2 /\ 1 - 1 = 0
      OBVIOUS
    <3>. QED
      BY <2>1, <3>1
  <2>3. Runs(ws)[2] = Runs(ws)[1] \o ws[2]
    <3>1. 2 \in 1 .. 2 /\ 2 - 1 = 1
      OBVIOUS
    <3>. QED
      BY <2>1, <3>1
  <2>. QED
    BY <1>6, <2>1, <2>2, <2>3
<1>8. Len(FlattenSeq(ws)) = Len(a) + Len(v)
  BY <1>1, <1>3, <1>7, ConcatProperties, ConcatEmptySeq
<1>9. LineSize(l) = 0 + (Len(FlattenSeq(ws)) + Len(ws) - 1)
  BY <1>5, <1>6 DEF LineSize, ws
<1>10. LineSize(l) > 1
  BY <1>1, <1>3, <1>6, <1>8, <1>9
<1>11. Len(l.words) = 2 /\ l.words[1] = a /\ l.words[2] = v
  BY <1>5, <1>6 DEF ws
<1>12. l.words # <<>>
  BY <1>5, <1>6 DEF ws
<1>. QED
  BY <1>3, <1>10, <1>11, <1>12 DEF Short, Names, HasValue, l

(* The order of the headers is one of all their names.                        *)
LEMMA OrderOfNames ==
  ASSUME NEW S, IsFiniteSet(S), NEW order \in SetToSeqs(S)
  PROVE  /\ order \in Seq(S) /\ \A n \in S : \E i \in 1 .. Len(order) : order[i] = n
         /\ \A i, j \in 1 .. Len(order) : order[i] = order[j] => i = j
<1> DEFINE c == Cardinality(S)
<1>1. c \in Nat
  BY FS_CardinalityType
<1>2. order \in [1 .. c -> S] /\ \A i, j \in 1 .. c : i # j => order[i] # order[j]
  BY DEF SetToSeqs
<1> HIDE DEF c
<1>3. order \in Seq(S) /\ Len(order) = c
  BY <1>1, <1>2
<1>4. order \in Injection(1 .. c, S)
  BY <1>2 DEF Injection, IsInjective
<1>5. IsFiniteSet(1 .. c) /\ Cardinality(1 .. c) = Cardinality(S)
  <2>1. 1 \in Int /\ c \in Int /\ (IF 1 > c THEN 0 ELSE c - 1 + 1) = c
    BY <1>1
  <2>. QED
    BY <2>1, FS_Interval DEF c
<1>6. order \in Surjection(1 .. c, S)
  BY <1>4, <1>5, FS_Injection
<1>. QED
  BY <1>2, <1>3, <1>6 DEF Surjection

(* What the lines say that toString() writes: T, the headers in some order, an  *)
(* empty line, and the body.                                                 *)
Written(T, h, order, b) ==
  [lines  |-> <<T>> \o [i \in DOMAIN order |-> HeaderLine(order[i], h[order[i]])]
                    \o <<EmptyLine>> \o b.lines,
   closed |-> b.closed]

Consists(s, T, h, order, tail) ==
  LET k == Len(order) IN
  /\ Len(s) = k + 2 + Len(tail) /\ Len(tail) \in Nat
  /\ DOMAIN s = 1 .. Len(s) /\ s[1] = T /\ s[k + 2] = EmptyLine
  /\ \A i \in 2 .. k + 1 : s[i] = HeaderLine(order[i - 1], h[order[i - 1]])
  /\ SubSeq(s, k + 3, Len(s)) = tail

LEMMA WrittenLines ==
  ASSUME NEW T, NEW h, NEW order, Len(order) \in Nat, DOMAIN order = 1 .. Len(order),
         NEW S, NEW b, b.lines \in Seq(S)
  PROVE  Consists(Written(T, h, order, b).lines, T, h, order, b.lines)
<1> DEFINE k == Len(order)
           H(i) == HeaderLine(order[i], h[order[i]])
           rows == [i \in DOMAIN order |-> H(i)]
           U == S \cup {T, EmptyLine} \cup {H(i) : i \in 1 .. k}
           s1 == <<T>> \o rows
           s2 == s1 \o <<EmptyLine>>
           s == s2 \o b.lines
           tail == b.lines
<1>1. /\ rows \in Seq(U) /\ Len(rows) = k /\ \A i \in 1 .. k : rows[i] = H(i)
      /\ <<T>> \in Seq(U) /\ Len(<<T>>) = 1 /\ <<T>>[1] = T
      /\ <<EmptyLine>> \in Seq(U) /\ Len(<<EmptyLine>>) = 1 /\ <<EmptyLine>>[1] = EmptyLine
      /\ tail \in Seq(U) /\ Len(tail) \in Nat /\ k \in Nat
  <2>1. rows \in [1 .. k -> U]
    OBVIOUS
  <2> HIDE DEF H, U
  <2>2. T \in U /\ EmptyLine \in U /\ S \subseteq U
    BY DEF U
  <2>3. rows \in Seq(U) /\ Len(rows) = k /\ \A i \in 1 .. k : rows[i] = H(i)
    BY <2>1
  <2>. QED
    BY <2>2, <2>3, LenProperties
<1> HIDE DEF rows, U, H, k, tail
<1>2. /\ s1 \in Seq(U) /\ Len(s1) = k + 1 /\ s1[1] = T
      /\ \A i \in 2 .. k + 1 : s1[i] = H(i - 1)
  <2>1. s1 \in Seq(U) /\ Len(s1) = 1 + k
    BY <1>1, ConcatProperties
  <2>2. s1[1] = T
    BY <1>1, ConcatProperties
  <2>3. ASSUME NEW i \in 2 .. k + 1 PROVE s1[i] = H(i - 1)
    <3>1. i - 1 \in 1 .. k /\ ~(i <= 1) /\ i \in 1 .. 1 + k
      BY <1>1
    <3>2. s1[i] = rows[i - 1]
      BY <1>1, <3>1, ConcatProperties
    <3>. QED
      BY <1>1, <3>1, <3>2
  <2>. QED
    BY <1>1, <2>1, <2>2, <2>3
<1> HIDE DEF s1
<1>3. /\ s2 \in Seq(U) /\ Len(s2) = k + 2 /\ s2[k + 2] = EmptyLine
      /\ \A i \in 1 .. k + 1 : s2[i] = s1[i]
  BY <1>1, <1>2, ConcatProperties
<1> HIDE DEF s2
<1>4. /\ s2 \o tail \in Seq(U) /\ Len(s2 \o tail) = k + 2 + Len(tail)
      /\ \A i \in 1 .. k + 2 : (s2 \o tail)[i] = s2[i]
      /\ \A i \in 1 .. Len(tail) : (s2 \o tail)[k + 2 + i] = tail[i]
  <2>1. /\ s2 \o tail \in Seq(U) /\ Len(s2 \o tail) = k + 2 + Len(tail)
        /\ \A i \in 1 .. k + 2 + Len(tail) :
             (s2 \o tail)[i] = IF i <= k + 2 THEN s2[i] ELSE tail[i - (k + 2)]
    <3>1. /\ s2 \o tail \in Seq(U) /\ Len(s2 \o tail) = Len(s2) + Len(tail)
          /\ \A i \in 1 .. Len(s2) + Len(tail) :
               (s2 \o tail)[i] = IF i <= Len(s2) THEN s2[i] ELSE tail[i - Len(s2)]
      BY <1>1, <1>3, ConcatProperties
    <3>. QED
      BY <1>3, <3>1
  <2>2. ASSUME NEW i \in 1 .. k + 2 PROVE (s2 \o tail)[i] = s2[i]
    <3>1. i \in 1 .. k + 2 + Len(tail) /\ i <= k + 2
      BY <1>1
    <3>. QED
      BY <2>1, <3>1
  <2>3. ASSUME NEW i \in 1 .. Len(tail) PROVE (s2 \o tail)[k + 2 + i] = tail[i]
    <3>1. /\ k + 2 + i \in 1 .. k + 2 + Len(tail) /\ ~(k + 2 + i <= k + 2)
          /\ k + 2 + i - (k + 2) = i
      BY <1>1
    <3>2. PICK j \in 1 .. k + 2 + Len(tail) : j = k + 2 + i
      BY <3>1
    <3>3. (s2 \o tail)[j] = tail[j - (k + 2)]
      BY <2>1, <3>1, <3>2
    <3>4. j - (k + 2) = i
      BY <1>1, <3>2
    <3>5. (s2 \o tail)[j] = tail[i]
      BY <3>3, <3>4
    <3>. QED
      BY <3>2, <3>5
  <2>. QED
    BY <2>1, <2>2, <2>3
<1>5. s = s2 \o tail
  BY DEF tail
<1>6. Written(T, h, order, b).lines = s
  BY DEF Written, s2, s1, rows, H
<1> HIDE DEF s
<1>7. SubSeq(s, k + 3, Len(s)) = tail
  <2> DEFINE u == SubSeq(s, k + 3, Len(s))
  <2>1. \A i \in k + 3 .. Len(s) : s[i] \in U
    BY <1>1, <1>4, <1>5, LenProperties
  <2>2. /\ u \in Seq(U) /\ Len(u) = Len(tail)
        /\ \A i \in 1 .. Len(tail) : u[i] = s[k + 2 + i]
    <3>1. /\ u \in Seq(U) /\ Len(u) = IF k + 3 <= Len(s) THEN Len(s) - (k + 3) + 1 ELSE 0
          /\ \A i \in 1 .. Len(s) - (k + 3) + 1 : u[i] = s[k + 3 + i - 1]
      BY <1>1, <1>4, <1>5, <2>1, SubSeqProperties
    <3>2. Len(s) - (k + 3) + 1 = Len(tail)
      BY <1>1, <1>4, <1>5
    <3>3. ASSUME NEW i \in 1 .. Len(tail) PROVE u[i] = s[k + 2 + i]
      <4>1. k + 3 + i - 1 = k + 2 + i /\ i \in 1 .. Len(s) - (k + 3) + 1
        BY <1>1, <3>2
      <4>. QED
        BY <3>1, <4>1
    <3>4. Len(u) = Len(tail)
      BY <1>1, <1>4, <1>5, <3>1
    <3>. QED
      BY <3>1, <3>3, <3>4
  <2> HIDE DEF u
  <2>3. \A i \in 1 .. Len(tail) : u[i] = tail[i]
    BY <1>4, <1>5, <2>2
  <2>4. u = tail
    BY <1>1, <2>2, <2>3, SeqEqual
  <2>. QED
    BY <2>4 DEF u
<1>8. /\ Len(s) = k + 2 + Len(tail) /\ DOMAIN s = 1 .. Len(s)
      /\ s[1] = T /\ s[k + 2] = EmptyLine
      /\ \A i \in 2 .. k + 1 : s[i] = H(i - 1)
  BY <1>1, <1>2, <1>3, <1>4, <1>5, LenProperties
<1>. QED
  BY <1>1, <1>6, <1>7, <1>8 DEF Consists, k, H, tail

(* A message as the constructor makes one, if its headers have values: there is  *)
(* no colon in a name, values are words, and a body that has no line is none.   *)
IsMessage(h, b) ==
  /\ h = [n \in DOMAIN h |-> h[n]] /\ IsFiniteSet(DOMAIN h)
  /\ \A n \in DOMAIN h : n \in Seq(Characters) /\ ColonsOf(n) = {} /\ h[n] \in Words
  /\ b = [lines |-> b.lines, closed |-> b.closed] /\ b.lines \in Seq(Line)
  /\ b.lines = <<>> => b = NoText

LEMMA WrittenMeans ==
  ASSUME NEW T, NEW h, NEW b, IsMessage(h, b), NEW order \in SetToSeqs(DOMAIN h)
  PROVE  /\ WellFormed(Written(T, h, order, b))
         /\ Meaning(Written(T, h, order, b)) = [title |-> T, headers |-> h, body |-> b]
<1> DEFINE t == Written(T, h, order, b)
           s == t.lines
           k == Len(order)
           names == DOMAIN h
           tail == b.lines
<1>1. /\ order \in Seq(names) /\ \A n \in names : \E i \in 1 .. k : order[i] = n
      /\ \A i, j \in 1 .. k : order[i] = order[j] => i = j
  BY OrderOfNames DEF IsMessage
<1>2. k \in Nat /\ DOMAIN order = 1 .. k /\ \A i \in 1 .. k : order[i] \in names
  BY <1>1, LenProperties
<1>3. tail \in Seq(Line)
  BY DEF IsMessage
<1>4. /\ Len(s) = k + 2 + Len(tail) /\ Len(tail) \in Nat
      /\ DOMAIN s = 1 .. Len(s) /\ s[1] = T /\ s[k + 2] = EmptyLine
      /\ \A i \in 2 .. k + 1 : s[i] = HeaderLine(order[i - 1], h[order[i - 1]])
      /\ SubSeq(s, k + 3, Len(s)) = tail
  <2>1. Consists(s, T, h, order, tail)
    BY <1>2, <1>3, WrittenLines
  <2> HIDE DEF s, tail
  <2>. QED
    BY <2>1 DEF Consists
<1>5. t.closed = b.closed
  BY DEF Written
<1>17. s = t.lines
  OBVIOUS
<1> HIDE DEF s, t, k, names, tail
<1>6. ASSUME NEW i \in 2 .. k + 1
      PROVE  /\ i - 1 \in 1 .. k /\ ~Short(s[i]) /\ Names(s[i]) /\ HasValue(s[i])
             /\ NameOf(t, i) = order[i - 1] /\ ValueOf(t, i) = h[order[i - 1]]
  <2>1. i - 1 \in 1 .. k
    BY <1>2
  <2>2. /\ order[i - 1] \in Seq(Characters) /\ ColonsOf(order[i - 1]) = {}
        /\ h[order[i - 1]] \in Words
    BY <1>2, <2>1 DEF IsMessage, names
  <2>3. s[i] = HeaderLine(order[i - 1], h[order[i - 1]])
    BY <1>4
  <2>4. /\ ~Short(s[i]) /\ Names(s[i]) /\ HasValue(s[i])
        /\ Front(s[i].words[1]) = order[i - 1] /\ s[i].words[2] = h[order[i - 1]]
    BY <2>2, <2>3, LineWritten
  <2>5. NameOf(t, i) = order[i - 1] /\ ValueOf(t, i) = h[order[i - 1]]
    BY <1>17, <2>4, NameIsFront DEF ValueOf
  <2>. QED
    BY <2>1, <2>4, <2>5
<1>7. HeaderEnd(t) = k + 2 /\ Separators(t) # {}
  <2>1. LineSize(EmptyLine) = 0
    BY DEF LineSize, EmptyLine
  <2>2. Short(s[k + 2])
    BY <1>4, <2>1 DEF Short
  <2>3. Long(t, k + 1)
    BY <1>17, <1>6 DEF Long
  <2>4. /\ Len(s) \in Nat /\ k + 1 \in Nat /\ k + 1 < Len(s) /\ k + 1 <= Len(s) /\ k + 1 >= 1
        /\ k + 1 + 1 = k + 2
    BY <1>2, <1>4
  <2>5. Short(s[k + 1 + 1])
    BY <2>2, <2>4
  <2>6. HeaderEnd(t) = k + 1 + 1
    BY <1>17, <2>3, <2>4, <2>5, LongHeader
  <2>7. k + 2 \in Separators(t)
    <3>1. k + 2 \in 2 .. Len(s)
      BY <1>2, <1>4
    <3>. QED
      BY <1>17, <2>2, <3>1 DEF Separators
  <2>. QED
    BY <2>4, <2>6, <2>7
<1>8. HeaderRows(t) = 2 .. k + 1
  <2>1. HeaderEnd(t) - 1 = k + 1
    BY <1>2, <1>7
  <2>. QED
    BY <2>1 DEF HeaderRows
<1>9. WellFormed(t)
  <2>1. s # <<>>
    <3>1. Len(s) # 0
      BY <1>2, <1>4
    <3>. QED
      BY <3>1, EmptySeq
  <2>2. \A i \in HeaderRows(t) : Names(s[i]) /\ HasValue(s[i])
    BY <1>6, <1>8
  <2>. QED
    BY <1>17, <1>7, <2>1, <2>2 DEF WellFormed, HasEnd
<1>10. {NameOf(t, i) : i \in HeaderRows(t)} = names
  <2>1. ASSUME NEW i \in 2 .. k + 1 PROVE NameOf(t, i) \in names
    BY <1>2, <1>6
  <2>2. ASSUME NEW n \in names PROVE \E i \in 2 .. k + 1 : NameOf(t, i) = n
    <3>1. PICK j \in 1 .. k : order[j] = n
      BY <1>1 DEF k
    <3>2. j + 1 \in 2 .. k + 1 /\ j + 1 - 1 = j
      BY <1>2
    <3>3. NameOf(t, j + 1) = order[j + 1 - 1]
      BY <1>6, <3>2
    <3>. QED
      BY <3>1, <3>2, <3>3
  <2>. QED
    BY <1>8, <2>1, <2>2
<1>11. ASSUME NEW n \in names
       PROVE  ValueOf(t, Max({i \in HeaderRows(t) : NameOf(t, i) = n})) = h[n]
  <2> DEFINE with == {i \in HeaderRows(t) : NameOf(t, i) = n}
  <2>1. PICK i \in 2 .. k + 1 : NameOf(t, i) = n
    BY <1>8, <1>10
  <2>2. ASSUME NEW j \in 2 .. k + 1, NameOf(t, j) = n PROVE j = i
    <3>1. order[j - 1] = order[i - 1] /\ j - 1 \in 1 .. k /\ i - 1 \in 1 .. k
      BY <1>6, <2>1, <2>2
    <3>2. j - 1 = i - 1
      BY <1>1, <3>1 DEF k
    <3>. QED
      BY <1>2, <3>2
  <2>3. with = {i}
    BY <1>8, <2>1, <2>2
  <2>4. Max({i}) = i
    BY DEF Max
  <2>5. ValueOf(t, i) = h[n]
    BY <1>6, <2>1
  <2>. QED
    BY <2>3, <2>4, <2>5
<1>12. Meaning(t).headers = h
  <2>1. Meaning(t).headers =
          [n \in {NameOf(t, i) : i \in HeaderRows(t)} |->
             ValueOf(t, Max({i \in HeaderRows(t) : NameOf(t, i) = n}))]
    BY <1>17 DEF Meaning
  <2>2. Meaning(t).headers =
          [n \in names |-> ValueOf(t, Max({i \in HeaderRows(t) : NameOf(t, i) = n}))]
    BY <1>10, <2>1
  <2>3. h = [n \in names |-> h[n]]
    BY DEF IsMessage, names
  <2>. QED
    BY <1>11, <2>2, <2>3
<1>13. Meaning(t).body = b
  <2>1. Meaning(t).body = IF k + 2 >= Len(s) THEN NoText
                          ELSE [lines |-> SubSeq(s, k + 2 + 1, Len(s)), closed |-> b.closed]
    BY <1>5, <1>17, <1>7 DEF Meaning
  <2>2. CASE tail = <<>>
    <3>1. Len(tail) = 0
      BY <2>2
    <3>2. k + 2 >= Len(s)
      BY <1>2, <1>4, <3>1
    <3>. QED
      BY <2>1, <2>2, <3>2 DEF IsMessage, tail
  <2>3. CASE tail # <<>>
    <3>1. Len(tail) # 0
      BY <1>3, <2>3, EmptySeq
    <3>2. ~(k + 2 >= Len(s)) /\ k + 2 + 1 = k + 3
      BY <1>2, <1>4, <3>1
    <3>3. Meaning(t).body = [lines |-> tail, closed |-> b.closed]
      BY <1>4, <2>1, <3>2
    <3>. QED
      BY <3>3 DEF IsMessage, tail
  <2>. QED
    BY <2>2, <2>3
<1>14. Meaning(t).title = T
  BY <1>4, <1>17 DEF Meaning
<1>15. Meaning(t) = [title |-> Meaning(t).title, headers |-> Meaning(t).headers,
                     body |-> Meaning(t).body]
  BY DEF Meaning
<1>16. Meaning(t) = [title |-> T, headers |-> h, body |-> b]
  BY <1>12, <1>13, <1>14, <1>15
<1>. QED
  BY <1>9, <1>16 DEF t

(* The message that a well-formed text means is one.                          *)
LEMMA MeaningIsMessage ==
  ASSUME NEW t \in Text, WellFormed(t),
         \A n \in DOMAIN Meaning(t).headers : Meaning(t).headers[n] # <<>>
  PROVE  IsMessage(Meaning(t).headers, Meaning(t).body)
<1> DEFINE s == t.lines
           e == HeaderEnd(t)
           rows == HeaderRows(t)
           names == {NameOf(t, i) : i \in rows}
           h == Meaning(t).headers
           b == Meaning(t).body
           with(n) == {i \in rows : NameOf(t, i) = n}
<1>1. s \in Seq(Line) /\ t.closed \in BOOLEAN /\ Len(s) \in Nat
  BY TextType, LenProperties
<1>2. e \in Nat /\ e >= 1 /\ e <= Len(s) + 1
  <2>1. Long(t, 0)
    BY DEF Long
  <2>2. e \in Nat /\ 0 < e
    BY <1>1, <2>1, LongHeader
  <2>3. e <= Len(s) + 1
    <3>1. CASE Separators(t) = {}
      BY <1>1, <3>1 DEF HeaderEnd
    <3>2. CASE Separators(t) # {}
      <4>1. Separators(t) \in SUBSET Nat /\ \A i \in Separators(t) : i <= Len(s)
        BY <1>1 DEF Separators
      <4>2. \E x \in Separators(t) : \A y \in Separators(t) : x <= y
        BY <3>2, <4>1, LeastNumber
      <4>3. Min(Separators(t)) \in Separators(t)
        BY <4>2 DEF Min
      <4>4. e \in Separators(t)
        BY <3>2, <4>3 DEF HeaderEnd
      <4>. QED
        BY <1>1, <2>2, <4>1, <4>4
    <3>. QED
      BY <3>1, <3>2
  <2>. QED
    BY <2>2, <2>3
<1>3. rows = 2 .. e - 1
  BY DEF HeaderRows
<1>4. ASSUME NEW i \in rows
      PROVE  /\ NameOf(t, i) \in Seq(Characters) /\ ColonsOf(NameOf(t, i)) = {}
             /\ ValueOf(t, i) \in Words \cup {<<>>}
  <2>1. i \in 1 .. Len(s)
    BY <1>1, <1>2, <1>3
  <2>2. s[i] \in Line
    BY <1>1, <2>1, LenProperties
  <2>3. /\ Len(s[i].words) \in Nat /\ (s[i].words = <<>> <=> Len(s[i].words) = 0)
        /\ \A j \in 1 .. Len(s[i].words) : s[i].words[j] \in Words
    BY <2>2, LineType
  <2>4. Names(s[i])
    BY DEF WellFormed
  <2>5. s[i].words[1] \in Words
    <3>1. 1 \in 1 .. Len(s[i].words)
      BY <2>3, <2>4 DEF Names
    <3>. QED
      BY <2>3, <3>1
  <2>6. HasValue(s[i]) => s[i].words[2] \in Words
    <3>1. HasValue(s[i]) => 2 \in 1 .. Len(s[i].words)
      BY <2>3 DEF HasValue
    <3>. QED
      BY <2>3, <3>1
  <2>7. ValueOf(t, i) \in Words \cup {<<>>}
    BY <2>6 DEF ValueOf
  <2>. QED
    BY <2>4, <2>5, <2>7, FrontType, NameIsFront DEF Names
<1> HIDE DEF e, rows
<1>5. h = [n \in names |-> ValueOf(t, Max(with(n)))]
  BY DEF Meaning, rows
<1>6. b = IF e >= Len(s) THEN NoText
          ELSE [lines |-> SubSeq(s, e + 1, Len(s)), closed |-> t.closed]
  BY DEF Meaning, e
<1>7. IsFiniteSet(names)
  <2>1. IsFiniteSet(rows)
    <3>1. 2 \in Int /\ e - 1 \in Int
      BY <1>2
    <3>. QED
      BY <1>3, <3>1, FS_Interval
  <2>2. [i \in rows |-> NameOf(t, i)] \in Surjection(rows, names)
    BY DEF Surjection
  <2> HIDE DEF names
  <2>. QED
    BY <2>1, <2>2, FS_Surjection
<1>8. ASSUME NEW n \in names
      PROVE  /\ n \in Seq(Characters) /\ ColonsOf(n) = {}
             /\ ValueOf(t, Max(with(n))) \in Words \cup {<<>>}
  <2>1. with(n) # {} /\ with(n) \in SUBSET (0 .. e)
    BY <1>2, <1>3
  <2>2. Max(with(n)) \in with(n)
    <3> HIDE DEF with
    <3>. QED
      BY <1>2, <2>1, GreatestNumber
  <2>3. Max(with(n)) \in rows
    BY <2>2
  <2> HIDE DEF with
  <2>. QED
    BY <1>4, <2>3
<1>9. /\ DOMAIN h = names /\ h = [n \in DOMAIN h |-> h[n]]
      /\ \A n \in DOMAIN h : n \in Seq(Characters) /\ ColonsOf(n) = {} /\ h[n] \in Words
  <2>1. \A n \in DOMAIN h : h[n] # <<>>
    OBVIOUS
  <2> HIDE DEF h, with, names, s
  <2>. QED
    BY <1>5, <1>8, <2>1
<1>10. /\ b = [lines |-> b.lines, closed |-> b.closed] /\ b.lines \in Seq(Line)
       /\ b.lines = <<>> => b = NoText
  <2>1. CASE e >= Len(s)
    <3>1. b = NoText
      BY <1>6, <2>1
    <3> HIDE DEF b
    <3>. QED
      BY <3>1, EmptySeq DEF NoText
  <2>2. CASE ~(e >= Len(s))
    <3> DEFINE u == SubSeq(s, e + 1, Len(s))
    <3>1. \A i \in e + 1 .. Len(s) : s[i] \in Line
      BY <1>1, <1>2, LenProperties
    <3> HIDE DEF s
    <3>2. u \in Seq(Line) /\ Len(u) = IF e + 1 <= Len(s) THEN Len(s) - (e + 1) + 1 ELSE 0
      BY <1>1, <1>2, <3>1, SubSeqProperties
    <3>3. Len(u) > 0
      BY <1>1, <1>2, <2>2, <3>2
    <3>4. u # <<>>
      <4> HIDE DEF u
      <4>. QED
        BY <3>3, EmptySeq
    <3>5. b = [lines |-> u, closed |-> t.closed]
      BY <1>6, <2>2
    <3> HIDE DEF b, u
    <3>. QED
      BY <3>2, <3>4, <3>5
  <2>. QED
    BY <2>1, <2>2
<1> HIDE DEF h, b
<1>11. IsMessage(h, b)
  BY <1>7, <1>9, <1>10 DEF IsMessage
<1>. QED
  BY <1>11 DEF h, b

(* Whatever order toString() writes the headers in, its text is a well-formed   *)
(* one and means the message that was read: for every well-formed text, of any  *)
(* length and over any words, whose headers have values.                      *)
THEOREM MessageSerialises == Spec => []Serialises
<1>1. Reading /\ Meant => Serialises
  <2>1. SUFFICES ASSUME Reading, Meant, pc = "done", WellFormed(text),
                        \A n \in DOMAIN headers : headers[n] # <<>>,
                        NEW t \in Output(title, headers, body)
                 PROVE  WellFormed(t) /\ Meaning(t) = Result
    BY DEF Serialises
  <2>2. Result = Meaning(text) /\ text \in Text
    BY <2>1 DEF Meant, MeansText, Reading
  <2>3. headers = Meaning(text).headers /\ body = Meaning(text).body
    BY <2>2 DEF Result
  <2>4. IsMessage(headers, body)
    BY <2>1, <2>2, <2>3, MeaningIsMessage
  <2>5. PICK order \in SetToSeqs(DOMAIN headers) : t = Written(title, headers, order, body)
    BY <2>1 DEF Output, Written
  <2>. QED
    BY <2>4, <2>5, WrittenMeans DEF Result
<1>2. Init => Reading /\ Meant
  BY ReadingAtFirst, MeantAtFirst
<1>3. (Reading /\ Meant) /\ [Next]_vars => (Reading /\ Meant)'
  BY ReadingInductive, MeantInductive
<1>. QED
  BY <1>1, <1>2, <1>3, PTL DEF Spec

-----------------------------------------------------------------------------
(* What is left of a name when pop_back() is called.                          *)

Worded(t, m) == {j \in 2 .. m : t.lines[j].words # <<>>}

(* When m lines have been made use of, pop_back() has been called once for the  *)
(* last of them that has words and for each line below it.                     *)
NameLeft(m) ==
  /\ Worded(text, m) = {} => h_name = <<>>
  /\ Worded(text, m) # {} =>
       Len(h_name) = Len(text.lines[Max(Worded(text, m))].words[1])
                       - ((m + 1) - Max(Worded(text, m)))

(* getline() has left the last line where it was, and will again.              *)
Stuck ==
  /\ ~good /\ text.lines # <<>> /\ line = Last(text.lines)
  /\ ~HasEnd(text) \/ Short(line)

Named ==
  /\ h_name \in Seq(Characters)
  /\ pc = "title" => At(0) /\ good /\ h_name = <<>>
  /\ pc = "first" => /\ h_name = <<>>
                     /\ \/ At(1) /\ OnLine(1)
                        \/ ~good /\ line = EmptyLine
  /\ pc = "loop" => \/ line = EmptyLine \/ Stuck
                    \/ \E m \in Nat : /\ m >= 1 /\ Long(text, m) /\ NameLeft(m)
                                      /\ At(m + 1) /\ OnLine(m + 1)
  /\ pc = "next" => \/ Stuck
                    \/ \E m \in Nat : /\ m >= 2 /\ Long(text, m) /\ NameLeft(m)
                                      /\ At(m) /\ OnLine(m)
  /\ NamesLast

LEMMA NamedAtFirst == Init => Named
<1>1. SUFFICES ASSUME Init PROVE Named
  OBVIOUS
<1>2. text \in Text /\ rest = text.lines /\ good = TRUE /\ pc = "title" /\ h_name = <<>>
  BY <1>1 DEF Init
<1>3. text.lines \in Seq(Line)
  BY <1>2, TextType
<1>4. At(0)
  BY <1>2, <1>3, SubSeqFull DEF At
<1>. QED
  BY <1>2, <1>4, EmptySeq DEF Named, NamesLast

LEMMA NamedTitle ==
  ASSUME Reading, Named, ReadTitle
  PROVE  Named'
<1>1. /\ Getline /\ text' = text /\ pc = "title" /\ pc' = "first" /\ text \in Text /\ Stream
      /\ h_name' = h_name
  BY DEF ReadTitle, Reading
<1>2. At(0) /\ good /\ h_name = <<>>
  BY <1>1 DEF Named
<1>3. text.lines \in Seq(Line) /\ Len(text.lines) \in Nat
  BY <1>1, TextType
<1>4. CASE text.lines = <<>>
  <2>1. rest = <<>>
    BY <1>2, <1>3, <1>4, SubSeqFull DEF At
  <2>2. line' = EmptyLine /\ ~good'
    BY <1>1, <1>2, <2>1 DEF Getline
  <2>. QED
    BY <1>1, <1>2, <2>2, EmptySeq DEF Named, NamesLast
<1>5. CASE text.lines # <<>>
  <2>1. Len(text.lines) > 0
    BY <1>3, <1>5, EmptySeq
  <2>2. At(0 + 1)' /\ OnLine(0 + 1)'
    BY <1>1, <1>2, <2>1, GetlineOn
  <2>3. 0 + 1 = 1
    OBVIOUS
  <2>4. At(1)' /\ OnLine(1)'
    BY <2>2, <2>3
  <2>5. h_name' = <<>> /\ h_name' \in Seq(Characters)
    BY <1>1, <1>2, EmptySeq
  <2>. QED
    BY <1>1, <2>4, <2>5 DEF Named, NamesLast
<1>. QED
  BY <1>4, <1>5

(* Behind the last line: nothing, if it had its newline; if not, the line again. *)
LEMMA NamedLine ==
  ASSUME Reading, Named, ReadFirst \/ NextLine
  PROVE  Named'
<1>1. /\ Getline /\ text' = text /\ pc \in {"first", "next"} /\ pc' = "loop"
      /\ text \in Text /\ Stream /\ h_name' = h_name
  BY DEF ReadFirst, NextLine, Reading
<1>2. SUFFICES (\/ line = EmptyLine \/ Stuck
                \/ \E m \in Nat : /\ m >= 1 /\ Long(text, m) /\ NameLeft(m)
                                  /\ At(m + 1) /\ OnLine(m + 1))'
  BY <1>1 DEF Named, NamesLast
<1>3. CASE ~good /\ (line = EmptyLine \/ Stuck)
  BY <1>1, <1>3 DEF Getline, Stuck
<1>4. ASSUME NEW m \in Nat, m >= 1, Long(text, m), NameLeft(m), At(m), OnLine(m)
      PROVE  (\/ line = EmptyLine \/ Stuck
              \/ \E k \in Nat : /\ k >= 1 /\ Long(text, k) /\ NameLeft(k)
                                /\ At(k + 1) /\ OnLine(k + 1))'
  <2>1. IF m < Len(text.lines) THEN At(m + 1)' /\ OnLine(m + 1)'
        ELSE At(m)' /\ good' = FALSE /\ line' = IF good THEN EmptyLine ELSE line
    <3>1. m # 0
      BY <1>4
    <3>. QED
      BY <1>1, <1>4, <3>1, GetlineOn
  <2>2. CASE m < Len(text.lines)
    BY <1>1, <1>4, <2>1, <2>2 DEF Long, NameLeft, Worded
  <2>3. CASE ~(m < Len(text.lines))
    <3>1. SUFFICES ASSUME ~good PROVE Stuck'
      BY <2>1, <2>3
    <3>2. Len(text.lines) \in Nat
      BY <1>1, TextType
    <3>3. m = Len(text.lines) /\ line = text.lines[m] /\ ~text.closed
      <4>1. m <= Len(text.lines) /\ line = text.lines[m] /\ ~text.closed
        BY <1>4, <3>1 DEF OnLine
      <4>. QED
        BY <2>3, <3>2, <4>1
    <3>4. Separators(text) = {}
      BY <1>4, <3>2, <3>3, LongHeader
    <3>5. ~HasEnd(text) \/ Short(line)
      BY <3>3, <3>4 DEF HasEnd
    <3>6. text.lines # <<>>
      BY <1>4, <3>3
    <3>. QED
      BY <1>1, <2>1, <2>3, <3>1, <3>3, <3>5, <3>6 DEF Stuck, Last
  <2>. QED
    BY <2>2, <2>3
<1>5. CASE pc = "first"
  <2>1. h_name = <<>> /\ ((At(1) /\ OnLine(1)) \/ (~good /\ line = EmptyLine))
    BY <1>5 DEF Named
  <2>2. Long(text, 1) /\ NameLeft(1)
    <3>1. Worded(text, 1) = {}
      BY DEF Worded
    <3>. QED
      BY <2>1, <3>1 DEF Long, NameLeft
  <2>3. CASE At(1) /\ OnLine(1)
    BY <1>4, <2>2, <2>3
  <2>. QED
    BY <1>3, <2>1, <2>3
<1>6. CASE pc = "next"
  <2>1. \/ Stuck
        \/ \E m \in Nat : m >= 2 /\ Long(text, m) /\ NameLeft(m) /\ At(m) /\ OnLine(m)
    BY <1>6 DEF Named
  <2>2. CASE Stuck
    BY <1>3, <2>2 DEF Stuck
  <2>3. ASSUME NEW m \in Nat, m >= 2, Long(text, m), NameLeft(m), At(m), OnLine(m)
        PROVE  (\/ line = EmptyLine \/ Stuck
                \/ \E k \in Nat : /\ k >= 1 /\ Long(text, k) /\ NameLeft(k)
                                  /\ At(k + 1) /\ OnLine(k + 1))'
    BY <1>4, <2>3
  <2>. QED
    BY <2>1, <2>2, <2>3
<1>. QED
  BY <1>1, <1>5, <1>6

(* The first word of a line, and a word that has lost a character.             *)
LEMMA FirstWord ==
  ASSUME NEW l \in Line, l.words # <<>>
  PROVE  l.words[1] \in Words /\ l.words[1] \in Seq(Characters) /\ l.words[1] # <<>>
<1>1. 1 \in 1 .. Len(l.words)
  BY LineType
<1>. QED
  BY <1>1, LineType, WordType, EmptySeq

LEMMA Shorter ==
  ASSUME NEW n \in Seq(Characters), n # <<>>
  PROVE  Front(n) \in Seq(Characters) /\ Len(Front(n)) = Len(n) - 1
<1>1. Len(n) \in Nat /\ Len(n) > 0
  BY EmptySeq, LenProperties
<1>2. \A i \in 1 .. Len(n) - 1 : n[i] \in Characters
  BY <1>1, LenProperties
<1> DEFINE k == Len(n) - 1
<1>3. /\ SubSeq(n, 1, k) \in Seq(Characters)
      /\ Len(SubSeq(n, 1, k)) = (IF 1 <= k THEN k - 1 + 1 ELSE 0)
  BY <1>1, <1>2, SubSeqProperties
<1>4. k \in Nat
  BY <1>1
<1> HIDE DEF k
<1>5. Len(SubSeq(n, 1, k)) = k
  BY <1>3, <1>4
<1>. QED
  BY <1>3, <1>5 DEF Front, k

LEMMA NamedHeader ==
  ASSUME Reading, Named, Header
  PROVE  Named'
<1>1. /\ text' = text /\ rest' = rest /\ good' = good /\ line' = line
      /\ pc = "loop" /\ pc' \in {"undefined", "next"} /\ text \in Text /\ IsHeader(line)
      /\ \/ NameRead = <<>> /\ pc' = "undefined" /\ h_name' = h_name
         \/ NameRead # <<>> /\ pc' = "next" /\ h_name' = Front(NameRead)
  BY DEF Header, Reading, Popped
<1>2. text.lines \in Seq(Line) /\ Len(text.lines) \in Nat
  BY <1>1, TextType
<1>3. line # EmptyLine
  <2>1. LineSize(EmptyLine) = 0
    BY DEF LineSize, EmptyLine
  <2>. QED
    BY <1>1, <2>1 DEF IsHeader
<1>4. ASSUME line \in Line
      PROVE  /\ NameRead \in Seq(Characters)
             /\ NameRead = <<>> => line.words = <<>> /\ h_name = <<>>
  <2>1. CASE line.words = <<>>
    BY <2>1 DEF NameRead, Named
  <2>2. CASE line.words # <<>>
    BY <1>4, <2>2, FirstWord DEF NameRead
  <2>. QED
    BY <2>1, <2>2
<1>5. CASE Stuck
  <2>1. line \in Line
    <3>1. Len(text.lines) \in 1 .. Len(text.lines)
      BY <1>2, <1>5, EmptySeq DEF Stuck
    <3>. QED
      BY <1>2, <1>5, <3>1, LenProperties DEF Stuck, Last
  <2>2. ~HasEnd(text)
    BY <1>1, <1>5 DEF Stuck, Short, IsHeader
  <2>3. Stuck'
    BY <1>1, <1>5, <2>2 DEF Stuck, HasEnd, Separators, Short
  <2>4. h_name' \in Seq(Characters)
    BY <1>1, <1>4, <2>1, Shorter DEF Named
  <2>5. NamesLast'
    <3>1. SUFFICES ASSUME pc' = "undefined"
                   PROVE  ~HasEnd(text) /\ Last(text.lines).words = <<>>
      BY <1>1 DEF NamesLast
    <3>. QED
      BY <1>1, <1>4, <1>5, <2>1, <2>2, <3>1 DEF Stuck
  <2>. QED
    BY <1>1, <2>3, <2>4, <2>5 DEF Named
<1>6. ASSUME NEW m \in Nat, m >= 1, Long(text, m), NameLeft(m), At(m + 1), OnLine(m + 1)
      PROVE  Named'
  <2> DEFINE k == m + 1
             W(i) == Worded(text, i)
  <2>1. k \in Nat /\ k >= 2 /\ k - 1 = m /\ k <= Len(text.lines) /\ line = text.lines[k]
    BY <1>6 DEF OnLine
  <2>2. At(k) /\ OnLine(k)
    BY <1>6
  <2>3. 2 .. k = (2 .. m) \cup {k} /\ k \notin 2 .. m /\ W(m) \in SUBSET (0 .. m)
    BY <1>6, <2>1 DEF Worded
  <2>4. line \in Line
    <3>1. k \in 1 .. Len(text.lines)
      BY <2>1
    <3>. QED
      BY <1>2, <2>1, <3>1, LenProperties
  <2>9. W(m) = {} => h_name = <<>>
    BY <1>6 DEF NameLeft
  <2>10. ASSUME W(m) # {}
         PROVE  Len(h_name) = Len(text.lines[Max(W(m))].words[1]) - (k - Max(W(m)))
    BY <1>6, <2>10 DEF NameLeft
  <2> HIDE DEF k
  <2>5. Long(text, k)
    <3>1. ~Short(text.lines[k])
      BY <1>1, <2>1 DEF IsHeader, Short
    <3>. QED
      BY <1>6, <2>3, <3>1 DEF Long
  <2>6. h_name \in Seq(Characters) /\ Len(h_name) \in Nat
    BY LenProperties DEF Named
  <2>7. CASE line.words = <<>>
    <3>1. W(k) = W(m)
      BY <2>1, <2>3, <2>7 DEF Worded
    <3>2. NameRead = h_name
      BY <2>7 DEF NameRead
    <3>3. W(m) # {} => Max(W(m)) \in 0 .. m
      BY <1>6, <2>3, GreatestNumber
    <3>4. Len(h_name) = 0 <=> h_name = <<>>
      BY <2>6, EmptySeq
    <3>5. CASE h_name = <<>>
      <4>1. pc' = "undefined" /\ h_name' = h_name
        BY <1>1, <3>2, <3>5
      <4>2. UsedUp(text, k)
        <5>1. SUFFICES ASSUME W(k) # {}
                       PROVE  Len(text.lines[Max(W(k))].words[1]) <= k - Max(W(k))
          BY DEF UsedUp, Worded
        <5>2. Max(W(k)) \in Nat /\ k \in Nat
          BY <2>1, <3>1, <3>3, <5>1
        <5>3. 0 = Len(text.lines[Max(W(k))].words[1]) - (k - Max(W(k)))
          BY <2>10, <3>1, <3>4, <3>5, <5>1
        <5>4. Len(text.lines[Max(W(k))].words[1]) \in Nat
          <6>1. Max(W(k)) \in W(k)
            BY <1>6, <2>3, <3>1, <5>1, GreatestNumber
          <6>2. Max(W(k)) \in 2 .. k /\ text.lines[Max(W(k))].words # <<>>
            BY <6>1 DEF Worded
          <6>3. Max(W(k)) \in 1 .. Len(text.lines)
            BY <1>2, <2>1, <6>2
          <6>4. text.lines[Max(W(k))] \in Line
            BY <1>2, <6>3, LenProperties
          <6>. QED
            BY <6>2, <6>4, FirstWord, LenProperties
        <5> HIDE DEF W
        <5>. QED
          BY <5>2, <5>3, <5>4
      <4>3. k \in HeaderRows(text)
        <5>1. k < HeaderEnd(text) /\ HeaderEnd(text) \in Nat
          BY <1>1, <1>2, <2>1, <2>5, LongHeader
        <5>. QED
          BY <2>1, <5>1 DEF HeaderRows
      <4>4. \E i \in HeaderRows(text) : UsedUp(text, i)
        BY <4>2, <4>3
      <4>. QED
        BY <1>1, <2>6, <4>1, <4>4 DEF Named, NamesLast, HeaderRows, HeaderEnd, Separators, UsedUp
    <3>6. CASE h_name # <<>>
      <4>1. pc' = "next" /\ h_name' = Front(h_name)
        BY <1>1, <3>2, <3>6
      <4>2. h_name' \in Seq(Characters) /\ Len(h_name') = Len(h_name) - 1
        BY <2>6, <3>6, <4>1, Shorter
      <4>3. NameLeft(k)'
        <5>1. W(k) # {} /\ Len(h_name) = Len(text.lines[Max(W(k))].words[1]) - (k - Max(W(k)))
          BY <2>9, <2>10, <3>1, <3>6
        <5>2. Len(h_name') = Len(text.lines[Max(W(k))].words[1]) - ((k + 1) - Max(W(k)))
          <6> DEFINE x == Max(W(k))
                     l == Len(text.lines[x].words[1])
          <6>1. x \in Nat
            BY <3>1, <3>3, <5>1
          <6>2. l \in Int
            <7>1. x \in W(k)
              BY <1>6, <2>3, <3>1, <5>1, GreatestNumber
            <7>2. x \in 2 .. k /\ text.lines[x].words # <<>>
              BY <7>1 DEF Worded
            <7>3. x \in 1 .. Len(text.lines)
              BY <1>2, <2>1, <7>2
            <7>4. text.lines[x] \in Line
              BY <1>2, <7>3, LenProperties
            <7>5. text.lines[x].words[1] \in Seq(Characters)
              BY <7>2, <7>4, FirstWord
            <7>. QED
              BY <7>5, LenProperties
          <6>3. Len(h_name') = l - (k - x) - 1
            BY <4>2, <5>1
          <6> HIDE DEF x, l
          <6>4. Len(h_name') = l - ((k + 1) - x)
            BY <2>1, <6>1, <6>2, <6>3
          <6>. QED
            BY <6>4 DEF x, l
        <5>. QED
          BY <1>1, <5>1, <5>2 DEF NameLeft, Worded
      <4>4. Long(text, k)' /\ At(k)' /\ OnLine(k)'
        BY <1>1, <2>2, <2>5 DEF Long, At, OnLine
      <4>. QED
        BY <2>1, <4>1, <4>2, <4>3, <4>4 DEF Named, NamesLast
    <3>. QED
      BY <3>5, <3>6
  <2>8. CASE line.words # <<>>
    <3>1. k \in W(k) /\ W(k) # {} /\ \A y \in W(k) : y \in Nat /\ y <= k
      BY <2>1, <2>8 DEF Worded
    <3>2. Max(W(k)) = k
      <4> HIDE DEF W
      <4>1. \A x \in W(k) : (\A y \in W(k) : x >= y) => x = k
        BY <2>1, <3>1
      <4>2. \A y \in W(k) : k >= y
        BY <2>1, <3>1
      <4>. QED
        BY <3>1, <4>1, <4>2 DEF Max
    <3>3. NameRead = text.lines[k].words[1] /\ NameRead # <<>> /\ NameRead \in Seq(Characters)
      BY <2>1, <2>4, <2>8, FirstWord DEF NameRead
    <3>4. pc' = "next" /\ h_name' \in Seq(Characters) /\ Len(h_name') = Len(NameRead) - 1
      BY <1>1, <3>3, Shorter
    <3>5. NameLeft(k)'
      <4>1. (k + 1) - k = 1
        BY <2>1
      <4>2. Len(h_name') = Len(text.lines[Max(W(k))].words[1]) - ((k + 1) - Max(W(k)))
        BY <3>2, <3>3, <3>4, <4>1
      <4>. QED
        BY <1>1, <3>1, <4>2 DEF NameLeft, Worded
    <3>6. Long(text, k)' /\ At(k)' /\ OnLine(k)'
      BY <1>1, <2>2, <2>5 DEF Long, At, OnLine
    <3>. QED
      BY <2>1, <3>4, <3>5, <3>6 DEF Named, NamesLast
  <2>. QED
    BY <2>7, <2>8
<1>. QED
  BY <1>1, <1>3, <1>5, <1>6 DEF Named

LEMMA NamedInductive == Reading /\ Named /\ [Next]_vars => Named'
<1>1. SUFFICES ASSUME Reading, Named, [Next]_vars PROVE Named'
  OBVIOUS
<1>2. CASE UNCHANGED vars
  BY <1>1, <1>2 DEF vars, Named, NamesLast, At, OnLine, Stuck, Long, NameLeft
<1>3. CASE LoopEnds \/ ReadBody
  BY <1>1, <1>3 DEF LoopEnds, ReadBody, Named, NamesLast
<1>. QED
  BY <1>1, <1>2, <1>3, NamedTitle, NamedLine, NamedHeader DEF Next

(* Of every text, of any length and over any words: pop_back() is called for an *)
(* empty name only if lines of blanks have used up the word above them, or the  *)
(* text ends in one without its newline.                                      *)
THEOREM NameNeverEmpty == Spec => []NamesLast
<1>1. Named => NamesLast
  BY DEF Named
<1>2. Init => Reading /\ Named
  BY ReadingAtFirst, NamedAtFirst
<1>3. (Reading /\ Named) /\ [Next]_vars => (Reading /\ Named)'
  BY ReadingInductive, NamedInductive
<1>. QED
  BY <1>1, <1>2, <1>3, PTL DEF Spec

=============================================================================
