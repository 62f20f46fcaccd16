----------------------------- MODULE ParserProofs ----------------------------
(***************************************************************************)
(* What the parser returns is the tree that the grammar gives to the tokens,  *)
(* for scripts of any length over any vocabulary.                             *)
(*                                                                         *)
(* First what the table of the grammar says of sequences of tokens: one lemma *)
(* for each rule (...Reads).  Then what a call promises: Does(v, s, h, i, j,   *)
(* b, d, c, e) says that h reads the tokens of the stream s behind the i-th,   *)
(* up to the j-th, makes the trees c of b and the declarations e of d, and     *)
(* that the grammar gives these trees to these tokens; one lemma for each      *)
(* function and case of the parser says that the calls that it puts on the    *)
(* stack do together what it promised itself (...Does).  Then the invariant,   *)
(* that whatever the tokens still to come are, the calls on the stack, if each *)
(* does what it promises, make a program of what is built; and that every     *)
(* step of the parser keeps it (...Goes).                                    *)
(***************************************************************************)
EXTENDS Grammar, SequenceLemmas

-----------------------------------------------------------------------------
(* Sequences of anything.                                                    *)

IsSeq(q) == \E S : q \in Seq(S)

LEMMA CommonSeq ==
  ASSUME NEW q, NEW r, IsSeq(q), IsSeq(r)
  PROVE  \E S : q \in Seq(S) /\ r \in Seq(S)
<1>1. PICK S : q \in Seq(S)
  BY DEF IsSeq
<1>2. PICK T : r \in Seq(T)
  BY DEF IsSeq
<1>3. q \in Seq(S \cup T) /\ r \in Seq(S \cup T)
  BY <1>1, <1>2, SeqDef
<1>. QED
  BY <1>3

LEMMA ConcatIs ==
  ASSUME NEW q, NEW r, IsSeq(q), IsSeq(r)
  PROVE  /\ IsSeq(q \o r) /\ Len(q) \in Nat /\ Len(r) \in Nat /\ Len(q \o r) = Len(q) + Len(r)
         /\ \A i \in 1 .. Len(q) : (q \o r)[i] = q[i]
         /\ \A i \in 1 .. Len(r) : (q \o r)[Len(q) + i] = r[i]
<1>1. PICK S : q \in Seq(S) /\ r \in Seq(S)
  BY CommonSeq
<1>2. q \o r \in Seq(S) /\ Len(q \o r) = Len(q) + Len(r) /\ Len(q) \in Nat /\ Len(r) \in Nat
  BY <1>1
<1>3. \A i \in 1 .. Len(q) : (q \o r)[i] = q[i]
  BY <1>1, <1>2
<1>4. \A i \in 1 .. Len(r) : (q \o r)[Len(q) + i] = r[i]
  BY <1>1, <1>2
<1>. QED
  BY <1>2, <1>3, <1>4 DEF IsSeq

LEMMA SeqIs ==
  ASSUME NEW q, IsSeq(q)
  PROVE  Len(q) \in Nat /\ DOMAIN q = 1 .. Len(q) /\ q = [i \in 1 .. Len(q) |-> q[i]]
BY DEF IsSeq

LEMMA SameSeq ==
  ASSUME NEW q, NEW r, IsSeq(q), IsSeq(r), Len(q) = Len(r), \A i \in 1 .. Len(q) : q[i] = r[i]
  PROVE  q = r
<1>1. PICK S : q \in Seq(S) /\ r \in Seq(S)
  BY CommonSeq
<1>. QED
  BY <1>1, SeqEqual

LEMMA FunctionIsSeq ==
  ASSUME NEW n \in Nat, NEW q, q = [i \in 1 .. n |-> q[i]]
  PROVE  IsSeq(q) /\ Len(q) = n
<1>1. q \in [1 .. n -> {q[i] : i \in 1 .. n}]
  BY Zenon
<1>2. q \in Seq({q[i] : i \in 1 .. n})
  BY <1>1, SeqDef
<1>3. DOMAIN q = 1 .. n /\ Len(q) \in Nat /\ DOMAIN q = 1 .. Len(q)
  BY <1>1, <1>2
<1>. QED
  BY <1>2, <1>3 DEF IsSeq

LEMMA EmptyIsSeq == IsSeq(<<>>)
<1>1. <<>> \in Seq({})
  OBVIOUS
<1>. QED
  BY <1>1 DEF IsSeq

LEMMA OneIsSeq ==
  ASSUME NEW a
  PROVE  IsSeq(<<a>>) /\ Len(<<a>>) = 1
<1>1. <<a>> \in Seq({a})
  OBVIOUS
<1>. QED
  BY <1>1 DEF IsSeq

LEMMA ConcatEmpty ==
  ASSUME NEW q, IsSeq(q)
  PROVE  q \o <<>> = q /\ <<>> \o q = q
<1>1. PICK S : q \in Seq(S)
  BY DEF IsSeq
<1>. QED
  BY <1>1

LEMMA ConcatAssoc ==
  ASSUME NEW q, NEW r, NEW t, IsSeq(q), IsSeq(r), IsSeq(t)
  PROVE  (q \o r) \o t = q \o (r \o t)
<1>1. PICK S : q \in Seq(S) /\ r \in Seq(S)
  BY CommonSeq
<1>2. PICK T : t \in Seq(T)
  BY DEF IsSeq
<1>3. q \in Seq(S \cup T) /\ r \in Seq(S \cup T) /\ t \in Seq(S \cup T)
  BY <1>1, <1>2, SeqDef
<1>. QED
  BY <1>3, ConcatAssociative

LEMMA TwoOf ==
  ASSUME NEW a, NEW b
  PROVE  <<a>> \o <<b>> = <<a, b>>
<1> DEFINE S == {a, b}
           q == <<a>> \o <<b>>
<1>1. <<a>> \in Seq(S) /\ <<b>> \in Seq(S) /\ <<a, b>> \in Seq(S)
  OBVIOUS
<1>2. Len(<<a>>) = 1 /\ Len(<<b>>) = 1 /\ Len(<<a, b>>) = 2
  OBVIOUS
<1>3. q \in Seq(S) /\ Len(q) = 2 /\ \A i \in 1 .. 1 : q[i] = <<a>>[i]
  BY <1>1, <1>2, ConcatProperties
<1>4. q[2] = <<b>>[1]
  BY <1>1, <1>2, ConcatProperties
<1> HIDE DEF q
<1>5. \A i \in 1 .. 2 : q[i] = <<a, b>>[i]
  BY <1>3, <1>4
<1>6. q = <<a, b>>
  BY <1>1, <1>2, <1>3, <1>5, SeqEqual
<1>. QED
  BY <1>6 DEF q

LEMMA ThreeOf ==
  ASSUME NEW a, NEW b, NEW c
  PROVE  <<a, b>> \o <<c>> = <<a, b, c>>
<1> DEFINE S == {a, b, c}
           q == <<a, b>> \o <<c>>
<1>1. <<a, b>> \in Seq(S) /\ <<c>> \in Seq(S) /\ <<a, b, c>> \in Seq(S)
  OBVIOUS
<1>2. Len(<<a, b>>) = 2 /\ Len(<<c>>) = 1 /\ Len(<<a, b, c>>) = 3
  OBVIOUS
<1>3. q \in Seq(S) /\ Len(q) = 3 /\ \A i \in 1 .. 2 : q[i] = <<a, b>>[i]
  BY <1>1, <1>2, ConcatProperties
<1>4. q[3] = <<c>>[1]
  BY <1>1, <1>2, ConcatProperties
<1> HIDE DEF q
<1>5. \A i \in 1 .. 3 : q[i] = <<a, b, c>>[i]
  BY <1>3, <1>4
<1>6. q = <<a, b, c>>
  BY <1>1, <1>2, <1>3, <1>5, SeqEqual
<1>. QED
  BY <1>6 DEF q

LEMMA FourOf ==
  ASSUME NEW a, NEW b, NEW c, NEW d
  PROVE  <<a, b, c>> \o <<d>> = <<a, b, c, d>>
<1> DEFINE S == {a, b, c, d}
           q == <<a, b, c>> \o <<d>>
<1>1. <<a, b, c>> \in Seq(S) /\ <<d>> \in Seq(S) /\ <<a, b, c, d>> \in Seq(S)
  OBVIOUS
<1>2. Len(<<a, b, c>>) = 3 /\ Len(<<d>>) = 1 /\ Len(<<a, b, c, d>>) = 4
  OBVIOUS
<1>3. q \in Seq(S) /\ Len(q) = 4 /\ \A i \in 1 .. 3 : q[i] = <<a, b, c>>[i]
  BY <1>1, <1>2, ConcatProperties
<1>4. q[4] = <<d>>[1]
  BY <1>1, <1>2, ConcatProperties
<1> HIDE DEF q
<1>5. \A i \in 1 .. 4 : q[i] = <<a, b, c, d>>[i]
  BY <1>3, <1>4
<1>6. q = <<a, b, c, d>>
  BY <1>1, <1>2, <1>3, <1>5, SeqEqual
<1>. QED
  BY <1>6 DEF q

(* A sequence with something put in front of it.                              *)
LEMMA Pushed ==
  ASSUME NEW a, NEW q, IsSeq(q)
  PROVE  /\ IsSeq(<<a>> \o q) /\ Len(<<a>> \o q) = Len(q) + 1 /\ Len(q) \in Nat
         /\ <<a>> \o q # <<>> /\ Head(<<a>> \o q) = a /\ (<<a>> \o q)[1] = a
         /\ Tail(<<a>> \o q) = q
         /\ \A i \in 1 .. Len(q) : (<<a>> \o q)[i + 1] = q[i]
<1>1. PICK S : q \in Seq(S)
  BY DEF IsSeq
<1>2. <<a>> \in Seq(S \cup {a}) /\ q \in Seq(S \cup {a})
  BY <1>1, SeqDef
<1>3. <<a>> \o q \in Seq(S \cup {a}) /\ Len(<<a>> \o q) = Len(q) + 1 /\ Len(q) \in Nat
  BY <1>2
<1>4. Head(<<a>> \o q) = a /\ (<<a>> \o q)[1] = a /\ <<a>> \o q # <<>>
  BY <1>2, <1>3
<1>5. \A i \in 1 .. Len(q) : (<<a>> \o q)[i + 1] = q[i]
  BY <1>2, <1>3
<1>6. Tail(<<a>> \o q) = q
  <2>1. Tail(<<a>> \o q) \in Seq(S \cup {a}) /\ Len(Tail(<<a>> \o q)) = Len(q)
    BY <1>3, <1>4, HeadTailProperties
  <2>2. \A i \in 1 .. Len(q) : Tail(<<a>> \o q)[i] = (<<a>> \o q)[i + 1]
    BY <1>3, <1>4, HeadTailProperties
  <2>. QED
    BY <1>2, <1>5, <2>1, <2>2, SeqEqual
<1>. QED
  BY <1>3, <1>4, <1>5, <1>6 DEF IsSeq

-----------------------------------------------------------------------------
(* A stream is what the lexer returns for a script: its tokens, of which there *)
(* are not more than the vocabulary allows, and then the end.                  *)
Streams(v) ==
  {s \in [Nat -> v.tokens \cup {END}] : \A m \in Nat : m > v.most => s[m] = END}

(* The tokens behind the i-th, up to the j-th.                               *)
Slice(s, i, j) == [m \in 1 .. j - i |-> s[i + m]]

(* They are tokens of the script.                                            *)
Real(v, s, i, j) ==
  i \in Nat /\ j \in Nat /\ i <= j /\ \A m \in i + 1 .. j : s[m] \in v.tokens

LEMMA RealBelow ==
  ASSUME NEW v \in Vocabularies, NEW s \in Streams(v), NEW i, NEW j, Real(v, s, i, j), i < j
  PROVE  j <= v.most
<1>1. s[j] \in v.tokens
  BY DEF Real
<1>. QED
  BY <1>1, VocabularyAssumption DEF Real, Streams

LEMMA RealOn ==
  ASSUME NEW v, NEW s, NEW i, NEW m, NEW j, Real(v, s, i, m), Real(v, s, m, j)
  PROVE  Real(v, s, i, j)
BY DEF Real

LEMMA SliceIs ==
  ASSUME NEW s, NEW i \in Nat, NEW j \in Nat, i <= j
  PROVE  IsSeq(Slice(s, i, j)) /\ Len(Slice(s, i, j)) = j - i
<1>1. j - i \in Nat /\ Slice(s, i, j) = [m \in 1 .. j - i |-> Slice(s, i, j)[m]]
  BY DEF Slice
<1>. QED
  BY <1>1, FunctionIsSeq

LEMMA SliceOn ==
  ASSUME NEW s, NEW i \in Nat, NEW m \in Nat, NEW j \in Nat, i <= m, m <= j
  PROVE  Slice(s, i, m) \o Slice(s, m, j) = Slice(s, i, j)
<1> DEFINE a == Slice(s, i, m)
           b == Slice(s, m, j)
<1>1. IsSeq(a) /\ IsSeq(b) /\ IsSeq(Slice(s, i, j))
      /\ Len(a) = m - i /\ Len(b) = j - m /\ Len(Slice(s, i, j)) = j - i
  BY SliceIs
<1>2. IsSeq(a \o b) /\ Len(a \o b) = j - i
      /\ (\A k \in 1 .. m - i : (a \o b)[k] = a[k])
      /\ \A k \in 1 .. j - m : (a \o b)[(m - i) + k] = b[k]
  BY <1>1, ConcatIs
<1>3. \A k \in 1 .. m - i : (a \o b)[k] = s[i + k]
  BY <1>2 DEF Slice
<1>4. ASSUME NEW k \in 1 .. j - i, k > m - i PROVE (a \o b)[k] = s[i + k]
  <2>1. k - (m - i) \in 1 .. j - m /\ (m - i) + (k - (m - i)) = k /\ m + (k - (m - i)) = i + k
    BY <1>4
  <2>2. b[k - (m - i)] = s[m + (k - (m - i))]
    BY <2>1 DEF Slice
  <2>. QED
    BY <1>2, <2>1, <2>2
<1>5. \A k \in 1 .. j - i : (a \o b)[k] = s[i + k] /\ Slice(s, i, j)[k] = s[i + k]
  BY <1>3, <1>4 DEF Slice
<1> HIDE DEF a, b
<1>6. a \o b = Slice(s, i, j)
  BY <1>1, <1>2, <1>5, SameSeq
<1>. QED
  BY <1>6 DEF a, b

LEMMA SliceOne ==
  ASSUME NEW s, NEW i \in Nat
  PROVE  Slice(s, i, i + 1) = <<s[i + 1]>>
<1>0. i + 1 \in Nat /\ i <= i + 1 /\ (i + 1) - i = 1
  OBVIOUS
<1>1. IsSeq(Slice(s, i, i + 1)) /\ Len(Slice(s, i, i + 1)) = 1
  BY <1>0, SliceIs, Zenon
<1>2. Slice(s, i, i + 1)[1] = s[i + 1]
  BY DEF Slice
<1>3. IsSeq(<<s[i + 1]>>) /\ Len(<<s[i + 1]>>) = 1 /\ <<s[i + 1]>>[1] = s[i + 1]
  BY OneIsSeq
<1>. QED
  BY <1>1, <1>2, <1>3, SameSeq

LEMMA SliceNone ==
  ASSUME NEW s, NEW i \in Nat
  PROVE  Slice(s, i, i) = <<>>
<1>1. IsSeq(Slice(s, i, i)) /\ Len(Slice(s, i, i)) = 0
  BY SliceIs
<1>. QED
  BY <1>1 DEF IsSeq

-----------------------------------------------------------------------------
(* The table of the grammar.                                                 *)

Below(v, n) == IF n = 0 THEN <<>> ELSE Table(v)[n - 1]

(* What x may be in n tokens.                                                *)
Possible(v, x, n) == Table(v)[n][n][x]

LEMMA MostNat ==
  ASSUME NEW v \in Vocabularies
  PROVE  v.most \in Nat
BY VocabularyAssumption

LEMMA TableAt ==
  ASSUME NEW v \in Vocabularies, NEW n \in 0 .. v.most
  PROVE  Table(v)[n] = [m \in 0 .. n |-> IF m = n THEN Row(v, Below(v, n), n) ELSE Below(v, n)[m]]
<1> DEFINE Shorter(h, w) == IF h = 0 THEN <<>> ELSE w
           F(h, w) == [m \in 0 .. h |-> IF m = h THEN Row(v, Shorter(h, w), h) ELSE Shorter(h, w)[m]]
           Upto(h, g) == g = [i \in 0 .. h |-> F(i, g[i - 1])]
           G == {h \in Nat : \E g : Upto(h, g)}
<1>1. \A w, u : F(0, w) = F(0, u)
  OBVIOUS
<1>2. 0 \in G
  <2> DEFINE k == [h \in 0 .. 0 |-> F(0, {})]
  <2>1. \A h \in 0 .. 0 : k[h] = F(h, k[h - 1])
    <3>1. \A h \in 0 .. 0 : h = 0 /\ k[h] = F(0, {})
      OBVIOUS
    <3> HIDE DEF F, k
    <3>. QED
      BY <1>1, <3>1
  <2>2. k = [h \in 0 .. 0 |-> k[h]]
    OBVIOUS
  <2>3. Upto(0, k)
    <3> HIDE DEF k, F
    <3>. QED
      BY <2>1, <2>2
  <2> HIDE DEF Upto, k
  <2>. QED
    BY <2>3
<1>3. ASSUME NEW h \in Nat, h \in G PROVE h + 1 \in G
  <2>1. PICK g : Upto(h, g)
    BY <1>3
  <2> DEFINE k == [i \in 0 .. h + 1 |-> IF i = h + 1 THEN F(i, g[h]) ELSE g[i]]
  <2>2. ASSUME NEW i \in 0 .. h + 1 PROVE k[i] = F(i, k[i - 1])
    <3> HIDE DEF F
    <3>1. CASE i = h + 1
      <4>1. k[i] = F(i, g[h]) /\ k[h] = g[h] /\ i - 1 = h
        BY <3>1
      <4>. QED
        BY <4>1
    <3>2. CASE i \in 0 .. h
      <4>1. k[i] = g[i] /\ (i # 0 => k[i - 1] = g[i - 1])
        BY <3>2
      <4>2. g[i] = F(i, g[i - 1])
        BY <2>1, <3>2
      <4>3. i = 0 => F(i, g[i - 1]) = F(i, k[i - 1])
        BY <1>1, Zenon
      <4>. QED
        BY <4>1, <4>2, <4>3
    <3>. QED
      BY <3>1, <3>2
  <2>3. k = [i \in 0 .. h + 1 |-> k[i]]
    OBVIOUS
  <2>4. Upto(h + 1, k)
    <3> HIDE DEF k, F
    <3>. QED
      BY <2>2, <2>3
  <2> HIDE DEF Upto, k
  <2>. QED
    BY <2>4
<1>4. PICK g : Upto(v.most, g)
  <2>1. v.most \in G
    <3> HIDE DEF G
    <3>. QED
      BY <1>2, <1>3, Induction, MostNat
  <2>. QED
    BY <2>1
<1>5. Upto(v.most, Table(v))
  BY <1>4 DEF Table
<1>6. Table(v)[n] = F(n, Table(v)[n - 1])
  <2> HIDE DEF F
  <2>. QED
    BY <1>5
<1>. QED
  BY <1>6 DEF Below

LEMMA RowKept ==
  ASSUME NEW v \in Vocabularies, NEW n \in 0 .. v.most
  PROVE  \A i \in 0 .. n : Table(v)[n][i] = Table(v)[i][i]
<1> DEFINE Good(h) == \A i \in 0 .. h : Table(v)[h][i] = Table(v)[i][i]
           G == {h \in Nat : h <= v.most => Good(h)}
<1>1. 0 \in G
  OBVIOUS
<1>2. ASSUME NEW h \in Nat, h \in G PROVE h + 1 \in G
  <2>1. SUFFICES ASSUME h + 1 <= v.most, NEW i \in 0 .. h + 1
                 PROVE  Table(v)[h + 1][i] = Table(v)[i][i]
    OBVIOUS
  <2>2. Good(h)
    BY <1>2, <2>1, MostNat
  <2>3. h + 1 \in 0 .. v.most /\ (h + 1) - 1 = h /\ h + 1 # 0
    BY <2>1, MostNat
  <2>4. CASE i \in 0 .. h
    <3>0. Table(v)[h + 1] = [m \in 0 .. h + 1 |->
             IF m = h + 1 THEN Row(v, Below(v, h + 1), h + 1) ELSE Below(v, h + 1)[m]]
      BY <2>3, TableAt
    <3>1. Table(v)[h + 1][i] = Below(v, h + 1)[i]
      BY <2>4, <3>0
    <3>2. Below(v, h + 1) = Table(v)[h]
      BY <2>3 DEF Below
    <3>. QED
      BY <2>2, <2>4, <3>1, <3>2
  <2>. QED
    BY <2>4
<1>3. n \in G
  <2> HIDE DEF G
  <2>. QED
    BY <1>1, <1>2, Induction
<1>. QED
  BY <1>3

LEMMA PossibleBelow ==
  ASSUME NEW v \in Vocabularies, NEW n \in 0 .. v.most, NEW i \in 0 .. n - 1, NEW x
  PROVE  Below(v, n)[i][x] = Possible(v, x, i)
<1>1. n # 0 /\ n - 1 \in 0 .. v.most
  BY MostNat
<1>. QED
  BY <1>1, RowKept DEF Below, Possible

LEMMA PossibleRow ==
  ASSUME NEW v \in Vocabularies, NEW n \in 0 .. v.most, NEW x
  PROVE  Possible(v, x, n) = Row(v, Below(v, n), n)[x]
<1>1. Table(v)[n] = [m \in 0 .. n |-> IF m = n THEN Row(v, Below(v, n), n) ELSE Below(v, n)[m]]
  BY TableAt
<1>2. n \in 0 .. n
  BY MostNat
<1>3. Table(v)[n][n] = Row(v, Below(v, n), n)
  BY <1>1, <1>2
<1>. QED
  BY <1>3 DEF Possible

NextStart(v, shorter, n, symbols, k, start) ==
  IF k = 0 THEN [m \in 0 .. n |-> IF m = 0 THEN {Nothing} ELSE {}]
           ELSE Longer(v, shorter, n, start, symbols[k])

LEMMA StartsAt ==
  ASSUME NEW v, NEW shorter, NEW n, NEW symbols, Len(symbols) \in Nat,
         NEW k \in 0 .. Len(symbols)
  PROVE  Starts(v, shorter, n, symbols)[k] =
           NextStart(v, shorter, n, symbols, k, Starts(v, shorter, n, symbols)[k - 1])
<1> DEFINE F(h, w) == NextStart(v, shorter, n, symbols, h, w)
           Upto(h, g) == g = [i \in 0 .. h |-> F(i, g[i - 1])]
           G == {h \in Nat : \E g : Upto(h, g)}
<1>1. \A w, u : F(0, w) = F(0, u)
  BY DEF NextStart
<1> HIDE DEF F
<1>2. 0 \in G
  <2> DEFINE g == [h \in 0 .. 0 |-> F(0, {})]
  <2>1. \A h \in 0 .. 0 : g[h] = F(h, g[h - 1])
    <3>1. \A h \in 0 .. 0 : h = 0 /\ g[h] = F(0, {})
      OBVIOUS
    <3> HIDE DEF g
    <3>. QED
      BY <1>1, <3>1
  <2>2. g = [h \in 0 .. 0 |-> g[h]]
    OBVIOUS
  <2>3. Upto(0, g)
    <3> HIDE DEF g
    <3>. QED
      BY <2>1, <2>2
  <2> HIDE DEF Upto, g
  <2>. QED
    BY <2>3
<1>3. ASSUME NEW h \in Nat, h \in G PROVE h + 1 \in G
  <2>1. PICK g : Upto(h, g)
    BY <1>3
  <2> DEFINE f == [i \in 0 .. h + 1 |-> IF i = h + 1 THEN F(i, g[h]) ELSE g[i]]
  <2>2. ASSUME NEW i \in 0 .. h + 1 PROVE f[i] = F(i, f[i - 1])
    <3>1. CASE i = h + 1
      <4>1. f[i] = F(i, g[h]) /\ f[h] = g[h] /\ i - 1 = h
        BY <3>1
      <4>. QED
        BY <4>1
    <3>2. CASE i \in 0 .. h
      <4>1. f[i] = g[i] /\ (i # 0 => f[i - 1] = g[i - 1])
        BY <3>2
      <4>2. g[i] = F(i, g[i - 1])
        BY <2>1, <3>2
      <4>3. i = 0 => F(i, g[i - 1]) = F(i, f[i - 1])
        BY <1>1, Zenon
      <4>. QED
        BY <4>1, <4>2, <4>3
    <3>. QED
      BY <3>1, <3>2
  <2>3. f = [i \in 0 .. h + 1 |-> f[i]]
    OBVIOUS
  <2>4. Upto(h + 1, f)
    <3> HIDE DEF f
    <3>. QED
      BY <2>2, <2>3
  <2> HIDE DEF Upto, f
  <2>. QED
    BY <2>4
<1>4. PICK g : Upto(Len(symbols), g)
  <2>1. Len(symbols) \in G
    <3> HIDE DEF G
    <3>. QED
      BY <1>2, <1>3, Induction
  <2>. QED
    BY <2>1
<1>5. Upto(Len(symbols), Starts(v, shorter, n, symbols))
  BY <1>4 DEF Starts, F, NextStart
<1>6. Starts(v, shorter, n, symbols)[k] = F(k, Starts(v, shorter, n, symbols)[k - 1])
  BY <1>5
<1>. QED
  BY <1>6 DEF F

LEMMA StartsNext ==
  ASSUME NEW v, NEW shorter, NEW n, NEW symbols, Len(symbols) \in Nat,
         NEW k \in 1 .. Len(symbols)
  PROVE  Starts(v, shorter, n, symbols)[k] =
           Longer(v, shorter, n, Starts(v, shorter, n, symbols)[k - 1], symbols[k])
<1>1. k \in 0 .. Len(symbols) /\ k # 0
  OBVIOUS
<1>2. Starts(v, shorter, n, symbols)[k] =
        NextStart(v, shorter, n, symbols, k, Starts(v, shorter, n, symbols)[k - 1])
  BY <1>1, StartsAt
<1>. QED
  BY <1>1, <1>2 DEF NextStart

LEMMA PossibleIs ==
  ASSUME NEW v \in Vocabularies, NEW n \in 0 .. v.most, NEW rule \in Rules, NEW x \in rule[1],
         NEW r \in Starts(v, Below(v, n), n, rule[2])[Len(rule[2])][n]
  PROVE  Build(rule[3], r) \in Possible(v, x, n)
<1> DEFINE Made(q) == {Build(q[3], s) : s \in Starts(v, Below(v, n), n, q[2])[Len(q[2])][n]}
           made == {<<q[1], Made(q)>> : q \in Rules}
<1>1. x \in Symbols
  BY DEF Symbols
<1>2. Row(v, Below(v, n), n)[x] = UNION {m[2] : m \in {q \in made : x \in q[1]}}
  BY <1>1 DEF Row
<1>3. Build(rule[3], r) \in Made(rule)
  OBVIOUS
<1> HIDE DEF Made
<1>4. <<rule[1], Made(rule)>> \in {q \in made : x \in q[1]}
  OBVIOUS
<1> HIDE DEF made
<1>5. Made(rule) \in {m[2] : m \in {q \in made : x \in q[1]}}
  BY <1>4
<1>6. Build(rule[3], r) \in Row(v, Below(v, n), n)[x]
  BY <1>2, <1>3, <1>5
<1>. QED
  BY <1>6, PossibleRow

-----------------------------------------------------------------------------
(* What the grammar says of the tokens behind the i-th, up to the j-th: that x   *)
(* may be them, with these trees and declarations ...                         *)
Written(s, i, j, ts, ds) == [tokens |-> Slice(s, i, j), trees |-> ts, declarations |-> ds]
Derived(v, s, x, i, j, ts, ds) ==
  /\ Real(v, s, i, j) /\ IsSeq(ts) /\ IsSeq(ds)
  /\ Written(s, i, j, ts, ds) \in Possible(v, x, j - i)

(* ... or that the first k symbols may be.  If b is 1 they are a single symbol,  *)
(* which is not known to be part of something longer yet.                     *)
Begun(v, s, symbols, k, b, i, j, ts, ds) ==
  /\ Real(v, s, i, j) /\ IsSeq(ts) /\ IsSeq(ds)
  /\ \A n \in 0 .. v.most :
       n >= b + (j - i) =>
         Written(s, i, j, ts, ds) \in Starts(v, Below(v, n), n, symbols)[k][j - i]

LEMMA RealLength ==
  ASSUME NEW v \in Vocabularies, NEW s \in Streams(v), NEW i, NEW j, Real(v, s, i, j)
  PROVE  j - i \in 0 .. v.most
<1>1. CASE i = j
  BY <1>1, MostNat DEF Real
<1>2. CASE i < j
  BY <1>2, RealBelow, MostNat DEF Real
<1>. QED
  BY <1>1, <1>2 DEF Real

LEMMA BeginNothing ==
  ASSUME NEW v \in Vocabularies, NEW s \in Streams(v), NEW i \in Nat, NEW symbols, Len(symbols) \in Nat
  PROVE  Begun(v, s, symbols, 0, 0, i, i, <<>>, <<>>)
<1>1. Real(v, s, i, i)
  BY DEF Real
<1>2. ASSUME NEW n \in 0 .. v.most
      PROVE  Written(s, i, i, <<>>, <<>>) \in Starts(v, Below(v, n), n, symbols)[0][i - i]
  <2>1. Starts(v, Below(v, n), n, symbols)[0] = [m \in 0 .. n |-> IF m = 0 THEN {Nothing} ELSE {}]
    <3>1. 0 \in 0 .. Len(symbols)
      OBVIOUS
    <3>2. Starts(v, Below(v, n), n, symbols)[0] =
            NextStart(v, Below(v, n), n, symbols, 0, Starts(v, Below(v, n), n, symbols)[0 - 1])
      BY <3>1, StartsAt
    <3>. QED
      BY <3>2 DEF NextStart
  <2>2. i - i = 0 /\ 0 \in 0 .. n
    BY MostNat
  <2>3. Written(s, i, i, <<>>, <<>>) = Nothing
    BY SliceNone DEF Written, Nothing
  <2>. QED
    BY <2>1, <2>2, <2>3
<1>. QED
  BY <1>1, <1>2, EmptyIsSeq DEF Begun

(* The next token is the next symbol.                                        *)
LEMMA BeginToken ==
  ASSUME NEW v \in Vocabularies, NEW s \in Streams(v), NEW i, NEW j, NEW ts, NEW ds,
         NEW symbols, Len(symbols) \in Nat, NEW k \in 1 .. Len(symbols), NEW b \in {0, 1},
         symbols[k] \notin Symbols, s[j + 1] = symbols[k], s[j + 1] \in v.tokens,
         Begun(v, s, symbols, k - 1, b, i, j, ts, ds)
  PROVE  Begun(v, s, symbols, k, 0, i, j + 1, ts, ds)
<1>1. i \in Nat /\ j \in Nat /\ i <= j /\ IsSeq(ts) /\ IsSeq(ds) /\ Real(v, s, i, j)
  BY DEF Begun, Real
<1>2. Real(v, s, i, j + 1)
  BY <1>1 DEF Real
<1>3. ASSUME NEW n \in 0 .. v.most, n >= (j + 1) - i
      PROVE  Written(s, i, j + 1, ts, ds) \in Starts(v, Below(v, n), n, symbols)[k][(j + 1) - i]
  <2> DEFINE start == Starts(v, Below(v, n), n, symbols)[k - 1]
  <2>1. Starts(v, Below(v, n), n, symbols)[k] = Longer(v, Below(v, n), n, start, symbols[k])
    BY StartsNext
  <2>2. (j + 1) - i \in 0 .. n /\ (j + 1) - i # 0 /\ ((j + 1) - i) - 1 = j - i
    BY <1>1, <1>3, MostNat
  <2>3. Longer(v, Below(v, n), n, start, symbols[k])[(j + 1) - i] =
          {Then(p, Token(symbols[k])) : p \in start[j - i]}
    <3> HIDE DEF start
    <3>. QED
      BY <2>2 DEF Longer
  <2>4. Written(s, i, j, ts, ds) \in start[j - i]
    <3>1. n >= b + (j - i)
      BY <1>1, <1>3, MostNat
    <3>. QED
      BY <3>1 DEF Begun
  <2>5. Written(s, i, j + 1, ts, ds) = Then(Written(s, i, j, ts, ds), Token(symbols[k]))
    <3>1. Slice(s, i, j) \o <<symbols[k]>> = Slice(s, i, j + 1)
      <4>1. j + 1 \in Nat /\ j <= j + 1
        BY <1>1
      <4>2. Slice(s, i, j) \o Slice(s, j, j + 1) = Slice(s, i, j + 1)
        BY <1>1, <4>1, SliceOn
      <4>3. Slice(s, j, j + 1) = <<s[j + 1]>>
        BY <1>1, SliceOne
      <4>. QED
        BY <4>2, <4>3
    <3>2. ts \o <<>> = ts /\ ds \o <<>> = ds
      BY <1>1, ConcatEmpty
    <3>3. /\ Token(symbols[k]).tokens = <<symbols[k]>> /\ Token(symbols[k]).trees = <<>>
          /\ Token(symbols[k]).declarations = <<>>
      BY DEF Token, Nothing
    <3>. QED
      BY <3>1, <3>2, <3>3 DEF Then, Written
  <2> HIDE DEF start
  <2>. QED
    BY <2>1, <2>3, <2>4, <2>5
<1>4. \A n \in 0 .. v.most : n >= 0 + ((j + 1) - i) => n >= (j + 1) - i
  BY <1>1
<1>. QED
  BY <1>1, <1>2, <1>3, <1>4 DEF Begun

LEMMA LongerSymbol ==
  ASSUME NEW v, NEW shorter, NEW n \in Nat, NEW start, NEW x \in Symbols,
         NEW m \in 0 .. n, NEW i \in 0 .. m, i # n, NEW p \in start[m - i], NEW q \in shorter[i][x]
  PROVE  Then(p, q) \in Longer(v, shorter, n, start, x)[m]
<1> DEFINE All1(l) == LET last == shorter[l][x] IN
                        IF last = {} THEN {} ELSE {Then(r, s) : r \in start[m - l], s \in last}
<1>1. Longer(v, shorter, n, start, x)[m] = UNION {All1(l) : l \in (0 .. m) \ {n}}
  BY DEF Longer
<1>2. Then(p, q) \in All1(i)
  OBVIOUS
<1> HIDE DEF All1
<1>3. i \in (0 .. m) \ {n}
  OBVIOUS
<1>. QED
  BY <1>1, <1>2, <1>3

(* What comes next may be the next symbol.                                    *)
LEMMA BeginSymbol ==
  ASSUME NEW v \in Vocabularies, NEW s \in Streams(v), NEW i, NEW m, NEW j,
         NEW ts, NEW ds, NEW us, NEW es,
         NEW symbols, Len(symbols) \in Nat, NEW k \in 1 .. Len(symbols), NEW b \in {0, 1},
         symbols[k] \in Symbols, Derived(v, s, symbols[k], m, j, us, es),
         Begun(v, s, symbols, k - 1, b, i, m, ts, ds), i < m, m < j \/ b = 0
  PROVE  Begun(v, s, symbols, k, 0, i, j, ts \o us, ds \o es)
<1>1. /\ i \in Nat /\ m \in Nat /\ j \in Nat /\ i <= m /\ m <= j
      /\ IsSeq(ts) /\ IsSeq(ds) /\ IsSeq(us) /\ IsSeq(es)
  BY DEF Begun, Derived, Real
<1>2. Real(v, s, i, j)
  BY RealOn DEF Begun, Derived
<1>3. ASSUME NEW n \in 0 .. v.most, n >= j - i
      PROVE  Written(s, i, j, ts \o us, ds \o es)
               \in Starts(v, Below(v, n), n, symbols)[k][j - i]
  <2> DEFINE start == Starts(v, Below(v, n), n, symbols)[k - 1]
  <2>1. Starts(v, Below(v, n), n, symbols)[k] = Longer(v, Below(v, n), n, start, symbols[k])
    BY StartsNext
  <2>2. n \in Nat /\ j - i \in 0 .. n /\ j - m \in 0 .. j - i /\ j - m # n /\ j - m \in 0 .. n - 1
        /\ (j - i) - (j - m) = m - i
    BY <1>1, <1>3, MostNat
  <2>3. Written(s, i, m, ts, ds) \in start[m - i]
    <3>1. n >= b + (m - i)
      BY <1>1, <1>3, MostNat
    <3>. QED
      BY <3>1 DEF Begun
  <2>4. Written(s, m, j, us, es) \in Below(v, n)[j - m][symbols[k]]
    BY <2>2, PossibleBelow DEF Derived
  <2>5. Written(s, i, j, ts \o us, ds \o es)
          = Then(Written(s, i, m, ts, ds), Written(s, m, j, us, es))
    BY <1>1, SliceOn DEF Then, Written
  <2> HIDE DEF start
  <2>6. Then(Written(s, i, m, ts, ds), Written(s, m, j, us, es))
          \in Longer(v, Below(v, n), n, start, symbols[k])[j - i]
    BY <2>2, <2>3, <2>4, LongerSymbol
  <2>. QED
    BY <2>1, <2>5, <2>6
<1>4. \A n \in 0 .. v.most : n >= 0 + (j - i) => n >= j - i
  BY <1>1
<1>. QED
  BY <1>1, <1>2, <1>3, <1>4, ConcatIs DEF Begun

LEMMA BeginFirst ==
  ASSUME NEW v \in Vocabularies, NEW s \in Streams(v), NEW i, NEW j, NEW us, NEW es,
         NEW symbols, Len(symbols) \in Nat \ {0},
         symbols[1] \in Symbols, Derived(v, s, symbols[1], i, j, us, es)
  PROVE  Begun(v, s, symbols, 1, 1, i, j, us, es)
<1>1. i \in Nat /\ j \in Nat /\ i <= j /\ IsSeq(us) /\ IsSeq(es) /\ Real(v, s, i, j)
  BY DEF Derived, Real
<1>2. Begun(v, s, symbols, 0, 0, i, i, <<>>, <<>>)
  BY <1>1, BeginNothing
<1>3. ASSUME NEW n \in 0 .. v.most, n >= 1 + (j - i)
      PROVE  Written(s, i, j, us, es) \in Starts(v, Below(v, n), n, symbols)[1][j - i]
  <2> DEFINE start == Starts(v, Below(v, n), n, symbols)[0]
  <2>1. Starts(v, Below(v, n), n, symbols)[1] = Longer(v, Below(v, n), n, start, symbols[1])
    <3>1. 1 \in 1 .. Len(symbols) /\ 1 - 1 = 0
      OBVIOUS
    <3>. QED
      BY <3>1, StartsNext
  <2>2. n \in Nat /\ j - i \in 0 .. n /\ j - i \in 0 .. j - i /\ j - i # n /\ j - i \in 0 .. n - 1
        /\ (j - i) - (j - i) = 0 /\ i - i = 0
    BY <1>1, <1>3, MostNat
  <2>3. Written(s, i, i, <<>>, <<>>) \in start[0]
    <3>1. n >= 0 + (i - i)
      BY <2>2
    <3>. QED
      BY <1>2, <2>2, <3>1 DEF Begun
  <2>4. Written(s, i, j, us, es) \in Below(v, n)[j - i][symbols[1]]
    BY <2>2, PossibleBelow DEF Derived
  <2>5. Written(s, i, j, us, es) = Then(Written(s, i, i, <<>>, <<>>), Written(s, i, j, us, es))
    <3>0. i <= i
      BY <1>1
    <3>1. Slice(s, i, i) \o Slice(s, i, j) = Slice(s, i, j)
      BY <1>1, <3>0, SliceOn
    <3>2. <<>> \o us = us /\ <<>> \o es = es
      BY <1>1, ConcatEmpty
    <3>. QED
      BY <3>1, <3>2 DEF Then, Written
  <2> HIDE DEF start
  <2>6. Then(Written(s, i, i, <<>>, <<>>), Written(s, i, j, us, es))
          \in Longer(v, Below(v, n), n, start, symbols[1])[j - i]
    BY <2>2, <2>3, <2>4, LongerSymbol
  <2>. QED
    BY <2>1, <2>5, <2>6
<1>. QED
  BY <1>1, <1>3 DEF Begun

(* All the symbols of a rule.                                                 *)
LEMMA RuleEnds ==
  ASSUME NEW v \in Vocabularies, NEW s \in Streams(v), NEW i, NEW j, NEW ts, NEW ds,
         NEW rule \in Rules, NEW x \in rule[1],
         Begun(v, s, rule[2], Len(rule[2]), 0, i, j, ts, ds)
  PROVE  Build(rule[3], Written(s, i, j, ts, ds)) \in Possible(v, x, j - i)
<1>1. j - i \in 0 .. v.most /\ j - i >= 0 + (j - i)
  BY RealLength DEF Begun, Real
<1>2. Written(s, i, j, ts, ds)
        \in Starts(v, Below(v, j - i), j - i, rule[2])[Len(rule[2])][j - i]
  BY <1>1 DEF Begun
<1>. QED
  BY <1>1, <1>2, PossibleIs

LEMMA RuleSays ==
  ASSUME NEW v \in Vocabularies, NEW s \in Streams(v), NEW i, NEW j, NEW ts, NEW ds,
         NEW heads, NEW symbols, <<heads, symbols, <<>>>> \in Rules, NEW x \in heads,
         Begun(v, s, symbols, Len(symbols), 0, i, j, ts, ds)
  PROVE  Derived(v, s, x, i, j, ts, ds)
<1> DEFINE rule == <<heads, symbols, <<>>>>
<1>1. Build(rule[3], Written(s, i, j, ts, ds)) \in Possible(v, x, j - i)
  BY RuleEnds
<1>2. Build(<<>>, Written(s, i, j, ts, ds)) = Written(s, i, j, ts, ds)
  BY DEF Build
<1>. QED
  BY <1>1, <1>2 DEF Derived, Begun

LEMMA RuleMakes ==
  ASSUME NEW v \in Vocabularies, NEW s \in Streams(v), NEW i, NEW j, NEW ts, NEW ds,
         NEW heads, NEW symbols, NEW node, <<heads, symbols, node>> \in Rules, NEW x \in heads,
         node # <<>>, node[1] # "VariableDecl",
         Begun(v, s, symbols, Len(symbols), 0, i, j, ts, ds)
  PROVE  Derived(v, s, x, i, j, <<node \o ts>>, ds)
<1> DEFINE rule == <<heads, symbols, node>>
<1>1. Build(rule[3], Written(s, i, j, ts, ds)) \in Possible(v, x, j - i)
  BY RuleEnds
<1>2. Build(node, Written(s, i, j, ts, ds)) = Written(s, i, j, <<node \o ts>>, ds)
  BY DEF Build, Written
<1>. QED
  BY <1>1, <1>2, OneIsSeq DEF Derived, Begun

LEMMA RuleDeclares ==
  ASSUME NEW v \in Vocabularies, NEW s \in Streams(v), NEW i, NEW j, NEW ts, NEW ds,
         NEW heads, NEW symbols, NEW node, <<heads, symbols, node>> \in Rules, NEW x \in heads,
         node # <<>>, node[1] = "VariableDecl",
         Begun(v, s, symbols, Len(symbols), 0, i, j, ts, ds)
  PROVE  Derived(v, s, x, i, j, <<>>, <<node \o ts>>)
<1> DEFINE rule == <<heads, symbols, node>>
<1>1. Build(rule[3], Written(s, i, j, ts, ds)) \in Possible(v, x, j - i)
  BY RuleEnds
<1>2. Build(node, Written(s, i, j, ts, ds)) = Written(s, i, j, <<>>, <<node \o ts>>)
  BY DEF Build, Written
<1>. QED
  BY <1>1, <1>2, OneIsSeq, EmptyIsSeq DEF Derived, Begun

-----------------------------------------------------------------------------
(* The rules.                                                                *)

(* Token t is read behind the j-th token.                                     *)
Reads(v, s, j, m, t) == Real(v, s, j, m) /\ m = j + 1 /\ s[m] = t

(* The symbol after the first k is a token, which is read, or may be the tokens *)
(* from the m-th to the j-th.                                                *)
TokenAt(v, s, symbols, k, l, j, m) ==
  /\ k \in Nat /\ l = k + 1 /\ Len(symbols) \in Nat /\ l <= Len(symbols)
  /\ symbols[l] \notin Symbols /\ Reads(v, s, j, m, symbols[l])
SymbolAt(v, s, symbols, k, l, i, m, j, us, es) ==
  /\ k \in Nat /\ l = k + 1 /\ Len(symbols) \in Nat /\ l <= Len(symbols)
  /\ symbols[l] \in Symbols /\ Derived(v, s, symbols[l], m, j, us, es) /\ i < m

Together(q, r, t) == q \o r = t

LEMMA TokenAfter ==
  ASSUME NEW v \in Vocabularies, NEW s \in Streams(v), NEW i, NEW j, NEW m, NEW ts, NEW ds,
         NEW symbols, NEW k, NEW l, TokenAt(v, s, symbols, k, l, j, m),
         NEW b \in {0, 1}, Begun(v, s, symbols, k, b, i, j, ts, ds)
  PROVE  Begun(v, s, symbols, l, 0, i, m, ts, ds)
<1>1. l \in 1 .. Len(symbols) /\ k = l - 1 /\ Len(symbols) \in Nat
  BY DEF TokenAt
<1>2. m = j + 1 /\ s[j + 1] = symbols[l] /\ s[j + 1] \in v.tokens /\ symbols[l] \notin Symbols
  BY DEF TokenAt, Reads, Real
<1>. QED
  BY <1>1, <1>2, BeginToken

LEMMA TokenNext ==
  ASSUME NEW v \in Vocabularies, NEW s \in Streams(v), NEW i, NEW j, NEW m, NEW ts, NEW ds,
         NEW symbols, NEW k, NEW l, TokenAt(v, s, symbols, k, l, j, m),
         Begun(v, s, symbols, k, 0, i, j, ts, ds)
  PROVE  Begun(v, s, symbols, l, 0, i, m, ts, ds)
BY TokenAfter

LEMMA SymbolAfter ==
  ASSUME NEW v \in Vocabularies, NEW s \in Streams(v), NEW i, NEW m, NEW j,
         NEW ts, NEW ds, NEW us, NEW es, NEW ws, NEW fs, Together(ts, us, ws), Together(ds, es, fs),
         NEW symbols, NEW k, NEW l, SymbolAt(v, s, symbols, k, l, i, m, j, us, es),
         NEW b \in {0, 1}, m < j \/ b = 0, Begun(v, s, symbols, k, b, i, m, ts, ds)
  PROVE  Begun(v, s, symbols, l, 0, i, j, ws, fs)
<1>1. l \in 1 .. Len(symbols) /\ k = l - 1 /\ Len(symbols) \in Nat /\ symbols[l] \in Symbols
      /\ Derived(v, s, symbols[l], m, j, us, es) /\ i < m /\ ts \o us = ws /\ ds \o es = fs
  BY DEF SymbolAt, Together
<1>. QED
  BY <1>1, BeginSymbol

LEMMA SymbolNext ==
  ASSUME NEW v \in Vocabularies, NEW s \in Streams(v), NEW i, NEW m, NEW j,
         NEW ts, NEW ds, NEW us, NEW es, NEW ws, NEW fs, Together(ts, us, ws), Together(ds, es, fs),
         NEW symbols, NEW k, NEW l, SymbolAt(v, s, symbols, k, l, i, m, j, us, es),
         Begun(v, s, symbols, k, 0, i, m, ts, ds)
  PROVE  Begun(v, s, symbols, l, 0, i, j, ws, fs)
BY SymbolAfter

RuleHeads ==
  {"name", "list", "maybe", "block", "variable", "declaration", "program",
   "int", "real", "string", "boolean", "ints", "reals", "strings", "booleans"}
    \cup Signed \cup Statements

LEMMA ExpressionHeads == \A rule \in ExpressionRules : rule[1] \subseteq RuleHeads
<1>1. /\ Signed \subseteq RuleHeads /\ Products \subseteq Signed /\ Sums \subseteq Signed
      /\ Relations \subseteq Signed /\ Equalities \subseteq Signed /\ Conjunctions \subseteq Signed
      /\ Disjunctions \subseteq Signed /\ Assignments \subseteq Signed
      /\ {"name"} \cup Signed \subseteq RuleHeads /\ {"name"} \subseteq RuleHeads
      /\ {"maybe"} \subseteq RuleHeads /\ {"list"} \subseteq RuleHeads
  BY DEF RuleHeads, Signed, Products, Sums, Relations, Equalities, Conjunctions, Disjunctions,
         Assignments
<1>2. SUFFICES ASSUME NEW rule \in ExpressionRules PROVE rule[1] \subseteq RuleHeads
  OBVIOUS
<1>3. \/ rule[1] \in {Signed, Products, Sums, Relations, Equalities, Conjunctions, Disjunctions,
                      Assignments}
      \/ rule[1] \in {{"name"} \cup Signed, {"name"}, {"maybe"}, {"list"}}
  BY <1>2 DEF ExpressionRules, Is, Node, Leaves, Signs, Operators
<1>. QED
  BY <1>1, <1>3

LEMMA StatementHeads == \A rule \in StatementRules : rule[1] \subseteq RuleHeads
<1>1. /\ Statements \subseteq RuleHeads /\ {"block"} \subseteq RuleHeads
      /\ {"variable"} \subseteq RuleHeads /\ {"statement"} \subseteq RuleHeads
      /\ {"closed"} \subseteq RuleHeads
  BY DEF RuleHeads, Statements
<1>2. SUFFICES ASSUME NEW rule \in StatementRules PROVE rule[1] \subseteq RuleHeads
  OBVIOUS
<1>3. rule[1] \in {Statements, {"block"}, {"variable"}, {"statement"}, {"closed"}}
  BY <1>2 DEF StatementRules, Ending, Is, Node, Leaves
<1>. QED
  BY <1>1, <1>3

LEMMA ProgramHeads == \A rule \in ProgramRules : rule[1] \subseteq RuleHeads
<1>1. ASSUME NEW t \in Types, NEW rule \in OfType(t) PROVE rule[1] \subseteq RuleHeads
  <2>1. rule[1] \in {{One[t], All[t]}, {All[t]}, {"declaration"}}
    BY DEF OfType, Is
  <2>2. One[t] \in RuleHeads /\ All[t] \in RuleHeads /\ "declaration" \in RuleHeads
    BY DEF RuleHeads, One, All, Types
  <2>. QED
    BY <2>1, <2>2
<1>2. ASSUME NEW rule \in ProgramRules, \A t \in Types : rule \notin OfType(t)
      PROVE  rule[1] = {"program"}
  BY <1>2 DEF ProgramRules, Is, Types
<1>3. {"program"} \subseteq RuleHeads
  BY DEF RuleHeads
<1>. QED
  BY <1>1, <1>2, <1>3

LEMMA SymbolsAre == Symbols \subseteq RuleHeads
BY ExpressionHeads, StatementHeads, ProgramHeads DEF Symbols, Rules

(* The words of the language, none of which is a symbol.                       *)
Words ==
  {"SEMICOLON", "LBRACE", "RBRACE", "IF", "LPAREN", "RPAREN", "ELSE", "WHILE", "DO", "FOR", "READ",
   "WRITE", "COMMA", "COLON", "IDENTIFIER", "ENV_VAR", "ASSIGN", "PROGRAM", "INT", "REAL", "STRING",
   "BOOLEAN", "INTEGER", "REALNUM", "STRINGLIT", "TRUE", "FALSE", "MINUS", "NOT", "MULTIPLY",
   "DIVIDE", "MODULO", "PLUS", "LESS", "GREATER", "LESSEQUAL", "GREATEREQUAL", "EQUAL", "NOTEQUAL",
   "AND", "OR"}
LEMMA WordsAre == \A w \in Words : w \notin Symbols
<1>1. \A w \in Words : w \notin RuleHeads
  BY DEF Words, RuleHeads, Signed, Products, Sums, Relations, Equalities, Conjunctions,
         Disjunctions, Assignments, Statements
<1>. QED
  BY <1>1, SymbolsAre

(* The symbols that rules have on their right.                                 *)
LEMMA RulesOfProgram ==
  /\ <<{"program"}, <<"PROGRAM">>, <<>>>> \in Rules
  /\ <<{"program"}, <<"program", "statement">>, <<>>>> \in Rules
  /\ <<{"program"}, <<"program", "declaration">>, <<>>>> \in Rules
  /\ <<{"program"}, <<"program", "declaration", "SEMICOLON">>, <<>>>> \in Rules
BY DEF Rules, ProgramRules, Is

LEMMA RulesOfType ==
  ASSUME NEW t \in Types
  PROVE  /\ <<{One[t], All[t]}, <<"IDENTIFIER">>, <<"VariableDecl", t, <<"IDENTIFIER">>>>>> \in Rules
         /\ <<{One[t], All[t]}, <<"IDENTIFIER", "ASSIGN", "expression">>,
              <<"VariableDecl", t, <<"IDENTIFIER">>>>>> \in Rules
         /\ <<{All[t]}, <<All[t], "COMMA", One[t]>>, <<>>>> \in Rules
         /\ <<{"declaration"}, <<t, All[t]>>, <<>>>> \in Rules
<1>1. OfType(t) \subseteq Rules
  BY DEF Types, Rules, ProgramRules
<1>. QED
  BY <1>1 DEF OfType, Is

LEMMA RulesOfExpressions ==
  /\ \A t \in Literals : <<Signed, <<t>>, <<t>>>> \in Rules
  /\ \A t \in Names : <<{"name"} \cup Signed, <<t>>, <<t>>>> \in Rules
  /\ <<{"name"}, <<"LPAREN", "name", "RPAREN">>, <<>>>> \in Rules
  /\ <<Signed, <<"LPAREN", "expression", "RPAREN">>, <<>>>> \in Rules
  /\ \A op \in Unary : <<Signed, <<op, "signed">>, <<"UnaryOp", op>>>> \in Rules
  /\ <<Assignments, <<"name", "ASSIGN", "expression">>, <<"Assignment">>>> \in Rules
  /\ <<{"maybe"}, <<>>, <<"nullptr">>>> \in Rules
  /\ <<{"list"}, <<"list", "COMMA", "expression">>, <<>>>> \in Rules
BY DEF Rules, ExpressionRules, Is, Node, Leaves, Signs, Literals, Names, Unary

(* The symbols of the levels of binary operators, and what may be one.         *)
Own   == <<"disjunction", "conjunction", "equality", "relation", "sum", "product", "signed">>
Heads == <<Disjunctions, Conjunctions, Equalities, Relations, Sums, Products, Signed>>

LEMMA RulesOfOperators ==
  \A k \in 1 .. 6 : \A op \in Levels[k] :
    <<Heads[k], <<Own[k], op, Own[k + 1]>>, <<"BinaryOp", op>>>> \in Rules
<1>1. SUFFICES ASSUME NEW k \in 1 .. 6, NEW op \in Levels[k]
               PROVE  <<Heads[k], <<Own[k], op, Own[k + 1]>>, <<"BinaryOp", op>>>> \in ExpressionRules
  BY DEF Rules
<1>2. CASE k = 1
  BY <1>2 DEF ExpressionRules, Operators, Levels, Own, Heads
<1>3. CASE k = 2
  BY <1>3 DEF ExpressionRules, Operators, Levels, Own, Heads
<1>4. CASE k = 3
  BY <1>4 DEF ExpressionRules, Operators, Levels, Own, Heads
<1>5. CASE k = 4
  BY <1>5 DEF ExpressionRules, Operators, Levels, Own, Heads
<1>6. CASE k = 5
  BY <1>6 DEF ExpressionRules, Operators, Levels, Own, Heads
<1>7. CASE k = 6
  BY <1>7 DEF ExpressionRules, Operators, Levels, Own, Heads
<1>. QED
  BY <1>2, <1>3, <1>4, <1>5, <1>6, <1>7

LEMMA RulesOfStatements ==
  /\ <<Statements, <<"expression", "SEMICOLON">>, <<"ExpressionStatement">>>> \in Rules
  /\ <<{"block"}, <<"LBRACE">>, <<>>>> \in Rules
  /\ <<{"block"}, <<"block", "statement">>, <<>>>> \in Rules
  /\ <<Statements, <<"block", "RBRACE">>, <<"CompoundStatement">>>> \in Rules
  /\ <<Statements, <<"DO", "statement", "WHILE", "LPAREN", "expression", "RPAREN", "SEMICOLON">>,
       <<"DoWhileStatement">>>> \in Rules
  /\ <<{"variable"}, <<"IDENTIFIER">>, <<"IDENTIFIER">>>> \in Rules
  /\ <<Statements, <<"READ", "LPAREN", "variable", "RPAREN", "SEMICOLON">>, <<"ReadStatement">>>>
       \in Rules
  /\ <<Statements, <<"WRITE", "LPAREN", "RPAREN", "SEMICOLON">>, <<"WriteStatement">>>> \in Rules
  /\ <<Statements, <<"WRITE", "LPAREN", "list", "RPAREN", "SEMICOLON">>, <<"WriteStatement">>>>
       \in Rules
  /\ <<{"statement"}, <<"IF", "LPAREN", "expression", "RPAREN", "statement">>, <<"IfStatement">>>>
       \in Rules
BY DEF Rules, StatementRules, Is, Node, Leaves

LEMMA RulesOfEndings ==
  \A x \in Statements :
    /\ <<{x}, <<"IDENTIFIER", "COLON", x>>, <<>>>> \in Rules
    /\ <<{x}, <<"IF", "LPAREN", "expression", "RPAREN", "closed", "ELSE", x>>, <<"IfStatement">>>>
         \in Rules
    /\ <<{x}, <<"WHILE", "LPAREN", "expression", "RPAREN", x>>, <<"WhileStatement">>>> \in Rules
    /\ <<{x}, <<"FOR", "LPAREN", "maybe", "SEMICOLON", "maybe", "SEMICOLON", "maybe",
                "RPAREN", x>>, <<"ForStatement">>>> \in Rules
<1>1. \A x \in Statements : Ending(x) \subseteq Rules
  BY DEF Statements, Rules, StatementRules
<1>. QED
  BY <1>1 DEF Ending, Is, Node

LEMMA HeadsAre == \A x \in RuleHeads : x \in Symbols
<1>1. ASSUME NEW rule \in Rules PROVE rule[1] \subseteq Symbols
  BY DEF Symbols
<1>2. Signed \subseteq Symbols /\ {"name"} \subseteq Symbols /\ {"maybe"} \subseteq Symbols
      /\ {"list"} \subseteq Symbols
  <2>1. "INTEGER" \in Literals
    BY DEF Literals
  <2>2. <<Signed, <<"INTEGER">>, <<"INTEGER">>>> \in Rules
    BY <2>1, RulesOfExpressions
  <2>. QED
    BY <1>1, <2>2, RulesOfExpressions
<1>3. Statements \subseteq Symbols /\ {"block"} \subseteq Symbols /\ {"variable"} \subseteq Symbols
  BY <1>1, RulesOfStatements
<1>4. {"program"} \subseteq Symbols
  BY <1>1, RulesOfProgram
<1>5. \A t \in Types : {One[t], All[t]} \subseteq Symbols /\ {"declaration"} \subseteq Symbols
  BY <1>1, RulesOfType
<1>6. "INT" \in Types /\ "REAL" \in Types /\ "STRING" \in Types /\ "BOOLEAN" \in Types
  BY DEF Types
<1>7. /\ One["INT"] = "int" /\ One["REAL"] = "real" /\ One["STRING"] = "string"
      /\ One["BOOLEAN"] = "boolean" /\ All["INT"] = "ints" /\ All["REAL"] = "reals"
      /\ All["STRING"] = "strings" /\ All["BOOLEAN"] = "booleans"
  BY DEF One, All
<1>8. {"int", "real", "string", "boolean", "ints", "reals", "strings", "booleans", "declaration"}
        \subseteq Symbols
  BY <1>5, <1>6, <1>7
<1>. QED
  BY <1>2, <1>3, <1>4, <1>8 DEF RuleHeads

LEMMA SymbolNames ==
  /\ "expression" \in Symbols /\ "maybe" \in Symbols /\ "list" \in Symbols /\ "name" \in Symbols
  /\ "statement" \in Symbols /\ "closed" \in Symbols /\ "block" \in Symbols
  /\ "variable" \in Symbols /\ "declaration" \in Symbols /\ "program" \in Symbols
  /\ \A k \in 1 .. 7 : Own[k] \in Symbols /\ Own[k] \in Heads[k]
  /\ \A t \in Types : One[t] \in Symbols /\ All[t] \in Symbols
<1>1. \A x \in RuleHeads : x \in Symbols
  BY HeadsAre
<1>2. /\ {"maybe", "list", "name", "block", "variable", "declaration", "program"} \subseteq RuleHeads
      /\ Signed \subseteq RuleHeads /\ Statements \subseteq RuleHeads
      /\ \A t \in Types : One[t] \in RuleHeads /\ All[t] \in RuleHeads
  BY DEF RuleHeads, Types, One, All
<1>3. "expression" \in Signed /\ "statement" \in Statements /\ "closed" \in Statements
  BY DEF Signed, Products, Sums, Relations, Equalities, Conjunctions, Disjunctions, Assignments,
         Statements
<1>4. \A k \in 1 .. 7 : Own[k] \in Signed /\ Own[k] \in Heads[k]
  BY DEF Signed, Products, Sums, Relations, Equalities, Conjunctions, Disjunctions, Own, Heads
<1>. QED
  BY <1>1, <1>2, <1>3, <1>4

LEMMA ReadsIs ==
  ASSUME NEW v, NEW s, NEW i, NEW j, NEW t, Reads(v, s, i, j, t)
  PROVE  i \in Nat /\ j \in Nat /\ j = i + 1 /\ i < j /\ Real(v, s, i, j)
BY DEF Reads, Real

LEMMA DerivedIs ==
  ASSUME NEW v, NEW s, NEW x, NEW i, NEW j, NEW ts, NEW ds, Derived(v, s, x, i, j, ts, ds)
  PROVE  i \in Nat /\ j \in Nat /\ i <= j /\ Real(v, s, i, j) /\ IsSeq(ts) /\ IsSeq(ds)
BY DEF Derived, Real

LEMMA LevelWords ==
  ASSUME NEW k \in 1 .. 6
  PROVE  (\A op \in Levels[k] : op \in Words) /\ k \in 1 .. 7 /\ k + 1 \in 1 .. 7
<1>1. \A n \in 1 .. 6 : \A op \in Levels[n] : op \in Words
  BY DEF Levels, Words
<1>. QED
  BY <1>1

LEMMA SignedIs == "signed" \in Symbols
BY SymbolNames DEF Own

-----------------------------------------------------------------------------
(* Every rule, of the tokens that its symbols may be.                         *)

LEMMA LiteralReads ==
  ASSUME NEW v \in Vocabularies, NEW s \in Streams(v), NEW t \in Literals, NEW x \in Signed, NEW i,
         NEW j, Reads(v, s, i, j, t)
  PROVE  Derived(v, s, x, i, j, <<<<t>> \o <<>>>>, <<>>)
<1> DEFINE none == <<>>
           symbols == <<t>>
<1>1. /\ i \in Nat /\ j \in Nat /\ i < j
  BY ReadsIs, DerivedIs
<1>2. /\ Len(symbols) = 1 /\ symbols[1] = t
  OBVIOUS
<1>3. /\ t \notin Symbols
  BY WordsAre DEF Words, Literals
<1>4. <<Signed, symbols, <<t>>>> \in Rules
  BY RulesOfExpressions
<1> HIDE DEF none, symbols
<1>5. /\ TokenAt(v, s, symbols, 0, 1, i, j)
  BY <1>1, <1>2, <1>3 DEF TokenAt, SymbolAt, none
<1>6. Begun(v, s, symbols, 0, 0, i, i, none, none)
  BY <1>1, <1>2, BeginNothing DEF none
<1>7. Begun(v, s, symbols, 1, 0, i, j, none, none)
  BY <1>5, <1>6, TokenNext
<1>8. <<t>> # <<>> /\ <<t>>[1] # "VariableDecl"
  BY DEF Literals
<1>. QED
  BY <1>2, <1>4, <1>8, <1>7, RuleMakes DEF none

LEMMA NameReads ==
  ASSUME NEW v \in Vocabularies, NEW s \in Streams(v),
         NEW t \in Names, NEW x \in {"name"} \cup Signed, NEW i, NEW j, Reads(v, s, i, j, t)
  PROVE  Derived(v, s, x, i, j, <<<<t>> \o <<>>>>, <<>>)
<1> DEFINE none == <<>>
           symbols == <<t>>
<1>1. /\ i \in Nat /\ j \in Nat /\ i < j
  BY ReadsIs, DerivedIs
<1>2. /\ Len(symbols) = 1 /\ symbols[1] = t
  OBVIOUS
<1>3. /\ t \notin Symbols
  BY WordsAre DEF Words, Names
<1>4. <<{"name"} \cup Signed, symbols, <<t>>>> \in Rules
  BY RulesOfExpressions
<1> HIDE DEF none, symbols
<1>5. /\ TokenAt(v, s, symbols, 0, 1, i, j)
  BY <1>1, <1>2, <1>3 DEF TokenAt, SymbolAt, none
<1>6. Begun(v, s, symbols, 0, 0, i, i, none, none)
  BY <1>1, <1>2, BeginNothing DEF none
<1>7. Begun(v, s, symbols, 1, 0, i, j, none, none)
  BY <1>5, <1>6, TokenNext
<1>8. <<t>> # <<>> /\ <<t>>[1] # "VariableDecl"
  BY DEF Names
<1>. QED
  BY <1>2, <1>4, <1>8, <1>7, RuleMakes DEF none

LEMMA ParenthesesRead ==
  ASSUME NEW v \in Vocabularies, NEW s \in Streams(v), NEW x \in Signed, NEW i, NEW m, NEW n,
         NEW j, NEW us, Reads(v, s, i, m, "LPAREN"), Derived(v, s, "expression", m, n, us, <<>>),
         Reads(v, s, n, j, "RPAREN")
  PROVE  Derived(v, s, x, i, j, us, <<>>)
<1> DEFINE none == <<>>
           symbols == <<"LPAREN", "expression", "RPAREN">>
<1>1. /\ i \in Nat /\ m \in Nat /\ n \in Nat /\ j \in Nat /\ i < m /\ m <= n /\ n < j
      /\ IsSeq(us)
  BY ReadsIs, DerivedIs
<1>2. /\ Together(none, none, none) /\ Together(none, us, us)
  BY <1>1, ConcatEmpty, EmptyIsSeq DEF none, Together
<1>3. /\ Len(symbols) = 3 /\ symbols[1] = "LPAREN" /\ symbols[2] = "expression"
      /\ symbols[3] = "RPAREN"
  OBVIOUS
<1>4. /\ "LPAREN" \notin Symbols /\ "expression" \in Symbols /\ "RPAREN" \notin Symbols
  BY WordsAre, SymbolNames DEF Words
<1>5. <<Signed, symbols, <<>>>> \in Rules
  BY RulesOfExpressions
<1> HIDE DEF none, symbols
<1>6. /\ TokenAt(v, s, symbols, 0, 1, i, m)
      /\ SymbolAt(v, s, symbols, 1, 2, i, m, n, us, none)
      /\ TokenAt(v, s, symbols, 2, 3, n, j)
  BY <1>1, <1>3, <1>4 DEF TokenAt, SymbolAt, none
<1>7. Begun(v, s, symbols, 0, 0, i, i, none, none)
  BY <1>1, <1>3, BeginNothing DEF none
<1>8. Begun(v, s, symbols, 1, 0, i, m, none, none)
  BY <1>6, <1>7, TokenNext
<1>9. Begun(v, s, symbols, 2, 0, i, n, us, none)
  BY <1>2, <1>6, <1>8, SymbolNext
<1>10. Begun(v, s, symbols, 3, 0, i, j, us, none)
  BY <1>6, <1>9, TokenNext
<1>. QED
  BY <1>3, <1>5, <1>10, RuleSays DEF none

LEMMA NestedNameReads ==
  ASSUME NEW v \in Vocabularies, NEW s \in Streams(v), NEW i, NEW m, NEW n, NEW j, NEW us,
         Reads(v, s, i, m, "LPAREN"), Derived(v, s, "name", m, n, us, <<>>),
         Reads(v, s, n, j, "RPAREN")
  PROVE  Derived(v, s, "name", i, j, us, <<>>)
<1> DEFINE none == <<>>
           symbols == <<"LPAREN", "name", "RPAREN">>
<1>1. /\ i \in Nat /\ m \in Nat /\ n \in Nat /\ j \in Nat /\ i < m /\ m <= n /\ n < j
      /\ IsSeq(us)
  BY ReadsIs, DerivedIs
<1>2. /\ Together(none, none, none) /\ Together(none, us, us)
  BY <1>1, ConcatEmpty, EmptyIsSeq DEF none, Together
<1>3. /\ Len(symbols) = 3 /\ symbols[1] = "LPAREN" /\ symbols[2] = "name"
      /\ symbols[3] = "RPAREN"
  OBVIOUS
<1>4. /\ "LPAREN" \notin Symbols /\ "name" \in Symbols /\ "RPAREN" \notin Symbols
  BY WordsAre, SymbolNames DEF Words
<1>5. <<{"name"}, symbols, <<>>>> \in Rules
  BY RulesOfExpressions
<1> HIDE DEF none, symbols
<1>6. /\ TokenAt(v, s, symbols, 0, 1, i, m)
      /\ SymbolAt(v, s, symbols, 1, 2, i, m, n, us, none)
      /\ TokenAt(v, s, symbols, 2, 3, n, j)
  BY <1>1, <1>3, <1>4 DEF TokenAt, SymbolAt, none
<1>7. Begun(v, s, symbols, 0, 0, i, i, none, none)
  BY <1>1, <1>3, BeginNothing DEF none
<1>8. Begun(v, s, symbols, 1, 0, i, m, none, none)
  BY <1>6, <1>7, TokenNext
<1>9. Begun(v, s, symbols, 2, 0, i, n, us, none)
  BY <1>2, <1>6, <1>8, SymbolNext
<1>10. Begun(v, s, symbols, 3, 0, i, j, us, none)
  BY <1>6, <1>9, TokenNext
<1>. QED
  BY <1>3, <1>5, <1>10, RuleSays DEF none

LEMMA SignReads ==
  ASSUME NEW v \in Vocabularies, NEW s \in Streams(v), NEW op \in Unary, NEW x \in Signed, NEW i,
         NEW m, NEW j, NEW us, Reads(v, s, i, m, op), Derived(v, s, "signed", m, j, us, <<>>)
  PROVE  Derived(v, s, x, i, j, <<<<"UnaryOp", op>> \o us>>, <<>>)
<1> DEFINE none == <<>>
           symbols == <<op, "signed">>
<1>1. /\ i \in Nat /\ m \in Nat /\ j \in Nat /\ i < m /\ m <= j /\ IsSeq(us)
  BY ReadsIs, DerivedIs
<1>2. /\ Together(none, none, none) /\ Together(none, us, us)
  BY <1>1, ConcatEmpty, EmptyIsSeq DEF none, Together
<1>3. /\ Len(symbols) = 2 /\ symbols[1] = op /\ symbols[2] = "signed"
  OBVIOUS
<1>4. /\ op \notin Symbols /\ "signed" \in Symbols
  BY WordsAre, SymbolNames, SignedIs DEF Words, Unary
<1>5. <<Signed, symbols, <<"UnaryOp", op>>>> \in Rules
  BY RulesOfExpressions
<1> HIDE DEF none, symbols
<1>6. /\ TokenAt(v, s, symbols, 0, 1, i, m)
      /\ SymbolAt(v, s, symbols, 1, 2, i, m, j, us, none)
  BY <1>1, <1>3, <1>4 DEF TokenAt, SymbolAt, none
<1>7. Begun(v, s, symbols, 0, 0, i, i, none, none)
  BY <1>1, <1>3, BeginNothing DEF none
<1>8. Begun(v, s, symbols, 1, 0, i, m, none, none)
  BY <1>6, <1>7, TokenNext
<1>9. Begun(v, s, symbols, 2, 0, i, j, us, none)
  BY <1>2, <1>6, <1>8, SymbolNext
<1>10. <<"UnaryOp", op>> # <<>> /\ <<"UnaryOp", op>>[1] # "VariableDecl"
  OBVIOUS
<1>. QED
  BY <1>3, <1>5, <1>10, <1>9, RuleMakes DEF none

LEMMA OperatorReads ==
  ASSUME NEW v \in Vocabularies, NEW s \in Streams(v),
         NEW k \in 1 .. 6, NEW op \in Levels[k], NEW x \in Heads[k], NEW i, NEW m, NEW n, NEW j,
         NEW us, NEW ws, Derived(v, s, Own[k], i, m, us, <<>>), i < m, Reads(v, s, m, n, op),
         Derived(v, s, Own[k + 1], n, j, ws, <<>>)
  PROVE  Derived(v, s, x, i, j, <<<<"BinaryOp", op>> \o (us \o ws)>>, <<>>)
<1> DEFINE none == <<>>
           symbols == <<Own[k], op, Own[k + 1]>>
           both == us \o ws
<1>1. /\ i \in Nat /\ m \in Nat /\ n \in Nat /\ j \in Nat /\ i <= m /\ m < n /\ n <= j
      /\ IsSeq(us) /\ IsSeq(ws)
  BY ReadsIs, DerivedIs
<1>2. /\ Together(none, none, none) /\ Together(none, us, us) /\ Together(us, ws, both)
  BY <1>1, ConcatEmpty, EmptyIsSeq DEF none, Together
<1>3. /\ Len(symbols) = 3 /\ symbols[1] = Own[k] /\ symbols[2] = op /\ symbols[3] = Own[k + 1]
  OBVIOUS
<1>4. /\ Own[k] \in Symbols /\ op \notin Symbols /\ Own[k + 1] \in Symbols
  BY WordsAre, SymbolNames, LevelWords
<1>5. <<Heads[k], symbols, <<"BinaryOp", op>>>> \in Rules
  BY RulesOfOperators
<1> HIDE DEF none, symbols, both
<1>6. /\ TokenAt(v, s, symbols, 1, 2, m, n)
      /\ SymbolAt(v, s, symbols, 2, 3, i, n, j, ws, none)
  BY <1>1, <1>3, <1>4 DEF TokenAt, SymbolAt, none
<1>7. Begun(v, s, symbols, 1, 1, i, m, us, none)
  BY <1>3, <1>4, BeginFirst DEF none
<1>8. Begun(v, s, symbols, 2, 0, i, n, us, none)
  BY <1>6, <1>7, TokenAfter
<1>9. Begun(v, s, symbols, 3, 0, i, j, both, none)
  BY <1>2, <1>6, <1>8, SymbolNext
<1>10. <<"BinaryOp", op>> # <<>> /\ <<"BinaryOp", op>>[1] # "VariableDecl"
  OBVIOUS
<1>. QED
  BY <1>3, <1>5, <1>10, <1>9, RuleMakes DEF none, both

LEMMA AssignmentReads ==
  ASSUME NEW v \in Vocabularies, NEW s \in Streams(v), NEW x \in Assignments, NEW i, NEW m, NEW n,
         NEW j, NEW us, NEW ws, Derived(v, s, "name", i, m, us, <<>>), i < m,
         Reads(v, s, m, n, "ASSIGN"), Derived(v, s, "expression", n, j, ws, <<>>)
  PROVE  Derived(v, s, x, i, j, <<<<"Assignment">> \o (us \o ws)>>, <<>>)
<1> DEFINE none == <<>>
           symbols == <<"name", "ASSIGN", "expression">>
           both == us \o ws
<1>1. /\ i \in Nat /\ m \in Nat /\ n \in Nat /\ j \in Nat /\ i <= m /\ m < n /\ n <= j
      /\ IsSeq(us) /\ IsSeq(ws)
  BY ReadsIs, DerivedIs
<1>2. /\ Together(none, none, none) /\ Together(none, us, us) /\ Together(us, ws, both)
  BY <1>1, ConcatEmpty, EmptyIsSeq DEF none, Together
<1>3. /\ Len(symbols) = 3 /\ symbols[1] = "name" /\ symbols[2] = "ASSIGN"
      /\ symbols[3] = "expression"
  OBVIOUS
<1>4. /\ "name" \in Symbols /\ "ASSIGN" \notin Symbols /\ "expression" \in Symbols
  BY WordsAre, SymbolNames DEF Words
<1>5. <<Assignments, symbols, <<"Assignment">>>> \in Rules
  BY RulesOfExpressions
<1> HIDE DEF none, symbols, both
<1>6. /\ TokenAt(v, s, symbols, 1, 2, m, n)
      /\ SymbolAt(v, s, symbols, 2, 3, i, n, j, ws, none)
  BY <1>1, <1>3, <1>4 DEF TokenAt, SymbolAt, none
<1>7. Begun(v, s, symbols, 1, 1, i, m, us, none)
  BY <1>3, <1>4, BeginFirst DEF none
<1>8. Begun(v, s, symbols, 2, 0, i, n, us, none)
  BY <1>6, <1>7, TokenAfter
<1>9. Begun(v, s, symbols, 3, 0, i, j, both, none)
  BY <1>2, <1>6, <1>8, SymbolNext
<1>10. <<"Assignment">> # <<>> /\ <<"Assignment">>[1] # "VariableDecl"
  OBVIOUS
<1>. QED
  BY <1>3, <1>5, <1>10, <1>9, RuleMakes DEF none, both

LEMMA NothingReads ==
  ASSUME NEW v \in Vocabularies, NEW s \in Streams(v), NEW i, i \in Nat
  PROVE  Derived(v, s, "maybe", i, i, <<<<"nullptr">> \o <<>>>>, <<>>)
<1> DEFINE none == <<>>
           symbols == <<>>
<1>1. /\ Len(symbols) = 0
  OBVIOUS
<1>2. <<{"maybe"}, symbols, <<"nullptr">>>> \in Rules
  BY RulesOfExpressions
<1> HIDE DEF none, symbols
<1>3. Begun(v, s, symbols, 0, 0, i, i, none, none)
  BY <1>1, BeginNothing DEF none
<1>4. <<"nullptr">> # <<>> /\ <<"nullptr">>[1] # "VariableDecl"
  OBVIOUS
<1>. QED
  BY <1>1, <1>2, <1>4, <1>3, RuleMakes DEF none

LEMMA ListReads ==
  ASSUME NEW v \in Vocabularies, NEW s \in Streams(v), NEW i, NEW m, NEW n, NEW j, NEW us, NEW ws,
         Derived(v, s, "list", i, m, us, <<>>), i < m, Reads(v, s, m, n, "COMMA"),
         Derived(v, s, "expression", n, j, ws, <<>>)
  PROVE  Derived(v, s, "list", i, j, us \o ws, <<>>)
<1> DEFINE none == <<>>
           symbols == <<"list", "COMMA", "expression">>
           both == us \o ws
<1>1. /\ i \in Nat /\ m \in Nat /\ n \in Nat /\ j \in Nat /\ i <= m /\ m < n /\ n <= j
      /\ IsSeq(us) /\ IsSeq(ws)
  BY ReadsIs, DerivedIs
<1>2. /\ Together(none, none, none) /\ Together(none, us, us) /\ Together(us, ws, both)
  BY <1>1, ConcatEmpty, EmptyIsSeq DEF none, Together
<1>3. /\ Len(symbols) = 3 /\ symbols[1] = "list" /\ symbols[2] = "COMMA"
      /\ symbols[3] = "expression"
  OBVIOUS
<1>4. /\ "list" \in Symbols /\ "COMMA" \notin Symbols /\ "expression" \in Symbols
  BY WordsAre, SymbolNames DEF Words
<1>5. <<{"list"}, symbols, <<>>>> \in Rules
  BY RulesOfExpressions
<1> HIDE DEF none, symbols, both
<1>6. /\ TokenAt(v, s, symbols, 1, 2, m, n)
      /\ SymbolAt(v, s, symbols, 2, 3, i, n, j, ws, none)
  BY <1>1, <1>3, <1>4 DEF TokenAt, SymbolAt, none
<1>7. Begun(v, s, symbols, 1, 1, i, m, us, none)
  BY <1>3, <1>4, BeginFirst DEF none
<1>8. Begun(v, s, symbols, 2, 0, i, n, us, none)
  BY <1>6, <1>7, TokenAfter
<1>9. Begun(v, s, symbols, 3, 0, i, j, both, none)
  BY <1>2, <1>6, <1>8, SymbolNext
<1>. QED
  BY <1>3, <1>5, <1>9, RuleSays DEF none, both

LEMMA ExpressionStatementReads ==
  ASSUME NEW v \in Vocabularies, NEW s \in Streams(v), NEW x \in Statements, NEW i, NEW m, NEW j,
         NEW us, Derived(v, s, "expression", i, m, us, <<>>), i < m, Reads(v, s, m, j, "SEMICOLON")
  PROVE  Derived(v, s, x, i, j, <<<<"ExpressionStatement">> \o us>>, <<>>)
<1> DEFINE none == <<>>
           symbols == <<"expression", "SEMICOLON">>
<1>1. /\ i \in Nat /\ m \in Nat /\ j \in Nat /\ i <= m /\ m < j /\ IsSeq(us)
  BY ReadsIs, DerivedIs
<1>2. /\ Together(none, none, none) /\ Together(none, us, us)
  BY <1>1, ConcatEmpty, EmptyIsSeq DEF none, Together
<1>3. /\ Len(symbols) = 2 /\ symbols[1] = "expression" /\ symbols[2] = "SEMICOLON"
  OBVIOUS
<1>4. /\ "expression" \in Symbols /\ "SEMICOLON" \notin Symbols
  BY WordsAre, SymbolNames DEF Words
<1>5. <<Statements, symbols, <<"ExpressionStatement">>>> \in Rules
  BY RulesOfStatements
<1> HIDE DEF none, symbols
<1>6. /\ TokenAt(v, s, symbols, 1, 2, m, j)
  BY <1>1, <1>3, <1>4 DEF TokenAt, SymbolAt, none
<1>7. Begun(v, s, symbols, 1, 1, i, m, us, none)
  BY <1>3, <1>4, BeginFirst DEF none
<1>8. Begun(v, s, symbols, 2, 0, i, j, us, none)
  BY <1>6, <1>7, TokenAfter
<1>9. <<"ExpressionStatement">> # <<>> /\ <<"ExpressionStatement">>[1] # "VariableDecl"
  OBVIOUS
<1>. QED
  BY <1>3, <1>5, <1>9, <1>8, RuleMakes DEF none

LEMMA OpeningReads ==
  ASSUME NEW v \in Vocabularies, NEW s \in Streams(v), NEW i, NEW j, Reads(v, s, i, j, "LBRACE")
  PROVE  Derived(v, s, "block", i, j, <<>>, <<>>)
<1> DEFINE none == <<>>
           symbols == <<"LBRACE">>
<1>1. /\ i \in Nat /\ j \in Nat /\ i < j
  BY ReadsIs, DerivedIs
<1>2. /\ Len(symbols) = 1 /\ symbols[1] = "LBRACE"
  OBVIOUS
<1>3. /\ "LBRACE" \notin Symbols
  BY WordsAre DEF Words
<1>4. <<{"block"}, symbols, <<>>>> \in Rules
  BY RulesOfStatements
<1> HIDE DEF none, symbols
<1>5. /\ TokenAt(v, s, symbols, 0, 1, i, j)
  BY <1>1, <1>2, <1>3 DEF TokenAt, SymbolAt, none
<1>6. Begun(v, s, symbols, 0, 0, i, i, none, none)
  BY <1>1, <1>2, BeginNothing DEF none
<1>7. Begun(v, s, symbols, 1, 0, i, j, none, none)
  BY <1>5, <1>6, TokenNext
<1>. QED
  BY <1>2, <1>4, <1>7, RuleSays DEF none

LEMMA BlockReads ==
  ASSUME NEW v \in Vocabularies, NEW s \in Streams(v), NEW i, NEW m, NEW j, NEW us, NEW ws,
         Derived(v, s, "block", i, m, us, <<>>), i < m, Derived(v, s, "statement", m, j, ws, <<>>),
         m < j
  PROVE  Derived(v, s, "block", i, j, us \o ws, <<>>)
<1> DEFINE none == <<>>
           symbols == <<"block", "statement">>
           both == us \o ws
<1>1. /\ i \in Nat /\ m \in Nat /\ j \in Nat /\ i <= m /\ m <= j /\ IsSeq(us) /\ IsSeq(ws)
  BY ReadsIs, DerivedIs
<1>2. /\ Together(none, none, none) /\ Together(none, us, us) /\ Together(us, ws, both)
  BY <1>1, ConcatEmpty, EmptyIsSeq DEF none, Together
<1>3. /\ Len(symbols) = 2 /\ symbols[1] = "block" /\ symbols[2] = "statement"
  OBVIOUS
<1>4. /\ "block" \in Symbols /\ "statement" \in Symbols
  BY SymbolNames
<1>5. <<{"block"}, symbols, <<>>>> \in Rules
  BY RulesOfStatements
<1> HIDE DEF none, symbols, both
<1>6. /\ SymbolAt(v, s, symbols, 1, 2, i, m, j, ws, none)
  BY <1>1, <1>3, <1>4 DEF TokenAt, SymbolAt, none
<1>7. Begun(v, s, symbols, 1, 1, i, m, us, none)
  BY <1>3, <1>4, BeginFirst DEF none
<1>8. Begun(v, s, symbols, 2, 0, i, j, both, none)
  BY <1>2, <1>1, <1>6, <1>7, SymbolAfter
<1>. QED
  BY <1>3, <1>5, <1>8, RuleSays DEF none, both

LEMMA CompoundReads ==
  ASSUME NEW v \in Vocabularies, NEW s \in Streams(v), NEW x \in Statements, NEW i, NEW m, NEW j,
         NEW us, Derived(v, s, "block", i, m, us, <<>>), i < m, Reads(v, s, m, j, "RBRACE")
  PROVE  Derived(v, s, x, i, j, <<<<"CompoundStatement">> \o us>>, <<>>)
<1> DEFINE none == <<>>
           symbols == <<"block", "RBRACE">>
<1>1. /\ i \in Nat /\ m \in Nat /\ j \in Nat /\ i <= m /\ m < j /\ IsSeq(us)
  BY ReadsIs, DerivedIs
<1>2. /\ Together(none, none, none) /\ Together(none, us, us)
  BY <1>1, ConcatEmpty, EmptyIsSeq DEF none, Together
<1>3. /\ Len(symbols) = 2 /\ symbols[1] = "block" /\ symbols[2] = "RBRACE"
  OBVIOUS
<1>4. /\ "block" \in Symbols /\ "RBRACE" \notin Symbols
  BY WordsAre, SymbolNames DEF Words
<1>5. <<Statements, symbols, <<"CompoundStatement">>>> \in Rules
  BY RulesOfStatements
<1> HIDE DEF none, symbols
<1>6. /\ TokenAt(v, s, symbols, 1, 2, m, j)
  BY <1>1, <1>3, <1>4 DEF TokenAt, SymbolAt, none
<1>7. Begun(v, s, symbols, 1, 1, i, m, us, none)
  BY <1>3, <1>4, BeginFirst DEF none
<1>8. Begun(v, s, symbols, 2, 0, i, j, us, none)
  BY <1>6, <1>7, TokenAfter
<1>9. <<"CompoundStatement">> # <<>> /\ <<"CompoundStatement">>[1] # "VariableDecl"
  OBVIOUS
<1>. QED
  BY <1>3, <1>5, <1>9, <1>8, RuleMakes DEF none

LEMMA DoWhileReads ==
  ASSUME NEW v \in Vocabularies, NEW s \in Streams(v), NEW x \in Statements, NEW i, NEW m1, NEW m2,
         NEW m3, NEW m4, NEW m5, NEW m6, NEW j, NEW us, NEW ws, Reads(v, s, i, m1, "DO"),
         Derived(v, s, "statement", m1, m2, us, <<>>), Reads(v, s, m2, m3, "WHILE"),
         Reads(v, s, m3, m4, "LPAREN"), Derived(v, s, "expression", m4, m5, ws, <<>>),
         Reads(v, s, m5, m6, "RPAREN"), Reads(v, s, m6, j, "SEMICOLON")
  PROVE  Derived(v, s, x, i, j, <<<<"DoWhileStatement">> \o (us \o ws)>>, <<>>)
<1> DEFINE none == <<>>
           symbols == <<"DO", "statement", "WHILE", "LPAREN", "expression", "RPAREN", "SEMICOLON">>
           both == us \o ws
<1>1. /\ i \in Nat /\ m1 \in Nat /\ m2 \in Nat /\ m3 \in Nat /\ m4 \in Nat /\ m5 \in Nat
      /\ m6 \in Nat /\ j \in Nat /\ i < m1 /\ m1 <= m2 /\ m2 < m3 /\ m3 < m4 /\ m4 <= m5
      /\ m5 < m6 /\ m6 < j /\ IsSeq(us) /\ IsSeq(ws)
  BY ReadsIs, DerivedIs
<1>2. /\ Together(none, none, none) /\ Together(none, us, us) /\ Together(us, ws, both)
  BY <1>1, ConcatEmpty, EmptyIsSeq DEF none, Together
<1>3. /\ Len(symbols) = 7 /\ symbols[1] = "DO" /\ symbols[2] = "statement"
      /\ symbols[3] = "WHILE" /\ symbols[4] = "LPAREN" /\ symbols[5] = "expression"
      /\ symbols[6] = "RPAREN" /\ symbols[7] = "SEMICOLON"
  OBVIOUS
<1>4. /\ "DO" \notin Symbols /\ "statement" \in Symbols /\ "WHILE" \notin Symbols
      /\ "LPAREN" \notin Symbols /\ "expression" \in Symbols /\ "RPAREN" \notin Symbols
      /\ "SEMICOLON" \notin Symbols
  BY WordsAre, SymbolNames DEF Words
<1>5. <<Statements, symbols, <<"DoWhileStatement">>>> \in Rules
  BY RulesOfStatements
<1> HIDE DEF none, symbols, both
<1>6. /\ TokenAt(v, s, symbols, 0, 1, i, m1)
      /\ SymbolAt(v, s, symbols, 1, 2, i, m1, m2, us, none)
      /\ TokenAt(v, s, symbols, 2, 3, m2, m3) /\ TokenAt(v, s, symbols, 3, 4, m3, m4)
      /\ SymbolAt(v, s, symbols, 4, 5, i, m4, m5, ws, none)
      /\ TokenAt(v, s, symbols, 5, 6, m5, m6) /\ TokenAt(v, s, symbols, 6, 7, m6, j)
  BY <1>1, <1>3, <1>4 DEF TokenAt, SymbolAt, none
<1>7. Begun(v, s, symbols, 0, 0, i, i, none, none)
  BY <1>1, <1>3, BeginNothing DEF none
<1>8. Begun(v, s, symbols, 1, 0, i, m1, none, none)
  BY <1>6, <1>7, TokenNext
<1>9. Begun(v, s, symbols, 2, 0, i, m2, us, none)
  BY <1>2, <1>6, <1>8, SymbolNext
<1>10. Begun(v, s, symbols, 3, 0, i, m3, us, none)
  BY <1>6, <1>9, TokenNext
<1>11. Begun(v, s, symbols, 4, 0, i, m4, us, none)
  BY <1>6, <1>10, TokenNext
<1>12. Begun(v, s, symbols, 5, 0, i, m5, both, none)
  BY <1>2, <1>6, <1>11, SymbolNext
<1>13. Begun(v, s, symbols, 6, 0, i, m6, both, none)
  BY <1>6, <1>12, TokenNext
<1>14. Begun(v, s, symbols, 7, 0, i, j, both, none)
  BY <1>6, <1>13, TokenNext
<1>15. <<"DoWhileStatement">> # <<>> /\ <<"DoWhileStatement">>[1] # "VariableDecl"
  OBVIOUS
<1>. QED
  BY <1>3, <1>5, <1>15, <1>14, RuleMakes DEF none, both

LEMMA VariableReads ==
  ASSUME NEW v \in Vocabularies, NEW s \in Streams(v), NEW i, NEW j,
         Reads(v, s, i, j, "IDENTIFIER")
  PROVE  Derived(v, s, "variable", i, j, <<<<"IDENTIFIER">> \o <<>>>>, <<>>)
<1> DEFINE none == <<>>
           symbols == <<"IDENTIFIER">>
<1>1. /\ i \in Nat /\ j \in Nat /\ i < j
  BY ReadsIs, DerivedIs
<1>2. /\ Len(symbols) = 1 /\ symbols[1] = "IDENTIFIER"
  OBVIOUS
<1>3. /\ "IDENTIFIER" \notin Symbols
  BY WordsAre DEF Words
<1>4. <<{"variable"}, symbols, <<"IDENTIFIER">>>> \in Rules
  BY RulesOfStatements
<1> HIDE DEF none, symbols
<1>5. /\ TokenAt(v, s, symbols, 0, 1, i, j)
  BY <1>1, <1>2, <1>3 DEF TokenAt, SymbolAt, none
<1>6. Begun(v, s, symbols, 0, 0, i, i, none, none)
  BY <1>1, <1>2, BeginNothing DEF none
<1>7. Begun(v, s, symbols, 1, 0, i, j, none, none)
  BY <1>5, <1>6, TokenNext
<1>8. <<"IDENTIFIER">> # <<>> /\ <<"IDENTIFIER">>[1] # "VariableDecl"
  OBVIOUS
<1>. QED
  BY <1>2, <1>4, <1>8, <1>7, RuleMakes DEF none

LEMMA ReadReads ==
  ASSUME NEW v \in Vocabularies, NEW s \in Streams(v), NEW x \in Statements, NEW i, NEW m1, NEW m2,
         NEW m3, NEW m4, NEW j, NEW us, Reads(v, s, i, m1, "READ"), Reads(v, s, m1, m2, "LPAREN"),
         Derived(v, s, "variable", m2, m3, us, <<>>), Reads(v, s, m3, m4, "RPAREN"),
         Reads(v, s, m4, j, "SEMICOLON")
  PROVE  Derived(v, s, x, i, j, <<<<"ReadStatement">> \o us>>, <<>>)
<1> DEFINE none == <<>>
           symbols == <<"READ", "LPAREN", "variable", "RPAREN", "SEMICOLON">>
<1>1. /\ i \in Nat /\ m1 \in Nat /\ m2 \in Nat /\ m3 \in Nat /\ m4 \in Nat /\ j \in Nat
      /\ i < m1 /\ m1 < m2 /\ m2 <= m3 /\ m3 < m4 /\ m4 < j /\ IsSeq(us)
  BY ReadsIs, DerivedIs
<1>2. /\ Together(none, none, none) /\ Together(none, us, us)
  BY <1>1, ConcatEmpty, EmptyIsSeq DEF none, Together
<1>3. /\ Len(symbols) = 5 /\ symbols[1] = "READ" /\ symbols[2] = "LPAREN"
      /\ symbols[3] = "variable" /\ symbols[4] = "RPAREN" /\ symbols[5] = "SEMICOLON"
  OBVIOUS
<1>4. /\ "READ" \notin Symbols /\ "LPAREN" \notin Symbols /\ "variable" \in Symbols
      /\ "RPAREN" \notin Symbols /\ "SEMICOLON" \notin Symbols
  BY WordsAre, SymbolNames DEF Words
<1>5. <<Statements, symbols, <<"ReadStatement">>>> \in Rules
  BY RulesOfStatements
<1> HIDE DEF none, symbols
<1>6. /\ TokenAt(v, s, symbols, 0, 1, i, m1) /\ TokenAt(v, s, symbols, 1, 2, m1, m2)
      /\ SymbolAt(v, s, symbols, 2, 3, i, m2, m3, us, none)
      /\ TokenAt(v, s, symbols, 3, 4, m3, m4) /\ TokenAt(v, s, symbols, 4, 5, m4, j)
  BY <1>1, <1>3, <1>4 DEF TokenAt, SymbolAt, none
<1>7. Begun(v, s, symbols, 0, 0, i, i, none, none)
  BY <1>1, <1>3, BeginNothing DEF none
<1>8. Begun(v, s, symbols, 1, 0, i, m1, none, none)
  BY <1>6, <1>7, TokenNext
<1>9. Begun(v, s, symbols, 2, 0, i, m2, none, none)
  BY <1>6, <1>8, TokenNext
<1>10. Begun(v, s, symbols, 3, 0, i, m3, us, none)
  BY <1>2, <1>6, <1>9, SymbolNext
<1>11. Begun(v, s, symbols, 4, 0, i, m4, us, none)
  BY <1>6, <1>10, TokenNext
<1>12. Begun(v, s, symbols, 5, 0, i, j, us, none)
  BY <1>6, <1>11, TokenNext
<1>13. <<"ReadStatement">> # <<>> /\ <<"ReadStatement">>[1] # "VariableDecl"
  OBVIOUS
<1>. QED
  BY <1>3, <1>5, <1>13, <1>12, RuleMakes DEF none

LEMMA WriteNothingReads ==
  ASSUME NEW v \in Vocabularies, NEW s \in Streams(v), NEW x \in Statements, NEW i, NEW m1, NEW m2,
         NEW m3, NEW j, Reads(v, s, i, m1, "WRITE"), Reads(v, s, m1, m2, "LPAREN"),
         Reads(v, s, m2, m3, "RPAREN"), Reads(v, s, m3, j, "SEMICOLON")
  PROVE  Derived(v, s, x, i, j, <<<<"WriteStatement">> \o <<>>>>, <<>>)
<1> DEFINE none == <<>>
           symbols == <<"WRITE", "LPAREN", "RPAREN", "SEMICOLON">>
<1>1. /\ i \in Nat /\ m1 \in Nat /\ m2 \in Nat /\ m3 \in Nat /\ j \in Nat /\ i < m1 /\ m1 < m2
      /\ m2 < m3 /\ m3 < j
  BY ReadsIs, DerivedIs
<1>2. /\ Len(symbols) = 4 /\ symbols[1] = "WRITE" /\ symbols[2] = "LPAREN"
      /\ symbols[3] = "RPAREN" /\ symbols[4] = "SEMICOLON"
  OBVIOUS
<1>3. /\ "WRITE" \notin Symbols /\ "LPAREN" \notin Symbols /\ "RPAREN" \notin Symbols
      /\ "SEMICOLON" \notin Symbols
  BY WordsAre DEF Words
<1>4. <<Statements, symbols, <<"WriteStatement">>>> \in Rules
  BY RulesOfStatements
<1> HIDE DEF none, symbols
<1>5. /\ TokenAt(v, s, symbols, 0, 1, i, m1) /\ TokenAt(v, s, symbols, 1, 2, m1, m2)
      /\ TokenAt(v, s, symbols, 2, 3, m2, m3) /\ TokenAt(v, s, symbols, 3, 4, m3, j)
  BY <1>1, <1>2, <1>3 DEF TokenAt, SymbolAt, none
<1>6. Begun(v, s, symbols, 0, 0, i, i, none, none)
  BY <1>1, <1>2, BeginNothing DEF none
<1>7. Begun(v, s, symbols, 1, 0, i, m1, none, none)
  BY <1>5, <1>6, TokenNext
<1>8. Begun(v, s, symbols, 2, 0, i, m2, none, none)
  BY <1>5, <1>7, TokenNext
<1>9. Begun(v, s, symbols, 3, 0, i, m3, none, none)
  BY <1>5, <1>8, TokenNext
<1>10. Begun(v, s, symbols, 4, 0, i, j, none, none)
  BY <1>5, <1>9, TokenNext
<1>11. <<"WriteStatement">> # <<>> /\ <<"WriteStatement">>[1] # "VariableDecl"
  OBVIOUS
<1>. QED
  BY <1>2, <1>4, <1>11, <1>10, RuleMakes DEF none

LEMMA WriteReads ==
  ASSUME NEW v \in Vocabularies, NEW s \in Streams(v), NEW x \in Statements, NEW i, NEW m1, NEW m2,
         NEW m3, NEW m4, NEW j, NEW us, Reads(v, s, i, m1, "WRITE"), Reads(v, s, m1, m2, "LPAREN"),
         Derived(v, s, "list", m2, m3, us, <<>>), Reads(v, s, m3, m4, "RPAREN"),
         Reads(v, s, m4, j, "SEMICOLON")
  PROVE  Derived(v, s, x, i, j, <<<<"WriteStatement">> \o us>>, <<>>)
<1> DEFINE none == <<>>
           symbols == <<"WRITE", "LPAREN", "list", "RPAREN", "SEMICOLON">>
<1>1. /\ i \in Nat /\ m1 \in Nat /\ m2 \in Nat /\ m3 \in Nat /\ m4 \in Nat /\ j \in Nat
      /\ i < m1 /\ m1 < m2 /\ m2 <= m3 /\ m3 < m4 /\ m4 < j /\ IsSeq(us)
  BY ReadsIs, DerivedIs
<1>2. /\ Together(none, none, none) /\ Together(none, us, us)
  BY <1>1, ConcatEmpty, EmptyIsSeq DEF none, Together
<1>3. /\ Len(symbols) = 5 /\ symbols[1] = "WRITE" /\ symbols[2] = "LPAREN"
      /\ symbols[3] = "list" /\ symbols[4] = "RPAREN" /\ symbols[5] = "SEMICOLON"
  OBVIOUS
<1>4. /\ "WRITE" \notin Symbols /\ "LPAREN" \notin Symbols /\ "list" \in Symbols
      /\ "RPAREN" \notin Symbols /\ "SEMICOLON" \notin Symbols
  BY WordsAre, SymbolNames DEF Words
<1>5. <<Statements, symbols, <<"WriteStatement">>>> \in Rules
  BY RulesOfStatements
<1> HIDE DEF none, symbols
<1>6. /\ TokenAt(v, s, symbols, 0, 1, i, m1) /\ TokenAt(v, s, symbols, 1, 2, m1, m2)
      /\ SymbolAt(v, s, symbols, 2, 3, i, m2, m3, us, none)
      /\ TokenAt(v, s, symbols, 3, 4, m3, m4) /\ TokenAt(v, s, symbols, 4, 5, m4, j)
  BY <1>1, <1>3, <1>4 DEF TokenAt, SymbolAt, none
<1>7. Begun(v, s, symbols, 0, 0, i, i, none, none)
  BY <1>1, <1>3, BeginNothing DEF none
<1>8. Begun(v, s, symbols, 1, 0, i, m1, none, none)
  BY <1>6, <1>7, TokenNext
<1>9. Begun(v, s, symbols, 2, 0, i, m2, none, none)
  BY <1>6, <1>8, TokenNext
<1>10. Begun(v, s, symbols, 3, 0, i, m3, us, none)
  BY <1>2, <1>6, <1>9, SymbolNext
<1>11. Begun(v, s, symbols, 4, 0, i, m4, us, none)
  BY <1>6, <1>10, TokenNext
<1>12. Begun(v, s, symbols, 5, 0, i, j, us, none)
  BY <1>6, <1>11, TokenNext
<1>13. <<"WriteStatement">> # <<>> /\ <<"WriteStatement">>[1] # "VariableDecl"
  OBVIOUS
<1>. QED
  BY <1>3, <1>5, <1>13, <1>12, RuleMakes DEF none

LEMMA IfReads ==
  ASSUME NEW v \in Vocabularies, NEW s \in Streams(v), NEW i, NEW m1, NEW m2, NEW m3, NEW m4,
         NEW j, NEW us, NEW ws, Reads(v, s, i, m1, "IF"), Reads(v, s, m1, m2, "LPAREN"),
         Derived(v, s, "expression", m2, m3, us, <<>>), Reads(v, s, m3, m4, "RPAREN"),
         Derived(v, s, "statement", m4, j, ws, <<>>)
  PROVE  Derived(v, s, "statement", i, j, <<<<"IfStatement">> \o (us \o ws)>>, <<>>)
<1> DEFINE none == <<>>
           symbols == <<"IF", "LPAREN", "expression", "RPAREN", "statement">>
           both == us \o ws
<1>1. /\ i \in Nat /\ m1 \in Nat /\ m2 \in Nat /\ m3 \in Nat /\ m4 \in Nat /\ j \in Nat
      /\ i < m1 /\ m1 < m2 /\ m2 <= m3 /\ m3 < m4 /\ m4 <= j /\ IsSeq(us) /\ IsSeq(ws)
  BY ReadsIs, DerivedIs
<1>2. /\ Together(none, none, none) /\ Together(none, us, us) /\ Together(us, ws, both)
  BY <1>1, ConcatEmpty, EmptyIsSeq DEF none, Together
<1>3. /\ Len(symbols) = 5 /\ symbols[1] = "IF" /\ symbols[2] = "LPAREN"
      /\ symbols[3] = "expression" /\ symbols[4] = "RPAREN" /\ symbols[5] = "statement"
  OBVIOUS
<1>4. /\ "IF" \notin Symbols /\ "LPAREN" \notin Symbols /\ "expression" \in Symbols
      /\ "RPAREN" \notin Symbols /\ "statement" \in Symbols
  BY WordsAre, SymbolNames DEF Words
<1>5. <<{"statement"}, symbols, <<"IfStatement">>>> \in Rules
  BY RulesOfStatements
<1> HIDE DEF none, symbols, both
<1>6. /\ TokenAt(v, s, symbols, 0, 1, i, m1) /\ TokenAt(v, s, symbols, 1, 2, m1, m2)
      /\ SymbolAt(v, s, symbols, 2, 3, i, m2, m3, us, none)
      /\ TokenAt(v, s, symbols, 3, 4, m3, m4)
      /\ SymbolAt(v, s, symbols, 4, 5, i, m4, j, ws, none)
  BY <1>1, <1>3, <1>4 DEF TokenAt, SymbolAt, none
<1>7. Begun(v, s, symbols, 0, 0, i, i, none, none)
  BY <1>1, <1>3, BeginNothing DEF none
<1>8. Begun(v, s, symbols, 1, 0, i, m1, none, none)
  BY <1>6, <1>7, TokenNext
<1>9. Begun(v, s, symbols, 2, 0, i, m2, none, none)
  BY <1>6, <1>8, TokenNext
<1>10. Begun(v, s, symbols, 3, 0, i, m3, us, none)
  BY <1>2, <1>6, <1>9, SymbolNext
<1>11. Begun(v, s, symbols, 4, 0, i, m4, us, none)
  BY <1>6, <1>10, TokenNext
<1>12. Begun(v, s, symbols, 5, 0, i, j, both, none)
  BY <1>2, <1>6, <1>11, SymbolNext
<1>13. <<"IfStatement">> # <<>> /\ <<"IfStatement">>[1] # "VariableDecl"
  OBVIOUS
<1>. QED
  BY <1>3, <1>5, <1>13, <1>12, RuleMakes DEF none, both

LEMMA LabelReads ==
  ASSUME NEW v \in Vocabularies, NEW s \in Streams(v), NEW x \in Statements, NEW i, NEW m, NEW n,
         NEW j, NEW us, Reads(v, s, i, m, "IDENTIFIER"), Reads(v, s, m, n, "COLON"),
         Derived(v, s, x, n, j, us, <<>>)
  PROVE  Derived(v, s, x, i, j, us, <<>>)
<1> DEFINE none == <<>>
           symbols == <<"IDENTIFIER", "COLON", x>>
<1>1. /\ i \in Nat /\ m \in Nat /\ n \in Nat /\ j \in Nat /\ i < m /\ m < n /\ n <= j
      /\ IsSeq(us)
  BY ReadsIs, DerivedIs
<1>2. /\ Together(none, none, none) /\ Together(none, us, us)
  BY <1>1, ConcatEmpty, EmptyIsSeq DEF none, Together
<1>3. /\ Len(symbols) = 3 /\ symbols[1] = "IDENTIFIER" /\ symbols[2] = "COLON"
      /\ symbols[3] = x
  OBVIOUS
<1>4. /\ "IDENTIFIER" \notin Symbols /\ "COLON" \notin Symbols /\ x \in Symbols
  BY WordsAre, SymbolNames DEF Words, Statements
<1>5. <<{x}, symbols, <<>>>> \in Rules
  BY RulesOfEndings
<1> HIDE DEF none, symbols
<1>6. /\ TokenAt(v, s, symbols, 0, 1, i, m) /\ TokenAt(v, s, symbols, 1, 2, m, n)
      /\ SymbolAt(v, s, symbols, 2, 3, i, n, j, us, none)
  BY <1>1, <1>3, <1>4 DEF TokenAt, SymbolAt, none
<1>7. Begun(v, s, symbols, 0, 0, i, i, none, none)
  BY <1>1, <1>3, BeginNothing DEF none
<1>8. Begun(v, s, symbols, 1, 0, i, m, none, none)
  BY <1>6, <1>7, TokenNext
<1>9. Begun(v, s, symbols, 2, 0, i, n, none, none)
  BY <1>6, <1>8, TokenNext
<1>10. Begun(v, s, symbols, 3, 0, i, j, us, none)
  BY <1>2, <1>6, <1>9, SymbolNext
<1>. QED
  BY <1>3, <1>5, <1>10, RuleSays DEF none

LEMMA IfElseReads ==
  ASSUME NEW v \in Vocabularies, NEW s \in Streams(v), NEW x \in Statements, NEW i, NEW m1, NEW m2,
         NEW m3, NEW m4, NEW m5, NEW m6, NEW j, NEW us, NEW ws, NEW ys, Reads(v, s, i, m1, "IF"),
         Reads(v, s, m1, m2, "LPAREN"), Derived(v, s, "expression", m2, m3, us, <<>>),
         Reads(v, s, m3, m4, "RPAREN"), Derived(v, s, "closed", m4, m5, ws, <<>>),
         Reads(v, s, m5, m6, "ELSE"), Derived(v, s, x, m6, j, ys, <<>>)
  PROVE  Derived(v, s, x, i, j, <<<<"IfStatement">> \o (us \o ws \o ys)>>, <<>>)
<1> DEFINE none == <<>>
           symbols == <<"IF", "LPAREN", "expression", "RPAREN", "closed", "ELSE", x>>
           both == us \o ws
           every == both \o ys
<1>1. /\ i \in Nat /\ m1 \in Nat /\ m2 \in Nat /\ m3 \in Nat /\ m4 \in Nat /\ m5 \in Nat
      /\ m6 \in Nat /\ j \in Nat /\ i < m1 /\ m1 < m2 /\ m2 <= m3 /\ m3 < m4 /\ m4 <= m5
      /\ m5 < m6 /\ m6 <= j /\ IsSeq(us) /\ IsSeq(ws) /\ IsSeq(ys)
  BY ReadsIs, DerivedIs
<1>2. /\ Together(both, ys, every) /\ Together(none, none, none) /\ Together(none, us, us)
      /\ Together(us, ws, both)
  BY <1>1, ConcatEmpty, EmptyIsSeq DEF none, Together
<1>3. /\ Len(symbols) = 7 /\ symbols[1] = "IF" /\ symbols[2] = "LPAREN"
      /\ symbols[3] = "expression" /\ symbols[4] = "RPAREN" /\ symbols[5] = "closed"
      /\ symbols[6] = "ELSE" /\ symbols[7] = x
  OBVIOUS
<1>4. /\ "IF" \notin Symbols /\ "LPAREN" \notin Symbols /\ "expression" \in Symbols
      /\ "RPAREN" \notin Symbols /\ "closed" \in Symbols /\ "ELSE" \notin Symbols
      /\ x \in Symbols
  BY WordsAre, SymbolNames DEF Words, Statements
<1>5. <<{x}, symbols, <<"IfStatement">>>> \in Rules
  BY RulesOfEndings
<1> HIDE DEF none, symbols, both, every
<1>6. /\ TokenAt(v, s, symbols, 0, 1, i, m1) /\ TokenAt(v, s, symbols, 1, 2, m1, m2)
      /\ SymbolAt(v, s, symbols, 2, 3, i, m2, m3, us, none)
      /\ TokenAt(v, s, symbols, 3, 4, m3, m4)
      /\ SymbolAt(v, s, symbols, 4, 5, i, m4, m5, ws, none)
      /\ TokenAt(v, s, symbols, 5, 6, m5, m6)
      /\ SymbolAt(v, s, symbols, 6, 7, i, m6, j, ys, none)
  BY <1>1, <1>3, <1>4 DEF TokenAt, SymbolAt, none
<1>7. Begun(v, s, symbols, 0, 0, i, i, none, none)
  BY <1>1, <1>3, BeginNothing DEF none
<1>8. Begun(v, s, symbols, 1, 0, i, m1, none, none)
  BY <1>6, <1>7, TokenNext
<1>9. Begun(v, s, symbols, 2, 0, i, m2, none, none)
  BY <1>6, <1>8, TokenNext
<1>10. Begun(v, s, symbols, 3, 0, i, m3, us, none)
  BY <1>2, <1>6, <1>9, SymbolNext
<1>11. Begun(v, s, symbols, 4, 0, i, m4, us, none)
  BY <1>6, <1>10, TokenNext
<1>12. Begun(v, s, symbols, 5, 0, i, m5, both, none)
  BY <1>2, <1>6, <1>11, SymbolNext
<1>13. Begun(v, s, symbols, 6, 0, i, m6, both, none)
  BY <1>6, <1>12, TokenNext
<1>14. Begun(v, s, symbols, 7, 0, i, j, every, none)
  BY <1>2, <1>6, <1>13, SymbolNext
<1>15. <<"IfStatement">> # <<>> /\ <<"IfStatement">>[1] # "VariableDecl"
  OBVIOUS
<1>. QED
  BY <1>3, <1>5, <1>15, <1>14, RuleMakes DEF none, both, every

LEMMA WhileReads ==
  ASSUME NEW v \in Vocabularies, NEW s \in Streams(v), NEW x \in Statements, NEW i, NEW m1, NEW m2,
         NEW m3, NEW m4, NEW j, NEW us, NEW ws, Reads(v, s, i, m1, "WHILE"),
         Reads(v, s, m1, m2, "LPAREN"), Derived(v, s, "expression", m2, m3, us, <<>>),
         Reads(v, s, m3, m4, "RPAREN"), Derived(v, s, x, m4, j, ws, <<>>)
  PROVE  Derived(v, s, x, i, j, <<<<"WhileStatement">> \o (us \o ws)>>, <<>>)
<1> DEFINE none == <<>>
           symbols == <<"WHILE", "LPAREN", "expression", "RPAREN", x>>
           both == us \o ws
<1>1. /\ i \in Nat /\ m1 \in Nat /\ m2 \in Nat /\ m3 \in Nat /\ m4 \in Nat /\ j \in Nat
      /\ i < m1 /\ m1 < m2 /\ m2 <= m3 /\ m3 < m4 /\ m4 <= j /\ IsSeq(us) /\ IsSeq(ws)
  BY ReadsIs, DerivedIs
<1>2. /\ Together(none, none, none) /\ Together(none, us, us) /\ Together(us, ws, both)
  BY <1>1, ConcatEmpty, EmptyIsSeq DEF none, Together
<1>3. /\ Len(symbols) = 5 /\ symbols[1] = "WHILE" /\ symbols[2] = "LPAREN"
      /\ symbols[3] = "expression" /\ symbols[4] = "RPAREN" /\ symbols[5] = x
  OBVIOUS
<1>4. /\ "WHILE" \notin Symbols /\ "LPAREN" \notin Symbols /\ "expression" \in Symbols
      /\ "RPAREN" \notin Symbols /\ x \in Symbols
  BY WordsAre, SymbolNames DEF Words, Statements
<1>5. <<{x}, symbols, <<"WhileStatement">>>> \in Rules
  BY RulesOfEndings
<1> HIDE DEF none, symbols, both
<1>6. /\ TokenAt(v, s, symbols, 0, 1, i, m1) /\ TokenAt(v, s, symbols, 1, 2, m1, m2)
      /\ SymbolAt(v, s, symbols, 2, 3, i, m2, m3, us, none)
      /\ TokenAt(v, s, symbols, 3, 4, m3, m4)
      /\ SymbolAt(v, s, symbols, 4, 5, i, m4, j, ws, none)
  BY <1>1, <1>3, <1>4 DEF TokenAt, SymbolAt, none
<1>7. Begun(v, s, symbols, 0, 0, i, i, none, none)
  BY <1>1, <1>3, BeginNothing DEF none
<1>8. Begun(v, s, symbols, 1, 0, i, m1, none, none)
  BY <1>6, <1>7, TokenNext
<1>9. Begun(v, s, symbols, 2, 0, i, m2, none, none)
  BY <1>6, <1>8, TokenNext
<1>10. Begun(v, s, symbols, 3, 0, i, m3, us, none)
  BY <1>2, <1>6, <1>9, SymbolNext
<1>11. Begun(v, s, symbols, 4, 0, i, m4, us, none)
  BY <1>6, <1>10, TokenNext
<1>12. Begun(v, s, symbols, 5, 0, i, j, both, none)
  BY <1>2, <1>6, <1>11, SymbolNext
<1>13. <<"WhileStatement">> # <<>> /\ <<"WhileStatement">>[1] # "VariableDecl"
  OBVIOUS
<1>. QED
  BY <1>3, <1>5, <1>13, <1>12, RuleMakes DEF none, both

LEMMA ForReads ==
  ASSUME NEW v \in Vocabularies, NEW s \in Streams(v), NEW x \in Statements, NEW i, NEW m1, NEW m2,
         NEW m3, NEW m4, NEW m5, NEW m6, NEW m7, NEW m8, NEW j, NEW us, NEW ws, NEW ys, NEW zs,
         Reads(v, s, i, m1, "FOR"), Reads(v, s, m1, m2, "LPAREN"),
         Derived(v, s, "maybe", m2, m3, us, <<>>), Reads(v, s, m3, m4, "SEMICOLON"),
         Derived(v, s, "maybe", m4, m5, ws, <<>>), Reads(v, s, m5, m6, "SEMICOLON"),
         Derived(v, s, "maybe", m6, m7, ys, <<>>), Reads(v, s, m7, m8, "RPAREN"),
         Derived(v, s, x, m8, j, zs, <<>>)
  PROVE  Derived(v, s, x, i, j, <<<<"ForStatement">> \o (us \o ws \o ys \o zs)>>, <<>>)
<1> DEFINE none == <<>>
           symbols == <<"FOR", "LPAREN", "maybe", "SEMICOLON", "maybe", "SEMICOLON", "maybe", "RPAREN", x>>
           both == us \o ws
           every == both \o ys
           rest == every \o zs
<1>1. /\ i \in Nat /\ m1 \in Nat /\ m2 \in Nat /\ m3 \in Nat /\ m4 \in Nat /\ m5 \in Nat
      /\ m6 \in Nat /\ m7 \in Nat /\ m8 \in Nat /\ j \in Nat /\ i < m1 /\ m1 < m2 /\ m2 <= m3
      /\ m3 < m4 /\ m4 <= m5 /\ m5 < m6 /\ m6 <= m7 /\ m7 < m8 /\ m8 <= j /\ IsSeq(us)
      /\ IsSeq(ws) /\ IsSeq(ys) /\ IsSeq(zs)
  BY ReadsIs, DerivedIs
<1>2. /\ Together(both, ys, every) /\ Together(every, zs, rest) /\ Together(none, none, none)
      /\ Together(none, us, us) /\ Together(us, ws, both)
  BY <1>1, ConcatEmpty, EmptyIsSeq DEF none, Together
<1>3. /\ Len(symbols) = 9 /\ symbols[1] = "FOR" /\ symbols[2] = "LPAREN"
      /\ symbols[3] = "maybe" /\ symbols[4] = "SEMICOLON" /\ symbols[5] = "maybe"
      /\ symbols[6] = "SEMICOLON" /\ symbols[7] = "maybe" /\ symbols[8] = "RPAREN"
      /\ symbols[9] = x
  OBVIOUS
<1>4. /\ "FOR" \notin Symbols /\ "LPAREN" \notin Symbols /\ "maybe" \in Symbols
      /\ "SEMICOLON" \notin Symbols /\ "RPAREN" \notin Symbols /\ x \in Symbols
  BY WordsAre, SymbolNames DEF Words, Statements
<1>5. <<{x}, symbols, <<"ForStatement">>>> \in Rules
  BY RulesOfEndings
<1> HIDE DEF none, symbols, both, every, rest
<1>6. /\ TokenAt(v, s, symbols, 0, 1, i, m1) /\ TokenAt(v, s, symbols, 1, 2, m1, m2)
      /\ SymbolAt(v, s, symbols, 2, 3, i, m2, m3, us, none)
      /\ TokenAt(v, s, symbols, 3, 4, m3, m4)
      /\ SymbolAt(v, s, symbols, 4, 5, i, m4, m5, ws, none)
      /\ TokenAt(v, s, symbols, 5, 6, m5, m6)
      /\ SymbolAt(v, s, symbols, 6, 7, i, m6, m7, ys, none)
      /\ TokenAt(v, s, symbols, 7, 8, m7, m8)
      /\ SymbolAt(v, s, symbols, 8, 9, i, m8, j, zs, none)
  BY <1>1, <1>3, <1>4 DEF TokenAt, SymbolAt, none
<1>7. Begun(v, s, symbols, 0, 0, i, i, none, none)
  BY <1>1, <1>3, BeginNothing DEF none
<1>8. Begun(v, s, symbols, 1, 0, i, m1, none, none)
  BY <1>6, <1>7, TokenNext
<1>9. Begun(v, s, symbols, 2, 0, i, m2, none, none)
  BY <1>6, <1>8, TokenNext
<1>10. Begun(v, s, symbols, 3, 0, i, m3, us, none)
  BY <1>2, <1>6, <1>9, SymbolNext
<1>11. Begun(v, s, symbols, 4, 0, i, m4, us, none)
  BY <1>6, <1>10, TokenNext
<1>12. Begun(v, s, symbols, 5, 0, i, m5, both, none)
  BY <1>2, <1>6, <1>11, SymbolNext
<1>13. Begun(v, s, symbols, 6, 0, i, m6, both, none)
  BY <1>6, <1>12, TokenNext
<1>14. Begun(v, s, symbols, 7, 0, i, m7, every, none)
  BY <1>2, <1>6, <1>13, SymbolNext
<1>15. Begun(v, s, symbols, 8, 0, i, m8, every, none)
  BY <1>6, <1>14, TokenNext
<1>16. Begun(v, s, symbols, 9, 0, i, j, rest, none)
  BY <1>2, <1>6, <1>15, SymbolNext
<1>17. <<"ForStatement">> # <<>> /\ <<"ForStatement">>[1] # "VariableDecl"
  OBVIOUS
<1>. QED
  BY <1>3, <1>5, <1>17, <1>16, RuleMakes DEF none, both, every, rest

LEMMA DeclaredReads ==
  ASSUME NEW v \in Vocabularies, NEW s \in Streams(v), NEW t \in Types, NEW x \in {One[t], All[t]},
         NEW i, NEW j, Reads(v, s, i, j, "IDENTIFIER")
  PROVE  Derived(v, s, x, i, j, <<>>, <<<<"VariableDecl", t, <<"IDENTIFIER">>>> \o <<>>>>)
<1> DEFINE none == <<>>
           symbols == <<"IDENTIFIER">>
<1>1. /\ i \in Nat /\ j \in Nat /\ i < j
  BY ReadsIs, DerivedIs
<1>2. /\ Len(symbols) = 1 /\ symbols[1] = "IDENTIFIER"
  OBVIOUS
<1>3. /\ "IDENTIFIER" \notin Symbols
  BY WordsAre DEF Words
<1>4. <<{One[t], All[t]}, symbols, <<"VariableDecl", t, <<"IDENTIFIER">>>>>> \in Rules
  BY RulesOfType
<1> HIDE DEF none, symbols
<1>5. /\ TokenAt(v, s, symbols, 0, 1, i, j)
  BY <1>1, <1>2, <1>3 DEF TokenAt, SymbolAt, none
<1>6. Begun(v, s, symbols, 0, 0, i, i, none, none)
  BY <1>1, <1>2, BeginNothing DEF none
<1>7. Begun(v, s, symbols, 1, 0, i, j, none, none)
  BY <1>5, <1>6, TokenNext
<1>8. <<"VariableDecl", t, <<"IDENTIFIER">>>> # <<>> /\ <<"VariableDecl", t, <<"IDENTIFIER">>>>[1] = "VariableDecl"
  OBVIOUS
<1>. QED
  BY <1>2, <1>4, <1>8, <1>7, RuleDeclares DEF none

LEMMA InitialisedReads ==
  ASSUME NEW v \in Vocabularies, NEW s \in Streams(v), NEW t \in Types, NEW x \in {One[t], All[t]},
         NEW i, NEW m, NEW n, NEW j, NEW us, Reads(v, s, i, m, "IDENTIFIER"),
         Reads(v, s, m, n, "ASSIGN"), Derived(v, s, "expression", n, j, us, <<>>)
  PROVE  Derived(v, s, x, i, j, <<>>, <<<<"VariableDecl", t, <<"IDENTIFIER">>>> \o us>>)
<1> DEFINE none == <<>>
           symbols == <<"IDENTIFIER", "ASSIGN", "expression">>
<1>1. /\ i \in Nat /\ m \in Nat /\ n \in Nat /\ j \in Nat /\ i < m /\ m < n /\ n <= j
      /\ IsSeq(us)
  BY ReadsIs, DerivedIs
<1>2. /\ Together(none, none, none) /\ Together(none, us, us)
  BY <1>1, ConcatEmpty, EmptyIsSeq DEF none, Together
<1>3. /\ Len(symbols) = 3 /\ symbols[1] = "IDENTIFIER" /\ symbols[2] = "ASSIGN"
      /\ symbols[3] = "expression"
  OBVIOUS
<1>4. /\ "IDENTIFIER" \notin Symbols /\ "ASSIGN" \notin Symbols /\ "expression" \in Symbols
  BY WordsAre, SymbolNames DEF Words
<1>5. <<{One[t], All[t]}, symbols, <<"VariableDecl", t, <<"IDENTIFIER">>>>>> \in Rules
  BY RulesOfType
<1> HIDE DEF none, symbols
<1>6. /\ TokenAt(v, s, symbols, 0, 1, i, m) /\ TokenAt(v, s, symbols, 1, 2, m, n)
      /\ SymbolAt(v, s, symbols, 2, 3, i, n, j, us, none)
  BY <1>1, <1>3, <1>4 DEF TokenAt, SymbolAt, none
<1>7. Begun(v, s, symbols, 0, 0, i, i, none, none)
  BY <1>1, <1>3, BeginNothing DEF none
<1>8. Begun(v, s, symbols, 1, 0, i, m, none, none)
  BY <1>6, <1>7, TokenNext
<1>9. Begun(v, s, symbols, 2, 0, i, n, none, none)
  BY <1>6, <1>8, TokenNext
<1>10. Begun(v, s, symbols, 3, 0, i, j, us, none)
  BY <1>2, <1>6, <1>9, SymbolNext
<1>11. <<"VariableDecl", t, <<"IDENTIFIER">>>> # <<>> /\ <<"VariableDecl", t, <<"IDENTIFIER">>>>[1] = "VariableDecl"
  OBVIOUS
<1>. QED
  BY <1>3, <1>5, <1>11, <1>10, RuleDeclares DEF none

LEMMA VariablesRead ==
  ASSUME NEW v \in Vocabularies, NEW s \in Streams(v), NEW t \in Types, NEW i, NEW m, NEW n, NEW j,
         NEW ds, NEW es, Derived(v, s, All[t], i, m, <<>>, ds), i < m, Reads(v, s, m, n, "COMMA"),
         Derived(v, s, One[t], n, j, <<>>, es)
  PROVE  Derived(v, s, All[t], i, j, <<>>, ds \o es)
<1> DEFINE none == <<>>
           symbols == <<All[t], "COMMA", One[t]>>
           both == ds \o es
<1>1. /\ i \in Nat /\ m \in Nat /\ n \in Nat /\ j \in Nat /\ i <= m /\ m < n /\ n <= j
      /\ IsSeq(ds) /\ IsSeq(es)
  BY ReadsIs, DerivedIs
<1>2. /\ Together(ds, es, both) /\ Together(none, ds, ds) /\ Together(none, none, none)
  BY <1>1, ConcatEmpty, EmptyIsSeq DEF none, Together
<1>3. /\ Len(symbols) = 3 /\ symbols[1] = All[t] /\ symbols[2] = "COMMA"
      /\ symbols[3] = One[t]
  OBVIOUS
<1>4. /\ All[t] \in Symbols /\ "COMMA" \notin Symbols /\ One[t] \in Symbols
  BY WordsAre, SymbolNames DEF Words
<1>5. <<{All[t]}, symbols, <<>>>> \in Rules
  BY RulesOfType
<1> HIDE DEF none, symbols, both
<1>6. /\ TokenAt(v, s, symbols, 1, 2, m, n)
      /\ SymbolAt(v, s, symbols, 2, 3, i, n, j, none, es)
  BY <1>1, <1>3, <1>4 DEF TokenAt, SymbolAt, none
<1>7. Begun(v, s, symbols, 1, 1, i, m, none, ds)
  BY <1>3, <1>4, BeginFirst DEF none
<1>8. Begun(v, s, symbols, 2, 0, i, n, none, ds)
  BY <1>6, <1>7, TokenAfter
<1>9. Begun(v, s, symbols, 3, 0, i, j, none, both)
  BY <1>2, <1>6, <1>8, SymbolNext
<1>. QED
  BY <1>3, <1>5, <1>9, RuleSays DEF none, both

LEMMA DeclarationReads ==
  ASSUME NEW v \in Vocabularies, NEW s \in Streams(v), NEW t \in Types, NEW i, NEW m, NEW j,
         NEW ds, Reads(v, s, i, m, t), Derived(v, s, All[t], m, j, <<>>, ds)
  PROVE  Derived(v, s, "declaration", i, j, <<>>, ds)
<1> DEFINE none == <<>>
           symbols == <<t, All[t]>>
<1>1. /\ i \in Nat /\ m \in Nat /\ j \in Nat /\ i < m /\ m <= j /\ IsSeq(ds)
  BY ReadsIs, DerivedIs
<1>2. /\ Together(none, ds, ds) /\ Together(none, none, none)
  BY <1>1, ConcatEmpty, EmptyIsSeq DEF none, Together
<1>3. /\ Len(symbols) = 2 /\ symbols[1] = t /\ symbols[2] = All[t]
  OBVIOUS
<1>4. /\ t \notin Symbols /\ All[t] \in Symbols
  BY WordsAre, SymbolNames DEF Words, Types
<1>5. <<{"declaration"}, symbols, <<>>>> \in Rules
  BY RulesOfType
<1> HIDE DEF none, symbols
<1>6. /\ TokenAt(v, s, symbols, 0, 1, i, m)
      /\ SymbolAt(v, s, symbols, 1, 2, i, m, j, none, ds)
  BY <1>1, <1>3, <1>4 DEF TokenAt, SymbolAt, none
<1>7. Begun(v, s, symbols, 0, 0, i, i, none, none)
  BY <1>1, <1>3, BeginNothing DEF none
<1>8. Begun(v, s, symbols, 1, 0, i, m, none, none)
  BY <1>6, <1>7, TokenNext
<1>9. Begun(v, s, symbols, 2, 0, i, j, none, ds)
  BY <1>2, <1>6, <1>8, SymbolNext
<1>. QED
  BY <1>3, <1>5, <1>9, RuleSays DEF none

LEMMA ProgramReads ==
  ASSUME NEW v \in Vocabularies, NEW s \in Streams(v), NEW i, NEW j, Reads(v, s, i, j, "PROGRAM")
  PROVE  Derived(v, s, "program", i, j, <<>>, <<>>)
<1> DEFINE none == <<>>
           symbols == <<"PROGRAM">>
<1>1. /\ i \in Nat /\ j \in Nat /\ i < j
  BY ReadsIs, DerivedIs
<1>2. /\ Len(symbols) = 1 /\ symbols[1] = "PROGRAM"
  OBVIOUS
<1>3. /\ "PROGRAM" \notin Symbols
  BY WordsAre DEF Words
<1>4. <<{"program"}, symbols, <<>>>> \in Rules
  BY RulesOfProgram
<1> HIDE DEF none, symbols
<1>5. /\ TokenAt(v, s, symbols, 0, 1, i, j)
  BY <1>1, <1>2, <1>3 DEF TokenAt, SymbolAt, none
<1>6. Begun(v, s, symbols, 0, 0, i, i, none, none)
  BY <1>1, <1>2, BeginNothing DEF none
<1>7. Begun(v, s, symbols, 1, 0, i, j, none, none)
  BY <1>5, <1>6, TokenNext
<1>. QED
  BY <1>2, <1>4, <1>7, RuleSays DEF none

LEMMA ProgramStatementReads ==
  ASSUME NEW v \in Vocabularies, NEW s \in Streams(v), NEW i, NEW m, NEW j, NEW us, NEW ds, NEW ws,
         Derived(v, s, "program", i, m, us, ds), i < m, Derived(v, s, "statement", m, j, ws, <<>>),
         m < j
  PROVE  Derived(v, s, "program", i, j, us \o ws, ds)
<1> DEFINE none == <<>>
           symbols == <<"program", "statement">>
           both == us \o ws
<1>1. /\ i \in Nat /\ m \in Nat /\ j \in Nat /\ i <= m /\ m <= j /\ IsSeq(us) /\ IsSeq(ds)
      /\ IsSeq(ws)
  BY ReadsIs, DerivedIs
<1>2. /\ Together(ds, none, ds) /\ Together(none, ds, ds) /\ Together(none, us, us)
      /\ Together(us, ws, both)
  BY <1>1, ConcatEmpty, EmptyIsSeq DEF none, Together
<1>3. /\ Len(symbols) = 2 /\ symbols[1] = "program" /\ symbols[2] = "statement"
  OBVIOUS
<1>4. /\ "program" \in Symbols /\ "statement" \in Symbols
  BY SymbolNames
<1>5. <<{"program"}, symbols, <<>>>> \in Rules
  BY RulesOfProgram
<1> HIDE DEF none, symbols, both
<1>6. /\ SymbolAt(v, s, symbols, 1, 2, i, m, j, ws, none)
  BY <1>1, <1>3, <1>4 DEF TokenAt, SymbolAt, none
<1>7. Begun(v, s, symbols, 1, 1, i, m, us, ds)
  BY <1>3, <1>4, BeginFirst DEF none
<1>8. Begun(v, s, symbols, 2, 0, i, j, both, ds)
  BY <1>2, <1>1, <1>6, <1>7, SymbolAfter
<1>. QED
  BY <1>3, <1>5, <1>8, RuleSays DEF none, both

LEMMA ProgramDeclarationReads ==
  ASSUME NEW v \in Vocabularies, NEW s \in Streams(v), NEW i, NEW m, NEW j, NEW us, NEW ds, NEW es,
         Derived(v, s, "program", i, m, us, ds), i < m,
         Derived(v, s, "declaration", m, j, <<>>, es), m < j
  PROVE  Derived(v, s, "program", i, j, us, ds \o es)
<1> DEFINE none == <<>>
           symbols == <<"program", "declaration">>
           both == ds \o es
<1>1. /\ i \in Nat /\ m \in Nat /\ j \in Nat /\ i <= m /\ m <= j /\ IsSeq(us) /\ IsSeq(ds)
      /\ IsSeq(es)
  BY ReadsIs, DerivedIs
<1>2. /\ Together(ds, es, both) /\ Together(none, ds, ds) /\ Together(none, us, us)
      /\ Together(us, none, us)
  BY <1>1, ConcatEmpty, EmptyIsSeq DEF none, Together
<1>3. /\ Len(symbols) = 2 /\ symbols[1] = "program" /\ symbols[2] = "declaration"
  OBVIOUS
<1>4. /\ "program" \in Symbols /\ "declaration" \in Symbols
  BY SymbolNames
<1>5. <<{"program"}, symbols, <<>>>> \in Rules
  BY RulesOfProgram
<1> HIDE DEF none, symbols, both
<1>6. /\ SymbolAt(v, s, symbols, 1, 2, i, m, j, none, es)
  BY <1>1, <1>3, <1>4 DEF TokenAt, SymbolAt, none
<1>7. Begun(v, s, symbols, 1, 1, i, m, us, ds)
  BY <1>3, <1>4, BeginFirst DEF none
<1>8. Begun(v, s, symbols, 2, 0, i, j, us, both)
  BY <1>2, <1>1, <1>6, <1>7, SymbolAfter
<1>. QED
  BY <1>3, <1>5, <1>8, RuleSays DEF none, both

LEMMA ProgramSemicolonReads ==
  ASSUME NEW v \in Vocabularies, NEW s \in Streams(v), NEW i, NEW m, NEW n, NEW j, NEW us, NEW ds,
         NEW es, Derived(v, s, "program", i, m, us, ds), i < m,
         Derived(v, s, "declaration", m, n, <<>>, es), m < n, Reads(v, s, n, j, "SEMICOLON")
  PROVE  Derived(v, s, "program", i, j, us, ds \o es)
<1> DEFINE none == <<>>
           symbols == <<"program", "declaration", "SEMICOLON">>
           both == ds \o es
<1>1. /\ i \in Nat /\ m \in Nat /\ n \in Nat /\ j \in Nat /\ i <= m /\ m <= n /\ n < j
      /\ IsSeq(us) /\ IsSeq(ds) /\ IsSeq(es)
  BY ReadsIs, DerivedIs
<1>2. /\ Together(ds, es, both) /\ Together(none, ds, ds) /\ Together(none, us, us)
      /\ Together(us, none, us)
  BY <1>1, ConcatEmpty, EmptyIsSeq DEF none, Together
<1>3. /\ Len(symbols) = 3 /\ symbols[1] = "program" /\ symbols[2] = "declaration"
      /\ symbols[3] = "SEMICOLON"
  OBVIOUS
<1>4. /\ "program" \in Symbols /\ "declaration" \in Symbols /\ "SEMICOLON" \notin Symbols
  BY WordsAre, SymbolNames DEF Words
<1>5. <<{"program"}, symbols, <<>>>> \in Rules
  BY RulesOfProgram
<1> HIDE DEF none, symbols, both
<1>6. /\ SymbolAt(v, s, symbols, 1, 2, i, m, n, none, es)
      /\ TokenAt(v, s, symbols, 2, 3, n, j)
  BY <1>1, <1>3, <1>4 DEF TokenAt, SymbolAt, none
<1>7. Begun(v, s, symbols, 1, 1, i, m, us, ds)
  BY <1>3, <1>4, BeginFirst DEF none
<1>8. Begun(v, s, symbols, 2, 0, i, n, us, both)
  BY <1>2, <1>1, <1>6, <1>7, SymbolAfter
<1>9. Begun(v, s, symbols, 3, 0, i, j, us, both)
  BY <1>6, <1>8, TokenNext
<1>. QED
  BY <1>3, <1>5, <1>9, RuleSays DEF none, both

-----------------------------------------------------------------------------
LEMMA EmptyTwice == <<>> \o <<>> = <<>>
BY ConcatEmpty, EmptyIsSeq

LEMMA Singles ==
  ASSUME NEW a
  PROVE  <<>> \o <<a>> = <<a>> /\ <<a>> \o <<>> = <<a>>
BY ConcatEmpty, OneIsSeq

-----------------------------------------------------------------------------
(* What the parse functions read.                                             *)

Exp(v, s, X, i, j, t) ==
  /\ i < j /\ \A x \in X : Derived(v, s, x, i, j, <<t>>, <<>>)
  /\ t[1] \in Names => Derived(v, s, "name", i, j, <<t>>, <<>>)
(* A statement is closed if an else follows.                                  *)
Stat(v, s, i, j, t) ==
  /\ i < j /\ Derived(v, s, "statement", i, j, <<t>>, <<>>)
  /\ s[j + 1] = "ELSE" => Derived(v, s, "closed", i, j, <<t>>, <<>>)
Var(v, s, type, i, j, t) ==
  i < j /\ \A x \in {One[type], All[type]} : Derived(v, s, x, i, j, <<>>, <<t>>)
Parenthesised(v, s, i, j, t) ==
  \E m, n : Reads(v, s, i, m, "LPAREN") /\ Exp(v, s, Assignments, m, n, t) /\ Reads(v, s, n, j, "RPAREN")

-----------------------------------------------------------------------------
(* What a call promises: it reads the tokens behind the i-th, up to the j-th,   *)
(* and makes of built b and declarations d the built c and declarations e.      *)

Puts(b, d, c, e, t) == c = <<t>> \o b /\ e = d

ReadsToken(v, s, t, i, j, b, d, c, e) == Reads(v, s, i, j, t) /\ c = b /\ e = d
ReadsIdentifier(v, s, i, j, b, d, c, e) ==
  Reads(v, s, i, j, "IDENTIFIER") /\ Puts(b, d, c, e, <<"IDENTIFIER">>)
ReadsExpression(v, s, X, i, j, b, d, c, e) ==
  IsSeq(b) => \E t : Puts(b, d, c, e, t) /\ Exp(v, s, X, i, j, t)
ReadsOptional(v, s, i, j, b, d, c, e) ==
  IsSeq(b) => \E t : Puts(b, d, c, e, t) /\ Derived(v, s, "maybe", i, j, <<t>>, <<>>)
ReadsStatement(v, s, i, j, b, d, c, e) ==
  IsSeq(b) => \E t : Puts(b, d, c, e, t) /\ Stat(v, s, i, j, t)
ReadsVariable(v, s, type, i, j, b, d, c, e) ==
  IsSeq(b) /\ type \in Types => \E t : Puts(b, d, c, e, t) /\ Var(v, s, type, i, j, t)

Makes(node, n, i, j, b, d, c, e) ==
  /\ i = j /\ e = d
  /\ c = <<node \o Reverse(SubSeq(b, 1, n))>> \o SubSeq(b, n + 1, Len(b))
PushesBack(i, j, b, d, c, e) ==
  i = j /\ e = d /\ c = <<Append(b[2], b[1])>> \o SubSeq(b, 3, Len(b))
Inserts(i, j, b, d, c, e) == i = j /\ c = Tail(b) /\ e = d \o Head(b)

(* An expression is on top of built, of which more may follow.                 *)
Extends(v, s, X, Y, i, j, b, d, c, e) ==
  \A a, t, rest :
    IsSeq(rest) /\ b = <<t>> \o rest /\ Exp(v, s, X, a, i, t)
      => \E u : Puts(rest, d, c, e, u) /\ Exp(v, s, Y, a, j, u)

(* A list of expressions or of variables is the end of what is on top of built. *)
Item(v, s, item, i, j, t) ==
  IF item = Expression THEN Exp(v, s, Assignments, i, j, t) ELSE Var(v, s, item[2], i, j, t)
Items(v, s, item, i, j, q) ==
  /\ i < j
  /\ IF item = Expression THEN Derived(v, s, "list", i, j, q, <<>>)
                          ELSE Derived(v, s, All[item[2]], i, j, <<>>, q)
Listed == {Expression} \cup {Of("variable", type) : type \in Types}
ReadsMore(v, s, item, i, j, b, d, c, e) ==
  \A a, p, q, rest :
    IsSeq(rest) /\ IsSeq(p) /\ b = <<p \o q>> \o rest /\ Items(v, s, item, a, i, q)
      => \E r : Puts(rest, d, c, e, p \o r) /\ Items(v, s, item, a, j, r)
ReadsArguments(v, s, i, j, b, d, c, e) ==
  \A p, rest :
    IsSeq(rest) /\ IsSeq(p) /\ b = <<p>> \o rest
      => \/ i = j /\ Puts(rest, d, c, e, p)
         \/ \E q : Puts(rest, d, c, e, p \o q) /\ Items(v, s, Expression, i, j, q)

ReadsBlock(v, s, i, j, b, d, c, e) ==
  \A a, q, rest :
    IsSeq(rest) /\ b = <<<<"CompoundStatement">> \o q>> \o rest /\ a < i
        /\ Derived(v, s, "block", a, i, q, <<>>)
      => \E u : Puts(rest, d, c, e, u) /\ Stat(v, s, a, j, u)
ReadsElse(v, s, i, j, b, d, c, e) ==
  \A a, m, n, x, t, rest :
    IsSeq(rest) /\ b = <<t>> \o (<<x>> \o rest) /\ Reads(v, s, a, m, "IF")
        /\ Parenthesised(v, s, m, n, x) /\ Stat(v, s, n, i, t)
      => \E u : Puts(rest, d, c, e, u) /\ Stat(v, s, a, j, u)

ReadsInitializer(v, s, type, i, j, b, d, c, e) ==
  \A a, rest :
    IsSeq(rest) /\ type \in Types /\ b = <<<<"IDENTIFIER">>>> \o rest /\ Reads(v, s, a, i, "IDENTIFIER")
      => \E t : Puts(rest, d, c, e, t) /\ Var(v, s, type, a, j, t)
ReadsType(v, s, i, j, b, d, c, e) ==
  \A p, rest :
    IsSeq(rest) /\ IsSeq(p) /\ b = <<p>> \o rest /\ s[i + 1] \in Types
      => \E q : /\ Puts(rest, d, c, e, p \o q)
                /\ i < j /\ Derived(v, s, "declaration", i, j, <<>>, q)

(* A program up to a declaration, whose semicolon may follow.                  *)
Declaring(v, s, i, ts, d, q) ==
  \E m, p, r :
    /\ 0 < m /\ m < i /\ IsSeq(d) /\ IsSeq(p) /\ q = p \o r
    /\ Derived(v, s, "program", 0, m, ts, d \o p) /\ Derived(v, s, "declaration", m, i, <<>>, r)
ReadsDeclarations(v, s, i, j, b, d, c, e) ==
  \A q, ts, rest :
    IsSeq(rest) /\ b = <<q>> \o rest /\ Declaring(v, s, i, ts, d, q)
      => c = rest /\ 0 < j /\ Derived(v, s, "program", 0, j, ts, e)
ReadsProgram(v, s, i, j, b, d, c, e) ==
  \A ts :
    b = <<<<"Program">> \o ts>> /\ 0 < i /\ Derived(v, s, "program", 0, i, ts, d)
      => \E us : c = <<<<"Program">> \o us>> /\ Derived(v, s, "program", 0, j, us, e)

Does(v, s, h, i, j, b, d, c, e) ==
  /\ h[1] = "expect"       => ReadsToken(v, s, h[2], i, j, b, d, c, e)
  /\ h[1] = "make"         => Makes(h[2], h[3], i, j, b, d, c, e)
  /\ h[1] = "push_back"    => PushesBack(i, j, b, d, c, e)
  /\ h[1] = "program"      => ReadsProgram(v, s, i, j, b, d, c, e)
  /\ h[1] = "type"         => ReadsType(v, s, i, j, b, d, c, e)
  /\ h[1] = "declarations" => ReadsDeclarations(v, s, i, j, b, d, c, e)
  /\ h[1] = "declared"     => Inserts(i, j, b, d, c, e)
  /\ h[1] = "more"         => (h[2] \in Listed => ReadsMore(v, s, h[2], i, j, b, d, c, e))
  /\ h[1] = "identifier"   => ReadsIdentifier(v, s, i, j, b, d, c, e)
  /\ h[1] = "variable"     => ReadsVariable(v, s, h[2], i, j, b, d, c, e)
  /\ h[1] = "initializer"  => ReadsInitializer(v, s, h[2], i, j, b, d, c, e)
  /\ h[1] = "assignment"   => ReadsExpression(v, s, Assignments, i, j, b, d, c, e)
  /\ h[1] = "assign"       => Extends(v, s, Disjunctions, Assignments, i, j, b, d, c, e)
  /\ h[1] = "operators"    =>
       (h[2] \in 1 .. 6 => Extends(v, s, Heads[h[2]], Heads[h[2]], i, j, b, d, c, e))
  /\ h[1] \in {"unary", "primary"} => ReadsExpression(v, s, Signed, i, j, b, d, c, e)
  /\ h[1] = "statement"    => ReadsStatement(v, s, i, j, b, d, c, e)
  /\ h[1] = "block"        => ReadsBlock(v, s, i, j, b, d, c, e)
  /\ h[1] = "else"         => ReadsElse(v, s, i, j, b, d, c, e)
  /\ h[1] = "optional"     => ReadsOptional(v, s, i, j, b, d, c, e)
  /\ h[1] = "arguments"    => ReadsArguments(v, s, i, j, b, d, c, e)

(* The calls one after the other.                                             *)
Stages(v, s, q, at, bs, ds) ==
  \A n \in 1 .. Len(q) : Does(v, s, q[n], at[n - 1], at[n], bs[n - 1], ds[n - 1], bs[n], ds[n])
DoesAll(v, s, q, i, j, b, d, c, e) ==
  \E at, bs, ds :
    /\ at[0] = i /\ bs[0] = b /\ ds[0] = d /\ Stages(v, s, q, at, bs, ds)
    /\ at[Len(q)] = j /\ bs[Len(q)] = c /\ ds[Len(q)] = e

LEMMA DoesNothing ==
  ASSUME NEW v, NEW s, NEW i, NEW j, NEW b, NEW d, NEW c, NEW e,
         DoesAll(v, s, <<>>, i, j, b, d, c, e)
  PROVE  i = j /\ b = c /\ d = e
BY DEF DoesAll

LEMMA NothingDoes ==
  ASSUME NEW v, NEW s, NEW i, NEW b, NEW d
  PROVE  DoesAll(v, s, <<>>, i, i, b, d, b, d)
<1> DEFINE at == [n \in 0 .. 0 |-> i]
           bs == [n \in 0 .. 0 |-> b]
           ds == [n \in 0 .. 0 |-> d]
<1>1. at[0] = i /\ bs[0] = b /\ ds[0] = d /\ Len(<<>>) = 0
  OBVIOUS
<1>2. Stages(v, s, <<>>, at, bs, ds)
  BY DEF Stages
<1> HIDE DEF at, bs, ds
<1>. QED
  BY <1>1, <1>2 DEF DoesAll

LEMMA DoesOne ==
  ASSUME NEW v, NEW s, NEW g, NEW i, NEW j, NEW b, NEW d, NEW c, NEW e,
         DoesAll(v, s, <<g>>, i, j, b, d, c, e)
  PROVE  Does(v, s, g, i, j, b, d, c, e)
<1> DEFINE q == <<g>>
<1>1. Len(q) = 1 /\ q[1] = g
  OBVIOUS
<1> HIDE DEF q
<1>2. DoesAll(v, s, q, i, j, b, d, c, e)
  BY DEF q
<1>. QED
  BY <1>1, <1>2 DEF DoesAll, Stages

LEMMA DoesTwo ==
  ASSUME NEW v, NEW s, NEW g, NEW h, NEW i, NEW j, NEW b, NEW d, NEW c, NEW e,
         DoesAll(v, s, <<g, h>>, i, j, b, d, c, e)
  PROVE  \E k, x, y : Does(v, s, g, i, k, b, d, x, y) /\ Does(v, s, h, k, j, x, y, c, e)
<1> DEFINE q == <<g, h>>
<1>1. Len(q) = 2 /\ q[1] = g /\ q[2] = h
  OBVIOUS
<1> HIDE DEF q
<1>2. DoesAll(v, s, q, i, j, b, d, c, e)
  BY DEF q
<1>. QED
  BY <1>1, <1>2 DEF DoesAll, Stages

LEMMA DoesThree ==
  ASSUME NEW v, NEW s, NEW f, NEW g, NEW h, NEW i, NEW j, NEW b, NEW d, NEW c, NEW e,
         DoesAll(v, s, <<f, g, h>>, i, j, b, d, c, e)
  PROVE  \E k, l, x, y, z, w :
           /\ Does(v, s, f, i, k, b, d, x, y) /\ Does(v, s, g, k, l, x, y, z, w)
           /\ Does(v, s, h, l, j, z, w, c, e)
<1> DEFINE q == <<f, g, h>>
<1>1. Len(q) = 3 /\ q[1] = f /\ q[2] = g /\ q[3] = h
  OBVIOUS
<1> HIDE DEF q
<1>2. DoesAll(v, s, q, i, j, b, d, c, e)
  BY DEF q
<1>. QED
  BY <1>1, <1>2 DEF DoesAll, Stages

(* A list of calls in two parts.                                             *)
LEMMA DoesParts ==
  ASSUME NEW v, NEW s, NEW p, NEW q, IsSeq(p), IsSeq(q),
         NEW i, NEW j, NEW b, NEW d, NEW c, NEW e, DoesAll(v, s, p \o q, i, j, b, d, c, e)
  PROVE  \E k, x, y : DoesAll(v, s, p, i, k, b, d, x, y) /\ DoesAll(v, s, q, k, j, x, y, c, e)
<1> DEFINE r == p \o q
<1>1. /\ Len(p) \in Nat /\ Len(q) \in Nat /\ Len(r) = Len(p) + Len(q)
      /\ \A n \in 1 .. Len(p) : r[n] = p[n]
      /\ \A n \in 1 .. Len(q) : r[Len(p) + n] = q[n]
  BY ConcatIs
<1> HIDE DEF r
<1>2. PICK at, bs, ds :
        /\ at[0] = i /\ bs[0] = b /\ ds[0] = d /\ Stages(v, s, r, at, bs, ds)
        /\ at[Len(r)] = j /\ bs[Len(r)] = c /\ ds[Len(r)] = e
  BY DEF DoesAll, r
<1> DEFINE a2 == [n \in 0 .. Len(q) |-> at[Len(p) + n]]
           b2 == [n \in 0 .. Len(q) |-> bs[Len(p) + n]]
           d2 == [n \in 0 .. Len(q) |-> ds[Len(p) + n]]
<1>3. /\ \A n \in 0 .. Len(q) : /\ a2[n] = at[Len(p) + n] /\ b2[n] = bs[Len(p) + n]
                                /\ d2[n] = ds[Len(p) + n]
  OBVIOUS
<1> HIDE DEF a2, b2, d2
<1>4. DoesAll(v, s, p, i, at[Len(p)], b, d, bs[Len(p)], ds[Len(p)])
  <2>1. Stages(v, s, p, at, bs, ds)
    <3>1. ASSUME NEW n \in 1 .. Len(p)
          PROVE  Does(v, s, p[n], at[n - 1], at[n], bs[n - 1], ds[n - 1], bs[n], ds[n])
      <4>1. n \in 1 .. Len(r) /\ r[n] = p[n]
        BY <1>1
      <4>. QED
        BY <1>2, <4>1 DEF Stages
    <3>. QED
      BY <3>1 DEF Stages
  <2>. QED
    BY <1>2, <2>1 DEF DoesAll
<1>5. DoesAll(v, s, q, at[Len(p)], j, bs[Len(p)], ds[Len(p)], c, e)
  <2>1. Stages(v, s, q, a2, b2, d2)
    <3>1. ASSUME NEW n \in 1 .. Len(q)
          PROVE  Does(v, s, q[n], a2[n - 1], a2[n], b2[n - 1], d2[n - 1], b2[n], d2[n])
      <4>1. /\ Len(p) + n \in 1 .. Len(r) /\ r[Len(p) + n] = q[n]
            /\ (Len(p) + n) - 1 = Len(p) + (n - 1) /\ n \in 0 .. Len(q) /\ n - 1 \in 0 .. Len(q)
        BY <1>1
      <4>2. Does(v, s, r[Len(p) + n], at[(Len(p) + n) - 1], at[Len(p) + n],
                 bs[(Len(p) + n) - 1], ds[(Len(p) + n) - 1], bs[Len(p) + n], ds[Len(p) + n])
        BY <1>2, <4>1 DEF Stages
      <4>. QED
        BY <1>3, <4>1, <4>2
    <3>. QED
      BY <3>1 DEF Stages
  <2>2. /\ a2[0] = at[Len(p)] /\ b2[0] = bs[Len(p)] /\ d2[0] = ds[Len(p)]
        /\ a2[Len(q)] = at[Len(r)] /\ b2[Len(q)] = bs[Len(r)] /\ d2[Len(q)] = ds[Len(r)]
    <3>1. 0 \in 0 .. Len(q) /\ Len(q) \in 0 .. Len(q) /\ Len(p) + 0 = Len(p)
      BY <1>1
    <3>. QED
      BY <1>1, <1>3, <3>1
  <2>. QED
    BY <1>2, <2>1, <2>2 DEF DoesAll
<1>. QED
  BY <1>4, <1>5

(* A call, and those after it.                                               *)
LEMMA DoesFirst ==
  ASSUME NEW v, NEW s, NEW h, NEW q, IsSeq(q),
         NEW i, NEW k, NEW j, NEW b, NEW d, NEW x, NEW y, NEW c, NEW e,
         Does(v, s, h, i, k, b, d, x, y), DoesAll(v, s, q, k, j, x, y, c, e)
  PROVE  DoesAll(v, s, <<h>> \o q, i, j, b, d, c, e)
<1> DEFINE r == <<h>> \o q
<1>1. /\ Len(q) \in Nat /\ Len(r) = Len(q) + 1 /\ r[1] = h
      /\ \A n \in 1 .. Len(q) : r[n + 1] = q[n]
  BY Pushed
<1> HIDE DEF r
<1>2. PICK at, bs, ds :
        /\ at[0] = k /\ bs[0] = x /\ ds[0] = y /\ Stages(v, s, q, at, bs, ds)
        /\ at[Len(q)] = j /\ bs[Len(q)] = c /\ ds[Len(q)] = e
  BY DEF DoesAll
<1> DEFINE a2 == [n \in 0 .. Len(r) |-> IF n = 0 THEN i ELSE at[n - 1]]
           b2 == [n \in 0 .. Len(r) |-> IF n = 0 THEN b ELSE bs[n - 1]]
           d2 == [n \in 0 .. Len(r) |-> IF n = 0 THEN d ELSE ds[n - 1]]
<1>3. /\ a2[0] = i /\ b2[0] = b /\ d2[0] = d
      /\ \A n \in 1 .. Len(r) : a2[n] = at[n - 1] /\ b2[n] = bs[n - 1] /\ d2[n] = ds[n - 1]
  BY <1>1
<1> HIDE DEF a2, b2, d2
<1>4. Stages(v, s, r, a2, b2, d2)
  <2>1. ASSUME NEW n \in 1 .. Len(r)
        PROVE  Does(v, s, r[n], a2[n - 1], a2[n], b2[n - 1], d2[n - 1], b2[n], d2[n])
    <3>1. CASE n = 1
      <4>1. /\ r[n] = h /\ a2[n - 1] = i /\ b2[n - 1] = b /\ d2[n - 1] = d
            /\ a2[n] = k /\ b2[n] = x /\ d2[n] = y
        BY <1>1, <1>2, <1>3, <3>1
      <4>. QED
        BY <4>1
    <3>2. CASE n # 1
      <4>1. n - 1 \in 1 .. Len(q) /\ n - 1 \in 1 .. Len(r) /\ (n - 1) + 1 = n
        BY <1>1, <3>2
      <4>2. Does(v, s, q[n - 1], at[(n - 1) - 1], at[n - 1],
                 bs[(n - 1) - 1], ds[(n - 1) - 1], bs[n - 1], ds[n - 1])
        BY <1>2, <4>1 DEF Stages
      <4>3. r[n] = q[n - 1]
        BY <1>1, <4>1
      <4>4. /\ a2[n] = at[n - 1] /\ b2[n] = bs[n - 1] /\ d2[n] = ds[n - 1]
            /\ a2[n - 1] = at[(n - 1) - 1] /\ b2[n - 1] = bs[(n - 1) - 1]
            /\ d2[n - 1] = ds[(n - 1) - 1]
        BY <1>3, <4>1
      <4>. QED
        BY <4>2, <4>3, <4>4
    <3>. QED
      BY <3>1, <3>2
  <2>. QED
    BY <2>1 DEF Stages
<1>5. a2[Len(r)] = j /\ b2[Len(r)] = c /\ d2[Len(r)] = e
  <2>1. Len(r) \in 1 .. Len(r) /\ Len(r) - 1 = Len(q)
    BY <1>1
  <2>. QED
    BY <1>2, <1>3, <2>1
<1>6. DoesAll(v, s, r, i, j, b, d, c, e)
  BY <1>3, <1>4, <1>5 DEF DoesAll
<1>. QED
  BY <1>6 DEF r

-----------------------------------------------------------------------------
(* What is on top of built.                                                   *)

LEMMA SubSeqIs ==
  ASSUME NEW q, IsSeq(q), NEW m \in Nat \ {0}, NEW n \in Nat, m <= n + 1, n <= Len(q)
  PROVE  /\ IsSeq(SubSeq(q, m, n)) /\ Len(SubSeq(q, m, n)) = n - m + 1
         /\ \A i \in 1 .. n - m + 1 : SubSeq(q, m, n)[i] = q[m + i - 1]
<1>1. PICK S : q \in Seq(S)
  BY DEF IsSeq
<1>2. \A i \in m .. n : i \in 1 .. Len(q)
  BY <1>1
<1>3. SubSeq(q, m, n) = [i \in 1 .. n - m + 1 |-> q[i + m - 1]]
  BY <1>1 DEF SubSeq
<1>4. n - m + 1 \in Nat
  OBVIOUS
<1>5. \A i \in 1 .. n - m + 1 : SubSeq(q, m, n)[i] = q[m + i - 1]
  BY <1>3
<1>6. SubSeq(q, m, n) = [i \in 1 .. n - m + 1 |-> SubSeq(q, m, n)[i]]
  BY <1>3
<1>7. IsSeq(SubSeq(q, m, n)) /\ Len(SubSeq(q, m, n)) = n - m + 1
  BY <1>4, <1>6, FunctionIsSeq
<1>. QED
  BY <1>5, <1>7

LEMMA SubSeqParts ==
  ASSUME NEW q, NEW r, IsSeq(q), IsSeq(r)
  PROVE  SubSeq(q \o r, 1, Len(q)) = q /\ SubSeq(q \o r, Len(q) + 1, Len(q \o r)) = r
<1> DEFINE w == q \o r
<1>1. /\ IsSeq(w) /\ Len(q) \in Nat /\ Len(r) \in Nat /\ Len(w) = Len(q) + Len(r)
      /\ \A i \in 1 .. Len(q) : w[i] = q[i]
      /\ \A i \in 1 .. Len(r) : w[Len(q) + i] = r[i]
  BY ConcatIs
<1> HIDE DEF w
<1>2. SubSeq(w, 1, Len(q)) = q
  <2>1. /\ IsSeq(SubSeq(w, 1, Len(q))) /\ Len(SubSeq(w, 1, Len(q))) = Len(q)
        /\ \A i \in 1 .. Len(q) : SubSeq(w, 1, Len(q))[i] = w[1 + i - 1]
    BY <1>1, SubSeqIs
  <2>2. \A i \in 1 .. Len(q) : 1 + i - 1 = i
    BY <1>1
  <2>. QED
    BY <1>1, <2>1, <2>2, SameSeq
<1>3. SubSeq(w, Len(q) + 1, Len(w)) = r
  <2>1. /\ IsSeq(SubSeq(w, Len(q) + 1, Len(w))) /\ Len(SubSeq(w, Len(q) + 1, Len(w))) = Len(r)
        /\ \A i \in 1 .. Len(r) : SubSeq(w, Len(q) + 1, Len(w))[i] = w[Len(q) + 1 + i - 1]
    <3>1. /\ Len(q) + 1 \in Nat \ {0} /\ Len(w) \in Nat /\ Len(q) + 1 <= Len(w) + 1
          /\ Len(w) <= Len(w) /\ Len(w) - (Len(q) + 1) + 1 = Len(r)
      BY <1>1
    <3>2. /\ IsSeq(SubSeq(w, Len(q) + 1, Len(w)))
          /\ Len(SubSeq(w, Len(q) + 1, Len(w))) = Len(w) - (Len(q) + 1) + 1
          /\ \A i \in 1 .. Len(w) - (Len(q) + 1) + 1 :
               SubSeq(w, Len(q) + 1, Len(w))[i] = w[Len(q) + 1 + i - 1]
      BY <1>1, <3>1, SubSeqIs
    <3>. QED
      BY <3>1, <3>2
  <2>2. \A i \in 1 .. Len(r) : Len(q) + 1 + i - 1 = Len(q) + i
    BY <1>1
  <2>. QED
    BY <1>1, <2>1, <2>2, SameSeq
<1>. QED
  BY <1>2, <1>3 DEF w

LEMMA Stacked ==
  ASSUME NEW q, NEW a, NEW rest, IsSeq(q), IsSeq(rest)
  PROVE  IsSeq(<<a>> \o rest) /\ IsSeq(q \o <<a>>) /\ (q \o <<a>>) \o rest = q \o (<<a>> \o rest)
<1>1. IsSeq(<<a>>)
  BY OneIsSeq
<1>. QED
  BY <1>1, ConcatAssoc, ConcatIs

LEMMA TuplesAre ==
  /\ \A a, b : IsSeq(<<a, b>>) /\ Len(<<a, b>>) = 2
  /\ \A a, b, c : IsSeq(<<a, b, c>>) /\ Len(<<a, b, c>>) = 3
  /\ \A a, b, c, d : IsSeq(<<a, b, c, d>>) /\ Len(<<a, b, c, d>>) = 4
<1>1. \A a, b : <<a, b>> \in Seq({a, b})
  OBVIOUS
<1>2. \A a, b, c : <<a, b, c>> \in Seq({a, b, c})
  OBVIOUS
<1>3. \A a, b, c, d : <<a, b, c, d>> \in Seq({a, b, c, d})
  OBVIOUS
<1>. QED
  BY <1>1, <1>2, <1>3 DEF IsSeq

LEMMA StackedTwo ==
  ASSUME NEW a, NEW b, NEW rest, IsSeq(rest)
  PROVE  <<b>> \o (<<a>> \o rest) = <<b, a>> \o rest
<1>1. IsSeq(<<b>>)
  BY OneIsSeq
<1>2. (<<b>> \o <<a>>) \o rest = <<b>> \o (<<a>> \o rest) /\ IsSeq(<<b>> \o <<a>>)
  BY <1>1, Stacked
<1>. QED
  BY <1>2, TwoOf

Three(a, b, c, rest) == <<c>> \o (<<b>> \o (<<a>> \o rest)) = <<c, b, a>> \o rest
LEMMA StackedThree ==
  ASSUME NEW a, NEW b, NEW c, NEW rest, IsSeq(rest)
  PROVE  Three(a, b, c, rest)
<1> DEFINE more == <<a>> \o rest
<1>1. IsSeq(more)
  BY Stacked
<1> HIDE DEF more
<1>2. IsSeq(<<c, b>>) /\ <<c>> \o (<<b>> \o more) = <<c, b>> \o more
  BY <1>1, TuplesAre, StackedTwo
<1>3. (<<c, b>> \o <<a>>) \o rest = <<c, b>> \o more /\ IsSeq(<<c, b>> \o <<a>>)
  BY <1>2, Stacked DEF more
<1>4. <<c>> \o (<<b>> \o more) = <<c, b, a>> \o rest
  BY <1>2, <1>3, ThreeOf
<1>. QED
  BY <1>4 DEF more, Three

Four(a, b, c, d, rest) ==
  <<d>> \o (<<c>> \o (<<b>> \o (<<a>> \o rest))) = <<d, c, b, a>> \o rest
LEMMA StackedFour ==
  ASSUME NEW a, NEW b, NEW c, NEW d, NEW rest, IsSeq(rest)
  PROVE  Four(a, b, c, d, rest)
<1> DEFINE more == <<a>> \o rest
<1>1. IsSeq(more)
  BY Stacked
<1> HIDE DEF more
<1>2. <<d>> \o (<<c>> \o (<<b>> \o more)) = <<d, c, b>> \o more
  <2>1. Three(b, c, d, more)
    BY <1>1, StackedThree
  <2>. QED
    BY <2>1 DEF Three
<1>3. (<<d, c, b>> \o <<a>>) \o rest = <<d, c, b>> \o more
  BY TuplesAre, Stacked DEF more
<1>4. <<d>> \o (<<c>> \o (<<b>> \o more)) = <<d, c, b, a>> \o rest
  BY <1>2, <1>3, FourOf
<1>. QED
  BY <1>4 DEF more, Four

LEMMA MakeOne ==
  ASSUME NEW node, NEW i, NEW j, NEW t, NEW rest, IsSeq(rest), NEW d, NEW c, NEW e,
         Makes(node, 1, i, j, <<t>> \o rest, d, c, e)
  PROVE  i = j /\ Puts(rest, d, c, e, node \o <<t>>)
<1>1. IsSeq(<<t>>) /\ Len(<<t>>) = 1
  BY OneIsSeq
<1>2. /\ SubSeq(<<t>> \o rest, 1, 1) = <<t>>
      /\ SubSeq(<<t>> \o rest, 1 + 1, Len(<<t>> \o rest)) = rest
  BY <1>1, SubSeqParts
<1>3. Reverse(<<t>>) = <<t>>
  BY DEF Reverse
<1>. QED
  BY <1>2, <1>3 DEF Makes, Puts

LEMMA MakeTwo ==
  ASSUME NEW node, NEW i, NEW j, NEW t, NEW u, NEW rest, IsSeq(rest),
         NEW d, NEW c, NEW e,
         Makes(node, 2, i, j, <<u>> \o (<<t>> \o rest), d, c, e)
  PROVE  i = j /\ Puts(rest, d, c, e, node \o <<t, u>>)
<1>0. IsSeq(<<u, t>>) /\ Len(<<u, t>>) = 2
  BY TuplesAre
<1>1. <<u>> \o (<<t>> \o rest) = <<u, t>> \o rest
  BY StackedTwo, Zenon
<1>2. /\ SubSeq(<<u, t>> \o rest, 1, 2) = <<u, t>>
      /\ SubSeq(<<u, t>> \o rest, 2 + 1, Len(<<u, t>> \o rest)) = rest
  BY <1>0, SubSeqParts
<1>3. Reverse(<<u, t>>) = <<t, u>>
  BY DEF Reverse
<1>. QED
  BY <1>1, <1>2, <1>3 DEF Makes, Puts

LEMMA MakeThree ==
  ASSUME NEW node, NEW i, NEW j, NEW t, NEW u, NEW w, NEW rest, IsSeq(rest),
         NEW d, NEW c, NEW e,
         Makes(node, 3, i, j, <<w>> \o (<<u>> \o (<<t>> \o rest)), d, c, e)
  PROVE  i = j /\ Puts(rest, d, c, e, node \o <<t, u, w>>)
<1>0. IsSeq(<<w, u, t>>) /\ Len(<<w, u, t>>) = 3
  BY TuplesAre
<1>1. <<w>> \o (<<u>> \o (<<t>> \o rest)) = <<w, u, t>> \o rest
  <2>1. Three(t, u, w, rest)
    BY StackedThree
  <2>. QED
    BY <2>1 DEF Three
<1>2. /\ SubSeq(<<w, u, t>> \o rest, 1, 3) = <<w, u, t>>
      /\ SubSeq(<<w, u, t>> \o rest, 3 + 1, Len(<<w, u, t>> \o rest)) = rest
  BY <1>0, SubSeqParts
<1>3. Reverse(<<w, u, t>>) = <<t, u, w>>
  BY DEF Reverse
<1>. QED
  BY <1>1, <1>2, <1>3 DEF Makes, Puts

LEMMA MakeFour ==
  ASSUME NEW node, NEW i, NEW j, NEW t, NEW u, NEW w, NEW z, NEW rest, IsSeq(rest),
         NEW d, NEW c, NEW e,
         Makes(node, 4, i, j, <<z>> \o (<<w>> \o (<<u>> \o (<<t>> \o rest))), d, c, e)
  PROVE  i = j /\ Puts(rest, d, c, e, node \o <<t, u, w, z>>)
<1>0. IsSeq(<<z, w, u, t>>) /\ Len(<<z, w, u, t>>) = 4
  BY TuplesAre
<1>1. <<z>> \o (<<w>> \o (<<u>> \o (<<t>> \o rest))) = <<z, w, u, t>> \o rest
  <2>1. Four(t, u, w, z, rest)
    BY StackedFour
  <2>. QED
    BY <2>1 DEF Four
<1>2. /\ SubSeq(<<z, w, u, t>> \o rest, 1, 4) = <<z, w, u, t>>
      /\ SubSeq(<<z, w, u, t>> \o rest, 4 + 1, Len(<<z, w, u, t>> \o rest)) = rest
  BY <1>0, SubSeqParts
<1>3. Reverse(<<z, w, u, t>>) = <<t, u, w, z>>
  BY DEF Reverse
<1>. QED
  BY <1>1, <1>2, <1>3 DEF Makes, Puts

LEMMA Back ==
  ASSUME NEW i, NEW j, NEW t, NEW p, NEW q, NEW rest, IsSeq(p), IsSeq(q), IsSeq(rest),
         NEW d, NEW c, NEW e, PushesBack(i, j, <<t>> \o (<<p \o q>> \o rest), d, c, e)
  PROVE  i = j /\ Puts(rest, d, c, e, p \o (q \o <<t>>))
<1> DEFINE w == p \o q
           b == <<t>> \o (<<w>> \o rest)
<1> HIDE DEF w
<1>1. IsSeq(<<t, w>>) /\ Len(<<t, w>>) = 2 /\ b = <<t, w>> \o rest
  BY TuplesAre, StackedTwo
<1>2. SubSeq(<<t, w>> \o rest, 2 + 1, Len(<<t, w>> \o rest)) = rest
  BY <1>1, SubSeqParts
<1>3. b[1] = t /\ b[2] = w
  <2>1. /\ \A n \in 1 .. 2 : b[n] = <<t, w>>[n]
    BY <1>1, ConcatIs
  <2>. QED
    BY <2>1
<1>4. Append(w, t) = p \o (q \o <<t>>)
  <2>1. PICK S : p \o q \in Seq(S)
    BY ConcatIs DEF IsSeq
  <2>2. p \o q \in Seq(S \cup {t}) /\ t \in S \cup {t}
    BY <2>1, SeqDef
  <2>3. Append(p \o q, t) = (p \o q) \o <<t>>
    BY <2>2, AppendIsConcat
  <2>4. IsSeq(<<t>>)
    BY OneIsSeq
  <2>5. (p \o q) \o <<t>> = p \o (q \o <<t>>)
    BY <2>4, ConcatAssoc
  <2>. QED
    BY <2>3, <2>5 DEF w
<1>5. SubSeq(b, 3, Len(b)) = rest
  BY <1>1, <1>2
<1> HIDE DEF b
<1>6. PushesBack(i, j, b, d, c, e)
  BY DEF b, w
<1>. QED
  BY <1>3, <1>4, <1>5, <1>6 DEF PushesBack, Puts

-----------------------------------------------------------------------------
(* What single calls promise.                                                 *)

LEMMA Expected ==
  ASSUME NEW v, NEW s, NEW t, NEW i, NEW j, NEW b, NEW d, NEW c, NEW e,
         Does(v, s, Expect(t), i, j, b, d, c, e)
  PROVE  Reads(v, s, i, j, t) /\ c = b /\ e = d
BY DEF Does, Expect, ReadsToken

LEMMA Made ==
  ASSUME NEW v, NEW s, NEW node, NEW n, NEW i, NEW j, NEW b, NEW d, NEW c, NEW e,
         Does(v, s, Make(node, n), i, j, b, d, c, e)
  PROVE  Makes(node, n, i, j, b, d, c, e)
BY DEF Does, Make

LEMMA BackDoes ==
  ASSUME NEW v, NEW s, NEW i, NEW j, NEW b, NEW d, NEW c, NEW e,
         Does(v, s, Call("push_back"), i, j, b, d, c, e)
  PROVE  PushesBack(i, j, b, d, c, e)
BY DEF Does, Call

LEMMA ExpressionDoes ==
  ASSUME NEW v, NEW s, NEW i, NEW j, NEW b, NEW d, NEW c, NEW e, IsSeq(b),
         Does(v, s, Expression, i, j, b, d, c, e)
  PROVE  \E t : Puts(b, d, c, e, t) /\ Exp(v, s, Assignments, i, j, t)
BY DEF Does, Expression, Call, ReadsExpression

LEMMA UnaryDoes ==
  ASSUME NEW v, NEW s, NEW f \in {"unary", "primary"},
         NEW i, NEW j, NEW b, NEW d, NEW c, NEW e, IsSeq(b),
         Does(v, s, Call(f), i, j, b, d, c, e)
  PROVE  \E t : Puts(b, d, c, e, t) /\ Exp(v, s, Signed, i, j, t)
BY DEF Does, Call, ReadsExpression

LEMMA StatementDoes ==
  ASSUME NEW v, NEW s, NEW i, NEW j, NEW b, NEW d, NEW c, NEW e, IsSeq(b),
         Does(v, s, Statement, i, j, b, d, c, e)
  PROVE  \E t : Puts(b, d, c, e, t) /\ Stat(v, s, i, j, t)
BY DEF Does, Statement, Call, ReadsStatement

LEMMA OperatorsDo ==
  ASSUME NEW v, NEW s, NEW k \in 1 .. 6, NEW i, NEW j, NEW b, NEW d, NEW c, NEW e,
         NEW a, NEW t, IsSeq(b), Exp(v, s, Heads[k], a, i, t),
         Does(v, s, Of("operators", k), i, j, <<t>> \o b, d, c, e)
  PROVE  \E u : Puts(b, d, c, e, u) /\ Exp(v, s, Heads[k], a, j, u)
<1> DEFINE bb == <<t>> \o b
<1>1. Does(v, s, Of("operators", k), i, j, bb, d, c, e) /\ bb = <<t>> \o b
  OBVIOUS
<1> HIDE DEF bb
<1>2. Extends(v, s, Heads[k], Heads[k], i, j, bb, d, c, e)
  BY <1>1 DEF Does, Of
<1>. QED
  BY <1>1, <1>2 DEF Extends

LEMMA ConditionDoes ==
  ASSUME NEW v, NEW s, NEW i, NEW j, NEW b, NEW d, NEW c, NEW e, IsSeq(b),
         DoesAll(v, s, Condition, i, j, b, d, c, e)
  PROVE  \E t : Puts(b, d, c, e, t) /\ Parenthesised(v, s, i, j, t)
<1>1. PICK k, l, x, y, z, w :
        /\ Does(v, s, Expect("LPAREN"), i, k, b, d, x, y) /\ Does(v, s, Expression, k, l, x, y, z, w)
        /\ Does(v, s, Expect("RPAREN"), l, j, z, w, c, e)
  BY DoesThree DEF Condition
<1>2. Reads(v, s, i, k, "LPAREN") /\ x = b /\ y = d
  BY <1>1, Expected
<1>3. Reads(v, s, l, j, "RPAREN") /\ c = z /\ e = w
  BY <1>1, Expected
<1>4. PICK t : Puts(b, d, z, w, t) /\ Exp(v, s, Assignments, k, l, t)
  BY <1>1, <1>2, ExpressionDoes
<1>. QED
  BY <1>2, <1>3, <1>4 DEF Parenthesised

(* What may be less may be more.                                              *)
LEMMA HeadsDown == \A k \in 1 .. 6 : Heads[k] \subseteq Heads[k + 1]
<1>1. SUFFICES ASSUME NEW k \in 1 .. 6 PROVE Heads[k] \subseteq Heads[k + 1]
  OBVIOUS
<1>2. /\ Disjunctions \subseteq Conjunctions /\ Conjunctions \subseteq Equalities
      /\ Equalities \subseteq Relations /\ Relations \subseteq Sums /\ Sums \subseteq Products
      /\ Products \subseteq Signed
  BY DEF Signed, Products, Sums, Relations, Equalities, Conjunctions, Disjunctions
<1>3. /\ Heads[1] = Disjunctions /\ Heads[2] = Conjunctions /\ Heads[3] = Equalities
      /\ Heads[4] = Relations /\ Heads[5] = Sums /\ Heads[6] = Products /\ Heads[7] = Signed
  BY DEF Heads
<1>4. k = 1 \/ k = 2 \/ k = 3 \/ k = 4 \/ k = 5 \/ k = 6
  OBVIOUS
<1>. QED
  BY <1>2, <1>3, <1>4

LEMMA OperandIs ==
  ASSUME NEW k \in 1 .. 7
  PROVE  /\ IsSeq(Operand(k)) /\ Len(Operand(k)) = 8 - k /\ Operand(k)[1] = Call("unary")
         /\ \A n \in 2 .. 8 - k : Operand(k)[n] = Of("operators", 8 - n)
<1> DEFINE ops == [i \in DOMAIN Levels |-> Of("operators", i)]
           Rest == SubSeq(ops, k, Len(Levels))
           back == Reverse(Rest)
<1>1. Len(Levels) = 6 /\ DOMAIN Levels = 1 .. 6
  BY DEF Levels
<1>2. IsSeq(ops) /\ Len(ops) = 6 /\ \A i \in 1 .. 6 : ops[i] = Of("operators", i)
  <2>1. ops = [i \in 1 .. 6 |-> ops[i]]
    BY <1>1
  <2>. QED
    BY <1>1, <2>1, FunctionIsSeq
<1> HIDE DEF ops
<1>3. /\ IsSeq(Rest) /\ Len(Rest) = 7 - k
      /\ \A i \in 1 .. 7 - k : Rest[i] = Of("operators", k + i - 1)
  <2>1. k \in Nat \ {0} /\ 6 \in Nat /\ k <= 6 + 1 /\ 6 <= Len(ops) /\ 6 - k + 1 = 7 - k
    BY <1>2
  <2>0. Rest = SubSeq(ops, k, 6)
    BY <1>1
  <2> HIDE DEF Rest
  <2>2. IsSeq(Rest) /\ Len(Rest) = 6 - k + 1 /\ \A i \in 1 .. 6 - k + 1 : Rest[i] = ops[k + i - 1]
    BY <1>2, <2>0, <2>1, SubSeqIs
  <2>3. \A i \in 1 .. 7 - k : k + i - 1 \in 1 .. 6
    OBVIOUS
  <2>. QED
    BY <1>2, <2>1, <2>2, <2>3
<1> HIDE DEF Rest
<1>4. /\ IsSeq(back) /\ Len(back) = 7 - k
      /\ \A i \in 1 .. 7 - k : back[i] = Of("operators", 7 - i)
  <2>1. back = [i \in 1 .. 7 - k |-> Rest[((7 - k) - i) + 1]]
    BY <1>3 DEF Reverse
  <2>2. back = [i \in 1 .. 7 - k |-> back[i]] /\ 7 - k \in Nat
    BY <2>1
  <2>3. IsSeq(back) /\ Len(back) = 7 - k
    BY <2>2, FunctionIsSeq
  <2>4. ASSUME NEW i \in 1 .. 7 - k PROVE back[i] = Of("operators", 7 - i)
    <3>1. ((7 - k) - i) + 1 \in 1 .. 7 - k /\ k + (((7 - k) - i) + 1) - 1 = 7 - i
      OBVIOUS
    <3>. QED
      BY <1>3, <2>1, <3>1
  <2>. QED
    BY <2>3, <2>4
<1> HIDE DEF back
<1>5. Operand(k) = <<Call("unary")>> \o back
  BY DEF Operand, back, Rest, ops
<1>6. /\ IsSeq(Operand(k)) /\ Len(Operand(k)) = 8 - k /\ Operand(k)[1] = Call("unary")
      /\ \A n \in 1 .. 7 - k : Operand(k)[n + 1] = back[n]
  BY <1>4, <1>5, Pushed
<1>7. ASSUME NEW n \in 2 .. 8 - k PROVE Operand(k)[n] = Of("operators", 8 - n)
  <2>1. n - 1 \in 1 .. 7 - k /\ (n - 1) + 1 = n /\ 7 - (n - 1) = 8 - n
    OBVIOUS
  <2>. QED
    BY <1>4, <1>6, <2>1
<1>. QED
  BY <1>6, <1>7

(* The calls for an operand of the operators of a level.                       *)
LEMMA OperandDoes ==
  ASSUME NEW v, NEW s, NEW k \in 1 .. 7, NEW i, NEW j, NEW b, NEW d, NEW c, NEW e, IsSeq(b),
         DoesAll(v, s, Operand(k), i, j, b, d, c, e)
  PROVE  \E t : Puts(b, d, c, e, t) /\ Exp(v, s, Heads[k], i, j, t)
<1> DEFINE q == Operand(k)
<1>1. /\ Len(q) = 8 - k /\ q[1] = Call("unary")
      /\ \A n \in 2 .. 8 - k : q[n] = Of("operators", 8 - n)
  BY OperandIs
<1> HIDE DEF q
<1>2. PICK at, bs, ds :
        /\ at[0] = i /\ bs[0] = b /\ ds[0] = d /\ Stages(v, s, q, at, bs, ds)
        /\ at[Len(q)] = j /\ bs[Len(q)] = c /\ ds[Len(q)] = e
  BY DEF DoesAll, q
<1> DEFINE Reached(n) == \E t : Puts(b, d, bs[n], ds[n], t) /\ Exp(v, s, Heads[8 - n], i, at[n], t)
           G == {n \in Nat : n + 1 <= 8 - k => Reached(n + 1)}
<1>3. 0 \in G
  <2>1. 1 \in 1 .. Len(q) /\ 1 - 1 = 0 /\ 8 - 1 = 7 /\ 0 + 1 = 1
    BY <1>1
  <2>2. Does(v, s, Call("unary"), i, at[1], b, d, bs[1], ds[1])
    BY <1>1, <1>2, <2>1 DEF Stages
  <2>3. PICK t : Puts(b, d, bs[1], ds[1], t) /\ Exp(v, s, Signed, i, at[1], t)
    BY <2>2, UnaryDoes
  <2>4. Heads[7] = Signed
    BY DEF Heads
  <2>. QED
    BY <2>1, <2>3, <2>4
<1>4. ASSUME NEW n \in Nat, n \in G PROVE n + 1 \in G
  <2>1. SUFFICES ASSUME n + 2 <= 8 - k PROVE Reached(n + 2)
    BY <1>4
  <2>2. /\ n + 1 <= 8 - k /\ n + 2 \in 2 .. 8 - k /\ n + 2 \in 1 .. Len(q) /\ (n + 2) - 1 = n + 1
        /\ 8 - (n + 2) \in 1 .. 6 /\ 8 - (n + 1) = (8 - (n + 2)) + 1
    BY <1>1, <2>1
  <2>3. PICK t : Puts(b, d, bs[n + 1], ds[n + 1], t) /\ Exp(v, s, Heads[8 - (n + 1)], i, at[n + 1], t)
    BY <1>4, <2>2
  <2>4. Exp(v, s, Heads[8 - (n + 2)], i, at[n + 1], t)
    BY <2>2, <2>3, HeadsDown DEF Exp
  <2>5. Does(v, s, q[n + 2], at[n + 1], at[n + 2], bs[n + 1], ds[n + 1], bs[n + 2], ds[n + 2])
    BY <1>2, <2>2 DEF Stages
  <2>6. Does(v, s, Of("operators", 8 - (n + 2)), at[n + 1], at[n + 2], <<t>> \o b, d,
             bs[n + 2], ds[n + 2])
    BY <1>1, <2>2, <2>3, <2>5 DEF Puts
  <2>. QED
    BY <2>2, <2>4, <2>6, OperatorsDo
<1>5. 7 - k \in G
  <2>1. 7 - k \in Nat
    OBVIOUS
  <2> HIDE DEF G
  <2>. QED
    BY <1>3, <1>4, <2>1, Induction
<1>6. (7 - k) + 1 = 8 - k /\ 8 - (8 - k) = k
  OBVIOUS
<1>. QED
  BY <1>1, <1>2, <1>5, <1>6

-----------------------------------------------------------------------------
(* Expressions.                                                              *)

LEMMA NodeFirst ==
  ASSUME NEW node, NEW q, IsSeq(node), IsSeq(q), node # <<>>
  PROVE  (node \o q)[1] = node[1]
<1>1. Len(node) \in Nat /\ Len(node) # 0
  BY DEF IsSeq
<1>. QED
  BY <1>1, ConcatIs

LEMMA LeafExp ==
  ASSUME NEW v \in Vocabularies, NEW s \in Streams(v), NEW i, NEW j,
         NEW t \in Literals \cup Names, Reads(v, s, i, j, t)
  PROVE  Exp(v, s, Signed, i, j, <<t>>)
<1>1. <<t>> \o <<>> = <<t>> /\ i < j
  BY Singles, ReadsIs
<1>2. CASE t \in Names
  <2>1. \A x \in {"name"} \cup Signed : Derived(v, s, x, i, j, <<<<t>>>>, <<>>)
    BY <1>1, <1>2, NameReads
  <2>. QED
    BY <1>1, <2>1 DEF Exp
<1>3. CASE t \in Literals
  <2>1. \A x \in Signed : Derived(v, s, x, i, j, <<<<t>>>>, <<>>)
    BY <1>1, <1>3, LiteralReads
  <2>2. <<t>>[1] \notin Names
    BY <1>3 DEF Literals, Names
  <2>. QED
    BY <1>1, <2>1, <2>2 DEF Exp
<1>. QED
  BY <1>2, <1>3

LEMMA ParenthesesExp ==
  ASSUME NEW v \in Vocabularies, NEW s \in Streams(v), NEW i, NEW j, NEW t,
         Parenthesised(v, s, i, j, t)
  PROVE  Exp(v, s, Signed, i, j, t)
<1>1. PICK m, n : /\ Reads(v, s, i, m, "LPAREN") /\ Exp(v, s, Assignments, m, n, t)
                  /\ Reads(v, s, n, j, "RPAREN")
  BY DEF Parenthesised
<1>2. Derived(v, s, "expression", m, n, <<t>>, <<>>)
  BY <1>1 DEF Exp, Assignments
<1>3. \A x \in Signed : Derived(v, s, x, i, j, <<t>>, <<>>)
  BY <1>1, <1>2, ParenthesesRead
<1>4. i < j
  BY <1>1, <1>2, ReadsIs, DerivedIs
<1>5. t[1] \in Names => Derived(v, s, "name", i, j, <<t>>, <<>>)
  BY <1>1, NestedNameReads DEF Exp
<1>. QED
  BY <1>3, <1>4, <1>5 DEF Exp

LEMMA SignExp ==
  ASSUME NEW v \in Vocabularies, NEW s \in Streams(v), NEW i, NEW m, NEW j, NEW t,
         NEW op \in Unary, Reads(v, s, i, m, op), Exp(v, s, Signed, m, j, t)
  PROVE  Exp(v, s, Signed, i, j, <<"UnaryOp", op>> \o <<t>>)
<1>1. Derived(v, s, "signed", m, j, <<t>>, <<>>)
  BY DEF Exp, Signed
<1>2. \A x \in Signed : Derived(v, s, x, i, j, <<<<"UnaryOp", op>> \o <<t>>>>, <<>>)
  BY <1>1, SignReads
<1>3. i < j
  BY <1>1, ReadsIs, DerivedIs
<1>4. (<<"UnaryOp", op>> \o <<t>>)[1] = "UnaryOp"
  BY NodeFirst, TuplesAre, OneIsSeq
<1>5. "UnaryOp" \notin Names
  BY DEF Names
<1>. QED
  BY <1>2, <1>3, <1>4, <1>5 DEF Exp

LEMMA OperatorExp ==
  ASSUME NEW v \in Vocabularies, NEW s \in Streams(v), NEW i, NEW m, NEW n, NEW j, NEW t, NEW u,
         NEW k \in 1 .. 6, NEW op \in Levels[k], Exp(v, s, Heads[k], i, m, t),
         Reads(v, s, m, n, op), Exp(v, s, Heads[k + 1], n, j, u)
  PROVE  Exp(v, s, Heads[k], i, j, <<"BinaryOp", op>> \o <<t, u>>)
<1>1. Derived(v, s, Own[k], i, m, <<t>>, <<>>) /\ Derived(v, s, Own[k + 1], n, j, <<u>>, <<>>) /\ i < m
  BY SymbolNames, LevelWords DEF Exp
<1>2. \A x \in Heads[k] : Derived(v, s, x, i, j, <<<<"BinaryOp", op>> \o <<t, u>>>>, <<>>)
  BY <1>1, OperatorReads, TwoOf
<1>3. i < j
  BY <1>1, ReadsIs, DerivedIs
<1>4. (<<"BinaryOp", op>> \o <<t, u>>)[1] = "BinaryOp"
  BY NodeFirst, TuplesAre
<1>5. "BinaryOp" \notin Names
  BY DEF Names
<1>. QED
  BY <1>2, <1>3, <1>4, <1>5 DEF Exp

LEMMA AssignmentExp ==
  ASSUME NEW v \in Vocabularies, NEW s \in Streams(v), NEW X, NEW i, NEW m, NEW n, NEW j, NEW t, NEW u,
         Exp(v, s, X, i, m, t), t[1] \in Names, Reads(v, s, m, n, "ASSIGN"),
         Exp(v, s, Assignments, n, j, u)
  PROVE  Exp(v, s, Assignments, i, j, <<"Assignment">> \o <<t, u>>)
<1>1. /\ Derived(v, s, "name", i, m, <<t>>, <<>>) /\ i < m
      /\ Derived(v, s, "expression", n, j, <<u>>, <<>>)
  BY DEF Exp, Assignments
<1>2. \A x \in Assignments : Derived(v, s, x, i, j, <<<<"Assignment">> \o <<t, u>>>>, <<>>)
  BY <1>1, AssignmentReads, TwoOf
<1>3. i < j
  BY <1>1, ReadsIs, DerivedIs
<1>4. (<<"Assignment">> \o <<t, u>>)[1] = "Assignment"
  BY NodeFirst, TuplesAre, OneIsSeq
<1>5. "Assignment" \notin Names
  BY DEF Names
<1>. QED
  BY <1>2, <1>3, <1>4, <1>5 DEF Exp

(* parseAssignment().                                                        *)
LEMMA AssignmentDoes ==
  ASSUME NEW v, NEW s, NEW i, NEW j, NEW b, NEW d, NEW c, NEW e,
         DoesAll(v, s, Operand(1) \o <<Call("assign")>>, i, j, b, d, c, e)
  PROVE  Does(v, s, Expression, i, j, b, d, c, e)
<1>1. PICK k, x, y : /\ DoesAll(v, s, Operand(1), i, k, b, d, x, y)
                     /\ DoesAll(v, s, <<Call("assign")>>, k, j, x, y, c, e)
  BY DoesParts, OperandIs, OneIsSeq
<1>2. ASSUME IsSeq(b)
      PROVE  \E u : Puts(b, d, c, e, u) /\ Exp(v, s, Assignments, i, j, u)
  <2>1. PICK t : Puts(b, d, x, y, t) /\ Exp(v, s, Heads[1], i, k, t)
    BY <1>1, <1>2, OperandDoes
  <2>2. Exp(v, s, Disjunctions, i, k, t)
    BY <2>1 DEF Heads
  <2>3. Does(v, s, Call("assign"), k, j, x, y, c, e)
    BY <1>1, DoesOne
  <2>4. Extends(v, s, Disjunctions, Assignments, k, j, x, y, c, e)
    BY <2>3 DEF Does, Call
  <2>. QED
    BY <1>2, <2>1, <2>2, <2>4 DEF Extends, Puts
<1>. QED
  BY <1>2 DEF Does, Expression, Call, ReadsExpression

LEMMA NotAssigned ==
  ASSUME NEW v, NEW s, NEW i, NEW b, NEW d
  PROVE  Does(v, s, Call("assign"), i, i, b, d, b, d)
<1>1. Extends(v, s, Disjunctions, Assignments, i, i, b, d, b, d)
  BY DEF Extends, Puts, Exp, Disjunctions
<1>. QED
  BY <1>1 DEF Does, Call

LEMMA Assigned ==
  ASSUME NEW v \in Vocabularies, NEW s \in Streams(v), NEW i, NEW m, NEW j,
         NEW b, NEW d, NEW c, NEW e, Reads(v, s, i, m, "ASSIGN"), Head(b)[1] \in Names,
         DoesAll(v, s, <<Expression, Assignment>>, m, j, b, d, c, e)
  PROVE  Does(v, s, Call("assign"), i, j, b, d, c, e)
<1>1. PICK k, x, y : Does(v, s, Expression, m, k, b, d, x, y) /\ Does(v, s, Assignment, k, j, x, y, c, e)
  BY DoesTwo
<1>2. ASSUME NEW a, NEW t, NEW rest, IsSeq(rest), b = <<t>> \o rest, Exp(v, s, Disjunctions, a, i, t)
      PROVE  \E u : Puts(rest, d, c, e, u) /\ Exp(v, s, Assignments, a, j, u)
  <2>1. Head(b) = t /\ IsSeq(b)
    BY <1>2, Pushed
  <2>2. PICK u : Puts(b, d, x, y, u) /\ Exp(v, s, Assignments, m, k, u)
    BY <1>1, <2>1, ExpressionDoes
  <2>3. Makes(<<"Assignment">>, 2, k, j, <<u>> \o (<<t>> \o rest), d, c, e)
    BY <1>1, <1>2, <2>2, Made DEF Assignment, Puts
  <2>4. k = j /\ Puts(rest, d, c, e, <<"Assignment">> \o <<t, u>>)
    BY <1>2, <2>3, MakeTwo
  <2>5. Exp(v, s, Assignments, a, j, <<"Assignment">> \o <<t, u>>)
    BY <1>2, <2>1, <2>2, <2>4, AssignmentExp
  <2>. QED
    BY <2>4, <2>5
<1>3. Extends(v, s, Disjunctions, Assignments, i, j, b, d, c, e)
  BY <1>2 DEF Extends
<1>. QED
  BY <1>3 DEF Does, Call

(* The functions of the binary operators.                                     *)
LEMMA NoOperator ==
  ASSUME NEW v, NEW s, NEW k, NEW i, NEW b, NEW d
  PROVE  Does(v, s, Of("operators", k), i, i, b, d, b, d)
<1>1. Extends(v, s, Heads[k], Heads[k], i, i, b, d, b, d)
  BY DEF Extends, Puts
<1>. QED
  BY <1>1 DEF Does, Of

LEMMA OperatorDoes ==
  ASSUME NEW v \in Vocabularies, NEW s \in Streams(v), NEW k, NEW op \in Levels[k],
         NEW i, NEW m, NEW j, NEW b, NEW d, NEW c, NEW e, Reads(v, s, i, m, op),
         DoesAll(v, s, Operand(k + 1) \o <<BinaryOp(op), Of("operators", k)>>, m, j, b, d, c, e)
  PROVE  Does(v, s, Of("operators", k), i, j, b, d, c, e)
<1>1. ASSUME k \in 1 .. 6,
             NEW a, NEW t, NEW rest, IsSeq(rest), b = <<t>> \o rest, Exp(v, s, Heads[k], a, i, t)
      PROVE  \E u : Puts(rest, d, c, e, u) /\ Exp(v, s, Heads[k], a, j, u)
  <2>0. k + 1 \in 1 .. 7 /\ IsSeq(Operand(k + 1)) /\ IsSeq(<<BinaryOp(op), Of("operators", k)>>)
    BY <1>1, LevelWords, OperandIs, TuplesAre
  <2>1. PICK l, x, y :
          /\ DoesAll(v, s, Operand(k + 1), m, l, b, d, x, y)
          /\ DoesAll(v, s, <<BinaryOp(op), Of("operators", k)>>, l, j, x, y, c, e)
    BY <2>0, DoesParts
  <2>2. IsSeq(b)
    BY <1>1, Pushed
  <2>3. PICK u : Puts(b, d, x, y, u) /\ Exp(v, s, Heads[k + 1], m, l, u)
    BY <2>0, <2>1, <2>2, OperandDoes
  <2>4. PICK n, z, w : /\ Does(v, s, BinaryOp(op), l, n, x, y, z, w)
                       /\ Does(v, s, Of("operators", k), n, j, z, w, c, e)
    BY <2>1, DoesTwo
  <2>5. Makes(<<"BinaryOp", op>>, 2, l, n, <<u>> \o (<<t>> \o rest), d, z, w)
    BY <1>1, <2>3, <2>4, Made DEF BinaryOp, Puts
  <2>6. l = n /\ Puts(rest, d, z, w, <<"BinaryOp", op>> \o <<t, u>>)
    BY <1>1, <2>5, MakeTwo
  <2>7. Exp(v, s, Heads[k], a, n, <<"BinaryOp", op>> \o <<t, u>>)
    BY <1>1, <2>3, <2>6, OperatorExp
  <2> DEFINE tree == <<"BinaryOp", op>> \o <<t, u>>
  <2> HIDE DEF tree
  <2>8. Does(v, s, Of("operators", k), n, j, <<tree>> \o rest, d, c, e) /\ Exp(v, s, Heads[k], a, n, tree)
    BY <2>4, <2>6, <2>7 DEF Puts, tree
  <2>. QED
    BY <1>1, <2>8, OperatorsDo
<1>2. k \in 1 .. 6 => Extends(v, s, Heads[k], Heads[k], i, j, b, d, c, e)
  BY <1>1 DEF Extends
<1>. QED
  BY <1>2 DEF Does, Of

(* parseUnary() and parsePrimary().                                           *)
LEMMA SignDoes ==
  ASSUME NEW v \in Vocabularies, NEW s \in Streams(v), NEW op \in Unary,
         NEW i, NEW m, NEW j, NEW b, NEW d, NEW c, NEW e, Reads(v, s, i, m, op),
         DoesAll(v, s, <<Call("unary"), UnaryOp(op)>>, m, j, b, d, c, e)
  PROVE  Does(v, s, Call("unary"), i, j, b, d, c, e)
<1>1. PICK k, x, y : /\ Does(v, s, Call("unary"), m, k, b, d, x, y)
                     /\ Does(v, s, UnaryOp(op), k, j, x, y, c, e)
  BY DoesTwo
<1>2. ASSUME IsSeq(b)
      PROVE  \E u : Puts(b, d, c, e, u) /\ Exp(v, s, Signed, i, j, u)
  <2>1. PICK t : Puts(b, d, x, y, t) /\ Exp(v, s, Signed, m, k, t)
    BY <1>1, <1>2, UnaryDoes
  <2>2. Makes(<<"UnaryOp", op>>, 1, k, j, <<t>> \o b, d, c, e)
    BY <1>1, <2>1, Made DEF UnaryOp, Puts
  <2>3. k = j /\ Puts(b, d, c, e, <<"UnaryOp", op>> \o <<t>>)
    BY <1>2, <2>2, MakeOne
  <2>. QED
    BY <2>1, <2>3, SignExp
<1>. QED
  BY <1>2 DEF Does, Call, ReadsExpression

LEMMA PrimaryDoes ==
  ASSUME NEW v, NEW s, NEW i, NEW j, NEW b, NEW d, NEW c, NEW e,
         DoesAll(v, s, <<Call("primary")>>, i, j, b, d, c, e)
  PROVE  Does(v, s, Call("unary"), i, j, b, d, c, e)
<1>1. Does(v, s, Call("primary"), i, j, b, d, c, e)
  BY DoesOne
<1>. QED
  BY <1>1 DEF Does, Call

LEMMA LeafDoes ==
  ASSUME NEW v \in Vocabularies, NEW s \in Streams(v), NEW t \in Literals \cup Names,
         NEW i, NEW j, NEW b, NEW d, Reads(v, s, i, j, t)
  PROVE  Does(v, s, Call("primary"), i, j, b, d, <<<<t>>>> \o b, d)
<1>1. Exp(v, s, Signed, i, j, <<t>>)
  BY LeafExp
<1>2. Puts(b, d, <<<<t>>>> \o b, d, <<t>>)
  BY DEF Puts
<1>3. ReadsExpression(v, s, Signed, i, j, b, d, <<<<t>>>> \o b, d)
  BY <1>1, <1>2 DEF ReadsExpression
<1>. QED
  BY <1>3 DEF Does, Call

LEMMA ParenthesesDo ==
  ASSUME NEW v \in Vocabularies, NEW s \in Streams(v),
         NEW i, NEW m, NEW j, NEW b, NEW d, NEW c, NEW e, Reads(v, s, i, m, "LPAREN"),
         DoesAll(v, s, <<Expression, Expect("RPAREN")>>, m, j, b, d, c, e)
  PROVE  Does(v, s, Call("primary"), i, j, b, d, c, e)
<1>1. PICK k, x, y : /\ Does(v, s, Expression, m, k, b, d, x, y)
                     /\ Does(v, s, Expect("RPAREN"), k, j, x, y, c, e)
  BY DoesTwo
<1>2. Reads(v, s, k, j, "RPAREN") /\ c = x /\ e = y
  BY <1>1, Expected
<1>3. ASSUME IsSeq(b)
      PROVE  \E t : Puts(b, d, c, e, t) /\ Exp(v, s, Signed, i, j, t)
  <2>1. PICK t : Puts(b, d, x, y, t) /\ Exp(v, s, Assignments, m, k, t)
    BY <1>1, <1>3, ExpressionDoes
  <2>2. Parenthesised(v, s, i, j, t)
    BY <1>2, <2>1 DEF Parenthesised
  <2>. QED
    BY <1>2, <2>1, <2>2, ParenthesesExp
<1>. QED
  BY <1>3 DEF Does, Call, ReadsExpression

-----------------------------------------------------------------------------
(* Lists.                                                                    *)

LEMMA ItemDoes ==
  ASSUME NEW v, NEW s, NEW item \in Listed, NEW i, NEW j, NEW b, NEW d, NEW c, NEW e, IsSeq(b),
         Does(v, s, item, i, j, b, d, c, e)
  PROVE  \E t : Puts(b, d, c, e, t) /\ Item(v, s, item, i, j, t)
<1>1. CASE item = Expression
  BY <1>1, ExpressionDoes DEF Item
<1>2. CASE item # Expression
  <2>1. PICK type \in Types : item = Of("variable", type)
    BY <1>2 DEF Listed
  <2>2. ReadsVariable(v, s, type, i, j, b, d, c, e) /\ item[2] = type
    BY <2>1 DEF Does, Of
  <2>. QED
    BY <1>2, <2>2 DEF ReadsVariable, Item
<1>. QED
  BY <1>1, <1>2

LEMMA OneItem ==
  ASSUME NEW v, NEW s, NEW item \in Listed, NEW i, NEW j, NEW t, Item(v, s, item, i, j, t)
  PROVE  Items(v, s, item, i, j, <<t>>)
BY DEF Item, Items, Exp, Var, Assignments

LEMMA MoreItems ==
  ASSUME NEW v \in Vocabularies, NEW s \in Streams(v), NEW item \in Listed,
         NEW i, NEW m, NEW n, NEW j, NEW q, NEW t,
         Items(v, s, item, i, m, q), Reads(v, s, m, n, "COMMA"), Item(v, s, item, n, j, t)
  PROVE  Items(v, s, item, i, j, q \o <<t>>)
<1>1. CASE item = Expression
  <2>1. /\ Derived(v, s, "list", i, m, q, <<>>) /\ i < m
        /\ Derived(v, s, "expression", n, j, <<t>>, <<>>)
    BY <1>1 DEF Items, Item, Exp, Assignments
  <2>2. Derived(v, s, "list", i, j, q \o <<t>>, <<>>)
    BY <2>1, ListReads
  <2>3. i < j
    BY <2>1, ReadsIs, DerivedIs
  <2>. QED
    BY <1>1, <2>2, <2>3 DEF Items
<1>2. CASE item # Expression
  <2>1. PICK type \in Types : item = Of("variable", type)
    BY <1>2 DEF Listed
  <2>2. item[2] = type
    BY <2>1 DEF Of
  <2>3. /\ Derived(v, s, All[type], i, m, <<>>, q) /\ i < m
        /\ Derived(v, s, One[type], n, j, <<>>, <<t>>)
    BY <1>2, <2>2 DEF Items, Item, Var
  <2>4. Derived(v, s, All[type], i, j, <<>>, q \o <<t>>)
    BY <2>3, VariablesRead
  <2>5. i < j
    BY <2>3, ReadsIs, DerivedIs
  <2>. QED
    BY <1>2, <2>2, <2>4, <2>5 DEF Items
<1>. QED
  BY <1>1, <1>2

LEMMA ItemsIs ==
  ASSUME NEW v, NEW s, NEW item, NEW i, NEW j, NEW q, Items(v, s, item, i, j, q)
  PROVE  IsSeq(q) /\ i \in Nat /\ j \in Nat /\ i < j
BY DerivedIs DEF Items

LEMMA NoMore ==
  ASSUME NEW v, NEW s, NEW item, NEW i, NEW b, NEW d
  PROVE  Does(v, s, Of("more", item), i, i, b, d, b, d)
<1>1. ReadsMore(v, s, item, i, i, b, d, b, d)
  BY DEF ReadsMore, Puts
<1>. QED
  BY <1>1 DEF Does, Of

LEMMA MoreRead ==
  ASSUME NEW v, NEW s, NEW item \in Listed, NEW i, NEW j, NEW b, NEW d, NEW c, NEW e,
         NEW a, NEW p, NEW q, IsSeq(b), IsSeq(p), Items(v, s, item, a, i, q),
         Does(v, s, Of("more", item), i, j, <<p \o q>> \o b, d, c, e)
  PROVE  \E r : Puts(b, d, c, e, p \o r) /\ Items(v, s, item, a, j, r)
<1> DEFINE bb == <<p \o q>> \o b
<1>1. Does(v, s, Of("more", item), i, j, bb, d, c, e) /\ bb = <<p \o q>> \o b
  OBVIOUS
<1> HIDE DEF bb
<1>2. ReadsMore(v, s, item, i, j, bb, d, c, e)
  BY <1>1 DEF Does, Of
<1>. QED
  BY <1>1, <1>2 DEF ReadsMore

LEMMA MoreDoes ==
  ASSUME NEW v \in Vocabularies, NEW s \in Streams(v), NEW item,
         NEW i, NEW m, NEW j, NEW b, NEW d, NEW c, NEW e, Reads(v, s, i, m, "COMMA"),
         DoesAll(v, s, <<item, Call("push_back"), Of("more", item)>>, m, j, b, d, c, e)
  PROVE  Does(v, s, Of("more", item), i, j, b, d, c, e)
<1>1. PICK k, l, x, y, z, w :
        /\ Does(v, s, item, m, k, b, d, x, y) /\ Does(v, s, Call("push_back"), k, l, x, y, z, w)
        /\ Does(v, s, Of("more", item), l, j, z, w, c, e)
  BY DoesThree
<1>2. ASSUME item \in Listed, NEW a, NEW p, NEW q, NEW rest, IsSeq(rest), IsSeq(p),
             b = <<p \o q>> \o rest, Items(v, s, item, a, i, q)
      PROVE  \E r : Puts(rest, d, c, e, p \o r) /\ Items(v, s, item, a, j, r)
  <2>1. IsSeq(b) /\ IsSeq(q)
    BY <1>2, Pushed, ItemsIs
  <2>2. PICK t : Puts(b, d, x, y, t) /\ Item(v, s, item, m, k, t)
    BY <1>1, <1>2, <2>1, ItemDoes
  <2>3. PushesBack(k, l, <<t>> \o (<<p \o q>> \o rest), d, z, w)
    BY <1>1, <1>2, <2>2, BackDoes DEF Puts
  <2>4. k = l /\ Puts(rest, d, z, w, p \o (q \o <<t>>))
    BY <1>2, <2>1, <2>3, Back
  <2> DEFINE r == q \o <<t>>
  <2>5. Items(v, s, item, a, l, r)
    BY <1>2, <2>2, <2>4, MoreItems
  <2> HIDE DEF r
  <2>6. Does(v, s, Of("more", item), l, j, <<p \o r>> \o rest, d, c, e)
    BY <1>1, <2>4 DEF Puts, r
  <2>. QED
    BY <1>2, <2>5, <2>6, MoreRead
<1>3. item \in Listed => ReadsMore(v, s, item, i, j, b, d, c, e)
  BY <1>2 DEF ReadsMore
<1>. QED
  BY <1>3 DEF Does, Of

LEMMA NoArguments ==
  ASSUME NEW v, NEW s, NEW i, NEW b, NEW d
  PROVE  Does(v, s, Call("arguments"), i, i, b, d, b, d)
<1>1. ReadsArguments(v, s, i, i, b, d, b, d)
  BY DEF ReadsArguments, Puts
<1>. QED
  BY <1>1 DEF Does, Call

LEMMA ArgumentsDo ==
  ASSUME NEW v \in Vocabularies, NEW s \in Streams(v),
         NEW i, NEW j, NEW b, NEW d, NEW c, NEW e,
         DoesAll(v, s, <<Expression, Call("push_back"), Of("more", Expression)>>, i, j, b, d, c, e)
  PROVE  Does(v, s, Call("arguments"), i, j, b, d, c, e)
<1>1. PICK k, l, x, y, z, w :
        /\ Does(v, s, Expression, i, k, b, d, x, y) /\ Does(v, s, Call("push_back"), k, l, x, y, z, w)
        /\ Does(v, s, Of("more", Expression), l, j, z, w, c, e)
  BY DoesThree
<1>2. ASSUME NEW p, NEW rest, IsSeq(rest), IsSeq(p), b = <<p>> \o rest
      PROVE  \E r : Puts(rest, d, c, e, p \o r) /\ Items(v, s, Expression, i, j, r)
  <2>0. Expression \in Listed
    BY DEF Listed
  <2>1. IsSeq(b) /\ IsSeq(<<>>) /\ p = p \o <<>>
    BY <1>2, Pushed, EmptyIsSeq, ConcatEmpty
  <2>2. PICK t : Puts(b, d, x, y, t) /\ Item(v, s, Expression, i, k, t)
    BY <1>1, <2>0, <2>1, ItemDoes
  <2>3. PushesBack(k, l, <<t>> \o (<<p \o <<>>>> \o rest), d, z, w)
    BY <1>1, <1>2, <2>1, <2>2, BackDoes DEF Puts
  <2>4. k = l /\ Puts(rest, d, z, w, p \o (<<>> \o <<t>>))
    BY <1>2, <2>1, <2>3, Back
  <2> DEFINE r == <<t>>
  <2>5. Items(v, s, Expression, i, l, r)
    BY <2>0, <2>2, <2>4, OneItem
  <2>6. Puts(rest, d, z, w, p \o r)
    BY <2>4, Singles
  <2> HIDE DEF r
  <2>7. Does(v, s, Of("more", Expression), l, j, <<p \o r>> \o rest, d, c, e)
    BY <1>1, <2>6 DEF Puts
  <2>. QED
    BY <1>2, <2>0, <2>5, <2>7, MoreRead
<1>3. ReadsArguments(v, s, i, j, b, d, c, e)
  BY <1>2 DEF ReadsArguments
<1>. QED
  BY <1>3 DEF Does, Call

-----------------------------------------------------------------------------
(* Statements.                                                               *)

LEMMA StatIs ==
  ASSUME NEW v, NEW s, NEW i, NEW j, NEW t, Stat(v, s, i, j, t)
  PROVE  /\ i \in Nat /\ j \in Nat /\ i < j /\ Derived(v, s, "statement", i, j, <<t>>, <<>>)
         /\ \A x \in Statements : s[j + 1] = "ELSE" => Derived(v, s, x, i, j, <<t>>, <<>>)
BY DerivedIs DEF Stat, Statements

LEMMA StatOf ==
  ASSUME NEW v, NEW s, NEW i, NEW j, NEW t, i < j,
         \A x \in Statements : Derived(v, s, x, i, j, <<t>>, <<>>)
  PROVE  Stat(v, s, i, j, t)
BY DEF Stat, Statements

(* It ends in a statement, which is closed if this one has to be.               *)
LEMMA StatEnding ==
  ASSUME NEW v, NEW s, NEW i, NEW m, NEW j, NEW t, NEW u, i < j, Stat(v, s, m, j, t),
         \A x \in Statements : Derived(v, s, x, m, j, <<t>>, <<>>) => Derived(v, s, x, i, j, <<u>>, <<>>)
  PROVE  Stat(v, s, i, j, u)
BY DEF Stat, Statements

LEMMA StatementPromise ==
  ASSUME NEW v, NEW s, NEW i, NEW j, NEW b, NEW d, NEW c, NEW e,
         IsSeq(b) => \E t : Puts(b, d, c, e, t) /\ Stat(v, s, i, j, t)
  PROVE  Does(v, s, Statement, i, j, b, d, c, e)
BY DEF Does, Statement, Call, ReadsStatement

LEMMA ParenthesisedIs ==
  ASSUME NEW v, NEW s, NEW i, NEW j, NEW t, Parenthesised(v, s, i, j, t)
  PROVE  \E m, n : /\ Reads(v, s, i, m, "LPAREN") /\ Derived(v, s, "expression", m, n, <<t>>, <<>>)
                   /\ Reads(v, s, n, j, "RPAREN") /\ i \in Nat /\ j \in Nat /\ i < j
<1>1. PICK m, n : /\ Reads(v, s, i, m, "LPAREN") /\ Exp(v, s, Assignments, m, n, t)
                  /\ Reads(v, s, n, j, "RPAREN")
  BY DEF Parenthesised
<1>2. Derived(v, s, "expression", m, n, <<t>>, <<>>)
  BY <1>1 DEF Exp, Assignments
<1>. QED
  BY <1>1, <1>2, ReadsIs, DerivedIs

LEMMA ExpressionStatementDoes ==
  ASSUME NEW v \in Vocabularies, NEW s \in Streams(v), NEW i, NEW j, NEW b, NEW d, NEW c, NEW e,
         DoesAll(v, s, <<Expression, Expect("SEMICOLON"), ExpressionStatement>>, i, j, b, d, c, e)
  PROVE  Does(v, s, Statement, i, j, b, d, c, e)
<1>1. PICK k, l, x, y, z, w :
        /\ Does(v, s, Expression, i, k, b, d, x, y)
        /\ Does(v, s, Expect("SEMICOLON"), k, l, x, y, z, w)
        /\ Does(v, s, ExpressionStatement, l, j, z, w, c, e)
  BY DoesThree
<1>2. Reads(v, s, k, l, "SEMICOLON") /\ z = x /\ w = y
  BY <1>1, Expected
<1>3. ASSUME IsSeq(b)
      PROVE  \E t : Puts(b, d, c, e, t) /\ Stat(v, s, i, j, t)
  <2>1. PICK t : Puts(b, d, x, y, t) /\ Exp(v, s, Assignments, i, k, t)
    BY <1>1, <1>3, ExpressionDoes
  <2>2. Makes(<<"ExpressionStatement">>, 1, l, j, <<t>> \o b, d, c, e)
    BY <1>1, <1>2, <2>1, Made DEF ExpressionStatement, Puts
  <2>3. l = j /\ Puts(b, d, c, e, <<"ExpressionStatement">> \o <<t>>)
    BY <1>3, <2>2, MakeOne
  <2>4. Derived(v, s, "expression", i, k, <<t>>, <<>>) /\ i < k
    BY <2>1 DEF Exp, Assignments
  <2>5. \A x1 \in Statements : Derived(v, s, x1, i, j, <<<<"ExpressionStatement">> \o <<t>>>>, <<>>)
    BY <1>2, <2>3, <2>4, ExpressionStatementReads
  <2>6. i < j
    BY <1>2, <2>3, <2>4, ReadsIs, DerivedIs
  <2>. QED
    BY <2>3, <2>5, <2>6, StatOf
<1>. QED
  BY <1>3, StatementPromise

LEMMA LabelDoes ==
  ASSUME NEW v \in Vocabularies, NEW s \in Streams(v), NEW i, NEW j, NEW b, NEW d, NEW c, NEW e,
         DoesAll(v, s, <<Expect("IDENTIFIER"), Expect("COLON"), Statement>>, i, j, b, d, c, e)
  PROVE  Does(v, s, Statement, i, j, b, d, c, e)
<1>1. PICK k, l, x, y, z, w :
        /\ Does(v, s, Expect("IDENTIFIER"), i, k, b, d, x, y)
        /\ Does(v, s, Expect("COLON"), k, l, x, y, z, w) /\ Does(v, s, Statement, l, j, z, w, c, e)
  BY DoesThree
<1>2. Reads(v, s, i, k, "IDENTIFIER") /\ x = b /\ y = d
  BY <1>1, Expected
<1>3. Reads(v, s, k, l, "COLON") /\ z = x /\ w = y
  BY <1>1, Expected
<1>4. ASSUME IsSeq(b)
      PROVE  \E t : Puts(b, d, c, e, t) /\ Stat(v, s, i, j, t)
  <2>1. PICK t : Puts(b, d, c, e, t) /\ Stat(v, s, l, j, t)
    BY <1>1, <1>2, <1>3, <1>4, StatementDoes
  <2>2. i < j
    <3>1. i \in Nat /\ k \in Nat /\ l \in Nat /\ i < k /\ k < l
      BY <1>2, <1>3, ReadsIs
    <3>2. l < j /\ j \in Nat
      BY <2>1, StatIs
    <3>. QED
      BY <3>1, <3>2
  <2>3. \A x1 \in Statements :
          Derived(v, s, x1, l, j, <<t>>, <<>>) => Derived(v, s, x1, i, j, <<t>>, <<>>)
    BY <1>2, <1>3, LabelReads
  <2>. QED
    BY <2>1, <2>2, <2>3, StatEnding
<1>. QED
  BY <1>4, StatementPromise

LEMMA WhileDoes ==
  ASSUME NEW v \in Vocabularies, NEW s \in Streams(v), NEW i, NEW j, NEW b, NEW d, NEW c, NEW e,
         DoesAll(v, s, <<Expect("WHILE")>> \o Condition \o <<Statement, WhileStatement>>,
                 i, j, b, d, c, e)
  PROVE  Does(v, s, Statement, i, j, b, d, c, e)
<1>0. /\ IsSeq(<<Expect("WHILE")>>) /\ IsSeq(Condition) /\ IsSeq(<<Statement, WhileStatement>>)
      /\ IsSeq(<<Expect("WHILE")>> \o Condition)
  BY OneIsSeq, TuplesAre, ConcatIs DEF Condition
<1>1. PICK m, x, y : /\ DoesAll(v, s, <<Expect("WHILE")>> \o Condition, i, m, b, d, x, y)
                     /\ DoesAll(v, s, <<Statement, WhileStatement>>, m, j, x, y, c, e)
  BY <1>0, DoesParts
<1>2. PICK k, z, w : /\ DoesAll(v, s, <<Expect("WHILE")>>, i, k, b, d, z, w)
                     /\ DoesAll(v, s, Condition, k, m, z, w, x, y)
  BY <1>0, <1>1, DoesParts
<1>3. Reads(v, s, i, k, "WHILE") /\ z = b /\ w = d
  BY <1>2, DoesOne, Expected
<1>4. PICK n, f, g : /\ Does(v, s, Statement, m, n, x, y, f, g)
                     /\ Does(v, s, WhileStatement, n, j, f, g, c, e)
  BY <1>1, DoesTwo
<1>5. ASSUME IsSeq(b)
      PROVE  \E t : Puts(b, d, c, e, t) /\ Stat(v, s, i, j, t)
  <2>1. PICK q : Puts(b, d, x, y, q) /\ Parenthesised(v, s, k, m, q)
    BY <1>2, <1>3, <1>5, ConditionDoes
  <2>2. IsSeq(x)
    BY <1>5, <2>1, Pushed DEF Puts
  <2>3. PICK t : Puts(x, y, f, g, t) /\ Stat(v, s, m, n, t)
    BY <1>4, <2>2, StatementDoes
  <2>4. Makes(<<"WhileStatement">>, 2, n, j, <<t>> \o (<<q>> \o b), d, c, e)
    BY <1>4, <2>1, <2>3, Made DEF WhileStatement, Puts
  <2> DEFINE tree == <<"WhileStatement">> \o <<q, t>>
  <2>5. n = j /\ Puts(b, d, c, e, tree)
    BY <1>5, <2>4, MakeTwo
  <2>6. PICK m1, m2 :
          /\ Reads(v, s, k, m1, "LPAREN") /\ Derived(v, s, "expression", m1, m2, <<q>>, <<>>)
          /\ Reads(v, s, m2, m, "RPAREN") /\ k < m
    BY <2>1, ParenthesisedIs
  <2>7. \A x1 \in Statements :
          Derived(v, s, x1, m, j, <<t>>, <<>>)
            => Derived(v, s, x1, i, j, <<tree>>, <<>>)
    BY <1>3, <2>6, WhileReads, TwoOf
  <2> HIDE DEF tree
  <2>8. i < j
    <3>1. i \in Nat /\ k \in Nat /\ i < k
      BY <1>3, ReadsIs
    <3>2. m < j /\ j \in Nat /\ m \in Nat
      BY <2>3, <2>5, StatIs
    <3>. QED
      BY <2>6, <3>1, <3>2
  <2>. QED
    BY <2>3, <2>5, <2>7, <2>8, StatEnding
<1>. QED
  BY <1>5, StatementPromise

LEMMA DoWhileDoes ==
  ASSUME NEW v \in Vocabularies, NEW s \in Streams(v), NEW i, NEW j, NEW b, NEW d, NEW c, NEW e,
         DoesAll(v, s, <<Expect("DO"), Statement, Expect("WHILE")>> \o Condition
                         \o <<Expect("SEMICOLON"), DoWhileStatement>>, i, j, b, d, c, e)
  PROVE  Does(v, s, Statement, i, j, b, d, c, e)
<1> DEFINE first == <<Expect("DO"), Statement, Expect("WHILE")>>
           last  == <<Expect("SEMICOLON"), DoWhileStatement>>
<1>0. IsSeq(first) /\ IsSeq(Condition) /\ IsSeq(last) /\ IsSeq(first \o Condition)
  BY TuplesAre, ConcatIs DEF Condition
<1>1. PICK m, x, y : /\ DoesAll(v, s, first \o Condition, i, m, b, d, x, y)
                     /\ DoesAll(v, s, last, m, j, x, y, c, e)
  BY <1>0, DoesParts
<1>2. PICK k, z, w : /\ DoesAll(v, s, first, i, k, b, d, z, w)
                     /\ DoesAll(v, s, Condition, k, m, z, w, x, y)
  BY <1>0, <1>1, DoesParts
<1>3. PICK k1, k2, x1, y1, x2, y2 :
        /\ Does(v, s, Expect("DO"), i, k1, b, d, x1, y1) /\ Does(v, s, Statement, k1, k2, x1, y1, x2, y2)
        /\ Does(v, s, Expect("WHILE"), k2, k, x2, y2, z, w)
  BY <1>2, DoesThree
<1>4. PICK n, f, g : /\ Does(v, s, Expect("SEMICOLON"), m, n, x, y, f, g)
                     /\ Does(v, s, DoWhileStatement, n, j, f, g, c, e)
  BY <1>1, DoesTwo
<1>5. /\ Reads(v, s, i, k1, "DO") /\ x1 = b /\ y1 = d /\ Reads(v, s, k2, k, "WHILE") /\ z = x2 /\ w = y2
      /\ Reads(v, s, m, n, "SEMICOLON") /\ f = x /\ g = y
  BY <1>3, <1>4, Expected
<1>6. ASSUME IsSeq(b)
      PROVE  \E t : Puts(b, d, c, e, t) /\ Stat(v, s, i, j, t)
  <2>1. PICK t : Puts(b, d, z, w, t) /\ Stat(v, s, k1, k2, t)
    BY <1>3, <1>5, <1>6, StatementDoes
  <2>2. IsSeq(z)
    BY <1>6, <2>1, Pushed DEF Puts
  <2>3. PICK q : Puts(z, w, x, y, q) /\ Parenthesised(v, s, k, m, q)
    BY <1>2, <2>2, ConditionDoes
  <2>4. Makes(<<"DoWhileStatement">>, 2, n, j, <<q>> \o (<<t>> \o b), d, c, e)
    BY <1>4, <1>5, <2>1, <2>3, Made DEF DoWhileStatement, Puts
  <2> DEFINE tree == <<"DoWhileStatement">> \o <<t, q>>
  <2>5. n = j /\ Puts(b, d, c, e, tree)
    BY <1>6, <2>4, MakeTwo
  <2>6. PICK m1, m2 :
          /\ Reads(v, s, k, m1, "LPAREN") /\ Derived(v, s, "expression", m1, m2, <<q>>, <<>>)
          /\ Reads(v, s, m2, m, "RPAREN") /\ k < m /\ k \in Nat /\ m \in Nat
    BY <2>3, ParenthesisedIs
  <2>7. Derived(v, s, "statement", k1, k2, <<t>>, <<>>)
        /\ k1 \in Nat /\ k2 \in Nat /\ k1 < k2
    BY <2>1, StatIs
  <2>8. Reads(v, s, m, j, "SEMICOLON") /\ \A r \in Statements : Derived(v, s, r, i, j, <<tree>>, <<>>)
    BY <1>5, <2>5, <2>6, <2>7, DoWhileReads, TwoOf
  <2> HIDE DEF tree
  <2>9. i < j
    <3>1. i \in Nat /\ i < k1 /\ k2 < k /\ m < j /\ j \in Nat
      BY <1>5, <2>8, ReadsIs
    <3>. QED
      BY <2>6, <2>7, <3>1
  <2>. QED
    BY <2>5, <2>8, <2>9, StatOf
<1>. QED
  BY <1>6, StatementPromise

LEMMA IdentifierDoes ==
  ASSUME NEW v, NEW s, NEW i, NEW j, NEW b, NEW d, NEW c, NEW e,
         Does(v, s, Call("identifier"), i, j, b, d, c, e)
  PROVE  Reads(v, s, i, j, "IDENTIFIER") /\ Puts(b, d, c, e, <<"IDENTIFIER">>)
BY DEF Does, Call, ReadsIdentifier

LEMMA ReadDoes ==
  ASSUME NEW v \in Vocabularies, NEW s \in Streams(v), NEW i, NEW j, NEW b, NEW d, NEW c, NEW e,
         DoesAll(v, s, <<Expect("READ"), Expect("LPAREN"), Call("identifier"), Expect("RPAREN"),
                         Expect("SEMICOLON"), ReadStatement>>, i, j, b, d, c, e)
  PROVE  Does(v, s, Statement, i, j, b, d, c, e)
<1> DEFINE q == <<Expect("READ"), Expect("LPAREN"), Call("identifier"), Expect("RPAREN"),
                  Expect("SEMICOLON"), ReadStatement>>
<1>1. /\ Len(q) = 6 /\ q[1] = Expect("READ") /\ q[2] = Expect("LPAREN") /\ q[3] = Call("identifier")
      /\ q[4] = Expect("RPAREN") /\ q[5] = Expect("SEMICOLON") /\ q[6] = ReadStatement
  OBVIOUS
<1> HIDE DEF q
<1>2. PICK at, bs, ds :
        /\ at[0] = i /\ bs[0] = b /\ ds[0] = d /\ Stages(v, s, q, at, bs, ds)
        /\ at[6] = j /\ bs[6] = c /\ ds[6] = e
  BY <1>1 DEF DoesAll, q
<1>3. /\ Does(v, s, Expect("READ"), at[0], at[1], bs[0], ds[0], bs[1], ds[1])
      /\ Does(v, s, Expect("LPAREN"), at[1], at[2], bs[1], ds[1], bs[2], ds[2])
      /\ Does(v, s, Call("identifier"), at[2], at[3], bs[2], ds[2], bs[3], ds[3])
      /\ Does(v, s, Expect("RPAREN"), at[3], at[4], bs[3], ds[3], bs[4], ds[4])
      /\ Does(v, s, Expect("SEMICOLON"), at[4], at[5], bs[4], ds[4], bs[5], ds[5])
      /\ Does(v, s, ReadStatement, at[5], at[6], bs[5], ds[5], bs[6], ds[6])
  BY <1>1, <1>2 DEF Stages
<1>4. /\ Reads(v, s, i, at[1], "READ") /\ Reads(v, s, at[1], at[2], "LPAREN")
      /\ Reads(v, s, at[3], at[4], "RPAREN") /\ Reads(v, s, at[4], at[5], "SEMICOLON")
      /\ bs[2] = b /\ ds[2] = d /\ bs[5] = bs[3] /\ ds[5] = ds[3]
  BY <1>2, <1>3, Expected
<1>5. Reads(v, s, at[2], at[3], "IDENTIFIER") /\ Puts(b, d, bs[5], ds[5], <<"IDENTIFIER">>)
  BY <1>3, <1>4, IdentifierDoes
<1>6. ASSUME IsSeq(b)
      PROVE  \E t : Puts(b, d, c, e, t) /\ Stat(v, s, i, j, t)
  <2>1. Makes(<<"ReadStatement">>, 1, at[5], j, <<<<"IDENTIFIER">>>> \o b, d, c, e)
    BY <1>2, <1>3, <1>5, Made DEF ReadStatement, Puts
  <2> DEFINE name == <<"IDENTIFIER">>
             tree == <<"ReadStatement">> \o <<name>>
  <2>2. at[5] = j /\ Puts(b, d, c, e, tree)
    BY <1>6, <2>1, MakeOne
  <2>3. Derived(v, s, "variable", at[2], at[3], <<name>>, <<>>)
    BY <1>5, VariableReads, Singles
  <2>4. \A r \in Statements : Derived(v, s, r, i, j, <<tree>>, <<>>)
    BY <1>4, <2>2, <2>3, ReadReads
  <2> HIDE DEF tree
  <2>5. i < j
    BY <1>4, <1>5, <2>2, ReadsIs
  <2>. QED
    BY <2>2, <2>4, <2>5, StatOf
<1>. QED
  BY <1>6, StatementPromise

LEMMA ArgumentsRead ==
  ASSUME NEW v, NEW s, NEW i, NEW j, NEW b, NEW d, NEW c, NEW e, NEW p, IsSeq(b), IsSeq(p),
         Does(v, s, Call("arguments"), i, j, <<p>> \o b, d, c, e)
  PROVE  \/ i = j /\ Puts(b, d, c, e, p)
         \/ \E q : Puts(b, d, c, e, p \o q) /\ Items(v, s, Expression, i, j, q)
<1> DEFINE bb == <<p>> \o b
<1>1. Does(v, s, Call("arguments"), i, j, bb, d, c, e) /\ bb = <<p>> \o b
  OBVIOUS
<1> HIDE DEF bb
<1>2. ReadsArguments(v, s, i, j, bb, d, c, e)
  BY <1>1 DEF Does, Call
<1>. QED
  BY <1>1, <1>2 DEF ReadsArguments

LEMMA WriteDoes ==
  ASSUME NEW v \in Vocabularies, NEW s \in Streams(v), NEW i, NEW j, NEW b, NEW d, NEW c, NEW e,
         DoesAll(v, s, <<Expect("WRITE"), Expect("LPAREN"), Call("arguments"), Expect("RPAREN"),
                         Expect("SEMICOLON")>>, i, j, <<<<"WriteStatement">>>> \o b, d, c, e)
  PROVE  Does(v, s, Statement, i, j, b, d, c, e)
<1> DEFINE q == <<Expect("WRITE"), Expect("LPAREN"), Call("arguments"), Expect("RPAREN"),
                  Expect("SEMICOLON")>>
           node == <<"WriteStatement">>
           start == <<node>> \o b
<1>1. /\ Len(q) = 5 /\ q[1] = Expect("WRITE") /\ q[2] = Expect("LPAREN") /\ q[3] = Call("arguments")
      /\ q[4] = Expect("RPAREN") /\ q[5] = Expect("SEMICOLON")
  OBVIOUS
<1>5. IsSeq(node) /\ node \o <<>> = node /\ start = <<node>> \o b
  BY OneIsSeq, Singles
<1>0. DoesAll(v, s, q, i, j, start, d, c, e)
  OBVIOUS
<1> HIDE DEF q, start
<1>2. PICK at, bs, ds :
        /\ at[0] = i /\ bs[0] = start /\ ds[0] = d /\ Stages(v, s, q, at, bs, ds)
        /\ at[5] = j /\ bs[5] = c /\ ds[5] = e
  BY <1>0, <1>1 DEF DoesAll
<1>3. /\ Does(v, s, Expect("WRITE"), at[0], at[1], bs[0], ds[0], bs[1], ds[1])
      /\ Does(v, s, Expect("LPAREN"), at[1], at[2], bs[1], ds[1], bs[2], ds[2])
      /\ Does(v, s, Call("arguments"), at[2], at[3], bs[2], ds[2], bs[3], ds[3])
      /\ Does(v, s, Expect("RPAREN"), at[3], at[4], bs[3], ds[3], bs[4], ds[4])
      /\ Does(v, s, Expect("SEMICOLON"), at[4], at[5], bs[4], ds[4], bs[5], ds[5])
  BY <1>1, <1>2 DEF Stages
<1>4. /\ Reads(v, s, i, at[1], "WRITE") /\ Reads(v, s, at[1], at[2], "LPAREN")
      /\ Reads(v, s, at[3], at[4], "RPAREN") /\ Reads(v, s, at[4], j, "SEMICOLON")
      /\ bs[2] = start /\ ds[2] = d /\ c = bs[3] /\ e = ds[3]
  BY <1>2, <1>3, Expected
<1>6. ASSUME IsSeq(b)
      PROVE  \E t : Puts(b, d, c, e, t) /\ Stat(v, s, i, j, t)
  <2>1. \/ at[2] = at[3] /\ Puts(b, d, c, e, node)
        \/ \E r : Puts(b, d, c, e, node \o r) /\ Items(v, s, Expression, at[2], at[3], r)
    BY <1>3, <1>4, <1>5, <1>6, ArgumentsRead
  <2>2. CASE at[2] = at[3] /\ Puts(b, d, c, e, node)
    <3>1. \A x \in Statements : Derived(v, s, x, i, j, <<node>>, <<>>)
      BY <1>4, <1>5, <2>2, WriteNothingReads
    <3>2. i < j
      BY <1>4, <2>2, ReadsIs
    <3>. QED
      BY <2>2, <3>1, <3>2, StatOf
  <2>3. ASSUME NEW r, Puts(b, d, c, e, node \o r), Items(v, s, Expression, at[2], at[3], r)
        PROVE  \E t : Puts(b, d, c, e, t) /\ Stat(v, s, i, j, t)
    <3> DEFINE tree == node \o r
    <3>1. Derived(v, s, "list", at[2], at[3], r, <<>>)
      BY <2>3 DEF Items
    <3>2. \A x \in Statements : Derived(v, s, x, i, j, <<tree>>, <<>>)
      BY <1>4, <3>1, WriteReads
    <3>3. i < j
      <4>1. at[2] < at[3] /\ at[2] \in Nat /\ at[3] \in Nat
        BY <2>3, ItemsIs
      <4>2. i \in Nat /\ j \in Nat /\ at[1] \in Nat /\ at[4] \in Nat
            /\ i < at[1] /\ at[1] < at[2] /\ at[3] < at[4] /\ at[4] < j
        BY <1>4, ReadsIs
      <4>. QED
        BY <4>1, <4>2
    <3> HIDE DEF tree
    <3>4. Puts(b, d, c, e, tree)
      BY <2>3 DEF tree
    <3>. QED
      BY <3>2, <3>3, <3>4, StatOf
  <2>. QED
    BY <2>1, <2>2, <2>3
<1>. QED
  BY <1>6, StatementPromise

(* The statements of a block.                                                 *)
LEMMA BlockRead ==
  ASSUME NEW v, NEW s, NEW i, NEW j, NEW b, NEW d, NEW c, NEW e, NEW a, NEW q, IsSeq(b), a < i,
         Derived(v, s, "block", a, i, q, <<>>),
         Does(v, s, Call("block"), i, j, <<<<"CompoundStatement">> \o q>> \o b, d, c, e)
  PROVE  \E u : Puts(b, d, c, e, u) /\ Stat(v, s, a, j, u)
<1> DEFINE bb == <<<<"CompoundStatement">> \o q>> \o b
<1>1. Does(v, s, Call("block"), i, j, bb, d, c, e) /\ bb = <<<<"CompoundStatement">> \o q>> \o b
  OBVIOUS
<1> HIDE DEF bb
<1>2. ReadsBlock(v, s, i, j, bb, d, c, e)
  BY <1>1 DEF Does, Call
<1>. QED
  BY <1>1, <1>2 DEF ReadsBlock

LEMMA CompoundDoes ==
  ASSUME NEW v \in Vocabularies, NEW s \in Streams(v), NEW i, NEW j, NEW b, NEW d, NEW c, NEW e,
         DoesAll(v, s, <<Expect("LBRACE"), Call("block")>>, i, j, <<<<"CompoundStatement">>>> \o b,
                 d, c, e)
  PROVE  Does(v, s, Statement, i, j, b, d, c, e)
<1> DEFINE node  == <<"CompoundStatement">>
           start == <<node>> \o b
<1>1. PICK k, x, y : /\ Does(v, s, Expect("LBRACE"), i, k, start, d, x, y)
                     /\ Does(v, s, Call("block"), k, j, x, y, c, e)
  BY DoesTwo
<1>2. node \o <<>> = node
  BY Singles
<1> HIDE DEF start
<1>3. Reads(v, s, i, k, "LBRACE") /\ x = start /\ y = d
  BY <1>1, Expected
<1>4. Derived(v, s, "block", i, k, <<>>, <<>>) /\ i < k
  BY <1>3, OpeningReads, ReadsIs
<1>5. Does(v, s, Call("block"), k, j, <<node \o <<>>>> \o b, d, c, e)
  BY <1>1, <1>2, <1>3 DEF start
<1>6. ASSUME IsSeq(b)
      PROVE  \E t : Puts(b, d, c, e, t) /\ Stat(v, s, i, j, t)
  BY <1>4, <1>5, <1>6, BlockRead
<1>. QED
  BY <1>6, StatementPromise

LEMMA BlockEnds ==
  ASSUME NEW v \in Vocabularies, NEW s \in Streams(v), NEW i, NEW j, NEW b, NEW d, NEW c, NEW e,
         DoesAll(v, s, <<Expect("RBRACE")>>, i, j, b, d, c, e)
  PROVE  Does(v, s, Call("block"), i, j, b, d, c, e)
<1>1. Reads(v, s, i, j, "RBRACE") /\ c = b /\ e = d
  BY DoesOne, Expected
<1>2. ASSUME NEW a, NEW q, NEW rest, IsSeq(rest), b = <<<<"CompoundStatement">> \o q>> \o rest,
             a < i, Derived(v, s, "block", a, i, q, <<>>)
      PROVE  \E u : Puts(rest, d, c, e, u) /\ Stat(v, s, a, j, u)
  <2> DEFINE tree == <<"CompoundStatement">> \o q
  <2>1. \A x \in Statements : Derived(v, s, x, a, j, <<tree>>, <<>>)
    BY <1>1, <1>2, CompoundReads
  <2>2. a < j
    BY <1>1, <1>2, ReadsIs, DerivedIs
  <2>3. Puts(rest, d, c, e, tree)
    BY <1>1, <1>2 DEF Puts
  <2> HIDE DEF tree
  <2>. QED
    BY <2>1, <2>2, <2>3, StatOf
<1>3. ReadsBlock(v, s, i, j, b, d, c, e)
  BY <1>2 DEF ReadsBlock
<1>. QED
  BY <1>3 DEF Does, Call

LEMMA BlockDoes ==
  ASSUME NEW v \in Vocabularies, NEW s \in Streams(v), NEW i, NEW j, NEW b, NEW d, NEW c, NEW e,
         DoesAll(v, s, <<Statement, Call("push_back"), Call("block")>>, i, j, b, d, c, e)
  PROVE  Does(v, s, Call("block"), i, j, b, d, c, e)
<1>1. PICK k, l, x, y, z, w :
        /\ Does(v, s, Statement, i, k, b, d, x, y) /\ Does(v, s, Call("push_back"), k, l, x, y, z, w)
        /\ Does(v, s, Call("block"), l, j, z, w, c, e)
  BY DoesThree
<1>2. ASSUME NEW a, NEW q, NEW rest, IsSeq(rest), b = <<<<"CompoundStatement">> \o q>> \o rest,
             a < i, Derived(v, s, "block", a, i, q, <<>>)
      PROVE  \E u : Puts(rest, d, c, e, u) /\ Stat(v, s, a, j, u)
  <2> DEFINE p == <<"CompoundStatement">>
  <2>1. IsSeq(b) /\ IsSeq(q) /\ IsSeq(p)
    BY <1>2, Pushed, DerivedIs, OneIsSeq
  <2> HIDE DEF p
  <2>2. PICK t : Puts(b, d, x, y, t) /\ Stat(v, s, i, k, t)
    BY <1>1, <2>1, StatementDoes
  <2>3. PushesBack(k, l, <<t>> \o (<<p \o q>> \o rest), d, z, w)
    BY <1>1, <1>2, <2>2, BackDoes DEF Puts, p
  <2>4. k = l /\ Puts(rest, d, z, w, p \o (q \o <<t>>))
    BY <1>2, <2>1, <2>3, Back
  <2> DEFINE r == q \o <<t>>
  <2>5. Derived(v, s, "statement", i, l, <<t>>, <<>>) /\ i < l
    BY <2>2, <2>4, StatIs
  <2>6. Derived(v, s, "block", a, l, r, <<>>)
    BY <1>2, <2>5, BlockReads
  <2>7. a < l
    BY <1>2, <2>5, DerivedIs
  <2> HIDE DEF r
  <2>8. Does(v, s, Call("block"), l, j, <<p \o r>> \o rest, d, c, e)
    BY <1>1, <2>4 DEF Puts, r
  <2>. QED
    BY <1>2, <2>6, <2>7, <2>8, BlockRead DEF p
<1>3. ReadsBlock(v, s, i, j, b, d, c, e)
  BY <1>2 DEF ReadsBlock
<1>. QED
  BY <1>3 DEF Does, Call

(* if and else.                                                              *)
LEMMA ElseRead ==
  ASSUME NEW v, NEW s, NEW i, NEW j, NEW b, NEW d, NEW c, NEW e, NEW a, NEW m, NEW n, NEW q, NEW t,
         IsSeq(b), Reads(v, s, a, m, "IF"), Parenthesised(v, s, m, n, q), Stat(v, s, n, i, t),
         Does(v, s, Call("else"), i, j, <<t>> \o (<<q>> \o b), d, c, e)
  PROVE  \E u : Puts(b, d, c, e, u) /\ Stat(v, s, a, j, u)
<1> DEFINE bb == <<t>> \o (<<q>> \o b)
<1>1. Does(v, s, Call("else"), i, j, bb, d, c, e) /\ bb = <<t>> \o (<<q>> \o b)
  OBVIOUS
<1> HIDE DEF bb
<1>2. ReadsElse(v, s, i, j, bb, d, c, e)
  BY <1>1 DEF Does, Call
<1>. QED
  BY <1>1, <1>2 DEF ReadsElse

LEMMA IfDoes ==
  ASSUME NEW v \in Vocabularies, NEW s \in Streams(v), NEW i, NEW j, NEW b, NEW d, NEW c, NEW e,
         DoesAll(v, s, <<Expect("IF")>> \o Condition \o <<Statement, Call("else")>>,
                 i, j, b, d, c, e)
  PROVE  Does(v, s, Statement, i, j, b, d, c, e)
<1>0. /\ IsSeq(<<Expect("IF")>>) /\ IsSeq(Condition) /\ IsSeq(<<Statement, Call("else")>>)
      /\ IsSeq(<<Expect("IF")>> \o Condition)
  BY OneIsSeq, TuplesAre, ConcatIs DEF Condition
<1>1. PICK m, x, y : /\ DoesAll(v, s, <<Expect("IF")>> \o Condition, i, m, b, d, x, y)
                     /\ DoesAll(v, s, <<Statement, Call("else")>>, m, j, x, y, c, e)
  BY <1>0, DoesParts
<1>2. PICK k, z, w : /\ DoesAll(v, s, <<Expect("IF")>>, i, k, b, d, z, w)
                     /\ DoesAll(v, s, Condition, k, m, z, w, x, y)
  BY <1>0, <1>1, DoesParts
<1>3. Reads(v, s, i, k, "IF") /\ z = b /\ w = d
  BY <1>2, DoesOne, Expected
<1>4. PICK n, f, g : /\ Does(v, s, Statement, m, n, x, y, f, g)
                     /\ Does(v, s, Call("else"), n, j, f, g, c, e)
  BY <1>1, DoesTwo
<1>5. ASSUME IsSeq(b)
      PROVE  \E t : Puts(b, d, c, e, t) /\ Stat(v, s, i, j, t)
  <2>1. PICK q : Puts(b, d, x, y, q) /\ Parenthesised(v, s, k, m, q)
    BY <1>2, <1>3, <1>5, ConditionDoes
  <2>2. IsSeq(x)
    BY <1>5, <2>1, Pushed DEF Puts
  <2>3. PICK t : Puts(x, y, f, g, t) /\ Stat(v, s, m, n, t)
    BY <1>4, <2>2, StatementDoes
  <2>4. Does(v, s, Call("else"), n, j, <<t>> \o (<<q>> \o b), d, c, e)
    BY <1>4, <2>1, <2>3 DEF Puts
  <2>. QED
    BY <1>3, <1>5, <2>1, <2>3, <2>4, ElseRead
<1>. QED
  BY <1>5, StatementPromise

LEMMA ElseDoes ==
  ASSUME NEW v \in Vocabularies, NEW s \in Streams(v), NEW i, NEW o, NEW j,
         NEW b, NEW d, NEW c, NEW e, Reads(v, s, i, o, "ELSE"),
         DoesAll(v, s, <<Statement, IfStatement(3)>>, o, j, b, d, c, e)
  PROVE  Does(v, s, Call("else"), i, j, b, d, c, e)
<1>1. PICK k, x, y : /\ Does(v, s, Statement, o, k, b, d, x, y)
                     /\ Does(v, s, IfStatement(3), k, j, x, y, c, e)
  BY DoesTwo
<1>2. ASSUME NEW a, NEW m, NEW n, NEW q, NEW t, NEW rest,
             IsSeq(rest), b = <<t>> \o (<<q>> \o rest), Reads(v, s, a, m, "IF"),
             Parenthesised(v, s, m, n, q), Stat(v, s, n, i, t)
      PROVE  \E u : Puts(rest, d, c, e, u) /\ Stat(v, s, a, j, u)
  <2>1. IsSeq(<<q>> \o rest) /\ IsSeq(b)
    BY <1>2, Pushed
  <2>2. PICK f : Puts(b, d, x, y, f) /\ Stat(v, s, o, k, f)
    BY <1>1, <2>1, StatementDoes
  <2>3. Makes(<<"IfStatement">>, 3, k, j, <<f>> \o (<<t>> \o (<<q>> \o rest)), d, c, e)
    BY <1>1, <1>2, <2>2, Made DEF IfStatement, Puts
  <2> DEFINE tree == <<"IfStatement">> \o <<q, t, f>>
  <2>4. k = j /\ Puts(rest, d, c, e, tree)
    BY <1>2, <2>3, MakeThree
  <2>5. PICK m1, m2 :
          /\ Reads(v, s, m, m1, "LPAREN") /\ Derived(v, s, "expression", m1, m2, <<q>>, <<>>)
          /\ Reads(v, s, m2, n, "RPAREN") /\ m < n /\ m \in Nat /\ n \in Nat
    BY <1>2, ParenthesisedIs
  <2>6. Derived(v, s, "closed", n, i, <<t>>, <<>>) /\ n < i /\ i \in Nat
    <3>1. s[i + 1] = "ELSE"
      BY DEF Reads
    <3>. QED
      BY <1>2, <3>1, StatIs DEF Statements
  <2>7. \A x1 \in Statements :
          Derived(v, s, x1, o, j, <<f>>, <<>>) => Derived(v, s, x1, a, j, <<tree>>, <<>>)
    <3>1. <<q>> \o <<t>> \o <<f>> = <<q, t, f>>
      BY TwoOf, ThreeOf
    <3>2. \A x1 \in Statements :
            Derived(v, s, x1, o, j, <<f>>, <<>>)
              => Derived(v, s, x1, a, j, <<<<"IfStatement">> \o (<<q>> \o <<t>> \o <<f>>)>>, <<>>)
      BY <1>2, <2>5, <2>6, IfElseReads
    <3>. QED
      BY <3>1, <3>2
  <2> HIDE DEF tree
  <2>8. a < j
    <3>1. a \in Nat /\ a < m /\ i < o
      BY <1>2, ReadsIs
    <3>2. o < j /\ o \in Nat /\ j \in Nat
      BY <2>2, <2>4, StatIs
    <3>. QED
      BY <2>5, <2>6, <3>1, <3>2
  <2>. QED
    BY <2>2, <2>4, <2>7, <2>8, StatEnding
<1>3. ReadsElse(v, s, i, j, b, d, c, e)
  BY <1>2 DEF ReadsElse
<1>. QED
  BY <1>3 DEF Does, Call

LEMMA NoElse ==
  ASSUME NEW v \in Vocabularies, NEW s \in Streams(v), NEW i, NEW j, NEW b, NEW d, NEW c, NEW e,
         s[i + 1] # "ELSE", DoesAll(v, s, <<IfStatement(2)>>, i, j, b, d, c, e)
  PROVE  Does(v, s, Call("else"), i, j, b, d, c, e)
<1>1. Makes(<<"IfStatement">>, 2, i, j, b, d, c, e)
  BY DoesOne, Made DEF IfStatement
<1>2. ASSUME NEW a, NEW m, NEW n, NEW q, NEW t, NEW rest,
             IsSeq(rest), b = <<t>> \o (<<q>> \o rest), Reads(v, s, a, m, "IF"),
             Parenthesised(v, s, m, n, q), Stat(v, s, n, i, t)
      PROVE  \E u : Puts(rest, d, c, e, u) /\ Stat(v, s, a, j, u)
  <2> DEFINE tree == <<"IfStatement">> \o <<q, t>>
  <2>1. i = j /\ Puts(rest, d, c, e, tree)
    BY <1>1, <1>2, MakeTwo
  <2>2. PICK m1, m2 :
          /\ Reads(v, s, m, m1, "LPAREN") /\ Derived(v, s, "expression", m1, m2, <<q>>, <<>>)
          /\ Reads(v, s, m2, n, "RPAREN") /\ m < n /\ m \in Nat /\ n \in Nat
    BY <1>2, ParenthesisedIs
  <2>3. Derived(v, s, "statement", n, j, <<t>>, <<>>) /\ n < j /\ j \in Nat
    BY <1>2, <2>1, StatIs
  <2>4. Derived(v, s, "statement", a, j, <<tree>>, <<>>)
    BY <1>2, <2>2, <2>3, IfReads, TwoOf
  <2> HIDE DEF tree
  <2>5. a < j
    BY <1>2, <2>2, <2>3, ReadsIs
  <2>6. Stat(v, s, a, j, tree)
    BY <2>1, <2>4, <2>5 DEF Stat
  <2>. QED
    BY <2>1, <2>6
<1>3. ReadsElse(v, s, i, j, b, d, c, e)
  BY <1>2 DEF ReadsElse
<1>. QED
  BY <1>3 DEF Does, Call

(* for.                                                                      *)
LEMMA NoExpression ==
  ASSUME NEW v \in Vocabularies, NEW s \in Streams(v), NEW end, NEW i \in Nat, NEW b, NEW d
  PROVE  Does(v, s, Optional(end), i, i, b, d, <<<<"nullptr">>>> \o b, d)
<1>1. <<"nullptr">> \o <<>> = <<"nullptr">>
  BY Singles
<1>2. Derived(v, s, "maybe", i, i, <<<<"nullptr">>>>, <<>>)
  BY <1>1, NothingReads
<1>3. ReadsOptional(v, s, i, i, b, d, <<<<"nullptr">>>> \o b, d)
  BY <1>2 DEF ReadsOptional, Puts
<1>. QED
  BY <1>3 DEF Does, Optional, Of

LEMMA OptionalDoes ==
  ASSUME NEW v, NEW s, NEW end, NEW i, NEW j, NEW b, NEW d, NEW c, NEW e,
         DoesAll(v, s, <<Expression>>, i, j, b, d, c, e)
  PROVE  Does(v, s, Optional(end), i, j, b, d, c, e)
<1>1. ASSUME IsSeq(b)
      PROVE  \E t : Puts(b, d, c, e, t) /\ Derived(v, s, "maybe", i, j, <<t>>, <<>>)
  <2>1. PICK t : Puts(b, d, c, e, t) /\ Exp(v, s, Assignments, i, j, t)
    BY <1>1, DoesOne, ExpressionDoes
  <2>. QED
    BY <2>1 DEF Exp, Assignments
<1>2. ReadsOptional(v, s, i, j, b, d, c, e)
  BY <1>1 DEF ReadsOptional
<1>. QED
  BY <1>2 DEF Does, Optional, Of

LEMMA OptionalRead ==
  ASSUME NEW v, NEW s, NEW end, NEW i, NEW j, NEW b, NEW d, NEW c, NEW e, IsSeq(b),
         Does(v, s, Optional(end), i, j, b, d, c, e)
  PROVE  \E t : Puts(b, d, c, e, t) /\ Derived(v, s, "maybe", i, j, <<t>>, <<>>)
BY DEF Does, Optional, Of, ReadsOptional

LEMMA ForDoes ==
  ASSUME NEW v \in Vocabularies, NEW s \in Streams(v), NEW i, NEW j, NEW b, NEW d, NEW c, NEW e,
         DoesAll(v, s, <<Expect("FOR"), Expect("LPAREN"),
                         Optional("SEMICOLON"), Expect("SEMICOLON"),
                         Optional("SEMICOLON"), Expect("SEMICOLON"),
                         Optional("RPAREN"), Expect("RPAREN"), Statement, ForStatement>>,
                 i, j, b, d, c, e)
  PROVE  Does(v, s, Statement, i, j, b, d, c, e)
<1> DEFINE q == <<Expect("FOR"), Expect("LPAREN"),
                  Optional("SEMICOLON"), Expect("SEMICOLON"),
                  Optional("SEMICOLON"), Expect("SEMICOLON"),
                  Optional("RPAREN"), Expect("RPAREN"), Statement, ForStatement>>
<1>1. /\ Len(q) = 10 /\ q[1] = Expect("FOR") /\ q[2] = Expect("LPAREN")
      /\ q[3] = Optional("SEMICOLON") /\ q[4] = Expect("SEMICOLON")
      /\ q[5] = Optional("SEMICOLON") /\ q[6] = Expect("SEMICOLON")
      /\ q[7] = Optional("RPAREN") /\ q[8] = Expect("RPAREN") /\ q[9] = Statement
      /\ q[10] = ForStatement
  OBVIOUS
<1> HIDE DEF q
<1>2. PICK at, bs, ds :
        /\ at[0] = i /\ bs[0] = b /\ ds[0] = d /\ Stages(v, s, q, at, bs, ds)
        /\ at[10] = j /\ bs[10] = c /\ ds[10] = e
  BY <1>1 DEF DoesAll, q
<1>3. /\ Does(v, s, Expect("FOR"), at[0], at[1], bs[0], ds[0], bs[1], ds[1])
      /\ Does(v, s, Expect("LPAREN"), at[1], at[2], bs[1], ds[1], bs[2], ds[2])
      /\ Does(v, s, Optional("SEMICOLON"), at[2], at[3], bs[2], ds[2], bs[3], ds[3])
      /\ Does(v, s, Expect("SEMICOLON"), at[3], at[4], bs[3], ds[3], bs[4], ds[4])
      /\ Does(v, s, Optional("SEMICOLON"), at[4], at[5], bs[4], ds[4], bs[5], ds[5])
      /\ Does(v, s, Expect("SEMICOLON"), at[5], at[6], bs[5], ds[5], bs[6], ds[6])
      /\ Does(v, s, Optional("RPAREN"), at[6], at[7], bs[6], ds[6], bs[7], ds[7])
      /\ Does(v, s, Expect("RPAREN"), at[7], at[8], bs[7], ds[7], bs[8], ds[8])
      /\ Does(v, s, Statement, at[8], at[9], bs[8], ds[8], bs[9], ds[9])
      /\ Does(v, s, ForStatement, at[9], at[10], bs[9], ds[9], bs[10], ds[10])
  BY <1>1, <1>2 DEF Stages
<1>4. /\ Reads(v, s, i, at[1], "FOR") /\ Reads(v, s, at[1], at[2], "LPAREN")
      /\ Reads(v, s, at[3], at[4], "SEMICOLON") /\ Reads(v, s, at[5], at[6], "SEMICOLON")
      /\ Reads(v, s, at[7], at[8], "RPAREN") /\ bs[2] = b /\ ds[2] = d
      /\ bs[4] = bs[3] /\ ds[4] = ds[3] /\ bs[6] = bs[5] /\ ds[6] = ds[5]
      /\ bs[8] = bs[7] /\ ds[8] = ds[7]
  BY <1>2, <1>3, Expected
<1>5. ASSUME IsSeq(b)
      PROVE  \E t : Puts(b, d, c, e, t) /\ Stat(v, s, i, j, t)
  <2>1. PICK f : /\ Puts(b, d, bs[4], ds[4], f)
                 /\ Derived(v, s, "maybe", at[2], at[3], <<f>>, <<>>)
    BY <1>3, <1>4, <1>5, OptionalRead
  <2>2. IsSeq(bs[4])
    BY <1>5, <2>1, Pushed DEF Puts
  <2>3. PICK g : /\ Puts(bs[4], ds[4], bs[6], ds[6], g)
                 /\ Derived(v, s, "maybe", at[4], at[5], <<g>>, <<>>)
    BY <1>3, <1>4, <2>2, OptionalRead
  <2>4. IsSeq(bs[6])
    BY <2>2, <2>3, Pushed DEF Puts
  <2>5. PICK h : /\ Puts(bs[6], ds[6], bs[8], ds[8], h)
                 /\ Derived(v, s, "maybe", at[6], at[7], <<h>>, <<>>)
    BY <1>3, <1>4, <2>4, OptionalRead
  <2>6. IsSeq(bs[8])
    BY <2>4, <2>5, Pushed DEF Puts
  <2>7. PICK t : Puts(bs[8], ds[8], bs[9], ds[9], t) /\ Stat(v, s, at[8], at[9], t)
    BY <1>3, <2>6, StatementDoes
  <2>8. /\ bs[9] = <<t>> \o (<<h>> \o (<<g>> \o (<<f>> \o b))) /\ ds[9] = d
    BY <2>1, <2>3, <2>5, <2>7 DEF Puts
  <2>9. Makes(<<"ForStatement">>, 4, at[9], j, <<t>> \o (<<h>> \o (<<g>> \o (<<f>> \o b))), d, c, e)
    BY <1>2, <1>3, <2>8, Made DEF ForStatement
  <2> DEFINE tree == <<"ForStatement">> \o <<f, g, h, t>>
  <2>10. at[9] = j /\ Puts(b, d, c, e, tree)
    BY <1>5, <2>9, MakeFour
  <2>11. \A r \in Statements :
           Derived(v, s, r, at[8], at[9], <<t>>, <<>>) => Derived(v, s, r, i, at[9], <<tree>>, <<>>)
    <3> DEFINE fs == <<f>>
               gs == <<g>>
               hs == <<h>>
               ts == <<t>>
    <3>1. (fs \o gs) \o hs = <<f, g, h>>
      BY TwoOf, ThreeOf
    <3>2. ((fs \o gs) \o hs) \o ts = <<f, g, h, t>>
      BY <3>1, FourOf
    <3>3. /\ Derived(v, s, "maybe", at[2], at[3], fs, <<>>)
          /\ Derived(v, s, "maybe", at[4], at[5], gs, <<>>)
          /\ Derived(v, s, "maybe", at[6], at[7], hs, <<>>)
      BY <2>1, <2>3, <2>5
    <3>4. tree = <<"ForStatement">> \o (fs \o gs \o hs \o ts)
      BY <3>2
    <3> HIDE DEF tree, fs, gs, hs
    <3> SUFFICES ASSUME NEW r \in Statements, Derived(v, s, r, at[8], at[9], ts, <<>>)
                 PROVE  Derived(v, s, r, i, at[9], <<tree>>, <<>>)
      OBVIOUS
    <3> HIDE DEF ts
    <3>5. Derived(v, s, r, i, at[9], <<<<"ForStatement">> \o (fs \o gs \o hs \o ts)>>, <<>>)
      <4> DEFINE m1 == at[1]
                 m2 == at[2]
                 m3 == at[3]
                 m4 == at[4]
                 m5 == at[5]
                 m6 == at[6]
                 m7 == at[7]
                 m8 == at[8]
                 m9 == at[9]
      <4>1. /\ Reads(v, s, i, m1, "FOR") /\ Reads(v, s, m1, m2, "LPAREN")
            /\ Derived(v, s, "maybe", m2, m3, fs, <<>>) /\ Reads(v, s, m3, m4, "SEMICOLON")
            /\ Derived(v, s, "maybe", m4, m5, gs, <<>>) /\ Reads(v, s, m5, m6, "SEMICOLON")
            /\ Derived(v, s, "maybe", m6, m7, hs, <<>>) /\ Reads(v, s, m7, m8, "RPAREN")
            /\ Derived(v, s, r, m8, m9, ts, <<>>)
        BY <1>4, <3>3
      <4> HIDE DEF m1, m2, m3, m4, m5, m6, m7, m8
      <4>. QED
        BY <4>1, ForReads
    <3>. QED
      BY <3>4, <3>5
  <2> HIDE DEF tree
  <2>12. i < at[9]
    <3>1. i \in Nat /\ at[1] \in Nat /\ at[2] \in Nat /\ i < at[1] /\ at[1] < at[2]
      BY <1>4, ReadsIs
    <3>2. at[3] \in Nat /\ at[4] \in Nat /\ at[2] <= at[3] /\ at[3] < at[4]
      BY <1>4, <2>1, ReadsIs, DerivedIs
    <3>3. at[5] \in Nat /\ at[6] \in Nat /\ at[4] <= at[5] /\ at[5] < at[6]
      BY <1>4, <2>3, ReadsIs, DerivedIs
    <3>4. at[7] \in Nat /\ at[8] \in Nat /\ at[6] <= at[7] /\ at[7] < at[8]
      BY <1>4, <2>5, ReadsIs, DerivedIs
    <3>5. at[8] < at[9] /\ at[9] \in Nat
      BY <2>7, StatIs
    <3>6. i < at[4]
      BY <3>1, <3>2
    <3>7. at[4] < at[8]
      BY <3>2, <3>3, <3>4
    <3>. QED
      BY <3>1, <3>2, <3>4, <3>5, <3>6, <3>7
  <2>13. Stat(v, s, i, at[9], tree)
    BY <2>7, <2>11, <2>12, StatEnding
  <2>. QED
    BY <2>10, <2>13
<1>. QED
  BY <1>5, StatementPromise

-----------------------------------------------------------------------------
(* Declarations.                                                             *)

LEMMA IdentifierReads ==
  ASSUME NEW v, NEW s, NEW i, NEW j, NEW b, NEW d, Reads(v, s, i, j, "IDENTIFIER")
  PROVE  Does(v, s, Call("identifier"), i, j, b, d, <<<<"IDENTIFIER">>>> \o b, d)
<1>1. ReadsIdentifier(v, s, i, j, b, d, <<<<"IDENTIFIER">>>> \o b, d)
  BY DEF ReadsIdentifier, Puts
<1>. QED
  BY <1>1 DEF Does, Call

LEMMA VarOf ==
  ASSUME NEW v, NEW s, NEW type, NEW i, NEW j, NEW t, i < j,
         \A x \in {One[type], All[type]} : Derived(v, s, x, i, j, <<>>, <<t>>)
  PROVE  Var(v, s, type, i, j, t)
BY DEF Var

LEMMA InitializerRead ==
  ASSUME NEW v, NEW s, NEW type \in Types, NEW a, NEW i, NEW j, NEW b, NEW d, NEW c, NEW e, IsSeq(b),
         Reads(v, s, a, i, "IDENTIFIER"),
         Does(v, s, Of("initializer", type), i, j, <<<<"IDENTIFIER">>>> \o b, d, c, e)
  PROVE  \E t : Puts(b, d, c, e, t) /\ Var(v, s, type, a, j, t)
<1> DEFINE bb == <<<<"IDENTIFIER">>>> \o b
<1>1. /\ Does(v, s, Of("initializer", type), i, j, bb, d, c, e)
      /\ bb = <<<<"IDENTIFIER">>>> \o b
  OBVIOUS
<1> HIDE DEF bb
<1>2. ReadsInitializer(v, s, type, i, j, bb, d, c, e)
  BY <1>1 DEF Does, Of
<1>. QED
  BY <1>1, <1>2 DEF ReadsInitializer

LEMMA VariableDoes ==
  ASSUME NEW v, NEW s, NEW type, NEW i, NEW j, NEW b, NEW d, NEW c, NEW e,
         DoesAll(v, s, <<Call("identifier"), Of("initializer", type)>>, i, j, b, d, c, e)
  PROVE  Does(v, s, Of("variable", type), i, j, b, d, c, e)
<1>1. PICK k, x, y : /\ Does(v, s, Call("identifier"), i, k, b, d, x, y)
                     /\ Does(v, s, Of("initializer", type), k, j, x, y, c, e)
  BY DoesTwo
<1>2. Reads(v, s, i, k, "IDENTIFIER") /\ x = <<<<"IDENTIFIER">>>> \o b /\ y = d
  BY <1>1, IdentifierDoes DEF Puts
<1>3. IsSeq(b) /\ type \in Types => \E t : Puts(b, d, c, e, t) /\ Var(v, s, type, i, j, t)
  BY <1>1, <1>2, InitializerRead
<1>4. ReadsVariable(v, s, type, i, j, b, d, c, e)
  BY <1>3 DEF ReadsVariable
<1>. QED
  BY <1>4 DEF Does, Of

(* The name is part of what a variable is told apart by in the grammar.        *)
LEMMA Initialised ==
  ASSUME NEW a, NEW b, NEW c, NEW d
  PROVE  <<a, b>> \o <<c, d>> = <<a, b, c>> \o <<d>> /\ <<a, b>> \o <<c>> = <<a, b, c>> \o <<>>
<1>1. /\ IsSeq(<<a, b>>) /\ IsSeq(<<c>>) /\ IsSeq(<<d>>) /\ IsSeq(<<a, b, c>>)
  BY TuplesAre, OneIsSeq
<1>2. <<c>> \o <<d>> = <<c, d>>
  BY TwoOf
<1>3. <<a, b>> \o <<c>> = <<a, b, c>>
  BY ThreeOf
<1>4. (<<a, b>> \o <<c>>) \o <<d>> = <<a, b>> \o (<<c>> \o <<d>>)
  BY <1>1, ConcatAssoc
<1>5. <<a, b, c>> \o <<>> = <<a, b, c>>
  BY <1>1, ConcatEmpty
<1>. QED
  BY <1>2, <1>3, <1>4, <1>5

LEMMA InitializerDoes ==
  ASSUME NEW v \in Vocabularies, NEW s \in Streams(v), NEW type, NEW i, NEW m, NEW j,
         NEW b, NEW d, NEW c, NEW e, Reads(v, s, i, m, "ASSIGN"),
         DoesAll(v, s, <<Expression, VariableDecl(type, 2)>>, m, j, b, d, c, e)
  PROVE  Does(v, s, Of("initializer", type), i, j, b, d, c, e)
<1>1. PICK k, x, y : /\ Does(v, s, Expression, m, k, b, d, x, y)
                     /\ Does(v, s, VariableDecl(type, 2), k, j, x, y, c, e)
  BY DoesTwo
<1>2. ASSUME NEW a, NEW rest, IsSeq(rest), type \in Types, b = <<<<"IDENTIFIER">>>> \o rest,
             Reads(v, s, a, i, "IDENTIFIER")
      PROVE  \E t : Puts(rest, d, c, e, t) /\ Var(v, s, type, a, j, t)
  <2> DEFINE name == <<"IDENTIFIER">>
  <2>1. IsSeq(b) /\ b = <<name>> \o rest
    BY <1>2, Pushed
  <2>2. PICK t : Puts(b, d, x, y, t) /\ Exp(v, s, Assignments, m, k, t)
    BY <1>1, <2>1, ExpressionDoes
  <2> DEFINE tree == <<"VariableDecl", type, name>> \o <<t>>
  <2>3. tree = <<"VariableDecl", type>> \o <<name, t>>
    BY Initialised
  <2>5. \A r \in {One[type], All[type]} : Derived(v, s, r, a, k, <<>>, <<tree>>)
    <3>1. Derived(v, s, "expression", m, k, <<t>>, <<>>)
      BY <2>2 DEF Exp, Assignments
    <3>. QED
      BY <1>2, <3>1, InitialisedReads
  <2> HIDE DEF name, tree
  <2>4. Makes(<<"VariableDecl", type>>, 2, k, j, <<t>> \o (<<name>> \o rest), d, c, e)
    BY <1>1, <2>1, <2>2, Made DEF VariableDecl, Puts
  <2>6. k = j /\ Puts(rest, d, c, e, tree)
    BY <1>2, <2>3, <2>4, MakeTwo
  <2>7. a < k
    <3>1. a \in Nat /\ i \in Nat /\ m \in Nat /\ a < i /\ i < m
      BY <1>2, ReadsIs
    <3>2. m < k /\ k \in Nat
      BY <2>2, <2>5, DerivedIs DEF Exp
    <3>. QED
      BY <3>1, <3>2
  <2>8. Var(v, s, type, a, k, tree)
    BY <2>5, <2>7, VarOf
  <2>. QED
    BY <2>6, <2>8
<1>3. ReadsInitializer(v, s, type, i, j, b, d, c, e)
  BY <1>2 DEF ReadsInitializer
<1>. QED
  BY <1>3 DEF Does, Of

LEMMA NoInitializer ==
  ASSUME NEW v \in Vocabularies, NEW s \in Streams(v), NEW type, NEW i, NEW j,
         NEW b, NEW d, NEW c, NEW e,
         DoesAll(v, s, <<VariableDecl(type, 1)>>, i, j, b, d, c, e)
  PROVE  Does(v, s, Of("initializer", type), i, j, b, d, c, e)
<1>1. Makes(<<"VariableDecl", type>>, 1, i, j, b, d, c, e)
  BY DoesOne, Made DEF VariableDecl
<1>2. ASSUME NEW a, NEW rest, IsSeq(rest), type \in Types, b = <<<<"IDENTIFIER">>>> \o rest,
             Reads(v, s, a, i, "IDENTIFIER")
      PROVE  \E t : Puts(rest, d, c, e, t) /\ Var(v, s, type, a, j, t)
  <2> DEFINE name == <<"IDENTIFIER">>
             tree == <<"VariableDecl", type, name>> \o <<>>
  <2>1. b = <<name>> \o rest
    BY <1>2
  <2>2. tree = <<"VariableDecl", type>> \o <<name>>
    BY Initialised
  <2>3. \A r \in {One[type], All[type]} : Derived(v, s, r, a, i, <<>>, <<tree>>)
    BY <1>2, DeclaredReads
  <2> HIDE DEF name, tree
  <2>4. i = j /\ Puts(rest, d, c, e, tree)
    BY <1>1, <1>2, <2>1, <2>2, MakeOne
  <2>5. a < i
    BY <1>2, ReadsIs
  <2>6. Var(v, s, type, a, i, tree)
    BY <2>3, <2>5, VarOf
  <2>. QED
    BY <2>4, <2>6
<1>3. ReadsInitializer(v, s, type, i, j, b, d, c, e)
  BY <1>2 DEF ReadsInitializer
<1>. QED
  BY <1>3 DEF Does, Of

LEMMA TypeDoes ==
  ASSUME NEW v \in Vocabularies, NEW s \in Streams(v), NEW type \in Types,
         NEW i, NEW m, NEW j, NEW b, NEW d, NEW c, NEW e, Reads(v, s, i, m, type),
         DoesAll(v, s, <<Of("variable", type), Call("push_back"), Of("more", Of("variable", type))>>,
                 m, j, b, d, c, e)
  PROVE  Does(v, s, Call("type"), i, j, b, d, c, e)
<1> DEFINE item == Of("variable", type)
<1>0. item \in Listed /\ item # Expression /\ item[2] = type
  BY DEF Listed, Of, Expression, Call
<1>1. PICK k, l, x, y, z, w :
        /\ Does(v, s, item, m, k, b, d, x, y) /\ Does(v, s, Call("push_back"), k, l, x, y, z, w)
        /\ Does(v, s, Of("more", item), l, j, z, w, c, e)
  BY DoesThree
<1> HIDE DEF item
<1>2. ASSUME NEW p, NEW rest, IsSeq(rest), IsSeq(p), b = <<p>> \o rest
      PROVE  \E r : /\ Puts(rest, d, c, e, p \o r)
                    /\ i < j /\ Derived(v, s, "declaration", i, j, <<>>, r)
  <2>1. IsSeq(b) /\ IsSeq(<<>>) /\ p = p \o <<>>
    BY <1>2, Pushed, EmptyIsSeq, ConcatEmpty
  <2>2. PICK t : Puts(b, d, x, y, t) /\ Item(v, s, item, m, k, t)
    BY <1>0, <1>1, <2>1, ItemDoes
  <2>3. PushesBack(k, l, <<t>> \o (<<p \o <<>>>> \o rest), d, z, w)
    BY <1>1, <1>2, <2>1, <2>2, BackDoes DEF Puts
  <2>4. k = l /\ Puts(rest, d, z, w, p \o (<<>> \o <<t>>))
    BY <1>2, <2>1, <2>3, Back
  <2> DEFINE q == <<t>>
  <2>5. Items(v, s, item, m, l, q)
    BY <1>0, <2>2, <2>4, OneItem
  <2>6. Puts(rest, d, z, w, p \o q)
    BY <2>4, Singles
  <2> HIDE DEF q
  <2>7. Does(v, s, Of("more", item), l, j, <<p \o q>> \o rest, d, c, e)
    BY <1>1, <2>6 DEF Puts
  <2>8. PICK r : Puts(rest, d, c, e, p \o r) /\ Items(v, s, item, m, j, r)
    BY <1>0, <1>2, <2>5, <2>7, MoreRead
  <2>9. Derived(v, s, All[type], m, j, <<>>, r) /\ m < j /\ j \in Nat
    BY <1>0, <2>8, ItemsIs DEF Items
  <2>10. Derived(v, s, "declaration", i, j, <<>>, r)
    BY <2>9, DeclarationReads
  <2>11. i < j
    BY <2>9, ReadsIs
  <2>. QED
    BY <2>8, <2>10, <2>11
<1>3. ReadsType(v, s, i, j, b, d, c, e)
  BY <1>2 DEF ReadsType
<1>. QED
  BY <1>3 DEF Does, Call

LEMMA TypeRead ==
  ASSUME NEW v, NEW s, NEW i, NEW j, NEW b, NEW d, NEW c, NEW e, NEW p, IsSeq(b), IsSeq(p),
         s[i + 1] \in Types, Does(v, s, Call("type"), i, j, <<p>> \o b, d, c, e)
  PROVE  \E q : /\ Puts(b, d, c, e, p \o q)
                /\ i < j /\ Derived(v, s, "declaration", i, j, <<>>, q)
<1> DEFINE bb == <<p>> \o b
<1>1. Does(v, s, Call("type"), i, j, bb, d, c, e) /\ bb = <<p>> \o b
  OBVIOUS
<1> HIDE DEF bb
<1>2. ReadsType(v, s, i, j, bb, d, c, e)
  BY <1>1 DEF Does, Call
<1>. QED
  BY <1>1, <1>2 DEF ReadsType

(* A program that ends in a declaration may go on with another one.            *)
LEMMA DeclaringIs ==
  ASSUME NEW v, NEW s, NEW i, NEW m, NEW ts, NEW d, NEW q, NEW r, IsSeq(d), IsSeq(q),
         0 < m, m < i, Derived(v, s, "program", 0, m, ts, d \o q),
         Derived(v, s, "declaration", m, i, <<>>, r)
  PROVE  Declaring(v, s, i, ts, d, q \o r)
BY DEF Declaring

LEMMA Declared ==
  ASSUME NEW v \in Vocabularies, NEW s \in Streams(v), NEW i, NEW ts, NEW d, NEW q,
         Declaring(v, s, i, ts, d, q)
  PROVE  /\ i \in Nat /\ 0 < i /\ IsSeq(d) /\ IsSeq(q)
         /\ Derived(v, s, "program", 0, i, ts, d \o q)
         /\ \A j : Reads(v, s, i, j, "SEMICOLON") => Derived(v, s, "program", 0, j, ts, d \o q)
<1>1. PICK m, p, r :
        /\ 0 < m /\ m < i /\ IsSeq(d) /\ IsSeq(p) /\ q = p \o r
        /\ Derived(v, s, "program", 0, m, ts, d \o p) /\ Derived(v, s, "declaration", m, i, <<>>, r)
  BY DEF Declaring
<1>2. IsSeq(r) /\ m \in Nat /\ i \in Nat
  BY <1>1, DerivedIs
<1>3. (d \o p) \o r = d \o q /\ IsSeq(q)
  BY <1>1, <1>2, ConcatAssoc, ConcatIs
<1> DEFINE before == d \o p
           all    == before \o r
<1>4. Derived(v, s, "program", 0, m, ts, before) /\ all = d \o q
  BY <1>1, <1>3
<1> HIDE DEF before
<1>5. Derived(v, s, "program", 0, i, ts, all)
  BY <1>1, <1>4, ProgramDeclarationReads
<1>6. \A j : Reads(v, s, i, j, "SEMICOLON") => Derived(v, s, "program", 0, j, ts, all)
  BY <1>1, <1>4, ProgramSemicolonReads
<1>. QED
  BY <1>1, <1>2, <1>3, <1>4, <1>5, <1>6

LEMMA DeclarationsRead ==
  ASSUME NEW v, NEW s, NEW i, NEW j, NEW b, NEW d, NEW c, NEW e, NEW q, NEW ts, IsSeq(b),
         Declaring(v, s, i, ts, d, q), Does(v, s, Call("declarations"), i, j, <<q>> \o b, d, c, e)
  PROVE  c = b /\ 0 < j /\ Derived(v, s, "program", 0, j, ts, e)
<1> DEFINE bb == <<q>> \o b
<1>1. Does(v, s, Call("declarations"), i, j, bb, d, c, e) /\ bb = <<q>> \o b
  OBVIOUS
<1> HIDE DEF bb
<1>2. ReadsDeclarations(v, s, i, j, bb, d, c, e)
  BY <1>1 DEF Does, Call
<1>. QED
  BY <1>1, <1>2 DEF ReadsDeclarations

LEMMA DeclarationsDo ==
  ASSUME NEW v \in Vocabularies, NEW s \in Streams(v), NEW i, NEW m, NEW j,
         NEW b, NEW d, NEW c, NEW e, Reads(v, s, i, m, "SEMICOLON"), s[m + 1] \in Types,
         DoesAll(v, s, <<Call("type"), Call("declarations")>>, m, j, b, d, c, e)
  PROVE  Does(v, s, Call("declarations"), i, j, b, d, c, e)
<1>1. PICK k, x, y : /\ Does(v, s, Call("type"), m, k, b, d, x, y)
                     /\ Does(v, s, Call("declarations"), k, j, x, y, c, e)
  BY DoesTwo
<1>2. ASSUME NEW q, NEW ts, NEW rest, IsSeq(rest), b = <<q>> \o rest, Declaring(v, s, i, ts, d, q)
      PROVE  c = rest /\ 0 < j /\ Derived(v, s, "program", 0, j, ts, e)
  <2>1. /\ IsSeq(d) /\ IsSeq(q) /\ i \in Nat /\ 0 < i
        /\ Derived(v, s, "program", 0, m, ts, d \o q)
    BY <1>2, Declared
  <2>2. 0 < m
    BY <2>1, ReadsIs
  <2>3. Does(v, s, Call("type"), m, k, <<q>> \o rest, d, x, y)
    BY <1>1, <1>2
  <2>4. PICK r : /\ Puts(rest, d, x, y, q \o r)
                 /\ m < k /\ Derived(v, s, "declaration", m, k, <<>>, r)
    BY <1>2, <2>1, <2>3, TypeRead
  <2>5. Declaring(v, s, k, ts, d, q \o r)
    BY <2>1, <2>2, <2>4, DeclaringIs
  <2> DEFINE more == q \o r
  <2> HIDE DEF more
  <2>6. Does(v, s, Call("declarations"), k, j, <<more>> \o rest, d, c, e) /\ Declaring(v, s, k, ts, d, more)
    BY <1>1, <2>4, <2>5 DEF Puts, more
  <2>. QED
    BY <1>2, <2>6, DeclarationsRead
<1>3. ReadsDeclarations(v, s, i, j, b, d, c, e)
  BY <1>2 DEF ReadsDeclarations
<1>. QED
  BY <1>3 DEF Does, Call

(* The last of the declarations, and its semicolon.                           *)
LEMMA NoDeclarations ==
  ASSUME NEW v \in Vocabularies, NEW s \in Streams(v), NEW i, NEW m, NEW j,
         NEW b, NEW d, NEW c, NEW e, Reads(v, s, i, m, "SEMICOLON") \/ i = m,
         DoesAll(v, s, <<Call("declared")>>, m, j, b, d, c, e)
  PROVE  Does(v, s, Call("declarations"), i, j, b, d, c, e)
<1>1. Inserts(m, j, b, d, c, e)
  BY DoesOne DEF Does, Call
<1>2. ASSUME NEW q, NEW ts, NEW rest, IsSeq(rest), b = <<q>> \o rest, Declaring(v, s, i, ts, d, q)
      PROVE  c = rest /\ 0 < j /\ Derived(v, s, "program", 0, j, ts, e)
  <2>1. i \in Nat /\ 0 < i /\ Derived(v, s, "program", 0, m, ts, d \o q)
    BY <1>2, Declared
  <2>2. 0 < m
    BY <2>1, ReadsIs
  <2>3. Head(b) = q /\ Tail(b) = rest
    BY <1>2, Pushed
  <2>. QED
    BY <1>1, <2>1, <2>2, <2>3 DEF Inserts
<1>3. ReadsDeclarations(v, s, i, j, b, d, c, e)
  BY <1>2 DEF ReadsDeclarations
<1>. QED
  BY <1>3 DEF Does, Call

-----------------------------------------------------------------------------
(* The program.                                                              *)

LEMMA ProgramRead ==
  ASSUME NEW v, NEW s, NEW i, NEW j, NEW b, NEW d, NEW c, NEW e, NEW ts,
         b = <<<<"Program">> \o ts>>, 0 < i, Derived(v, s, "program", 0, i, ts, d),
         Does(v, s, Call("program"), i, j, b, d, c, e)
  PROVE  \E us : c = <<<<"Program">> \o us>> /\ Derived(v, s, "program", 0, j, us, e)
<1>1. ReadsProgram(v, s, i, j, b, d, c, e)
  BY DEF Does, Call
<1>. QED
  BY <1>1 DEF ReadsProgram

LEMMA ProgramPromise ==
  ASSUME NEW v, NEW s, NEW i, NEW j, NEW b, NEW d, NEW c, NEW e,
         \A ts : b = <<<<"Program">> \o ts>> /\ 0 < i /\ Derived(v, s, "program", 0, i, ts, d)
           => \E us : c = <<<<"Program">> \o us>> /\ Derived(v, s, "program", 0, j, us, e)
  PROVE  Does(v, s, Call("program"), i, j, b, d, c, e)
<1>1. ReadsProgram(v, s, i, j, b, d, c, e)
  BY DEF ReadsProgram
<1>. QED
  BY <1>1 DEF Does, Call

LEMMA ProgramEnds ==
  ASSUME NEW v, NEW s, NEW i, NEW b, NEW d
  PROVE  Does(v, s, Call("program"), i, i, b, d, b, d)
BY ProgramPromise

LEMMA ProgramDeclares ==
  ASSUME NEW v \in Vocabularies, NEW s \in Streams(v), NEW i, NEW j,
         NEW b, NEW d, NEW c, NEW e, s[i + 1] \in Types,
         DoesAll(v, s, <<Call("type"), Call("declarations"), Call("program")>>, i, j,
                 <<<<>>>> \o b, d, c, e)
  PROVE  Does(v, s, Call("program"), i, j, b, d, c, e)
<1> DEFINE start == <<<<>>>> \o b
<1>0. DoesAll(v, s, <<Call("type"), Call("declarations"), Call("program")>>, i, j, start, d, c, e)
      /\ start = <<<<>>>> \o b
  OBVIOUS
<1> HIDE DEF start
<1>1. PICK k, l, x, y, z, w :
        /\ Does(v, s, Call("type"), i, k, start, d, x, y)
        /\ Does(v, s, Call("declarations"), k, l, x, y, z, w)
        /\ Does(v, s, Call("program"), l, j, z, w, c, e)
  BY <1>0, DoesThree
<1>2. ASSUME NEW ts, b = <<<<"Program">> \o ts>>, 0 < i, Derived(v, s, "program", 0, i, ts, d)
      PROVE  \E us : c = <<<<"Program">> \o us>> /\ Derived(v, s, "program", 0, j, us, e)
  <2>1. IsSeq(b) /\ IsSeq(d) /\ IsSeq(<<>>) /\ d \o <<>> = d
    BY <1>2, OneIsSeq, DerivedIs, EmptyIsSeq, ConcatEmpty
  <2> DEFINE none == <<>>
  <2>2. IsSeq(none) /\ d \o none = d /\ Does(v, s, Call("type"), i, k, <<none>> \o b, d, x, y)
    BY <1>0, <1>1, <2>1
  <2> HIDE DEF none
  <2>3. PICK q : /\ Puts(b, d, x, y, none \o q)
                 /\ i < k /\ Derived(v, s, "declaration", i, k, <<>>, q)
    BY <2>1, <2>2, TypeRead
  <2> DEFINE all == none \o q
  <2>4. Derived(v, s, "program", 0, i, ts, d \o none)
    BY <1>2, <2>2
  <2>5. Declaring(v, s, k, ts, d, all)
    BY <1>2, <2>1, <2>2, <2>3, <2>4, DeclaringIs
  <2> HIDE DEF all
  <2>6. Does(v, s, Call("declarations"), k, l, <<all>> \o b, d, z, w)
    BY <1>1, <2>3 DEF Puts, all
  <2>7. z = b /\ 0 < l /\ Derived(v, s, "program", 0, l, ts, w)
    BY <2>1, <2>5, <2>6, DeclarationsRead
  <2>. QED
    BY <1>1, <1>2, <2>7, ProgramRead
<1>. QED
  BY <1>2, ProgramPromise

LEMMA ProgramGoesOn ==
  ASSUME NEW v \in Vocabularies, NEW s \in Streams(v), NEW i, NEW j,
         NEW b, NEW d, NEW c, NEW e,
         DoesAll(v, s, <<Statement, Call("push_back"), Call("program")>>, i, j, b, d, c, e)
  PROVE  Does(v, s, Call("program"), i, j, b, d, c, e)
<1>1. PICK k, l, x, y, z, w :
        /\ Does(v, s, Statement, i, k, b, d, x, y) /\ Does(v, s, Call("push_back"), k, l, x, y, z, w)
        /\ Does(v, s, Call("program"), l, j, z, w, c, e)
  BY DoesThree
<1>2. ASSUME NEW ts, b = <<<<"Program">> \o ts>>, 0 < i, Derived(v, s, "program", 0, i, ts, d)
      PROVE  \E us : c = <<<<"Program">> \o us>> /\ Derived(v, s, "program", 0, j, us, e)
  <2> DEFINE p == <<"Program">>
  <2>1. IsSeq(b) /\ IsSeq(ts) /\ IsSeq(p) /\ IsSeq(<<>>) /\ b = <<p \o ts>> \o <<>>
    BY <1>2, OneIsSeq, DerivedIs, EmptyIsSeq, Singles
  <2> HIDE DEF p
  <2>2. PICK t : Puts(b, d, x, y, t) /\ Stat(v, s, i, k, t)
    BY <1>1, <2>1, StatementDoes
  <2>3. PushesBack(k, l, <<t>> \o (<<p \o ts>> \o <<>>), d, z, w)
    BY <1>1, <2>1, <2>2, BackDoes DEF Puts
  <2>4. k = l /\ Puts(<<>>, d, z, w, p \o (ts \o <<t>>))
    BY <2>1, <2>3, Back
  <2> DEFINE us == ts \o <<t>>
  <2>5. Derived(v, s, "statement", i, l, <<t>>, <<>>) /\ i < l /\ l \in Nat /\ i \in Nat
    BY <2>2, <2>4, StatIs
  <2>6. Derived(v, s, "program", 0, l, us, d) /\ 0 < l
    BY <1>2, <2>5, ProgramStatementReads
  <2> HIDE DEF us
  <2>7. z = <<p \o us>> /\ w = d
    BY <2>4, Singles DEF Puts, us
  <2>8. z = <<<<"Program">> \o us>>
    BY <2>7 DEF p
  <2>9. Derived(v, s, "program", 0, l, us, w)
    BY <2>6, <2>7
  <2>10. Does(v, s, Call("program"), l, j, z, w, c, e) /\ 0 < l
    BY <1>1, <2>6
  <2>11. ReadsProgram(v, s, l, j, z, w, c, e)
    BY <2>10 DEF Does, Call
  <2>. QED
    BY <2>8, <2>9, <2>10, <2>11 DEF ReadsProgram
<1>. QED
  BY <1>2, ProgramPromise

-----------------------------------------------------------------------------
(* The invariant: whatever the tokens still to come are, if the calls on the     *)
(* stack do what they promise, what is returned is what the grammar gives.      *)

Position        == Len(input) - 2
Continues(s, q) == \A n \in 1 .. Len(q) : s[n] = q[n]

Proper(h) ==
  /\ h[1] = "expect" => h[2] # END
  /\ h[1] = "operators" => h[2] \in 1 .. 6
  /\ h[1] = "more" => h[2] = Expression \/ \E type : h[2] = Of("variable", type)
Plain(h) == Proper(h) /\ h[1] # "program"
(* A call of parseProgram() is the last one.                                  *)
Todo(q, last) ==
  /\ IsSeq(q)
  /\ \A n \in 1 .. Len(q) : Proper(q[n]) /\ (q[n][1] = "program" => last /\ n = Len(q))

InputRight ==
  /\ vocabulary \in Vocabularies /\ IsSeq(input) /\ Len(input) >= 2
  /\ \A n \in 1 .. Len(input) : /\ input[n] \in vocabulary.tokens \cup {END}
                                /\ n > vocabulary.most => input[n] = END
  /\ \A n, m \in 1 .. Len(input) : n <= m /\ input[n] = END => input[m] = END
CallsRight ==
  /\ Todo(calls, TRUE)
  /\ outcome # "parsing" => calls = <<>>
  /\ outcome = "parsed" => currentToken = END
Promised ==
  outcome \in {"parsing", "parsed"} =>
    \A s \in Streams(vocabulary) : Continues(s, input) =>
      \A j, c, e :
        DoesAll(vocabulary, s, calls, Position, j, built, declarations, c, e)
          => \E ts : c = <<<<"Program">> \o ts>> /\ Derived(vocabulary, s, "program", 0, j, ts, e)
ParserInv == InputRight /\ CallsRight /\ Promised

(* Tokens.                                                                   *)
LEMMA Looking ==
  ASSUME InputRight, NEW s, Continues(s, input)
  PROVE  /\ Position \in Nat /\ Position + 2 = Len(input)
         /\ s[Position + 1] = currentToken /\ s[Position + 2] = peekToken
<1>1. Len(input) \in Nat /\ Len(input) >= 2
  BY SeqIs DEF InputRight
<1>2. Position + 1 = Len(input) - 1 /\ Position + 2 = Len(input) /\ Position \in Nat
      /\ Len(input) - 1 \in 1 .. Len(input) /\ Len(input) \in 1 .. Len(input)
  BY <1>1 DEF Position
<1>3. s[Len(input) - 1] = input[Len(input) - 1] /\ s[Len(input)] = input[Len(input)]
  BY <1>2 DEF Continues
<1>. QED
  BY <1>2, <1>3 DEF currentToken, peekToken, Last

LEMMA Appended ==
  ASSUME NEW q, NEW t, IsSeq(q)
  PROVE  /\ IsSeq(Append(q, t)) /\ Len(Append(q, t)) = Len(q) + 1
         /\ \A n \in 1 .. Len(q) : Append(q, t)[n] = q[n]
         /\ Append(q, t)[Len(q) + 1] = t
<1>1. PICK S : q \in Seq(S)
  BY DEF IsSeq
<1>2. q \in Seq(S \cup {t}) /\ t \in S \cup {t}
  BY <1>1, SeqDef
<1>3. Append(q, t) \in Seq(S \cup {t})
  BY <1>2
<1>. QED
  BY <1>2, <1>3 DEF IsSeq

LEMMA TokenRead ==
  ASSUME InputRight, NextToken, vocabulary' = vocabulary,
         NEW s \in Streams(vocabulary), Continues(s, input')
  PROVE  /\ Continues(s, input) /\ Position' = Position + 1
         /\ currentToken # END => Reads(vocabulary, s, Position, Position', currentToken)
<1>1. PICK t : input' = Append(input, t)
  BY DEF NextToken
<1>2. /\ Len(input') = Len(input) + 1 /\ Len(input) \in Nat
      /\ \A n \in 1 .. Len(input) : n \in 1 .. Len(input') /\ input'[n] = input[n]
  BY <1>1, Appended, SeqIs DEF InputRight
<1>3. Continues(s, input)
  BY <1>2 DEF Continues
<1>4. Position' = Position + 1
  BY <1>2 DEF Position
<1>5. Position \in Nat /\ s[Position + 1] = currentToken
  BY <1>3, Looking
<1>6. currentToken \in vocabulary.tokens \cup {END}
  <2>1. Len(input) - 1 \in 1 .. Len(input)
    BY <1>2 DEF InputRight
  <2>. QED
    BY <2>1 DEF InputRight, currentToken
<1>7. ASSUME currentToken # END
      PROVE  Reads(vocabulary, s, Position, Position', currentToken)
  <2>1. \A m \in Position + 1 .. Position' : m = Position + 1
    BY <1>4, <1>5
  <2>. QED
    BY <1>4, <1>5, <1>6, <1>7, <2>1 DEF Reads, Real
<1>. QED
  BY <1>3, <1>4, <1>7

LEMMA InputKept ==
  ASSUME InputRight, vocabulary' = vocabulary, input' = input \/ NextToken
  PROVE  InputRight'
<1>1. CASE input' = input
  BY <1>1 DEF InputRight
<1>2. CASE NextToken
  <2>1. PICK t \in Supply(vocabulary, input) : input' = Append(input, t)
    BY <1>2 DEF NextToken
  <2>2. /\ IsSeq(input') /\ Len(input') = Len(input) + 1 /\ Len(input) \in Nat
        /\ \A n \in 1 .. Len(input) : input'[n] = input[n]
        /\ input'[Len(input) + 1] = t
    BY <2>1, Appended, SeqIs DEF InputRight
  <2>3. t \in vocabulary.tokens \cup {END}
    BY <2>1 DEF Supply
  <2>4. \A n \in 1 .. Len(input) : input[n] = END => t = END
    BY <2>1, SeqIs DEF Supply, ToSet, InputRight
  <2>5. Len(input) + 1 > vocabulary.most => t = END
    <3>1. vocabulary.most \in Nat
      BY MostNat DEF InputRight
    <3>2. CASE Len(input) = vocabulary.most
      BY <2>1, <3>2 DEF Supply
    <3>3. CASE Len(input) > vocabulary.most
      <4>1. Len(input) \in 1 .. Len(input)
        BY <2>2, <3>1, <3>3
      <4>. QED
        BY <2>4, <3>3, <4>1 DEF InputRight
    <3>. QED
      BY <2>2, <3>1, <3>2, <3>3
  <2>6. \A n \in 1 .. Len(input') : n \in 1 .. Len(input) \/ n = Len(input) + 1
    BY <2>2
  <2>7. ASSUME NEW n \in 1 .. Len(input')
        PROVE  /\ input'[n] \in vocabulary.tokens \cup {END}
               /\ n > vocabulary.most => input'[n] = END
    BY <2>2, <2>3, <2>5, <2>6 DEF InputRight
  <2>8. ASSUME NEW n \in 1 .. Len(input'), NEW m \in 1 .. Len(input'), n <= m, input'[n] = END
        PROVE  input'[m] = END
    <3>1. CASE m \in 1 .. Len(input)
      <4>1. n \in 1 .. Len(input)
        BY <2>2, <2>8, <3>1
      <4>. QED
        BY <2>2, <2>8, <3>1, <4>1 DEF InputRight
    <3>2. CASE m = Len(input) + 1
      BY <2>2, <2>4, <2>6, <2>8, <3>2
    <3>. QED
      BY <2>6, <3>1, <3>2
  <2>9. vocabulary' \in Vocabularies /\ Len(input') >= 2
    BY <2>2 DEF InputRight
  <2>. QED
    BY <2>2, <2>7, <2>8, <2>9 DEF InputRight
<1>. QED
  BY <1>1, <1>2

LEMMA InputBegins ==
  ASSUME Init
  PROVE  InputRight
<1>1. PICK t \in Supply(vocabulary, <<>>) : \E u \in Supply(vocabulary, <<t>>) : input = <<t, u>>
  BY DEF Init
<1>2. PICK u \in Supply(vocabulary, <<t>>) : input = <<t, u>>
  BY <1>1
<1>3. /\ vocabulary \in Vocabularies /\ vocabulary.most \in Nat /\ IsSeq(input) /\ Len(input) = 2
      /\ input[1] = t /\ input[2] = u
  BY <1>2, MostNat, TuplesAre DEF Init
<1>4. t \in vocabulary.tokens \cup {END} /\ u \in vocabulary.tokens \cup {END}
  BY DEF Supply
<1>5. vocabulary.most = 0 => t = END
  BY DEF Supply
<1>6. t = END => u = END
  BY DEF Supply, ToSet
<1>7. vocabulary.most = 1 => u = END
  BY DEF Supply
<1>8. 1 .. Len(input) = {1, 2}
  BY <1>3
<1>9. \A n \in {1, 2} : /\ input[n] \in vocabulary.tokens \cup {END}
                        /\ n > vocabulary.most => input[n] = END
  BY <1>3, <1>4, <1>5, <1>6, <1>7
<1>10. \A n, m \in {1, 2} : n <= m /\ input[n] = END => input[m] = END
  BY <1>3, <1>6
<1>. QED
  BY <1>3, <1>8, <1>9, <1>10 DEF InputRight

(* There is such a continuation.                                             *)
LEMMA StreamExists ==
  ASSUME InputRight
  PROVE  \E s \in Streams(vocabulary) : Continues(s, input)
<1> DEFINE s == [n \in Nat |-> IF n \in 1 .. Len(input) THEN input[n] ELSE END]
<1>1. \A n \in 1 .. Len(input) : n \in Nat /\ s[n] = input[n]
  OBVIOUS
<1>2. s \in Streams(vocabulary)
  BY DEF Streams, InputRight
<1>. QED
  BY <1>1, <1>2 DEF Continues

-----------------------------------------------------------------------------
(* What a step puts on the stack.                                             *)

LEMMA PlainCalls ==
  /\ \A t : t # END => Plain(Expect(t))
  /\ \A node, n : Plain(Make(node, n))
  /\ \A f : f \notin {"expect", "program", "operators", "more"} => Plain(Call(f))
  /\ \A f, what : f \notin {"expect", "program", "operators", "more"} => Plain(Of(f, what))
  /\ \A k \in 1 .. 6 : Plain(Of("operators", k))
  /\ Plain(Of("more", Expression)) /\ \A type : Plain(Of("more", Of("variable", type)))
  /\ Plain(Statement) /\ Plain(Expression)
BY DEF Plain, Proper, Expect, Make, Call, Of, Statement, Expression

LEMMA PlainExpect == \A w \in Words : Plain(Expect(w))
<1>1. END \notin Words
  BY DEF END, Words
<1>. QED
  BY <1>1, PlainCalls

LEMMA TodoNone == \A last : Todo(<<>>, last)
BY EmptyIsSeq DEF Todo

LEMMA TodoOne ==
  ASSUME NEW g, NEW last, Plain(g)
  PROVE  Todo(<<g>>, last)
BY OneIsSeq DEF Todo, Plain

LEMMA TodoOn ==
  ASSUME NEW p, NEW q, NEW last, Todo(p, FALSE), Todo(q, last)
  PROVE  Todo(p \o q, last)
<1> DEFINE r == p \o q
<1>1. /\ IsSeq(r) /\ Len(p) \in Nat /\ Len(q) \in Nat /\ Len(r) = Len(p) + Len(q)
      /\ \A n \in 1 .. Len(p) : r[n] = p[n]
      /\ \A n \in 1 .. Len(q) : r[Len(p) + n] = q[n]
  BY ConcatIs DEF Todo
<1> HIDE DEF r
<1>2. ASSUME NEW n \in 1 .. Len(r)
      PROVE  Proper(r[n]) /\ (r[n][1] = "program" => last /\ n = Len(r))
  <2>1. CASE n <= Len(p)
    <3>1. n \in 1 .. Len(p)
      BY <1>1, <2>1
    <3>. QED
      BY <1>1, <3>1 DEF Todo
  <2>2. CASE n > Len(p)
    <3>1. n - Len(p) \in 1 .. Len(q) /\ Len(p) + (n - Len(p)) = n
      BY <1>1, <2>2
    <3>2. r[n] = q[n - Len(p)] /\ (n - Len(p) = Len(q) => n = Len(r))
      BY <1>1, <3>1
    <3>. QED
      BY <3>1, <3>2 DEF Todo
  <2>. QED
    BY <1>1, <2>1, <2>2
<1>3. Todo(r, last)
  BY <1>1, <1>2 DEF Todo
<1>. QED
  BY <1>3 DEF r

LEMMA TodoFirst ==
  ASSUME NEW g, NEW q, NEW last, Plain(g), Todo(q, last)
  PROVE  Todo(<<g>> \o q, last)
BY TodoOne, TodoOn

LEMMA TodoTwo ==
  ASSUME NEW f, NEW g, NEW last, Plain(f), Plain(g)
  PROVE  Todo(<<f, g>>, last)
<1>1. Todo(<<f>> \o <<g>>, last)
  BY TodoOne, TodoOn
<1>. QED
  BY <1>1, TwoOf

LEMMA TodoThree ==
  ASSUME NEW f, NEW g, NEW h, NEW last, Plain(f), Plain(g), Plain(h)
  PROVE  Todo(<<f, g, h>>, last)
<1>1. Todo(<<f, g>> \o <<h>>, last)
  BY TodoOne, TodoTwo, TodoOn
<1>. QED
  BY <1>1, ThreeOf

LEMMA TodoProgram ==
  ASSUME NEW f, NEW g, Plain(f), Plain(g)
  PROVE  Todo(<<f, g, Call("program")>>, TRUE)
<1>1. Todo(<<Call("program")>>, TRUE)
  BY OneIsSeq DEF Todo, Call, Proper
<1>2. Todo(<<f, g>> \o <<Call("program")>>, TRUE)
  BY <1>1, TodoTwo, TodoOn
<1>. QED
  BY <1>2, ThreeOf

LEMMA TodoCondition == Todo(Condition, FALSE)
<1>1. Plain(Expect("LPAREN")) /\ Plain(Expect("RPAREN")) /\ Plain(Expression)
  BY PlainCalls, PlainExpect DEF Words
<1>. QED
  BY <1>1, TodoThree DEF Condition

LEMMA TodoOperand ==
  ASSUME NEW k \in 1 .. 7
  PROVE  Todo(Operand(k), FALSE)
<1> DEFINE q == Operand(k)
<1>1. /\ IsSeq(q) /\ Len(q) = 8 - k /\ q[1] = Call("unary")
      /\ \A n \in 2 .. 8 - k : q[n] = Of("operators", 8 - n)
  BY OperandIs
<1> HIDE DEF q
<1>2. ASSUME NEW n \in 1 .. Len(q) PROVE Plain(q[n])
  <2>1. CASE n = 1
    BY <1>1, <2>1, PlainCalls
  <2>2. CASE n # 1
    <3>1. n \in 2 .. 8 - k /\ 8 - n \in 1 .. 6
      BY <1>1, <2>2
    <3>. QED
      BY <1>1, <3>1, PlainCalls
  <2>. QED
    BY <2>1, <2>2
<1>3. Todo(q, FALSE)
  BY <1>1, <1>2 DEF Todo, Plain
<1>. QED
  BY <1>3 DEF q

LEMMA StackIs ==
  ASSUME NEW q, IsSeq(q), q # <<>>
  PROVE  /\ IsSeq(Tail(q)) /\ Len(q) \in Nat \ {0} /\ Len(Tail(q)) = Len(q) - 1 /\ Head(q) = q[1]
         /\ \A n \in 1 .. Len(q) - 1 : Tail(q)[n] = q[n + 1]
         /\ q = <<Head(q)>> \o Tail(q)
<1>1. PICK S : q \in Seq(S)
  BY DEF IsSeq
<1>2. /\ Tail(q) \in Seq(S) /\ Len(q) \in Nat \ {0} /\ Len(Tail(q)) = Len(q) - 1 /\ Head(q) = q[1]
      /\ \A n \in 1 .. Len(q) - 1 : Tail(q)[n] = q[n + 1]
  BY <1>1
<1>3. IsSeq(Tail(q))
  BY <1>2 DEF IsSeq
<1> DEFINE r == <<Head(q)>> \o Tail(q)
<1>4. /\ IsSeq(r) /\ Len(r) = Len(q) /\ r[1] = Head(q)
      /\ \A n \in 1 .. Len(q) - 1 : r[n + 1] = Tail(q)[n]
  BY <1>2, <1>3, Pushed
<1> HIDE DEF r
<1>5. ASSUME NEW n \in 1 .. Len(q) PROVE q[n] = r[n]
  <2>1. CASE n = 1
    BY <1>2, <1>4, <2>1
  <2>2. CASE n # 1
    <3>1. n - 1 \in 1 .. Len(q) - 1 /\ (n - 1) + 1 = n
      BY <1>2, <2>2
    <3>. QED
      BY <1>2, <1>4, <3>1
  <2>. QED
    BY <2>1, <2>2
<1>6. q = r
  BY <1>4, <1>5, SameSeq
<1>. QED
  BY <1>2, <1>3, <1>6 DEF r

LEMMA NoElements ==
  ASSUME NEW q, IsSeq(q), Len(q) = 0
  PROVE  q = <<>>
BY DEF IsSeq

LEMMA TodoNext ==
  ASSUME NEW q, q # <<>>, Todo(q, TRUE), NEW p, Todo(p, Head(q)[1] = "program")
  PROVE  Todo(p \o Tail(q), TRUE)
<1>1. /\ IsSeq(q) /\ IsSeq(p) /\ IsSeq(Tail(q)) /\ Len(q) \in Nat \ {0} /\ Len(Tail(q)) = Len(q) - 1
      /\ Head(q) = q[1] /\ \A n \in 1 .. Len(q) - 1 : Tail(q)[n] = q[n + 1]
  BY StackIs DEF Todo
<1>2. Todo(Tail(q), TRUE)
  <2>1. ASSUME NEW n \in 1 .. Len(q) - 1
        PROVE  Proper(Tail(q)[n]) /\ (Tail(q)[n][1] = "program" => n = Len(q) - 1)
    <3>1. n + 1 \in 1 .. Len(q) /\ Tail(q)[n] = q[n + 1]
      BY <1>1
    <3>2. Proper(q[n + 1]) /\ (q[n + 1][1] = "program" => n + 1 = Len(q))
      BY <3>1 DEF Todo
    <3>3. n + 1 = Len(q) => n = Len(q) - 1
      <4>1. Len(q) \in Int /\ n \in Int
        BY <1>1
      <4>. QED
        BY <4>1
    <3>. QED
      BY <3>1, <3>2, <3>3
  <2>. QED
    BY <1>1, <2>1 DEF Todo
<1>3. CASE Head(q)[1] = "program"
  <2>0. 1 \in 1 .. Len(q)
    BY <1>1
  <2>1. q[1][1] = "program" => 1 = Len(q)
    BY <2>0 DEF Todo
  <2>2. Len(Tail(q)) = 0
    BY <1>1, <1>3, <2>1
  <2>3. Tail(q) = <<>>
    BY <1>1, <2>2, NoElements
  <2>4. p \o Tail(q) = p
    BY <1>1, <2>3, ConcatEmpty
  <2>. QED
    BY <1>3, <2>4 DEF Todo
<1>4. CASE Head(q)[1] # "program"
  <2>1. Todo(p, FALSE)
    BY <1>4 DEF Todo
  <2>. QED
    BY <1>2, <2>1, TodoOn
<1>. QED
  BY <1>3, <1>4

-----------------------------------------------------------------------------
(* What a step may do: put other calls on the stack which together do what the  *)
(* first call promised, return, or throw.                                     *)

Follows(todo) ==
  /\ Instead(todo) /\ UNCHANGED <<vocabulary, outcome>> /\ (input' = input \/ NextToken)
  /\ calls # <<>> /\ Todo(todo, Head(calls)[1] = "program")
  /\ \A s \in Streams(vocabulary) : Continues(s, input') =>
       \A m, c, e :
         DoesAll(vocabulary, s, todo, Position', m, built', declarations', c, e)
           => Does(vocabulary, s, Head(calls), Position, m, built, declarations, c, e)
Returns ==
  /\ Due("program") /\ currentToken = END /\ outcome' = "parsed" /\ calls' = <<>>
  /\ UNCHANGED <<vocabulary, input, built, declarations>>
Fails ==
  /\ calls # <<>> /\ calls' = <<>> /\ outcome' \notin {"parsing", "parsed"}
  /\ vocabulary' = vocabulary /\ (input' = input \/ NextToken)
Goes == (\E todo : Follows(todo)) \/ Returns \/ Fails

LEMMA StepKeeps ==
  ASSUME ParserInv, Goes
  PROVE  ParserInv'
<1>1. /\ calls # <<>> /\ IsSeq(calls) /\ outcome = "parsing" /\ vocabulary' = vocabulary
      /\ (input' = input \/ NextToken)
  BY DEF ParserInv, CallsRight, Todo, Goes, Follows, Returns, Fails, Due
<1>2. InputRight /\ InputRight'
  BY <1>1, InputKept DEF ParserInv
<1>3. CASE Fails
  BY <1>2, <1>3, TodoNone DEF Fails, ParserInv, CallsRight, Promised
<1>4. CASE Returns
  <2>1. Position' = Position /\ currentToken' = currentToken
    BY <1>4 DEF Returns, Position, currentToken
  <2>2. CallsRight'
    BY <1>4, <2>1, TodoNone DEF Returns, CallsRight
  <2>3. calls = <<Head(calls)>> \o <<>> /\ Head(calls)[1] = "program"
    <3>1. /\ Head(calls)[1] = "program" /\ Head(calls) = calls[1] /\ Len(calls) \in Nat \ {0}
          /\ calls = <<Head(calls)>> \o Tail(calls) /\ Len(Tail(calls)) = Len(calls) - 1
          /\ IsSeq(Tail(calls))
      BY <1>1, <1>4, StackIs DEF Returns, Due
    <3>0. 1 \in 1 .. Len(calls)
      BY <3>1
    <3>2. calls[1][1] = "program" => 1 = Len(calls)
      BY <3>0 DEF ParserInv, CallsRight, Todo
    <3>4. Len(Tail(calls)) = 0 /\ Len(<<>>) = 0
      BY <3>1, <3>2
    <3>3. Tail(calls) = <<>>
      BY <3>1, <3>4, NoElements
    <3>. QED
      BY <3>1, <3>3
  <2>4. Promised'
    <3>1. SUFFICES ASSUME NEW s \in Streams(vocabulary), Continues(s, input), NEW j, NEW c, NEW e,
                          DoesAll(vocabulary, s, <<>>, Position, j, built, declarations, c, e)
                   PROVE  \E ts : /\ c = <<<<"Program">> \o ts>>
                                  /\ Derived(vocabulary, s, "program", 0, j, ts, e)
      BY <1>4, <2>1 DEF Promised, Returns
    <3>2. Does(vocabulary, s, Head(calls), Position, Position, built, declarations,
               built, declarations)
      <4>1. Does(vocabulary, s, Call("program"), Position, Position, built, declarations,
                 built, declarations)
        BY ProgramEnds
      <4>. QED
        BY <2>3, <4>1 DEF Does, Call
    <3>3. DoesAll(vocabulary, s, <<Head(calls)>> \o <<>>, Position, j, built, declarations, c, e)
      BY <3>1, <3>2, EmptyIsSeq, DoesFirst
    <3>4. DoesAll(vocabulary, s, calls, Position, j, built, declarations, c, e)
      BY <2>3, <3>3
    <3>. QED
      BY <1>1, <3>1, <3>4 DEF ParserInv, Promised
  <2>. QED
    BY <1>2, <2>2, <2>4 DEF ParserInv
<1>5. CASE \E todo : Follows(todo)
  <2>1. PICK todo : Follows(todo)
    BY <1>5
  <2>2. calls' = todo \o Tail(calls) /\ outcome' = "parsing"
    BY <1>1, <2>1 DEF Follows, Instead
  <2>3. Todo(calls', TRUE)
    BY <1>1, <2>1, <2>2, TodoNext DEF Follows, ParserInv, CallsRight
  <2>4. CallsRight'
    BY <2>2, <2>3 DEF CallsRight
  <2>5. Promised'
    <3>1. SUFFICES ASSUME NEW s \in Streams(vocabulary), Continues(s, input'), NEW j, NEW c, NEW e,
                          DoesAll(vocabulary, s, calls', Position', j, built', declarations', c, e)
                   PROVE  \E ts : /\ c = <<<<"Program">> \o ts>>
                                  /\ Derived(vocabulary, s, "program", 0, j, ts, e)
      BY <1>1 DEF Promised
    <3>2. IsSeq(todo) /\ IsSeq(Tail(calls)) /\ calls = <<Head(calls)>> \o Tail(calls)
      BY <1>1, <2>1, StackIs DEF Follows, Todo
    <3>3. PICK k, x, y :
            /\ DoesAll(vocabulary, s, todo, Position', k, built', declarations', x, y)
            /\ DoesAll(vocabulary, s, Tail(calls), k, j, x, y, c, e)
      BY <2>2, <3>1, <3>2, DoesParts
    <3>4. Does(vocabulary, s, Head(calls), Position, k, built, declarations, x, y)
      BY <2>1, <3>1, <3>3 DEF Follows
    <3>5. DoesAll(vocabulary, s, calls, Position, j, built, declarations, c, e)
      BY <3>2, <3>3, <3>4, DoesFirst
    <3>6. Continues(s, input)
      <4>1. CASE input' = input
        BY <3>1, <4>1
      <4>2. CASE NextToken
        BY <1>1, <1>2, <3>1, <4>2, TokenRead
      <4>. QED
        BY <1>1, <4>1, <4>2
    <3>. QED
      BY <1>1, <3>5, <3>6 DEF ParserInv, Promised
  <2>. QED
    BY <1>2, <2>4, <2>5 DEF ParserInv
<1>. QED
  BY <1>3, <1>4, <1>5 DEF Goes

(* The call that is due promises what its function does.                       *)
Stands(g) ==
  \A v, s, i, j, b, d, c, e :
    Does(v, s, g, i, j, b, d, c, e) => Does(v, s, Head(calls), i, j, b, d, c, e)

LEMMA CallStands ==
  ASSUME NEW f \in {"push_back", "program", "type", "declarations", "declared", "identifier",
                    "assignment", "assign", "unary", "primary", "statement", "block", "else",
                    "arguments"},
         Due(f)
  PROVE  Stands(Call(f)) /\ calls # <<>> /\ Head(calls)[1] = f
<1>1. Call(f)[1] = f /\ calls # <<>> /\ Head(calls)[1] = f
  BY DEF Call, Due
<1>2. f \notin {"expect", "make", "more", "variable", "initializer", "operators", "optional"}
  OBVIOUS
<1> SUFFICES ASSUME NEW v, NEW s, NEW i, NEW j, NEW b, NEW d, NEW c, NEW e,
                    Does(v, s, Call(f), i, j, b, d, c, e)
             PROVE  Does(v, s, Head(calls), i, j, b, d, c, e)
  BY <1>1 DEF Stands
<1>. QED
  BY <1>1, <1>2 DEF Does

LEMMA OfStands ==
  ASSUME NEW f \in {"expect", "more", "variable", "initializer", "operators", "optional"}, Due(f)
  PROVE  Stands(Of(f, Head(calls)[2])) /\ calls # <<>> /\ Head(calls)[1] = f
<1> DEFINE g == Of(f, Head(calls)[2])
<1>1. g[1] = f /\ g[2] = Head(calls)[2] /\ calls # <<>> /\ Head(calls)[1] = f
  BY DEF Of, Due
<1>2. f # "make"
  OBVIOUS
<1> HIDE DEF g
<1>3. ASSUME NEW v, NEW s, NEW i, NEW j, NEW b, NEW d, NEW c, NEW e,
             Does(v, s, g, i, j, b, d, c, e)
      PROVE  Does(v, s, Head(calls), i, j, b, d, c, e)
  BY <1>1, <1>2, <1>3 DEF Does
<1>. QED
  BY <1>1, <1>3 DEF Stands, g

LEMMA CallsGo ==
  ASSUME NEW g, Stands(g), calls # <<>>, NEW todo, Calls(todo), Todo(todo, Head(calls)[1] = "program"),
         \A s \in Streams(vocabulary) : \A m, c, e :
           Continues(s, input)
             /\ DoesAll(vocabulary, s, todo, Position, m, built, declarations, c, e)
               => Does(vocabulary, s, g, Position, m, built, declarations, c, e)
  PROVE  Goes
<1>1. Position' = Position
  BY DEF Calls, Position
<1>2. Follows(todo)
  BY <1>1 DEF Follows, Calls, Stands
<1>. QED
  BY <1>2 DEF Goes

LEMMA PushesGo ==
  ASSUME NEW g, Stands(g), calls # <<>>, NEW node, NEW todo, Pushes(node, todo),
         Todo(todo, Head(calls)[1] = "program"),
         \A s \in Streams(vocabulary) : \A m, c, e :
           Continues(s, input)
             /\ DoesAll(vocabulary, s, todo, Position, m, <<node>> \o built, declarations, c, e)
               => Does(vocabulary, s, g, Position, m, built, declarations, c, e)
  PROVE  Goes
<1>1. Position' = Position /\ built' = <<node>> \o built
  BY DEF Pushes, Position
<1>2. \A s \in Streams(vocabulary) : Continues(s, input') =>
        \A m, c, e :
          DoesAll(vocabulary, s, todo, Position', m, built', declarations', c, e)
            => Does(vocabulary, s, Head(calls), Position, m, built, declarations, c, e)
  BY <1>1 DEF Pushes, Stands
<1>3. Follows(todo)
  BY <1>2 DEF Follows, Pushes
<1>. QED
  BY <1>3 DEF Goes

LEMMA ConsumesGo ==
  ASSUME InputRight, NEW g, Stands(g), calls # <<>>, NEW todo, Consumes(todo), currentToken # END,
         Todo(todo, Head(calls)[1] = "program"),
         \A s \in Streams(vocabulary) : \A k, m, c, e :
           Reads(vocabulary, s, Position, k, currentToken) /\ s[k + 1] = peekToken
             /\ DoesAll(vocabulary, s, todo, k, m, built, declarations, c, e)
               => Does(vocabulary, s, g, Position, m, built, declarations, c, e)
  PROVE  Goes
<1>1. ASSUME NEW s \in Streams(vocabulary), Continues(s, input'), NEW m, NEW c, NEW e,
             DoesAll(vocabulary, s, todo, Position', m, built', declarations', c, e)
      PROVE  Does(vocabulary, s, Head(calls), Position, m, built, declarations, c, e)
  <2>1. NextToken /\ vocabulary' = vocabulary /\ built' = built /\ declarations' = declarations
    BY DEF Consumes
  <2>2. /\ Continues(s, input) /\ Position' = Position + 1
        /\ Reads(vocabulary, s, Position, Position', currentToken)
    BY <1>1, <2>1, TokenRead
  <2>3. Position \in Nat /\ s[Position + 2] = peekToken
    BY <2>2, Looking
  <2>4. Position' + 1 = Position + 2
    BY <2>2, <2>3
  <2>5. Does(vocabulary, s, g, Position, m, built, declarations, c, e)
    BY <1>1, <2>1, <2>2, <2>3, <2>4
  <2>. QED
    BY <2>5 DEF Stands
<1>2. Follows(todo)
  BY <1>1 DEF Follows, Consumes
<1>. QED
  BY <1>2 DEF Goes

(* A token that becomes a node of its own.                                    *)
TokenPushes(node) ==
  /\ NextToken /\ built' = <<node>> \o built
  /\ Instead(<<>>) /\ UNCHANGED <<vocabulary, declarations, outcome>>
LEMMA LeafGoes ==
  ASSUME InputRight, NEW g, Stands(g), calls # <<>>, NEW node, TokenPushes(node), currentToken # END,
         \A s \in Streams(vocabulary) : \A k :
           Reads(vocabulary, s, Position, k, currentToken)
             => Does(vocabulary, s, g, Position, k, built, declarations,
                     <<node>> \o built, declarations)
  PROVE  Goes
<1>1. ASSUME NEW s \in Streams(vocabulary), Continues(s, input'), NEW m, NEW c, NEW e,
             DoesAll(vocabulary, s, <<>>, Position', m, built', declarations', c, e)
      PROVE  Does(vocabulary, s, Head(calls), Position, m, built, declarations, c, e)
  <2>0. m = Position' /\ c = built' /\ e = declarations'
    BY <1>1, DoesNothing
  <2>1. m = Position' /\ c = <<node>> \o built /\ e = declarations
    BY <2>0 DEF TokenPushes
  <2>2. Reads(vocabulary, s, Position, m, currentToken)
    BY <1>1, <2>1, TokenRead DEF TokenPushes
  <2>4. Does(vocabulary, s, g, Position, m, built, declarations, <<node>> \o built, declarations)
    BY <2>2
  <2>. QED
    BY <2>1, <2>4 DEF Stands
<1>2. Follows(<<>>)
  BY <1>1, TodoNone DEF Follows, TokenPushes
<1>. QED
  BY <1>2 DEF Goes

LEMMA ThrowsGo ==
  ASSUME calls # <<>>, NEW why, why \notin {"parsing", "parsed"}, Throws(why)
  PROVE  Goes
BY DEF Goes, Fails, Throws

-----------------------------------------------------------------------------
(* The steps.                                                                *)

LEMMA HeadProper ==
  ASSUME CallsRight, calls # <<>>
  PROVE  Proper(Head(calls))
<1>1. Head(calls) = calls[1] /\ Len(calls) \in Nat \ {0}
  BY StackIs DEF CallsRight, Todo
<1>2. 1 \in 1 .. Len(calls)
  BY <1>1
<1>. QED
  BY <1>1, <1>2 DEF CallsRight, Todo

LEMMA ExpectGoes ==
  ASSUME InputRight, CallsRight, ExpectToken
  PROVE  Goes
<1>1. Due("expect")
  BY DEF ExpectToken
<1> DEFINE t == Head(calls)[2]
<1>2. Stands(Of("expect", t)) /\ calls # <<>>
  BY <1>1, OfStands
<1>3. CASE currentToken # t
  BY <1>2, <1>3, ThrowsGo DEF ExpectToken
<1>4. CASE currentToken = t
  <2>0. currentToken # END
    BY <1>1, <1>2, <1>4, HeadProper DEF Proper, Due
  <2>1. Consumes(<<>>)
    BY <1>4 DEF ExpectToken
  <2>2. ASSUME NEW s \in Streams(vocabulary), NEW k, NEW m, NEW c, NEW e,
               Reads(vocabulary, s, Position, k, currentToken),
               DoesAll(vocabulary, s, <<>>, k, m, built, declarations, c, e)
        PROVE  Does(vocabulary, s, Of("expect", t), Position, m, built, declarations, c, e)
    <3>1. k = m /\ c = built /\ e = declarations
      BY <2>2, DoesNothing
    <3>2. ReadsToken(vocabulary, s, t, Position, m, built, declarations, c, e)
      BY <1>4, <2>2, <3>1 DEF ReadsToken
    <3>. QED
      BY <3>2 DEF Does, Of
  <2>. QED
    BY <1>2, <2>0, <2>1, <2>2, TodoNone, ConsumesGo
<1>. QED
  BY <1>3, <1>4

LEMMA WordNotEnd == \A w \in Words : w # END
BY DEF END, Words

LEMMA MakeGoes ==
  ASSUME MakeNode
  PROVE  Goes
<1>1. Due("make") /\ calls # <<>> /\ Head(calls)[1] = "make"
  BY DEF MakeNode, Due
<1>2. ASSUME NEW s \in Streams(vocabulary), NEW m, NEW c, NEW e,
             DoesAll(vocabulary, s, <<>>, Position', m, built', declarations', c, e)
      PROVE  Does(vocabulary, s, Head(calls), Position, m, built, declarations, c, e)
  <2>1. m = Position' /\ c = built' /\ e = declarations'
    BY <1>2, DoesNothing
  <2>2. Position' = Position /\ declarations' = declarations
    BY DEF MakeNode, Position
  <2>3. Makes(Head(calls)[2], Head(calls)[3], Position, m, built, declarations, c, e)
    BY <2>1, <2>2 DEF MakeNode, Makes
  <2>. QED
    BY <1>1, <2>3 DEF Does
<1>3. Follows(<<>>)
  BY <1>1, <1>2, TodoNone DEF Follows, MakeNode
<1>. QED
  BY <1>3 DEF Goes

LEMMA PushBackGoes ==
  ASSUME PushBack
  PROVE  Goes
<1>1. Due("push_back") /\ calls # <<>> /\ Head(calls)[1] = "push_back"
  BY DEF PushBack, Due
<1>2. ASSUME NEW s \in Streams(vocabulary), NEW m, NEW c, NEW e,
             DoesAll(vocabulary, s, <<>>, Position', m, built', declarations', c, e)
      PROVE  Does(vocabulary, s, Head(calls), Position, m, built, declarations, c, e)
  <2>1. m = Position' /\ c = built' /\ e = declarations'
    BY <1>2, DoesNothing
  <2>2. Position' = Position /\ declarations' = declarations
    BY DEF PushBack, Position
  <2>3. PushesBack(Position, m, built, declarations, c, e)
    BY <2>1, <2>2 DEF PushBack, PushesBack
  <2>. QED
    BY <1>1, <2>3 DEF Does
<1>3. Follows(<<>>)
  BY <1>1, <1>2, TodoNone DEF Follows, PushBack
<1>. QED
  BY <1>3 DEF Goes

LEMMA AssignmentGoes ==
  ASSUME InputRight, ParseAssignment
  PROVE  Goes
<1>0. vocabulary \in Vocabularies
  BY DEF InputRight
<1>1. CASE Due("assignment") /\ Calls(Operand(1) \o <<Call("assign")>>)
  <2>1. Stands(Expression) /\ calls # <<>>
    BY <1>1, CallStands DEF Expression
  <2>2. Todo(Operand(1) \o <<Call("assign")>>, Head(calls)[1] = "program")
    <3>0. 1 \in 1 .. 7
      OBVIOUS
    <3>1. Todo(Operand(1), FALSE)
      BY <3>0, TodoOperand
    <3>2. Plain(Call("assign"))
      BY PlainCalls
    <3>. QED
      BY <3>1, <3>2, TodoOne, TodoOn
  <2>. QED
    BY <1>1, <2>1, <2>2, AssignmentDoes, CallsGo
<1>2. CASE Due("assign") /\ ~(Due("assignment") /\ Calls(Operand(1) \o <<Call("assign")>>))
  <2>1. Stands(Call("assign")) /\ calls # <<>>
    BY <1>2, CallStands
  <2>2. CASE currentToken # "ASSIGN"
    <3>1. Calls(<<>>)
      BY <1>2, <2>2 DEF ParseAssignment
    <3>2. \A s, m, c, e : DoesAll(vocabulary, s, <<>>, Position, m, built, declarations, c, e)
            => Does(vocabulary, s, Call("assign"), Position, m, built, declarations, c, e)
      BY DoesNothing, NotAssigned
    <3>. QED
      BY <2>1, <3>1, <3>2, TodoNone, CallsGo
  <2>3. CASE currentToken = "ASSIGN" /\ Head(built)[1] \notin Names
    BY <1>2, <2>1, <2>3, ThrowsGo DEF ParseAssignment
  <2>4. CASE currentToken = "ASSIGN" /\ Head(built)[1] \in Names
    <3>1. Consumes(<<Expression, Assignment>>) /\ currentToken # END
      BY <1>2, <2>4 DEF ParseAssignment, END
    <3>2. Todo(<<Expression, Assignment>>, Head(calls)[1] = "program")
      BY PlainCalls, TodoTwo DEF Assignment
    <3>3. \A s \in Streams(vocabulary) : \A k, m, c, e :
            Reads(vocabulary, s, Position, k, currentToken)
              /\ DoesAll(vocabulary, s, <<Expression, Assignment>>, k, m, built, declarations, c, e)
                => Does(vocabulary, s, Call("assign"), Position, m, built, declarations, c, e)
      BY <1>0, <2>4, Assigned
    <3>. QED
      BY <2>1, <3>1, <3>2, <3>3, ConsumesGo
  <2>. QED
    BY <2>2, <2>3, <2>4
<1>. QED
  BY <1>1, <1>2 DEF ParseAssignment

LEMMA BinaryGoes ==
  ASSUME InputRight, CallsRight, ParseBinary
  PROVE  Goes
<1> DEFINE k == Head(calls)[2]
<1>0. vocabulary \in Vocabularies /\ Due("operators")
  BY DEF InputRight, ParseBinary
<1>1. Stands(Of("operators", k)) /\ calls # <<>> /\ Head(calls)[1] = "operators"
  BY <1>0, OfStands
<1>2. k \in 1 .. 6
  BY <1>1, HeadProper DEF Proper
<1>3. CASE currentToken \notin Levels[k]
  <2>1. Calls(<<>>)
    BY <1>3 DEF ParseBinary
  <2> HIDE DEF k
  <2>2. \A s, m, c, e : DoesAll(vocabulary, s, <<>>, Position, m, built, declarations, c, e)
          => Does(vocabulary, s, Of("operators", k), Position, m, built, declarations, c, e)
    BY DoesNothing, NoOperator
  <2>. QED
    BY <1>1, <2>1, <2>2, TodoNone, CallsGo
<1>4. CASE currentToken \in Levels[k]
  <2> DEFINE todo == Operand(k + 1) \o <<BinaryOp(currentToken), Of("operators", k)>>
  <2>1. Consumes(todo)
    BY <1>4 DEF ParseBinary
  <2>2. currentToken # END
    BY <1>2, <1>4, LevelWords, WordNotEnd
  <2>3. Todo(todo, Head(calls)[1] = "program")
    <3> HIDE DEF k
    <3>1. k + 1 \in 1 .. 7
      BY <1>2
    <3>2. Todo(Operand(k + 1), FALSE)
      BY <3>1, TodoOperand
    <3>3. Plain(BinaryOp(currentToken)) /\ Plain(Of("operators", k))
      BY <1>2, PlainCalls DEF BinaryOp
    <3>. QED
      BY <3>2, <3>3, TodoTwo, TodoOn
  <2>4. ASSUME NEW s \in Streams(vocabulary), NEW i, NEW m, NEW c, NEW e,
               Reads(vocabulary, s, Position, i, currentToken),
               DoesAll(vocabulary, s, todo, i, m, built, declarations, c, e)
        PROVE  Does(vocabulary, s, Of("operators", k), Position, m, built, declarations, c, e)
    <3> HIDE DEF k
    <3>. QED
      BY <1>0, <1>4, <2>4, OperatorDoes
  <2> HIDE DEF todo, k
  <2>. QED
    BY <1>1, <2>1, <2>2, <2>3, <2>4, ConsumesGo
<1>. QED
  BY <1>3, <1>4

LEMMA UnaryGoes ==
  ASSUME InputRight, ParseUnary
  PROVE  Goes
<1>1. vocabulary \in Vocabularies /\ Stands(Call("unary")) /\ calls # <<>>
  BY CallStands DEF InputRight, ParseUnary
<1>2. CASE currentToken \in Unary
  <2> DEFINE todo == <<Call("unary"), UnaryOp(currentToken)>>
  <2>1. Consumes(todo) /\ currentToken # END
    BY <1>2 DEF ParseUnary, Unary, END
  <2>2. Todo(todo, Head(calls)[1] = "program")
    BY PlainCalls, TodoTwo DEF UnaryOp
  <2>3. \A s \in Streams(vocabulary) : \A k, m, c, e :
          Reads(vocabulary, s, Position, k, currentToken)
            /\ DoesAll(vocabulary, s, todo, k, m, built, declarations, c, e)
              => Does(vocabulary, s, Call("unary"), Position, m, built, declarations, c, e)
    BY <1>1, <1>2, SignDoes
  <2> HIDE DEF todo
  <2>. QED
    BY <1>1, <2>1, <2>2, <2>3, ConsumesGo
<1>3. CASE currentToken \notin Unary
  <2>1. Calls(<<Call("primary")>>)
    BY <1>3 DEF ParseUnary
  <2>2. Todo(<<Call("primary")>>, Head(calls)[1] = "program")
    BY PlainCalls, TodoOne
  <2>. QED
    BY <1>1, <2>1, <2>2, PrimaryDoes, CallsGo
<1>. QED
  BY <1>2, <1>3

LEMMA PrimaryGoes ==
  ASSUME InputRight, ParsePrimary
  PROVE  Goes
<1>1. vocabulary \in Vocabularies /\ Stands(Call("primary")) /\ calls # <<>>
  BY CallStands DEF InputRight, ParsePrimary
<1>2. CASE currentToken \in Literals \cup Names /\ TokenPushes(<<currentToken>>)
  <2>1. currentToken # END
    BY <1>2 DEF Literals, Names, END
  <2>2. \A s \in Streams(vocabulary) : \A k :
          Reads(vocabulary, s, Position, k, currentToken)
            => Does(vocabulary, s, Call("primary"), Position, k, built, declarations,
                    <<<<currentToken>>>> \o built, declarations)
    BY <1>1, <1>2, LeafDoes
  <2>. QED
    BY <1>1, <1>2, <2>1, <2>2, LeafGoes
<1>3. CASE currentToken = "LPAREN" /\ Consumes(<<Expression, Expect("RPAREN")>>)
  <2>1. currentToken # END
    BY <1>3 DEF END
  <2>2. Todo(<<Expression, Expect("RPAREN")>>, Head(calls)[1] = "program")
    <3>1. Plain(Expect("RPAREN"))
      BY PlainExpect DEF Words
    <3>. QED
      BY <3>1, PlainCalls, TodoTwo
  <2>3. \A s \in Streams(vocabulary) : \A k, m, c, e :
          Reads(vocabulary, s, Position, k, currentToken)
            /\ DoesAll(vocabulary, s, <<Expression, Expect("RPAREN")>>, k, m, built, declarations, c, e)
              => Does(vocabulary, s, Call("primary"), Position, m, built, declarations, c, e)
    BY <1>1, <1>3, ParenthesesDo
  <2>. QED
    BY <1>1, <1>3, <2>1, <2>2, <2>3, ConsumesGo
<1>4. CASE \/ /\ NextToken /\ outcome' = "out_of_range" /\ calls' = <<>> /\ vocabulary' = vocabulary
           \/ Throws("runtime_error")
  BY <1>1, <1>4 DEF Goes, Fails, Throws
<1>. QED
  BY <1>2, <1>3, <1>4 DEF ParsePrimary, TokenPushes

LEMMA TodoLong ==
  ASSUME NEW q, IsSeq(q), \A n \in 1 .. Len(q) : Plain(q[n])
  PROVE  \A last : Todo(q, last)
BY DEF Todo, Plain

LEMMA CompoundGoes ==
  ASSUME InputRight, ParseCompoundStatement
  PROVE  Goes
<1>0. vocabulary \in Vocabularies
  BY DEF InputRight
<1>1. CASE /\ Case("LBRACE")
           /\ Pushes(<<"CompoundStatement">>, <<Expect("LBRACE"), Call("block")>>)
  <2>1. Stands(Statement) /\ calls # <<>>
    BY <1>1, CallStands DEF Case, Statement
  <2>2. Todo(<<Expect("LBRACE"), Call("block")>>, Head(calls)[1] = "program")
    <3>1. Plain(Expect("LBRACE"))
      BY PlainExpect DEF Words
    <3>2. Plain(Call("block"))
      BY PlainCalls
    <3>. QED
      BY <3>1, <3>2, TodoTwo
  <2>. QED
    BY <1>0, <1>1, <2>1, <2>2, CompoundDoes, PushesGo
<1>2. CASE /\ Due("block")
           /\ IF currentToken = "RBRACE" THEN Calls(<<Expect("RBRACE")>>)
              ELSE Calls(<<Statement, Call("push_back"), Call("block")>>)
  <2>1. Stands(Call("block")) /\ calls # <<>>
    BY <1>2, CallStands
  <2>2. Todo(<<Expect("RBRACE")>>, Head(calls)[1] = "program")
    <3>1. Plain(Expect("RBRACE"))
      BY PlainExpect DEF Words
    <3>. QED
      BY <3>1, TodoOne
  <2>3. Todo(<<Statement, Call("push_back"), Call("block")>>, Head(calls)[1] = "program")
    <3>1. Plain(Statement) /\ Plain(Call("push_back")) /\ Plain(Call("block"))
      BY PlainCalls
    <3>. QED
      BY <3>1, TodoThree
  <2>4. CASE Calls(<<Expect("RBRACE")>>)
    BY <1>0, <2>1, <2>2, <2>4, BlockEnds, CallsGo
  <2>5. CASE Calls(<<Statement, Call("push_back"), Call("block")>>)
    BY <1>0, <2>1, <2>3, <2>5, BlockDoes, CallsGo
  <2>. QED
    BY <1>2, <2>4, <2>5
<1>. QED
  BY <1>1, <1>2 DEF ParseCompoundStatement

LEMMA IfGoes ==
  ASSUME InputRight, ParseIfStatement
  PROVE  Goes
<1>0. vocabulary \in Vocabularies
  BY DEF InputRight
<1>1. CASE Case("IF") /\ Calls(<<Expect("IF")>> \o Condition \o <<Statement, Call("else")>>)
  <2>1. Stands(Statement) /\ calls # <<>>
    BY <1>1, CallStands DEF Case, Statement
  <2>2. Todo(<<Expect("IF")>> \o Condition \o <<Statement, Call("else")>>,
             Head(calls)[1] = "program")
    <3>1. Plain(Expect("IF"))
      BY PlainExpect DEF Words
    <3>2. Plain(Statement) /\ Plain(Call("else"))
      BY PlainCalls
    <3>3. Todo(<<Expect("IF")>> \o Condition, FALSE)
      BY <3>1, TodoFirst, TodoCondition
    <3>. QED
      BY <3>2, <3>3, TodoTwo, TodoOn
  <2>. QED
    BY <1>0, <1>1, <2>1, <2>2, IfDoes, CallsGo
<1>2. CASE Due("else") /\ currentToken = "ELSE" /\ Consumes(<<Statement, IfStatement(3)>>)
  <2>1. Stands(Call("else")) /\ calls # <<>> /\ currentToken # END
    BY <1>2, CallStands DEF END
  <2>2. Todo(<<Statement, IfStatement(3)>>, Head(calls)[1] = "program")
    BY PlainCalls, TodoTwo DEF IfStatement
  <2>3. \A s \in Streams(vocabulary) : \A k, m, c, e :
          Reads(vocabulary, s, Position, k, currentToken)
            /\ DoesAll(vocabulary, s, <<Statement, IfStatement(3)>>, k, m, built, declarations, c, e)
              => Does(vocabulary, s, Call("else"), Position, m, built, declarations, c, e)
    BY <1>0, <1>2, ElseDoes
  <2>. QED
    BY <1>2, <2>1, <2>2, <2>3, ConsumesGo
<1>3. CASE Due("else") /\ currentToken # "ELSE" /\ Calls(<<IfStatement(2)>>)
  <2>1. Stands(Call("else")) /\ calls # <<>>
    BY <1>3, CallStands
  <2>2. Todo(<<IfStatement(2)>>, Head(calls)[1] = "program")
    BY PlainCalls, TodoOne DEF IfStatement
  <2>3. \A s \in Streams(vocabulary) : \A m, c, e :
          Continues(s, input)
            /\ DoesAll(vocabulary, s, <<IfStatement(2)>>, Position, m, built, declarations, c, e)
              => Does(vocabulary, s, Call("else"), Position, m, built, declarations, c, e)
    BY <1>0, <1>3, Looking, NoElse
  <2>. QED
    BY <1>3, <2>1, <2>2, <2>3, CallsGo
<1>. QED
  BY <1>1, <1>2, <1>3 DEF ParseIfStatement

LEMMA LoopGoes ==
  ASSUME InputRight, ParseWhileStatement \/ ParseDoWhileStatement
  PROVE  Goes
<1>0. vocabulary \in Vocabularies /\ Stands(Statement) /\ calls # <<>>
  BY CallStands DEF InputRight, ParseWhileStatement, ParseDoWhileStatement, Case, Statement
<1>1. CASE ParseWhileStatement
  <2>1. Calls(<<Expect("WHILE")>> \o Condition \o <<Statement, WhileStatement>>)
    BY <1>1 DEF ParseWhileStatement
  <2>2. Todo(<<Expect("WHILE")>> \o Condition \o <<Statement, WhileStatement>>,
             Head(calls)[1] = "program")
    <3>1. Plain(Expect("WHILE"))
      BY PlainExpect DEF Words
    <3>2. Plain(Statement) /\ Plain(WhileStatement)
      BY PlainCalls DEF WhileStatement
    <3>3. Todo(<<Expect("WHILE")>> \o Condition, FALSE)
      BY <3>1, TodoFirst, TodoCondition
    <3>. QED
      BY <3>2, <3>3, TodoTwo, TodoOn
  <2>. QED
    BY <1>0, <2>1, <2>2, WhileDoes, CallsGo
<1>2. CASE ParseDoWhileStatement
  <2> DEFINE todo == <<Expect("DO"), Statement, Expect("WHILE")>> \o Condition
                       \o <<Expect("SEMICOLON"), DoWhileStatement>>
  <2>1. Calls(todo)
    BY <1>2 DEF ParseDoWhileStatement
  <2>2. Todo(todo, Head(calls)[1] = "program")
    <3>1. Plain(Expect("DO")) /\ Plain(Expect("WHILE")) /\ Plain(Expect("SEMICOLON"))
      BY PlainExpect DEF Words
    <3>2. Plain(Statement) /\ Plain(DoWhileStatement)
      BY PlainCalls DEF DoWhileStatement
    <3>3. Todo(<<Expect("DO"), Statement, Expect("WHILE")>>, FALSE)
      BY <3>1, <3>2, TodoThree
    <3>4. Todo(<<Expect("DO"), Statement, Expect("WHILE")>> \o Condition, FALSE)
      BY <3>3, TodoOn, TodoCondition
    <3>5. Todo(<<Expect("SEMICOLON"), DoWhileStatement>>, Head(calls)[1] = "program")
      BY <3>1, <3>2, TodoTwo
    <3>. QED
      BY <3>4, <3>5, TodoOn
  <2>3. \A s \in Streams(vocabulary) : \A m, c, e :
          DoesAll(vocabulary, s, todo, Position, m, built, declarations, c, e)
            => Does(vocabulary, s, Statement, Position, m, built, declarations, c, e)
    BY <1>0, DoWhileDoes
  <2> HIDE DEF todo
  <2>. QED
    BY <1>0, <2>1, <2>2, <2>3, CallsGo
<1>. QED
  BY <1>1, <1>2

LEMMA ForGoes ==
  ASSUME InputRight, ParseForStatement
  PROVE  Goes
<1>0. vocabulary \in Vocabularies
  BY DEF InputRight
<1> DEFINE todo == <<Expect("FOR"), Expect("LPAREN"),
                     Optional("SEMICOLON"), Expect("SEMICOLON"),
                     Optional("SEMICOLON"), Expect("SEMICOLON"),
                     Optional("RPAREN"), Expect("RPAREN"), Statement, ForStatement>>
<1>1. CASE Case("FOR") /\ Calls(todo)
  <2>1. Stands(Statement) /\ calls # <<>>
    BY <1>1, CallStands DEF Case, Statement
  <2>2. Todo(todo, Head(calls)[1] = "program")
    <3>1. /\ Plain(Expect("FOR")) /\ Plain(Expect("LPAREN")) /\ Plain(Expect("SEMICOLON"))
          /\ Plain(Expect("RPAREN"))
      BY PlainExpect DEF Words
    <3>2. /\ Plain(Statement) /\ Plain(ForStatement) /\ Plain(Optional("SEMICOLON"))
          /\ Plain(Optional("RPAREN"))
      BY PlainCalls DEF ForStatement, Optional
    <3>3. /\ Len(todo) = 10 /\ todo[1] = Expect("FOR") /\ todo[2] = Expect("LPAREN")
          /\ todo[3] = Optional("SEMICOLON") /\ todo[4] = Expect("SEMICOLON")
          /\ todo[5] = Optional("SEMICOLON") /\ todo[6] = Expect("SEMICOLON")
          /\ todo[7] = Optional("RPAREN") /\ todo[8] = Expect("RPAREN") /\ todo[9] = Statement
          /\ todo[10] = ForStatement
      OBVIOUS
    <3>4. todo \in Seq({Expect("FOR"), Expect("LPAREN"), Optional("SEMICOLON"), Expect("SEMICOLON"),
                        Optional("RPAREN"), Expect("RPAREN"), Statement, ForStatement})
      OBVIOUS
    <3> HIDE DEF todo
    <3>5. \A n \in 1 .. Len(todo) : Plain(todo[n])
      <4>1. \A n \in 1 .. 10 : n = 1 \/ n = 2 \/ n = 3 \/ n = 4 \/ n = 5 \/ n = 6 \/ n = 7
                               \/ n = 8 \/ n = 9 \/ n = 10
        OBVIOUS
      <4>. QED
        BY <3>1, <3>2, <3>3, <4>1
    <3>6. IsSeq(todo)
      BY <3>4 DEF IsSeq
    <3>. QED
      BY <3>5, <3>6, TodoLong
  <2>3. \A s \in Streams(vocabulary) : \A m, c, e :
          DoesAll(vocabulary, s, todo, Position, m, built, declarations, c, e)
            => Does(vocabulary, s, Statement, Position, m, built, declarations, c, e)
    BY <1>0, ForDoes
  <2> HIDE DEF todo
  <2>. QED
    BY <1>1, <2>1, <2>2, <2>3, CallsGo
<1>2. CASE Due("optional") /\ currentToken = Head(calls)[2] /\ Pushes(<<"nullptr">>, <<>>)
  <2> DEFINE end == Head(calls)[2]
  <2>1. Stands(Optional(end)) /\ calls # <<>>
    BY <1>2, OfStands DEF Optional
  <2> HIDE DEF end
  <2> DEFINE start == <<<<"nullptr">>>> \o built
  <2>2. ASSUME NEW s \in Streams(vocabulary), Continues(s, input), NEW m, NEW c, NEW e,
               DoesAll(vocabulary, s, <<>>, Position, m, start, declarations, c, e)
        PROVE  Does(vocabulary, s, Optional(end), Position, m, built, declarations, c, e)
    <3>1. m = Position /\ c = start /\ e = declarations
      <4> HIDE DEF start
      <4>. QED
        BY <2>2, DoesNothing
    <3>2. Position \in Nat
      BY <2>2, Looking
    <3>3. Does(vocabulary, s, Optional(end), Position, Position, built, declarations,
               start, declarations)
      BY <1>0, <3>2, NoExpression
    <3>. QED
      BY <3>1, <3>3
  <2>. QED
    BY <1>2, <2>1, <2>2, TodoNone, PushesGo
<1>3. CASE Due("optional") /\ Calls(<<Expression>>)
  <2> DEFINE end == Head(calls)[2]
  <2>1. Stands(Optional(end)) /\ calls # <<>>
    BY <1>3, OfStands DEF Optional
  <2> HIDE DEF end
  <2>2. Todo(<<Expression>>, Head(calls)[1] = "program")
    BY PlainCalls, TodoOne
  <2>. QED
    BY <1>3, <2>1, <2>2, OptionalDoes, CallsGo
<1>. QED
  BY <1>1, <1>2, <1>3 DEF ParseForStatement

LEMMA ReadGoes ==
  ASSUME InputRight, ParseReadStatement
  PROVE  Goes
<1>0. vocabulary \in Vocabularies /\ Stands(Statement) /\ calls # <<>>
  BY CallStands DEF InputRight, ParseReadStatement, Case, Statement
<1> DEFINE todo == <<Expect("READ"), Expect("LPAREN"), Call("identifier"), Expect("RPAREN"),
                     Expect("SEMICOLON"), ReadStatement>>
<1>1. Calls(todo)
  BY DEF ParseReadStatement
<1>2. Todo(todo, Head(calls)[1] = "program")
  <2>1. /\ Plain(Expect("READ")) /\ Plain(Expect("LPAREN")) /\ Plain(Expect("SEMICOLON"))
        /\ Plain(Expect("RPAREN"))
    BY PlainExpect DEF Words
  <2>2. Plain(Call("identifier")) /\ Plain(ReadStatement)
    BY PlainCalls DEF ReadStatement
  <2>3. /\ Len(todo) = 6 /\ todo[1] = Expect("READ") /\ todo[2] = Expect("LPAREN")
        /\ todo[3] = Call("identifier") /\ todo[4] = Expect("RPAREN")
        /\ todo[5] = Expect("SEMICOLON") /\ todo[6] = ReadStatement
    OBVIOUS
  <2>4. todo \in Seq({Expect("READ"), Expect("LPAREN"), Call("identifier"), Expect("RPAREN"),
                      Expect("SEMICOLON"), ReadStatement})
    OBVIOUS
  <2> HIDE DEF todo
  <2>5. \A n \in 1 .. Len(todo) : Plain(todo[n])
    <3>1. \A n \in 1 .. 6 : n = 1 \/ n = 2 \/ n = 3 \/ n = 4 \/ n = 5 \/ n = 6
      OBVIOUS
    <3>. QED
      BY <2>1, <2>2, <2>3, <3>1
  <2>6. IsSeq(todo)
    BY <2>4 DEF IsSeq
  <2>. QED
    BY <2>5, <2>6, TodoLong
<1>3. \A s \in Streams(vocabulary) : \A m, c, e :
        DoesAll(vocabulary, s, todo, Position, m, built, declarations, c, e)
          => Does(vocabulary, s, Statement, Position, m, built, declarations, c, e)
  BY <1>0, ReadDoes
<1> HIDE DEF todo
<1>. QED
  BY <1>0, <1>1, <1>2, <1>3, CallsGo

LEMMA WriteGoes ==
  ASSUME InputRight, ParseWriteStatement
  PROVE  Goes
<1>0. vocabulary \in Vocabularies /\ Stands(Statement) /\ calls # <<>>
  BY CallStands DEF InputRight, ParseWriteStatement, Case, Statement
<1> DEFINE todo == <<Expect("WRITE"), Expect("LPAREN"), Call("arguments"), Expect("RPAREN"),
                     Expect("SEMICOLON")>>
<1>1. Pushes(<<"WriteStatement">>, todo)
  BY DEF ParseWriteStatement
<1>2. Todo(todo, Head(calls)[1] = "program")
  <2>1. /\ Plain(Expect("WRITE")) /\ Plain(Expect("LPAREN")) /\ Plain(Expect("SEMICOLON"))
        /\ Plain(Expect("RPAREN"))
    BY PlainExpect DEF Words
  <2>2. Plain(Call("arguments"))
    BY PlainCalls
  <2>3. /\ Len(todo) = 5 /\ todo[1] = Expect("WRITE") /\ todo[2] = Expect("LPAREN")
        /\ todo[3] = Call("arguments") /\ todo[4] = Expect("RPAREN") /\ todo[5] = Expect("SEMICOLON")
    OBVIOUS
  <2>4. todo \in Seq({Expect("WRITE"), Expect("LPAREN"), Call("arguments"), Expect("RPAREN"),
                      Expect("SEMICOLON")})
    OBVIOUS
  <2> HIDE DEF todo
  <2>5. \A n \in 1 .. Len(todo) : Plain(todo[n])
    <3>1. \A n \in 1 .. 5 : n = 1 \/ n = 2 \/ n = 3 \/ n = 4 \/ n = 5
      OBVIOUS
    <3>. QED
      BY <2>1, <2>2, <2>3, <3>1
  <2>6. IsSeq(todo)
    BY <2>4 DEF IsSeq
  <2>. QED
    BY <2>5, <2>6, TodoLong
<1> DEFINE node == <<"WriteStatement">>
<1>3. ASSUME NEW s \in Streams(vocabulary), NEW m, NEW c, NEW e,
             DoesAll(vocabulary, s, todo, Position, m, <<node>> \o built, declarations, c, e)
      PROVE  Does(vocabulary, s, Statement, Position, m, built, declarations, c, e)
  BY <1>0, <1>3, WriteDoes
<1> HIDE DEF todo, node
<1>4. Pushes(node, todo)
  BY <1>1 DEF node
<1>. QED
  BY <1>0, <1>2, <1>3, <1>4, PushesGo

LEMMA ArgumentsGo ==
  ASSUME InputRight, ParseExpressionList
  PROVE  Goes
<1>0. vocabulary \in Vocabularies /\ Stands(Call("arguments")) /\ calls # <<>>
  BY CallStands DEF InputRight, ParseExpressionList
<1>1. CASE currentToken = "RPAREN"
  <2>1. Calls(<<>>)
    BY <1>1 DEF ParseExpressionList
  <2>2. \A s, m, c, e : DoesAll(vocabulary, s, <<>>, Position, m, built, declarations, c, e)
          => Does(vocabulary, s, Call("arguments"), Position, m, built, declarations, c, e)
    BY DoesNothing, NoArguments
  <2>. QED
    BY <1>0, <2>1, <2>2, TodoNone, CallsGo
<1>2. CASE currentToken # "RPAREN"
  <2> DEFINE todo == <<Expression, Call("push_back"), Of("more", Expression)>>
  <2>1. Calls(todo)
    BY <1>2 DEF ParseExpressionList
  <2>2. Todo(todo, Head(calls)[1] = "program")
    <3>1. Plain(Expression) /\ Plain(Call("push_back")) /\ Plain(Of("more", Expression))
      BY PlainCalls
    <3>. QED
      BY <3>1, TodoThree
  <2>3. \A s \in Streams(vocabulary) : \A m, c, e :
          DoesAll(vocabulary, s, todo, Position, m, built, declarations, c, e)
            => Does(vocabulary, s, Call("arguments"), Position, m, built, declarations, c, e)
    BY <1>0, ArgumentsDo
  <2> HIDE DEF todo
  <2>. QED
    BY <1>0, <2>1, <2>2, <2>3, CallsGo
<1>. QED
  BY <1>1, <1>2

LEMMA LabelGoes ==
  ASSUME InputRight, ParseLabeledStatement
  PROVE  Goes
<1>0. vocabulary \in Vocabularies /\ Stands(Statement) /\ calls # <<>>
  BY CallStands DEF InputRight, ParseLabeledStatement, Case, Statement
<1> DEFINE todo == <<Expect("IDENTIFIER"), Expect("COLON"), Statement>>
<1>1. Calls(todo)
  BY DEF ParseLabeledStatement
<1>2. Todo(todo, Head(calls)[1] = "program")
  <2>1. Plain(Expect("IDENTIFIER")) /\ Plain(Expect("COLON"))
    BY PlainCalls DEF END
  <2>2. Plain(Statement)
    BY PlainCalls
  <2>. QED
    BY <2>1, <2>2, TodoThree
<1>3. \A s \in Streams(vocabulary) : \A m, c, e :
        DoesAll(vocabulary, s, todo, Position, m, built, declarations, c, e)
          => Does(vocabulary, s, Statement, Position, m, built, declarations, c, e)
  BY <1>0, LabelDoes
<1> HIDE DEF todo
<1>. QED
  BY <1>0, <1>1, <1>2, <1>3, CallsGo

LEMMA ExpressionStatementGoes ==
  ASSUME InputRight, ParseExpressionStatement
  PROVE  Goes
<1>0. vocabulary \in Vocabularies /\ Stands(Statement) /\ calls # <<>>
  BY CallStands DEF InputRight, ParseExpressionStatement, Statement
<1> DEFINE todo == <<Expression, Expect("SEMICOLON"), ExpressionStatement>>
<1>1. Calls(todo)
  BY DEF ParseExpressionStatement
<1>2. Todo(todo, Head(calls)[1] = "program")
  <2>1. Plain(Expect("SEMICOLON"))
    BY PlainExpect DEF Words
  <2>2. Plain(Expression) /\ Plain(ExpressionStatement)
    BY PlainCalls DEF ExpressionStatement
  <2>. QED
    BY <2>1, <2>2, TodoThree
<1>3. \A s \in Streams(vocabulary) : \A m, c, e :
        DoesAll(vocabulary, s, todo, Position, m, built, declarations, c, e)
          => Does(vocabulary, s, Statement, Position, m, built, declarations, c, e)
  BY <1>0, ExpressionStatementDoes
<1> HIDE DEF todo
<1>. QED
  BY <1>0, <1>1, <1>2, <1>3, CallsGo

LEMMA ProgramGoes ==
  ASSUME InputRight, ParseProgram
  PROVE  Goes
<1>0. /\ vocabulary \in Vocabularies /\ Stands(Call("program")) /\ calls # <<>>
      /\ Head(calls)[1] = "program" /\ Due("program")
  BY CallStands DEF InputRight, ParseProgram
<1>1. CASE /\ currentToken \in Types
           /\ Pushes(<<>>, <<Call("type"), Call("declarations"), Call("program")>>)
  <2> DEFINE todo == <<Call("type"), Call("declarations"), Call("program")>>
             node == <<>>
  <2>1. Todo(todo, TRUE)
    <3>1. Plain(Call("type")) /\ Plain(Call("declarations"))
      BY PlainCalls
    <3>. QED
      BY <3>1, TodoProgram
  <2>2. ASSUME NEW s \in Streams(vocabulary), Continues(s, input), NEW m, NEW c, NEW e,
               DoesAll(vocabulary, s, todo, Position, m, <<node>> \o built, declarations, c, e)
        PROVE  Does(vocabulary, s, Call("program"), Position, m, built, declarations, c, e)
    <3>1. s[Position + 1] \in Types
      BY <1>1, <2>2, Looking
    <3>. QED
      BY <1>0, <2>2, <3>1, ProgramDeclares
  <2>3. Pushes(node, todo) /\ Todo(todo, Head(calls)[1] = "program")
    BY <1>0, <1>1, <2>1
  <2> HIDE DEF todo, node
  <2>. QED
    BY <1>0, <2>2, <2>3, PushesGo
<1>2. CASE Calls(<<Statement, Call("push_back"), Call("program")>>)
  <2> DEFINE todo == <<Statement, Call("push_back"), Call("program")>>
  <2>1. Todo(todo, TRUE)
    <3>1. Plain(Statement) /\ Plain(Call("push_back"))
      BY PlainCalls
    <3>. QED
      BY <3>1, TodoProgram
  <2>2. Todo(todo, Head(calls)[1] = "program")
    BY <1>0, <2>1
  <2>4. Calls(todo)
    BY <1>2
  <2>3. \A s \in Streams(vocabulary) : \A m, c, e :
          DoesAll(vocabulary, s, todo, Position, m, built, declarations, c, e)
            => Does(vocabulary, s, Call("program"), Position, m, built, declarations, c, e)
    BY <1>0, ProgramGoesOn
  <2> HIDE DEF todo
  <2>. QED
    BY <1>0, <2>2, <2>3, <2>4, CallsGo
<1>3. CASE /\ currentToken = END /\ outcome' = "parsed" /\ calls' = <<>>
           /\ UNCHANGED <<vocabulary, input, built, declarations>>
  BY <1>0, <1>3 DEF Goes, Returns
<1>. QED
  BY <1>1, <1>2, <1>3 DEF ParseProgram

(* parseType() is called where a type is the next token.                      *)
LEMMA TypeGoes ==
  ASSUME InputRight, ParseType
  PROVE  Goes
<1>0. /\ vocabulary \in Vocabularies /\ Stands(Call("type")) /\ calls # <<>>
  BY CallStands DEF InputRight, ParseType
<1> DEFINE type     == currentToken
           variable == Of("variable", type)
           todo     == <<variable, Call("push_back"), Of("more", variable)>>
<1>1. Consumes(todo)
  BY DEF ParseType
<1>2. Todo(todo, Head(calls)[1] = "program")
  <2>1. Plain(variable) /\ Plain(Call("push_back")) /\ Plain(Of("more", variable))
    BY PlainCalls
  <2>. QED
    BY <2>1, TodoThree
<1>3. CASE type \in Types
  <2>1. type # END
    BY <1>3 DEF Types, END
  <2>2. \A s \in Streams(vocabulary) : \A k, m, c, e :
          Reads(vocabulary, s, Position, k, type)
            /\ DoesAll(vocabulary, s, todo, k, m, built, declarations, c, e)
              => Does(vocabulary, s, Call("type"), Position, m, built, declarations, c, e)
    BY <1>0, <1>3, TypeDoes
  <2>3. currentToken = type
    OBVIOUS
  <2> HIDE DEF todo, type
  <2>. QED
    BY <1>0, <1>1, <1>2, <2>1, <2>2, <2>3, ConsumesGo
<1>4. CASE type \notin Types
  <2>1. NextToken /\ vocabulary' = vocabulary
    BY <1>1 DEF Consumes
  <2>2. ASSUME NEW s \in Streams(vocabulary), Continues(s, input')
        PROVE  s[Position + 1] \notin Types
    BY <1>4, <2>1, <2>2, TokenRead, Looking
  <2>3. ASSUME NEW s \in Streams(vocabulary), Continues(s, input'), NEW m, NEW c, NEW e
        PROVE  Does(vocabulary, s, Head(calls), Position, m, built, declarations, c, e)
    <3>1. ReadsType(vocabulary, s, Position, m, built, declarations, c, e)
      BY <2>2, <2>3 DEF ReadsType
    <3>2. Does(vocabulary, s, Call("type"), Position, m, built, declarations, c, e)
      BY <3>1 DEF Does, Call
    <3>. QED
      BY <1>0, <3>2 DEF Stands
  <2> HIDE DEF todo
  <2>4. Follows(todo)
    BY <1>0, <1>1, <1>2, <2>3 DEF Follows, Consumes
  <2>. QED
    BY <2>4 DEF Goes
<1>. QED
  BY <1>3, <1>4

LEMMA DeclarationsGo ==
  ASSUME InputRight, ParseDeclarations
  PROVE  Goes
<1>0. vocabulary \in Vocabularies /\ Stands(Call("declarations")) /\ calls # <<>>
  BY CallStands DEF InputRight, ParseDeclarations
<1> DEFINE last == <<Call("declared")>>
<1>1. Todo(last, Head(calls)[1] = "program")
  BY PlainCalls, TodoOne
<1>2. CASE currentToken = "SEMICOLON" /\ peekToken \in Types
  <2> DEFINE todo == <<Call("type"), Call("declarations")>>
  <2>1. Consumes(todo) /\ currentToken # END
    BY <1>2 DEF ParseDeclarations, END
  <2>2. Todo(todo, Head(calls)[1] = "program")
    <3>1. Plain(Call("type")) /\ Plain(Call("declarations"))
      BY PlainCalls
    <3>. QED
      BY <3>1, TodoTwo
  <2>3. ASSUME NEW s \in Streams(vocabulary), NEW k, NEW m, NEW c, NEW e,
               Reads(vocabulary, s, Position, k, currentToken), s[k + 1] = peekToken,
               DoesAll(vocabulary, s, todo, k, m, built, declarations, c, e)
        PROVE  Does(vocabulary, s, Call("declarations"), Position, m, built, declarations, c, e)
    BY <1>0, <1>2, <2>3, DeclarationsDo
  <2> HIDE DEF todo
  <2>. QED
    BY <1>0, <2>1, <2>2, <2>3, ConsumesGo
<1>3. CASE currentToken = "SEMICOLON" /\ peekToken \notin Types
  <2>1. Consumes(last) /\ currentToken # END
    BY <1>3 DEF ParseDeclarations, END
  <2>2. \A s \in Streams(vocabulary) : \A k, m, c, e :
          Reads(vocabulary, s, Position, k, currentToken)
            /\ DoesAll(vocabulary, s, last, k, m, built, declarations, c, e)
              => Does(vocabulary, s, Call("declarations"), Position, m, built, declarations, c, e)
    BY <1>0, <1>3, NoDeclarations
  <2> HIDE DEF last
  <2>. QED
    BY <1>0, <1>1, <2>1, <2>2, ConsumesGo
<1>4. CASE currentToken # "SEMICOLON"
  <2>1. Calls(last)
    BY <1>4 DEF ParseDeclarations
  <2>2. \A s \in Streams(vocabulary) : \A m, c, e :
          DoesAll(vocabulary, s, last, Position, m, built, declarations, c, e)
            => Does(vocabulary, s, Call("declarations"), Position, m, built, declarations, c, e)
    BY <1>0, NoDeclarations
  <2> HIDE DEF last
  <2>. QED
    BY <1>0, <1>1, <2>1, <2>2, CallsGo
<1>. QED
  BY <1>2, <1>3, <1>4

LEMMA InsertGoes ==
  ASSUME InsertDeclarations
  PROVE  Goes
<1>1. Due("declared") /\ calls # <<>> /\ Head(calls)[1] = "declared"
  BY DEF InsertDeclarations, Due
<1>2. ASSUME NEW s \in Streams(vocabulary), NEW m, NEW c, NEW e,
             DoesAll(vocabulary, s, <<>>, Position', m, built', declarations', c, e)
      PROVE  Does(vocabulary, s, Head(calls), Position, m, built, declarations, c, e)
  <2>1. m = Position' /\ c = built' /\ e = declarations'
    BY <1>2, DoesNothing
  <2>2. Position' = Position
    BY DEF InsertDeclarations, Position
  <2>3. Inserts(Position, m, built, declarations, c, e)
    BY <2>1, <2>2 DEF InsertDeclarations, Inserts, Inserted
  <2>. QED
    BY <1>1, <2>3 DEF Does
<1>3. Follows(<<>>)
  BY <1>1, <1>2, TodoNone DEF Follows, InsertDeclarations
<1>. QED
  BY <1>3 DEF Goes

LEMMA MoreGoes ==
  ASSUME InputRight, CallsRight, ParseMore
  PROVE  Goes
<1> DEFINE item == Head(calls)[2]
<1>0. vocabulary \in Vocabularies /\ Stands(Of("more", item)) /\ calls # <<>>
      /\ Head(calls)[1] = "more"
  BY OfStands DEF InputRight, ParseMore
<1>1. item = Expression \/ \E type : item = Of("variable", type)
  BY <1>0, HeadProper DEF Proper
<1>2. CASE currentToken = "COMMA"
  <2> DEFINE todo == <<item, Call("push_back"), Of("more", item)>>
  <2>1. Consumes(todo) /\ currentToken # END
    BY <1>2 DEF ParseMore, END
  <2> HIDE DEF item
  <2>2. Todo(todo, Head(calls)[1] = "program")
    <3>1. Plain(item) /\ Plain(Call("push_back")) /\ Plain(Of("more", item))
      BY <1>1, PlainCalls
    <3>. QED
      BY <3>1, TodoThree
  <2>3. \A s \in Streams(vocabulary) : \A k, m, c, e :
          Reads(vocabulary, s, Position, k, currentToken)
            /\ DoesAll(vocabulary, s, todo, k, m, built, declarations, c, e)
              => Does(vocabulary, s, Of("more", item), Position, m, built, declarations, c, e)
    BY <1>0, <1>2, MoreDoes
  <2> HIDE DEF todo
  <2>. QED
    BY <1>0, <2>1, <2>2, <2>3, ConsumesGo
<1>3. CASE currentToken # "COMMA"
  <2>1. Calls(<<>>)
    BY <1>3 DEF ParseMore
  <2> HIDE DEF item
  <2>2. \A s, m, c, e : DoesAll(vocabulary, s, <<>>, Position, m, built, declarations, c, e)
          => Does(vocabulary, s, Of("more", item), Position, m, built, declarations, c, e)
    BY DoesNothing, NoMore
  <2>. QED
    BY <1>0, <2>1, <2>2, TodoNone, CallsGo
<1>. QED
  BY <1>2, <1>3

LEMMA IdentifierGoes ==
  ASSUME InputRight, ParseIdentifier
  PROVE  Goes
<1>1. Stands(Call("identifier")) /\ calls # <<>>
  BY CallStands DEF ParseIdentifier
<1>2. CASE currentToken = "IDENTIFIER"
  <2>1. TokenPushes(<<"IDENTIFIER">>) /\ currentToken # END
    BY <1>2 DEF ParseIdentifier, TokenPushes, END
  <2>2. \A s \in Streams(vocabulary) : \A k :
          Reads(vocabulary, s, Position, k, currentToken)
            => Does(vocabulary, s, Call("identifier"), Position, k, built, declarations,
                    <<<<"IDENTIFIER">>>> \o built, declarations)
    BY <1>2, IdentifierReads
  <2>. QED
    BY <1>1, <2>1, <2>2, LeafGoes
<1>3. CASE currentToken # "IDENTIFIER"
  BY <1>1, <1>3, ThrowsGo DEF ParseIdentifier
<1>. QED
  BY <1>2, <1>3

LEMMA VariableGoes ==
  ASSUME InputRight, ParseVariableDecl
  PROVE  Goes
<1> DEFINE type == Head(calls)[2]
<1>0. vocabulary \in Vocabularies
  BY DEF InputRight
<1>1. CASE Due("variable") /\ Calls(<<Call("identifier"), Of("initializer", type)>>)
  <2> DEFINE todo == <<Call("identifier"), Of("initializer", type)>>
  <2>1. Stands(Of("variable", type)) /\ calls # <<>>
    BY <1>1, OfStands
  <2>2. Calls(todo)
    BY <1>1
  <2> HIDE DEF type
  <2>3. Todo(todo, Head(calls)[1] = "program")
    <3>1. Plain(Call("identifier")) /\ Plain(Of("initializer", type))
      BY PlainCalls
    <3>. QED
      BY <3>1, TodoTwo
  <2>4. \A s \in Streams(vocabulary) : \A m, c, e :
          DoesAll(vocabulary, s, todo, Position, m, built, declarations, c, e)
            => Does(vocabulary, s, Of("variable", type), Position, m, built, declarations, c, e)
    BY VariableDoes
  <2> HIDE DEF todo
  <2>. QED
    BY <2>1, <2>2, <2>3, <2>4, CallsGo
<1>2. CASE /\ Due("initializer") /\ currentToken = "ASSIGN"
           /\ Consumes(<<Expression, VariableDecl(type, 2)>>)
  <2> DEFINE todo == <<Expression, VariableDecl(type, 2)>>
  <2>1. Stands(Of("initializer", type)) /\ calls # <<>> /\ currentToken # END
    BY <1>2, OfStands DEF END
  <2>2. Consumes(todo)
    BY <1>2
  <2> HIDE DEF type
  <2>3. Todo(todo, Head(calls)[1] = "program")
    BY PlainCalls, TodoTwo DEF VariableDecl
  <2>4. \A s \in Streams(vocabulary) : \A k, m, c, e :
          Reads(vocabulary, s, Position, k, currentToken)
            /\ DoesAll(vocabulary, s, todo, k, m, built, declarations, c, e)
              => Does(vocabulary, s, Of("initializer", type), Position, m, built, declarations, c, e)
    BY <1>0, <1>2, InitializerDoes
  <2> HIDE DEF todo
  <2>. QED
    BY <2>1, <2>2, <2>3, <2>4, ConsumesGo
<1>3. CASE Due("initializer") /\ Calls(<<VariableDecl(type, 1)>>)
  <2> DEFINE todo == <<VariableDecl(type, 1)>>
  <2>1. Stands(Of("initializer", type)) /\ calls # <<>>
    BY <1>3, OfStands
  <2>2. Calls(todo)
    BY <1>3
  <2> HIDE DEF type
  <2>3. Todo(todo, Head(calls)[1] = "program")
    BY PlainCalls, TodoOne DEF VariableDecl
  <2>4. \A s \in Streams(vocabulary) : \A m, c, e :
          DoesAll(vocabulary, s, todo, Position, m, built, declarations, c, e)
            => Does(vocabulary, s, Of("initializer", type), Position, m, built, declarations, c, e)
    BY <1>0, NoInitializer
  <2> HIDE DEF todo
  <2>. QED
    BY <2>1, <2>2, <2>3, <2>4, CallsGo
<1>. QED
  BY <1>1, <1>2, <1>3 DEF ParseVariableDecl

-----------------------------------------------------------------------------
(* All the steps.                                                            *)

LEMMA NextGoes ==
  ASSUME InputRight, CallsRight, Next
  PROVE  Goes
<1>1. CASE ExpectToken \/ MakeNode \/ PushBack
  BY <1>1, ExpectGoes, MakeGoes, PushBackGoes
<1>2. CASE Parse
  BY <1>2, ProgramGoes, TypeGoes, DeclarationsGo, InsertGoes, MoreGoes, IdentifierGoes, VariableGoes
  DEF Parse
<1>3. CASE ParseStatement
  BY <1>3, CompoundGoes, IfGoes, LoopGoes, ForGoes, ReadGoes, WriteGoes, ArgumentsGo, LabelGoes,
     ExpressionStatementGoes
  DEF ParseStatement
<1>4. CASE ParseExpression
  BY <1>4, AssignmentGoes, BinaryGoes, UnaryGoes, PrimaryGoes DEF ParseExpression
<1>. QED
  BY <1>1, <1>2, <1>3, <1>4 DEF Next

LEMMA StutteringKeeps ==
  ASSUME ParserInv, UNCHANGED vars
  PROVE  ParserInv'
BY DEF ParserInv, InputRight, CallsRight, Promised, Position, currentToken, vars

LEMMA InitPromises ==
  ASSUME Init
  PROVE  ParserInv
<1>1. InputRight /\ vocabulary \in Vocabularies
  BY InputBegins DEF InputRight
<1>2. /\ calls = <<Expect("PROGRAM"), Call("program")>> /\ built = <<<<"Program">>>>
      /\ declarations = <<>> /\ outcome = "parsing" /\ Len(input) = 2
  BY TuplesAre DEF Init
<1>3. Position = 0
  BY <1>2 DEF Position
<1>4. Todo(calls, TRUE)
  <2>1. Todo(<<Call("program")>>, TRUE)
    BY OneIsSeq DEF Todo, Call, Proper
  <2>2. Plain(Expect("PROGRAM"))
    BY PlainExpect DEF Words
  <2>3. Todo(<<Expect("PROGRAM")>> \o <<Call("program")>>, TRUE)
    BY <2>1, <2>2, TodoFirst
  <2>. QED
    BY <1>2, <2>3, TwoOf
<1>5. ASSUME NEW s \in Streams(vocabulary), NEW j, NEW c, NEW e,
             DoesAll(vocabulary, s, calls, Position, j, built, declarations, c, e)
      PROVE  \E ts : c = <<<<"Program">> \o ts>> /\ Derived(vocabulary, s, "program", 0, j, ts, e)
  <2>1. PICK k, x, y :
          /\ Does(vocabulary, s, Expect("PROGRAM"), 0, k, built, declarations, x, y)
          /\ Does(vocabulary, s, Call("program"), k, j, x, y, c, e)
    BY <1>2, <1>3, <1>5, DoesTwo
  <2>2. Reads(vocabulary, s, 0, k, "PROGRAM") /\ x = built /\ y = declarations
    BY <2>1, Expected
  <2> DEFINE none == <<>>
  <2>3. Derived(vocabulary, s, "program", 0, k, none, none)
    BY <1>1, <2>2, ProgramReads
  <2>4. 0 < k
    BY <2>2, ReadsIs
  <2>5. x = <<<<"Program">> \o none>> /\ y = none
    BY <1>2, <2>2, Singles
  <2> HIDE DEF none
  <2>6. Derived(vocabulary, s, "program", 0, k, none, y) /\ x = <<<<"Program">> \o none>>
    BY <2>3, <2>5
  <2>7. ReadsProgram(vocabulary, s, k, j, x, y, c, e)
    BY <2>1 DEF Does, Call
  <2>. QED
    BY <2>4, <2>6, <2>7 DEF ReadsProgram
<1>6. Promised
  BY <1>5 DEF Promised
<1>. QED
  BY <1>1, <1>2, <1>4, <1>6 DEF ParserInv, CallsRight

LEMMA RowsAreSentences ==
  ASSUME NEW v \in Vocabularies, NEW n \in 0 .. v.most, NEW x \in Possible(v, "program", n)
  PROVE  x \in Sentences[v]
<1>1. v.most \in 0 .. v.most
  BY MostNat
<1>2. Table(v)[v.most][n] = Table(v)[n][n]
  BY <1>1, RowKept
<1>3. x \in Table(v)[v.most][n]["program"]
  BY <1>2 DEF Possible
<1>. QED
  BY <1>3 DEF Sentences

LEMMA ParsedIsMeant ==
  ASSUME ParserInv, outcome = "parsed"
  PROVE  [tokens |-> Read, trees |-> Tail(Head(built)), declarations |-> declarations]
           \in Sentences[vocabulary]
<1>1. InputRight /\ vocabulary \in Vocabularies /\ calls = <<>> /\ currentToken = END
  BY DEF ParserInv, InputRight, CallsRight
<1>2. PICK s \in Streams(vocabulary) : Continues(s, input)
  BY <1>1, StreamExists
<1>3. DoesAll(vocabulary, s, calls, Position, Position, built, declarations, built, declarations)
  BY <1>1, NothingDoes
<1>4. PICK ts : /\ built = <<<<"Program">> \o ts>>
                /\ Derived(vocabulary, s, "program", 0, Position, ts, declarations)
  BY <1>2, <1>3 DEF ParserInv, Promised
<1>5. /\ Real(vocabulary, s, 0, Position) /\ IsSeq(ts)
      /\ Written(s, 0, Position, ts, declarations) \in Possible(vocabulary, "program", Position - 0)
  BY <1>4 DEF Derived
<1>6. Position \in Nat /\ Position - 0 = Position /\ Position + 2 = Len(input)
  BY <1>1, <1>2, Looking
<1>7. Position \in 0 .. vocabulary.most
  BY <1>1, <1>5, <1>6, RealLength
<1>8. Tail(Head(built)) = ts
  <2> DEFINE program == <<"Program">> \o ts
  <2>1. Tail(program) = ts
    BY <1>5, Pushed
  <2>2. Head(built) = program
    BY <1>4
  <2>. QED
    BY <2>1, <2>2
<1>9. Read = Slice(s, 0, Position)
  <2>1. DOMAIN input = 1 .. Len(input)
    BY <1>1 DEF InputRight, IsSeq
  <2>2. \A n \in 1 .. Position : n \in 1 .. Len(input) /\ n \in 0 + 1 .. Position /\ 0 + n = n
    BY <1>6
  <2>3. \A n \in 1 .. Position : input[n] = s[n] /\ s[n] \in vocabulary.tokens
    BY <1>2, <1>5, <2>2 DEF Continues, Real
  <2>4. \A n \in 1 .. Position : input[n] # END
    BY <1>1, <2>3, VocabularyAssumption
  <2>5. \A n \in 1 .. Len(input) : n \notin 1 .. Position => input[n] = END
    <3>1. Len(input) - 1 \in 1 .. Len(input) /\ input[Len(input) - 1] = END
      BY <1>1, <1>6 DEF currentToken
    <3>2. \A n \in 1 .. Len(input) : n \notin 1 .. Position => Len(input) - 1 <= n
      BY <1>6
    <3>. QED
      BY <1>1, <3>1, <3>2 DEF InputRight
  <2>6. {n \in DOMAIN input : input[n] # END} = 1 .. Position
    BY <2>1, <2>2, <2>4, <2>5
  <2>7. Read = [n \in 1 .. Position |-> input[n]]
    BY <2>6 DEF Read, Restrict
  <2>8. Slice(s, 0, Position) = [n \in 1 .. Position |-> s[0 + n]]
    BY <1>6 DEF Slice
  <2>. QED
    BY <2>2, <2>3, <2>7, <2>8
<1>10. Written(s, 0, Position, ts, declarations) \in Sentences[vocabulary]
  BY <1>1, <1>5, <1>6, <1>7, RowsAreSentences
<1>. QED
  BY <1>8, <1>9, <1>10 DEF Written

(* What the parser returns, for a script of any length over any vocabulary, is *)
(* the tree that the grammar gives to the tokens it has read.                 *)
THEOREM ParserMeansGrammar == Spec => []MeansGrammar
<1>1. Init => ParserInv
  BY InitPromises
<1>2. ParserInv /\ [Next]_vars => ParserInv'
  <2>1. ParserInv /\ Next => ParserInv'
    BY NextGoes, StepKeeps DEF ParserInv
  <2>. QED
    BY <2>1, StutteringKeeps
<1>3. ParserInv => MeansGrammar
  BY ParsedIsMeant DEF MeansGrammar
<1>. QED
  BY <1>1, <1>2, <1>3, PTL DEF Spec

=============================================================================
