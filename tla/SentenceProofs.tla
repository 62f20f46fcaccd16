---------------------------- MODULE SentenceProofs ---------------------------
(***************************************************************************)
(* The parser throws only where no sentence of the grammar goes on, for       *)
(* scripts of any length over any vocabulary.                                 *)
(*                                                                         *)
(* Where ParserProofs puts derivations together, here they are taken apart.   *)
(* Span(v, s, x, i, j) says that x may be the tokens of the stream s behind the *)
(* i-th, up to the j-th, and each symbol has a lemma on what its tokens consist *)
(* of (...Apart).  Moves is what a call does on a stream, and                  *)
(* Accepts(s, q, i, p) says that with the calls q on the stack behind the i-th  *)
(* token nothing need ever throw; the parser accepts every sentence from its    *)
(* first calls on (SentenceAccepted).  Then the invariants: the calls find the  *)
(* nodes on built that they take (Supplied), and as long as what the parser     *)
(* has looked at is the beginning of a sentence, it is on its way through that  *)
(* sentence (Hoped).                                                         *)
(***************************************************************************)
EXTENDS ParserProofs

-----------------------------------------------------------------------------
(* The table of the grammar taken apart again: whatever x may be in n tokens, it *)
(* is by a rule, whose symbols may be parts of these tokens.                   *)

LEMMA StrongInduction ==
  ASSUME NEW S, \A n \in Nat : (\A m \in 0 .. n - 1 : m \in S) => n \in S
  PROVE  \A n \in Nat : n \in S
<1> DEFINE T == {n \in Nat : \A m \in 0 .. n - 1 : m \in S}
<1>1. 0 \in T
  OBVIOUS
<1>2. ASSUME NEW n \in Nat, n \in T PROVE n + 1 \in T
  <2>1. n \in S
    BY <1>2
  <2>2. \A m \in 0 .. (n + 1) - 1 : m = n \/ m \in 0 .. n - 1
    OBVIOUS
  <2>. QED
    BY <1>2, <2>1, <2>2
<1>3. \A n \in Nat : n \in T
  <2> HIDE DEF T
  <2>. QED
    BY <1>1, <1>2, Induction
<1>. QED
  BY <1>3

(* r is of n tokens of the vocabulary.                                        *)
IsMade(v, r, n) == "tokens" \in DOMAIN r /\ r.tokens \in Seq(v.tokens) /\ Len(r.tokens) = n

LEMMA NothingMade ==
  ASSUME NEW v
  PROVE  IsMade(v, Nothing, 0)
BY DEF IsMade, Nothing

LEMMA TokenMade ==
  ASSUME NEW v, NEW t \in v.tokens
  PROVE  IsMade(v, Token(t), 1) /\ Token(t).tokens = <<t>>
<1>1. Token(t) = [tokens |-> <<t>>, trees |-> <<>>, declarations |-> <<>>]
  BY DEF Token, Nothing
<1>2. \A T : t \in T => <<t>> \in Seq(T) /\ Len(<<t>>) = 1
  OBVIOUS
<1>. QED
  <2>1. Token(t).tokens = <<t>> /\ "tokens" \in DOMAIN Token(t)
    BY <1>1
  <2>. QED
    BY <1>2, <2>1 DEF IsMade

LEMMA ThenMade ==
  ASSUME NEW v, NEW p, NEW q, NEW a \in Nat, NEW b \in Nat, IsMade(v, p, a), IsMade(v, q, b)
  PROVE  IsMade(v, Then(p, q), a + b) /\ Then(p, q).tokens = p.tokens \o q.tokens
<1>1. "tokens" \in DOMAIN Then(p, q) /\ Then(p, q).tokens = p.tokens \o q.tokens
  BY DEF Then
<1>2. p.tokens \o q.tokens \in Seq(v.tokens) /\ Len(p.tokens \o q.tokens) = a + b
  BY DEF IsMade
<1>. QED
  BY <1>1, <1>2 DEF IsMade

LEMMA BuildMade ==
  ASSUME NEW v, NEW node, NEW r, NEW n, IsMade(v, r, n)
  PROVE  IsMade(v, Build(node, r), n) /\ Build(node, r).tokens = r.tokens
<1>1. "tokens" \in DOMAIN Build(node, r) /\ Build(node, r).tokens = r.tokens
  BY DEF IsMade, Build
<1>. QED
  BY <1>1 DEF IsMade

(* What the table says of x in n tokens comes from one of the rules of x.       *)
LEMMA RowRule ==
  ASSUME NEW v, NEW shorter, NEW n, NEW x \in Symbols, NEW r \in Row(v, shorter, n)[x]
  PROVE  \E rule \in Rules : /\ x \in rule[1]
                             /\ \E q \in Starts(v, shorter, n, rule[2])[Len(rule[2])][n] :
                                  r = Build(rule[3], q)
<1> DEFINE Gives(q) == {Build(q[3], s) : s \in Starts(v, shorter, n, q[2])[Len(q[2])][n]}
           made == {<<q[1], Gives(q)>> : q \in Rules}
<1>1. Row(v, shorter, n)[x] = UNION {m[2] : m \in {q \in made : x \in q[1]}}
  BY DEF Row
<1> HIDE DEF made
<1>2. PICK m \in made : x \in m[1] /\ r \in m[2]
  BY <1>1
<1> HIDE DEF Gives
<1>3. PICK rule \in Rules : m = <<rule[1], Gives(rule)>>
  BY <1>2 DEF made
<1>4. x \in rule[1] /\ r \in Gives(rule)
  BY <1>2, <1>3
<1>. QED
  BY <1>4 DEF Gives

(* r is what was read before the last symbol x, and then what x may be.         *)
Lengthened(v, shorter, n, start, x, m, r) ==
  \/ /\ x \in Symbols
     /\ \E i \in (0 .. m) \ {n} : \E p \in start[m - i] : \E q \in shorter[i][x] : r = Then(p, q)
  \/ /\ x \notin Symbols /\ x \in v.tokens /\ m # 0
     /\ \E p \in start[m - 1] : r = Then(p, Token(x))

LEMMA LongerTaken ==
  ASSUME NEW v, NEW shorter, NEW n \in Nat, NEW start, NEW x,
         NEW m \in 0 .. n, NEW r \in Longer(v, shorter, n, start, x)[m]
  PROVE  Lengthened(v, shorter, n, start, x, m, r)
<1>1. CASE x \in Symbols
  <2> DEFINE Every(l) == LET last == shorter[l][x] IN
                           IF last = {} THEN {} ELSE {Then(p, s) : p \in start[m - l], s \in last}
  <2>1. Longer(v, shorter, n, start, x)[m] = UNION {Every(l) : l \in (0 .. m) \ {n}}
    BY <1>1 DEF Longer
  <2> HIDE DEF Every
  <2>2. PICK i \in (0 .. m) \ {n} : r \in Every(i)
    BY <2>1
  <2>3. \E p \in start[m - i] : \E q \in shorter[i][x] : r = Then(p, q)
    BY <2>2 DEF Every
  <2>. QED
    BY <1>1, <2>3 DEF Lengthened
<1>2. CASE x \notin Symbols
  <2>1. Longer(v, shorter, n, start, x)[m]
          = IF m = 0 \/ x \notin v.tokens THEN {} ELSE {Then(p, Token(x)) : p \in start[m - 1]}
    BY <1>2 DEF Longer
  <2>. QED
    BY <1>2, <2>1 DEF Lengthened
<1>. QED
  BY <1>1, <1>2

LEMMA StartsFirst ==
  ASSUME NEW v, NEW shorter, NEW n \in Nat, NEW symbols, Len(symbols) \in Nat, NEW m \in 0 .. n,
         NEW r \in Starts(v, shorter, n, symbols)[0][m]
  PROVE  m = 0 /\ r = Nothing
<1>1. 0 \in 0 .. Len(symbols)
  OBVIOUS
<1>2. Starts(v, shorter, n, symbols)[0]
        = NextStart(v, shorter, n, symbols, 0, Starts(v, shorter, n, symbols)[0 - 1])
  BY <1>1, StartsAt
<1>. QED
  BY <1>2 DEF NextStart

Typed(v, n) == \A x \in Symbols : \A r \in Possible(v, x, n) : IsMade(v, r, n)

LEMMA StartsMade ==
  ASSUME NEW v \in Vocabularies, NEW n \in 0 .. v.most, \A i \in 0 .. n - 1 : Typed(v, i),
         NEW symbols, Len(symbols) \in Nat
  PROVE  \A k \in 0 .. Len(symbols) : \A m \in 0 .. n :
           \A r \in Starts(v, Below(v, n), n, symbols)[k][m] : IsMade(v, r, m)
<1> DEFINE All1(k) == \A m \in 0 .. n : \A r \in Starts(v, Below(v, n), n, symbols)[k][m] : IsMade(v, r, m)
           S == {k \in Nat : k <= Len(symbols) => All1(k)}
<1>0. n \in Nat
  BY MostNat
<1>1. 0 \in S
  BY <1>0, StartsFirst, NothingMade
<1>2. ASSUME NEW k \in Nat, k \in S PROVE k + 1 \in S
  <2>1. SUFFICES ASSUME k + 1 <= Len(symbols), NEW m \in 0 .. n,
                        NEW r \in Starts(v, Below(v, n), n, symbols)[k + 1][m]
                 PROVE  IsMade(v, r, m)
    OBVIOUS
  <2> DEFINE start == Starts(v, Below(v, n), n, symbols)[k]
             x == symbols[k + 1]
  <2>2. All1(k) /\ k + 1 \in 1 .. Len(symbols) /\ (k + 1) - 1 = k
    BY <1>2, <2>1
  <2>3. Starts(v, Below(v, n), n, symbols)[k + 1] = Longer(v, Below(v, n), n, start, x)
    BY <2>2, StartsNext
  <2> HIDE DEF start, x
  <2>4. \A i \in 0 .. n : \A p \in start[i] : IsMade(v, p, i)
    BY <2>2 DEF start
  <2>5. \/ /\ x \in Symbols
           /\ \E i \in (0 .. m) \ {n} : \E p \in start[m - i] : \E q \in Below(v, n)[i][x] :
                r = Then(p, q)
        \/ /\ x \notin Symbols /\ x \in v.tokens /\ m # 0
           /\ \E p \in start[m - 1] : r = Then(p, Token(x))
    <3>1. r \in Longer(v, Below(v, n), n, start, x)[m]
      BY <2>1, <2>3
    <3>2. Lengthened(v, Below(v, n), n, start, x, m, r)
      BY <1>0, <3>1, LongerTaken
    <3>. QED
      BY <3>2 DEF Lengthened
  <2>6. CASE x \in Symbols
    <3>1. PICK i \in (0 .. m) \ {n} : \E p \in start[m - i] : \E q \in Below(v, n)[i][x] :
            r = Then(p, q)
      BY <2>5, <2>6
    <3>2. PICK p \in start[m - i], q \in Below(v, n)[i][x] : r = Then(p, q)
      BY <3>1
    <3>3. i \in 0 .. n - 1 /\ m - i \in 0 .. n /\ i \in Nat /\ m - i \in Nat /\ (m - i) + i = m
      BY <1>0
    <3>4. q \in Possible(v, x, i)
      BY <3>3, PossibleBelow
    <3>5. IsMade(v, q, i) /\ IsMade(v, p, m - i)
      BY <2>4, <2>6, <3>3, <3>4 DEF Typed
    <3>6. IsMade(v, Then(p, q), (m - i) + i)
      BY <3>3, <3>5, ThenMade
    <3>. QED
      BY <3>2, <3>3, <3>6
  <2>7. CASE x \notin Symbols
    <3>1. PICK p \in start[m - 1] : r = Then(p, Token(x))
      BY <2>5, <2>7
    <3>2. m - 1 \in 0 .. n /\ m - 1 \in Nat /\ (m - 1) + 1 = m /\ 1 \in Nat /\ x \in v.tokens
      BY <1>0, <2>5, <2>7
    <3>3. IsMade(v, p, m - 1) /\ IsMade(v, Token(x), 1)
      BY <2>4, <3>2, TokenMade
    <3>4. IsMade(v, Then(p, Token(x)), (m - 1) + 1)
      BY <3>2, <3>3, ThenMade
    <3>. QED
      BY <3>1, <3>2, <3>4
  <2>. QED
    BY <2>6, <2>7
<1>3. \A k \in Nat : k \in S
  <2> HIDE DEF S
  <2>. QED
    BY <1>1, <1>2, Induction
<1>. QED
  BY <1>3

LEMMA RuleLength == \A rule \in Rules : Len(rule[2]) \in Nat
<1>1. \A rule \in ExpressionRules : Len(rule[2]) \in Nat
  BY DEF ExpressionRules, Is, Node, Leaves, Signs, Operators
<1>2. \A rule \in StatementRules : Len(rule[2]) \in Nat
  BY DEF StatementRules, Ending, Is, Node, Leaves
<1>3. \A t : \A rule \in OfType(t) : Len(rule[2]) \in Nat
  BY DEF OfType, Is
<1>4. \A rule \in ProgramRules : Len(rule[2]) \in Nat
  BY <1>3 DEF ProgramRules, Is
<1>. QED
  BY <1>1, <1>2, <1>4 DEF Rules

LEMMA PossibleRule ==
  ASSUME NEW v \in Vocabularies, NEW n \in 0 .. v.most, NEW x \in Symbols, NEW r \in Possible(v, x, n)
  PROVE  \E rule \in Rules :
           /\ x \in rule[1] /\ Len(rule[2]) \in Nat
           /\ \E q \in Starts(v, Below(v, n), n, rule[2])[Len(rule[2])][n] : r = Build(rule[3], q)
<1>1. r \in Row(v, Below(v, n), n)[x]
  BY PossibleRow
<1>. QED
  BY <1>1, RowRule, RuleLength

LEMMA PossibleMade ==
  ASSUME NEW v \in Vocabularies
  PROVE  \A n \in 0 .. v.most : Typed(v, n)
<1> DEFINE S == {n \in Nat : n <= v.most => Typed(v, n)}
<1>1. ASSUME NEW n \in Nat, \A m \in 0 .. n - 1 : m \in S PROVE n \in S
  <2>1. SUFFICES ASSUME n <= v.most, NEW x \in Symbols, NEW r \in Possible(v, x, n)
                 PROVE  IsMade(v, r, n)
    BY DEF Typed
  <2>2. n \in 0 .. v.most /\ n \in 0 .. n /\ \A i \in 0 .. n - 1 : Typed(v, i)
    BY <1>1, <2>1, MostNat
  <2>3. PICK rule \in Rules :
           /\ x \in rule[1] /\ Len(rule[2]) \in Nat
           /\ \E q \in Starts(v, Below(v, n), n, rule[2])[Len(rule[2])][n] : r = Build(rule[3], q)
    BY <2>2, PossibleRule
  <2>4. PICK q \in Starts(v, Below(v, n), n, rule[2])[Len(rule[2])][n] : r = Build(rule[3], q)
    BY <2>3
  <2>5. Len(rule[2]) \in 0 .. Len(rule[2])
    BY <2>3
  <2>6. IsMade(v, q, n)
    BY <2>2, <2>3, <2>5, StartsMade
  <2>. QED
    BY <2>4, <2>6, BuildMade
<1>2. \A n \in Nat : n \in S
  <2> HIDE DEF S
  <2>. QED
    BY <1>1, StrongInduction
<1>. QED
  BY <1>2, MostNat

(* x may be the tokens behind the i-th, up to the j-th, whatever its trees are.  *)
Span(v, s, x, i, j) ==
  /\ i \in Nat /\ j \in Nat /\ i <= j /\ j - i <= v.most
  /\ \E r \in Possible(v, x, j - i) : r.tokens = Slice(s, i, j)
Piece(v, s, x, i, j) ==
  \/ x \in Symbols /\ Span(v, s, x, i, j)
  \/ x \notin Symbols /\ i \in Nat /\ j = i + 1 /\ s[j] = x

(* The first k symbols are the parts between the positions at.                 *)
Split(v, s, symbols, k, i, j, at) ==
  /\ at[0] = i /\ at[k] = j
  /\ \A m \in 1 .. k : Piece(v, s, symbols[m], at[m - 1], at[m])
Splits(v, s, symbols, k, i, j) == \E at : Split(v, s, symbols, k, i, j, at)

(* The rule is what makes the tokens behind the i-th, up to the j-th, of its    *)
(* symbols.                                                                 *)
By(v, s, rule, i, j) ==
  /\ Splits(v, s, rule[2], Len(rule[2]), i, j)
  /\ \A y \in rule[1] : Span(v, s, y, i, j)

LEMMA SpanIs ==
  ASSUME NEW v, NEW s, NEW x, NEW i, NEW j, Span(v, s, x, i, j)
  PROVE  i \in Nat /\ j \in Nat /\ i <= j
BY DEF Span

LEMMA SliceApart ==
  ASSUME NEW s, NEW i \in Nat, NEW m \in Nat, NEW j \in Nat, i <= m, m <= j, NEW p, NEW q,
         IsSeq(p), IsSeq(q), Len(p) = m - i, Len(q) = j - m, Together(p, q, Slice(s, i, j))
  PROVE  p = Slice(s, i, m) /\ q = Slice(s, m, j)
<1>1. i <= j /\ m - i \in Nat /\ j - m \in Nat
  OBVIOUS
<1>2. /\ IsSeq(Slice(s, i, m)) /\ Len(Slice(s, i, m)) = m - i
      /\ IsSeq(Slice(s, m, j)) /\ Len(Slice(s, m, j)) = j - m
  BY SliceIs
<1>3. /\ \A k \in 1 .. m - i : (p \o q)[k] = p[k]
      /\ \A k \in 1 .. j - m : (p \o q)[(m - i) + k] = q[k]
  <2>1. /\ \A k \in 1 .. Len(p) : (p \o q)[k] = p[k]
        /\ \A k \in 1 .. Len(q) : (p \o q)[Len(p) + k] = q[k]
    BY ConcatIs
  <2>. QED
    BY <2>1
<1>4. \A k \in 1 .. j - i : (p \o q)[k] = s[i + k]
  BY DEF Slice, Together
<1>5. \A k \in 1 .. m - i : p[k] = Slice(s, i, m)[k]
  <2>1. SUFFICES ASSUME NEW k \in 1 .. m - i PROVE p[k] = Slice(s, i, m)[k]
    OBVIOUS
  <2>2. k \in 1 .. j - i
    BY <1>1
  <2>3. p[k] = s[i + k]
    BY <1>3, <1>4, <2>2
  <2>. QED
    BY <2>3 DEF Slice
<1>6. \A k \in 1 .. j - m : q[k] = Slice(s, m, j)[k]
  <2>1. SUFFICES ASSUME NEW k \in 1 .. j - m PROVE q[k] = Slice(s, m, j)[k]
    OBVIOUS
  <2>2. (m - i) + k \in 1 .. j - i /\ i + ((m - i) + k) = m + k
    BY <1>1
  <2>3. q[k] = s[m + k]
    BY <1>3, <1>4, <2>2
  <2>. QED
    BY <2>3 DEF Slice
<1>. QED
  BY <1>2, <1>5, <1>6, SameSeq

LEMMA SplitOn ==
  ASSUME NEW v, NEW s, NEW symbols, NEW k \in Nat, NEW i, NEW m, NEW j,
         Splits(v, s, symbols, k, i, m), Piece(v, s, symbols[k + 1], m, j)
  PROVE  Splits(v, s, symbols, k + 1, i, j)
<1>1. PICK at : Split(v, s, symbols, k, i, m, at)
  BY DEF Splits
<1> DEFINE to == [l \in 0 .. k + 1 |-> IF l = k + 1 THEN j ELSE at[l]]
<1>2. to[k + 1] = j /\ \A l \in 0 .. k : to[l] = at[l]
  OBVIOUS
<1> HIDE DEF to
<1>3. to[0] = i /\ to[k] = m
  BY <1>1, <1>2 DEF Split
<1>4. ASSUME NEW l \in 1 .. k + 1 PROVE Piece(v, s, symbols[l], to[l - 1], to[l])
  <2>1. CASE l = k + 1
    BY <1>2, <1>3, <2>1
  <2>2. CASE l \in 1 .. k
    <3>1. l \in 0 .. k /\ l - 1 \in 0 .. k
      BY <2>2
    <3>. QED
      BY <1>1, <1>2, <2>2, <3>1 DEF Split
  <2>. QED
    BY <2>1, <2>2
<1>. QED
  BY <1>2, <1>3, <1>4 DEF Splits, Split

LEMMA StartsApart ==
  ASSUME NEW v \in Vocabularies, NEW s, NEW n \in 0 .. v.most, NEW symbols, Len(symbols) \in Nat
  PROVE  \A k \in 0 .. Len(symbols) : \A m \in 0 .. n : \A i \in Nat :
           \A r \in Starts(v, Below(v, n), n, symbols)[k][m] :
             r.tokens = Slice(s, i, i + m) => Splits(v, s, symbols, k, i, i + m)
<1> DEFINE Apart(k) == \A m \in 0 .. n : \A i \in Nat :
                         \A r \in Starts(v, Below(v, n), n, symbols)[k][m] :
                           r.tokens = Slice(s, i, i + m) => Splits(v, s, symbols, k, i, i + m)
           S == {k \in Nat : k <= Len(symbols) => Apart(k)}
<1>0. n \in Nat /\ v.most \in Nat /\ n <= v.most
  BY MostNat
<1>1. 0 \in S
  <2>1. SUFFICES ASSUME NEW m \in 0 .. n, NEW i \in Nat,
                        NEW r \in Starts(v, Below(v, n), n, symbols)[0][m]
                 PROVE  Splits(v, s, symbols, 0, i, i + m)
    OBVIOUS
  <2>2. m = 0 /\ i + m = i
    BY <1>0, StartsFirst
  <2>3. \A w \in {i} : Split(v, s, symbols, 0, w, w, [l \in {0} |-> w])
    BY DEF Split
  <2>. QED
    BY <2>2, <2>3 DEF Splits
<1>2. ASSUME NEW k \in Nat, k \in S PROVE k + 1 \in S
  <2>1. SUFFICES ASSUME k + 1 <= Len(symbols), NEW m \in 0 .. n, NEW i \in Nat,
                        NEW r \in Starts(v, Below(v, n), n, symbols)[k + 1][m],
                        r.tokens = Slice(s, i, i + m)
                 PROVE  Splits(v, s, symbols, k + 1, i, i + m)
    OBVIOUS
  <2> DEFINE start == Starts(v, Below(v, n), n, symbols)[k]
             x == symbols[k + 1]
  <2>2. Apart(k) /\ k + 1 \in 1 .. Len(symbols) /\ (k + 1) - 1 = k /\ k \in 0 .. Len(symbols)
    <3>1. k <= Len(symbols) /\ k + 1 \in 1 .. Len(symbols) /\ (k + 1) - 1 = k
      BY <2>1
    <3> HIDE DEF Apart
    <3>. QED
      BY <1>2, <3>1
  <2>3. Starts(v, Below(v, n), n, symbols)[k + 1] = Longer(v, Below(v, n), n, start, x)
    BY <2>2, StartsNext
  <2>4. \A l \in 0 .. n : \A p \in start[l] : IsMade(v, p, l)
    <3>1. \A l \in 0 .. n - 1 : Typed(v, l)
      BY <1>0, PossibleMade
    <3>. QED
      BY <2>2, <3>1, StartsMade
  <2>5. \A l \in 0 .. n : \A p \in start[l] :
          p.tokens = Slice(s, i, i + l) => Splits(v, s, symbols, k, i, i + l)
    BY <2>2
  <2>6. r \in Longer(v, Below(v, n), n, start, x)[m]
    BY <2>1, <2>3
  <2> HIDE DEF start, x
  <2>7. Lengthened(v, Below(v, n), n, start, x, m, r)
    BY <1>0, <2>6, LongerTaken
  <2>8. CASE x \in Symbols
    <3>1. PICK l \in (0 .. m) \ {n} : \E p \in start[m - l] : \E q \in Below(v, n)[l][x] :
            r = Then(p, q)
      BY <2>7, <2>8 DEF Lengthened
    <3>2. PICK p \in start[m - l], q \in Below(v, n)[l][x] : r = Then(p, q)
      BY <3>1
    <3>3. l \in 0 .. n - 1 /\ m - l \in 0 .. n /\ l \in Nat /\ m - l \in Nat /\ (m - l) + l = m
          /\ l \in 0 .. v.most
      BY <1>0
    <3>4. q \in Possible(v, x, l)
      BY <3>3, PossibleBelow
    <3>5. IsMade(v, q, l) /\ IsMade(v, p, m - l)
      BY <2>4, <2>8, <3>3, <3>4, PossibleMade DEF Typed
    <3>6. IsSeq(p.tokens) /\ IsSeq(q.tokens) /\ Len(p.tokens) = m - l /\ Len(q.tokens) = l
      BY <3>5 DEF IsMade, IsSeq
    <3>7. p.tokens \o q.tokens = Slice(s, i, i + m)
      BY <2>1, <3>2, <3>3, <3>5, ThenMade
    <3> DEFINE w == i + (m - l)
               j == i + m
    <3>8. w \in Nat /\ j \in Nat /\ i <= w /\ w <= j /\ w - i = m - l /\ j - w = l
      BY <3>3
    <3> HIDE DEF w
    <3>9. p.tokens = Slice(s, i, w) /\ q.tokens = Slice(s, w, j)
      <4>1. Together(p.tokens, q.tokens, Slice(s, i, j))
        BY <3>7 DEF Together
      <4> HIDE DEF j
      <4>. QED
        BY <3>6, <3>8, <4>1, SliceApart
    <3>10. Splits(v, s, symbols, k, i, w)
      BY <2>5, <3>3, <3>9 DEF w
    <3>11. Piece(v, s, x, w, j)
      BY <1>0, <2>8, <3>3, <3>4, <3>8, <3>9 DEF Piece, Span
    <3>. QED
      BY <3>10, <3>11, SplitOn DEF x
  <2>9. CASE x \notin Symbols
    <3>1. PICK p \in start[m - 1] : r = Then(p, Token(x))
      BY <2>7, <2>9 DEF Lengthened
    <3>2. m - 1 \in 0 .. n /\ m - 1 \in Nat /\ (m - 1) + 1 = m /\ 1 \in Nat /\ x \in v.tokens
      BY <1>0, <2>7, <2>9 DEF Lengthened
    <3>3. IsMade(v, p, m - 1) /\ IsMade(v, Token(x), 1) /\ Token(x).tokens = <<x>>
      BY <2>4, <3>2, TokenMade
    <3>4. p.tokens \o <<x>> = Slice(s, i, i + m)
      <4>1. Then(p, Token(x)).tokens = p.tokens \o Token(x).tokens
        BY <3>2, <3>3, ThenMade
      <4>. QED
        BY <2>1, <3>1, <3>3, <4>1
    <3> DEFINE w == i + (m - 1)
               j == i + m
    <3>5. w \in Nat /\ j \in Nat /\ i <= w /\ w <= j /\ w - i = m - 1 /\ j - w = 1 /\ j = w + 1
      BY <3>2
    <3>6. IsSeq(p.tokens) /\ Len(p.tokens) = m - 1 /\ IsSeq(<<x>>) /\ Len(<<x>>) = 1
      BY <3>3, OneIsSeq DEF IsMade, IsSeq
    <3> HIDE DEF w
    <3>7. p.tokens = Slice(s, i, w) /\ <<x>> = Slice(s, w, j)
      <4> DEFINE q == <<x>>
      <4>1. Together(p.tokens, q, Slice(s, i, j)) /\ IsSeq(q) /\ Len(q) = 1
        BY <3>4, <3>6 DEF Together
      <4> HIDE DEF j, q
      <4>2. IsSeq(p.tokens) /\ Len(p.tokens) = w - i /\ Len(q) = j - w
        BY <3>5, <3>6, <4>1
      <4>3. w \in Nat /\ j \in Nat /\ i <= w /\ w <= j
        BY <3>5
      <4>4. p.tokens = Slice(s, i, w) /\ q = Slice(s, w, j)
        BY <4>1, <4>2, <4>3, SliceApart
      <4>. QED
        BY <4>4 DEF q, j
    <3>8. Splits(v, s, symbols, k, i, w)
      BY <2>5, <3>2, <3>7 DEF w
    <3>9. <<x>> = <<s[w + 1]>>
      BY <3>5, <3>7, SliceOne
    <3>10. s[j] = x
      BY <3>5, <3>9
    <3>11. Piece(v, s, x, w, j)
      BY <2>9, <3>5, <3>10 DEF Piece
    <3>. QED
      BY <3>8, <3>11, SplitOn DEF x
  <2>. QED
    BY <2>8, <2>9
<1>3. \A k \in Nat : k \in S
  <2> HIDE DEF S
  <2>. QED
    BY <1>1, <1>2, Induction
<1>4. \A k \in 0 .. Len(symbols) : Apart(k)
  <2>1. \A k \in 0 .. Len(symbols) : k \in Nat /\ k <= Len(symbols)
    OBVIOUS
  <2> HIDE DEF Apart
  <2>. QED
    BY <1>3, <2>1
<1>. QED
  BY <1>4

LEMMA SpanRule ==
  ASSUME NEW v \in Vocabularies, NEW s, NEW x \in Symbols, NEW i, NEW j, Span(v, s, x, i, j)
  PROVE  \E rule \in Rules : x \in rule[1] /\ By(v, s, rule, i, j)
<1> DEFINE n == j - i
<1>1. i \in Nat /\ j \in Nat /\ i <= j /\ n \in 0 .. v.most /\ n \in 0 .. n /\ i + n = j
  BY MostNat DEF Span
<1>2. PICK r \in Possible(v, x, n) : r.tokens = Slice(s, i, j)
  BY DEF Span
<1> HIDE DEF n
<1>3. PICK rule \in Rules :
        /\ x \in rule[1] /\ Len(rule[2]) \in Nat
        /\ \E q \in Starts(v, Below(v, n), n, rule[2])[Len(rule[2])][n] : r = Build(rule[3], q)
  BY <1>1, <1>2, PossibleRule
<1>4. PICK q \in Starts(v, Below(v, n), n, rule[2])[Len(rule[2])][n] : r = Build(rule[3], q)
  BY <1>3
<1>5. Len(rule[2]) \in 0 .. Len(rule[2])
  BY <1>3
<1>6. IsMade(v, q, n)
  <2>1. \A l \in 0 .. n - 1 : Typed(v, l)
    BY <1>1, MostNat, PossibleMade
  <2>. QED
    BY <1>1, <1>3, <1>5, <2>1, StartsMade
<1>7. q.tokens = Slice(s, i, i + n)
  BY <1>1, <1>2, <1>4, <1>6, BuildMade
<1>8. Splits(v, s, rule[2], Len(rule[2]), i, i + n)
  BY <1>1, <1>3, <1>5, <1>7, StartsApart
<1>9. ASSUME NEW y \in rule[1] PROVE Span(v, s, y, i, j)
  <2>1. Build(rule[3], q) \in Possible(v, y, n)
    BY <1>1, PossibleIs
  <2>2. n = j - i /\ j - i <= v.most
    BY <1>1 DEF n, Span
  <2>. QED
    BY <1>1, <1>2, <1>4, <2>1, <2>2 DEF Span
<1>. QED
  BY <1>1, <1>3, <1>8, <1>9 DEF By

(* The rules of a symbol, by what they have on their right.                     *)
LEMMA ExpressionRule ==
  ASSUME NEW rule \in ExpressionRules
  PROVE  \/ \E t \in Literals : rule[1] = Signed /\ rule[2] = <<t>>
         \/ \E t \in Names : rule[1] = {"name"} \cup Signed /\ rule[2] = <<t>>
         \/ rule[1] = {"name"} /\ rule[2] = <<"LPAREN", "name", "RPAREN">>
         \/ rule[1] = Signed /\ rule[2] = <<"LPAREN", "expression", "RPAREN">>
         \/ \E op \in Unary : rule[1] = Signed /\ rule[2] = <<op, "signed">>
         \/ \E k \in 1 .. 6 : \E op \in Levels[k] :
              rule[1] = Heads[k] /\ rule[2] = <<Own[k], op, Own[k + 1]>>
         \/ rule[1] = Assignments /\ rule[2] = <<"name", "ASSIGN", "expression">>
         \/ rule[1] = {"maybe"} /\ rule[2] = <<>>
         \/ rule[1] = {"list"} /\ rule[2] = <<"list", "COMMA", "expression">>
<1>0. /\ Levels[1] = {"OR"} /\ Levels[2] = {"AND"} /\ Levels[3] = {"EQUAL", "NOTEQUAL"}
      /\ Levels[4] = {"LESS", "GREATER", "LESSEQUAL", "GREATEREQUAL"}
      /\ Levels[5] = {"PLUS", "MINUS"} /\ Levels[6] = {"MULTIPLY", "DIVIDE", "MODULO"}
  BY DEF Levels
<1>1. /\ Own[1] = "disjunction" /\ Own[2] = "conjunction" /\ Own[3] = "equality"
      /\ Own[4] = "relation" /\ Own[5] = "sum" /\ Own[6] = "product" /\ Own[7] = "signed"
  BY DEF Own
<1>2. /\ Heads[1] = Disjunctions /\ Heads[2] = Conjunctions /\ Heads[3] = Equalities
      /\ Heads[4] = Relations /\ Heads[5] = Sums /\ Heads[6] = Products
  BY DEF Heads
<1> DEFINE Ops(k) == \E op \in Levels[k] : rule[1] = Heads[k] /\ rule[2] = <<Own[k], op, Own[k + 1]>>
<1>4. \/ rule \in Leaves(Signed, {"INTEGER", "REALNUM", "STRINGLIT", "TRUE", "FALSE"})
      \/ rule \in Leaves({"name"} \cup Signed, {"IDENTIFIER", "ENV_VAR"})
      \/ rule \in Is({"name"}, <<"LPAREN", "name", "RPAREN">>)
      \/ rule \in Is(Signed, <<"LPAREN", "expression", "RPAREN">>)
      \/ rule \in Signs(Signed, {"MINUS", "NOT"}, "signed")
      \/ \E k \in 1 .. 6 : rule \in Operators(Heads[k], Own[k], Levels[k], Own[k + 1])
      \/ rule \in Node(Assignments, <<"name", "ASSIGN", "expression">>, "Assignment")
      \/ rule \in Node({"maybe"}, <<>>, "nullptr")
      \/ rule \in Is({"list"}, <<"list", "COMMA", "expression">>)
  <2> DEFINE D(k) == rule \in Operators(Heads[k], Own[k], Levels[k], Own[k + 1])
  <2>1. /\ D(6) = (rule \in Operators(Products, "product", {"MULTIPLY", "DIVIDE", "MODULO"}, "signed"))
        /\ D(5) = (rule \in Operators(Sums, "sum", {"PLUS", "MINUS"}, "product"))
        /\ D(4) = (rule \in Operators(Relations, "relation",
                                     {"LESS", "GREATER", "LESSEQUAL", "GREATEREQUAL"}, "sum"))
        /\ D(3) = (rule \in Operators(Equalities, "equality", {"EQUAL", "NOTEQUAL"}, "relation"))
        /\ D(2) = (rule \in Operators(Conjunctions, "conjunction", {"AND"}, "equality"))
        /\ D(1) = (rule \in Operators(Disjunctions, "disjunction", {"OR"}, "conjunction"))
    BY <1>0, <1>1, <1>2
  <2>2. 1 \in 1 .. 6 /\ 2 \in 1 .. 6 /\ 3 \in 1 .. 6 /\ 4 \in 1 .. 6 /\ 5 \in 1 .. 6 /\ 6 \in 1 .. 6
    OBVIOUS
  <2>3. D(1) \/ D(2) \/ D(3) \/ D(4) \/ D(5) \/ D(6) => \E k \in 1 .. 6 : D(k)
    <3> HIDE DEF D
    <3>. QED
      BY <2>2, Zenon
  <2> HIDE DEF D
  <2>4. \/ rule \in Leaves(Signed, {"INTEGER", "REALNUM", "STRINGLIT", "TRUE", "FALSE"})
        \/ rule \in Leaves({"name"} \cup Signed, {"IDENTIFIER", "ENV_VAR"})
        \/ rule \in Is({"name"}, <<"LPAREN", "name", "RPAREN">>)
        \/ rule \in Is(Signed, <<"LPAREN", "expression", "RPAREN">>)
        \/ rule \in Signs(Signed, {"MINUS", "NOT"}, "signed")
        \/ D(6) \/ D(5) \/ D(4) \/ D(3) \/ D(2) \/ D(1)
        \/ rule \in Node(Assignments, <<"name", "ASSIGN", "expression">>, "Assignment")
        \/ rule \in Node({"maybe"}, <<>>, "nullptr")
        \/ rule \in Is({"list"}, <<"list", "COMMA", "expression">>)
    BY <2>1, Zenon DEF ExpressionRules
  <2>5. (\E k \in 1 .. 6 : D(k)) => \E k \in 1 .. 6 : rule \in Operators(Heads[k], Own[k], Levels[k], Own[k + 1])
    BY DEF D
  <2>. QED
    BY <2>3, <2>4, <2>5, Zenon
<1>5. ASSUME NEW k \in 1 .. 6, rule \in Operators(Heads[k], Own[k], Levels[k], Own[k + 1])
      PROVE  Ops(k)
  BY <1>5 DEF Operators
<1>6. CASE rule \in Leaves(Signed, {"INTEGER", "REALNUM", "STRINGLIT", "TRUE", "FALSE"})
  BY <1>6 DEF Leaves, Literals
<1>7. CASE rule \in Leaves({"name"} \cup Signed, {"IDENTIFIER", "ENV_VAR"})
  BY <1>7 DEF Leaves, Names
<1>8. CASE rule \in Is({"name"}, <<"LPAREN", "name", "RPAREN">>)
  BY <1>8 DEF Is
<1>9. CASE rule \in Is(Signed, <<"LPAREN", "expression", "RPAREN">>)
  BY <1>9 DEF Is
<1>10. CASE rule \in Signs(Signed, {"MINUS", "NOT"}, "signed")
  BY <1>10 DEF Signs, Unary
<1>11. CASE rule \in Node(Assignments, <<"name", "ASSIGN", "expression">>, "Assignment")
  BY <1>11 DEF Node
<1>12. CASE rule \in Node({"maybe"}, <<>>, "nullptr")
  BY <1>12 DEF Node
<1>13. CASE rule \in Is({"list"}, <<"list", "COMMA", "expression">>)
  BY <1>13 DEF Is
<1>. QED
  BY <1>4, <1>5, <1>6, <1>7, <1>8, <1>9, <1>10, <1>11, <1>12, <1>13

LEMMA StatementRule ==
  ASSUME NEW rule \in StatementRules
  PROVE  \/ rule[1] = Statements /\ rule[2] = <<"expression", "SEMICOLON">>
         \/ rule[1] = {"block"} /\ rule[2] = <<"LBRACE">>
         \/ rule[1] = {"block"} /\ rule[2] = <<"block", "statement">>
         \/ rule[1] = Statements /\ rule[2] = <<"block", "RBRACE">>
         \/ rule[1] = Statements /\ rule[2] = <<"DO", "statement", "WHILE", "LPAREN", "expression",
                                                "RPAREN", "SEMICOLON">>
         \/ rule[1] = {"variable"} /\ rule[2] = <<"IDENTIFIER">>
         \/ rule[1] = Statements /\ rule[2] = <<"READ", "LPAREN", "variable", "RPAREN", "SEMICOLON">>
         \/ rule[1] = Statements /\ rule[2] = <<"WRITE", "LPAREN", "RPAREN", "SEMICOLON">>
         \/ rule[1] = Statements /\ rule[2] = <<"WRITE", "LPAREN", "list", "RPAREN", "SEMICOLON">>
         \/ rule[1] = {"statement"}
              /\ rule[2] = <<"IF", "LPAREN", "expression", "RPAREN", "statement">>
         \/ \E x \in Statements :
              /\ rule[1] = {x}
              /\ \/ rule[2] = <<"IDENTIFIER", "COLON", x>>
                 \/ rule[2] = <<"IF", "LPAREN", "expression", "RPAREN", "closed", "ELSE", x>>
                 \/ rule[2] = <<"WHILE", "LPAREN", "expression", "RPAREN", x>>
                 \/ rule[2] = <<"FOR", "LPAREN", "maybe", "SEMICOLON", "maybe", "SEMICOLON", "maybe",
                                "RPAREN", x>>
<1>1. ASSUME NEW x, rule \in Ending(x)
      PROVE  /\ rule[1] = {x}
             /\ \/ rule[2] = <<"IDENTIFIER", "COLON", x>>
                \/ rule[2] = <<"IF", "LPAREN", "expression", "RPAREN", "closed", "ELSE", x>>
                \/ rule[2] = <<"WHILE", "LPAREN", "expression", "RPAREN", x>>
                \/ rule[2] = <<"FOR", "LPAREN", "maybe", "SEMICOLON", "maybe", "SEMICOLON", "maybe",
                               "RPAREN", x>>
  BY <1>1 DEF Ending, Is, Node
<1>2. CASE \E x \in Statements : rule \in Ending(x)
  BY <1>1, <1>2
<1>3. CASE ~ \E x \in Statements : rule \in Ending(x)
  BY <1>3 DEF StatementRules, Is, Node, Leaves, Statements
<1>. QED
  BY <1>2, <1>3

LEMMA ProgramRule ==
  ASSUME NEW rule \in ProgramRules
  PROVE  \/ \E t \in Types : rule \in OfType(t)
         \/ rule[1] = {"program"} /\ rule[2] = <<"PROGRAM">>
         \/ rule[1] = {"program"} /\ rule[2] = <<"program", "statement">>
         \/ rule[1] = {"program"} /\ rule[2] = <<"program", "declaration">>
         \/ rule[1] = {"program"} /\ rule[2] = <<"program", "declaration", "SEMICOLON">>
BY DEF ProgramRules, Is, Types

LEMMA TypeRule ==
  ASSUME NEW t \in Types, NEW rule \in OfType(t)
  PROVE  \/ rule[1] = {One[t], All[t]} /\ rule[2] = <<"IDENTIFIER">>
         \/ rule[1] = {One[t], All[t]} /\ rule[2] = <<"IDENTIFIER", "ASSIGN", "expression">>
         \/ rule[1] = {All[t]} /\ rule[2] = <<All[t], "COMMA", One[t]>>
         \/ rule[1] = {"declaration"} /\ rule[2] = <<t, All[t]>>
BY DEF OfType, Is

(* No symbol has rules of two of these.                                        *)
LEMMA OfExpressions ==
  ASSUME NEW x \in {"name"} \cup Signed, NEW rule \in Rules, x \in rule[1]
  PROVE  rule \in ExpressionRules
<1>1. /\ "name" \notin Statements /\ "block" # "name" /\ "variable" # "name"
      /\ \A y \in Signed : y \notin Statements \cup {"block", "variable", "program", "declaration"}
  BY DEF Statements, Signed, Products, Sums, Relations, Equalities, Conjunctions, Disjunctions,
         Assignments
<1>2. "statement" \in Statements /\ "closed" \in Statements
  BY DEF Statements
<1>3. ASSUME NEW t \in Types PROVE One[t] \notin {"name"} \cup Signed /\ All[t] \notin {"name"} \cup Signed
  BY DEF One, All, Types, Signed, Products, Sums, Relations, Equalities, Conjunctions, Disjunctions,
         Assignments
<1>4. rule \notin StatementRules
  BY <1>1, <1>2, StatementRule
<1>5. rule \notin ProgramRules
  BY <1>1, <1>3, ProgramRule, TypeRule
<1>. QED
  BY <1>4, <1>5 DEF Rules

LEMMA OfStatements ==
  ASSUME NEW x \in {"block", "variable"} \cup Statements, NEW rule \in Rules, x \in rule[1]
  PROVE  rule \in StatementRules
<1>1. /\ x \notin {"name"} \cup Signed /\ x # "program" /\ x # "declaration"
  BY DEF Statements, Signed, Products, Sums, Relations, Equalities, Conjunctions, Disjunctions,
         Assignments
<1>2. ASSUME NEW t \in Types PROVE x # One[t] /\ x # All[t]
  BY DEF One, All, Types, Statements
<1>3. rule \notin ExpressionRules
  <2>1. \A k \in 1 .. 6 : Heads[k] \subseteq Signed
    BY DEF Heads, Signed, Products, Sums, Relations, Equalities, Conjunctions, Disjunctions, Assignments
  <2>2. Assignments \subseteq Signed /\ "maybe" \in Signed /\ "list" \in Signed
    BY DEF Signed, Products, Sums, Relations, Equalities, Conjunctions, Disjunctions, Assignments
  <2>. QED
    BY <1>1, <2>1, <2>2, ExpressionRule
<1>4. rule \notin ProgramRules
  BY <1>1, <1>2, ProgramRule, TypeRule
<1>. QED
  BY <1>3, <1>4 DEF Rules

LEMMA OfPrograms ==
  ASSUME NEW x, NEW rule \in Rules, x \in rule[1],
         x \in {"program", "declaration"} \/ \E t \in Types : x \in {One[t], All[t]}
  PROVE  rule \in ProgramRules
<1>1. \A t \in Types : One[t] \notin {"name", "block", "variable"} \cup Signed \cup Statements
                       /\ All[t] \notin {"name", "block", "variable"} \cup Signed \cup Statements
  BY DEF One, All, Types, Statements, Signed, Products, Sums, Relations, Equalities, Conjunctions,
         Disjunctions, Assignments
<1>2. /\ "program" \notin {"name", "block", "variable"} \cup Signed \cup Statements
      /\ "declaration" \notin {"name", "block", "variable"} \cup Signed \cup Statements
  BY DEF Statements, Signed, Products, Sums, Relations, Equalities, Conjunctions, Disjunctions,
         Assignments
<1>3. x \notin {"name", "block", "variable"} \cup Signed \cup Statements
  BY <1>1, <1>2
<1>4. rule \notin ExpressionRules
  <2>1. \A k \in 1 .. 6 : Heads[k] \subseteq Signed
    BY DEF Heads, Signed, Products, Sums, Relations, Equalities, Conjunctions, Disjunctions, Assignments
  <2>2. Assignments \subseteq Signed /\ "maybe" \in Signed /\ "list" \in Signed
    BY DEF Signed, Products, Sums, Relations, Equalities, Conjunctions, Disjunctions, Assignments
  <2>. QED
    BY <1>3, <2>1, <2>2, ExpressionRule
<1>5. rule \notin StatementRules
  <2>1. "statement" \in Statements /\ "closed" \in Statements
    BY DEF Statements
  <2>. QED
    BY <1>3, <2>1, StatementRule
<1>. QED
  BY <1>4, <1>5 DEF Rules

(* The parts of two to seven symbols.                                          *)
LEMMA SplitNone ==
  ASSUME NEW v, NEW s, NEW i, NEW j, Splits(v, s, <<>>, Len(<<>>), i, j)
  PROVE  i = j
BY DEF Splits, Split

LEMMA SplitOne ==
  ASSUME NEW v, NEW s, NEW i, NEW j, NEW a, Splits(v, s, <<a>>, Len(<<a>>), i, j)
  PROVE  Piece(v, s, a, i, j)
<1>1. PICK at : Split(v, s, <<a>>, 1, i, j, at)
  BY DEF Splits
<1>. QED
  BY <1>1 DEF Split

LEMMA SplitTwo ==
  ASSUME NEW v, NEW s, NEW i, NEW j, NEW a, NEW b,
         Splits(v, s, <<a, b>>, Len(<<a, b>>), i, j)
  PROVE  \E m1 :
           Piece(v, s, a, i, m1) /\ Piece(v, s, b, m1, j)
<1> DEFINE q == <<a, b>>
<1>1. PICK at : Split(v, s, q, 2, i, j, at)
  BY DEF Splits
<1>2. q[1] = a /\ q[2] = b
  OBVIOUS
<1> HIDE DEF q
<1>3. at[0] = i /\ at[2] = j
  BY <1>1 DEF Split
<1>4. \A m \in 1 .. 2 : Piece(v, s, q[m], at[m - 1], at[m])
  BY <1>1 DEF Split
<1>5. Piece(v, s, a, at[0], at[1]) /\ Piece(v, s, b, at[1], at[2])
  BY <1>2, <1>4
<1>. QED
  BY <1>3, <1>5

LEMMA SplitThree ==
  ASSUME NEW v, NEW s, NEW i, NEW j, NEW a, NEW b, NEW c,
         Splits(v, s, <<a, b, c>>, Len(<<a, b, c>>), i, j)
  PROVE  \E m1, m2 :
           Piece(v, s, a, i, m1) /\ Piece(v, s, b, m1, m2) /\ Piece(v, s, c, m2, j)
<1> DEFINE q == <<a, b, c>>
<1>1. PICK at : Split(v, s, q, 3, i, j, at)
  BY DEF Splits
<1>2. q[1] = a /\ q[2] = b /\ q[3] = c
  OBVIOUS
<1> HIDE DEF q
<1>3. at[0] = i /\ at[3] = j
  BY <1>1 DEF Split
<1>4. \A m \in 1 .. 3 : Piece(v, s, q[m], at[m - 1], at[m])
  BY <1>1 DEF Split
<1>5. Piece(v, s, a, at[0], at[1]) /\ Piece(v, s, b, at[1], at[2]) /\ Piece(v, s, c, at[2], at[3])
  BY <1>2, <1>4
<1>. QED
  BY <1>3, <1>5

LEMMA SplitFour ==
  ASSUME NEW v, NEW s, NEW i, NEW j, NEW a, NEW b, NEW c, NEW d,
         Splits(v, s, <<a, b, c, d>>, Len(<<a, b, c, d>>), i, j)
  PROVE  \E m1, m2, m3 :
           Piece(v, s, a, i, m1) /\ Piece(v, s, b, m1, m2) /\ Piece(v, s, c, m2, m3)
           /\ Piece(v, s, d, m3, j)
<1> DEFINE q == <<a, b, c, d>>
<1>1. PICK at : Split(v, s, q, 4, i, j, at)
  BY DEF Splits
<1>2. q[1] = a /\ q[2] = b /\ q[3] = c /\ q[4] = d
  OBVIOUS
<1> HIDE DEF q
<1>3. at[0] = i /\ at[4] = j
  BY <1>1 DEF Split
<1>4. \A m \in 1 .. 4 : Piece(v, s, q[m], at[m - 1], at[m])
  BY <1>1 DEF Split
<1>5. Piece(v, s, a, at[0], at[1]) /\ Piece(v, s, b, at[1], at[2]) /\ Piece(v, s, c, at[2], at[3])
      /\ Piece(v, s, d, at[3], at[4])
  BY <1>2, <1>4
<1>. QED
  BY <1>3, <1>5

LEMMA SplitFive ==
  ASSUME NEW v, NEW s, NEW i, NEW j, NEW a, NEW b, NEW c, NEW d, NEW e,
         Splits(v, s, <<a, b, c, d, e>>, Len(<<a, b, c, d, e>>), i, j)
  PROVE  \E m1, m2, m3, m4 :
           Piece(v, s, a, i, m1) /\ Piece(v, s, b, m1, m2) /\ Piece(v, s, c, m2, m3)
           /\ Piece(v, s, d, m3, m4) /\ Piece(v, s, e, m4, j)
<1> DEFINE q == <<a, b, c, d, e>>
<1>1. PICK at : Split(v, s, q, 5, i, j, at)
  BY DEF Splits
<1>2. q[1] = a /\ q[2] = b /\ q[3] = c /\ q[4] = d /\ q[5] = e
  OBVIOUS
<1> HIDE DEF q
<1>3. at[0] = i /\ at[5] = j
  BY <1>1 DEF Split
<1>4. \A m \in 1 .. 5 : Piece(v, s, q[m], at[m - 1], at[m])
  BY <1>1 DEF Split
<1>5. Piece(v, s, a, at[0], at[1]) /\ Piece(v, s, b, at[1], at[2]) /\ Piece(v, s, c, at[2], at[3])
      /\ Piece(v, s, d, at[3], at[4]) /\ Piece(v, s, e, at[4], at[5])
  BY <1>2, <1>4
<1>. QED
  BY <1>3, <1>5

LEMMA SplitSeven ==
  ASSUME NEW v, NEW s, NEW i, NEW j, NEW a, NEW b, NEW c, NEW d, NEW e, NEW f, NEW g,
         Splits(v, s, <<a, b, c, d, e, f, g>>, Len(<<a, b, c, d, e, f, g>>), i, j)
  PROVE  \E m1, m2, m3, m4, m5, m6 :
           Piece(v, s, a, i, m1) /\ Piece(v, s, b, m1, m2) /\ Piece(v, s, c, m2, m3)
           /\ Piece(v, s, d, m3, m4) /\ Piece(v, s, e, m4, m5) /\ Piece(v, s, f, m5, m6)
           /\ Piece(v, s, g, m6, j)
<1> DEFINE q == <<a, b, c, d, e, f, g>>
<1>1. PICK at : Split(v, s, q, 7, i, j, at)
  BY DEF Splits
<1>2. q[1] = a /\ q[2] = b /\ q[3] = c /\ q[4] = d /\ q[5] = e /\ q[6] = f /\ q[7] = g
  OBVIOUS
<1> HIDE DEF q
<1>3. at[0] = i /\ at[7] = j
  BY <1>1 DEF Split
<1>4. \A m \in 1 .. 7 : Piece(v, s, q[m], at[m - 1], at[m])
  BY <1>1 DEF Split
<1>5. Piece(v, s, a, at[0], at[1]) /\ Piece(v, s, b, at[1], at[2]) /\ Piece(v, s, c, at[2], at[3])
      /\ Piece(v, s, d, at[3], at[4]) /\ Piece(v, s, e, at[4], at[5])
      /\ Piece(v, s, f, at[5], at[6]) /\ Piece(v, s, g, at[6], at[7])
  BY <1>2, <1>4
<1>. QED
  BY <1>3, <1>5

(* The token behind the i-th is t.                                            *)
Tok(s, i, j, t) == i \in Nat /\ j = i + 1 /\ s[j] = t

LEMMA TokIs ==
  ASSUME NEW s, NEW i, NEW j, NEW t, Tok(s, i, j, t)
  PROVE  i \in Nat /\ j \in Nat /\ j = i + 1 /\ i < j /\ s[i + 1] = t /\ s[j] = t
BY DEF Tok

LEMMA PartToken ==
  ASSUME NEW v, NEW s, NEW i, NEW j, NEW t \in Words, Piece(v, s, t, i, j)
  PROVE  Tok(s, i, j, t)
BY WordsAre DEF Piece, Tok

LEMMA PartSymbol ==
  ASSUME NEW v, NEW s, NEW i, NEW j, NEW x \in Symbols, Piece(v, s, x, i, j)
  PROVE  Span(v, s, x, i, j)
BY DEF Piece

(* What an expression may be.                                                 *)
IsLeaf(s, i, j, leaves) == \E t \in leaves : Tok(s, i, j, t)
IsEnclosed(v, s, x, i, j) ==
  \E m, l : Tok(s, i, m, "LPAREN") /\ Span(v, s, x, m, l) /\ Tok(s, l, j, "RPAREN")
IsSigned(v, s, i, j) ==
  \E op \in Unary : \E m : Tok(s, i, m, op) /\ Span(v, s, "signed", m, j)
IsBinary(v, s, k, i, j) ==
  \E op \in Levels[k] : \E m, l :
    Span(v, s, Own[k], i, m) /\ Tok(s, m, l, op) /\ Span(v, s, Own[k + 1], l, j)
IsAssignment(v, s, i, j) ==
  \E m, l : Span(v, s, "name", i, m) /\ Tok(s, m, l, "ASSIGN") /\ Span(v, s, "expression", l, j)
IsList(v, s, i, j) ==
  \E m, l : Span(v, s, "list", i, m) /\ Tok(s, m, l, "COMMA") /\ Span(v, s, "expression", l, j)

IsExpression(v, s, x, i, j) ==
  \/ IsLeaf(s, i, j, Literals \cup Names)
  \/ IsEnclosed(v, s, "expression", i, j)
  \/ IsSigned(v, s, i, j)
  \/ \E k \in 1 .. 6 : x \in Heads[k] /\ IsBinary(v, s, k, i, j)
  \/ x \in Assignments /\ IsAssignment(v, s, i, j)

LEMMA ExpressionWords ==
  /\ Literals \subseteq Words /\ Names \subseteq Words /\ Unary \subseteq Words
  /\ {"LPAREN", "RPAREN", "ASSIGN", "COMMA"} \subseteq Words
  /\ "LPAREN" \in Words /\ "RPAREN" \in Words /\ "ASSIGN" \in Words /\ "COMMA" \in Words
BY DEF Words, Literals, Names, Unary

LEMMA AssignmentsWithin ==
  /\ Assignments \subseteq Signed /\ "expression" \in Assignments
  /\ \A k \in 1 .. 6 : Assignments \subseteq Heads[k] /\ Heads[k] \subseteq Signed
  /\ "name" \notin Signed /\ "maybe" \in Assignments /\ "list" \in Assignments
BY DEF Heads, Signed, Products, Sums, Relations, Equalities, Conjunctions, Disjunctions, Assignments

LEMMA ExpressionApart ==
  ASSUME NEW v \in Vocabularies, NEW s, NEW x \in Signed, NEW i, NEW j, Span(v, s, x, i, j)
  PROVE  \/ /\ IsExpression(v, s, x, i, j)
            /\ x \in Assignments => Span(v, s, "expression", i, j)
         \/ x = "maybe" /\ i = j
         \/ x = "list" /\ IsList(v, s, i, j)
<1>0. x \in Symbols
  <2>1. x \in RuleHeads
    BY DEF RuleHeads
  <2>. QED
    BY <2>1, HeadsAre
<1>1. PICK rule \in Rules : x \in rule[1] /\ By(v, s, rule, i, j)
  BY <1>0, SpanRule
<1>2. rule \in ExpressionRules
  BY <1>1, OfExpressions
<1>3. Splits(v, s, rule[2], Len(rule[2]), i, j) /\ \A y \in rule[1] : Span(v, s, y, i, j)
  BY <1>1 DEF By
<1>4. "expression" \in Symbols /\ "signed" \in Symbols /\ "name" \in Symbols /\ "list" \in Symbols
      /\ \A k \in 1 .. 7 : Own[k] \in Symbols
  BY SymbolNames, SignedIs
<1>5. CASE \E t \in Literals \cup Names : rule[2] = <<t>> /\ Signed \subseteq rule[1]
  <2>1. PICK t \in Literals \cup Names : rule[2] = <<t>> /\ Signed \subseteq rule[1]
    BY <1>5
  <2>2. Piece(v, s, t, i, j)
    BY <1>3, <2>1, SplitOne
  <2>3. Tok(s, i, j, t)
    BY <2>2, PartToken, ExpressionWords
  <2>. QED
    BY <1>3, <2>1, <2>3, AssignmentsWithin DEF IsExpression, IsLeaf
<1>6. CASE rule[1] = Signed /\ rule[2] = <<"LPAREN", "expression", "RPAREN">>
  <2>1. PICK m, l : Piece(v, s, "LPAREN", i, m) /\ Piece(v, s, "expression", m, l)
                    /\ Piece(v, s, "RPAREN", l, j)
    BY <1>3, <1>6, SplitThree
  <2>2. Tok(s, i, m, "LPAREN") /\ Span(v, s, "expression", m, l) /\ Tok(s, l, j, "RPAREN")
    BY <1>4, <2>1, PartToken, PartSymbol, ExpressionWords
  <2>. QED
    BY <1>3, <1>6, <2>2, AssignmentsWithin DEF IsExpression, IsEnclosed
<1>7. CASE \E op \in Unary : rule[1] = Signed /\ rule[2] = <<op, "signed">>
  <2>1. PICK op \in Unary : rule[1] = Signed /\ rule[2] = <<op, "signed">>
    BY <1>7
  <2>2. PICK m : Piece(v, s, op, i, m) /\ Piece(v, s, "signed", m, j)
    BY <1>3, <2>1, SplitTwo
  <2>3. Tok(s, i, m, op) /\ Span(v, s, "signed", m, j)
    BY <1>4, <2>2, PartToken, PartSymbol, ExpressionWords
  <2>. QED
    BY <1>3, <2>1, <2>3, AssignmentsWithin DEF IsExpression, IsSigned
<1>8. CASE \E k \in 1 .. 6 : \E op \in Levels[k] :
             rule[1] = Heads[k] /\ rule[2] = <<Own[k], op, Own[k + 1]>>
  <2>0. PICK k \in 1 .. 6 : \E op \in Levels[k] :
          rule[1] = Heads[k] /\ rule[2] = <<Own[k], op, Own[k + 1]>>
    BY <1>8
  <2>1. PICK op \in Levels[k] : rule[1] = Heads[k] /\ rule[2] = <<Own[k], op, Own[k + 1]>>
    BY <2>0
  <2>2. op \in Words /\ Own[k] \in Symbols /\ Own[k + 1] \in Symbols
    BY <1>4, LevelWords
  <2> DEFINE y == Own[k]
             z == Own[k + 1]
  <2>3. rule[2] = <<y, op, z>> /\ y \in Symbols /\ z \in Symbols
    BY <2>1, <2>2
  <2> HIDE DEF y, z
  <2>4. PICK m, l : Piece(v, s, y, i, m) /\ Piece(v, s, op, m, l) /\ Piece(v, s, z, l, j)
    BY <1>3, <2>3, SplitThree
  <2>5. Span(v, s, y, i, m) /\ Tok(s, m, l, op) /\ Span(v, s, z, l, j)
    BY <2>2, <2>3, <2>4, PartToken, PartSymbol
  <2>6. x \in Heads[k] /\ IsBinary(v, s, k, i, j)
    BY <1>1, <2>1, <2>5 DEF IsBinary, y, z
  <2>7. x \in Assignments => Span(v, s, "expression", i, j)
    BY <1>3, <2>1, AssignmentsWithin
  <2>. QED
    BY <2>6, <2>7 DEF IsExpression
<1>9. CASE rule[1] = Assignments /\ rule[2] = <<"name", "ASSIGN", "expression">>
  <2>1. PICK m, l : Piece(v, s, "name", i, m) /\ Piece(v, s, "ASSIGN", m, l)
                    /\ Piece(v, s, "expression", l, j)
    BY <1>3, <1>9, SplitThree
  <2>2. Span(v, s, "name", i, m) /\ Tok(s, m, l, "ASSIGN") /\ Span(v, s, "expression", l, j)
    BY <1>4, <2>1, PartToken, PartSymbol, ExpressionWords
  <2>. QED
    BY <1>1, <1>3, <1>9, <2>2, AssignmentsWithin DEF IsExpression, IsAssignment
<1>10. CASE rule[1] = {"maybe"} /\ rule[2] = <<>>
  BY <1>1, <1>3, <1>10, SplitNone
<1>11. CASE rule[1] = {"list"} /\ rule[2] = <<"list", "COMMA", "expression">>
  <2>1. PICK m, l : Piece(v, s, "list", i, m) /\ Piece(v, s, "COMMA", m, l)
                    /\ Piece(v, s, "expression", l, j)
    BY <1>3, <1>11, SplitThree
  <2>2. Span(v, s, "list", i, m) /\ Tok(s, m, l, "COMMA") /\ Span(v, s, "expression", l, j)
    BY <1>4, <2>1, PartToken, PartSymbol, ExpressionWords
  <2>. QED
    BY <1>1, <1>11, <2>2 DEF IsList
<1>12. rule[1] # {"name"}
  BY <1>1, AssignmentsWithin
<1>. QED
  BY <1>2, <1>5, <1>6, <1>7, <1>8, <1>9, <1>10, <1>11, <1>12, ExpressionRule

LEMMA NameApart ==
  ASSUME NEW v \in Vocabularies, NEW s, NEW i, NEW j, Span(v, s, "name", i, j)
  PROVE  IsLeaf(s, i, j, Names) \/ IsEnclosed(v, s, "name", i, j)
<1>1. PICK rule \in Rules : "name" \in rule[1] /\ By(v, s, rule, i, j)
  BY SymbolNames, SpanRule
<1>2. rule \in ExpressionRules
  BY <1>1, OfExpressions
<1>3. Splits(v, s, rule[2], Len(rule[2]), i, j)
  BY <1>1 DEF By
<1>4. \A k \in 1 .. 6 : "name" \notin Heads[k]
  BY AssignmentsWithin
<1>5. "name" \notin Signed /\ "name" \notin Assignments /\ "name" \notin {"maybe"} /\ "name" \notin {"list"}
  BY AssignmentsWithin
<1>6. \/ \E t \in Names : rule[2] = <<t>>
      \/ rule[2] = <<"LPAREN", "name", "RPAREN">>
  BY <1>1, <1>2, <1>4, <1>5, ExpressionRule
<1>7. CASE \E t \in Names : rule[2] = <<t>>
  <2>1. PICK t \in Names : rule[2] = <<t>>
    BY <1>7
  <2>2. Piece(v, s, t, i, j)
    BY <1>3, <2>1, SplitOne
  <2>. QED
    BY <2>2, PartToken, ExpressionWords DEF IsLeaf
<1>8. CASE rule[2] = <<"LPAREN", "name", "RPAREN">>
  <2>1. PICK m, l : Piece(v, s, "LPAREN", i, m) /\ Piece(v, s, "name", m, l) /\ Piece(v, s, "RPAREN", l, j)
    BY <1>3, <1>8, SplitThree
  <2>2. Tok(s, i, m, "LPAREN") /\ Span(v, s, "name", m, l) /\ Tok(s, l, j, "RPAREN")
    BY <2>1, PartToken, PartSymbol, ExpressionWords, SymbolNames
  <2>. QED
    BY <2>2 DEF IsEnclosed
<1>. QED
  BY <1>6, <1>7, <1>8

(* What a statement may be.                                                   *)
IsExpressionStatement(v, s, i, j) ==
  \E m1 :
    Span(v, s, "expression", i, m1) /\ Tok(s, m1, j, "SEMICOLON")
IsCompound(v, s, i, j) ==
  \E m1 :
    Span(v, s, "block", i, m1) /\ Tok(s, m1, j, "RBRACE")
IsDo(v, s, i, j) ==
  \E m1, m2, m3, m4, m5, m6 :
    Tok(s, i, m1, "DO") /\ Span(v, s, "statement", m1, m2) /\ Tok(s, m2, m3, "WHILE")
    /\ Tok(s, m3, m4, "LPAREN") /\ Span(v, s, "expression", m4, m5)
    /\ Tok(s, m5, m6, "RPAREN") /\ Tok(s, m6, j, "SEMICOLON")
IsRead(v, s, i, j) ==
  \E m1, m2, m3, m4 :
    Tok(s, i, m1, "READ") /\ Tok(s, m1, m2, "LPAREN") /\ Span(v, s, "variable", m2, m3)
    /\ Tok(s, m3, m4, "RPAREN") /\ Tok(s, m4, j, "SEMICOLON")
IsWriteNothing(v, s, i, j) ==
  \E m1, m2, m3 :
    Tok(s, i, m1, "WRITE") /\ Tok(s, m1, m2, "LPAREN") /\ Tok(s, m2, m3, "RPAREN")
    /\ Tok(s, m3, j, "SEMICOLON")
IsWrite(v, s, i, j) ==
  \E m1, m2, m3, m4 :
    Tok(s, i, m1, "WRITE") /\ Tok(s, m1, m2, "LPAREN") /\ Span(v, s, "list", m2, m3)
    /\ Tok(s, m3, m4, "RPAREN") /\ Tok(s, m4, j, "SEMICOLON")
IsIf(v, s, i, j) ==
  \E m1, m2, m3, m4 :
    Tok(s, i, m1, "IF") /\ Tok(s, m1, m2, "LPAREN") /\ Span(v, s, "expression", m2, m3)
    /\ Tok(s, m3, m4, "RPAREN") /\ Span(v, s, "statement", m4, j)
IsLabelled(v, s, x, i, j) ==
  \E m1, m2 :
    Tok(s, i, m1, "IDENTIFIER") /\ Tok(s, m1, m2, "COLON") /\ Span(v, s, x, m2, j)
IsIfElse(v, s, x, i, j) ==
  \E m1, m2, m3, m4, m5, m6 :
    Tok(s, i, m1, "IF") /\ Tok(s, m1, m2, "LPAREN") /\ Span(v, s, "expression", m2, m3)
    /\ Tok(s, m3, m4, "RPAREN") /\ Span(v, s, "closed", m4, m5) /\ Tok(s, m5, m6, "ELSE")
    /\ Span(v, s, x, m6, j)
IsWhile(v, s, x, i, j) ==
  \E m1, m2, m3, m4 :
    Tok(s, i, m1, "WHILE") /\ Tok(s, m1, m2, "LPAREN") /\ Span(v, s, "expression", m2, m3)
    /\ Tok(s, m3, m4, "RPAREN") /\ Span(v, s, x, m4, j)
IsFor(v, s, x, i, j) ==
  \E m1, m2, m3, m4, m5, m6, m7, m8 :
    Tok(s, i, m1, "FOR") /\ Tok(s, m1, m2, "LPAREN") /\ Span(v, s, "maybe", m2, m3)
    /\ Tok(s, m3, m4, "SEMICOLON") /\ Span(v, s, "maybe", m4, m5)
    /\ Tok(s, m5, m6, "SEMICOLON") /\ Span(v, s, "maybe", m6, m7)
    /\ Tok(s, m7, m8, "RPAREN") /\ Span(v, s, x, m8, j)

IsStatement(v, s, x, i, j) ==
  \/ IsExpressionStatement(v, s, i, j) \/ IsCompound(v, s, i, j) \/ IsDo(v, s, i, j)
  \/ IsRead(v, s, i, j) \/ IsWriteNothing(v, s, i, j) \/ IsWrite(v, s, i, j)
  \/ x = "statement" /\ IsIf(v, s, i, j)
  \/ IsLabelled(v, s, x, i, j) \/ IsIfElse(v, s, x, i, j)
  \/ IsWhile(v, s, x, i, j) \/ IsFor(v, s, x, i, j)

LEMMA StatementWords ==
  /\ {"SEMICOLON", "RBRACE", "DO", "WHILE", "LPAREN", "RPAREN", "READ", "WRITE", "IF", "IDENTIFIER",
      "COLON", "ELSE", "FOR", "LBRACE", "PROGRAM", "COMMA", "ASSIGN"} \subseteq Words
  /\ Types \subseteq Words
BY DEF Words, Types

LEMMA SomeStatements == \A x \in Statements : x \in Symbols
BY SymbolNames DEF Statements

LEMMA StatementApart ==
  ASSUME NEW v \in Vocabularies, NEW s, NEW x \in Statements, NEW i, NEW j, Span(v, s, x, i, j)
  PROVE  IsStatement(v, s, x, i, j)
<1>1. PICK rule \in Rules : x \in rule[1] /\ By(v, s, rule, i, j)
  BY SomeStatements, SpanRule
<1>2. rule \in StatementRules
  BY <1>1, OfStatements
<1>3. Splits(v, s, rule[2], Len(rule[2]), i, j)
  BY <1>1 DEF By
<1>4. x \in Symbols
  BY SomeStatements
<1>5. rule[1] # {"block"} /\ rule[1] # {"variable"}
  BY <1>1 DEF Statements
<1>6. CASE rule[2] = <<"expression", "SEMICOLON">>
  <2>1. PICK m1 :
          Piece(v, s, "expression", i, m1) /\ Piece(v, s, "SEMICOLON", m1, j)
    BY <1>3, <1>6, SplitTwo
  <2>2. Span(v, s, "expression", i, m1) /\ Tok(s, m1, j, "SEMICOLON")
    BY <1>4, <2>1, PartToken, PartSymbol, StatementWords, SymbolNames
  <2>3. IsExpressionStatement(v, s, i, j)
    BY <2>2 DEF IsExpressionStatement
  <2>. QED
    BY <2>3 DEF IsStatement
<1>7. CASE rule[2] = <<"block", "RBRACE">>
  <2>1. PICK m1 :
          Piece(v, s, "block", i, m1) /\ Piece(v, s, "RBRACE", m1, j)
    BY <1>3, <1>7, SplitTwo
  <2>2. Span(v, s, "block", i, m1) /\ Tok(s, m1, j, "RBRACE")
    BY <1>4, <2>1, PartToken, PartSymbol, StatementWords, SymbolNames
  <2>3. IsCompound(v, s, i, j)
    BY <2>2 DEF IsCompound
  <2>. QED
    BY <2>3 DEF IsStatement
<1>8. CASE rule[2] = <<"DO", "statement", "WHILE", "LPAREN", "expression", "RPAREN", "SEMICOLON">>
  <2>1. PICK m1, m2, m3, m4, m5, m6 :
          Piece(v, s, "DO", i, m1) /\ Piece(v, s, "statement", m1, m2)
          /\ Piece(v, s, "WHILE", m2, m3) /\ Piece(v, s, "LPAREN", m3, m4)
          /\ Piece(v, s, "expression", m4, m5) /\ Piece(v, s, "RPAREN", m5, m6)
          /\ Piece(v, s, "SEMICOLON", m6, j)
    BY <1>3, <1>8, SplitSeven
  <2>2. Tok(s, i, m1, "DO") /\ Span(v, s, "statement", m1, m2) /\ Tok(s, m2, m3, "WHILE")
        /\ Tok(s, m3, m4, "LPAREN") /\ Span(v, s, "expression", m4, m5)
        /\ Tok(s, m5, m6, "RPAREN") /\ Tok(s, m6, j, "SEMICOLON")
    BY <1>4, <2>1, PartToken, PartSymbol, StatementWords, SymbolNames
  <2>3. IsDo(v, s, i, j)
    BY <2>2 DEF IsDo
  <2>. QED
    BY <2>3 DEF IsStatement
<1>9. CASE rule[2] = <<"READ", "LPAREN", "variable", "RPAREN", "SEMICOLON">>
  <2>1. PICK m1, m2, m3, m4 :
          Piece(v, s, "READ", i, m1) /\ Piece(v, s, "LPAREN", m1, m2)
          /\ Piece(v, s, "variable", m2, m3) /\ Piece(v, s, "RPAREN", m3, m4)
          /\ Piece(v, s, "SEMICOLON", m4, j)
    BY <1>3, <1>9, SplitFive
  <2>2. Tok(s, i, m1, "READ") /\ Tok(s, m1, m2, "LPAREN") /\ Span(v, s, "variable", m2, m3)
        /\ Tok(s, m3, m4, "RPAREN") /\ Tok(s, m4, j, "SEMICOLON")
    BY <1>4, <2>1, PartToken, PartSymbol, StatementWords, SymbolNames
  <2>3. IsRead(v, s, i, j)
    BY <2>2 DEF IsRead
  <2>. QED
    BY <2>3 DEF IsStatement
<1>10. CASE rule[2] = <<"WRITE", "LPAREN", "RPAREN", "SEMICOLON">>
  <2>1. PICK m1, m2, m3 :
          Piece(v, s, "WRITE", i, m1) /\ Piece(v, s, "LPAREN", m1, m2)
          /\ Piece(v, s, "RPAREN", m2, m3) /\ Piece(v, s, "SEMICOLON", m3, j)
    BY <1>3, <1>10, SplitFour
  <2>2. Tok(s, i, m1, "WRITE") /\ Tok(s, m1, m2, "LPAREN") /\ Tok(s, m2, m3, "RPAREN")
        /\ Tok(s, m3, j, "SEMICOLON")
    BY <1>4, <2>1, PartToken, PartSymbol, StatementWords, SymbolNames
  <2>3. IsWriteNothing(v, s, i, j)
    BY <2>2 DEF IsWriteNothing
  <2>. QED
    BY <2>3 DEF IsStatement
<1>11. CASE rule[2] = <<"WRITE", "LPAREN", "list", "RPAREN", "SEMICOLON">>
  <2>1. PICK m1, m2, m3, m4 :
          Piece(v, s, "WRITE", i, m1) /\ Piece(v, s, "LPAREN", m1, m2) /\ Piece(v, s, "list", m2, m3)
          /\ Piece(v, s, "RPAREN", m3, m4) /\ Piece(v, s, "SEMICOLON", m4, j)
    BY <1>3, <1>11, SplitFive
  <2>2. Tok(s, i, m1, "WRITE") /\ Tok(s, m1, m2, "LPAREN") /\ Span(v, s, "list", m2, m3)
        /\ Tok(s, m3, m4, "RPAREN") /\ Tok(s, m4, j, "SEMICOLON")
    BY <1>4, <2>1, PartToken, PartSymbol, StatementWords, SymbolNames
  <2>3. IsWrite(v, s, i, j)
    BY <2>2 DEF IsWrite
  <2>. QED
    BY <2>3 DEF IsStatement
<1>12. CASE rule[2] = <<"IF", "LPAREN", "expression", "RPAREN", "statement">>
  <2>1. PICK m1, m2, m3, m4 :
          Piece(v, s, "IF", i, m1) /\ Piece(v, s, "LPAREN", m1, m2)
          /\ Piece(v, s, "expression", m2, m3) /\ Piece(v, s, "RPAREN", m3, m4)
          /\ Piece(v, s, "statement", m4, j)
    BY <1>3, <1>12, SplitFive
  <2>2. Tok(s, i, m1, "IF") /\ Tok(s, m1, m2, "LPAREN") /\ Span(v, s, "expression", m2, m3)
        /\ Tok(s, m3, m4, "RPAREN") /\ Span(v, s, "statement", m4, j)
    BY <1>4, <2>1, PartToken, PartSymbol, StatementWords, SymbolNames
  <2>3. IsIf(v, s, i, j)
    BY <2>2 DEF IsIf
  <2>4. CASE x = "statement"
    BY <2>3, <2>4 DEF IsStatement
  <2>5. rule[1] = {"statement"}
    <3>1. \A y : <<"IF", "LPAREN", "expression", "RPAREN", "statement">> # <<"WHILE", "LPAREN", "expression", "RPAREN", y>>
      OBVIOUS
    <3>. QED
      BY <1>2, <1>12, StatementRule
  <2>. QED
    BY <1>1, <2>4, <2>5
<1>13. CASE rule[2] = <<"IDENTIFIER", "COLON", x>>
  <2>1. PICK m1, m2 :
          Piece(v, s, "IDENTIFIER", i, m1) /\ Piece(v, s, "COLON", m1, m2) /\ Piece(v, s, x, m2, j)
    BY <1>3, <1>13, SplitThree
  <2>2. Tok(s, i, m1, "IDENTIFIER") /\ Tok(s, m1, m2, "COLON") /\ Span(v, s, x, m2, j)
    BY <1>4, <2>1, PartToken, PartSymbol, StatementWords, SymbolNames
  <2>3. IsLabelled(v, s, x, i, j)
    BY <2>2 DEF IsLabelled
  <2>. QED
    BY <2>3 DEF IsStatement
<1>14. CASE rule[2] = <<"IF", "LPAREN", "expression", "RPAREN", "closed", "ELSE", x>>
  <2>1. PICK m1, m2, m3, m4, m5, m6 :
          Piece(v, s, "IF", i, m1) /\ Piece(v, s, "LPAREN", m1, m2)
          /\ Piece(v, s, "expression", m2, m3) /\ Piece(v, s, "RPAREN", m3, m4)
          /\ Piece(v, s, "closed", m4, m5) /\ Piece(v, s, "ELSE", m5, m6) /\ Piece(v, s, x, m6, j)
    BY <1>3, <1>14, SplitSeven
  <2>2. Tok(s, i, m1, "IF") /\ Tok(s, m1, m2, "LPAREN") /\ Span(v, s, "expression", m2, m3)
        /\ Tok(s, m3, m4, "RPAREN") /\ Span(v, s, "closed", m4, m5) /\ Tok(s, m5, m6, "ELSE")
        /\ Span(v, s, x, m6, j)
    BY <1>4, <2>1, PartToken, PartSymbol, StatementWords, SymbolNames
  <2>3. IsIfElse(v, s, x, i, j)
    BY <2>2 DEF IsIfElse
  <2>. QED
    BY <2>3 DEF IsStatement
<1>15. CASE rule[2] = <<"WHILE", "LPAREN", "expression", "RPAREN", x>>
  <2>1. PICK m1, m2, m3, m4 :
          Piece(v, s, "WHILE", i, m1) /\ Piece(v, s, "LPAREN", m1, m2)
          /\ Piece(v, s, "expression", m2, m3) /\ Piece(v, s, "RPAREN", m3, m4)
          /\ Piece(v, s, x, m4, j)
    BY <1>3, <1>15, SplitFive
  <2>2. Tok(s, i, m1, "WHILE") /\ Tok(s, m1, m2, "LPAREN") /\ Span(v, s, "expression", m2, m3)
        /\ Tok(s, m3, m4, "RPAREN") /\ Span(v, s, x, m4, j)
    BY <1>4, <2>1, PartToken, PartSymbol, StatementWords, SymbolNames
  <2>3. IsWhile(v, s, x, i, j)
    BY <2>2 DEF IsWhile
  <2>. QED
    BY <2>3 DEF IsStatement
<1>16. CASE rule[2] = <<"FOR", "LPAREN", "maybe", "SEMICOLON", "maybe", "SEMICOLON", "maybe", "RPAREN", x>>
  <2> DEFINE q == <<"FOR", "LPAREN", "maybe", "SEMICOLON", "maybe", "SEMICOLON", "maybe", "RPAREN", x>>
  <2>1. PICK at : Split(v, s, q, 9, i, j, at)
    BY <1>3, <1>16 DEF Splits
  <2>2. q[1] = "FOR" /\ q[2] = "LPAREN" /\ q[3] = "maybe" /\ q[4] = "SEMICOLON"
        /\ q[5] = "maybe" /\ q[6] = "SEMICOLON" /\ q[7] = "maybe" /\ q[8] = "RPAREN" /\ q[9] = x
    OBVIOUS
  <2> HIDE DEF q
  <2>3. at[0] = i /\ at[9] = j /\ \A m \in 1 .. 9 : Piece(v, s, q[m], at[m - 1], at[m])
    BY <2>1 DEF Split
  <2>4. Piece(v, s, "FOR", at[0], at[1]) /\ Piece(v, s, "LPAREN", at[1], at[2])
        /\ Piece(v, s, "maybe", at[2], at[3]) /\ Piece(v, s, "SEMICOLON", at[3], at[4])
        /\ Piece(v, s, "maybe", at[4], at[5]) /\ Piece(v, s, "SEMICOLON", at[5], at[6])
        /\ Piece(v, s, "maybe", at[6], at[7]) /\ Piece(v, s, "RPAREN", at[7], at[8])
        /\ Piece(v, s, x, at[8], at[9])
    BY <2>2, <2>3
  <2>5. Tok(s, at[0], at[1], "FOR") /\ Tok(s, at[1], at[2], "LPAREN")
        /\ Span(v, s, "maybe", at[2], at[3]) /\ Tok(s, at[3], at[4], "SEMICOLON")
        /\ Span(v, s, "maybe", at[4], at[5]) /\ Tok(s, at[5], at[6], "SEMICOLON")
        /\ Span(v, s, "maybe", at[6], at[7]) /\ Tok(s, at[7], at[8], "RPAREN")
        /\ Span(v, s, x, at[8], at[9])
    BY <1>4, <2>4, PartToken, PartSymbol, StatementWords, SymbolNames
  <2> HIDE DEF q
  <2>6. IsFor(v, s, x, i, j)
    BY <2>3, <2>5 DEF IsFor
  <2>. QED
    BY <2>6 DEF IsStatement
<1>. QED
  BY <1>1, <1>2, <1>5, <1>6, <1>7, <1>8, <1>9, <1>10, <1>11, <1>12, <1>13, <1>14, <1>15, <1>16, StatementRule

LEMMA BlockApart ==
  ASSUME NEW v \in Vocabularies, NEW s, NEW i, NEW j, Span(v, s, "block", i, j)
  PROVE  \/ Tok(s, i, j, "LBRACE")
         \/ \E m : Span(v, s, "block", i, m) /\ Span(v, s, "statement", m, j)
<1>1. PICK rule \in Rules : "block" \in rule[1] /\ By(v, s, rule, i, j)
  BY SymbolNames, SpanRule
<1>2. rule \in StatementRules
  BY <1>1, OfStatements
<1>3. Splits(v, s, rule[2], Len(rule[2]), i, j)
  BY <1>1 DEF By
<1>4. rule[2] = <<"LBRACE">> \/ rule[2] = <<"block", "statement">>
  <2>1. "block" \notin Statements
    BY DEF Statements
  <2>. QED
    BY <1>1, <1>2, <2>1, StatementRule
<1>5. CASE rule[2] = <<"LBRACE">>
  BY <1>3, <1>5, SplitOne, PartToken, StatementWords
<1>6. CASE rule[2] = <<"block", "statement">>
  <2>1. PICK m : Piece(v, s, "block", i, m) /\ Piece(v, s, "statement", m, j)
    BY <1>3, <1>6, SplitTwo
  <2>. QED
    BY <2>1, PartSymbol, SymbolNames
<1>. QED
  BY <1>4, <1>5, <1>6

LEMMA VariableApart ==
  ASSUME NEW v \in Vocabularies, NEW s, NEW i, NEW j, Span(v, s, "variable", i, j)
  PROVE  Tok(s, i, j, "IDENTIFIER")
<1>1. PICK rule \in Rules : "variable" \in rule[1] /\ By(v, s, rule, i, j)
  BY SymbolNames, SpanRule
<1>2. rule \in StatementRules
  BY <1>1, OfStatements
<1>3. Splits(v, s, rule[2], Len(rule[2]), i, j)
  BY <1>1 DEF By
<1>4. rule[2] = <<"IDENTIFIER">>
  <2>1. "variable" \notin Statements
    BY DEF Statements
  <2>. QED
    BY <1>1, <1>2, <2>1, StatementRule
<1>. QED
  BY <1>3, <1>4, SplitOne, PartToken, StatementWords

(* What the variables of a type may be.                                       *)
IsVariable(v, s, i, j) ==
  \/ Tok(s, i, j, "IDENTIFIER")
  \/ \E m, l : Tok(s, i, m, "IDENTIFIER") /\ Tok(s, m, l, "ASSIGN") /\ Span(v, s, "expression", l, j)
IsVariables(v, s, t, i, j) ==
  \/ IsVariable(v, s, i, j)
  \/ \E m, l : Span(v, s, All[t], i, m) /\ Tok(s, m, l, "COMMA") /\ Span(v, s, One[t], l, j)

LEMMA NamesOfTypes ==
  ASSUME NEW t \in Types
  PROVE  /\ One[t] # "program" /\ All[t] # "program" /\ One[t] # "declaration" /\ All[t] # "declaration"
         /\ \A u \in Types : One[t] # All[u] /\ (One[t] = One[u] => t = u) /\ (All[t] = All[u] => t = u)
BY DEF One, All, Types

LEMMA VariablesApart ==
  ASSUME NEW v \in Vocabularies, NEW s, NEW t \in Types, NEW x \in {One[t], All[t]}, NEW i, NEW j,
         Span(v, s, x, i, j)
  PROVE  \/ IsVariable(v, s, i, j)
         \/ x = All[t] /\ IsVariables(v, s, t, i, j)
<1>1. PICK rule \in Rules : x \in rule[1] /\ By(v, s, rule, i, j)
  BY SymbolNames, SpanRule
<1>2. rule \in ProgramRules
  BY <1>1, OfPrograms
<1>3. Splits(v, s, rule[2], Len(rule[2]), i, j)
  BY <1>1 DEF By
<1>4. PICK u \in Types : rule \in OfType(u)
  BY <1>1, <1>2, NamesOfTypes, ProgramRule
<1>5. \/ rule[1] = {One[u], All[u]} /\ rule[2] = <<"IDENTIFIER">>
      \/ rule[1] = {One[u], All[u]} /\ rule[2] = <<"IDENTIFIER", "ASSIGN", "expression">>
      \/ rule[1] = {All[u]} /\ rule[2] = <<All[u], "COMMA", One[u]>>
      \/ rule[1] = {"declaration"} /\ rule[2] = <<u, All[u]>>
  BY <1>4, TypeRule
<1>6. u = t /\ rule[1] # {"declaration"}
  BY <1>1, <1>5, NamesOfTypes
<1>7. CASE rule[2] = <<"IDENTIFIER">>
  <2>1. Piece(v, s, "IDENTIFIER", i, j)
    BY <1>3, <1>7, SplitOne
  <2>. QED
    BY <2>1, PartToken, StatementWords DEF IsVariable
<1>8. CASE rule[2] = <<"IDENTIFIER", "ASSIGN", "expression">>
  <2>1. PICK m, l : Piece(v, s, "IDENTIFIER", i, m) /\ Piece(v, s, "ASSIGN", m, l)
                    /\ Piece(v, s, "expression", l, j)
    BY <1>3, <1>8, SplitThree
  <2>2. Tok(s, i, m, "IDENTIFIER") /\ Tok(s, m, l, "ASSIGN") /\ Span(v, s, "expression", l, j)
    BY <2>1, PartToken, PartSymbol, StatementWords, SymbolNames
  <2>. QED
    BY <2>2 DEF IsVariable
<1>9. CASE rule[1] = {All[u]} /\ rule[2] = <<All[u], "COMMA", One[u]>>
  <2> DEFINE y == All[t]
             z == One[t]
  <2>1. rule[2] = <<y, "COMMA", z>> /\ y \in Symbols /\ z \in Symbols
    BY <1>6, <1>9, SymbolNames
  <2> HIDE DEF y, z
  <2>2. PICK m, l : Piece(v, s, y, i, m) /\ Piece(v, s, "COMMA", m, l) /\ Piece(v, s, z, l, j)
    BY <1>3, <2>1, SplitThree
  <2>3. Span(v, s, y, i, m) /\ Tok(s, m, l, "COMMA") /\ Span(v, s, z, l, j)
    BY <2>1, <2>2, PartToken, PartSymbol, StatementWords
  <2>4. IsVariables(v, s, t, i, j)
    BY <2>3 DEF IsVariables, y, z
  <2>. QED
    BY <1>1, <1>6, <1>9, <2>4
<1>. QED
  BY <1>5, <1>6, <1>7, <1>8, <1>9

LEMMA DeclarationApart ==
  ASSUME NEW v \in Vocabularies, NEW s, NEW i, NEW j, Span(v, s, "declaration", i, j)
  PROVE  \E t \in Types : \E m : Tok(s, i, m, t) /\ Span(v, s, All[t], m, j)
<1>1. PICK rule \in Rules : "declaration" \in rule[1] /\ By(v, s, rule, i, j)
  BY SymbolNames, SpanRule
<1>2. rule \in ProgramRules
  BY <1>1, OfPrograms
<1>3. Splits(v, s, rule[2], Len(rule[2]), i, j)
  BY <1>1 DEF By
<1>4. PICK u \in Types : rule \in OfType(u)
  BY <1>1, <1>2, ProgramRule
<1>5. rule[2] = <<u, All[u]>>
  BY <1>1, <1>4, NamesOfTypes, TypeRule
<1> DEFINE y == All[u]
<1>6. rule[2] = <<u, y>> /\ y \in Symbols /\ u \in Words
  BY <1>5, SymbolNames, StatementWords
<1> HIDE DEF y
<1>7. PICK m : Piece(v, s, u, i, m) /\ Piece(v, s, y, m, j)
  BY <1>3, <1>6, SplitTwo
<1>8. Tok(s, i, m, u) /\ Span(v, s, y, m, j)
  BY <1>6, <1>7, PartToken, PartSymbol
<1>. QED
  BY <1>8 DEF y

LEMMA ProgramApart ==
  ASSUME NEW v \in Vocabularies, NEW s, NEW i, NEW j, Span(v, s, "program", i, j)
  PROVE  \/ Tok(s, i, j, "PROGRAM")
         \/ \E m : Span(v, s, "program", i, m) /\ Span(v, s, "statement", m, j)
         \/ \E m : Span(v, s, "program", i, m) /\ Span(v, s, "declaration", m, j)
         \/ \E m, l : Span(v, s, "program", i, m) /\ Span(v, s, "declaration", m, l)
                      /\ Tok(s, l, j, "SEMICOLON")
<1>1. PICK rule \in Rules : "program" \in rule[1] /\ By(v, s, rule, i, j)
  BY SymbolNames, SpanRule
<1>2. rule \in ProgramRules
  BY <1>1, OfPrograms
<1>3. Splits(v, s, rule[2], Len(rule[2]), i, j)
  BY <1>1 DEF By
<1>4. \A u \in Types : rule \notin OfType(u)
  BY <1>1, NamesOfTypes, TypeRule
<1>5. CASE rule[2] = <<"PROGRAM">>
  BY <1>3, <1>5, SplitOne, PartToken, StatementWords
<1>6. CASE rule[2] = <<"program", "statement">>
  <2>1. PICK m : Piece(v, s, "program", i, m) /\ Piece(v, s, "statement", m, j)
    BY <1>3, <1>6, SplitTwo
  <2>. QED
    BY <2>1, PartSymbol, SymbolNames
<1>7. CASE rule[2] = <<"program", "declaration">>
  <2>1. PICK m : Piece(v, s, "program", i, m) /\ Piece(v, s, "declaration", m, j)
    BY <1>3, <1>7, SplitTwo
  <2>. QED
    BY <2>1, PartSymbol, SymbolNames
<1>8. CASE rule[2] = <<"program", "declaration", "SEMICOLON">>
  <2>1. PICK m, l : Piece(v, s, "program", i, m) /\ Piece(v, s, "declaration", m, l)
                    /\ Piece(v, s, "SEMICOLON", l, j)
    BY <1>3, <1>8, SplitThree
  <2>2. Span(v, s, "program", i, m) /\ Span(v, s, "declaration", m, l) /\ Tok(s, l, j, "SEMICOLON")
    BY <2>1, PartToken, PartSymbol, StatementWords, SymbolNames
  <2>. QED
    BY <2>2
<1>. QED
  BY <1>2, <1>4, <1>5, <1>6, <1>7, <1>8, ProgramRule

-----------------------------------------------------------------------------
(* What the parser does with a script, as far as it may throw: the calls still  *)
(* to come, where in the tokens it is, and whether what it has built last is a  *)
(* name.  Moves is what a call h does behind the i-th token; a call that throws *)
(* there has no move.                                                         *)

MoveProgram(s, i, todo, j) ==
  /\ j = i
  /\ \/ s[i + 1] \in Types /\ todo = <<Call("type"), Call("declarations"), Call("program")>>
     \/ s[i + 1] \notin Types \cup {END} /\ todo = <<Statement, Call("push_back"), Call("program")>>
     \/ s[i + 1] = END /\ todo = <<>>
MoveType(s, i, todo, j) ==
  /\ j = i + 1
  /\ todo = <<Of("variable", s[i + 1]), Call("push_back"), Of("more", Of("variable", s[i + 1]))>>
MoveDeclarations(s, i, todo, j) ==
  \/ /\ s[i + 1] = "SEMICOLON" /\ s[i + 2] \in Types
     /\ todo = <<Call("type"), Call("declarations")>> /\ j = i + 1
  \/ s[i + 1] = "SEMICOLON" /\ s[i + 2] \notin Types /\ todo = <<Call("declared")>> /\ j = i + 1
  \/ s[i + 1] # "SEMICOLON" /\ todo = <<Call("declared")>> /\ j = i
MoveMore(s, item, i, todo, j) ==
  \/ s[i + 1] = "COMMA" /\ todo = <<item, Call("push_back"), Of("more", item)>> /\ j = i + 1
  \/ s[i + 1] # "COMMA" /\ todo = <<>> /\ j = i
MoveInitializer(s, type, i, todo, j) ==
  \/ s[i + 1] = "ASSIGN" /\ todo = <<Expression, VariableDecl(type, 2)>> /\ j = i + 1
  \/ s[i + 1] # "ASSIGN" /\ todo = <<VariableDecl(type, 1)>> /\ j = i
MoveUnary(s, i, todo, j) ==
  \/ s[i + 1] \in Unary /\ todo = <<Call("unary"), UnaryOp(s[i + 1])>> /\ j = i + 1
  \/ s[i + 1] \notin Unary /\ todo = <<Call("primary")>> /\ j = i
MoveBlock(s, i, todo, j) ==
  /\ j = i
  /\ \/ s[i + 1] = "RBRACE" /\ todo = <<Expect("RBRACE")>>
     \/ s[i + 1] # "RBRACE" /\ todo = <<Statement, Call("push_back"), Call("block")>>
MoveElse(s, i, todo, j) ==
  \/ s[i + 1] = "ELSE" /\ todo = <<Statement, IfStatement(3)>> /\ j = i + 1
  \/ s[i + 1] # "ELSE" /\ todo = <<IfStatement(2)>> /\ j = i
MoveOptional(s, end, i, todo, j) ==
  /\ j = i
  /\ \/ s[i + 1] = end /\ todo = <<>>
     \/ s[i + 1] # end /\ todo = <<Expression>>
MoveArguments(s, i, todo, j) ==
  /\ j = i
  /\ \/ s[i + 1] = "RPAREN" /\ todo = <<>>
     \/ s[i + 1] # "RPAREN" /\ todo = <<Expression, Call("push_back"), Of("more", Expression)>>
MoveStatement(s, i, todo, j) ==
  /\ j = i
  /\ \/ s[i + 1] = "LBRACE" /\ todo = <<Expect("LBRACE"), Call("block")>>
     \/ s[i + 1] = "IF" /\ todo = <<Expect("IF")>> \o Condition \o <<Statement, Call("else")>>
     \/ s[i + 1] = "WHILE" /\ todo = <<Expect("WHILE")>> \o Condition \o <<Statement, WhileStatement>>
     \/ s[i + 1] = "DO" /\ todo = <<Expect("DO"), Statement, Expect("WHILE")>> \o Condition
                                    \o <<Expect("SEMICOLON"), DoWhileStatement>>
     \/ s[i + 1] = "FOR" /\ todo = <<Expect("FOR"), Expect("LPAREN"),
                                     Optional("SEMICOLON"), Expect("SEMICOLON"),
                                     Optional("SEMICOLON"), Expect("SEMICOLON"),
                                     Optional("RPAREN"), Expect("RPAREN"), Statement, ForStatement>>
     \/ s[i + 1] = "READ" /\ todo = <<Expect("READ"), Expect("LPAREN"), Call("identifier"),
                                      Expect("RPAREN"), Expect("SEMICOLON"), ReadStatement>>
     \/ s[i + 1] = "WRITE" /\ todo = <<Expect("WRITE"), Expect("LPAREN"), Call("arguments"),
                                       Expect("RPAREN"), Expect("SEMICOLON")>>
     \/ /\ s[i + 1] = "IDENTIFIER" /\ s[i + 2] = "COLON"
        /\ todo = <<Expect("IDENTIFIER"), Expect("COLON"), Statement>>
     \/ /\ s[i + 1] \notin Keywords /\ ~(s[i + 1] = "IDENTIFIER" /\ s[i + 2] = "COLON")
        /\ todo = <<Expression, Expect("SEMICOLON"), ExpressionStatement>>

(* Of these calls it does not matter what they build.                          *)
MoveSimply(s, h, i, todo, j) ==
  \/ h[1] \in {"make", "push_back", "declared"} /\ todo = <<>> /\ j = i
  \/ h[1] = "program" /\ MoveProgram(s, i, todo, j)
  \/ h[1] = "type" /\ MoveType(s, i, todo, j)
  \/ h[1] = "declarations" /\ MoveDeclarations(s, i, todo, j)
  \/ h[1] = "more" /\ MoveMore(s, h[2], i, todo, j)
  \/ h[1] = "identifier" /\ s[i + 1] = "IDENTIFIER" /\ todo = <<>> /\ j = i + 1
  \/ h[1] = "variable" /\ todo = <<Call("identifier"), Of("initializer", h[2])>> /\ j = i
  \/ h[1] = "initializer" /\ MoveInitializer(s, h[2], i, todo, j)
  \/ h[1] = "assignment" /\ todo = Operand(1) \o <<Call("assign")>> /\ j = i
  \/ h[1] = "unary" /\ MoveUnary(s, i, todo, j)
  \/ h[1] = "block" /\ MoveBlock(s, i, todo, j)
  \/ h[1] = "else" /\ MoveElse(s, i, todo, j)
  \/ h[1] = "optional" /\ MoveOptional(s, h[2], i, todo, j)
  \/ h[1] = "arguments" /\ MoveArguments(s, i, todo, j)
  \/ h[1] = "statement" /\ MoveStatement(s, i, todo, j)

MoveExpect(s, t, i, p, todo, j, u) == s[i + 1] = t /\ todo = <<>> /\ j = i + 1 /\ u = p
MoveAssign(s, i, p, todo, j, u) ==
  \/ s[i + 1] # "ASSIGN" /\ todo = <<>> /\ j = i /\ u = p
  \/ /\ s[i + 1] = "ASSIGN" /\ p = "name"
     /\ todo = <<Expression, Assignment>> /\ j = i + 1 /\ u = "other"
MoveOperators(s, k, i, p, todo, j, u) ==
  \/ s[i + 1] \notin Levels[k] /\ todo = <<>> /\ j = i /\ u = p
  \/ /\ s[i + 1] \in Levels[k]
     /\ todo = Operand(k + 1) \o <<BinaryOp(s[i + 1]), Of("operators", k)>> /\ j = i + 1
     /\ u = "other"
MovePrimary(s, i, todo, j, u) ==
  /\ j = i + 1
  /\ \/ s[i + 1] \in Names /\ todo = <<>> /\ u = "name"
     \/ s[i + 1] \in Literals /\ todo = <<>> /\ u = "other"
     \/ s[i + 1] = "LPAREN" /\ todo = <<Expression, Expect("RPAREN")>> /\ u = "other"

Moves(s, h, i, p, todo, j, u) ==
  \/ MoveSimply(s, h, i, todo, j) /\ u = "other"
  \/ h[1] = "expect" /\ MoveExpect(s, h[2], i, p, todo, j, u)
  \/ h[1] = "assign" /\ MoveAssign(s, i, p, todo, j, u)
  \/ h[1] = "operators" /\ MoveOperators(s, h[2], i, p, todo, j, u)
  \/ h[1] = "primary" /\ MovePrimary(s, i, todo, j, u)

(* From there it need never throw.                                            *)
Sound(s, W) ==
  \A q, i, p : <<q, i, p>> \in W =>
    \/ q = <<>>
    \/ \E todo, j, u : Moves(s, Head(q), i, p, todo, j, u) /\ <<todo \o Tail(q), j, u>> \in W
Accepts(s, q, i, p) == \E W : Sound(s, W) /\ <<q, i, p>> \in W
Accepted(s, q, i)   == Accepts(s, q, i, "name") /\ Accepts(s, q, i, "other")

On(h, t) == <<h>> \o t

LEMMA OnIs ==
  ASSUME NEW h, NEW t, IsSeq(t)
  PROVE  IsSeq(On(h, t)) /\ On(h, t) # <<>> /\ Head(On(h, t)) = h /\ Tail(On(h, t)) = t
BY Pushed DEF On

LEMMA AcceptEnd == \A s, i : Accepted(s, <<>>, i)
<1>1. ASSUME NEW s, NEW i, NEW p PROVE Accepts(s, <<>>, i, p)
  <2>1. Sound(s, {<<<<>>, i, p>>})
    BY DEF Sound
  <2>. QED
    BY <2>1 DEF Accepts
<1>. QED
  BY <1>1 DEF Accepted

LEMMA AcceptStep ==
  ASSUME NEW s, NEW h, NEW t, IsSeq(t), NEW i, NEW p, NEW todo, NEW j, NEW u,
         Moves(s, h, i, p, todo, j, u), Accepts(s, todo \o t, j, u)
  PROVE  Accepts(s, On(h, t), i, p)
<1>1. PICK W : Sound(s, W) /\ <<todo \o t, j, u>> \in W
  BY DEF Accepts
<1> DEFINE Q == On(h, t)
           V == W \cup {<<Q, i, p>>}
<1>2. Head(Q) = h /\ Tail(Q) = t
  BY OnIs
<1> HIDE DEF Q
<1>3. ASSUME NEW r, NEW k, NEW o, <<r, k, o>> \in V
      PROVE  \/ r = <<>>
             \/ \E a, b, c : Moves(s, Head(r), k, o, a, b, c) /\ <<a \o Tail(r), b, c>> \in V
  <2>1. CASE <<r, k, o>> \in W
    BY <1>1, <2>1 DEF Sound
  <2>2. CASE <<r, k, o>> = <<Q, i, p>>
    <3>1. r = Q /\ k = i /\ o = p
      BY <2>2
    <3>2. Moves(s, Head(r), k, o, todo, j, u) /\ <<todo \o Tail(r), j, u>> \in V
      BY <1>1, <1>2, <3>1
    <3>. QED
      BY <3>2
  <2>. QED
    BY <1>3, <2>1, <2>2
<1>4. Sound(s, V) /\ <<Q, i, p>> \in V
  BY <1>3 DEF Sound
<1>. QED
  BY <1>4 DEF Accepts, Q

LEMMA AcceptBack ==
  ASSUME NEW s, NEW q, q # <<>>, NEW i, NEW p, Accepts(s, q, i, p)
  PROVE  \E todo, j, u : Moves(s, Head(q), i, p, todo, j, u) /\ Accepts(s, todo \o Tail(q), j, u)
<1>1. PICK W : Sound(s, W) /\ <<q, i, p>> \in W
  BY DEF Accepts
<1>2. PICK todo, j, u : Moves(s, Head(q), i, p, todo, j, u) /\ <<todo \o Tail(q), j, u>> \in W
  BY <1>1 DEF Sound
<1>. QED
  BY <1>1, <1>2 DEF Accepts

LEMMA SimplyOn ==
  ASSUME NEW s, NEW h, NEW t, IsSeq(t), NEW i, NEW todo, NEW j,
         MoveSimply(s, h, i, todo, j), Accepted(s, todo \o t, j)
  PROVE  Accepted(s, On(h, t), i)
<1>1. \A p : Moves(s, h, i, p, todo, j, "other")
  BY DEF Moves
<1>2. Accepts(s, todo \o t, j, "other")
  BY DEF Accepted
<1>3. \A p : Accepts(s, On(h, t), i, p)
  BY <1>1, <1>2, AcceptStep
<1>. QED
  BY <1>3 DEF Accepted

(* The stack with todo on it.                                                 *)
LEMMA OnNone == ASSUME NEW t, IsSeq(t) PROVE <<>> \o t = t
BY ConcatEmpty

LEMMA OnOne == ASSUME NEW a, NEW t PROVE <<a>> \o t = On(a, t)
BY DEF On

LEMMA OnTwo ==
  ASSUME NEW a, NEW b, NEW t, IsSeq(t)
  PROVE  <<a, b>> \o t = On(a, On(b, t))
BY StackedTwo DEF On

LEMMA OnThree ==
  ASSUME NEW a, NEW b, NEW c, NEW t, IsSeq(t)
  PROVE  <<a, b, c>> \o t = On(a, On(b, On(c, t)))
<1>1. Three(c, b, a, t)
  BY StackedThree
<1>. QED
  BY <1>1 DEF On, Three

LEMMA OnFour ==
  ASSUME NEW a, NEW b, NEW c, NEW d, NEW t, IsSeq(t)
  PROVE  <<a, b, c, d>> \o t = On(a, On(b, On(c, On(d, t))))
<1>1. Four(d, c, b, a, t)
  BY StackedFour
<1>. QED
  BY <1>1 DEF On, Four

LEMMA OnFive ==
  ASSUME NEW a, NEW b, NEW c, NEW d, NEW e, NEW t, IsSeq(t)
  PROVE  <<a, b, c, d, e>> \o t = On(a, On(b, On(c, On(d, On(e, t)))))
<1> DEFINE p == <<a, b, c, d>>
           q == <<e>>
           r == <<a, b, c, d, e>>
<1>1. r = p \o q
  <2>1. /\ r \in Seq({a, b, c, d, e}) /\ Len(r) = 5
        /\ r[1] = a /\ r[2] = b /\ r[3] = c /\ r[4] = d /\ r[5] = e
    OBVIOUS
  <2>2. /\ IsSeq(p) /\ Len(p) = 4 /\ p[1] = a /\ p[2] = b /\ p[3] = c /\ p[4] = d
        /\ IsSeq(q) /\ Len(q) = 1 /\ q[1] = e
    BY TuplesAre, OneIsSeq
  <2> HIDE DEF p, q, r
  <2>8. IsSeq(p) /\ IsSeq(q)
    BY <2>2
  <2>7. /\ IsSeq(p \o q) /\ Len(p \o q) = Len(p) + Len(q)
        /\ \A m \in 1 .. Len(p) : (p \o q)[m] = p[m]
        /\ \A m \in 1 .. Len(q) : (p \o q)[Len(p) + m] = q[m]
    BY <2>8, ConcatIs
  <2>3. /\ IsSeq(p \o q) /\ Len(p \o q) = 5 /\ (\A m \in 1 .. 4 : (p \o q)[m] = p[m])
        /\ \A m \in 1 .. 1 : (p \o q)[4 + m] = q[m]
    BY <2>2, <2>7
  <2>4. (p \o q)[5] = e
    BY <2>2, <2>3
  <2>5. \A m \in 1 .. 5 : m = 1 \/ m = 2 \/ m = 3 \/ m = 4 \/ m = 5
    OBVIOUS
  <2>6. \A m \in 1 .. 5 : r[m] = (p \o q)[m]
    BY <2>1, <2>2, <2>3, <2>4, <2>5
  <2>. QED
    BY <2>1, <2>3, <2>6, SameSeq DEF IsSeq
<1>2. IsSeq(p) /\ IsSeq(q) /\ q \o t = On(e, t) /\ IsSeq(On(e, t))
  BY TuplesAre, OneIsSeq, OnIs, OnOne
<1>3. (p \o q) \o t = p \o (q \o t)
  BY <1>2, ConcatAssoc
<1>4. p \o On(e, t) = On(a, On(b, On(c, On(d, On(e, t)))))
  BY <1>2, OnFour
<1>. QED
  BY <1>1, <1>2, <1>3, <1>4

LEMMA OnSix ==
  ASSUME NEW a, NEW b, NEW c, NEW d, NEW e, NEW f, NEW t, IsSeq(t)
  PROVE  <<a, b, c, d, e, f>> \o t = On(a, On(b, On(c, On(d, On(e, On(f, t))))))
<1> DEFINE p == <<a, b, c, d>>
           q == <<e, f>>
           r == <<a, b, c, d, e, f>>
<1>1. r = p \o q
  <2>1. /\ r \in Seq({a, b, c, d, e, f}) /\ Len(r) = 6
        /\ r[1] = a /\ r[2] = b /\ r[3] = c /\ r[4] = d /\ r[5] = e /\ r[6] = f
    OBVIOUS
  <2>2. /\ IsSeq(p) /\ Len(p) = 4 /\ p[1] = a /\ p[2] = b /\ p[3] = c /\ p[4] = d
        /\ IsSeq(q) /\ Len(q) = 2 /\ q[1] = e /\ q[2] = f
    BY TuplesAre
  <2> HIDE DEF p, q, r
  <2>8. IsSeq(p) /\ IsSeq(q)
    BY <2>2
  <2>7. /\ IsSeq(p \o q) /\ Len(p \o q) = Len(p) + Len(q)
        /\ \A m \in 1 .. Len(p) : (p \o q)[m] = p[m]
        /\ \A m \in 1 .. Len(q) : (p \o q)[Len(p) + m] = q[m]
    BY <2>8, ConcatIs
  <2>3. /\ IsSeq(p \o q) /\ Len(p \o q) = 6 /\ (\A m \in 1 .. 4 : (p \o q)[m] = p[m])
        /\ \A m \in 1 .. 2 : (p \o q)[4 + m] = q[m]
    BY <2>2, <2>7
  <2>4. (p \o q)[5] = e /\ (p \o q)[6] = f
    BY <2>2, <2>3
  <2>5. \A m \in 1 .. 6 : m = 1 \/ m = 2 \/ m = 3 \/ m = 4 \/ m = 5 \/ m = 6
    OBVIOUS
  <2>6. \A m \in 1 .. 6 : r[m] = (p \o q)[m]
    BY <2>1, <2>2, <2>3, <2>4, <2>5
  <2>. QED
    BY <2>1, <2>3, <2>6, SameSeq DEF IsSeq
<1> DEFINE w == On(e, On(f, t))
<1>5. IsSeq(On(f, t))
  BY OnIs
<1>6. IsSeq(w)
  BY <1>5, OnIs
<1>2. IsSeq(p) /\ IsSeq(q) /\ q \o t = w /\ IsSeq(w)
  BY <1>6, TuplesAre, OnTwo
<1>3. (p \o q) \o t = p \o (q \o t)
  BY <1>2, ConcatAssoc
<1>4. p \o w = On(a, On(b, On(c, On(d, w))))
  <2> HIDE DEF w
  <2>. QED
    BY <1>2, OnFour
<1>. QED
  BY <1>1, <1>2, <1>3, <1>4

LEMMA OnTen ==
  ASSUME NEW a, NEW b, NEW c, NEW d, NEW e, NEW f, NEW g, NEW h, NEW k, NEW l, NEW t, IsSeq(t)
  PROVE  <<a, b, c, d, e, f, g, h, k, l>> \o t
           = On(a, On(b, On(c, On(d, On(e, On(f, On(g, On(h, On(k, On(l, t))))))))))
<1> DEFINE p == <<a, b, c, d>>
           q == <<e, f, g, h, k, l>>
           r == <<a, b, c, d, e, f, g, h, k, l>>
<1>0. IsSeq(q) /\ IsSeq(p)
  <2>1. q \in Seq({e, f, g, h, k, l})
    OBVIOUS
  <2>. QED
    BY <2>1, TuplesAre DEF IsSeq
<1>1. r = p \o q
  <2>1. /\ r \in Seq({a, b, c, d, e, f, g, h, k, l}) /\ Len(r) = 10
        /\ r[1] = a /\ r[2] = b /\ r[3] = c /\ r[4] = d /\ r[5] = e /\ r[6] = f
        /\ r[7] = g /\ r[8] = h /\ r[9] = k /\ r[10] = l
    OBVIOUS
  <2>2. /\ Len(p) = 4 /\ p[1] = a /\ p[2] = b /\ p[3] = c /\ p[4] = d
        /\ Len(q) = 6 /\ q[1] = e /\ q[2] = f /\ q[3] = g /\ q[4] = h /\ q[5] = k /\ q[6] = l
    OBVIOUS
  <2> HIDE DEF p, q, r
  <2>8. IsSeq(p) /\ IsSeq(q)
    BY <1>0 DEF p, q
  <2>7. /\ IsSeq(p \o q) /\ Len(p \o q) = Len(p) + Len(q)
        /\ \A m \in 1 .. Len(p) : (p \o q)[m] = p[m]
        /\ \A m \in 1 .. Len(q) : (p \o q)[Len(p) + m] = q[m]
    BY <2>8, ConcatIs
  <2>3. /\ IsSeq(p \o q) /\ Len(p \o q) = 10 /\ (\A m \in 1 .. 4 : (p \o q)[m] = p[m])
        /\ \A m \in 1 .. 6 : (p \o q)[4 + m] = q[m]
    BY <2>2, <2>7
  <2>4. /\ (p \o q)[5] = e /\ (p \o q)[6] = f /\ (p \o q)[7] = g /\ (p \o q)[8] = h
        /\ (p \o q)[9] = k /\ (p \o q)[10] = l
    BY <2>2, <2>3
  <2>5. \A m \in 1 .. 10 : m = 1 \/ m = 2 \/ m = 3 \/ m = 4 \/ m = 5 \/ m = 6 \/ m = 7 \/ m = 8
                           \/ m = 9 \/ m = 10
    OBVIOUS
  <2>9. \A m \in 1 .. 4 : m = 1 \/ m = 2 \/ m = 3 \/ m = 4
    OBVIOUS
  <2>10. /\ r[1] = (p \o q)[1] /\ r[2] = (p \o q)[2] /\ r[3] = (p \o q)[3] /\ r[4] = (p \o q)[4]
    BY <2>1, <2>2, <2>3, <2>9
  <2>6. \A m \in 1 .. 10 : r[m] = (p \o q)[m]
    BY <2>1, <2>4, <2>5, <2>10
  <2>. QED
    BY <2>1, <2>3, <2>6, SameSeq DEF IsSeq
<1> DEFINE w == On(e, On(f, On(g, On(h, On(k, On(l, t))))))
<1>5. q \o t = w
  BY OnSix
<1>6. IsSeq(w)
  <2>1. IsSeq(On(l, t))
    BY OnIs
  <2>2. IsSeq(On(k, On(l, t)))
    BY <2>1, OnIs
  <2>3. IsSeq(On(h, On(k, On(l, t))))
    BY <2>2, OnIs
  <2>4. IsSeq(On(g, On(h, On(k, On(l, t)))))
    BY <2>3, OnIs
  <2>5. IsSeq(On(f, On(g, On(h, On(k, On(l, t))))))
    BY <2>4, OnIs
  <2>. QED
    BY <2>5, OnIs
<1>2. q \o t = w /\ IsSeq(w)
  BY <1>5, <1>6
<1>3. (p \o q) \o t = p \o (q \o t)
  BY <1>0, ConcatAssoc
<1>4. p \o w = On(a, On(b, On(c, On(d, w))))
  <2> HIDE DEF w
  <2>. QED
    BY <1>2, OnFour
<1>. QED
  BY <1>1, <1>2, <1>3, <1>4

LEMMA ExpectOn ==
  ASSUME NEW s, NEW i, NEW j, NEW w, Tok(s, i, j, w), NEW t, IsSeq(t)
  PROVE  /\ \A p : Accepts(s, t, j, p) => Accepts(s, On(Expect(w), t), i, p)
         /\ Accepted(s, t, j) => Accepted(s, On(Expect(w), t), i)
<1>1. \A p : Moves(s, Expect(w), i, p, <<>>, j, p)
  <2>1. Expect(w)[1] = "expect" /\ Expect(w)[2] = w
    BY DEF Expect
  <2>2. s[i + 1] = w /\ j = i + 1
    BY TokIs
  <2>3. \A p : MoveExpect(s, w, i, p, <<>>, j, p)
    BY <2>2 DEF MoveExpect
  <2>. QED
    BY <2>1, <2>3 DEF Moves
<1>2. <<>> \o t = t
  BY OnNone
<1>3. \A p : Accepts(s, t, j, p) => Accepts(s, On(Expect(w), t), i, p)
  BY <1>1, <1>2, AcceptStep
<1>. QED
  BY <1>3 DEF Accepted

(* What only builds.                                                          *)
LEMMA SkipOn ==
  ASSUME NEW h, h[1] \in {"make", "push_back", "declared"}, NEW s, NEW i, NEW t, IsSeq(t),
         Accepted(s, t, i)
  PROVE  Accepted(s, On(h, t), i)
<1>1. MoveSimply(s, h, i, <<>>, i)
  BY DEF MoveSimply
<1>2. <<>> \o t = t
  BY OnNone
<1>. QED
  BY <1>1, <1>2, SimplyOn

LEMMA Skipped ==
  /\ \A node, n : Make(node, n)[1] \in {"make", "push_back", "declared"}
  /\ Call("push_back")[1] \in {"make", "push_back", "declared"}
  /\ Call("declared")[1] \in {"make", "push_back", "declared"}
BY DEF Make, Call

(* An operand that is one token, one in parentheses, or one with a sign.        *)
LEMMA PrimaryOn ==
  ASSUME NEW s, NEW i, s[i + 1] \notin Unary, NEW t, IsSeq(t), Accepted(s, On(Call("primary"), t), i)
  PROVE  Accepted(s, On(Call("unary"), t), i)
<1>1. MoveSimply(s, Call("unary"), i, <<Call("primary")>>, i)
  <2>1. MoveUnary(s, i, <<Call("primary")>>, i) /\ Call("unary")[1] = "unary"
    BY DEF MoveUnary, Call
  <2>. QED
    BY <2>1 DEF MoveSimply
<1>2. <<Call("primary")>> \o t = On(Call("primary"), t)
  BY OnOne
<1>. QED
  BY <1>1, <1>2, SimplyOn

LEMMA TokenKinds ==
  /\ \A w \in Literals \cup Names \cup {"LPAREN"} : w \notin Unary
  /\ Unary \cap Keywords = {}
BY DEF Literals, Names, Unary, Keywords

LEMMA MovesPrimary ==
  ASSUME NEW s, NEW i, NEW todo, NEW j, NEW u, MovePrimary(s, i, todo, j, u)
  PROVE  \A p : Moves(s, Call("primary"), i, p, todo, j, u)
<1>1. Call("primary")[1] = "primary"
  BY DEF Call
<1>. QED
  BY <1>1 DEF Moves

LEMMA NameOn ==
  ASSUME NEW s, NEW i, NEW j, NEW w \in Names, Tok(s, i, j, w), NEW t, IsSeq(t),
         Accepts(s, t, j, "name")
  PROVE  Accepted(s, On(Call("unary"), t), i)
<1>1. s[i + 1] = w /\ j = i + 1 /\ s[i + 1] \notin Unary /\ <<>> \o t = t
  BY TokIs, TokenKinds, OnNone
<1>2. MovePrimary(s, i, <<>>, j, "name")
  BY <1>1 DEF MovePrimary
<1>3. \A p : Accepts(s, On(Call("primary"), t), i, p)
  BY <1>1, <1>2, MovesPrimary, AcceptStep
<1>4. Accepted(s, On(Call("primary"), t), i)
  BY <1>3 DEF Accepted
<1>. QED
  BY <1>1, <1>4, PrimaryOn

LEMMA LeafOn ==
  ASSUME NEW s, NEW i, NEW j, NEW w \in Literals \cup Names, Tok(s, i, j, w), NEW t, IsSeq(t),
         Accepted(s, t, j)
  PROVE  Accepted(s, On(Call("unary"), t), i)
<1>0. Accepts(s, t, j, "name") /\ Accepts(s, t, j, "other")
  BY DEF Accepted
<1>1. CASE w \in Names
  BY <1>0, <1>1, NameOn
<1>2. CASE w \in Literals
  <2>1. s[i + 1] = w /\ j = i + 1 /\ s[i + 1] \notin Unary /\ <<>> \o t = t
    BY TokIs, TokenKinds, OnNone
  <2>2. MovePrimary(s, i, <<>>, j, "other")
    BY <1>2, <2>1 DEF MovePrimary
  <2>3. \A p : Accepts(s, On(Call("primary"), t), i, p)
    BY <1>0, <2>1, <2>2, MovesPrimary, AcceptStep
  <2>4. Accepted(s, On(Call("primary"), t), i)
    BY <2>3 DEF Accepted
  <2>. QED
    BY <2>1, <2>4, PrimaryOn
<1>. QED
  BY <1>1, <1>2

LEMMA EnclosedOn ==
  ASSUME NEW s, NEW i, NEW j, Tok(s, i, j, "LPAREN"), NEW t, IsSeq(t),
         Accepted(s, On(Expression, On(Expect("RPAREN"), t)), j)
  PROVE  Accepted(s, On(Call("unary"), t), i)
<1>1. s[i + 1] = "LPAREN" /\ j = i + 1 /\ s[i + 1] \notin Unary
  BY TokIs, TokenKinds
<1> DEFINE todo == <<Expression, Expect("RPAREN")>>
<1>2. MovePrimary(s, i, todo, j, "other") /\ todo \o t = On(Expression, On(Expect("RPAREN"), t))
  BY <1>1, OnTwo DEF MovePrimary
<1> HIDE DEF todo
<1>3. \A p : Accepts(s, On(Call("primary"), t), i, p)
  BY <1>2, MovesPrimary, AcceptStep DEF Accepted
<1>4. Accepted(s, On(Call("primary"), t), i)
  BY <1>3 DEF Accepted
<1>. QED
  BY <1>1, <1>4, PrimaryOn

LEMMA SignOn ==
  ASSUME NEW s, NEW i, NEW j, NEW op \in Unary, Tok(s, i, j, op), NEW t, IsSeq(t),
         Accepted(s, On(Call("unary"), On(UnaryOp(op), t)), j)
  PROVE  Accepted(s, On(Call("unary"), t), i)
<1>1. s[i + 1] = op /\ j = i + 1
  BY TokIs
<1> DEFINE todo == <<Call("unary"), UnaryOp(op)>>
<1>2. MoveUnary(s, i, todo, j)
  BY <1>1 DEF MoveUnary
<1>3. todo \o t = On(Call("unary"), On(UnaryOp(op), t)) /\ Call("unary")[1] = "unary"
  BY OnTwo DEF Call
<1> HIDE DEF todo
<1>4. MoveSimply(s, Call("unary"), i, todo, j)
  BY <1>2, <1>3 DEF MoveSimply
<1>. QED
  BY <1>3, <1>4, SimplyOn

-----------------------------------------------------------------------------
(* The calls for the operators of the six levels, each with the operator whose   *)
(* right operand has just been read, if there is one.                          *)

Level(k) == Of("operators", k)
Laid(k, q, r) ==
  /\ IsSeq(q) /\ IsSeq(r)
  /\ \/ q = On(Level(k), r)
     \/ \E op : q = On(BinaryOp(op), On(Level(k), r))
Layers(k, q, rest, f) == f[0] = rest /\ f[k] = q /\ \A m \in 1 .. k : Laid(m, f[m], f[m - 1])
Layered(k, q, rest)   == \E f : Layers(k, q, rest, f)

(* The tokens behind the j-th may follow an operand; an operand may be there.    *)
OK(s, j, rest)    == \A q : Layered(6, q, rest) => Accepted(s, q, j)
Ready(s, j, rest) == \A q : IsSeq(q) /\ Layered(6, q, rest) => Accepted(s, On(Call("unary"), q), j)

LEMMA SuffixOn ==
  ASSUME NEW q, IsSeq(q), NEW n \in 1 .. Len(q)
  PROVE  /\ IsSeq(SubSeq(q, n, Len(q))) /\ IsSeq(SubSeq(q, n + 1, Len(q)))
         /\ SubSeq(q, n, Len(q)) = On(q[n], SubSeq(q, n + 1, Len(q)))
<1> DEFINE a == SubSeq(q, n, Len(q))
           b == SubSeq(q, n + 1, Len(q))
           h == q[n]
           c == <<h>> \o b
<1>0. Len(q) \in Nat
  BY SeqIs
<1>1. /\ IsSeq(a) /\ Len(a) = Len(q) - n + 1
      /\ \A m \in 1 .. Len(q) - n + 1 : a[m] = q[n + m - 1]
  <2>1. n \in Nat \ {0} /\ Len(q) \in Nat /\ n <= Len(q) + 1 /\ Len(q) <= Len(q)
    BY <1>0
  <2>. QED
    BY <2>1, SubSeqIs
<1>2. /\ IsSeq(b) /\ Len(b) = Len(q) - n
      /\ \A m \in 1 .. Len(q) - n : b[m] = q[n + m]
  <2>1. n + 1 \in Nat \ {0} /\ Len(q) \in Nat /\ n + 1 <= Len(q) + 1 /\ Len(q) <= Len(q)
        /\ Len(q) - (n + 1) + 1 = Len(q) - n
    BY <1>0
  <2>2. /\ IsSeq(b) /\ Len(b) = Len(q) - (n + 1) + 1
        /\ \A m \in 1 .. Len(q) - (n + 1) + 1 : b[m] = q[(n + 1) + m - 1]
    BY <2>1, SubSeqIs
  <2>3. \A m \in 1 .. Len(q) - n : (n + 1) + m - 1 = n + m
    BY <1>0
  <2>. QED
    BY <2>1, <2>2, <2>3
<1> HIDE DEF a, b, h
<1>7. IsSeq(b)
  BY <1>2
<1>8. /\ IsSeq(c) /\ Len(c) = Len(b) + 1 /\ c[1] = h
      /\ \A m \in 1 .. Len(b) : c[m + 1] = b[m]
  BY <1>7, Pushed
<1>3. /\ IsSeq(c) /\ Len(c) = Len(b) + 1 /\ c[1] = q[n]
      /\ \A m \in 1 .. Len(b) : c[m + 1] = b[m]
  BY <1>8 DEF h
<1> HIDE DEF c
<1>4. ASSUME NEW m \in 1 .. Len(a) PROVE a[m] = c[m]
  <2>1. CASE m = 1
    <3>1. n + 1 - 1 = n /\ 1 \in 1 .. Len(q) - n + 1
      BY <1>0
    <3>. QED
      BY <1>1, <1>3, <2>1, <3>1
  <2>2. CASE m # 1
    <3>1. m - 1 \in 1 .. Len(q) - n /\ (m - 1) + 1 = m /\ n + (m - 1) = n + m - 1
          /\ m \in 1 .. Len(q) - n + 1
      BY <1>0, <1>1, <2>2
    <3>2. c[m] = b[m - 1]
      BY <1>2, <1>3, <3>1
    <3>. QED
      BY <1>1, <1>2, <3>1, <3>2
  <2>. QED
    BY <2>1, <2>2
<1>5. Len(a) = Len(c)
  BY <1>0, <1>1, <1>2, <1>3
<1>6. a = c
  BY <1>1, <1>3, <1>4, <1>5, SameSeq
<1>. QED
  BY <1>1, <1>2, <1>6 DEF a, b, c, h, On

(* The calls of an operand, one by one.                                        *)
Unfolds(k, t, f) ==
  /\ f[k - 1] = t /\ Operand(k) \o t = On(Call("unary"), f[6])
  /\ \A m \in k - 1 .. 6 : IsSeq(f[m])
  /\ \A m \in k .. 6 : f[m] = On(Level(m), f[m - 1])
LEMMA OperandOn ==
  ASSUME NEW k \in 1 .. 7, NEW t, IsSeq(t)
  PROVE  \E f : Unfolds(k, t, f)
<1> DEFINE p == Operand(k)
           q == p \o t
           f == [m \in 0 .. 6 |-> SubSeq(q, 8 - m, Len(q))]
<1>1. /\ IsSeq(p) /\ Len(p) = 8 - k /\ p[1] = Call("unary")
      /\ \A n \in 2 .. 8 - k : p[n] = Of("operators", 8 - n)
  BY OperandIs
<1> HIDE DEF p
<1>2. /\ IsSeq(q) /\ Len(t) \in Nat /\ Len(q) = Len(p) + Len(t)
      /\ \A n \in 1 .. Len(p) : q[n] = p[n]
  BY <1>1, ConcatIs
<1>3. SubSeq(q, Len(p) + 1, Len(q)) = t
  BY <1>1, SubSeqParts
<1> HIDE DEF q
<1>4. Len(q) \in Nat /\ 8 - k \in 1 .. Len(q) /\ Len(p) = 8 - k
  BY <1>1, <1>2
<1>5. f[k - 1] = t
  <2>1. k - 1 \in 0 .. 6 /\ 8 - (k - 1) = Len(p) + 1
    BY <1>1
  <2>. QED
    BY <1>3, <2>1
<1>6. q = On(Call("unary"), f[6])
  <2>1. 1 \in 1 .. Len(q) /\ 1 \in 1 .. Len(p) /\ 8 - 6 = 2 /\ 1 + 1 = 2 /\ 6 \in 0 .. 6
    BY <1>1, <1>2
  <2>2. SubSeq(q, 1, Len(q)) = On(q[1], SubSeq(q, 2, Len(q)))
    BY <1>2, <2>1, SuffixOn
  <2>3. SubSeq(q, 1, Len(q)) = q
    BY <1>2 DEF IsSeq
  <2>4. f[6] = SubSeq(q, 2, Len(q))
    BY <2>1
  <2>. QED
    BY <1>1, <1>2, <2>1, <2>2, <2>3, <2>4
<1>7. ASSUME NEW m \in k .. 6 PROVE f[m] = On(Level(m), f[m - 1]) /\ IsSeq(f[m])
  <2> DEFINE n == 8 - m
  <2>1. n \in 2 .. 8 - k /\ n \in 1 .. Len(p) /\ n \in 1 .. Len(q) /\ 8 - n = m /\ n + 1 = 8 - (m - 1)
        /\ m \in 0 .. 6 /\ m - 1 \in 0 .. 6
    BY <1>1, <1>2
  <2>2. f[m] = SubSeq(q, n, Len(q)) /\ f[m - 1] = SubSeq(q, n + 1, Len(q))
    BY <2>1
  <2> HIDE DEF f
  <2>3. q[n] = Level(m)
    <3>1. q[n] = p[n] /\ p[n] = Of("operators", 8 - n)
      BY <1>1, <1>2, <2>1
    <3>. QED
      BY <2>1, <3>1 DEF Level
  <2> HIDE DEF n
  <2>4. SubSeq(q, n, Len(q)) = On(q[n], SubSeq(q, n + 1, Len(q))) /\ IsSeq(SubSeq(q, n, Len(q)))
    BY <1>2, <2>1, SuffixOn
  <2>. QED
    BY <2>2, <2>3, <2>4
<1> HIDE DEF f
<1>8. ASSUME NEW m \in k - 1 .. 6 PROVE IsSeq(f[m])
  <2>1. m = k - 1 \/ m \in k .. 6
    OBVIOUS
  <2>. QED
    BY <1>5, <1>7, <2>1
<1>. QED
  BY <1>5, <1>6, <1>7, <1>8 DEF Unfolds, p, q

LEMMA LayerUp ==
  ASSUME NEW k \in 1 .. 7, NEW t, NEW rest, IsSeq(t), Layered(k - 1, t, rest)
  PROVE  \E q : IsSeq(q) /\ Operand(k) \o t = On(Call("unary"), q) /\ Layered(6, q, rest)
<1>1. PICK f : Layers(k - 1, t, rest, f)
  BY DEF Layered
<1>2. PICK g : Unfolds(k, t, g)
  BY OperandOn
<1> DEFINE h == [m \in 0 .. 6 |-> IF m < k THEN f[m] ELSE g[m]]
<1>3. /\ \A m \in 0 .. 6 : m < k => h[m] = f[m]
      /\ \A m \in 0 .. 6 : k <= m => h[m] = g[m]
  OBVIOUS
<1> HIDE DEF h
<1>4. h[0] = rest /\ h[k - 1] = t
  <2>1. 0 < k /\ k - 1 < k /\ k - 1 \in 0 .. 6 /\ 0 \in 0 .. 6
    OBVIOUS
  <2>. QED
    BY <1>1, <1>3, <2>1 DEF Layers
<1>5. h[6] = g[6] /\ IsSeq(g[6])
  <2>0. 6 \in k - 1 .. 6
    OBVIOUS
  <2>1. IsSeq(g[6])
    BY <1>2, <2>0 DEF Unfolds
  <2>2. CASE k = 7
    BY <1>2, <1>4, <2>1, <2>2 DEF Unfolds
  <2>3. CASE k # 7
    BY <1>3, <2>1, <2>3
  <2>. QED
    BY <2>2, <2>3
<1>6. ASSUME NEW m \in 1 .. 6 PROVE Laid(m, h[m], h[m - 1])
  <2>1. CASE m < k
    <3>1. m \in 0 .. 6 /\ m - 1 \in 0 .. 6 /\ m - 1 < k /\ m \in 1 .. k - 1
      BY <2>1
    <3>. QED
      BY <1>1, <1>3, <2>1, <3>1 DEF Layers
  <2>2. CASE k <= m
    <3>1. m \in 0 .. 6 /\ m - 1 \in 0 .. 6 /\ m \in k .. 6 /\ m \in k - 1 .. 6 /\ m - 1 \in k - 1 .. 6
      BY <2>2
    <3>2. h[m - 1] = g[m - 1]
      <4>1. CASE m = k
        BY <1>2, <1>4, <4>1 DEF Unfolds
      <4>2. CASE m # k
        <5>1. k <= m - 1
          BY <2>2, <4>2
        <5>. QED
          BY <1>3, <3>1, <5>1
      <4>. QED
        BY <4>1, <4>2
    <3>3. h[m] = g[m] /\ g[m] = On(Level(m), g[m - 1]) /\ IsSeq(g[m]) /\ IsSeq(g[m - 1])
      BY <1>2, <1>3, <2>2, <3>1 DEF Unfolds
    <3>. QED
      BY <3>2, <3>3 DEF Laid
  <2>. QED
    BY <2>1, <2>2
<1>7. Layered(6, g[6], rest)
  BY <1>4, <1>5, <1>6 DEF Layered, Layers
<1>8. Operand(k) \o t = On(Call("unary"), g[6])
  BY <1>2 DEF Unfolds
<1>. QED
  BY <1>5, <1>7, <1>8

LEMMA LayeredNone ==
  ASSUME NEW t
  PROVE  Layered(0, t, t)
<1>1. Layers(0, t, t, [m \in {0} |-> t])
  BY DEF Layers
<1>. QED
  BY <1>1 DEF Layered

(* No operator of the level: its loop ends.                                    *)
LEMMA LevelEnds ==
  ASSUME NEW s, NEW j, NEW k, s[j + 1] \notin Levels[k], NEW r, IsSeq(r)
  PROVE  /\ \A p : Accepts(s, r, j, p) => Accepts(s, On(Level(k), r), j, p)
         /\ Accepted(s, r, j) => Accepted(s, On(Level(k), r), j)
<1>1. \A p : Moves(s, Level(k), j, p, <<>>, j, p)
  <2>1. Level(k)[1] = "operators" /\ Level(k)[2] = k
    BY DEF Level, Of
  <2>2. \A p : MoveOperators(s, k, j, p, <<>>, j, p)
    BY DEF MoveOperators
  <2>. QED
    BY <2>1, <2>2 DEF Moves
<1>2. <<>> \o r = r
  BY OnNone
<1>3. \A p : Accepts(s, r, j, p) => Accepts(s, On(Level(k), r), j, p)
  BY <1>1, <1>2, AcceptStep
<1>. QED
  BY <1>3 DEF Accepted

LEMMA LaidOn ==
  ASSUME NEW s, NEW j, NEW k, NEW q, NEW r, Laid(k, q, r), Accepted(s, On(Level(k), r), j)
  PROVE  Accepted(s, q, j)
<1>1. CASE q = On(Level(k), r)
  BY <1>1
<1>2. CASE \E op : q = On(BinaryOp(op), On(Level(k), r))
  <2>1. PICK op : q = On(BinaryOp(op), On(Level(k), r))
    BY <1>2
  <2>2. BinaryOp(op)[1] \in {"make", "push_back", "declared"}
    BY Skipped DEF BinaryOp
  <2>3. IsSeq(On(Level(k), r))
    BY OnIs DEF Laid
  <2>. QED
    BY <2>1, <2>2, <2>3, SkipOn
<1>. QED
  BY <1>1, <1>2 DEF Laid

LEMMA LayersUp ==
  ASSUME NEW s, NEW j, NEW q, NEW rest, NEW f, Layers(6, q, rest, f), NEW k \in 0 .. 6,
         Accepted(s, f[k], j), \A m \in k + 1 .. 6 : s[j + 1] \notin Levels[m]
  PROVE  Accepted(s, q, j)
<1> DEFINE S == {n \in Nat : k + n <= 6 => Accepted(s, f[k + n], j)}
<1>1. 0 \in S
  <2>1. k + 0 = k
    OBVIOUS
  <2>. QED
    BY <2>1
<1>2. ASSUME NEW n \in Nat, n \in S PROVE n + 1 \in S
  <2>1. SUFFICES ASSUME k + (n + 1) <= 6 PROVE Accepted(s, f[k + (n + 1)], j)
    OBVIOUS
  <2> DEFINE m == k + (n + 1)
  <2>2. m \in 1 .. 6 /\ m \in k + 1 .. 6 /\ m - 1 = k + n /\ k + n <= 6
    BY <2>1
  <2>3. Laid(m, f[m], f[m - 1]) /\ s[j + 1] \notin Levels[m]
    BY <2>2 DEF Layers
  <2>4. Accepted(s, f[m - 1], j)
    BY <1>2, <2>2
  <2> HIDE DEF m
  <2>5. IsSeq(f[m - 1])
    BY <2>3 DEF Laid
  <2>6. Accepted(s, On(Level(m), f[m - 1]), j)
    BY <2>3, <2>4, <2>5, LevelEnds
  <2>7. Accepted(s, f[m], j)
    BY <2>3, <2>6, LaidOn
  <2>. QED
    BY <2>7 DEF m
<1>3. \A n \in Nat : n \in S
  <2> HIDE DEF S
  <2>. QED
    BY <1>1, <1>2, Induction
<1>4. 6 - k \in Nat /\ k + (6 - k) = 6
  OBVIOUS
<1>5. Accepted(s, f[6], j)
  BY <1>3, <1>4
<1>. QED
  BY <1>5 DEF Layers

LEMMA OperatorsEnd ==
  ASSUME NEW s, NEW j, \A k \in 1 .. 6 : s[j + 1] \notin Levels[k], NEW rest, Accepted(s, rest, j)
  PROVE  OK(s, j, rest)
<1>1. SUFFICES ASSUME NEW q, Layered(6, q, rest) PROVE Accepted(s, q, j)
  BY DEF OK
<1>2. PICK f : Layers(6, q, rest, f)
  BY <1>1 DEF Layered
<1>3. f[0] = rest /\ 0 \in 0 .. 6 /\ \A m \in 0 + 1 .. 6 : s[j + 1] \notin Levels[m]
  BY <1>2 DEF Layers
<1>. QED
  BY <1>2, <1>3, LayersUp

LEMMA LevelsApart ==
  ASSUME NEW k \in 1 .. 6, NEW m \in 1 .. 6, NEW op \in Levels[k], k # m
  PROVE  op \notin Levels[m]
<1>1. \A n \in 1 .. 6 : n = 1 \/ n = 2 \/ n = 3 \/ n = 4 \/ n = 5 \/ n = 6
  OBVIOUS
<1>2. /\ Levels[1] = {"OR"} /\ Levels[2] = {"AND"} /\ Levels[3] = {"EQUAL", "NOTEQUAL"}
      /\ Levels[4] = {"LESS", "GREATER", "LESSEQUAL", "GREATEREQUAL"}
      /\ Levels[5] = {"PLUS", "MINUS"} /\ Levels[6] = {"MULTIPLY", "DIVIDE", "MODULO"}
  BY DEF Levels
<1>. QED
  BY <1>1, <1>2

LEMMA OperatorOn ==
  ASSUME NEW s, NEW j, NEW k \in 1 .. 6, s[j + 1] \in Levels[k], NEW rest, Ready(s, j + 1, rest)
  PROVE  OK(s, j, rest)
<1>1. SUFFICES ASSUME NEW q, Layered(6, q, rest) PROVE Accepted(s, q, j)
  BY DEF OK
<1>2. PICK f : Layers(6, q, rest, f)
  BY <1>1 DEF Layered
<1> DEFINE op == s[j + 1]
           r  == f[k - 1]
           t  == On(BinaryOp(op), On(Level(k), r))
<1>3. Laid(k, f[k], r) /\ IsSeq(r) /\ IsSeq(On(Level(k), r)) /\ IsSeq(t)
  <2>1. Laid(k, f[k], r) /\ IsSeq(r)
    BY <1>2 DEF Layers, Laid
  <2>2. IsSeq(On(Level(k), r))
    BY <2>1, OnIs
  <2>. QED
    BY <2>1, <2>2, OnIs
<1>4. Layered(k, t, rest)
  <2> DEFINE g == [m \in 0 .. k |-> IF m = k THEN t ELSE f[m]]
  <2>1. g[k] = t /\ \A m \in 0 .. k - 1 : g[m] = f[m]
    OBVIOUS
  <2> HIDE DEF g
  <2>2. Laid(k, t, r)
    BY <1>3 DEF Laid
  <2> HIDE DEF t
  <2>3. ASSUME NEW m \in 1 .. k PROVE Laid(m, g[m], g[m - 1])
    <3>1. CASE m = k
      <4>1. g[m - 1] = r /\ g[m] = t
        BY <2>1, <3>1
      <4>. QED
        BY <2>2, <3>1, <4>1
    <3>2. CASE m # k
      <4>1. m \in 0 .. k - 1 /\ m - 1 \in 0 .. k - 1 /\ m \in 1 .. 6
        BY <3>2
      <4>. QED
        BY <1>2, <2>1, <4>1 DEF Layers
    <3>. QED
      BY <3>1, <3>2
  <2>4. g[0] = rest
    BY <1>2, <2>1 DEF Layers
  <2>. QED
    BY <2>1, <2>3, <2>4 DEF Layered, Layers
<1>5. PICK w : IsSeq(w) /\ Operand(k + 1) \o t = On(Call("unary"), w) /\ Layered(6, w, rest)
  <2>1. k + 1 \in 1 .. 7 /\ (k + 1) - 1 = k
    OBVIOUS
  <2> HIDE DEF t
  <2>2. Layered((k + 1) - 1, t, rest)
    BY <1>4, <2>1
  <2>. QED
    BY <1>3, <2>1, <2>2, LayerUp
<1>6. Accepted(s, Operand(k + 1) \o t, j + 1)
  BY <1>5 DEF Ready
<1> DEFINE last == <<BinaryOp(op), Level(k)>>
           todo == Operand(k + 1) \o last
<1>7. todo \o r = Operand(k + 1) \o t
  <2>1. last \o r = t /\ IsSeq(last)
    BY <1>3, OnTwo, TuplesAre
  <2>2. IsSeq(Operand(k + 1))
    <3>1. k + 1 \in 1 .. 7
      OBVIOUS
    <3>. QED
      BY <3>1, OperandIs
  <2> DEFINE p == Operand(k + 1)
  <2>3. IsSeq(p) /\ IsSeq(last) /\ IsSeq(r)
    BY <1>3, <2>1, <2>2
  <2> HIDE DEF last, p, r
  <2>4. (p \o last) \o r = p \o (last \o r)
    BY <2>3, ConcatAssoc
  <2>. QED
    BY <2>1, <2>4 DEF p
<1>8. \A p : Moves(s, Level(k), j, p, todo, j + 1, "other")
  <2>1. Level(k)[1] = "operators" /\ Level(k)[2] = k
    BY DEF Level, Of
  <2>2. \A p : MoveOperators(s, k, j, p, todo, j + 1, "other")
    BY DEF MoveOperators, Level
  <2> HIDE DEF todo
  <2>. QED
    BY <2>1, <2>2 DEF Moves
<1> HIDE DEF todo, t
<1>9. Accepts(s, todo \o r, j + 1, "other")
  BY <1>6, <1>7 DEF Accepted
<1>10. \A p : Accepts(s, On(Level(k), r), j, p)
  BY <1>3, <1>8, <1>9, AcceptStep
<1>11. Accepted(s, On(Level(k), r), j)
  BY <1>10 DEF Accepted
<1>12. Accepted(s, f[k], j)
  BY <1>3, <1>11, LaidOn
<1>13. k \in 0 .. 6 /\ \A m \in k + 1 .. 6 : s[j + 1] \notin Levels[m]
  <2>1. \A m \in k + 1 .. 6 : m \in 1 .. 6 /\ k # m
    OBVIOUS
  <2>. QED
    BY <2>1, LevelsApart
<1>. QED
  BY <1>2, <1>12, <1>13, LayersUp

(* An expression begins where an operand may be.                               *)
LEMMA ExpressionMoves ==
  ASSUME NEW s, NEW i, NEW t, IsSeq(t), Accepted(s, Operand(1) \o On(Call("assign"), t), i)
  PROVE  Accepted(s, On(Expression, t), i)
<1> DEFINE last == <<Call("assign")>>
           todo == Operand(1) \o last
<1>1. todo \o t = Operand(1) \o On(Call("assign"), t)
  <2>1. last \o t = On(Call("assign"), t) /\ IsSeq(last)
    BY OnOne, OneIsSeq
  <2>2. IsSeq(Operand(1))
    BY OperandIs
  <2> DEFINE p == Operand(1)
  <2>3. IsSeq(p) /\ IsSeq(last) /\ IsSeq(t)
    BY <2>1, <2>2
  <2> HIDE DEF last, p
  <2>4. (p \o last) \o t = p \o (last \o t)
    BY <2>3, ConcatAssoc
  <2>. QED
    BY <2>1, <2>4 DEF p
<1>2. MoveSimply(s, Expression, i, todo, i)
  <2>1. Expression[1] = "assignment"
    BY DEF Expression, Call
  <2>. QED
    BY <2>1 DEF MoveSimply
<1> HIDE DEF todo
<1>. QED
  BY <1>1, <1>2, SimplyOn

LEMMA ExpressionOn ==
  ASSUME NEW s, NEW i, NEW t, IsSeq(t), Ready(s, i, On(Call("assign"), t))
  PROVE  Accepted(s, On(Expression, t), i)
<1> DEFINE r == On(Call("assign"), t)
<1>1. IsSeq(r) /\ Layered(0, r, r)
  BY OnIs, LayeredNone
<1>2. Ready(s, i, r)
  OBVIOUS
<1> HIDE DEF r
<1>3. 1 \in 1 .. 7 /\ 1 - 1 = 0
  OBVIOUS
<1>4. PICK w : IsSeq(w) /\ Operand(1) \o r = On(Call("unary"), w) /\ Layered(6, w, r)
  BY <1>1, <1>3, LayerUp
<1>5. Accepted(s, Operand(1) \o r, i)
  BY <1>2, <1>4 DEF Ready
<1>. QED
  BY <1>5, ExpressionMoves DEF r

(* Of a name it is still known behind the loops.                               *)
LEMMA NameExpression ==
  ASSUME NEW s, NEW i, NEW j, NEW t, IsSeq(t), \A k \in 1 .. 6 : s[j + 1] \notin Levels[k],
         Accepts(s, On(Call("assign"), t), j, "name"),
         \A r : IsSeq(r) /\ Accepts(s, r, j, "name") => Accepted(s, On(Call("unary"), r), i)
  PROVE  Accepted(s, On(Expression, t), i)
<1> DEFINE r == On(Call("assign"), t)
<1>1. IsSeq(r) /\ Accepts(s, r, j, "name")
  BY OnIs
<1> HIDE DEF r
<1>2. 1 \in 1 .. 7 /\ 1 - 1 = 0
  OBVIOUS
<1>3. PICK f : Unfolds(1, r, f)
  BY <1>1, <1>2, OperandOn
<1> DEFINE S == {n \in Nat : n <= 6 => Accepts(s, f[n], j, "name")}
<1>4. 0 \in S
  BY <1>1, <1>2, <1>3 DEF Unfolds
<1>5. ASSUME NEW n \in Nat, n \in S PROVE n + 1 \in S
  <2>1. SUFFICES ASSUME n + 1 <= 6 PROVE Accepts(s, f[n + 1], j, "name")
    OBVIOUS
  <2>2. n + 1 \in 1 .. 6 /\ (n + 1) - 1 = n /\ n <= 6 /\ n \in 1 - 1 .. 6
    BY <2>1
  <2>3. f[n + 1] = On(Level(n + 1), f[(n + 1) - 1]) /\ IsSeq(f[n])
    BY <1>3, <2>2 DEF Unfolds
  <2>4. f[n + 1] = On(Level(n + 1), f[n])
    BY <2>2, <2>3
  <2>5. Accepts(s, f[n], j, "name") /\ s[j + 1] \notin Levels[n + 1]
    BY <1>5, <2>2
  <2>. QED
    BY <2>3, <2>4, <2>5, LevelEnds
<1>6. \A n \in Nat : n \in S
  <2> HIDE DEF S
  <2>. QED
    BY <1>4, <1>5, Induction
<1>7. Accepts(s, f[6], j, "name") /\ IsSeq(f[6])
  <2>1. 6 \in 1 - 1 .. 6
    OBVIOUS
  <2>. QED
    BY <1>3, <1>6, <2>1 DEF Unfolds
<1>8. Accepted(s, On(Call("unary"), f[6]), i)
  BY <1>7
<1>9. Accepted(s, Operand(1) \o r, i)
  BY <1>3, <1>8 DEF Unfolds
<1>. QED
  BY <1>9, ExpressionMoves DEF r

(* parseAssignment() behind its left side.                                     *)
LEMMA AssignOn ==
  ASSUME NEW s, NEW i, s[i + 1] # "ASSIGN", NEW t, IsSeq(t)
  PROVE  /\ \A p : Accepts(s, t, i, p) => Accepts(s, On(Call("assign"), t), i, p)
         /\ Accepted(s, t, i) => Accepted(s, On(Call("assign"), t), i)
<1>1. \A p : Moves(s, Call("assign"), i, p, <<>>, i, p)
  <2>1. Call("assign")[1] = "assign"
    BY DEF Call
  <2>2. \A p : MoveAssign(s, i, p, <<>>, i, p)
    BY DEF MoveAssign
  <2>. QED
    BY <2>1, <2>2 DEF Moves
<1>2. <<>> \o t = t
  BY OnNone
<1>3. \A p : Accepts(s, t, i, p) => Accepts(s, On(Call("assign"), t), i, p)
  BY <1>1, <1>2, AcceptStep
<1>. QED
  BY <1>3 DEF Accepted

LEMMA AssignmentOn ==
  ASSUME NEW s, NEW i, NEW j, Tok(s, i, j, "ASSIGN"), NEW t, IsSeq(t),
         Accepted(s, On(Expression, On(Assignment, t)), j)
  PROVE  Accepts(s, On(Call("assign"), t), i, "name")
<1> DEFINE todo == <<Expression, Assignment>>
<1>1. Moves(s, Call("assign"), i, "name", todo, j, "other")
  <2>1. Call("assign")[1] = "assign"
    BY DEF Call
  <2>2. MoveAssign(s, i, "name", todo, j, "other")
    BY TokIs DEF MoveAssign
  <2> HIDE DEF todo
  <2>. QED
    BY <2>1, <2>2 DEF Moves
<1>2. todo \o t = On(Expression, On(Assignment, t))
  BY OnTwo
<1> HIDE DEF todo
<1>3. Accepts(s, todo \o t, j, "other")
  BY <1>2 DEF Accepted
<1>. QED
  BY <1>1, <1>3, AcceptStep

(* The tokens of expressions, and those they begin with.                       *)
FirstTokens      == Literals \cup Names \cup Unary \cup {"LPAREN"}
Operating        == UNION {Levels[k] : k \in 1 .. 6}
ExpressionTokens == FirstTokens \cup Operating \cup {"RPAREN", "ASSIGN", "COMMA"}

Worded(s, i, j) == i \in Nat /\ j \in Nat /\ i <= j /\ \A m \in i + 1 .. j : s[m] \in ExpressionTokens
Opens(s, i, j) == Worded(s, i, j) /\ i < j /\ s[i + 1] \in FirstTokens

LEMMA TokWorded ==
  ASSUME NEW s, NEW i, NEW j, NEW w \in ExpressionTokens, Tok(s, i, j, w)
  PROVE  Worded(s, i, j) /\ (w \in FirstTokens => Opens(s, i, j))
<1>1. i \in Nat /\ j \in Nat /\ j = i + 1 /\ s[i + 1] = w /\ i < j
  BY TokIs
<1>2. i + 1 .. j = {i + 1}
  BY <1>1
<1>. QED
  BY <1>1, <1>2 DEF Worded, Opens

LEMMA WordedOn ==
  ASSUME NEW s, NEW i, NEW m, NEW j, Worded(s, i, m), Worded(s, m, j)
  PROVE  Worded(s, i, j) /\ (Opens(s, i, m) => Opens(s, i, j))
<1>1. i \in Nat /\ m \in Nat /\ j \in Nat /\ i <= m /\ m <= j /\ i <= j
  BY DEF Worded
<1>2. ASSUME NEW k \in i + 1 .. j PROVE s[k] \in ExpressionTokens
  <2>1. k \in i + 1 .. m \/ k \in m + 1 .. j
    BY <1>1
  <2>. QED
    BY <2>1 DEF Worded
<1>3. Worded(s, i, j)
  BY <1>1, <1>2 DEF Worded
<1>4. i < m => i < j
  BY <1>1
<1>. QED
  BY <1>3, <1>4 DEF Opens

LEMMA OpensWorded == ASSUME NEW s, NEW i, NEW j, Opens(s, i, j) PROVE Worded(s, i, j)
BY DEF Opens

LEMMA TokensThere ==
  /\ Literals \subseteq FirstTokens /\ Names \subseteq FirstTokens /\ Unary \subseteq FirstTokens
  /\ "LPAREN" \in FirstTokens /\ FirstTokens \subseteq ExpressionTokens
  /\ {"RPAREN", "ASSIGN", "COMMA"} \subseteq ExpressionTokens
  /\ \A k \in 1 .. 6 : Levels[k] \subseteq ExpressionTokens
  /\ "RPAREN" \in ExpressionTokens /\ "ASSIGN" \in ExpressionTokens /\ "COMMA" \in ExpressionTokens
<1>1. \A k \in 1 .. 6 : Levels[k] \subseteq Operating
  BY DEF Operating
<1>2. Operating \subseteq ExpressionTokens
  BY DEF ExpressionTokens
<1>3. \A k \in 1 .. 6 : Levels[k] \subseteq ExpressionTokens
  BY <1>1, <1>2
<1>4. /\ FirstTokens \subseteq ExpressionTokens
      /\ {"RPAREN", "ASSIGN", "COMMA"} \subseteq ExpressionTokens
  BY DEF ExpressionTokens
<1>5. /\ Literals \subseteq FirstTokens /\ Names \subseteq FirstTokens /\ Unary \subseteq FirstTokens
      /\ "LPAREN" \in FirstTokens
  BY DEF FirstTokens
<1>. QED
  BY <1>3, <1>4, <1>5

LEMMA ExpressionOpens ==
  ASSUME NEW v \in Vocabularies, NEW s, NEW x \in {"name"} \cup Signed, NEW i, NEW j, Span(v, s, x, i, j)
  PROVE  Opens(s, i, j) \/ (x = "maybe" /\ i = j)
<1> DEFINE Spans(a, b) == \A y \in {"name"} \cup Signed : Span(v, s, y, a, b) =>
                            Opens(s, a, b) \/ (y = "maybe" /\ a = b)
           S == {n \in Nat : \A a, b \in Nat : a <= b /\ b - a = n => Spans(a, b)}
<1>1. ASSUME NEW n \in Nat, \A m \in 0 .. n - 1 : m \in S PROVE n \in S
  <2>1. SUFFICES ASSUME NEW a \in Nat, NEW b \in Nat, a <= b, b - a = n,
                        NEW y \in {"name"} \cup Signed, Span(v, s, y, a, b)
                 PROVE  Opens(s, a, b) \/ (y = "maybe" /\ a = b)
    OBVIOUS
  <2>2. ASSUME NEW c, NEW d, NEW z \in {"name"} \cup Signed, z # "maybe", Span(v, s, z, c, d),
               a <= c, d <= b, a < c \/ d < b
        PROVE  Opens(s, c, d)
    <3>1. c \in Nat /\ d \in Nat /\ c <= d
      BY <2>2, SpanIs
    <3>2. d - c \in 0 .. n - 1
      BY <2>1, <2>2, <3>1
    <3>3. d - c \in S
      BY <1>1, <3>2
    <3>. QED
      BY <2>2, <3>1, <3>3
  <2>3. /\ "name" \in {"name"} \cup Signed /\ "expression" \in {"name"} \cup Signed
        /\ "list" \in {"name"} \cup Signed /\ "signed" \in {"name"} \cup Signed
        /\ \A k \in 1 .. 7 : Own[k] \in {"name"} \cup Signed /\ Own[k] # "maybe"
    BY DEF Signed, Products, Sums, Relations, Equalities, Conjunctions, Disjunctions, Assignments, Own
  <2>4. ASSUME IsLeaf(s, a, b, Literals \cup Names) PROVE Opens(s, a, b)
    <3>1. PICK t \in Literals \cup Names : Tok(s, a, b, t)
      BY <2>4 DEF IsLeaf
    <3>. QED
      BY <3>1, TokWorded, TokensThere
  <2>5. ASSUME NEW z \in {"name", "expression"}, IsEnclosed(v, s, z, a, b) PROVE Opens(s, a, b)
    <3>1. PICK m, l : Tok(s, a, m, "LPAREN") /\ Span(v, s, z, m, l) /\ Tok(s, l, b, "RPAREN")
      BY <2>5 DEF IsEnclosed
    <3>2. Opens(s, a, m) /\ Worded(s, a, m) /\ Worded(s, l, b)
      BY <3>1, TokWorded, TokensThere
    <3>3. a <= m /\ l <= b /\ a < m /\ m \in Nat /\ l \in Nat /\ m <= l
      BY <3>1, TokIs, SpanIs
    <3>4. Opens(s, m, l)
      BY <2>2, <2>3, <3>1, <3>3
    <3>5. Opens(s, a, l)
      BY <3>2, <3>4, WordedOn, OpensWorded
    <3>. QED
      BY <3>2, <3>5, WordedOn, OpensWorded
  <2>6. ASSUME IsSigned(v, s, a, b) PROVE Opens(s, a, b)
    <3>1. PICK op \in Unary : \E m : Tok(s, a, m, op) /\ Span(v, s, "signed", m, b)
      BY <2>6 DEF IsSigned
    <3>2. PICK m : Tok(s, a, m, op) /\ Span(v, s, "signed", m, b)
      BY <3>1
    <3>3. Opens(s, a, m)
      BY <3>2, TokWorded, TokensThere
    <3>4. a <= m /\ b <= b /\ a < m
      BY <3>2, TokIs
    <3>5. Opens(s, m, b)
      BY <2>2, <2>3, <3>2, <3>4
    <3>. QED
      BY <3>3, <3>5, WordedOn, OpensWorded
  <2>7. ASSUME NEW f \in {"name"} \cup Signed, NEW g \in {"name"} \cup Signed, f # "maybe", g # "maybe",
               NEW op \in ExpressionTokens, NEW m, NEW l,
               Span(v, s, f, a, m), Tok(s, m, l, op), Span(v, s, g, l, b)
        PROVE  Opens(s, a, b)
    <3>1. Worded(s, m, l)
      BY <2>7, TokWorded
    <3>2. a <= a /\ a <= m /\ m < l /\ l <= b /\ m <= b /\ m < b /\ a <= l /\ a < l /\ b <= b
      <4>1. a <= m /\ m \in Nat /\ l \in Nat /\ l = m + 1 /\ l <= b
        BY <2>7, TokIs, SpanIs
      <4>. QED
        BY <4>1
    <3>3. Opens(s, a, m)
      BY <2>2, <2>7, <3>2
    <3>4. Opens(s, l, b)
      BY <2>2, <2>7, <3>2
    <3>5. Opens(s, a, l)
      BY <3>1, <3>3, WordedOn, OpensWorded
    <3>. QED
      BY <3>4, <3>5, WordedOn, OpensWorded
  <2>8. CASE y = "name"
    <3>1. IsLeaf(s, a, b, Names) \/ IsEnclosed(v, s, "name", a, b)
      BY <2>1, <2>8, NameApart
    <3>2. IsLeaf(s, a, b, Names) => IsLeaf(s, a, b, Literals \cup Names)
      BY DEF IsLeaf
    <3>. QED
      BY <2>4, <2>5, <3>1, <3>2
  <2>9. CASE y \in Signed
    <3>1. \/ IsExpression(v, s, y, a, b)
          \/ y = "maybe" /\ a = b
          \/ y = "list" /\ IsList(v, s, a, b)
      BY <2>1, <2>9, ExpressionApart
    <3>2. CASE \E k \in 1 .. 6 : IsBinary(v, s, k, a, b)
      <4>1. PICK k \in 1 .. 6 : \E op \in Levels[k] : \E m, l :
              Span(v, s, Own[k], a, m) /\ Tok(s, m, l, op) /\ Span(v, s, Own[k + 1], l, b)
        BY <3>2 DEF IsBinary
      <4>2. PICK op \in Levels[k] : \E m, l :
              Span(v, s, Own[k], a, m) /\ Tok(s, m, l, op) /\ Span(v, s, Own[k + 1], l, b)
        BY <4>1
      <4>3. PICK m, l :
              Span(v, s, Own[k], a, m) /\ Tok(s, m, l, op) /\ Span(v, s, Own[k + 1], l, b)
        BY <4>2
      <4>4. k \in 1 .. 7 /\ k + 1 \in 1 .. 7 /\ op \in ExpressionTokens
        BY TokensThere
      <4>5. /\ Own[k] \in {"name"} \cup Signed /\ Own[k] # "maybe"
            /\ Own[k + 1] \in {"name"} \cup Signed /\ Own[k + 1] # "maybe"
        BY <2>3, <4>4
      <4>. QED
        BY <2>7, <4>3, <4>4, <4>5
    <3>3. CASE IsAssignment(v, s, a, b)
      BY <2>3, <2>7, <3>3, TokensThere DEF IsAssignment
    <3>4. CASE IsList(v, s, a, b)
      BY <2>3, <2>7, <3>4, TokensThere DEF IsList
    <3>5. CASE IsExpression(v, s, y, a, b)
      BY <2>4, <2>5, <2>6, <3>2, <3>3, <3>5 DEF IsExpression
    <3>. QED
      BY <3>1, <3>4, <3>5
  <2>. QED
    BY <2>8, <2>9
<1>2. \A n \in Nat : n \in S
  <2> HIDE DEF S
  <2>. QED
    BY <1>1, StrongInduction
<1>3. i \in Nat /\ j \in Nat /\ i <= j /\ j - i \in Nat
  BY SpanIs
<1>. QED
  BY <1>2, <1>3

-----------------------------------------------------------------------------
(* The parser reads the expressions of the grammar.                            *)

LEMMA Followers ==
  /\ \A w \in {"RPAREN", "SEMICOLON", "COMMA", "ASSIGN"} : \A k \in 1 .. 6 : w \notin Levels[k]
  /\ "MINUS" \in Levels[5] /\ "MINUS" \notin Literals \cup Names /\ "MINUS" # "LPAREN"
<1>1. \A n \in 1 .. 6 : n = 1 \/ n = 2 \/ n = 3 \/ n = 4 \/ n = 5 \/ n = 6
  OBVIOUS
<1>2. /\ Levels[1] = {"OR"} /\ Levels[2] = {"AND"} /\ Levels[3] = {"EQUAL", "NOTEQUAL"}
      /\ Levels[4] = {"LESS", "GREATER", "LESSEQUAL", "GREATEREQUAL"}
      /\ Levels[5] = {"PLUS", "MINUS"} /\ Levels[6] = {"MULTIPLY", "DIVIDE", "MODULO"}
  BY DEF Levels
<1>. QED
  BY <1>1, <1>2 DEF Literals, Names

LEMMA NameTaken ==
  ASSUME NEW v \in Vocabularies, NEW s, NEW i, NEW j, Span(v, s, "name", i, j),
         NEW t, IsSeq(t), Accepts(s, t, j, "name")
  PROVE  Accepted(s, On(Call("unary"), t), i)
<1> DEFINE Takes1(a, b) == Span(v, s, "name", a, b) =>
                            \A r : IsSeq(r) /\ Accepts(s, r, b, "name")
                                     => Accepted(s, On(Call("unary"), r), a)
           S == {n \in Nat : \A a, b \in Nat : a <= b /\ b - a = n => Takes1(a, b)}
<1>1. ASSUME NEW n \in Nat, \A m \in 0 .. n - 1 : m \in S PROVE n \in S
  <2>1. SUFFICES ASSUME NEW a \in Nat, NEW b \in Nat, a <= b, b - a = n, Span(v, s, "name", a, b),
                        NEW r, IsSeq(r), Accepts(s, r, b, "name")
                 PROVE  Accepted(s, On(Call("unary"), r), a)
    OBVIOUS
  <2>2. IsLeaf(s, a, b, Names) \/ IsEnclosed(v, s, "name", a, b)
    BY <2>1, NameApart
  <2>3. CASE IsLeaf(s, a, b, Names)
    BY <2>1, <2>3, NameOn DEF IsLeaf
  <2>4. CASE IsEnclosed(v, s, "name", a, b)
    <3>1. PICK m, l : Tok(s, a, m, "LPAREN") /\ Span(v, s, "name", m, l) /\ Tok(s, l, b, "RPAREN")
      BY <2>4 DEF IsEnclosed
    <3>2. m \in Nat /\ l \in Nat /\ m <= l /\ l - m \in 0 .. n - 1
      <4>1. m \in Nat /\ l \in Nat /\ m <= l /\ m = a + 1 /\ b = l + 1
        BY <3>1, TokIs, SpanIs
      <4>. QED
        BY <2>1, <4>1
    <3>3. l - m \in S
      BY <1>1, <3>2
    <3>4. \A q : IsSeq(q) /\ Accepts(s, q, l, "name") => Accepted(s, On(Call("unary"), q), m)
      BY <3>1, <3>2, <3>3
    <3> DEFINE w == On(Expect("RPAREN"), r)
    <3>5. IsSeq(w) /\ Accepts(s, w, l, "name")
      BY <2>1, <3>1, OnIs, ExpectOn
    <3>6. s[l + 1] = "RPAREN"
      BY <3>1, TokIs
    <3> HIDE DEF w
    <3>7. Accepts(s, On(Call("assign"), w), l, "name")
      BY <3>5, <3>6, AssignOn
    <3>8. \A k \in 1 .. 6 : s[l + 1] \notin Levels[k]
      BY <3>6, Followers
    <3>9. Accepted(s, On(Expression, w), m)
      BY <3>4, <3>5, <3>7, <3>8, NameExpression
    <3>. QED
      BY <2>1, <3>1, <3>9, EnclosedOn DEF w
  <2>. QED
    BY <2>2, <2>3, <2>4
<1>2. \A n \in Nat : n \in S
  <2> HIDE DEF S
  <2>. QED
    BY <1>1, StrongInduction
<1>3. i \in Nat /\ j \in Nat /\ i <= j /\ j - i \in Nat
  BY SpanIs
<1>. QED
  BY <1>2, <1>3

(* What is read from the j-th token to the l-th goes on with an expression.     *)
Onward(s, j, l) == \A t : IsSeq(t) /\ Accepted(s, t, l) => OK(s, j, On(Call("assign"), t))

LEMMA OnwardEnd ==
  ASSUME NEW s, NEW l, s[l + 1] # "ASSIGN", \A k \in 1 .. 6 : s[l + 1] \notin Levels[k]
  PROVE  Onward(s, l, l)
<1>1. ASSUME NEW t, IsSeq(t), Accepted(s, t, l) PROVE OK(s, l, On(Call("assign"), t))
  BY <1>1, AssignOn, OperatorsEnd
<1>. QED
  BY <1>1 DEF Onward

(* What the parser does with operands and expressions from i to j.              *)
TakesUnary(s, i, j) ==
  \A t : IsSeq(t) /\ Accepted(s, t, j) => Accepted(s, On(Call("unary"), t), i)
TakesOperand(s, i, j) == \A rest : OK(s, j, rest) => Ready(s, i, rest)
TakesExpression(s, i, j) ==
  \A l, t : IsSeq(t) /\ Onward(s, j, l) /\ Accepted(s, t, l) => Accepted(s, On(Expression, t), i)
Takes(v, s, i, j) ==
  /\ Span(v, s, "signed", i, j) => TakesUnary(s, i, j)
  /\ \A k \in 1 .. 7 : Span(v, s, Own[k], i, j) => TakesOperand(s, i, j)
  /\ Span(v, s, "expression", i, j) => TakesExpression(s, i, j)

LEMMA OperandOfUnary ==
  ASSUME NEW s, NEW i, NEW j, TakesUnary(s, i, j)
  PROVE  TakesOperand(s, i, j)
BY DEF TakesUnary, TakesOperand, OK, Ready

LEMMA ExpressionOfOperand ==
  ASSUME NEW s, NEW i, NEW j, TakesOperand(s, i, j)
  PROVE  TakesExpression(s, i, j)
BY ExpressionOn DEF TakesOperand, TakesExpression, Onward

(* One token, parentheses, or a sign, if all that is shorter is taken.           *)
LEMMA UnaryTaken ==
  ASSUME NEW v, NEW s, NEW i, NEW j,
         \A a, b : i < a /\ b <= j => Takes(v, s, a, b),
         \/ IsLeaf(s, i, j, Literals \cup Names)
         \/ IsEnclosed(v, s, "expression", i, j)
         \/ IsSigned(v, s, i, j)
  PROVE  TakesUnary(s, i, j)
<1>1. SUFFICES ASSUME NEW t, IsSeq(t), Accepted(s, t, j) PROVE Accepted(s, On(Call("unary"), t), i)
  BY DEF TakesUnary
<1>2. CASE IsLeaf(s, i, j, Literals \cup Names)
  BY <1>1, <1>2, LeafOn DEF IsLeaf
<1>3. CASE IsEnclosed(v, s, "expression", i, j)
  <2>1. PICK m, l : Tok(s, i, m, "LPAREN") /\ Span(v, s, "expression", m, l) /\ Tok(s, l, j, "RPAREN")
    BY <1>3 DEF IsEnclosed
  <2>2. i < m /\ l <= j
    <3>1. i < m /\ l \in Nat /\ j \in Nat /\ j = l + 1
      BY <2>1, TokIs
    <3>. QED
      BY <3>1
  <2>3. TakesExpression(s, m, l)
    BY <2>1, <2>2 DEF Takes
  <2>4. s[l + 1] = "RPAREN"
    BY <2>1, TokIs
  <2>5. Onward(s, l, l)
    BY <2>4, Followers, OnwardEnd
  <2> DEFINE w == On(Expect("RPAREN"), t)
  <2>6. IsSeq(w) /\ Accepted(s, w, l)
    BY <1>1, <2>1, OnIs, ExpectOn
  <2> HIDE DEF w
  <2>7. Accepted(s, On(Expression, w), m)
    BY <2>3, <2>5, <2>6 DEF TakesExpression
  <2>. QED
    BY <1>1, <2>1, <2>7, EnclosedOn DEF w
<1>4. CASE IsSigned(v, s, i, j)
  <2>1. PICK op \in Unary : \E m : Tok(s, i, m, op) /\ Span(v, s, "signed", m, j)
    BY <1>4 DEF IsSigned
  <2>2. PICK m : Tok(s, i, m, op) /\ Span(v, s, "signed", m, j)
    BY <2>1
  <2>3. i < m /\ j <= j
    BY <2>2, TokIs, SpanIs
  <2>4. TakesUnary(s, m, j)
    BY <2>2, <2>3 DEF Takes
  <2> DEFINE w == On(UnaryOp(op), t)
  <2>5. UnaryOp(op)[1] \in {"make", "push_back", "declared"}
    BY Skipped DEF UnaryOp
  <2>6. IsSeq(w) /\ Accepted(s, w, j)
    BY <1>1, <2>5, OnIs, SkipOn
  <2> HIDE DEF w
  <2>7. Accepted(s, On(Call("unary"), w), m)
    BY <2>4, <2>6 DEF TakesUnary
  <2>. QED
    BY <1>1, <2>2, <2>7, SignOn DEF w
<1>. QED
  BY <1>2, <1>3, <1>4

LEMMA BinaryTaken ==
  ASSUME NEW v, NEW s, NEW i, NEW j, NEW k \in 1 .. 6, IsBinary(v, s, k, i, j),
         \A a, b : i <= a /\ b <= j /\ (i < a \/ b < j) => Takes(v, s, a, b)
  PROVE  TakesOperand(s, i, j)
<1>1. PICK op \in Levels[k] : \E m, l :
        Span(v, s, Own[k], i, m) /\ Tok(s, m, l, op) /\ Span(v, s, Own[k + 1], l, j)
  BY DEF IsBinary
<1>2. PICK m, l : Span(v, s, Own[k], i, m) /\ Tok(s, m, l, op) /\ Span(v, s, Own[k + 1], l, j)
  BY <1>1
<1>3. i <= i /\ m <= j /\ m < j /\ i <= l /\ i < l /\ j <= j /\ l = m + 1 /\ s[m + 1] = op
  <2>1. i \in Nat /\ m \in Nat /\ l \in Nat /\ j \in Nat /\ i <= m /\ l = m + 1 /\ l <= j
        /\ s[m + 1] = op
    BY <1>2, TokIs, SpanIs
  <2>. QED
    BY <2>1
<1>4. k \in 1 .. 7 /\ k + 1 \in 1 .. 7
  OBVIOUS
<1>5. TakesOperand(s, i, m)
  <2>1. Takes(v, s, i, m)
    BY <1>3
  <2>. QED
    BY <1>2, <1>4, <2>1 DEF Takes
<1>6. TakesOperand(s, l, j)
  <2>1. Takes(v, s, l, j)
    BY <1>3
  <2>. QED
    BY <1>2, <1>4, <2>1 DEF Takes
<1>7. SUFFICES ASSUME NEW rest, OK(s, j, rest) PROVE Ready(s, i, rest)
  BY DEF TakesOperand
<1>8. Ready(s, m + 1, rest)
  BY <1>3, <1>6, <1>7 DEF TakesOperand
<1>9. s[m + 1] \in Levels[k]
  BY <1>3
<1>10. OK(s, m, rest)
  BY <1>8, <1>9, OperatorOn
<1>. QED
  BY <1>5, <1>10 DEF TakesOperand

LEMMA AssignmentTaken ==
  ASSUME NEW v \in Vocabularies, NEW s, NEW i, NEW j, IsAssignment(v, s, i, j),
         \A a, b : i < a /\ b <= j => Takes(v, s, a, b)
  PROVE  TakesExpression(s, i, j)
<1>1. PICK m, l : Span(v, s, "name", i, m) /\ Tok(s, m, l, "ASSIGN") /\ Span(v, s, "expression", l, j)
  BY DEF IsAssignment
<1>2. i < l /\ j <= j
  <2>1. i \in Nat /\ m \in Nat /\ l \in Nat /\ j \in Nat /\ i <= m /\ l = m + 1
    BY <1>1, TokIs, SpanIs
  <2>. QED
    BY <2>1
<1>3. TakesExpression(s, l, j)
  BY <1>1, <1>2 DEF Takes
<1>4. SUFFICES ASSUME NEW k, NEW t, IsSeq(t), Onward(s, j, k), Accepted(s, t, k)
               PROVE  Accepted(s, On(Expression, t), i)
  BY DEF TakesExpression
<1> DEFINE w == On(Assignment, t)
<1>5. Assignment[1] \in {"make", "push_back", "declared"}
  BY Skipped DEF Assignment
<1>6. IsSeq(w) /\ Accepted(s, w, k)
  BY <1>4, <1>5, OnIs, SkipOn
<1> HIDE DEF w
<1>7. Accepted(s, On(Expression, w), l)
  BY <1>3, <1>4, <1>6 DEF TakesExpression
<1>8. Accepts(s, On(Call("assign"), t), m, "name")
  BY <1>1, <1>4, <1>7, AssignmentOn DEF w
<1>9. \A n \in 1 .. 6 : s[m + 1] \notin Levels[n]
  <2>1. s[m + 1] = "ASSIGN"
    BY <1>1, TokIs
  <2>. QED
    BY <2>1, Followers
<1>10. \A r : IsSeq(r) /\ Accepts(s, r, m, "name") => Accepted(s, On(Call("unary"), r), i)
  BY <1>1, NameTaken
<1>. QED
  BY <1>4, <1>8, <1>9, <1>10, NameExpression

LEMMA OwnSigned ==
  /\ \A k \in 1 .. 7 : Own[k] \in Signed /\ Own[k] \notin Assignments /\ Own[k] # "maybe" /\ Own[k] # "list"
  /\ "signed" = Own[7] /\ \A k \in 1 .. 6 : "signed" \notin Heads[k]
  /\ "expression" \in Signed /\ "expression" # "maybe" /\ "expression" # "list"
<1>1. \A k \in 1 .. 7 : Own[k] \in Signed /\ Own[k] \notin Assignments /\ Own[k] # "maybe" /\ Own[k] # "list"
  BY DEF Own, Signed, Products, Sums, Relations, Equalities, Conjunctions, Disjunctions, Assignments
<1>2. \A k \in 1 .. 6 : "signed" \notin Heads[k]
  <2>1. "signed" \notin Products /\ Sums \subseteq Products /\ Relations \subseteq Products
        /\ Equalities \subseteq Products /\ Conjunctions \subseteq Products /\ Disjunctions \subseteq Products
    BY DEF Products, Sums, Relations, Equalities, Conjunctions, Disjunctions, Assignments
  <2>2. \A n \in 1 .. 6 : n = 1 \/ n = 2 \/ n = 3 \/ n = 4 \/ n = 5 \/ n = 6
    OBVIOUS
  <2>3. /\ Heads[1] = Disjunctions /\ Heads[2] = Conjunctions /\ Heads[3] = Equalities
        /\ Heads[4] = Relations /\ Heads[5] = Sums /\ Heads[6] = Products
    BY DEF Heads
  <2>. QED
    BY <2>1, <2>2, <2>3
<1>. QED
  BY <1>1, <1>2 DEF Own, Signed, Products, Sums, Relations, Equalities, Conjunctions, Disjunctions,
                    Assignments

LEMMA ExpressionTaken ==
  ASSUME NEW v \in Vocabularies, NEW s
  PROVE  \A i, j \in Nat : i <= j => Takes(v, s, i, j)
<1> DEFINE S == {n \in Nat : \A a, b \in Nat : a <= b /\ b - a = n => Takes(v, s, a, b)}
<1>1. ASSUME NEW n \in Nat, \A m \in 0 .. n - 1 : m \in S PROVE n \in S
  <2>1. SUFFICES ASSUME NEW a \in Nat, NEW b \in Nat, a <= b, b - a = n
                 PROVE  Takes(v, s, a, b)
    OBVIOUS
  <2>2. ASSUME NEW c, NEW d, a <= c, d <= b, a < c \/ d < b
        PROVE  Takes(v, s, c, d)
    <3>1. CASE c \in Nat /\ d \in Nat /\ c <= d
      <4>1. d - c \in 0 .. n - 1
        BY <2>1, <2>2, <3>1
      <4>2. d - c \in S
        BY <1>1, <4>1
      <4>. QED
        BY <3>1, <4>2
    <3>2. CASE ~(c \in Nat /\ d \in Nat /\ c <= d)
      BY <3>2, SpanIs DEF Takes
    <3>. QED
      BY <3>1, <3>2
  <2>3. /\ \A c, d : a < c /\ d <= b => Takes(v, s, c, d)
        /\ \A c, d : a <= c /\ d <= b /\ (a < c \/ d < b) => Takes(v, s, c, d)
    <3>1. SUFFICES ASSUME NEW c, NEW d, a < c, d <= b PROVE Takes(v, s, c, d)
      BY <2>2
    <3>2. CASE c \in Nat
      <4>1. a <= c
        BY <2>1, <3>1, <3>2
      <4>. QED
        BY <2>2, <3>1, <4>1
    <3>3. CASE c \notin Nat
      BY <3>3, SpanIs DEF Takes
    <3>. QED
      BY <3>2, <3>3
  <2> DEFINE Simple == \/ IsLeaf(s, a, b, Literals \cup Names)
                       \/ IsEnclosed(v, s, "expression", a, b)
                       \/ IsSigned(v, s, a, b)
  <2>4. Simple => TakesUnary(s, a, b)
    BY <2>3, UnaryTaken
  <2>5. ASSUME NEW x \in Signed, x # "maybe", x # "list", Span(v, s, x, a, b)
        PROVE  \/ Simple
               \/ \E k \in 1 .. 6 : x \in Heads[k] /\ IsBinary(v, s, k, a, b)
               \/ x \in Assignments /\ IsAssignment(v, s, a, b)
    <3>1. IsExpression(v, s, x, a, b)
      BY <2>5, ExpressionApart
    <3>. QED
      BY <3>1 DEF IsExpression
  <2> HIDE DEF Simple
  <2>6. ASSUME NEW k \in 1 .. 6, IsBinary(v, s, k, a, b) PROVE TakesOperand(s, a, b)
    BY <2>3, <2>6, BinaryTaken
  <2>7. ASSUME Span(v, s, "signed", a, b) PROVE TakesUnary(s, a, b)
    <3>1. "signed" \in Signed /\ "signed" \notin Assignments /\ "signed" # "maybe" /\ "signed" # "list"
          /\ \A k \in 1 .. 6 : "signed" \notin Heads[k]
      <4>1. 7 \in 1 .. 7
        OBVIOUS
      <4>. QED
        BY <4>1, OwnSigned
    <3>. QED
      BY <2>4, <2>5, <2>7, <3>1
  <2>8. ASSUME NEW k \in 1 .. 7, Span(v, s, Own[k], a, b) PROVE TakesOperand(s, a, b)
    BY <2>4, <2>5, <2>6, <2>8, OwnSigned, OperandOfUnary
  <2>9. ASSUME Span(v, s, "expression", a, b) PROVE TakesExpression(s, a, b)
    <3>1. Simple \/ (\E k \in 1 .. 6 : IsBinary(v, s, k, a, b)) \/ IsAssignment(v, s, a, b)
      BY <2>5, <2>9, OwnSigned
    <3>2. CASE IsAssignment(v, s, a, b)
      BY <2>3, <3>2, AssignmentTaken
    <3>. QED
      BY <2>4, <2>6, <3>1, <3>2, OperandOfUnary, ExpressionOfOperand
  <2>. QED
    BY <2>7, <2>8, <2>9 DEF Takes
<1>2. \A n \in Nat : n \in S
  <2> HIDE DEF S
  <2>. QED
    BY <1>1, StrongInduction
<1>3. \A i, j \in Nat : i <= j => j - i \in Nat
  OBVIOUS
<1>. QED
  BY <1>2, <1>3

LEMMA SpanTaken ==
  ASSUME NEW v \in Vocabularies, NEW s, NEW i, NEW j, Span(v, s, "expression", i, j),
         s[j + 1] # "ASSIGN", \A k \in 1 .. 6 : s[j + 1] \notin Levels[k],
         NEW t, IsSeq(t), Accepted(s, t, j)
  PROVE  Accepted(s, On(Expression, t), i)
<1>1. i \in Nat /\ j \in Nat /\ i <= j
  BY SpanIs
<1>2. TakesExpression(s, i, j)
  BY <1>1, ExpressionTaken DEF Takes
<1>. QED
  BY <1>2, OnwardEnd DEF TakesExpression

(* An expression that begins with a minus is also the rest of one with a minus   *)
(* between two operands.                                                      *)
LEMMA MinusTaken ==
  ASSUME NEW v \in Vocabularies, NEW s, NEW x, x = "expression" \/ (\E k \in 1 .. 7 : x = Own[k]),
         NEW i, NEW j, Span(v, s, x, i, j), s[i + 1] = "MINUS", NEW rest, OK(s, j, rest)
  PROVE  Ready(s, i + 1, rest)
<1> DEFINE Other(y) == y = "expression" \/ \E k \in 1 .. 7 : y = Own[k]
           Rest(a, b) == \A y : Other(y) /\ Span(v, s, y, a, b) /\ s[a + 1] = "MINUS" =>
                           \A r : OK(s, b, r) => Ready(s, a + 1, r)
           S == {n \in Nat : \A a, b \in Nat : a <= b /\ b - a = n => Rest(a, b)}
<1>1. ASSUME NEW n \in Nat, \A m \in 0 .. n - 1 : m \in S PROVE n \in S
  <2>1. SUFFICES ASSUME NEW a \in Nat, NEW b \in Nat, a <= b, b - a = n, NEW y, Other(y),
                        Span(v, s, y, a, b), s[a + 1] = "MINUS", NEW r, OK(s, b, r)
                 PROVE  Ready(s, a + 1, r)
    OBVIOUS
  <2>2. y \in Signed /\ y # "maybe" /\ y # "list"
    BY <2>1, OwnSigned
  <2>3. IsExpression(v, s, y, a, b)
    BY <2>1, <2>2, ExpressionApart
  <2>4. ~IsLeaf(s, a, b, Literals \cup Names) /\ ~IsEnclosed(v, s, "expression", a, b)
        /\ ~IsLeaf(s, a, b, Names) /\ ~IsEnclosed(v, s, "name", a, b)
    BY <2>1, TokIs, Followers DEF IsLeaf, IsEnclosed
  <2>5. CASE IsSigned(v, s, a, b)
    <3>1. PICK op \in Unary : \E m : Tok(s, a, m, op) /\ Span(v, s, "signed", m, b)
      BY <2>5 DEF IsSigned
    <3>2. PICK m : Tok(s, a, m, op) /\ Span(v, s, "signed", m, b)
      BY <3>1
    <3>3. m = a + 1 /\ m \in Nat /\ m <= b /\ 7 \in 1 .. 7
      BY <3>2, TokIs, SpanIs
    <3>4. TakesOperand(s, m, b)
      BY <3>2, <3>3, ExpressionTaken, OwnSigned DEF Takes
    <3>. QED
      BY <2>1, <3>3, <3>4 DEF TakesOperand
  <2>6. ASSUME NEW k \in 1 .. 6, IsBinary(v, s, k, a, b) PROVE Ready(s, a + 1, r)
    <3>1. PICK op \in Levels[k] : \E m, l :
            Span(v, s, Own[k], a, m) /\ Tok(s, m, l, op) /\ Span(v, s, Own[k + 1], l, b)
      BY <2>6 DEF IsBinary
    <3>2. PICK m, l : Span(v, s, Own[k], a, m) /\ Tok(s, m, l, op) /\ Span(v, s, Own[k + 1], l, b)
      BY <3>1
    <3>3. m \in Nat /\ l \in Nat /\ a <= m /\ l = m + 1 /\ l <= b /\ s[m + 1] = op
      BY <3>2, TokIs, SpanIs
    <3>4. k \in 1 .. 7 /\ k + 1 \in 1 .. 7
      OBVIOUS
    <3>5. TakesOperand(s, l, b)
      BY <3>2, <3>3, <3>4, ExpressionTaken DEF Takes
    <3>6. Ready(s, m + 1, r)
      BY <2>1, <3>3, <3>5 DEF TakesOperand
    <3>7. OK(s, m, r)
      BY <3>3, <3>6, OperatorOn
    <3>8. m - a \in 0 .. n - 1
      BY <2>1, <3>3
    <3>9. m - a \in S
      BY <1>1, <3>8
    <3>10. Other(Own[k])
      BY <3>4
    <3> HIDE DEF Other
    <3>. QED
      BY <2>1, <3>2, <3>3, <3>7, <3>9, <3>10
  <2>7. ASSUME IsAssignment(v, s, a, b) PROVE FALSE
    <3>1. PICK m : Span(v, s, "name", a, m)
      BY <2>7 DEF IsAssignment
    <3>2. IsLeaf(s, a, m, Names) \/ IsEnclosed(v, s, "name", a, m)
      BY <3>1, NameApart
    <3>. QED
      BY <2>1, <3>2, TokIs, Followers DEF IsLeaf, IsEnclosed
  <2>. QED
    BY <2>3, <2>4, <2>5, <2>6, <2>7 DEF IsExpression
<1>2. \A n \in Nat : n \in S
  <2> HIDE DEF S
  <2>. QED
    BY <1>1, StrongInduction
<1>3. i \in Nat /\ j \in Nat /\ i <= j /\ j - i \in Nat
  BY SpanIs
<1>. QED
  BY <1>2, <1>3

LEMMA Munch ==
  ASSUME NEW v \in Vocabularies, NEW s, NEW j, NEW l, Span(v, s, "expression", j, l),
         s[j + 1] = "MINUS", Onward(s, l, l)
  PROVE  Onward(s, j, l)
<1>1. ASSUME NEW t, IsSeq(t), Accepted(s, t, l) PROVE OK(s, j, On(Call("assign"), t))
  <2> DEFINE r == On(Call("assign"), t)
  <2>1. OK(s, l, r)
    BY <1>1 DEF Onward
  <2> HIDE DEF r
  <2>2. Ready(s, j + 1, r)
    BY <2>1, MinusTaken
  <2>3. s[j + 1] \in Levels[5] /\ 5 \in 1 .. 6
    BY Followers
  <2>4. OK(s, j, r)
    BY <2>2, <2>3, OperatorOn
  <2>. QED
    BY <2>4 DEF r
<1>. QED
  BY <1>1 DEF Onward

-----------------------------------------------------------------------------
(* The parser reads the statements of the grammar.                            *)

(* What is on the stack is accepted behind the i-th token.                     *)
Fed(s, t, i) == IsSeq(t) /\ Accepted(s, t, i)

LEMMA FedExpect ==
  ASSUME NEW s, NEW i, NEW j, NEW w, Tok(s, i, j, w), NEW t, Fed(s, t, j)
  PROVE  Fed(s, On(Expect(w), t), i)
<1>1. IsSeq(t) /\ Accepted(s, t, j)
  BY DEF Fed
<1>2. IsSeq(On(Expect(w), t))
  BY <1>1, OnIs
<1>3. Accepted(s, On(Expect(w), t), i)
  BY <1>1, ExpectOn
<1>. QED
  BY <1>2, <1>3 DEF Fed

LEMMA FedSkip ==
  ASSUME NEW h, h[1] \in {"make", "push_back", "declared"}, NEW s, NEW i, NEW t, Fed(s, t, i)
  PROVE  Fed(s, On(h, t), i)
<1>1. IsSeq(t) /\ Accepted(s, t, i)
  BY DEF Fed
<1>2. IsSeq(On(h, t))
  BY <1>1, OnIs
<1>3. Accepted(s, On(h, t), i)
  BY <1>1, SkipOn
<1>. QED
  BY <1>2, <1>3 DEF Fed

LEMMA FedSimply ==
  ASSUME NEW s, NEW h, NEW t, IsSeq(t), NEW i, NEW todo, NEW j,
         MoveSimply(s, h, i, todo, j), Fed(s, todo \o t, j)
  PROVE  Fed(s, On(h, t), i)
BY SimplyOn, OnIs DEF Fed

Enders == {"RPAREN", "SEMICOLON", "COMMA"}
LEMMA FedExpression ==
  ASSUME NEW v \in Vocabularies, NEW s, NEW i, NEW j, Span(v, s, "expression", i, j),
         s[j + 1] \in Enders, NEW t, Fed(s, t, j)
  PROVE  Fed(s, On(Expression, t), i)
<1>1. IsSeq(t) /\ Accepted(s, t, j)
  BY DEF Fed
<1>2. s[j + 1] # "ASSIGN" /\ s[j + 1] \in {"RPAREN", "SEMICOLON", "COMMA", "ASSIGN"}
  BY DEF Enders
<1>3. \A k \in 1 .. 6 : s[j + 1] \notin Levels[k]
  BY <1>2, Followers
<1>4. Accepted(s, On(Expression, t), i)
  BY <1>1, <1>2, <1>3, SpanTaken
<1>5. IsSeq(On(Expression, t))
  BY <1>1, OnIs
<1>. QED
  BY <1>4, <1>5 DEF Fed

LEMMA FirstApart ==
  /\ \A w \in {"RPAREN", "SEMICOLON", "COLON", "ELSE", "RBRACE", END} \cup Types \cup Keywords :
       w \notin FirstTokens
  /\ \A w \in {"SEMICOLON", "COLON"} : w \notin ExpressionTokens
<1>1. \A w \in {"RPAREN", "SEMICOLON", "COLON", "ELSE", "RBRACE", END} \cup Types \cup Keywords :
        w \notin FirstTokens
  BY DEF FirstTokens, Literals, Names, Unary, Types, Keywords, END
<1>2. /\ Levels[1] = {"OR"} /\ Levels[2] = {"AND"} /\ Levels[3] = {"EQUAL", "NOTEQUAL"}
      /\ Levels[4] = {"LESS", "GREATER", "LESSEQUAL", "GREATEREQUAL"}
      /\ Levels[5] = {"PLUS", "MINUS"} /\ Levels[6] = {"MULTIPLY", "DIVIDE", "MODULO"}
  BY DEF Levels
<1>3. \A n \in 1 .. 6 : n = 1 \/ n = 2 \/ n = 3 \/ n = 4 \/ n = 5 \/ n = 6
  OBVIOUS
<1>4. "SEMICOLON" \notin Operating /\ "COLON" \notin Operating
  BY <1>2, <1>3 DEF Operating
<1>5. "SEMICOLON" \notin ExpressionTokens /\ "COLON" \notin ExpressionTokens
  BY <1>1, <1>4 DEF ExpressionTokens
<1>. QED
  BY <1>1, <1>5

(* An expression that may be missing.                                          *)
LEMMA FedOptional ==
  ASSUME NEW v \in Vocabularies, NEW s, NEW i, NEW j, Span(v, s, "maybe", i, j),
         NEW w \in {"RPAREN", "SEMICOLON"}, s[j + 1] = w, NEW t, Fed(s, t, j)
  PROVE  Fed(s, On(Optional(w), t), i)
<1>0. IsSeq(t) /\ Accepted(s, t, j)
  BY DEF Fed
<1>1. Optional(w)[1] = "optional" /\ Optional(w)[2] = w
  BY DEF Optional, Of
<1>2. \/ i = j
      \/ Span(v, s, "expression", i, j)
  BY ExpressionApart DEF Signed, Products, Sums, Relations, Equalities, Conjunctions, Disjunctions,
                         Assignments
<1>3. CASE i = j
  <2>1. MoveSimply(s, Optional(w), i, <<>>, i)
    BY <1>1, <1>3 DEF MoveSimply, MoveOptional
  <2>2. <<>> \o t = t
    BY <1>0, OnNone
  <2>. QED
    BY <1>0, <1>3, <2>1, <2>2, FedSimply
<1>4. CASE Span(v, s, "expression", i, j)
  <2>1. "expression" \in {"name"} \cup Signed /\ "expression" # "maybe"
    BY OwnSigned
  <2>2. Opens(s, i, j)
    BY <1>4, <2>1, ExpressionOpens
  <2>3. s[i + 1] # w
    BY <2>2, FirstApart DEF Opens
  <2>4. MoveSimply(s, Optional(w), i, <<Expression>>, i)
    BY <1>1, <2>3 DEF MoveSimply, MoveOptional
  <2>5. <<Expression>> \o t = On(Expression, t)
    BY OnOne
  <2>6. Fed(s, On(Expression, t), i)
    BY <1>4, FedExpression DEF Enders
  <2>. QED
    BY <1>0, <2>4, <2>5, <2>6, FedSimply
<1>. QED
  BY <1>2, <1>3, <1>4

(* More items of a list, or none.                                              *)
LEMMA FedMore ==
  ASSUME NEW s, NEW i, NEW j, Tok(s, i, j, "COMMA"), NEW item, NEW t, IsSeq(t),
         Fed(s, On(item, On(Call("push_back"), On(Of("more", item), t))), j)
  PROVE  Fed(s, On(Of("more", item), t), i)
<1> DEFINE todo == <<item, Call("push_back"), Of("more", item)>>
<1>1. Of("more", item)[1] = "more" /\ Of("more", item)[2] = item /\ s[i + 1] = "COMMA" /\ j = i + 1
  BY TokIs DEF Of
<1>2. MoveMore(s, item, i, todo, j)
  BY <1>1 DEF MoveMore
<1>3. todo \o t = On(item, On(Call("push_back"), On(Of("more", item), t)))
  BY OnThree
<1> HIDE DEF todo
<1>4. MoveSimply(s, Of("more", item), i, todo, j)
  BY <1>1, <1>2 DEF MoveSimply
<1>. QED
  BY <1>3, <1>4, FedSimply

LEMMA FedNoMore ==
  ASSUME NEW s, NEW i, s[i + 1] # "COMMA", NEW item, NEW t, Fed(s, t, i)
  PROVE  Fed(s, On(Of("more", item), t), i)
<1>0. IsSeq(t)
  BY DEF Fed
<1>1. Of("more", item)[1] = "more" /\ Of("more", item)[2] = item
  BY DEF Of
<1>2. MoveMore(s, item, i, <<>>, i)
  BY DEF MoveMore
<1>3. <<>> \o t = t
  BY <1>0, OnNone
<1>4. MoveSimply(s, Of("more", item), i, <<>>, i)
  BY <1>1, <1>2 DEF MoveSimply
<1>. QED
  BY <1>0, <1>3, <1>4, FedSimply

LEMMA FedList ==
  ASSUME NEW v \in Vocabularies, NEW s, NEW i, NEW j, Span(v, s, "list", i, j),
         s[j + 1] \in Enders, NEW t, IsSeq(t), Fed(s, On(Of("more", Expression), t), j)
  PROVE  Fed(s, On(Expression, On(Call("push_back"), On(Of("more", Expression), t))), i)
<1> DEFINE w == On(Of("more", Expression), t)
           x == On(Expression, On(Call("push_back"), w))
           Lists(a, b) == Span(v, s, "list", a, b) /\ s[b + 1] \in Enders /\ Fed(s, w, b) => Fed(s, x, a)
           S == {n \in Nat : \A a, b \in Nat : a <= b /\ b - a = n => Lists(a, b)}
<1>0. \A a, b : Span(v, s, "expression", a, b) /\ s[b + 1] \in Enders /\ Fed(s, w, b) => Fed(s, x, a)
  <2> HIDE DEF w
  <2>1. SUFFICES ASSUME NEW a, NEW b, Span(v, s, "expression", a, b), s[b + 1] \in Enders, Fed(s, w, b)
                 PROVE  Fed(s, x, a)
    OBVIOUS
  <2>2. Fed(s, On(Call("push_back"), w), b)
    BY <2>1, Skipped, FedSkip
  <2>. QED
    BY <2>1, <2>2, FedExpression
<1>1. ASSUME NEW n \in Nat, \A m \in 0 .. n - 1 : m \in S PROVE n \in S
  <2>1. SUFFICES ASSUME NEW a \in Nat, NEW b \in Nat, a <= b, b - a = n, Span(v, s, "list", a, b),
                        s[b + 1] \in Enders, Fed(s, w, b)
                 PROVE  Fed(s, x, a)
    OBVIOUS
  <2>2. Span(v, s, "expression", a, b) \/ IsList(v, s, a, b)
    <3>1. "list" \in Signed /\ "list" \in Assignments /\ "list" # "maybe"
      BY DEF Signed, Products, Sums, Relations, Equalities, Conjunctions, Disjunctions, Assignments
    <3>. QED
      BY <2>1, <3>1, ExpressionApart
  <2>3. CASE IsList(v, s, a, b)
    <3>1. PICK m, l : Span(v, s, "list", a, m) /\ Tok(s, m, l, "COMMA") /\ Span(v, s, "expression", l, b)
      BY <2>3 DEF IsList
    <3>2. m \in Nat /\ l \in Nat /\ l = m + 1 /\ a <= m /\ l <= b /\ s[m + 1] = "COMMA"
      BY <3>1, TokIs, SpanIs
    <3>3. Fed(s, x, l)
      BY <1>0, <2>1, <3>1
    <3>4. Fed(s, w, m)
      BY <3>1, <3>3, FedMore
    <3>5. m - a \in 0 .. n - 1 /\ s[m + 1] \in Enders
      BY <2>1, <3>2 DEF Enders
    <3>6. m - a \in S
      BY <1>1, <3>5
    <3> HIDE DEF w, x
    <3>. QED
      BY <3>1, <3>2, <3>4, <3>5, <3>6
  <2>. QED
    BY <1>0, <2>1, <2>2, <2>3
<1>2. \A n \in Nat : n \in S
  <2> HIDE DEF S
  <2>. QED
    BY <1>1, StrongInduction
<1>3. i \in Nat /\ j \in Nat /\ i <= j /\ j - i \in Nat
  BY SpanIs
<1>4. Lists(i, j)
  <2> HIDE DEF Lists
  <2>. QED
    BY <1>2, <1>3
<1>. QED
  BY <1>4

(* What a statement begins with.                                               *)
Starters == FirstTokens \cup Keywords

LEMMA BlockOpens ==
  ASSUME NEW v \in Vocabularies, NEW s, NEW i, NEW j, Span(v, s, "block", i, j)
  PROVE  s[i + 1] = "LBRACE" /\ i < j
<1> DEFINE Braced(a, b) == Span(v, s, "block", a, b) => s[a + 1] = "LBRACE" /\ a < b
           S == {n \in Nat : \A a, b \in Nat : a <= b /\ b - a = n => Braced(a, b)}
<1>1. ASSUME NEW n \in Nat, \A m \in 0 .. n - 1 : m \in S PROVE n \in S
  <2>1. SUFFICES ASSUME NEW a \in Nat, NEW b \in Nat, a <= b, b - a = n, Span(v, s, "block", a, b)
                 PROVE  s[a + 1] = "LBRACE" /\ a < b
    OBVIOUS
  <2>2. CASE Tok(s, a, b, "LBRACE")
    BY <2>2, TokIs
  <2>3. CASE \E m : Span(v, s, "block", a, m) /\ Span(v, s, "statement", m, b)
    <3>1. PICK m : Span(v, s, "block", a, m) /\ Span(v, s, "statement", m, b)
      BY <2>3
    <3>2. m \in Nat /\ a <= m /\ m <= b
      BY <3>1, SpanIs
    <3>3. CASE m < b
      <4>1. m - a \in 0 .. n - 1
        BY <2>1, <3>2, <3>3
      <4>2. m - a \in S
        BY <1>1, <4>1
      <4>3. s[a + 1] = "LBRACE" /\ a < m
        BY <3>1, <3>2, <4>2
      <4>. QED
        BY <3>2, <3>3, <4>3
    <3>4. CASE m = b
      <4>1. IsStatement(v, s, "statement", b, b)
        BY <3>1, <3>4, StatementApart DEF Statements
      <4>2. ASSUME NEW x, NEW y, NEW c, NEW w, Span(v, s, x, b, c), Tok(s, c, b, w) PROVE FALSE
        <5>1. b <= c /\ c \in Nat /\ b = c + 1
          BY <4>2, SpanIs, TokIs
        <5>. QED
          BY <5>1
      <4>3. \A c, x : Span(v, s, x, c, b) => c <= b /\ c \in Nat
        BY SpanIs
      <4>4. \A c, d, w : Tok(s, c, d, w) => c \in Nat /\ d \in Nat /\ c < d
        BY TokIs
      <4>5. \A c, d, x : Span(v, s, x, c, d) => c \in Nat /\ d \in Nat /\ c <= d
        BY SpanIs
      <4>6. ~IsExpressionStatement(v, s, b, b) /\ ~IsCompound(v, s, b, b)
        BY <4>2 DEF IsExpressionStatement, IsCompound
      <4>7. ~IsDo(v, s, b, b)
        BY <4>4, <4>5 DEF IsDo
      <4>8. ~IsRead(v, s, b, b) /\ ~IsWriteNothing(v, s, b, b) /\ ~IsWrite(v, s, b, b)
        BY <4>4, <4>5 DEF IsRead, IsWriteNothing, IsWrite
      <4>9. ~IsIf(v, s, b, b)
        BY <4>4, <4>5 DEF IsIf
      <4>10. \A x : ~IsLabelled(v, s, x, b, b) /\ ~IsIfElse(v, s, x, b, b)
        BY <4>4, <4>5 DEF IsLabelled, IsIfElse
      <4>11. \A x : ~IsWhile(v, s, x, b, b)
        BY <4>4, <4>5 DEF IsWhile
      <4>12. \A x : ~IsFor(v, s, x, b, b)
        BY <4>4, <4>5 DEF IsFor
      <4>. QED
        BY <4>1, <4>6, <4>7, <4>8, <4>9, <4>10, <4>11, <4>12 DEF IsStatement
    <3>. QED
      BY <3>2, <3>3, <3>4
  <2>. QED
    BY <2>1, <2>2, <2>3, BlockApart
<1>2. \A n \in Nat : n \in S
  <2> HIDE DEF S
  <2>. QED
    BY <1>1, StrongInduction
<1>3. i \in Nat /\ j \in Nat /\ i <= j /\ j - i \in Nat
  BY SpanIs
<1>4. Braced(i, j)
  <2> HIDE DEF Braced
  <2>. QED
    BY <1>2, <1>3
<1>. QED
  BY <1>4

LEMMA StatementOpens ==
  ASSUME NEW v \in Vocabularies, NEW s, NEW x \in Statements, NEW i, NEW j, Span(v, s, x, i, j)
  PROVE  s[i + 1] \in Starters /\ i < j
<1>0. i \in Nat /\ j \in Nat /\ i <= j
  BY SpanIs
<1>1. IsStatement(v, s, x, i, j)
  BY StatementApart
<1>2. CASE IsExpressionStatement(v, s, i, j)
  <2>1. PICK m : Span(v, s, "expression", i, m) /\ Tok(s, m, j, "SEMICOLON")
    BY <1>2 DEF IsExpressionStatement
  <2>2. Opens(s, i, m) /\ m \in Nat /\ j = m + 1 /\ i <= m
    BY <2>1, ExpressionOpens, OwnSigned, TokIs, SpanIs
  <2>. QED
    BY <1>0, <2>2 DEF Opens, Starters
<1>3. CASE IsCompound(v, s, i, j)
  <2>1. PICK m : Span(v, s, "block", i, m) /\ Tok(s, m, j, "RBRACE")
    BY <1>3 DEF IsCompound
  <2>2. s[i + 1] = "LBRACE" /\ i < m /\ m \in Nat /\ j = m + 1
    BY <2>1, BlockOpens, TokIs
  <2>3. "LBRACE" \in Starters
    BY DEF Starters, Keywords
  <2>. QED
    BY <1>0, <2>2, <2>3
<1>4. ASSUME NEW w \in {"DO", "READ", "WRITE", "IF", "IDENTIFIER", "WHILE", "FOR"}, s[i + 1] = w
      PROVE  s[i + 1] \in Starters
  BY <1>4 DEF Starters, Keywords, FirstTokens, Names
<1>5. ASSUME NEW w \in {"DO", "READ", "WRITE", "IF", "IDENTIFIER", "WHILE", "FOR"}, NEW m, Tok(s, i, m, w),
             m <= j
      PROVE  s[i + 1] \in Starters /\ i < j
  <2>1. s[i + 1] = w /\ i < m /\ m \in Nat
    BY <1>5, TokIs
  <2>. QED
    BY <1>0, <1>4, <1>5, <2>1
<1>6. \A c, d, w : Tok(s, c, d, w) => c \in Nat /\ d \in Nat /\ c <= d
  BY TokIs
<1>7. \A c, d, y : Span(v, s, y, c, d) => c \in Nat /\ d \in Nat /\ c <= d
  BY SpanIs
<1> DEFINE First == \E w \in {"DO", "READ", "WRITE", "IF", "IDENTIFIER", "WHILE", "FOR"} : \E m :
                      Tok(s, i, m, w) /\ m <= j
<1>8. CASE IsDo(v, s, i, j)
  <2>1. First
    BY <1>6, <1>7, <1>8 DEF IsDo
  <2>. QED
    BY <1>5, <2>1
<1>9. CASE IsRead(v, s, i, j) \/ IsWriteNothing(v, s, i, j) \/ IsWrite(v, s, i, j)
  <2>1. First
    BY <1>6, <1>7, <1>9 DEF IsRead, IsWriteNothing, IsWrite
  <2>. QED
    BY <1>5, <2>1
<1>10. CASE IsIf(v, s, i, j)
  <2>1. First
    BY <1>6, <1>7, <1>10 DEF IsIf
  <2>. QED
    BY <1>5, <2>1
<1>11. CASE IsLabelled(v, s, x, i, j)
  <2>1. First
    BY <1>6, <1>7, <1>11 DEF IsLabelled
  <2>. QED
    BY <1>5, <2>1
<1>12. CASE IsIfElse(v, s, x, i, j)
  <2>1. First
    BY <1>6, <1>7, <1>12 DEF IsIfElse
  <2>. QED
    BY <1>5, <2>1
<1>13. CASE IsWhile(v, s, x, i, j)
  <2>1. First
    BY <1>6, <1>7, <1>13 DEF IsWhile
  <2>. QED
    BY <1>5, <2>1
<1>14. CASE IsFor(v, s, x, i, j)
  <2>1. First
    BY <1>6, <1>7, <1>14 DEF IsFor
  <2>. QED
    BY <1>5, <2>1
<1>. QED
  BY <1>1, <1>2, <1>3, <1>8, <1>9, <1>10, <1>11, <1>12, <1>13, <1>14 DEF IsStatement

LEMMA FedStatement ==
  ASSUME NEW s, NEW t, IsSeq(t), NEW i, NEW todo, MoveStatement(s, i, todo, i), Fed(s, todo \o t, i)
  PROVE  Fed(s, On(Statement, t), i)
<1>1. Statement[1] = "statement"
  BY DEF Statement, Call
<1>2. MoveSimply(s, Statement, i, todo, i)
  BY <1>1 DEF MoveSimply
<1>. QED
  BY <1>2, FedSimply

LEMMA OnParts ==
  ASSUME NEW p, NEW q, NEW r, NEW t, IsSeq(p), IsSeq(q), IsSeq(r), IsSeq(t)
  PROVE  (p \o q \o r) \o t = p \o (q \o (r \o t)) /\ IsSeq(r \o t) /\ IsSeq(q \o (r \o t))
<1> DEFINE x == p \o q
           y == r \o t
<1>1. IsSeq(x) /\ IsSeq(y)
  BY ConcatIs
<1>2. (x \o r) \o t = x \o y
  <2> HIDE DEF x
  <2>. QED
    BY <1>1, ConcatAssoc
<1>3. x \o y = p \o (q \o y) /\ IsSeq(q \o y)
  <2> HIDE DEF y
  <2>. QED
    BY <1>1, ConcatAssoc, ConcatIs
<1>. QED
  BY <1>1, <1>2, <1>3

IsCondition(v, s, i, j) ==
  \E m, l : Tok(s, i, m, "LPAREN") /\ Span(v, s, "expression", m, l) /\ Tok(s, l, j, "RPAREN")
LEMMA FedCondition ==
  ASSUME NEW v \in Vocabularies, NEW s, NEW i, NEW j, IsCondition(v, s, i, j), NEW t, Fed(s, t, j)
  PROVE  Fed(s, Condition \o t, i)
<1>1. PICK m, l : Tok(s, i, m, "LPAREN") /\ Span(v, s, "expression", m, l) /\ Tok(s, l, j, "RPAREN")
  BY DEF IsCondition
<1>2. Fed(s, On(Expect("RPAREN"), t), l)
  BY <1>1, FedExpect
<1>3. s[l + 1] \in Enders
  BY <1>1, TokIs DEF Enders
<1>4. Fed(s, On(Expression, On(Expect("RPAREN"), t)), m)
  BY <1>1, <1>2, <1>3, FedExpression
<1>5. Fed(s, On(Expect("LPAREN"), On(Expression, On(Expect("RPAREN"), t))), i)
  BY <1>1, <1>4, FedExpect
<1>6. IsSeq(t)
  BY DEF Fed
<1> DEFINE todo == <<Expect("LPAREN"), Expression, Expect("RPAREN")>>
<1>7. todo \o t = On(Expect("LPAREN"), On(Expression, On(Expect("RPAREN"), t)))
  BY <1>6, OnThree
<1>8. Condition = todo
  BY DEF Condition
<1> HIDE DEF todo
<1>. QED
  BY <1>5, <1>7, <1>8

(* An expression and a semicolon.                                              *)
LEMMA FedExpressionStatement ==
  ASSUME NEW v \in Vocabularies, NEW s, NEW i, NEW j, IsExpressionStatement(v, s, i, j), NEW t, Fed(s, t, j)
  PROVE  Fed(s, On(Statement, t), i)
<1>1. PICK m : Span(v, s, "expression", i, m) /\ Tok(s, m, j, "SEMICOLON")
  BY DEF IsExpressionStatement
<1> DEFINE last == On(ExpressionStatement, t)
           todo == <<Expression, Expect("SEMICOLON"), ExpressionStatement>>
<1>2. Fed(s, last, j)
  BY FedSkip, Skipped DEF ExpressionStatement
<1>0. IsSeq(t)
  BY DEF Fed
<1>3. todo \o t = On(Expression, On(Expect("SEMICOLON"), last))
  BY <1>0, OnThree
<1> HIDE DEF last
<1>4. Fed(s, On(Expect("SEMICOLON"), last), m)
  BY <1>1, <1>2, FedExpect
<1>5. s[m + 1] = "SEMICOLON" /\ m \in Nat
  BY <1>1, TokIs
<1>6. Fed(s, todo \o t, i)
  <2>1. s[m + 1] \in Enders
    BY <1>5 DEF Enders
  <2>2. Fed(s, On(Expression, On(Expect("SEMICOLON"), last)), i)
    BY <1>1, <1>4, <2>1, FedExpression
  <2>. QED
    BY <1>3, <2>2
<1>7. Opens(s, i, m)
  BY <1>1, ExpressionOpens, OwnSigned
<1>8. s[i + 1] \notin Keywords
  BY <1>7, FirstApart DEF Opens
<1>9. s[i + 2] # "COLON"
  <2>1. i \in Nat /\ i < m /\ \A n \in i + 1 .. m : s[n] \in ExpressionTokens
    BY <1>7 DEF Opens, Worded
  <2>2. CASE m = i + 1
    <3>1. m + 1 = i + 2
      BY <1>5, <2>1, <2>2
    <3>. QED
      BY <1>5, <3>1
  <2>3. CASE m # i + 1
    <3>1. i + 2 \in i + 1 .. m
      BY <1>5, <2>1, <2>3
    <3>. QED
      BY <2>1, <3>1, FirstApart
  <2>. QED
    BY <2>2, <2>3
<1>10. MoveStatement(s, i, todo, i)
  BY <1>8, <1>9 DEF MoveStatement
<1> HIDE DEF todo
<1>. QED
  BY <1>0, <1>6, <1>10, FedStatement

LEMMA FedRead ==
  ASSUME NEW v \in Vocabularies, NEW s, NEW i, NEW j, IsRead(v, s, i, j), NEW t, Fed(s, t, j)
  PROVE  Fed(s, On(Statement, t), i)
<1>1. PICK m1, m2, m3, m4 :
        Tok(s, i, m1, "READ") /\ Tok(s, m1, m2, "LPAREN") /\ Span(v, s, "variable", m2, m3)
        /\ Tok(s, m3, m4, "RPAREN") /\ Tok(s, m4, j, "SEMICOLON")
  BY DEF IsRead
<1> DEFINE t1 == On(ReadStatement, t)
           t2 == On(Expect("SEMICOLON"), t1)
           t3 == On(Expect("RPAREN"), t2)
           t4 == On(Call("identifier"), t3)
           t5 == On(Expect("LPAREN"), t4)
           t6 == On(Expect("READ"), t5)
           todo == <<Expect("READ"), Expect("LPAREN"), Call("identifier"), Expect("RPAREN"),
                     Expect("SEMICOLON"), ReadStatement>>
<1>0. IsSeq(t)
  BY DEF Fed
<1>2. todo \o t = t6
  BY <1>0, OnSix
<1>3. MoveStatement(s, i, todo, i)
  <2>1. s[i + 1] = "READ"
    BY <1>1, TokIs
  <2>. QED
    BY <2>1 DEF MoveStatement
<1>4. Fed(s, t1, j)
  BY FedSkip, Skipped DEF ReadStatement
<1>5. Fed(s, t2, m4)
  <2> HIDE DEF t1
  <2>. QED
    BY <1>1, <1>4, FedExpect
<1>6. Fed(s, t3, m3)
  <2> HIDE DEF t2
  <2>. QED
    BY <1>1, <1>5, FedExpect
<1>7. Fed(s, t4, m2)
  <2> HIDE DEF t3
  <2>1. s[m2 + 1] = "IDENTIFIER" /\ m3 = m2 + 1
    BY <1>1, VariableApart, TokIs
  <2>2. Call("identifier")[1] = "identifier"
    BY DEF Call
  <2>3. MoveSimply(s, Call("identifier"), m2, <<>>, m3)
    BY <2>1, <2>2 DEF MoveSimply
  <2>4. <<>> \o t3 = t3 /\ IsSeq(t3)
    BY <1>6, OnNone DEF Fed
  <2>. QED
    BY <1>6, <2>3, <2>4, FedSimply
<1>8. Fed(s, t5, m1)
  <2> HIDE DEF t4
  <2>. QED
    BY <1>1, <1>7, FedExpect
<1>9. Fed(s, t6, i)
  <2> HIDE DEF t5
  <2>. QED
    BY <1>1, <1>8, FedExpect
<1> HIDE DEF todo, t6
<1>. QED
  BY <1>0, <1>2, <1>3, <1>9, FedStatement

(* The rest of a write statement, from its arguments on.                       *)
LEMMA FedWriting ==
  ASSUME NEW s, NEW i, NEW m1, NEW m2, Tok(s, i, m1, "WRITE"), Tok(s, m1, m2, "LPAREN"), NEW t, IsSeq(t),
         Fed(s, On(Call("arguments"), On(Expect("RPAREN"), On(Expect("SEMICOLON"), t))), m2)
  PROVE  Fed(s, On(Statement, t), i)
<1> DEFINE t3 == On(Call("arguments"), On(Expect("RPAREN"), On(Expect("SEMICOLON"), t)))
           todo == <<Expect("WRITE"), Expect("LPAREN"), Call("arguments"), Expect("RPAREN"),
                     Expect("SEMICOLON")>>
<1>1. todo \o t = On(Expect("WRITE"), On(Expect("LPAREN"), t3))
  BY OnFive
<1>2. MoveStatement(s, i, todo, i)
  <2>1. s[i + 1] = "WRITE"
    BY TokIs
  <2>. QED
    BY <2>1 DEF MoveStatement
<1> HIDE DEF todo
<1>3. Fed(s, On(Expect("LPAREN"), t3), m1)
  <2> HIDE DEF t3
  <2>. QED
    BY FedExpect DEF t3
<1>4. Fed(s, On(Expect("WRITE"), On(Expect("LPAREN"), t3)), i)
  <2> HIDE DEF t3
  <2>. QED
    BY <1>3, FedExpect
<1>. QED
  BY <1>1, <1>2, <1>4, FedStatement

LEMMA FedWriteNothing ==
  ASSUME NEW v \in Vocabularies, NEW s, NEW i, NEW j, IsWriteNothing(v, s, i, j), NEW t, Fed(s, t, j)
  PROVE  Fed(s, On(Statement, t), i)
<1>1. PICK m1, m2, m3 :
        Tok(s, i, m1, "WRITE") /\ Tok(s, m1, m2, "LPAREN") /\ Tok(s, m2, m3, "RPAREN")
        /\ Tok(s, m3, j, "SEMICOLON")
  BY DEF IsWriteNothing
<1> DEFINE t1 == On(Expect("SEMICOLON"), t)
           t2 == On(Expect("RPAREN"), t1)
<1>2. Fed(s, t1, m3)
  BY <1>1, FedExpect
<1>3. Fed(s, t2, m2)
  <2> HIDE DEF t1
  <2>. QED
    BY <1>1, <1>2, FedExpect
<1>4. Fed(s, On(Call("arguments"), t2), m2)
  <2> HIDE DEF t2
  <2>1. s[m2 + 1] = "RPAREN" /\ Call("arguments")[1] = "arguments"
    BY <1>1, TokIs DEF Call
  <2>2. MoveSimply(s, Call("arguments"), m2, <<>>, m2)
    BY <2>1 DEF MoveSimply, MoveArguments
  <2>3. <<>> \o t2 = t2 /\ IsSeq(t2)
    BY <1>3, OnNone DEF Fed
  <2>. QED
    BY <1>3, <2>2, <2>3, FedSimply
<1>5. IsSeq(t)
  BY DEF Fed
<1>. QED
  BY <1>1, <1>4, <1>5, FedWriting

LEMMA ListOpens ==
  ASSUME NEW v \in Vocabularies, NEW s, NEW i, NEW j, Span(v, s, "list", i, j)
  PROVE  Opens(s, i, j)
<1>1. "list" \in {"name"} \cup Signed /\ "list" # "maybe"
  BY DEF Signed, Products, Sums, Relations, Equalities, Conjunctions, Disjunctions, Assignments
<1>. QED
  BY <1>1, ExpressionOpens

LEMMA FedWrite ==
  ASSUME NEW v \in Vocabularies, NEW s, NEW i, NEW j, IsWrite(v, s, i, j), NEW t, Fed(s, t, j)
  PROVE  Fed(s, On(Statement, t), i)
<1>1. PICK m1, m2, m3, m4 :
        Tok(s, i, m1, "WRITE") /\ Tok(s, m1, m2, "LPAREN") /\ Span(v, s, "list", m2, m3)
        /\ Tok(s, m3, m4, "RPAREN") /\ Tok(s, m4, j, "SEMICOLON")
  BY DEF IsWrite
<1> DEFINE t1 == On(Expect("SEMICOLON"), t)
           t2 == On(Expect("RPAREN"), t1)
           t3 == On(Of("more", Expression), t2)
           t4 == On(Expression, On(Call("push_back"), t3))
<1>2. Fed(s, t1, m4)
  BY <1>1, FedExpect
<1>3. Fed(s, t2, m3)
  <2> HIDE DEF t1
  <2>. QED
    BY <1>1, <1>2, FedExpect
<1>4. s[m3 + 1] = "RPAREN" /\ s[m3 + 1] \in Enders
  BY <1>1, TokIs DEF Enders
<1>5. Fed(s, t3, m3) /\ IsSeq(t2)
  <2> HIDE DEF t2
  <2>. QED
    BY <1>3, <1>4, FedNoMore DEF Fed
<1>6. Fed(s, t4, m2)
  <2> HIDE DEF t2
  <2>. QED
    BY <1>1, <1>4, <1>5, FedList
<1>7. Fed(s, On(Call("arguments"), t2), m2)
  <2> DEFINE todo == <<Expression, Call("push_back"), Of("more", Expression)>>
  <2>1. s[m2 + 1] # "RPAREN" /\ Call("arguments")[1] = "arguments"
    BY <1>1, ListOpens, FirstApart DEF Call, Opens
  <2>2. MoveSimply(s, Call("arguments"), m2, todo, m2)
    BY <2>1 DEF MoveSimply, MoveArguments
  <2>3. todo \o t2 = t4
    <3> HIDE DEF t2
    <3>. QED
      BY <1>5, OnThree
  <2> HIDE DEF todo, t2, t4
  <2>. QED
    BY <1>5, <1>6, <2>2, <2>3, FedSimply
<1>8. IsSeq(t)
  BY DEF Fed
<1>. QED
  BY <1>1, <1>7, <1>8, FedWriting

(* What the parser does with statements and blocks from i to j.                 *)
FeedsStatement(s, i, j) == \A t : Fed(s, t, j) => Fed(s, On(Statement, t), i)
FeedsBlock(s, i, j) ==
  \A t : IsSeq(t) /\ Fed(s, On(Call("block"), t), j)
           => Fed(s, On(Expect("LBRACE"), On(Call("block"), t)), i)
Feeds(v, s, i, j) ==
  /\ \A x \in Statements : Span(v, s, x, i, j) /\ (x = "closed" \/ s[j + 1] # "ELSE") => FeedsStatement(s, i, j)
  /\ Span(v, s, "block", i, j) /\ s[j + 1] # "ELSE" => FeedsBlock(s, i, j)
FeedsWithin(v, s, i, j) == \A a, b : i <= a /\ b <= j /\ (i < a \/ b < j) => Feeds(v, s, a, b)

LEMMA InnerFeeds ==
  ASSUME NEW v, NEW s, NEW i \in Nat, NEW j \in Nat, FeedsWithin(v, s, i, j),
         NEW x, NEW a, NEW b, Span(v, s, x, a, b), i < a, b <= j
  PROVE  Feeds(v, s, a, b)
<1>1. a \in Nat /\ b \in Nat /\ i <= a
  BY SpanIs
<1>. QED
  BY <1>1 DEF FeedsWithin

LEMMA SomeStatement == "statement" \in Statements /\ "closed" \in Statements /\ "statement" # "closed"
BY DEF Statements

LEMMA FedLabelled ==
  ASSUME NEW v \in Vocabularies, NEW s, NEW x \in Statements, NEW i, NEW j, IsLabelled(v, s, x, i, j),
         FeedsWithin(v, s, i, j), x = "closed" \/ s[j + 1] # "ELSE"
  PROVE  FeedsStatement(s, i, j)
<1>1. SUFFICES ASSUME NEW t, Fed(s, t, j) PROVE Fed(s, On(Statement, t), i)
  BY DEF FeedsStatement
<1>2. PICK m1, m2 : Tok(s, i, m1, "IDENTIFIER") /\ Tok(s, m1, m2, "COLON") /\ Span(v, s, x, m2, j)
  BY DEF IsLabelled
<1>3. /\ i \in Nat /\ j \in Nat /\ i < m2 /\ j <= j /\ m1 = i + 1
      /\ s[i + 1] = "IDENTIFIER" /\ s[m1 + 1] = "COLON" /\ m1 + 1 = i + 2
  <2>1. /\ i \in Nat /\ m1 \in Nat /\ m2 \in Nat /\ j \in Nat /\ m1 = i + 1 /\ m2 = m1 + 1 /\ m2 <= j
        /\ s[i + 1] = "IDENTIFIER" /\ s[m1 + 1] = "COLON"
    BY <1>2, TokIs, SpanIs
  <2>. QED
    BY <2>1
<1>4. FeedsStatement(s, m2, j)
  BY <1>2, <1>3, InnerFeeds DEF Feeds
<1> DEFINE todo == <<Expect("IDENTIFIER"), Expect("COLON"), Statement>>
           t1 == On(Statement, t)
<1>5. Fed(s, t1, m2)
  BY <1>1, <1>4 DEF FeedsStatement
<1>6. IsSeq(t)
  BY <1>1 DEF Fed
<1>7. todo \o t = On(Expect("IDENTIFIER"), On(Expect("COLON"), t1))
  BY <1>6, OnThree
<1>8. MoveStatement(s, i, todo, i)
  BY <1>3 DEF MoveStatement
<1> HIDE DEF todo, t1
<1>9. Fed(s, On(Expect("IDENTIFIER"), On(Expect("COLON"), t1)), i)
  <2>1. Fed(s, On(Expect("COLON"), t1), m1)
    BY <1>2, <1>5, FedExpect
  <2>. QED
    BY <1>2, <2>1, FedExpect
<1>. QED
  BY <1>6, <1>7, <1>8, <1>9, FedStatement DEF t1

(* if, and while, before their statements.                                    *)
LEMMA FedIfTo ==
  ASSUME NEW v \in Vocabularies, NEW s, NEW i, NEW m, NEW j, Tok(s, i, m, "IF"), IsCondition(v, s, m, j),
         NEW t, IsSeq(t), Fed(s, On(Statement, On(Call("else"), t)), j)
  PROVE  Fed(s, On(Statement, t), i)
<1> DEFINE p == <<Expect("IF")>>
           r == <<Statement, Call("else")>>
           todo == p \o Condition \o r
<1>1. MoveStatement(s, i, todo, i)
  <2>1. s[i + 1] = "IF"
    BY TokIs
  <2>. QED
    BY <2>1 DEF MoveStatement
<1>2. r \o t = On(Statement, On(Call("else"), t))
  BY OnTwo
<1>3. IsSeq(p) /\ IsSeq(r) /\ IsSeq(Condition)
  BY OneIsSeq, TuplesAre DEF Condition
<1> DEFINE y == r \o t
           z == Condition \o y
<1>4. todo \o t = p \o z
  <2> HIDE DEF p, r
  <2>. QED
    BY <1>3, OnParts
<1>5. Fed(s, z, m)
  <2> HIDE DEF y
  <2>. QED
    BY <1>2, FedCondition DEF y
<1>6. Fed(s, p \o z, i)
  <2> HIDE DEF z
  <2>1. p \o z = On(Expect("IF"), z)
    BY OnOne
  <2>. QED
    BY <1>5, <2>1, FedExpect
<1> HIDE DEF todo, z
<1>. QED
  BY <1>1, <1>4, <1>6, FedStatement

LEMMA FedWhileTo ==
  ASSUME NEW v \in Vocabularies, NEW s, NEW i, NEW m, NEW j, Tok(s, i, m, "WHILE"), IsCondition(v, s, m, j),
         NEW t, IsSeq(t), Fed(s, On(Statement, On(WhileStatement, t)), j)
  PROVE  Fed(s, On(Statement, t), i)
<1> DEFINE p == <<Expect("WHILE")>>
           r == <<Statement, WhileStatement>>
           todo == p \o Condition \o r
<1>1. MoveStatement(s, i, todo, i)
  <2>1. s[i + 1] = "WHILE"
    BY TokIs
  <2>. QED
    BY <2>1 DEF MoveStatement
<1>2. r \o t = On(Statement, On(WhileStatement, t))
  BY OnTwo
<1>3. IsSeq(p) /\ IsSeq(r) /\ IsSeq(Condition)
  BY OneIsSeq, TuplesAre DEF Condition
<1> DEFINE y == r \o t
           z == Condition \o y
<1>4. todo \o t = p \o z
  <2> HIDE DEF p, r
  <2>. QED
    BY <1>3, OnParts
<1>5. Fed(s, z, m)
  <2> HIDE DEF y
  <2>. QED
    BY <1>2, FedCondition DEF y
<1>6. Fed(s, p \o z, i)
  <2> HIDE DEF z
  <2>1. p \o z = On(Expect("WHILE"), z)
    BY OnOne
  <2>. QED
    BY <1>5, <2>1, FedExpect
<1> HIDE DEF todo, z
<1>. QED
  BY <1>1, <1>4, <1>6, FedStatement

LEMMA FedElse ==
  ASSUME NEW s, NEW i, NEW t, IsSeq(t)
  PROVE  /\ s[i + 1] # "ELSE" /\ Fed(s, t, i) => Fed(s, On(Call("else"), t), i)
         /\ \A j : Tok(s, i, j, "ELSE") /\ Fed(s, On(Statement, On(IfStatement(3), t)), j)
                     => Fed(s, On(Call("else"), t), i)
<1>0. Call("else")[1] = "else"
  BY DEF Call
<1>1. ASSUME s[i + 1] # "ELSE", Fed(s, t, i) PROVE Fed(s, On(Call("else"), t), i)
  <2>1. MoveElse(s, i, <<IfStatement(2)>>, i)
    BY <1>1 DEF MoveElse
  <2>2. MoveSimply(s, Call("else"), i, <<IfStatement(2)>>, i)
    BY <1>0, <2>1 DEF MoveSimply
  <2>3. <<IfStatement(2)>> \o t = On(IfStatement(2), t)
    BY OnOne
  <2>4. Fed(s, On(IfStatement(2), t), i)
    BY <1>1, FedSkip, Skipped DEF IfStatement
  <2>. QED
    BY <2>2, <2>3, <2>4, FedSimply
<1>2. ASSUME NEW j, Tok(s, i, j, "ELSE"), Fed(s, On(Statement, On(IfStatement(3), t)), j)
      PROVE  Fed(s, On(Call("else"), t), i)
  <2> DEFINE todo == <<Statement, IfStatement(3)>>
  <2>1. MoveElse(s, i, todo, j)
    BY <1>2, TokIs DEF MoveElse
  <2>3. todo \o t = On(Statement, On(IfStatement(3), t))
    BY OnTwo
  <2> HIDE DEF todo
  <2>2. MoveSimply(s, Call("else"), i, todo, j)
    BY <1>0, <2>1 DEF MoveSimply
  <2>. QED
    BY <1>2, <2>2, <2>3, FedSimply
<1>. QED
  BY <1>1, <1>2

LEMMA FedIf ==
  ASSUME NEW v \in Vocabularies, NEW s, NEW i, NEW j, IsIf(v, s, i, j), FeedsWithin(v, s, i, j),
         s[j + 1] # "ELSE"
  PROVE  FeedsStatement(s, i, j)
<1>1. SUFFICES ASSUME NEW t, Fed(s, t, j) PROVE Fed(s, On(Statement, t), i)
  BY DEF FeedsStatement
<1>2. PICK m1, m2, m3, m4 :
        Tok(s, i, m1, "IF") /\ Tok(s, m1, m2, "LPAREN") /\ Span(v, s, "expression", m2, m3)
        /\ Tok(s, m3, m4, "RPAREN") /\ Span(v, s, "statement", m4, j)
  BY DEF IsIf
<1>3. IsCondition(v, s, m1, m4)
  BY <1>2 DEF IsCondition
<1>4. i \in Nat /\ j \in Nat /\ i < m4 /\ j <= j
  <2>1. /\ i \in Nat /\ m1 \in Nat /\ m2 \in Nat /\ m3 \in Nat /\ m4 \in Nat /\ j \in Nat
        /\ m1 = i + 1 /\ m2 = m1 + 1 /\ m2 <= m3 /\ m4 = m3 + 1
    BY <1>2, TokIs, SpanIs
  <2>. QED
    BY <2>1
<1>5. FeedsStatement(s, m4, j)
  BY <1>2, <1>4, InnerFeeds, SomeStatement DEF Feeds
<1>6. IsSeq(t)
  BY <1>1 DEF Fed
<1>7. Fed(s, On(Call("else"), t), j)
  BY <1>1, <1>6, FedElse
<1>8. Fed(s, On(Statement, On(Call("else"), t)), m4)
  BY <1>5, <1>7 DEF FeedsStatement
<1>. QED
  BY <1>2, <1>3, <1>6, <1>8, FedIfTo

LEMMA FedIfElse ==
  ASSUME NEW v \in Vocabularies, NEW s, NEW x \in Statements, NEW i, NEW j, IsIfElse(v, s, x, i, j),
         FeedsWithin(v, s, i, j), x = "closed" \/ s[j + 1] # "ELSE"
  PROVE  FeedsStatement(s, i, j)
<1>1. SUFFICES ASSUME NEW t, Fed(s, t, j) PROVE Fed(s, On(Statement, t), i)
  BY DEF FeedsStatement
<1>2. PICK m1, m2, m3, m4, m5, m6 :
        Tok(s, i, m1, "IF") /\ Tok(s, m1, m2, "LPAREN") /\ Span(v, s, "expression", m2, m3)
        /\ Tok(s, m3, m4, "RPAREN") /\ Span(v, s, "closed", m4, m5) /\ Tok(s, m5, m6, "ELSE")
        /\ Span(v, s, x, m6, j)
  BY DEF IsIfElse
<1>3. IsCondition(v, s, m1, m4)
  BY <1>2 DEF IsCondition
<1>4. i \in Nat /\ j \in Nat /\ i < m4 /\ i < m6 /\ m5 <= j /\ j <= j
  <2>1. /\ i \in Nat /\ m1 \in Nat /\ m2 \in Nat /\ m3 \in Nat /\ m4 \in Nat /\ m5 \in Nat /\ m6 \in Nat
        /\ j \in Nat /\ m1 = i + 1 /\ m2 = m1 + 1 /\ m2 <= m3 /\ m4 = m3 + 1 /\ m4 <= m5 /\ m6 = m5 + 1
        /\ m6 <= j
    BY <1>2, TokIs, SpanIs
  <2>. QED
    BY <2>1
<1>5. FeedsStatement(s, m6, j)
  BY <1>2, <1>4, InnerFeeds DEF Feeds
<1>6. FeedsStatement(s, m4, m5)
  BY <1>2, <1>4, InnerFeeds, SomeStatement DEF Feeds
<1>7. IsSeq(t)
  BY <1>1 DEF Fed
<1>8. Fed(s, On(IfStatement(3), t), j)
  BY <1>1, FedSkip, Skipped DEF IfStatement
<1>9. Fed(s, On(Statement, On(IfStatement(3), t)), m6)
  BY <1>5, <1>8 DEF FeedsStatement
<1>10. Fed(s, On(Call("else"), t), m5)
  BY <1>2, <1>7, <1>9, FedElse
<1>11. Fed(s, On(Statement, On(Call("else"), t)), m4)
  BY <1>6, <1>10 DEF FeedsStatement
<1>. QED
  BY <1>2, <1>3, <1>7, <1>11, FedIfTo

LEMMA FedWhile ==
  ASSUME NEW v \in Vocabularies, NEW s, NEW x \in Statements, NEW i, NEW j, IsWhile(v, s, x, i, j),
         FeedsWithin(v, s, i, j), x = "closed" \/ s[j + 1] # "ELSE"
  PROVE  FeedsStatement(s, i, j)
<1>1. SUFFICES ASSUME NEW t, Fed(s, t, j) PROVE Fed(s, On(Statement, t), i)
  BY DEF FeedsStatement
<1>2. PICK m1, m2, m3, m4 :
        Tok(s, i, m1, "WHILE") /\ Tok(s, m1, m2, "LPAREN") /\ Span(v, s, "expression", m2, m3)
        /\ Tok(s, m3, m4, "RPAREN") /\ Span(v, s, x, m4, j)
  BY DEF IsWhile
<1>3. IsCondition(v, s, m1, m4)
  BY <1>2 DEF IsCondition
<1>4. i \in Nat /\ j \in Nat /\ i < m4 /\ j <= j
  <2>1. /\ i \in Nat /\ m1 \in Nat /\ m2 \in Nat /\ m3 \in Nat /\ m4 \in Nat /\ j \in Nat
        /\ m1 = i + 1 /\ m2 = m1 + 1 /\ m2 <= m3 /\ m4 = m3 + 1
    BY <1>2, TokIs, SpanIs
  <2>. QED
    BY <2>1
<1>5. FeedsStatement(s, m4, j)
  BY <1>2, <1>4, InnerFeeds DEF Feeds
<1>6. IsSeq(t)
  BY <1>1 DEF Fed
<1>7. Fed(s, On(WhileStatement, t), j)
  BY <1>1, FedSkip, Skipped DEF WhileStatement
<1>8. Fed(s, On(Statement, On(WhileStatement, t)), m4)
  BY <1>5, <1>7 DEF FeedsStatement
<1>. QED
  BY <1>2, <1>3, <1>6, <1>8, FedWhileTo

LEMMA FedDo ==
  ASSUME NEW v \in Vocabularies, NEW s, NEW i, NEW j, IsDo(v, s, i, j), FeedsWithin(v, s, i, j)
  PROVE  FeedsStatement(s, i, j)
<1>1. SUFFICES ASSUME NEW t, Fed(s, t, j) PROVE Fed(s, On(Statement, t), i)
  BY DEF FeedsStatement
<1>2. PICK m1, m2, m3, m4, m5, m6 :
        Tok(s, i, m1, "DO") /\ Span(v, s, "statement", m1, m2) /\ Tok(s, m2, m3, "WHILE")
        /\ Tok(s, m3, m4, "LPAREN") /\ Span(v, s, "expression", m4, m5)
        /\ Tok(s, m5, m6, "RPAREN") /\ Tok(s, m6, j, "SEMICOLON")
  BY DEF IsDo
<1>3. IsCondition(v, s, m3, m6)
  BY <1>2 DEF IsCondition
<1>4. i \in Nat /\ j \in Nat /\ i < m1 /\ m2 <= j /\ s[m2 + 1] = "WHILE" /\ s[i + 1] = "DO"
  <2>1. /\ i \in Nat /\ m1 \in Nat /\ m2 \in Nat /\ m3 \in Nat /\ m4 \in Nat /\ m5 \in Nat /\ m6 \in Nat
        /\ j \in Nat /\ m1 = i + 1 /\ m3 = m2 + 1 /\ m4 = m3 + 1 /\ m4 <= m5 /\ m6 = m5 + 1
        /\ j = m6 + 1 /\ s[m2 + 1] = "WHILE" /\ s[i + 1] = "DO"
    BY <1>2, TokIs, SpanIs
  <2>. QED
    BY <2>1
<1>5. FeedsStatement(s, m1, m2)
  <2>1. Feeds(v, s, m1, m2)
    BY <1>2, <1>4, InnerFeeds
  <2>. QED
    BY <1>2, <1>4, <2>1, SomeStatement DEF Feeds
<1> DEFINE p == <<Expect("DO"), Statement, Expect("WHILE")>>
           r == <<Expect("SEMICOLON"), DoWhileStatement>>
           todo == p \o Condition \o r
<1>6. IsSeq(t) /\ IsSeq(p) /\ IsSeq(r) /\ IsSeq(Condition)
  BY <1>1, TuplesAre DEF Condition, Fed
<1>7. MoveStatement(s, i, todo, i)
  BY <1>4 DEF MoveStatement
<1> DEFINE y == r \o t
           z == Condition \o y
<1>8. todo \o t = p \o z
  <2> HIDE DEF p, r
  <2>. QED
    BY <1>6, OnParts
<1>9. Fed(s, y, m6)
  <2>1. y = On(Expect("SEMICOLON"), On(DoWhileStatement, t))
    BY <1>6, OnTwo
  <2>2. Fed(s, On(DoWhileStatement, t), j)
    BY <1>1, FedSkip, Skipped DEF DoWhileStatement
  <2> HIDE DEF y
  <2>. QED
    BY <1>2, <2>1, <2>2, FedExpect
<1>10. Fed(s, z, m3)
  <2> HIDE DEF y
  <2>. QED
    BY <1>3, <1>9, FedCondition
<1>11. Fed(s, p \o z, i)
  <2> HIDE DEF z
  <2> DEFINE t1 == On(Expect("WHILE"), z)
             t2 == On(Statement, t1)
  <2>1. p \o z = On(Expect("DO"), t2)
    BY <1>10, OnThree DEF Fed
  <2>2. Fed(s, t1, m2)
    BY <1>2, <1>10, FedExpect
  <2> HIDE DEF t1
  <2>3. Fed(s, t2, m1)
    BY <1>5, <2>2 DEF FeedsStatement
  <2> HIDE DEF t2
  <2>4. Fed(s, On(Expect("DO"), t2), i)
    BY <1>2, <2>3, FedExpect
  <2>. QED
    BY <2>1, <2>4
<1> HIDE DEF todo, z, p
<1>. QED
  BY <1>6, <1>7, <1>8, <1>11, FedStatement

LEMMA FedFor ==
  ASSUME NEW v \in Vocabularies, NEW s, NEW x \in Statements, NEW i, NEW j, IsFor(v, s, x, i, j),
         FeedsWithin(v, s, i, j), x = "closed" \/ s[j + 1] # "ELSE"
  PROVE  FeedsStatement(s, i, j)
<1>1. SUFFICES ASSUME NEW t, Fed(s, t, j) PROVE Fed(s, On(Statement, t), i)
  BY DEF FeedsStatement
<1>2. PICK m1, m2, m3, m4, m5, m6, m7, m8 :
        Tok(s, i, m1, "FOR") /\ Tok(s, m1, m2, "LPAREN") /\ Span(v, s, "maybe", m2, m3)
        /\ Tok(s, m3, m4, "SEMICOLON") /\ Span(v, s, "maybe", m4, m5)
        /\ Tok(s, m5, m6, "SEMICOLON") /\ Span(v, s, "maybe", m6, m7)
        /\ Tok(s, m7, m8, "RPAREN") /\ Span(v, s, x, m8, j)
  BY DEF IsFor
<1>3. /\ i \in Nat /\ j \in Nat /\ i < m8 /\ j <= j /\ s[i + 1] = "FOR"
      /\ s[m3 + 1] = "SEMICOLON" /\ s[m5 + 1] = "SEMICOLON" /\ s[m7 + 1] = "RPAREN"
  <2>1. /\ i \in Nat /\ m1 \in Nat /\ m2 \in Nat /\ m3 \in Nat /\ m4 \in Nat /\ m5 \in Nat /\ m6 \in Nat
        /\ m7 \in Nat /\ m8 \in Nat /\ j \in Nat /\ m1 = i + 1 /\ m2 = m1 + 1 /\ m2 <= m3 /\ m4 = m3 + 1
        /\ m4 <= m5 /\ m6 = m5 + 1 /\ m6 <= m7 /\ m8 = m7 + 1
    BY <1>2, TokIs, SpanIs
  <2>2. i < m8
    BY <2>1
  <2>. QED
    BY <1>2, <2>1, <2>2, TokIs
<1>4. FeedsStatement(s, m8, j)
  BY <1>2, <1>3, InnerFeeds DEF Feeds
<1> DEFINE todo == <<Expect("FOR"), Expect("LPAREN"), Optional("SEMICOLON"), Expect("SEMICOLON"),
                     Optional("SEMICOLON"), Expect("SEMICOLON"), Optional("RPAREN"), Expect("RPAREN"),
                     Statement, ForStatement>>
           t1 == On(ForStatement, t)
           t2 == On(Statement, t1)
           t3 == On(Expect("RPAREN"), t2)
           t4 == On(Optional("RPAREN"), t3)
           t5 == On(Expect("SEMICOLON"), t4)
           t6 == On(Optional("SEMICOLON"), t5)
           t7 == On(Expect("SEMICOLON"), t6)
           t8 == On(Optional("SEMICOLON"), t7)
           t9 == On(Expect("LPAREN"), t8)
           t10 == On(Expect("FOR"), t9)
<1>5. IsSeq(t)
  BY <1>1 DEF Fed
<1>6. todo \o t = t10
  BY <1>5, OnTen
<1>7. MoveStatement(s, i, todo, i)
  BY <1>3 DEF MoveStatement
<1>8. Fed(s, t1, j)
  BY <1>1, FedSkip, Skipped DEF ForStatement
<1>9. Fed(s, t2, m8)
  <2> HIDE DEF t1
  <2>. QED
    BY <1>4, <1>8 DEF FeedsStatement
<1>10. Fed(s, t3, m7)
  <2> HIDE DEF t2
  <2>. QED
    BY <1>2, <1>9, FedExpect
<1>11. Fed(s, t4, m6)
  <2> HIDE DEF t3
  <2>. QED
    BY <1>2, <1>3, <1>10, FedOptional
<1>12. Fed(s, t5, m5)
  <2> HIDE DEF t4
  <2>. QED
    BY <1>2, <1>11, FedExpect
<1>13. Fed(s, t6, m4)
  <2> HIDE DEF t5
  <2>. QED
    BY <1>2, <1>3, <1>12, FedOptional
<1>14. Fed(s, t7, m3)
  <2> HIDE DEF t6
  <2>. QED
    BY <1>2, <1>13, FedExpect
<1>15. Fed(s, t8, m2)
  <2> HIDE DEF t7
  <2>. QED
    BY <1>2, <1>3, <1>14, FedOptional
<1>16. Fed(s, t9, m1)
  <2> HIDE DEF t8
  <2>. QED
    BY <1>2, <1>15, FedExpect
<1>17. Fed(s, t10, i)
  <2> HIDE DEF t9
  <2>. QED
    BY <1>2, <1>16, FedExpect
<1> HIDE DEF todo, t10
<1>. QED
  BY <1>5, <1>6, <1>7, <1>17, FedStatement

LEMMA FedBlock ==
  ASSUME NEW s, NEW i, NEW t, IsSeq(t)
  PROVE  /\ \A j : Tok(s, i, j, "RBRACE") /\ Fed(s, t, j) => Fed(s, On(Call("block"), t), i)
         /\ s[i + 1] # "RBRACE" /\ Fed(s, On(Statement, On(Call("push_back"), On(Call("block"), t))), i)
              => Fed(s, On(Call("block"), t), i)
<1>0. Call("block")[1] = "block"
  BY DEF Call
<1>1. ASSUME NEW j, Tok(s, i, j, "RBRACE"), Fed(s, t, j) PROVE Fed(s, On(Call("block"), t), i)
  <2>1. MoveBlock(s, i, <<Expect("RBRACE")>>, i)
    BY <1>1, TokIs DEF MoveBlock
  <2>2. MoveSimply(s, Call("block"), i, <<Expect("RBRACE")>>, i)
    BY <1>0, <2>1 DEF MoveSimply
  <2>3. <<Expect("RBRACE")>> \o t = On(Expect("RBRACE"), t)
    BY OnOne
  <2>4. Fed(s, On(Expect("RBRACE"), t), i)
    BY <1>1, FedExpect
  <2>. QED
    BY <2>2, <2>3, <2>4, FedSimply
<1>2. ASSUME s[i + 1] # "RBRACE", Fed(s, On(Statement, On(Call("push_back"), On(Call("block"), t))), i)
      PROVE  Fed(s, On(Call("block"), t), i)
  <2> DEFINE todo == <<Statement, Call("push_back"), Call("block")>>
  <2>1. MoveBlock(s, i, todo, i)
    BY <1>2 DEF MoveBlock
  <2>2. todo \o t = On(Statement, On(Call("push_back"), On(Call("block"), t)))
    BY OnThree
  <2> HIDE DEF todo
  <2>3. MoveSimply(s, Call("block"), i, todo, i)
    BY <1>0, <2>1 DEF MoveSimply
  <2>. QED
    BY <1>2, <2>2, <2>3, FedSimply
<1>. QED
  BY <1>1, <1>2

LEMMA StartersApart ==
  \A w \in {"SEMICOLON", "RBRACE", "ELSE", "COMMA", "ASSIGN", END} \cup Types : w \notin Starters
BY DEF Starters, FirstTokens, Literals, Names, Unary, Types, Keywords, END

LEMMA BlockFed ==
  ASSUME NEW v \in Vocabularies, NEW s, NEW i, NEW j, Span(v, s, "block", i, j), s[j + 1] # "ELSE",
         FeedsWithin(v, s, i, j)
  PROVE  FeedsBlock(s, i, j)
<1>1. SUFFICES ASSUME NEW t, IsSeq(t), Fed(s, On(Call("block"), t), j)
               PROVE  Fed(s, On(Expect("LBRACE"), On(Call("block"), t)), i)
  BY DEF FeedsBlock
<1> DEFINE w == On(Call("block"), t)
<1>2. CASE Tok(s, i, j, "LBRACE")
  <2> HIDE DEF w
  <2>1. Fed(s, w, j)
    BY <1>1 DEF w
  <2>2. Fed(s, On(Expect("LBRACE"), w), i)
    BY <1>2, <2>1, FedExpect
  <2>. QED
    BY <2>2 DEF w
<1>3. CASE \E m : Span(v, s, "block", i, m) /\ Span(v, s, "statement", m, j)
  <2>1. PICK m : Span(v, s, "block", i, m) /\ Span(v, s, "statement", m, j)
    BY <1>3
  <2>2. s[m + 1] \in Starters /\ m < j
    BY <2>1, StatementOpens, SomeStatement
  <2>3. i < m
    BY <2>1, BlockOpens
  <2>4. s[m + 1] # "ELSE" /\ s[m + 1] # "RBRACE"
    BY <2>2, StartersApart
  <2>5. i <= i /\ m <= j /\ i <= m /\ j <= j
    BY <2>1, SpanIs
  <2>6. Feeds(v, s, i, m) /\ Feeds(v, s, m, j)
    BY <2>2, <2>3, <2>5 DEF FeedsWithin
  <2>7. FeedsBlock(s, i, m)
    BY <2>1, <2>4, <2>6 DEF Feeds
  <2>8. FeedsStatement(s, m, j)
    BY <2>1, <2>6, SomeStatement DEF Feeds
  <2>9. Fed(s, On(Call("push_back"), w), j)
    <3> HIDE DEF w
    <3>1. Fed(s, w, j)
      BY <1>1 DEF w
    <3>. QED
      BY <3>1, FedSkip, Skipped
  <2>10. Fed(s, On(Statement, On(Call("push_back"), w)), m)
    BY <2>8, <2>9 DEF FeedsStatement
  <2>11. Fed(s, w, m)
    BY <1>1, <2>4, <2>10, FedBlock
  <2>. QED
    BY <1>1, <2>7, <2>11 DEF FeedsBlock
<1>. QED
  BY <1>2, <1>3, BlockApart

LEMMA FedCompound ==
  ASSUME NEW v \in Vocabularies, NEW s, NEW i, NEW j, IsCompound(v, s, i, j), FeedsWithin(v, s, i, j)
  PROVE  FeedsStatement(s, i, j)
<1>1. SUFFICES ASSUME NEW t, Fed(s, t, j) PROVE Fed(s, On(Statement, t), i)
  BY DEF FeedsStatement
<1>2. PICK m : Span(v, s, "block", i, m) /\ Tok(s, m, j, "RBRACE")
  BY DEF IsCompound
<1>3. IsSeq(t)
  BY <1>1 DEF Fed
<1>4. Fed(s, On(Call("block"), t), m)
  BY <1>1, <1>2, <1>3, FedBlock
<1>5. s[m + 1] # "ELSE" /\ i <= i /\ m <= j /\ m < j
  BY <1>2, TokIs, SpanIs
<1>6. Feeds(v, s, i, m)
  BY <1>5 DEF FeedsWithin
<1>7. Fed(s, On(Expect("LBRACE"), On(Call("block"), t)), i)
  BY <1>2, <1>3, <1>4, <1>5, <1>6 DEF Feeds, FeedsBlock
<1> DEFINE todo == <<Expect("LBRACE"), Call("block")>>
<1>8. todo \o t = On(Expect("LBRACE"), On(Call("block"), t))
  BY <1>3, OnTwo
<1>9. MoveStatement(s, i, todo, i)
  <2>1. s[i + 1] = "LBRACE"
    BY <1>2, BlockOpens
  <2>. QED
    BY <2>1 DEF MoveStatement
<1> HIDE DEF todo
<1>. QED
  BY <1>3, <1>7, <1>8, <1>9, FedStatement

LEMMA StatementsFed ==
  ASSUME NEW v \in Vocabularies, NEW s
  PROVE  \A i, j \in Nat : i <= j => Feeds(v, s, i, j)
<1> DEFINE S == {n \in Nat : \A a, b \in Nat : a <= b /\ b - a = n => Feeds(v, s, a, b)}
<1>1. ASSUME NEW n \in Nat, \A m \in 0 .. n - 1 : m \in S PROVE n \in S
  <2>1. SUFFICES ASSUME NEW a \in Nat, NEW b \in Nat, a <= b, b - a = n
                 PROVE  Feeds(v, s, a, b)
    OBVIOUS
  <2>2. ASSUME NEW c, NEW d, a <= c, d <= b, a < c \/ d < b
        PROVE  Feeds(v, s, c, d)
    <3>1. CASE c \in Nat /\ d \in Nat /\ c <= d
      <4>1. d - c \in 0 .. n - 1
        BY <2>1, <2>2, <3>1
      <4>2. d - c \in S
        BY <1>1, <4>1
      <4>. QED
        BY <3>1, <4>2
    <3>2. CASE ~(c \in Nat /\ d \in Nat /\ c <= d)
      BY <3>2, SpanIs DEF Feeds
    <3>. QED
      BY <3>1, <3>2
  <2>3. FeedsWithin(v, s, a, b)
    BY <2>2 DEF FeedsWithin
  <2>4. ASSUME NEW x \in Statements, Span(v, s, x, a, b), x = "closed" \/ s[b + 1] # "ELSE"
        PROVE  FeedsStatement(s, a, b)
    <3>1. IsStatement(v, s, x, a, b)
      BY <2>4, StatementApart
    <3>2. CASE IsExpressionStatement(v, s, a, b)
      BY <3>2, FedExpressionStatement DEF FeedsStatement
    <3>3. CASE IsCompound(v, s, a, b)
      BY <2>3, <3>3, FedCompound
    <3>4. CASE IsDo(v, s, a, b)
      BY <2>3, <3>4, FedDo
    <3>5. CASE IsRead(v, s, a, b)
      BY <3>5, FedRead DEF FeedsStatement
    <3>6. CASE IsWriteNothing(v, s, a, b)
      BY <3>6, FedWriteNothing DEF FeedsStatement
    <3>7. CASE IsWrite(v, s, a, b)
      BY <3>7, FedWrite DEF FeedsStatement
    <3>8. CASE x = "statement" /\ IsIf(v, s, a, b)
      BY <2>3, <2>4, <3>8, FedIf, SomeStatement
    <3>9. CASE IsLabelled(v, s, x, a, b)
      BY <2>3, <2>4, <3>9, FedLabelled
    <3>10. CASE IsIfElse(v, s, x, a, b)
      BY <2>3, <2>4, <3>10, FedIfElse
    <3>11. CASE IsWhile(v, s, x, a, b)
      BY <2>3, <2>4, <3>11, FedWhile
    <3>12. CASE IsFor(v, s, x, a, b)
      BY <2>3, <2>4, <3>12, FedFor
    <3>. QED
      BY <3>1, <3>2, <3>3, <3>4, <3>5, <3>6, <3>7, <3>8, <3>9, <3>10, <3>11, <3>12 DEF IsStatement
  <2>5. ASSUME Span(v, s, "block", a, b), s[b + 1] # "ELSE" PROVE FeedsBlock(s, a, b)
    BY <2>3, <2>5, BlockFed
  <2>. QED
    BY <2>4, <2>5 DEF Feeds
<1>2. \A n \in Nat : n \in S
  <2> HIDE DEF S
  <2>. QED
    BY <1>1, StrongInduction
<1>3. \A i, j \in Nat : i <= j => j - i \in Nat
  OBVIOUS
<1>. QED
  BY <1>2, <1>3

LEMMA StatementFed ==
  ASSUME NEW v \in Vocabularies, NEW s, NEW i, NEW j, Span(v, s, "statement", i, j), s[j + 1] # "ELSE",
         NEW t, Fed(s, t, j)
  PROVE  Fed(s, On(Statement, t), i)
<1>1. i \in Nat /\ j \in Nat /\ i <= j
  BY SpanIs
<1>2. FeedsStatement(s, i, j)
  BY <1>1, StatementsFed, SomeStatement DEF Feeds
<1>. QED
  BY <1>2 DEF FeedsStatement

-----------------------------------------------------------------------------
(* The parser reads the declarations of the grammar, and programs.             *)

(* What is on the stack is accepted behind a variable that ends with the j-th    *)
(* token, and behind what an expression at its end goes on with.               *)
Ended(s, w, j) == Fed(s, w, j) /\ s[j + 1] # "ASSIGN" /\ \E l : Onward(s, j, l) /\ Fed(s, w, l)

LEMMA EndedSkip ==
  ASSUME NEW h, h[1] \in {"make", "push_back", "declared"}, NEW s, NEW j, NEW w, Ended(s, w, j)
  PROVE  Ended(s, On(h, w), j)
BY FedSkip DEF Ended

LEMMA EndedEnd ==
  ASSUME NEW s, NEW j, NEW w, Fed(s, w, j), s[j + 1] # "ASSIGN", \A k \in 1 .. 6 : s[j + 1] \notin Levels[k]
  PROVE  Ended(s, w, j)
<1>1. Onward(s, j, j)
  BY OnwardEnd
<1>. QED
  BY <1>1 DEF Ended

LEMMA FedVariable ==
  ASSUME NEW v \in Vocabularies, NEW s, NEW type, NEW i, NEW j, IsVariable(v, s, i, j),
         NEW w, Ended(s, w, j)
  PROVE  Fed(s, On(Of("variable", type), w), i)
<1>1. Fed(s, w, j) /\ IsSeq(w)
  BY DEF Ended, Fed
<1> DEFINE initializer == Of("initializer", type)
<1>2. initializer[1] = "initializer" /\ initializer[2] = type
  BY DEF Of
<1>3. \E m : Tok(s, i, m, "IDENTIFIER") /\ Fed(s, On(initializer, w), m)
  <2> HIDE DEF initializer
  <2>1. CASE Tok(s, i, j, "IDENTIFIER")
    <3>1. MoveInitializer(s, type, j, <<VariableDecl(type, 1)>>, j)
      BY DEF MoveInitializer, Ended
    <3>2. MoveSimply(s, initializer, j, <<VariableDecl(type, 1)>>, j)
      BY <1>2, <3>1 DEF MoveSimply
    <3>3. <<VariableDecl(type, 1)>> \o w = On(VariableDecl(type, 1), w)
      BY OnOne
    <3>4. Fed(s, On(VariableDecl(type, 1), w), j)
      BY <1>1, FedSkip, Skipped DEF VariableDecl
    <3>5. Fed(s, On(initializer, w), j)
      BY <1>1, <3>2, <3>3, <3>4, FedSimply
    <3>. QED
      BY <2>1, <3>5
  <2>2. CASE \E m, l : Tok(s, i, m, "IDENTIFIER") /\ Tok(s, m, l, "ASSIGN") /\ Span(v, s, "expression", l, j)
    <3>1. PICK m, l : Tok(s, i, m, "IDENTIFIER") /\ Tok(s, m, l, "ASSIGN") /\ Span(v, s, "expression", l, j)
      BY <2>2
    <3>2. PICK k : Onward(s, j, k) /\ Fed(s, w, k)
      BY DEF Ended
    <3> DEFINE t == On(VariableDecl(type, 2), w)
               todo == <<Expression, VariableDecl(type, 2)>>
    <3>3. Fed(s, t, k)
      BY <3>2, FedSkip, Skipped DEF VariableDecl
    <3>4. MoveInitializer(s, type, m, todo, l)
      BY <3>1, TokIs DEF MoveInitializer
    <3>5. todo \o w = On(Expression, t)
      BY <1>1, OnTwo
    <3> HIDE DEF todo, t
    <3>6. MoveSimply(s, initializer, m, todo, l)
      BY <1>2, <3>4 DEF MoveSimply
    <3>7. Fed(s, On(Expression, t), l)
      <4>1. l \in Nat /\ j \in Nat /\ l <= j
        BY <3>1, SpanIs
      <4>2. TakesExpression(s, l, j)
        BY <3>1, <4>1, ExpressionTaken DEF Takes
      <4>3. IsSeq(t) /\ Accepted(s, t, k)
        BY <3>3 DEF Fed
      <4>4. Accepted(s, On(Expression, t), l)
        BY <3>2, <4>2, <4>3 DEF TakesExpression
      <4>. QED
        BY <4>3, <4>4, OnIs DEF Fed
    <3>8. Fed(s, On(initializer, w), m)
      BY <1>1, <3>5, <3>6, <3>7, FedSimply
    <3>. QED
      BY <3>1, <3>8
  <2>. QED
    BY <2>1, <2>2 DEF IsVariable
<1>4. PICK m : Tok(s, i, m, "IDENTIFIER") /\ Fed(s, On(initializer, w), m)
  BY <1>3
<1> DEFINE t == On(initializer, w)
           todo == <<Call("identifier"), initializer>>
<1>5. todo \o w = On(Call("identifier"), t)
  BY <1>1, OnTwo
<1>6. MoveSimply(s, Of("variable", type), i, todo, i)
  <2>1. Of("variable", type)[1] = "variable" /\ Of("variable", type)[2] = type
    BY DEF Of
  <2>. QED
    BY <2>1 DEF MoveSimply
<1>7. Fed(s, On(Call("identifier"), t), i)
  <2> HIDE DEF t
  <2>1. s[i + 1] = "IDENTIFIER" /\ m = i + 1
    BY <1>4, TokIs
  <2>2. Call("identifier")[1] = "identifier"
    BY DEF Call
  <2>3. MoveSimply(s, Call("identifier"), i, <<>>, m)
    BY <2>1, <2>2 DEF MoveSimply
  <2>4. Fed(s, t, m)
    BY <1>4 DEF t
  <2>5. <<>> \o t = t /\ IsSeq(t)
    BY <2>4, OnNone DEF Fed
  <2>. QED
    BY <2>3, <2>4, <2>5, FedSimply
<1> HIDE DEF todo, t
<1>. QED
  BY <1>1, <1>5, <1>6, <1>7, FedSimply

LEMMA FedVariables ==
  ASSUME NEW v \in Vocabularies, NEW s, NEW type \in Types, NEW i, NEW j, Span(v, s, All[type], i, j),
         NEW t, IsSeq(t), Ended(s, On(Of("more", Of("variable", type)), t), j)
  PROVE  Fed(s, On(Of("variable", type), On(Call("push_back"), On(Of("more", Of("variable", type)), t))), i)
<1> DEFINE item == Of("variable", type)
           w == On(Of("more", item), t)
           x == On(item, On(Call("push_back"), w))
           Listing(a, b) == Span(v, s, All[type], a, b) /\ Ended(s, w, b) => Fed(s, x, a)
           S == {n \in Nat : \A a, b \in Nat : a <= b /\ b - a = n => Listing(a, b)}
<1>0. \A a, b : IsVariable(v, s, a, b) /\ Ended(s, w, b) => Fed(s, x, a)
  <2> HIDE DEF w
  <2>1. SUFFICES ASSUME NEW a, NEW b, IsVariable(v, s, a, b), Ended(s, w, b)
                 PROVE  Fed(s, x, a)
    OBVIOUS
  <2>2. Ended(s, On(Call("push_back"), w), b)
    BY <2>1, Skipped, EndedSkip
  <2>. QED
    BY <2>1, <2>2, FedVariable
<1>1. ASSUME NEW n \in Nat, \A m \in 0 .. n - 1 : m \in S PROVE n \in S
  <2>1. SUFFICES ASSUME NEW a \in Nat, NEW b \in Nat, a <= b, b - a = n, Span(v, s, All[type], a, b),
                        Ended(s, w, b)
                 PROVE  Fed(s, x, a)
    OBVIOUS
  <2>2. IsVariables(v, s, type, a, b)
    BY <2>1, VariablesApart DEF IsVariables
  <2>3. CASE \E m, l : Span(v, s, All[type], a, m) /\ Tok(s, m, l, "COMMA") /\ Span(v, s, One[type], l, b)
    <3>1. PICK m, l : Span(v, s, All[type], a, m) /\ Tok(s, m, l, "COMMA") /\ Span(v, s, One[type], l, b)
      BY <2>3
    <3>2. m \in Nat /\ l \in Nat /\ l = m + 1 /\ a <= m /\ l <= b /\ s[m + 1] = "COMMA"
      BY <3>1, TokIs, SpanIs
    <3>3. IsVariable(v, s, l, b)
      BY <3>1, VariablesApart, NamesOfTypes
    <3>4. Fed(s, x, l)
      BY <1>0, <2>1, <3>3
    <3>5. Fed(s, w, m)
      BY <3>1, <3>4, FedMore
    <3>6. Ended(s, w, m)
      <4> HIDE DEF w
      <4>1. s[m + 1] # "ASSIGN" /\ \A k \in 1 .. 6 : s[m + 1] \notin Levels[k]
        BY <3>2, Followers
      <4>. QED
        BY <3>5, <4>1, EndedEnd
    <3>7. m - a \in 0 .. n - 1
      BY <2>1, <3>2
    <3>8. m - a \in S
      BY <1>1, <3>7
    <3> HIDE DEF w, x
    <3>. QED
      BY <3>1, <3>2, <3>6, <3>8
  <2>. QED
    BY <1>0, <2>1, <2>2, <2>3 DEF IsVariables
<1>2. \A n \in Nat : n \in S
  <2> HIDE DEF S
  <2>. QED
    BY <1>1, StrongInduction
<1>3. i \in Nat /\ j \in Nat /\ i <= j /\ j - i \in Nat
  BY SpanIs
<1>4. Listing(i, j)
  <2> HIDE DEF Listing
  <2>. QED
    BY <1>2, <1>3
<1>. QED
  BY <1>4

(* A declaration, if what follows is accepted for any of the types.             *)
LEMMA FedDeclaration ==
  ASSUME NEW v \in Vocabularies, NEW s, NEW i, NEW j, Span(v, s, "declaration", i, j),
         NEW t, IsSeq(t), \A type : Ended(s, On(Of("more", Of("variable", type)), t), j)
  PROVE  Fed(s, On(Call("type"), t), i) /\ s[i + 1] \in Types /\ i < j
<1>1. PICK type \in Types : \E m : Tok(s, i, m, type) /\ Span(v, s, All[type], m, j)
  BY DeclarationApart
<1>2. PICK m : Tok(s, i, m, type) /\ Span(v, s, All[type], m, j)
  BY <1>1
<1>3. i \in Nat /\ m = i + 1 /\ m <= j /\ s[i + 1] = type /\ j \in Nat
  BY <1>2, TokIs, SpanIs
<1> DEFINE item == Of("variable", type)
           todo == <<item, Call("push_back"), Of("more", item)>>
           x == On(item, On(Call("push_back"), On(Of("more", item), t)))
<1>4. Fed(s, x, m)
  BY <1>2, FedVariables
<1>5. todo \o t = x
  BY OnThree
<1>6. MoveType(s, i, todo, m)
  BY <1>3 DEF MoveType
<1> HIDE DEF x, todo
<1>7. MoveSimply(s, Call("type"), i, todo, m)
  <2>1. Call("type")[1] = "type"
    BY DEF Call
  <2>. QED
    BY <1>6, <2>1 DEF MoveSimply
<1>8. i < j
  BY <1>3
<1>. QED
  BY <1>3, <1>4, <1>5, <1>7, <1>8, FedSimply

(* What is on the stack between the parts of a program, and in a declaration.   *)
Parts   == <<Call("program")>>
More    == On(Call("declarations"), Parts)
After(s, i) == Fed(s, Parts, i)

LEMMA PartsAre == /\ IsSeq(Parts) /\ Parts # <<>> /\ Head(Parts) = Call("program") /\ Tail(Parts) = <<>>
                  /\ Parts = On(Call("program"), <<>>) /\ IsSeq(<<>>) /\ IsSeq(More)
<1>1. IsSeq(<<>>)
  BY DEF IsSeq
<1>2. IsSeq(Parts) /\ Parts # <<>> /\ Head(Parts) = Call("program") /\ Tail(Parts) = <<>>
  BY OneIsSeq DEF Parts
<1>3. Parts = On(Call("program"), <<>>)
  <2>1. <<Call("program")>> \o <<>> = On(Call("program"), <<>>)
    BY OnOne
  <2>2. Parts \o <<>> = Parts
    BY <1>2, ConcatEmpty
  <2>. QED
    BY <2>1, <2>2 DEF Parts
<1>. QED
  BY <1>1, <1>2, <1>3, OnIs DEF More

LEMMA OnEnd ==
  /\ \A a, b : <<a, b>> \o <<>> = On(a, On(b, <<>>))
  /\ \A a, b, c : <<a, b, c>> \o <<>> = On(a, On(b, On(c, <<>>)))
<1> DEFINE e == <<>>
<1>1. IsSeq(e)
  BY PartsAre
<1> HIDE DEF e
<1>2. \A a, b : <<a, b>> \o e = On(a, On(b, e))
  BY <1>1, OnTwo
<1>3. \A a, b, c : <<a, b, c>> \o e = On(a, On(b, On(c, e)))
  BY <1>1, OnThree
<1>. QED
  BY <1>2, <1>3 DEF e

(* What may follow a part of a program.                                         *)
Next1 == Starters \cup Types \cup {END}
LEMMA FollowersOfParts ==
  /\ \A w \in Next1 : w \notin {"SEMICOLON", "ELSE", "COMMA", "ASSIGN", "RBRACE"}
  /\ \A w \in Next1 : w # "MINUS" => \A k \in 1 .. 6 : w \notin Levels[k]
<1>1. \A w \in Next1 : w \notin {"SEMICOLON", "ELSE", "COMMA", "ASSIGN", "RBRACE"}
  BY StartersApart DEF Next1, Types, END
<1>2. \A w \in Next1 : w \notin {"OR", "AND", "EQUAL", "NOTEQUAL", "LESS", "GREATER", "LESSEQUAL",
                                 "GREATEREQUAL", "PLUS", "MULTIPLY", "DIVIDE", "MODULO"}
  BY DEF Next1, Starters, FirstTokens, Literals, Names, Unary, Keywords, Types, END
<1>3. /\ Levels[1] = {"OR"} /\ Levels[2] = {"AND"} /\ Levels[3] = {"EQUAL", "NOTEQUAL"}
      /\ Levels[4] = {"LESS", "GREATER", "LESSEQUAL", "GREATEREQUAL"}
      /\ Levels[5] = {"PLUS", "MINUS"} /\ Levels[6] = {"MULTIPLY", "DIVIDE", "MODULO"}
  BY DEF Levels
<1>4. \A n \in 1 .. 6 : n = 1 \/ n = 2 \/ n = 3 \/ n = 4 \/ n = 5 \/ n = 6
  OBVIOUS
<1>5. ASSUME NEW w \in Next1, w # "MINUS", NEW k \in 1 .. 6 PROVE w \notin Levels[k]
  BY <1>2, <1>3, <1>4, <1>5
<1>. QED
  BY <1>1, <1>5

LEMMA FedDeclared ==
  ASSUME NEW s, NEW i
  PROVE  /\ s[i + 1] # "SEMICOLON" /\ After(s, i) => Fed(s, More, i)
         /\ \A j : Tok(s, i, j, "SEMICOLON") /\ After(s, j) => Fed(s, More, i)
<1>0. Call("declarations")[1] = "declarations" /\ Call("program")[1] = "program"
  BY DEF Call
<1> DEFINE declared == <<Call("declared")>>
<1>1. \A j : After(s, j) => Fed(s, declared \o Parts, j)
  <2>1. declared \o Parts = On(Call("declared"), Parts)
    BY OnOne
  <2>2. \A j : Fed(s, Parts, j) => Fed(s, On(Call("declared"), Parts), j)
    BY FedSkip, Skipped
  <2> HIDE DEF declared
  <2>. QED
    BY <2>1, <2>2 DEF After
<1>2. ASSUME s[i + 1] # "SEMICOLON", After(s, i) PROVE Fed(s, More, i)
  <2>1. MoveSimply(s, Call("declarations"), i, declared, i)
    BY <1>0, <1>2 DEF MoveSimply, MoveDeclarations
  <2> HIDE DEF declared
  <2>. QED
    BY <1>1, <1>2, <2>1, PartsAre, FedSimply DEF More
<1>3. ASSUME NEW j, Tok(s, i, j, "SEMICOLON"), After(s, j) PROVE Fed(s, More, i)
  <2>1. j = i + 1 /\ s[i + 1] = "SEMICOLON" /\ j + 1 = i + 2 /\ i \in Nat
    BY <1>3, TokIs
  <2>2. CASE s[i + 2] \notin Types
    <3>1. MoveSimply(s, Call("declarations"), i, declared, j)
      BY <1>0, <2>1, <2>2 DEF MoveSimply, MoveDeclarations
    <3> HIDE DEF declared
    <3>. QED
      BY <1>1, <1>3, <3>1, PartsAre, FedSimply DEF More
  <2>3. CASE s[i + 2] \in Types
    <3> DEFINE todo == <<Call("type"), Call("declarations")>>
    <3>1. \A p : Moves(s, Call("declarations"), i, p, todo, j, "other")
      <4>1. MoveSimply(s, Call("declarations"), i, todo, j)
        BY <1>0, <2>1, <2>3 DEF MoveSimply, MoveDeclarations
      <4>. QED
        BY <4>1 DEF Moves
    <3>2. Accepts(s, todo \o Parts, j, "other")
      <4>1. Accepts(s, Parts, j, "other")
        BY <1>3 DEF After, Fed, Accepted
      <4>2. PICK q, k, u : Moves(s, Head(Parts), j, "other", q, k, u) /\ Accepts(s, q \o Tail(Parts), k, u)
        BY <4>1, PartsAre, AcceptBack
      <4>3. MoveSimply(s, Call("program"), j, q, k) /\ u = "other"
        BY <1>0, <4>2, PartsAre DEF Moves
      <4>4. MoveProgram(s, j, q, k)
        BY <1>0, <4>3 DEF MoveSimply
      <4>5. k = j /\ q = <<Call("type"), Call("declarations"), Call("program")>>
        BY <2>1, <2>3, <4>4 DEF MoveProgram, Types, END
      <4>6. q \o <<>> = On(Call("type"), On(Call("declarations"), On(Call("program"), <<>>)))
        BY <4>5, OnEnd
      <4>7. todo \o Parts = On(Call("type"), On(Call("declarations"), Parts))
        <5>1. IsSeq(Parts)
          BY PartsAre
        <5>. QED
          BY <5>1, OnTwo
      <4>. QED
        BY <4>2, <4>3, <4>5, <4>6, <4>7, PartsAre DEF More
    <3> HIDE DEF todo
    <3>3. \A p : Accepts(s, More, i, p)
      BY <3>1, <3>2, PartsAre, AcceptStep DEF More
    <3>. QED
      BY <3>3, PartsAre DEF Fed, Accepted
  <2>. QED
    BY <2>2, <2>3
<1>. QED
  BY <1>2, <1>3

LEMMA FedParts ==
  ASSUME NEW s, NEW i
  PROVE  /\ s[i + 1] = END => After(s, i)
         /\ s[i + 1] \in Types /\ Fed(s, On(Call("type"), More), i) => After(s, i)
         /\ s[i + 1] \notin Types \cup {END} /\ Fed(s, On(Statement, On(Call("push_back"), Parts)), i)
              => After(s, i)
<1>0. Call("program")[1] = "program"
  BY DEF Call
<1>1. ASSUME s[i + 1] = END PROVE After(s, i)
  <2>1. MoveSimply(s, Call("program"), i, <<>>, i)
    BY <1>0, <1>1 DEF MoveSimply, MoveProgram
  <2>2. Fed(s, <<>>, i) /\ <<>> \o <<>> = <<>>
    BY PartsAre, AcceptEnd, OnNone DEF Fed
  <2>. QED
    BY <2>1, <2>2, PartsAre, FedSimply DEF After
<1>2. ASSUME s[i + 1] \in Types, Fed(s, On(Call("type"), More), i) PROVE After(s, i)
  <2> DEFINE todo == <<Call("type"), Call("declarations"), Call("program")>>
  <2>1. MoveSimply(s, Call("program"), i, todo, i)
    BY <1>0, <1>2 DEF MoveSimply, MoveProgram
  <2>2. todo \o <<>> = On(Call("type"), More)
    <3>1. todo \o <<>> = On(Call("type"), On(Call("declarations"), On(Call("program"), <<>>)))
      BY OnEnd
    <3> HIDE DEF todo
    <3>. QED
      BY <3>1, PartsAre DEF More
  <2> HIDE DEF todo
  <2>. QED
    BY <1>2, <2>1, <2>2, PartsAre, FedSimply DEF After
<1>3. ASSUME s[i + 1] \notin Types \cup {END}, Fed(s, On(Statement, On(Call("push_back"), Parts)), i)
      PROVE  After(s, i)
  <2> DEFINE todo == <<Statement, Call("push_back"), Call("program")>>
  <2>1. MoveSimply(s, Call("program"), i, todo, i)
    BY <1>0, <1>3 DEF MoveSimply, MoveProgram
  <2>2. todo \o <<>> = On(Statement, On(Call("push_back"), Parts))
    <3>1. todo \o <<>> = On(Statement, On(Call("push_back"), On(Call("program"), <<>>)))
      BY OnEnd
    <3> HIDE DEF todo
    <3>. QED
      BY <3>1, PartsAre
  <2> HIDE DEF todo
  <2>. QED
    BY <1>3, <2>1, <2>2, PartsAre, FedSimply DEF After
<1>. QED
  BY <1>1, <1>2, <1>3

(* A part of a program may end with the i-th token.                             *)
Parted(s, i) ==
  /\ After(s, i) /\ s[i + 1] \in Next1
  /\ s[i + 1] = "MINUS" => \E l, m : Onward(s, i, l) /\ Tok(s, l, m, "SEMICOLON") /\ After(s, m)

(* A statement that begins with a minus is an expression and a semicolon.        *)
LEMMA MinusStatement ==
  ASSUME NEW v \in Vocabularies, NEW s, NEW i, NEW j, Span(v, s, "statement", i, j), s[i + 1] = "MINUS"
  PROVE  \E l : Onward(s, i, l) /\ Tok(s, l, j, "SEMICOLON")
<1>1. IsStatement(v, s, "statement", i, j)
  BY StatementApart, SomeStatement
<1>2. \A m, w : Tok(s, i, m, w) => w = "MINUS"
  BY TokIs
<1>3. ~IsCompound(v, s, i, j)
  BY BlockOpens DEF IsCompound
<1>4. ~IsDo(v, s, i, j) /\ ~IsRead(v, s, i, j) /\ ~IsWriteNothing(v, s, i, j) /\ ~IsWrite(v, s, i, j)
  BY <1>2 DEF IsDo, IsRead, IsWriteNothing, IsWrite
<1>5. ~IsIf(v, s, i, j) /\ \A x : ~IsLabelled(v, s, x, i, j) /\ ~IsIfElse(v, s, x, i, j)
  BY <1>2 DEF IsIf, IsLabelled, IsIfElse
<1>6. \A x : ~IsWhile(v, s, x, i, j) /\ ~IsFor(v, s, x, i, j)
  BY <1>2 DEF IsWhile, IsFor
<1>7. IsExpressionStatement(v, s, i, j)
  BY <1>1, <1>3, <1>4, <1>5, <1>6 DEF IsStatement
<1>8. PICK l : Span(v, s, "expression", i, l) /\ Tok(s, l, j, "SEMICOLON")
  BY <1>7 DEF IsExpressionStatement
<1>9. s[l + 1] = "SEMICOLON"
  BY <1>8, TokIs
<1>10. Onward(s, l, l)
  BY <1>9, Followers, OnwardEnd
<1>11. Onward(s, i, l)
  BY <1>8, <1>10, Munch
<1>. QED
  BY <1>8, <1>11

LEMMA MoreEnded ==
  ASSUME NEW s, NEW i, Fed(s, More, i), s[i + 1] # "COMMA", s[i + 1] # "ASSIGN",
         \/ \A k \in 1 .. 6 : s[i + 1] \notin Levels[k]
         \/ \E l : Onward(s, i, l) /\ Fed(s, More, l) /\ s[l + 1] # "COMMA",
         NEW item
  PROVE  Ended(s, On(Of("more", item), More), i)
<1>1. Fed(s, On(Of("more", item), More), i)
  BY FedNoMore
<1>2. CASE \A k \in 1 .. 6 : s[i + 1] \notin Levels[k]
  BY <1>1, <1>2, EndedEnd
<1>3. CASE \E l : Onward(s, i, l) /\ Fed(s, More, l) /\ s[l + 1] # "COMMA"
  BY <1>1, <1>3, FedNoMore DEF Ended
<1>. QED
  BY <1>2, <1>3

LEMMA PartedEnded ==
  ASSUME NEW s, NEW i, Parted(s, i), NEW item
  PROVE  Ended(s, On(Of("more", item), More), i)
<1>1. After(s, i) /\ s[i + 1] # "SEMICOLON" /\ s[i + 1] # "COMMA" /\ s[i + 1] # "ASSIGN"
  BY FollowersOfParts DEF Parted
<1>2. Fed(s, More, i)
  BY <1>1, FedDeclared
<1>3. CASE s[i + 1] # "MINUS"
  BY <1>1, <1>2, <1>3, MoreEnded, FollowersOfParts DEF Parted
<1>4. CASE s[i + 1] = "MINUS"
  <2>1. PICK l, m : Onward(s, i, l) /\ Tok(s, l, m, "SEMICOLON") /\ After(s, m)
    BY <1>4 DEF Parted
  <2>2. Fed(s, More, l) /\ s[l + 1] # "COMMA"
    BY <2>1, FedDeclared, TokIs
  <2>. QED
    BY <1>1, <1>2, <2>1, <2>2, MoreEnded
<1>. QED
  BY <1>3, <1>4

LEMMA ProgramFed ==
  ASSUME NEW v \in Vocabularies, NEW s, NEW j, Span(v, s, "program", 0, j), Parted(s, j)
  PROVE  Fed(s, On(Expect("PROGRAM"), Parts), 0)
<1> DEFINE Z == Fed(s, On(Expect("PROGRAM"), Parts), 0)
           S == {n \in Nat : Span(v, s, "program", 0, n) /\ Parted(s, n) => Z}
<1>1. ASSUME NEW n \in Nat, \A m \in 0 .. n - 1 : m \in S PROVE n \in S
  <2>1. SUFFICES ASSUME Span(v, s, "program", 0, n), Parted(s, n) PROVE Z
    OBVIOUS
  <2>2. After(s, n) /\ s[n + 1] \in Next1
    BY <2>1 DEF Parted
  <2>3. CASE Tok(s, 0, n, "PROGRAM")
    BY <2>2, <2>3, FedExpect DEF After
  <2>4. ASSUME NEW m, Span(v, s, "program", 0, m), m < n, Parted(s, m) PROVE Z
    <3>1. m \in 0 .. n - 1
      BY <2>4, SpanIs
    <3>2. m \in S
      BY <1>1, <3>1
    <3> HIDE DEF Z
    <3>. QED
      BY <2>4, <3>1, <3>2
  <2>5. CASE \E m : Span(v, s, "program", 0, m) /\ Span(v, s, "statement", m, n)
    <3>1. PICK m : Span(v, s, "program", 0, m) /\ Span(v, s, "statement", m, n)
      BY <2>5
    <3>2. s[m + 1] \in Starters /\ m < n
      BY <3>1, StatementOpens, SomeStatement
    <3>3. s[m + 1] \notin Types \cup {END} /\ s[m + 1] \in Next1
      BY <3>2, StartersApart DEF Next1
    <3>4. Fed(s, On(Call("push_back"), Parts), n)
      BY <2>2, FedSkip, Skipped DEF After
    <3>5. s[n + 1] # "ELSE"
      BY <2>2, FollowersOfParts
    <3>6. Fed(s, On(Statement, On(Call("push_back"), Parts)), m)
      BY <3>1, <3>4, <3>5, StatementFed
    <3>7. After(s, m)
      BY <3>3, <3>6, FedParts
    <3>8. Parted(s, m)
      BY <2>2, <3>1, <3>3, <3>7, MinusStatement DEF Parted
    <3>. QED
      BY <2>4, <3>1, <3>2, <3>8
  <2>6. ASSUME NEW m, NEW l, Span(v, s, "program", 0, m), Span(v, s, "declaration", m, l), l <= n,
               \A type : Ended(s, On(Of("more", Of("variable", type)), More), l)
        PROVE  Z
    <3>1. Fed(s, On(Call("type"), More), m) /\ s[m + 1] \in Types /\ m < l
      BY <2>6, PartsAre, FedDeclaration
    <3>2. After(s, m)
      BY <3>1, FedParts
    <3>3. s[m + 1] \in Next1 /\ s[m + 1] # "MINUS"
      BY <3>1 DEF Next1, Types
    <3>4. Parted(s, m)
      BY <3>2, <3>3 DEF Parted
    <3>5. m < n
      BY <2>6, <3>1, SpanIs
    <3>. QED
      BY <2>4, <2>6, <3>4, <3>5
  <2>7. CASE \E m : Span(v, s, "program", 0, m) /\ Span(v, s, "declaration", m, n)
    BY <2>1, <2>6, <2>7, PartedEnded
  <2>8. CASE \E m, l : Span(v, s, "program", 0, m) /\ Span(v, s, "declaration", m, l)
                       /\ Tok(s, l, n, "SEMICOLON")
    <3>1. PICK m, l : Span(v, s, "program", 0, m) /\ Span(v, s, "declaration", m, l)
                      /\ Tok(s, l, n, "SEMICOLON")
      BY <2>8
    <3>2. Fed(s, More, l) /\ s[l + 1] = "SEMICOLON" /\ l <= n
      BY <2>2, <3>1, FedDeclared, TokIs
    <3>3. \A k \in 1 .. 6 : s[l + 1] \notin Levels[k]
      BY <3>2, Followers
    <3>4. \A item : Ended(s, On(Of("more", item), More), l)
      BY <3>2, <3>3, MoreEnded
    <3>. QED
      BY <2>6, <3>1, <3>2, <3>4
  <2>. QED
    BY <2>1, <2>3, <2>5, <2>7, <2>8, ProgramApart
<1>2. \A n \in Nat : n \in S
  <2> HIDE DEF S
  <2>. QED
    BY <1>1, StrongInduction
<1>3. j \in Nat
  BY SpanIs
<1>. QED
  BY <1>2, <1>3

(* A sentence, with the end behind it, is accepted by the parser from its first  *)
(* calls on.                                                                  *)
LEMMA SentenceAccepted ==
  ASSUME NEW v \in Vocabularies, NEW s, NEW j, Span(v, s, "program", 0, j), s[j + 1] = END
  PROVE  Accepted(s, <<Expect("PROGRAM"), Call("program")>>, 0)
<1>1. Parted(s, j)
  BY FedParts DEF Parted, Next1, END
<1>2. Fed(s, On(Expect("PROGRAM"), Parts), 0)
  BY <1>1, ProgramFed
<1>3. <<Expect("PROGRAM"), Call("program")>> \o <<>> = On(Expect("PROGRAM"), Parts)
  <2>2. <<Expect("PROGRAM"), Call("program")>> \o <<>> = On(Expect("PROGRAM"), On(Call("program"), <<>>))
    BY OnEnd
  <2>. QED
    BY <2>2, PartsAre
<1>4. <<Expect("PROGRAM"), Call("program")>> \o <<>> = <<Expect("PROGRAM"), Call("program")>>
  BY TuplesAre, ConcatEmpty
<1>. QED
  BY <1>2, <1>3, <1>4 DEF Fed

-----------------------------------------------------------------------------
(* The second invariant: as long as what the parser has looked at is the          *)
(* beginning of a sentence, the parser is on its way through it.               *)

(* s is a sentence, with the end behind it.                                   *)
Scripted(s) == /\ s \in Streams(vocabulary)
               /\ \E j : Span(vocabulary, s, "program", 0, j) /\ s[j + 1] = END

(* The lookahead has been taken for a label, or for none, where the sentence has *)
(* another token: it goes on otherwise than the script, which is noticed as soon *)
(* as the name is read.                                                       *)
Stuck(s) ==
  /\ s[Position + 2] # peekToken /\ currentToken = "IDENTIFIER" /\ calls # <<>>
  /\ Head(calls) \in {Expect("IDENTIFIER"), Expression, Call("unary"), Call("primary")}

Flagged(p)  == p = "other" \/ (p = "name" /\ Head(built)[1] \in Names)
OnItsWay(s) == \E p : Flagged(p) /\ Accepts(s, calls, Position, p)
Hopeful(s)  == outcome = "parsed" \/ (outcome = "parsing" /\ (Stuck(s) \/ OnItsWay(s)))
Hoped == \A s : Scripted(s) /\ Continues(s, Considered) => Hopeful(s)

LEMMA SubSeqOf ==
  ASSUME NEW q, IsSeq(q), NEW n \in 0 .. Len(q)
  PROVE  /\ IsSeq(SubSeq(q, 1, n)) /\ Len(SubSeq(q, 1, n)) = n
         /\ \A m \in 1 .. n : SubSeq(q, 1, n)[m] = q[m]
<1>1. n \in Nat /\ n <= Len(q) /\ n - 1 + 1 = n /\ 1 <= n + 1
  BY SeqIs
<1>2. /\ IsSeq(SubSeq(q, 1, n)) /\ Len(SubSeq(q, 1, n)) = n
      /\ \A m \in 1 .. n : SubSeq(q, 1, n)[m] = q[1 + m - 1]
  BY <1>1, SubSeqIs
<1>3. \A m \in 1 .. n : 1 + m - 1 = m
  OBVIOUS
<1>. QED
  BY <1>2, <1>3

LEMMA ConsideredIs ==
  ASSUME InputRight
  PROVE  /\ IsSeq(Considered) /\ Len(input) \in Nat /\ Len(input) >= 2
         /\ Len(Considered) = Len(input) - 1
         /\ \A n \in 1 .. Len(input) - 1 : Considered[n] = input[n]
<1>1. IsSeq(input) /\ Len(input) \in Nat /\ Len(input) >= 2
  BY SeqIs DEF InputRight
<1>2. Len(input) - 1 \in 0 .. Len(input)
  BY <1>1
<1>. QED
  BY <1>1, <1>2, SubSeqOf DEF Considered

LEMMA Seen ==
  ASSUME InputRight, NEW s, Continues(s, Considered)
  PROVE  Position \in Nat /\ s[Position + 1] = currentToken
<1>1. Position \in Nat /\ Position + 1 = Len(input) - 1 /\ Len(input) - 1 \in 1 .. Len(input) - 1
  BY ConsideredIs DEF Position
<1>2. s[Len(input) - 1] = input[Len(input) - 1]
  BY <1>1, ConsideredIs DEF Continues
<1>. QED
  BY <1>1, <1>2 DEF currentToken

(* Once a token is read, what was the lookahead counts as well.                 *)
LEMMA SeenNext ==
  ASSUME InputRight, NextToken, vocabulary' = vocabulary, NEW s, Continues(s, Considered')
  PROVE  /\ Continues(s, Considered) /\ Position' = Position + 1
         /\ s[Position + 2] = peekToken
<1>1. PICK t : input' = Append(input, t)
  BY DEF NextToken
<1>2. /\ Len(input') = Len(input) + 1 /\ Len(input) \in Nat /\ Len(input) >= 2
      /\ \A n \in 1 .. Len(input) : input'[n] = input[n]
  BY <1>1, Appended, ConsideredIs DEF InputRight
<1>3. InputRight'
  BY InputKept
<1>4. /\ Len(Considered') = Len(input') - 1
      /\ \A n \in 1 .. Len(input') - 1 : Considered'[n] = input'[n]
  <2>1. (InputRight => /\ Len(Considered) = Len(input) - 1
                       /\ \A n \in 1 .. Len(input) - 1 : Considered[n] = input[n])'
    BY ConsideredIs, PTL
  <2>. QED
    BY <1>3, <2>1
<1>5. \A n \in 1 .. Len(input) : s[n] = input[n]
  <2>1. Len(input') - 1 = Len(input)
    BY <1>2
  <2>. QED
    BY <1>2, <1>4, <2>1 DEF Continues
<1>6. Continues(s, Considered)
  <2>1. \A n \in 1 .. Len(input) - 1 : n \in 1 .. Len(input)
    BY <1>2
  <2>. QED
    BY <1>5, <2>1, ConsideredIs DEF Continues
<1>7. Position + 2 = Len(input) /\ Position' = Position + 1 /\ Len(input) \in 1 .. Len(input)
  BY <1>2 DEF Position
<1>. QED
  BY <1>5, <1>6, <1>7 DEF peekToken, Last

-----------------------------------------------------------------------------
(* The steps from where the parser is on its way.                             *)

OnTheSpot(s) ==
  InputRight /\ CallsRight /\ outcome = "parsing" /\ calls # <<>> /\ Continues(s, Considered)
(* What the first call has to do, and where that leads.                        *)
Leads(s, todo, j, u) ==
  \E p : Flagged(p) /\ Moves(s, Head(calls), Position, p, todo, j, u)
           /\ Accepts(s, todo \o Tail(calls), j, u)

LEMMA SomewhereLeads ==
  ASSUME NEW s, OnTheSpot(s), OnItsWay(s)
  PROVE  \E todo, j, u : Leads(s, todo, j, u)
<1>1. PICK p : Flagged(p) /\ Accepts(s, calls, Position, p)
  BY DEF OnItsWay
<1>2. calls # <<>>
  BY DEF OnTheSpot
<1>3. \E todo, j, u : /\ Moves(s, Head(calls), Position, p, todo, j, u)
                      /\ Accepts(s, todo \o Tail(calls), j, u)
  BY <1>1, <1>2, AcceptBack
<1>. QED
  BY <1>1, <1>3 DEF Leads

LEMMA CallsHope ==
  ASSUME NEW s, OnTheSpot(s), NEW todo, NEW j, NEW u, Leads(s, todo, j, u),
         Calls(todo), j = Position, Flagged(u)
  PROVE  Hopeful(s)'
<1>1. Position' = Position /\ built' = built /\ outcome' = "parsing" /\ calls' = todo \o Tail(calls)
  BY DEF Calls, Instead, Position, OnTheSpot
<1>2. Accepts(s, calls', Position', u)
  BY <1>1 DEF Leads
<1>3. Flagged(u)'
  BY <1>1 DEF Flagged
<1>4. OnItsWay(s)'
  BY <1>2, <1>3 DEF OnItsWay
<1>. QED
  BY <1>1, <1>4 DEF Hopeful

LEMMA ConsumesHope ==
  ASSUME NEW s, OnTheSpot(s), NEW todo, NEW j, NEW u, Leads(s, todo, j, u),
         Consumes(todo), j = Position + 1, Flagged(u), Continues(s, Considered')
  PROVE  Hopeful(s)'
<1>0. InputRight /\ NextToken /\ vocabulary' = vocabulary
  BY DEF Consumes, OnTheSpot
<1>1. /\ Position' = Position + 1 /\ built' = built /\ outcome' = "parsing"
      /\ calls' = todo \o Tail(calls)
  BY <1>0, SeenNext DEF Consumes, Instead, OnTheSpot
<1>2. Accepts(s, calls', Position', u)
  BY <1>1 DEF Leads
<1>3. Flagged(u)'
  BY <1>1 DEF Flagged
<1>4. OnItsWay(s)'
  BY <1>2, <1>3 DEF OnItsWay
<1>. QED
  BY <1>1, <1>4 DEF Hopeful

LEMMA OtherHope ==
  ASSUME NEW s, OnTheSpot(s), NEW todo, NEW j, NEW u, Leads(s, todo, j, u), u = "other",
         Instead(todo), outcome' = outcome, input' = input, j = Position
  PROVE  Hopeful(s)'
<1>1. Position' = Position /\ outcome' = "parsing" /\ calls' = todo \o Tail(calls)
  BY DEF Instead, Position, OnTheSpot
<1>2. Accepts(s, calls', Position', u)
  BY <1>1 DEF Leads
<1>3. Flagged(u)'
  BY DEF Flagged
<1>4. OnItsWay(s)'
  BY <1>2, <1>3 DEF OnItsWay
<1>. QED
  BY <1>1, <1>4 DEF Hopeful

LEMMA LeafHope ==
  ASSUME NEW s, OnTheSpot(s), NEW j, NEW u, Leads(s, <<>>, j, u), NEW node, TokenPushes(node),
         j = Position + 1, u = "other" \/ (u = "name" /\ node[1] \in Names),
         Continues(s, Considered'), IsSeq(built)
  PROVE  Hopeful(s)'
<1>0. InputRight /\ NextToken /\ vocabulary' = vocabulary
  BY DEF TokenPushes, OnTheSpot
<1>1. /\ Position' = Position + 1 /\ outcome' = "parsing" /\ calls' = <<>> \o Tail(calls)
      /\ built' = <<node>> \o built
  BY <1>0, SeenNext DEF TokenPushes, Instead, OnTheSpot
<1>2. Accepts(s, calls', Position', u)
  BY <1>1 DEF Leads
<1>3. Flagged(u)'
  <2>1. Head(<<node>> \o built) = node
    BY Pushed
  <2>. QED
    BY <1>1, <2>1 DEF Flagged
<1>4. OnItsWay(s)'
  BY <1>2, <1>3 DEF OnItsWay
<1>. QED
  BY <1>1, <1>4 DEF Hopeful

-----------------------------------------------------------------------------
(* The nodes on built.  Needs is how many of them a call must find there, Gains  *)
(* how many more there are after it than before.                              *)

Needs(h) ==
  IF h[1] \in {"push_back", "else"} THEN 2
  ELSE IF h[1] = "make" THEN h[3]
  ELSE IF h[1] \in {"program", "type", "declarations", "declared", "more", "initializer", "assign",
                    "operators", "block", "arguments"} THEN 1
  ELSE 0
Gains(h) ==
  IF h[1] \in {"push_back", "declarations", "declared", "else"} THEN -1
  ELSE IF h[1] = "make" THEN 1 - h[3]
  ELSE IF h[1] \in {"identifier", "variable", "assignment", "unary", "primary", "statement",
                    "optional"} THEN 1
  ELSE 0

(* Every call finds the nodes it needs.                                       *)
Served(W) ==
  \A q, d : <<q, d>> \in W =>
    /\ d \in Nat
    /\ q # <<>> => /\ Needs(Head(q)) \in Nat /\ Needs(Head(q)) <= d
                   /\ <<Tail(q), d + Gains(Head(q))>> \in W
Enough(q, d) == \E W : Served(W) /\ <<q, d>> \in W

LEMMA EnoughNone == \A d \in Nat : Enough(<<>>, d)
<1>1. ASSUME NEW d \in Nat PROVE Enough(<<>>, d)
  <2>1. Served({<<<<>>, d>>})
    BY DEF Served
  <2>. QED
    BY <2>1 DEF Enough
<1>. QED
  BY <1>1

LEMMA EnoughFirst ==
  ASSUME NEW q, NEW d, Enough(q, d)
  PROVE  /\ d \in Nat
         /\ q # <<>> => /\ Needs(Head(q)) \in Nat /\ Needs(Head(q)) <= d
                        /\ Enough(Tail(q), d + Gains(Head(q)))
<1>1. PICK W : Served(W) /\ <<q, d>> \in W
  BY DEF Enough
<1>. QED
  BY <1>1 DEF Served, Enough

LEMMA EnoughOn ==
  ASSUME NEW h, NEW t, IsSeq(t), NEW d \in Nat, NEW e, Needs(h) \in Nat, Needs(h) <= d,
         e = d + Gains(h), Enough(t, e)
  PROVE  Enough(On(h, t), d)
<1>1. PICK W : Served(W) /\ <<t, e>> \in W
  BY DEF Enough
<1> DEFINE Q == On(h, t)
           V == W \cup {<<Q, d>>}
<1>2. Head(Q) = h /\ Tail(Q) = t
  BY OnIs
<1> HIDE DEF Q
<1>3. ASSUME NEW r, NEW c, <<r, c>> \in V
      PROVE  /\ c \in Nat
             /\ r # <<>> => /\ Needs(Head(r)) \in Nat /\ Needs(Head(r)) <= c
                            /\ <<Tail(r), c + Gains(Head(r))>> \in V
  <2>1. CASE <<r, c>> \in W
    BY <1>1, <2>1 DEF Served
  <2>2. CASE <<r, c>> = <<Q, d>>
    <3>1. r = Q /\ c = d
      BY <2>2
    <3>. QED
      BY <1>1, <1>2, <3>1
  <2>. QED
    BY <1>3, <2>1, <2>2
<1>4. Served(V) /\ <<Q, d>> \in V
  BY <1>3 DEF Served
<1>. QED
  BY <1>4 DEF Enough, Q

(* From d nodes on the calls q lead to e, and find what they need.              *)
Uses(q, d, e) ==
  IsSeq(q) /\ d \in Nat /\ \A t : IsSeq(t) /\ Enough(t, e) => Enough(q \o t, d)
(* The one call h does.                                                      *)
Uses1(h, d, e) == d \in Nat /\ Needs(h) \in Nat /\ Needs(h) <= d /\ e = d + Gains(h)

LEMMA UsesNone == \A d \in Nat : Uses(<<>>, d, d)
BY EmptyIsSeq, OnNone DEF Uses

LEMMA UsesOne ==
  ASSUME NEW h, NEW d, NEW e, Uses1(h, d, e)
  PROVE  Uses(<<h>>, d, e)
<1>1. ASSUME NEW t, IsSeq(t), Enough(t, e) PROVE Enough(<<h>> \o t, d)
  <2>1. Enough(On(h, t), d)
    BY <1>1, EnoughOn DEF Uses1
  <2>. QED
    BY <2>1 DEF On
<1>. QED
  BY <1>1, OneIsSeq DEF Uses, Uses1

LEMMA UsesBoth ==
  ASSUME NEW q, NEW r, NEW d, NEW e, NEW f, Uses(q, d, e), Uses(r, e, f)
  PROVE  Uses(q \o r, d, f)
<1>1. IsSeq(q) /\ IsSeq(r) /\ IsSeq(q \o r)
  BY ConcatIs DEF Uses
<1>2. ASSUME NEW t, IsSeq(t), Enough(t, f) PROVE Enough((q \o r) \o t, d)
  <2>1. IsSeq(r \o t) /\ Enough(r \o t, e)
    BY <1>1, <1>2, ConcatIs DEF Uses
  <2>2. (q \o r) \o t = q \o (r \o t)
    BY <1>1, <1>2, ConcatAssoc
  <2>. QED
    BY <2>1, <2>2 DEF Uses
<1>. QED
  BY <1>1, <1>2 DEF Uses

LEMMA UsesTwo ==
  ASSUME NEW a, NEW b, NEW d, NEW e, NEW f, Uses1(a, d, e), Uses1(b, e, f)
  PROVE  Uses(<<a, b>>, d, f)
<1>1. Uses(<<a>> \o <<b>>, d, f)
  BY UsesOne, UsesBoth
<1>. QED
  BY <1>1, TwoOf

LEMMA UsesThree ==
  ASSUME NEW a, NEW b, NEW c, NEW d, NEW e, NEW f, NEW g,
         Uses1(a, d, e), Uses1(b, e, f), Uses1(c, f, g)
  PROVE  Uses(<<a, b, c>>, d, g)
<1>1. Uses(<<a, b>> \o <<c>>, d, g)
  BY UsesOne, UsesTwo, UsesBoth
<1>. QED
  BY <1>1, ThreeOf

LEMMA UsesFive ==
  ASSUME NEW a, NEW b, NEW c, NEW x, NEW y, NEW d, NEW e, NEW f,
         Uses(<<a, b>>, d, e), Uses(<<c, x, y>>, e, f)
  PROVE  Uses(<<a, b, c, x, y>>, d, f)
<1> DEFINE q == <<a, b, c, x, y>>
<1>1. IsSeq(q)
  <2>1. q \in Seq({a, b, c, x, y})
    OBVIOUS
  <2>. QED
    BY <2>1 DEF IsSeq
<1>2. ASSUME NEW t, IsSeq(t), Enough(t, f) PROVE Enough(q \o t, d)
  <2> DEFINE r == <<c, x, y>> \o t
  <2>1. IsSeq(r) /\ Enough(r, e)
    BY <1>2, TuplesAre, ConcatIs DEF Uses
  <2>2. r = On(c, On(x, On(y, t)))
    BY <1>2, OnThree
  <2>3. q \o t = On(a, On(b, On(c, On(x, On(y, t)))))
    BY <1>2, OnFive
  <2>4. q \o t = On(a, On(b, r))
    BY <2>2, <2>3
  <2> HIDE DEF r, q
  <2>5. <<a, b>> \o r = On(a, On(b, r))
    BY <2>1, OnTwo
  <2>. QED
    BY <2>1, <2>4, <2>5 DEF Uses
<1> HIDE DEF q
<1>3. Uses(q, d, f)
  BY <1>1, <1>2 DEF Uses
<1>. QED
  BY <1>3 DEF q

LEMMA UsesSix ==
  ASSUME NEW a, NEW b, NEW c, NEW x, NEW y, NEW z, NEW d, NEW e, NEW f,
         Uses(<<a, b, c>>, d, e), Uses(<<x, y, z>>, e, f)
  PROVE  Uses(<<a, b, c, x, y, z>>, d, f)
<1> DEFINE q == <<a, b, c, x, y, z>>
<1>1. IsSeq(q)
  <2>1. q \in Seq({a, b, c, x, y, z})
    OBVIOUS
  <2>. QED
    BY <2>1 DEF IsSeq
<1>2. ASSUME NEW t, IsSeq(t), Enough(t, f) PROVE Enough(q \o t, d)
  <2> DEFINE r == <<x, y, z>> \o t
  <2>1. IsSeq(r) /\ Enough(r, e)
    BY <1>2, TuplesAre, ConcatIs DEF Uses
  <2>2. r = On(x, On(y, On(z, t)))
    BY <1>2, OnThree
  <2>3. q \o t = On(a, On(b, On(c, On(x, On(y, On(z, t))))))
    BY <1>2, OnSix
  <2>4. q \o t = On(a, On(b, On(c, r)))
    BY <2>2, <2>3
  <2> HIDE DEF r, q
  <2>5. <<a, b, c>> \o r = On(a, On(b, On(c, r)))
    BY <2>1, OnThree
  <2>. QED
    BY <2>1, <2>4, <2>5 DEF Uses
<1> HIDE DEF q
<1>3. Uses(q, d, f)
  BY <1>1, <1>2 DEF Uses
<1>. QED
  BY <1>3 DEF q

LEMMA UsesTen ==
  ASSUME NEW a, NEW b, NEW c, NEW x, NEW g, NEW h, NEW k, NEW l, NEW m, NEW n, NEW d, NEW e, NEW f,
         Uses(<<a, b, c, x>>, d, e), Uses(<<g, h, k, l, m, n>>, e, f)
  PROVE  Uses(<<a, b, c, x, g, h, k, l, m, n>>, d, f)
<1> DEFINE q == <<a, b, c, x, g, h, k, l, m, n>>
           p == <<g, h, k, l, m, n>>
<1>1. IsSeq(q)
  <2>1. q \in Seq({a, b, c, x, g, h, k, l, m, n})
    OBVIOUS
  <2>. QED
    BY <2>1 DEF IsSeq
<1>2. ASSUME NEW t, IsSeq(t), Enough(t, f) PROVE Enough(q \o t, d)
  <2> DEFINE r == p \o t
  <2>1. IsSeq(r) /\ Enough(r, e)
    <3>1. Uses(p, e, f)
      OBVIOUS
    <3> HIDE DEF p
    <3>. QED
      BY <1>2, <3>1, ConcatIs DEF Uses
  <2>2. r = On(g, On(h, On(k, On(l, On(m, On(n, t))))))
    BY <1>2, OnSix
  <2>3. q \o t = On(a, On(b, On(c, On(x, On(g, On(h, On(k, On(l, On(m, On(n, t))))))))))
    BY <1>2, OnTen
  <2>4. q \o t = On(a, On(b, On(c, On(x, r))))
    BY <2>2, <2>3
  <2> HIDE DEF r, q, p
  <2>5. <<a, b, c, x>> \o r = On(a, On(b, On(c, On(x, r))))
    BY <2>1, OnFour
  <2>. QED
    BY <2>1, <2>4, <2>5 DEF Uses
<1> HIDE DEF q, p
<1>3. Uses(q, d, f)
  BY <1>1, <1>2 DEF Uses
<1>. QED
  BY <1>3 DEF q

LEMMA UsesFour ==
  ASSUME NEW a, NEW b, NEW c, NEW x, NEW d, NEW e, NEW f, Uses(<<a, b, c>>, d, e), Uses1(x, e, f)
  PROVE  Uses(<<a, b, c, x>>, d, f)
<1>1. Uses(<<a, b, c>> \o <<x>>, d, f)
  BY UsesOne, UsesBoth
<1>. QED
  BY <1>1, FourOf

(* What the calls need and gain.                                              *)
LEMMA NeedsAre ==
  ASSUME NEW d \in Nat
  PROVE  /\ \A t : Uses1(Expect(t), d, d)
         /\ \A f \in {"identifier", "unary", "primary"} : Uses1(Call(f), d, d + 1)
         /\ Uses1(Statement, d, d + 1) /\ Uses1(Expression, d, d + 1)
         /\ \A type : Uses1(Of("variable", type), d, d + 1)
         /\ \A end : Uses1(Optional(end), d, d + 1)
         /\ d >= 1 => /\ \A f \in {"program", "type", "assign", "block", "arguments"} :
                           Uses1(Call(f), d, d)
                      /\ \A f \in {"declarations", "declared"} : Uses1(Call(f), d, d - 1)
                      /\ \A f \in {"more", "initializer", "operators"} : \A w : Uses1(Of(f, w), d, d)
                      /\ \A node : Uses1(Make(node, 1), d, d)
         /\ d >= 2 => /\ \A f \in {"push_back", "else"} : Uses1(Call(f), d, d - 1)
                      /\ \A node : Uses1(Make(node, 2), d, d - 1)
         /\ d >= 3 => \A node : Uses1(Make(node, 3), d, d - 2)
         /\ d >= 4 => \A node : Uses1(Make(node, 4), d, d - 3)
<1>1. \A t : Uses1(Expect(t), d, d)
  BY DEF Uses1, Needs, Gains, Expect
<1>2. \A f \in {"identifier", "unary", "primary"} : Uses1(Call(f), d, d + 1)
  BY DEF Uses1, Needs, Gains, Call
<1>3. Uses1(Statement, d, d + 1) /\ Uses1(Expression, d, d + 1)
  BY DEF Uses1, Needs, Gains, Call, Statement, Expression
<1>4. /\ \A type : Uses1(Of("variable", type), d, d + 1)
      /\ \A end : Uses1(Optional(end), d, d + 1)
  BY DEF Uses1, Needs, Gains, Of, Optional
<1>5. ASSUME d >= 1
      PROVE  /\ \A f \in {"program", "type", "assign", "block", "arguments"} : Uses1(Call(f), d, d)
             /\ \A f \in {"declarations", "declared"} : Uses1(Call(f), d, d - 1)
             /\ \A f \in {"more", "initializer", "operators"} : \A w : Uses1(Of(f, w), d, d)
             /\ \A node : Uses1(Make(node, 1), d, d)
  <2>1. \A f \in {"program", "type", "assign", "block", "arguments"} : Uses1(Call(f), d, d)
    BY <1>5 DEF Uses1, Needs, Gains, Call
  <2>2. \A f \in {"declarations", "declared"} : Uses1(Call(f), d, d - 1)
    BY <1>5 DEF Uses1, Needs, Gains, Call
  <2>3. \A f \in {"more", "initializer", "operators"} : \A w : Uses1(Of(f, w), d, d)
    BY <1>5 DEF Uses1, Needs, Gains, Of
  <2>4. \A node : Uses1(Make(node, 1), d, d)
    BY <1>5 DEF Uses1, Needs, Gains, Make
  <2>. QED
    BY <2>1, <2>2, <2>3, <2>4
<1>6. ASSUME d >= 2
      PROVE  /\ \A f \in {"push_back", "else"} : Uses1(Call(f), d, d - 1)
             /\ \A node : Uses1(Make(node, 2), d, d - 1)
  <2>1. \A f \in {"push_back", "else"} : Uses1(Call(f), d, d - 1)
    BY <1>6 DEF Uses1, Needs, Gains, Call
  <2>2. \A node : Uses1(Make(node, 2), d, d - 1)
    BY <1>6 DEF Uses1, Needs, Gains, Make
  <2>. QED
    BY <2>1, <2>2
<1>7. d >= 3 => \A node : Uses1(Make(node, 3), d, d - 2)
  BY DEF Uses1, Needs, Gains, Make
<1>8. d >= 4 => \A node : Uses1(Make(node, 4), d, d - 3)
  BY DEF Uses1, Needs, Gains, Make
<1>. QED
  BY <1>1, <1>2, <1>3, <1>4, <1>5, <1>6, <1>7, <1>8

(* The third invariant: there are the nodes on built that the calls take.       *)
Supplied == IsSeq(built) /\ IsSeq(calls) /\ Enough(calls, Len(built))

LEMMA NeedsMet ==
  ASSUME Supplied, calls # <<>>
  PROVE  /\ Len(built) \in Nat /\ IsSeq(built) /\ Needs(Head(calls)) \in Nat
         /\ Needs(Head(calls)) <= Len(built)
BY EnoughFirst DEF Supplied

LEMMA StepSupplies ==
  ASSUME Supplied, calls # <<>>, NEW todo, Instead(todo), IsSeq(built'),
         Uses(todo, Len(built'), Len(built) + Gains(Head(calls)))
  PROVE  Supplied'
<1>1. IsSeq(Tail(calls)) /\ Enough(Tail(calls), Len(built) + Gains(Head(calls)))
  BY StackIs, EnoughFirst DEF Supplied
<1>2. IsSeq(todo) /\ IsSeq(todo \o Tail(calls))
  BY <1>1, ConcatIs DEF Uses
<1>3. Enough(todo \o Tail(calls), Len(built'))
  BY <1>1 DEF Uses
<1>. QED
  BY <1>2, <1>3 DEF Supplied, Instead

(* Nothing is pushed, and one node is.                                         *)
LEMMA SameSupplies ==
  ASSUME Supplied, calls # <<>>, NEW todo, Instead(todo), built' = built,
         Uses(todo, Len(built), Len(built) + Gains(Head(calls)))
  PROVE  Supplied'
BY StepSupplies DEF Supplied

LEMMA PushSupplies ==
  ASSUME Supplied, calls # <<>>, NEW todo, Instead(todo), NEW node, built' = <<node>> \o built,
         Uses(todo, Len(built) + 1, Len(built) + Gains(Head(calls)))
  PROVE  Supplied'
<1>1. IsSeq(built') /\ Len(built') = Len(built) + 1
  BY Pushed DEF Supplied
<1>. QED
  BY <1>1, StepSupplies

LEMMA ThrowSupplies ==
  ASSUME NEW why, Throws(why)
  PROVE  Supplied'
BY EmptyIsSeq, EnoughNone DEF Throws, Supplied

(* What is on the stack where the last calls make a node of the others.         *)
LEMMA NeedsNext ==
  ASSUME NEW d \in Nat
  PROVE  /\ Uses1(Call("else"), d + 2, d + 1)
         /\ \A node : /\ Uses1(Make(node, 1), d + 1, d + 1)
                      /\ Uses1(Make(node, 2), d + 2, d + 1)
                      /\ Uses1(Make(node, 4), d + 4, d + 1)
         /\ Uses1(Statement, d + 1, d + 2) /\ Uses1(Expression, d + 1, d + 2)
         /\ \A f \in {"assign", "block", "arguments"} : Uses1(Call(f), d + 1, d + 1)
         /\ \A w : Uses1(Of("operators", w), d + 1, d + 1)
         /\ \A t : Uses1(Expect(t), d + 1, d + 1) /\ Uses1(Expect(t), d + 2, d + 2)
                   /\ Uses1(Expect(t), d + 3, d + 3)
         /\ \A t : Uses1(Optional(t), d + 1, d + 2) /\ Uses1(Optional(t), d + 2, d + 3)
         /\ Uses1(Statement, d + 3, d + 4)
         /\ d >= 1 => /\ Uses1(Call("push_back"), d + 1, d)
                      /\ \A node : Uses1(Make(node, 2), d + 1, d)
         /\ d >= 2 => \A node : Uses1(Make(node, 3), d + 1, d - 1)
<1> DEFINE a == d + 1
           b == d + 2
           c == d + 3
           e == d + 4
<1>1. /\ a \in Nat /\ b \in Nat /\ c \in Nat /\ e \in Nat
      /\ a + 1 = b /\ b + 1 = c /\ c + 1 = e /\ b - 1 = a /\ a - 1 = d /\ e - 3 = a /\ a - 2 = d - 1
      /\ a >= 1 /\ b >= 2 /\ e >= 4 /\ (d >= 1 => a >= 2) /\ (d >= 2 => a >= 3)
  OBVIOUS
<1> HIDE DEF a, b, c, e
<1>2. Uses1(Call("else"), b, a) /\ \A node : Uses1(Make(node, 2), b, a)
  <2>1. /\ \A f \in {"push_back", "else"} : Uses1(Call(f), b, b - 1)
        /\ \A node : Uses1(Make(node, 2), b, b - 1)
    BY <1>1, NeedsAre
  <2>. QED
    BY <1>1, <2>1
<1>3. \A node : Uses1(Make(node, 1), a, a) /\ Uses1(Make(node, 4), e, a)
  <2>1. \A node : Uses1(Make(node, 1), a, a)
    BY <1>1, NeedsAre
  <2>2. \A node : Uses1(Make(node, 4), e, e - 3)
    BY <1>1, NeedsAre
  <2>. QED
    BY <1>1, <2>1, <2>2
<1>4. Uses1(Statement, a, b) /\ Uses1(Expression, a, b) /\ Uses1(Statement, c, e)
  <2>1. Uses1(Statement, a, a + 1) /\ Uses1(Expression, a, a + 1) /\ Uses1(Statement, c, c + 1)
    BY <1>1, NeedsAre
  <2>. QED
    BY <1>1, <2>1
<1>5. /\ \A f \in {"assign", "block", "arguments"} : Uses1(Call(f), a, a)
      /\ \A w : Uses1(Of("operators", w), a, a)
  BY <1>1, NeedsAre
<1>6. \A t : Uses1(Expect(t), a, a) /\ Uses1(Expect(t), b, b) /\ Uses1(Expect(t), c, c)
  BY <1>1, NeedsAre
<1>7. \A t : Uses1(Optional(t), a, b) /\ Uses1(Optional(t), b, c)
  <2>1. \A t : Uses1(Optional(t), a, a + 1) /\ Uses1(Optional(t), b, b + 1)
    BY <1>1, NeedsAre
  <2>. QED
    BY <1>1, <2>1
<1>8. d >= 1 => /\ Uses1(Call("push_back"), a, d)
                /\ \A node : Uses1(Make(node, 2), a, d)
  <2>1. d >= 1 => /\ \A f \in {"push_back", "else"} : Uses1(Call(f), a, a - 1)
                  /\ \A node : Uses1(Make(node, 2), a, a - 1)
    BY <1>1, NeedsAre
  <2>. QED
    BY <1>1, <2>1
<1>9. d >= 2 => \A node : Uses1(Make(node, 3), a, d - 1)
  <2>1. d >= 2 => \A node : Uses1(Make(node, 3), a, a - 2)
    BY <1>1, NeedsAre
  <2>. QED
    BY <1>1, <2>1
<1>. QED
  BY <1>2, <1>3, <1>4, <1>5, <1>6, <1>7, <1>8, <1>9 DEF a, b, c, e

LEMMA UsesOperand ==
  ASSUME NEW k \in 1 .. 7, NEW d \in Nat
  PROVE  Uses(Operand(k), d, d + 1)
<1>1. ASSUME NEW t, IsSeq(t), Enough(t, d + 1) PROVE Enough(Operand(k) \o t, d)
  <2>1. PICK f : Unfolds(k, t, f)
    BY <1>1, OperandOn
  <2> DEFINE S == {m \in Nat : k - 1 + m <= 6 => Enough(f[k - 1 + m], d + 1)}
  <2>2. 0 \in S
    <3>1. f[k - 1] = t /\ k - 1 + 0 = k - 1
      BY <2>1 DEF Unfolds
    <3>. QED
      BY <1>1, <3>1
  <2>3. ASSUME NEW m \in Nat, m \in S PROVE m + 1 \in S
    <3>1. SUFFICES ASSUME k - 1 + (m + 1) <= 6 PROVE Enough(f[k - 1 + (m + 1)], d + 1)
      OBVIOUS
    <3> DEFINE n == k - 1 + (m + 1)
    <3>2. n \in k .. 6 /\ n - 1 = k - 1 + m /\ n - 1 \in k - 1 .. 6 /\ k - 1 + m <= 6
      BY <3>1
    <3>3. Enough(f[n - 1], d + 1) /\ IsSeq(f[n - 1]) /\ f[n] = On(Level(n), f[n - 1])
      BY <2>1, <2>3, <3>2 DEF Unfolds
    <3> HIDE DEF n
    <3>4. Uses1(Level(n), d + 1, d + 1)
      BY NeedsNext DEF Level
    <3>5. Enough(f[n], d + 1)
      BY <3>3, <3>4, EnoughOn DEF Uses1
    <3>. QED
      BY <3>5 DEF n
  <2>4. \A m \in Nat : m \in S
    <3> HIDE DEF S
    <3>. QED
      BY <2>2, <2>3, Induction
  <2>5. Enough(f[6], d + 1) /\ IsSeq(f[6]) /\ Operand(k) \o t = On(Call("unary"), f[6])
    <3>1. 7 - k \in Nat /\ k - 1 + (7 - k) = 6 /\ 6 \in k - 1 .. 6
      OBVIOUS
    <3>2. 7 - k \in S
      BY <2>4, <3>1
    <3>. QED
      BY <2>1, <3>1, <3>2 DEF Unfolds
  <2>6. Uses1(Call("unary"), d, d + 1)
    BY NeedsAre
  <2>. QED
    BY <2>5, <2>6, EnoughOn DEF Uses1
<1>2. IsSeq(Operand(k))
  BY OperandIs
<1>. QED
  BY <1>1, <1>2 DEF Uses

LEMMA UsesCondition ==
  ASSUME NEW d \in Nat
  PROVE  Uses(Condition, d, d + 1)
BY NeedsAre, NeedsNext, UsesThree DEF Condition

(* The steps keep the third invariant.                                        *)

LEMMA GainsOne ==
  ASSUME Supplied, NEW f \in {"identifier", "variable", "assignment", "unary", "primary", "statement",
                              "optional"}, Due(f)
  PROVE  /\ calls # <<>> /\ Len(built) \in Nat /\ Len(built) + Gains(Head(calls)) = Len(built) + 1
<1>1. calls # <<>> /\ Gains(Head(calls)) = 1
  BY DEF Due, Gains
<1>. QED
  BY <1>1, NeedsMet
LEMMA GainsNothing ==
  ASSUME Supplied, NEW f \in {"program", "type", "more", "initializer", "assign", "operators", "block",
                              "arguments"}, Due(f)
  PROVE  /\ calls # <<>> /\ Len(built) \in Nat /\ Len(built) >= 1
         /\ Len(built) + Gains(Head(calls)) = Len(built)
<1>1. calls # <<>> /\ Gains(Head(calls)) = 0 /\ Needs(Head(calls)) = 1
  BY DEF Due, Gains, Needs
<1>. QED
  BY <1>1, NeedsMet
LEMMA LosesOne ==
  ASSUME Supplied, NEW f \in {"push_back", "declarations", "declared", "else"}, Due(f)
  PROVE  /\ calls # <<>> /\ Len(built) \in Nat /\ Len(built) >= 1
         /\ Len(built) + Gains(Head(calls)) = Len(built) - 1
         /\ f \in {"push_back", "else"} => Len(built) >= 2
<1>1. calls # <<>> /\ Gains(Head(calls)) = -1 /\ Needs(Head(calls)) >= 1
      /\ (f \in {"push_back", "else"} => Needs(Head(calls)) = 2)
  BY DEF Due, Gains, Needs
<1>2. Needs(Head(calls)) \in {1, 2}
  BY DEF Due, Needs
<1>. QED
  BY <1>1, <1>2, NeedsMet

LEMMA ExpectSupplied == ASSUME Supplied, ExpectToken PROVE Supplied'
<1>1. calls # <<>> /\ Gains(Head(calls)) = 0
  BY DEF ExpectToken, Due, Gains
<1>2. Len(built) \in Nat /\ Len(built) + Gains(Head(calls)) = Len(built)
  BY <1>1, NeedsMet
<1>3. Uses(<<>>, Len(built), Len(built) + Gains(Head(calls)))
  BY <1>2, UsesNone
<1>. QED
  BY <1>1, <1>3, SameSupplies, ThrowSupplies DEF ExpectToken, Consumes

LEMMA MakeSupplied == ASSUME Supplied, MakeNode PROVE Supplied'
<1> DEFINE n == Head(calls)[3]
           node == Head(calls)[2] \o Reverse(SubSeq(built, 1, n))
           rest == SubSeq(built, n + 1, Len(built))
<1>1. calls # <<>> /\ Gains(Head(calls)) = 1 - n /\ Needs(Head(calls)) = n
  BY DEF MakeNode, Due, Gains, Needs
<1>2. Len(built) \in Nat /\ IsSeq(built) /\ n \in Nat /\ n <= Len(built)
  BY <1>1, NeedsMet
<1>3. Instead(<<>>) /\ built' = <<node>> \o rest
  BY DEF MakeNode
<1> HIDE DEF node
<1>4. IsSeq(rest) /\ Len(rest) = Len(built) - n
  <2>1. n + 1 \in Nat \ {0} /\ n + 1 <= Len(built) + 1 /\ Len(built) <= Len(built)
        /\ Len(built) - (n + 1) + 1 = Len(built) - n
    BY <1>2
  <2>2. IsSeq(rest) /\ Len(rest) = Len(built) - (n + 1) + 1
    <3> HIDE DEF n
    <3>. QED
      BY <1>2, <2>1, SubSeqIs
  <2>. QED
    BY <2>1, <2>2
<1> HIDE DEF rest, n
<1>5. IsSeq(built') /\ Len(built') = Len(rest) + 1
  BY <1>3, <1>4, Pushed
<1>6. Len(built') = Len(built) + Gains(Head(calls)) /\ Len(built') \in Nat
  BY <1>1, <1>2, <1>4, <1>5
<1>7. Uses(<<>>, Len(built'), Len(built) + Gains(Head(calls)))
  BY <1>6, UsesNone
<1>. QED
  BY <1>1, <1>3, <1>5, <1>7, StepSupplies

LEMMA PushBackSupplied == ASSUME Supplied, PushBack PROVE Supplied'
<1> DEFINE rest == SubSeq(built, 3, Len(built))
           node == Append(built[2], built[1])
<1>1. /\ calls # <<>> /\ Len(built) \in Nat /\ Len(built) >= 2
      /\ Len(built) + Gains(Head(calls)) = Len(built) - 1
  BY LosesOne DEF PushBack
<1>2. Instead(<<>>) /\ built' = <<node>> \o rest
  BY DEF PushBack
<1> HIDE DEF node
<1>3. IsSeq(rest) /\ Len(rest) = Len(built) - 3 + 1
  <2>1. 3 \in Nat \ {0} /\ 3 <= Len(built) + 1 /\ Len(built) <= Len(built)
    BY <1>1
  <2>. QED
    BY <1>1, <2>1, SubSeqIs DEF Supplied
<1> HIDE DEF rest
<1>4. IsSeq(built') /\ Len(built') = Len(rest) + 1
  BY <1>2, <1>3, Pushed
<1>5. Len(built') = Len(built) + Gains(Head(calls)) /\ Len(built') \in Nat
  BY <1>1, <1>3, <1>4
<1>6. Uses(<<>>, Len(built'), Len(built) + Gains(Head(calls)))
  BY <1>5, UsesNone
<1>. QED
  BY <1>1, <1>2, <1>4, <1>6, StepSupplies

LEMMA InsertSupplied == ASSUME Supplied, InsertDeclarations PROVE Supplied'
<1>1. /\ calls # <<>> /\ Len(built) \in Nat /\ Len(built) >= 1
      /\ Len(built) + Gains(Head(calls)) = Len(built) - 1
  BY LosesOne DEF InsertDeclarations
<1>2. Instead(<<>>) /\ built' = Tail(built)
  BY DEF InsertDeclarations
<1>3. IsSeq(built) /\ built # <<>>
  <2>1. Len(<<>>) = 0
    OBVIOUS
  <2>. QED
    BY <1>1, <2>1 DEF Supplied
<1>4. IsSeq(built') /\ Len(built') = Len(built) - 1
  BY <1>2, <1>3, StackIs
<1>5. Uses(<<>>, Len(built'), Len(built) + Gains(Head(calls)))
  BY <1>1, <1>4, UsesNone
<1>. QED
  BY <1>1, <1>2, <1>4, <1>5, StepSupplies

LEMMA ProgramSupplied == ASSUME Supplied, ParseProgram PROVE Supplied'
<1> DEFINE d == Len(built)
<1>1. calls # <<>> /\ d \in Nat /\ d >= 1 /\ d + Gains(Head(calls)) = d
  BY GainsNothing DEF ParseProgram
<1>2. d + 1 \in Nat /\ d + 1 >= 1 /\ (d + 1) - 1 = d
  BY <1>1
<1>3. Uses(<<Call("type"), Call("declarations"), Call("program")>>, d + 1, d)
  <2> DEFINE a == d + 1
  <2> HIDE DEF a, d
  <2>1. Uses1(Call("type"), a, a) /\ Uses1(Call("declarations"), a, a - 1)
    BY <1>2, NeedsAre DEF a
  <2>2. Uses1(Call("program"), d, d) /\ a - 1 = d
    BY <1>1, <1>2, NeedsAre DEF a
  <2>3. Uses(<<Call("type"), Call("declarations"), Call("program")>>, a, d)
    BY <2>1, <2>2, UsesThree
  <2>. QED
    BY <2>3 DEF a
<1>4. Uses(<<Statement, Call("push_back"), Call("program")>>, d, d)
  <2> HIDE DEF d
  <2>1. Uses1(Statement, d, d + 1) /\ Uses1(Call("push_back"), d + 1, d) /\ Uses1(Call("program"), d, d)
    BY <1>1, NeedsAre, NeedsNext
  <2>. QED
    BY <2>1, UsesThree
<1>5. CASE Pushes(<<>>, <<Call("type"), Call("declarations"), Call("program")>>)
  BY <1>1, <1>3, <1>5, PushSupplies DEF Pushes
<1>6. CASE Calls(<<Statement, Call("push_back"), Call("program")>>)
  BY <1>1, <1>4, <1>6, SameSupplies DEF Calls
<1>7. CASE calls' = <<>> /\ built' = built
  BY <1>1, <1>7, EmptyIsSeq, EnoughNone DEF Supplied
<1>. QED
  BY <1>5, <1>6, <1>7 DEF ParseProgram

LEMMA TypeSupplied == ASSUME Supplied, ParseType PROVE Supplied'
<1> DEFINE d == Len(built)
           v == Of("variable", currentToken)
<1>1. calls # <<>> /\ d \in Nat /\ d >= 1 /\ d + Gains(Head(calls)) = d
  BY GainsNothing DEF ParseType
<1>2. Uses(<<v, Call("push_back"), Of("more", v)>>, d, d)
  <2> HIDE DEF d
  <2>0. Uses1(v, d, d + 1)
    BY <1>1, NeedsAre
  <2> HIDE DEF v
  <2>1. Uses1(Call("push_back"), d + 1, d) /\ Uses1(Of("more", v), d, d)
    BY <1>1, NeedsAre, NeedsNext
  <2>. QED
    BY <2>0, <2>1, UsesThree
<1>. QED
  BY <1>1, <1>2, SameSupplies DEF ParseType, Consumes

LEMMA DeclarationsSupplied == ASSUME Supplied, ParseDeclarations PROVE Supplied'
<1> DEFINE d == Len(built)
<1>1. calls # <<>> /\ d \in Nat /\ d >= 1 /\ d + Gains(Head(calls)) = d - 1
  BY LosesOne DEF ParseDeclarations
<1>2. Uses(<<Call("type"), Call("declarations")>>, d, d - 1) /\ Uses(<<Call("declared")>>, d, d - 1)
  <2> HIDE DEF d
  <2>1. Uses1(Call("type"), d, d) /\ Uses1(Call("declarations"), d, d - 1)
        /\ Uses1(Call("declared"), d, d - 1)
    BY <1>1, NeedsAre
  <2>. QED
    BY <2>1, UsesOne, UsesTwo
<1>. QED
  BY <1>1, <1>2, SameSupplies DEF ParseDeclarations, Consumes, Calls

LEMMA MoreSupplied == ASSUME Supplied, CallsRight, ParseMore PROVE Supplied'
<1> DEFINE d == Len(built)
           item == Head(calls)[2]
<1>1. calls # <<>> /\ d \in Nat /\ d >= 1 /\ d + Gains(Head(calls)) = d
  BY GainsNothing DEF ParseMore
<1>2. item = Expression \/ \E type : item = Of("variable", type)
  BY <1>1, HeadProper DEF Proper, ParseMore, Due
<1> HIDE DEF item
<1>3. Uses(<<item, Call("push_back"), Of("more", item)>>, d, d)
  <2> HIDE DEF d
  <2>1. Uses1(item, d, d + 1)
    BY <1>1, <1>2, NeedsAre
  <2>2. Uses1(Call("push_back"), d + 1, d) /\ Uses1(Of("more", item), d, d)
    BY <1>1, NeedsAre, NeedsNext
  <2>. QED
    BY <2>1, <2>2, UsesThree
<1>4. Uses(<<>>, d, d)
  BY <1>1, UsesNone
<1>. QED
  BY <1>1, <1>3, <1>4, SameSupplies DEF ParseMore, Consumes, Calls, item

LEMMA IdentifierSupplied == ASSUME Supplied, ParseIdentifier PROVE Supplied'
<1> DEFINE d == Len(built)
<1>1. calls # <<>> /\ d \in Nat /\ d + Gains(Head(calls)) = d + 1 /\ d + 1 \in Nat
  BY GainsOne DEF ParseIdentifier
<1>2. Uses(<<>>, d + 1, d + 1)
  BY <1>1, UsesNone
<1>3. CASE Throws("runtime_error")
  BY <1>3, ThrowSupplies
<1>4. CASE built' = <<<<"IDENTIFIER">>>> \o built /\ Instead(<<>>)
  BY <1>1, <1>2, <1>4, PushSupplies
<1>. QED
  BY <1>3, <1>4 DEF ParseIdentifier

LEMMA VariableSupplied == ASSUME Supplied, ParseVariableDecl PROVE Supplied'
<1> DEFINE d == Len(built)
<1>1. CASE Due("variable") /\ Calls(<<Call("identifier"), Of("initializer", Head(calls)[2])>>)
  <2> DEFINE w == Of("initializer", Head(calls)[2])
  <2>1. calls # <<>> /\ d \in Nat /\ d + Gains(Head(calls)) = d + 1 /\ d + 1 \in Nat /\ d + 1 >= 1
    BY <1>1, GainsOne
  <2>2. Uses(<<Call("identifier"), w>>, d, d + 1)
    <3> DEFINE a == d + 1
    <3> HIDE DEF d
    <3>1. Uses1(Call("identifier"), d, a)
      BY <2>1, NeedsAre
    <3> HIDE DEF a
    <3>2. Uses1(w, a, a)
      BY <2>1, NeedsAre DEF a
    <3> HIDE DEF w
    <3>3. Uses(<<Call("identifier"), w>>, d, a)
      BY <3>1, <3>2, UsesTwo
    <3>. QED
      BY <3>3 DEF a
  <2>. QED
    BY <1>1, <2>1, <2>2, SameSupplies DEF Calls
<1>2. CASE Due("initializer") /\ \/ Consumes(<<Expression, VariableDecl(Head(calls)[2], 2)>>)
                                 \/ Calls(<<VariableDecl(Head(calls)[2], 1)>>)
  <2>1. calls # <<>> /\ d \in Nat /\ d >= 1 /\ d + Gains(Head(calls)) = d
    BY <1>2, GainsNothing
  <2>2. \A type : /\ Uses(<<Expression, VariableDecl(type, 2)>>, d, d)
                  /\ Uses(<<VariableDecl(type, 1)>>, d, d)
    <3> HIDE DEF d
    <3>1. Uses1(Expression, d, d + 1) /\ \A type : /\ Uses1(VariableDecl(type, 2), d + 1, d)
                                                   /\ Uses1(VariableDecl(type, 1), d, d)
      BY <2>1, NeedsAre, NeedsNext DEF VariableDecl
    <3>. QED
      BY <3>1, UsesOne, UsesTwo
  <2>. QED
    BY <1>2, <2>1, <2>2, SameSupplies DEF Calls, Consumes
<1>. QED
  BY <1>1, <1>2 DEF ParseVariableDecl

LEMMA AssignmentSupplied == ASSUME Supplied, ParseAssignment PROVE Supplied'
<1> DEFINE d == Len(built)
<1>1. CASE Due("assignment") /\ Calls(Operand(1) \o <<Call("assign")>>)
  <2>1. calls # <<>> /\ d \in Nat /\ d + Gains(Head(calls)) = d + 1
    BY <1>1, GainsOne
  <2>2. Uses(Operand(1) \o <<Call("assign")>>, d, d + 1)
    <3> HIDE DEF d
    <3>1. Uses1(Call("assign"), d + 1, d + 1)
      BY <2>1, NeedsNext
    <3>2. Uses(<<Call("assign")>>, d + 1, d + 1)
      BY <3>1, UsesOne
    <3>3. Uses(Operand(1), d, d + 1)
      BY <2>1, UsesOperand
    <3>. QED
      BY <3>2, <3>3, UsesBoth
  <2>. QED
    BY <1>1, <2>1, <2>2, SameSupplies DEF Calls
<1>2. CASE Due("assign") /\ (Calls(<<>>) \/ Consumes(<<Expression, Assignment>>))
  <2>1. calls # <<>> /\ d \in Nat /\ d >= 1 /\ d + Gains(Head(calls)) = d
    BY <1>2, GainsNothing
  <2>2. Uses(<<Expression, Assignment>>, d, d) /\ Uses(<<>>, d, d)
    <3> HIDE DEF d
    <3>1. Uses1(Expression, d, d + 1) /\ Uses1(Assignment, d + 1, d)
      BY <2>1, NeedsAre, NeedsNext DEF Assignment
    <3>. QED
      BY <2>1, <3>1, UsesTwo, UsesNone
  <2>. QED
    BY <1>2, <2>1, <2>2, SameSupplies DEF Calls, Consumes
<1>. QED
  BY <1>1, <1>2, ThrowSupplies DEF ParseAssignment

LEMMA BinarySupplied == ASSUME Supplied, CallsRight, ParseBinary PROVE Supplied'
<1> DEFINE d == Len(built)
           k == Head(calls)[2]
           todo == Operand(k + 1) \o <<BinaryOp(currentToken), Of("operators", k)>>
<1>1. calls # <<>> /\ d \in Nat /\ d >= 1 /\ d + Gains(Head(calls)) = d /\ k \in 1 .. 6
  BY GainsNothing, HeadProper DEF ParseBinary, Proper, Due
<1>2. Uses(todo, d, d)
  <2> HIDE DEF d, k
  <2>1. Uses(Operand(k + 1), d, d + 1)
    <3>1. k + 1 \in 1 .. 7
      BY <1>1
    <3>. QED
      BY <1>1, <3>1, UsesOperand
  <2>2. Uses1(BinaryOp(currentToken), d + 1, d) /\ Uses1(Of("operators", k), d, d)
    BY <1>1, NeedsAre, NeedsNext DEF BinaryOp
  <2>. QED
    BY <2>1, <2>2, UsesTwo, UsesBoth
<1>3. Uses(<<>>, d, d)
  BY <1>1, UsesNone
<1>4. CASE Consumes(todo)
  BY <1>1, <1>2, <1>4, SameSupplies DEF Consumes
<1>5. CASE Calls(<<>>)
  BY <1>1, <1>3, <1>5, SameSupplies DEF Calls
<1>. QED
  BY <1>4, <1>5 DEF ParseBinary

LEMMA UnarySupplied == ASSUME Supplied, ParseUnary PROVE Supplied'
<1> DEFINE d == Len(built)
<1>1. calls # <<>> /\ d \in Nat /\ d + Gains(Head(calls)) = d + 1
  BY GainsOne DEF ParseUnary
<1>2. Uses(<<Call("unary"), UnaryOp(currentToken)>>, d, d + 1) /\ Uses(<<Call("primary")>>, d, d + 1)
  <2> HIDE DEF d
  <2>1. Uses1(Call("unary"), d, d + 1) /\ Uses1(UnaryOp(currentToken), d + 1, d + 1)
        /\ Uses1(Call("primary"), d, d + 1)
    BY <1>1, NeedsAre, NeedsNext DEF UnaryOp
  <2>. QED
    BY <2>1, UsesOne, UsesTwo
<1>. QED
  BY <1>1, <1>2, SameSupplies DEF ParseUnary, Consumes, Calls

LEMMA PrimarySupplied == ASSUME Supplied, ParsePrimary PROVE Supplied'
<1> DEFINE d == Len(built)
<1>1. calls # <<>> /\ d \in Nat /\ d + Gains(Head(calls)) = d + 1 /\ d + 1 \in Nat
  BY GainsOne DEF ParsePrimary
<1>2. Uses(<<Expression, Expect("RPAREN")>>, d, d + 1) /\ Uses(<<>>, d + 1, d + 1)
  <2> HIDE DEF d
  <2>1. Uses1(Expression, d, d + 1) /\ Uses1(Expect("RPAREN"), d + 1, d + 1)
    BY <1>1, NeedsAre, NeedsNext
  <2>. QED
    BY <1>1, <2>1, UsesTwo, UsesNone
<1>3. CASE Instead(<<>>) /\ built' = <<<<currentToken>>>> \o built
  BY <1>1, <1>2, <1>3, PushSupplies
<1>4. CASE Consumes(<<Expression, Expect("RPAREN")>>)
  BY <1>1, <1>2, <1>4, SameSupplies DEF Consumes
<1>5. CASE calls' = <<>> /\ built' = <<>>
  BY <1>5, EmptyIsSeq, EnoughNone DEF Supplied
<1>. QED
  BY <1>3, <1>4, <1>5 DEF ParsePrimary, Throws

-----------------------------------------------------------------------------
(* The calls of a statement, which leave one node more.                        *)

LEMMA StatementSupplied ==
  ASSUME Supplied, Due("statement"), NEW todo, Calls(todo),
         \A d \in Nat : Uses(todo, d, d + 1)
  PROVE  Supplied'
BY GainsOne, SameSupplies DEF Calls

LEMMA UsesStatement ==
  ASSUME NEW d \in Nat
  PROVE  /\ Uses(<<Expect("IF")>> \o Condition \o <<Statement, Call("else")>>, d, d + 1)
         /\ Uses(<<Expect("WHILE")>> \o Condition \o <<Statement, WhileStatement>>, d, d + 1)
         /\ Uses(<<Expect("DO"), Statement, Expect("WHILE")>> \o Condition
                   \o <<Expect("SEMICOLON"), DoWhileStatement>>, d, d + 1)
         /\ Uses(<<Expect("FOR"), Expect("LPAREN"),
                   Optional("SEMICOLON"), Expect("SEMICOLON"),
                   Optional("SEMICOLON"), Expect("SEMICOLON"),
                   Optional("RPAREN"), Expect("RPAREN"), Statement, ForStatement>>, d, d + 1)
         /\ Uses(<<Expect("READ"), Expect("LPAREN"), Call("identifier"), Expect("RPAREN"),
                   Expect("SEMICOLON"), ReadStatement>>, d, d + 1)
         /\ Uses(<<Expect("IDENTIFIER"), Expect("COLON"), Statement>>, d, d + 1)
         /\ Uses(<<Expression, Expect("SEMICOLON"), ExpressionStatement>>, d, d + 1)
<1>1. Uses(<<Expect("IF")>> \o Condition \o <<Statement, Call("else")>>, d, d + 1)
  <2>1. Uses(<<Expect("IF")>>, d, d)
    BY NeedsAre, UsesOne
  <2>2. Uses(Condition, d, d + 1)
    BY UsesCondition
  <2>3. Uses(<<Statement, Call("else")>>, d + 1, d + 1)
    BY NeedsNext, UsesTwo
  <2>4. Uses(<<Expect("IF")>> \o Condition, d, d + 1)
    BY <2>1, <2>2, UsesBoth
  <2>. QED
    BY <2>3, <2>4, UsesBoth
<1>2. Uses(<<Expect("WHILE")>> \o Condition \o <<Statement, WhileStatement>>, d, d + 1)
  <2>1. Uses(<<Expect("WHILE")>>, d, d)
    BY NeedsAre, UsesOne
  <2>2. Uses(Condition, d, d + 1)
    BY UsesCondition
  <2>3. Uses(<<Statement, WhileStatement>>, d + 1, d + 1)
    BY NeedsNext, UsesTwo DEF WhileStatement
  <2>4. Uses(<<Expect("WHILE")>> \o Condition, d, d + 1)
    BY <2>1, <2>2, UsesBoth
  <2>. QED
    BY <2>3, <2>4, UsesBoth
<1>3. Uses(<<Expect("DO"), Statement, Expect("WHILE")>> \o Condition
             \o <<Expect("SEMICOLON"), DoWhileStatement>>, d, d + 1)
  <2> DEFINE a == d + 1
             b == d + 2
  <2>0. a \in Nat /\ a + 1 = b
    OBVIOUS
  <2>1. Uses(<<Expect("DO"), Statement, Expect("WHILE")>>, d, a)
    BY NeedsAre, NeedsNext, UsesThree
  <2>3. Uses(<<Expect("SEMICOLON"), DoWhileStatement>>, b, a)
    BY NeedsNext, UsesTwo DEF DoWhileStatement
  <2> HIDE DEF a, b
  <2>2. Uses(Condition, a, b)
    <3>1. Uses(Condition, a, a + 1)
      BY <2>0, UsesCondition
    <3>. QED
      BY <2>0, <3>1
  <2>4. Uses(<<Expect("DO"), Statement, Expect("WHILE")>> \o Condition, d, b)
    BY <2>1, <2>2, UsesBoth
  <2>5. Uses(<<Expect("DO"), Statement, Expect("WHILE")>> \o Condition
               \o <<Expect("SEMICOLON"), DoWhileStatement>>, d, a)
    BY <2>3, <2>4, UsesBoth
  <2>. QED
    BY <2>5 DEF a
<1>4. Uses(<<Expect("FOR"), Expect("LPAREN"),
             Optional("SEMICOLON"), Expect("SEMICOLON"),
             Optional("SEMICOLON"), Expect("SEMICOLON"),
             Optional("RPAREN"), Expect("RPAREN"), Statement, ForStatement>>, d, d + 1)
  <2>1. Uses(<<Expect("FOR"), Expect("LPAREN"), Optional("SEMICOLON")>>, d, d + 1)
    BY NeedsAre, UsesThree
  <2>2. Uses(<<Expect("FOR"), Expect("LPAREN"), Optional("SEMICOLON"), Expect("SEMICOLON")>>, d, d + 1)
    BY <2>1, NeedsNext, UsesFour
  <2>3. Uses(<<Optional("SEMICOLON"), Expect("SEMICOLON"), Optional("RPAREN")>>, d + 1, d + 3)
    BY NeedsNext, UsesThree
  <2>4. Uses(<<Expect("RPAREN"), Statement, ForStatement>>, d + 3, d + 1)
    BY NeedsNext, UsesThree DEF ForStatement
  <2>5. Uses(<<Optional("SEMICOLON"), Expect("SEMICOLON"), Optional("RPAREN"),
               Expect("RPAREN"), Statement, ForStatement>>, d + 1, d + 1)
    BY <2>3, <2>4, UsesSix
  <2>. QED
    BY <2>2, <2>5, UsesTen
<1>5. Uses(<<Expect("READ"), Expect("LPAREN"), Call("identifier"), Expect("RPAREN"),
             Expect("SEMICOLON"), ReadStatement>>, d, d + 1)
  <2>1. Uses(<<Expect("READ"), Expect("LPAREN"), Call("identifier")>>, d, d + 1)
    BY NeedsAre, UsesThree
  <2>2. Uses(<<Expect("RPAREN"), Expect("SEMICOLON"), ReadStatement>>, d + 1, d + 1)
    BY NeedsNext, UsesThree DEF ReadStatement
  <2>. QED
    BY <2>1, <2>2, UsesSix
<1>6. Uses(<<Expect("IDENTIFIER"), Expect("COLON"), Statement>>, d, d + 1)
  BY NeedsAre, UsesThree
<1>7. Uses(<<Expression, Expect("SEMICOLON"), ExpressionStatement>>, d, d + 1)
  BY NeedsAre, NeedsNext, UsesThree DEF ExpressionStatement
<1>. QED
  BY <1>1, <1>2, <1>3, <1>4, <1>5, <1>6, <1>7

LEMMA CompoundSupplied == ASSUME Supplied, ParseCompoundStatement PROVE Supplied'
<1> DEFINE d == Len(built)
<1>1. CASE /\ Due("statement")
           /\ Pushes(<<"CompoundStatement">>, <<Expect("LBRACE"), Call("block")>>)
  <2>1. calls # <<>> /\ d \in Nat /\ d + Gains(Head(calls)) = d + 1
    BY <1>1, GainsOne
  <2>2. Uses(<<Expect("LBRACE"), Call("block")>>, d + 1, d + 1)
    <3> HIDE DEF d
    <3>. QED
      BY <2>1, NeedsNext, UsesTwo
  <2>. QED
    BY <1>1, <2>1, <2>2, PushSupplies DEF Pushes
<1>2. CASE /\ Due("block")
           /\ \/ Calls(<<Expect("RBRACE")>>)
              \/ Calls(<<Statement, Call("push_back"), Call("block")>>)
  <2>1. calls # <<>> /\ d \in Nat /\ d >= 1 /\ d + Gains(Head(calls)) = d
    BY <1>2, GainsNothing
  <2>2. Uses(<<Expect("RBRACE")>>, d, d) /\ Uses(<<Statement, Call("push_back"), Call("block")>>, d, d)
    <3> HIDE DEF d
    <3>1. Uses1(Statement, d, d + 1) /\ Uses1(Call("push_back"), d + 1, d) /\ Uses1(Call("block"), d, d)
          /\ Uses1(Expect("RBRACE"), d, d)
      BY <2>1, NeedsAre, NeedsNext
    <3>. QED
      BY <3>1, UsesOne, UsesThree
  <2>. QED
    BY <1>2, <2>1, <2>2, SameSupplies DEF Calls
<1>. QED
  BY <1>1, <1>2 DEF ParseCompoundStatement, Case

LEMMA IfSupplied == ASSUME Supplied, ParseIfStatement PROVE Supplied'
<1> DEFINE d == Len(built)
<1>1. CASE Due("statement") /\ Calls(<<Expect("IF")>> \o Condition \o <<Statement, Call("else")>>)
  BY <1>1, UsesStatement, StatementSupplied
<1>2. CASE Due("else") /\ (Consumes(<<Statement, IfStatement(3)>>) \/ Calls(<<IfStatement(2)>>))
  <2>1. calls # <<>> /\ d \in Nat /\ d >= 2 /\ d + Gains(Head(calls)) = d - 1
    BY <1>2, LosesOne
  <2>2. Uses(<<Statement, IfStatement(3)>>, d, d - 1) /\ Uses(<<IfStatement(2)>>, d, d - 1)
    <3> HIDE DEF d
    <3>1. Uses1(Statement, d, d + 1) /\ Uses1(IfStatement(3), d + 1, d - 1)
          /\ Uses1(IfStatement(2), d, d - 1)
      BY <2>1, NeedsAre, NeedsNext DEF IfStatement
    <3>. QED
      BY <3>1, UsesOne, UsesTwo
  <2>. QED
    BY <1>2, <2>1, <2>2, SameSupplies DEF Calls, Consumes
<1>. QED
  BY <1>1, <1>2 DEF ParseIfStatement, Case

LEMMA ForSupplied == ASSUME Supplied, ParseForStatement PROVE Supplied'
<1> DEFINE d == Len(built)
           todo == <<Expect("FOR"), Expect("LPAREN"),
                     Optional("SEMICOLON"), Expect("SEMICOLON"),
                     Optional("SEMICOLON"), Expect("SEMICOLON"),
                     Optional("RPAREN"), Expect("RPAREN"), Statement, ForStatement>>
<1>0. \A n \in Nat : Uses(todo, n, n + 1)
  BY UsesStatement
<1>1. CASE Due("statement") /\ Calls(todo)
  <2> HIDE DEF todo
  <2>. QED
    BY <1>0, <1>1, StatementSupplied
<1>2. CASE Due("optional") /\ (Pushes(<<"nullptr">>, <<>>) \/ Calls(<<Expression>>))
  <2>1. calls # <<>> /\ d \in Nat /\ d + Gains(Head(calls)) = d + 1 /\ d + 1 \in Nat
    BY <1>2, GainsOne
  <2>2. Uses(<<>>, d + 1, d + 1) /\ Uses(<<Expression>>, d, d + 1)
    BY <2>1, NeedsAre, UsesNone, UsesOne
  <2>. QED
    BY <1>2, <2>1, <2>2, SameSupplies, PushSupplies DEF Calls, Pushes
<1>3. \/ Due("statement") /\ Calls(todo)
      \/ Due("optional") /\ (Pushes(<<"nullptr">>, <<>>) \/ Calls(<<Expression>>))
  BY DEF ParseForStatement, Case
<1>. QED
  BY <1>1, <1>2, <1>3

LEMMA OthersSupplied ==
  ASSUME Supplied,
         \/ ParseWhileStatement \/ ParseDoWhileStatement \/ ParseReadStatement
         \/ ParseLabeledStatement \/ ParseExpressionStatement
  PROVE  Supplied'
<1>1. CASE ParseWhileStatement
  BY <1>1, UsesStatement, StatementSupplied DEF ParseWhileStatement, Case
<1>2. CASE ParseDoWhileStatement
  BY <1>2, UsesStatement, StatementSupplied DEF ParseDoWhileStatement, Case
<1>3. CASE ParseReadStatement
  <2> DEFINE todo == <<Expect("READ"), Expect("LPAREN"), Call("identifier"), Expect("RPAREN"),
                       Expect("SEMICOLON"), ReadStatement>>
  <2>1. Due("statement") /\ Calls(todo)
    BY <1>3 DEF ParseReadStatement, Case
  <2>2. \A n \in Nat : Uses(todo, n, n + 1)
    BY UsesStatement
  <2> HIDE DEF todo
  <2>. QED
    BY <2>1, <2>2, StatementSupplied
<1>4. CASE ParseLabeledStatement
  BY <1>4, UsesStatement, StatementSupplied DEF ParseLabeledStatement, Case
<1>5. CASE ParseExpressionStatement
  BY <1>5, UsesStatement, StatementSupplied DEF ParseExpressionStatement
<1>. QED
  BY <1>1, <1>2, <1>3, <1>4, <1>5

LEMMA WriteSupplied == ASSUME Supplied, ParseWriteStatement PROVE Supplied'
<1> DEFINE d == Len(built)
           todo == <<Expect("WRITE"), Expect("LPAREN"), Call("arguments"), Expect("RPAREN"),
                     Expect("SEMICOLON")>>
<1>1. Due("statement") /\ Pushes(<<"WriteStatement">>, todo)
  BY DEF ParseWriteStatement, Case
<1>2. calls # <<>> /\ d \in Nat /\ d + Gains(Head(calls)) = d + 1
  BY <1>1, GainsOne
<1>3. Uses(todo, d + 1, d + 1)
  <2> HIDE DEF d
  <2>1. /\ \A t : Uses1(Expect(t), d + 1, d + 1)
        /\ Uses1(Call("arguments"), d + 1, d + 1)
    BY <1>2, NeedsNext
  <2>2. Uses(<<Expect("WRITE"), Expect("LPAREN")>>, d + 1, d + 1)
    BY <2>1, UsesTwo
  <2>3. Uses(<<Call("arguments"), Expect("RPAREN"), Expect("SEMICOLON")>>, d + 1, d + 1)
    BY <2>1, UsesThree
  <2>. QED
    BY <2>2, <2>3, UsesFive
<1> HIDE DEF todo
<1>. QED
  BY <1>1, <1>2, <1>3, PushSupplies DEF Pushes

LEMMA ArgumentsSupplied == ASSUME Supplied, ParseExpressionList PROVE Supplied'
<1> DEFINE d == Len(built)
           m == Of("more", Expression)
<1>1. calls # <<>> /\ d \in Nat /\ d >= 1 /\ d + Gains(Head(calls)) = d
  BY GainsNothing DEF ParseExpressionList
<1>2. Uses(<<>>, d, d) /\ Uses(<<Expression, Call("push_back"), m>>, d, d)
  <2> HIDE DEF d
  <2>1. Uses1(Expression, d, d + 1) /\ Uses1(Call("push_back"), d + 1, d) /\ Uses1(m, d, d)
    BY <1>1, NeedsAre, NeedsNext
  <2> HIDE DEF m
  <2>. QED
    BY <1>1, <2>1, UsesNone, UsesThree
<1>. QED
  BY <1>1, <1>2, SameSupplies DEF ParseExpressionList, Calls

LEMMA NextSupplied == ASSUME Supplied, CallsRight, Next PROVE Supplied'
<1>1. CASE ExpectToken \/ MakeNode \/ PushBack
  BY <1>1, ExpectSupplied, MakeSupplied, PushBackSupplied
<1>2. CASE Parse
  BY <1>2, ProgramSupplied, TypeSupplied, DeclarationsSupplied, InsertSupplied, MoreSupplied,
     IdentifierSupplied, VariableSupplied
  DEF Parse
<1>3. CASE ParseStatement
  BY <1>3, CompoundSupplied, IfSupplied, ForSupplied, OthersSupplied, WriteSupplied, ArgumentsSupplied
  DEF ParseStatement
<1>4. CASE ParseExpression
  BY <1>4, AssignmentSupplied, BinarySupplied, UnarySupplied, PrimarySupplied DEF ParseExpression
<1>. QED
  BY <1>1, <1>2, <1>3, <1>4 DEF Next

LEMMA InitSupplied == ASSUME Init PROVE Supplied
<1>1. /\ calls = <<Expect("PROGRAM"), Call("program")>> \o <<>> /\ IsSeq(calls)
      /\ built = <<<<"Program">>>> /\ IsSeq(built) /\ Len(built) = 1
  <2>1. calls = <<Expect("PROGRAM"), Call("program")>> /\ built = <<<<"Program">>>>
    BY DEF Init
  <2>2. IsSeq(calls) /\ IsSeq(built) /\ Len(built) = 1
    BY <2>1, TuplesAre, OneIsSeq
  <2>3. calls = calls \o <<>>
    BY <2>2, ConcatEmpty
  <2>. QED
    BY <2>1, <2>2, <2>3
<1>2. Uses(<<Expect("PROGRAM"), Call("program")>>, 1, 1)
  BY NeedsAre, UsesTwo
<1>3. Enough(<<Expect("PROGRAM"), Call("program")>> \o <<>>, 1)
  BY <1>2, EmptyIsSeq, EnoughNone DEF Uses
<1>. QED
  BY <1>1, <1>3 DEF Supplied

(* The parser stays on its way, whatever it does.                              *)

LEMMA LeadsSimply ==
  ASSUME NEW s, NEW todo, NEW j, NEW u, Leads(s, todo, j, u),
         NEW f \in {"make", "push_back", "declared", "program", "type", "declarations", "more",
                    "identifier", "variable", "initializer", "assignment", "unary", "block", "else",
                    "optional", "arguments", "statement"},
         Due(f)
  PROVE  /\ u = "other" /\ Flagged(u) /\ MoveSimply(s, Head(calls), Position, todo, j)
         /\ Head(calls)[1] = f
<1>1. PICK p : Moves(s, Head(calls), Position, p, todo, j, u)
  BY DEF Leads
<1>2. Head(calls)[1] = f /\ f \notin {"expect", "assign", "operators", "primary"}
  BY DEF Due
<1>. QED
  BY <1>1, <1>2 DEF Moves, Flagged

LEMMA ExpectHope ==
  ASSUME NEW s, OnTheSpot(s), OnItsWay(s), ExpectToken, Continues(s, Considered')
  PROVE  Hopeful(s)'
<1>1. s[Position + 1] = currentToken /\ Head(calls)[1] = "expect"
  BY Seen DEF OnTheSpot, ExpectToken, Due
<1>2. PICK todo, j, u : Leads(s, todo, j, u)
  BY SomewhereLeads
<1>3. PICK p : Flagged(p) /\ Moves(s, Head(calls), Position, p, todo, j, u)
  BY <1>2 DEF Leads
<1>4. MoveExpect(s, Head(calls)[2], Position, p, todo, j, u)
  BY <1>1, <1>3 DEF Moves, MoveSimply
<1>5. currentToken = Head(calls)[2] /\ todo = <<>> /\ j = Position + 1 /\ Flagged(u)
  BY <1>1, <1>3, <1>4 DEF MoveExpect
<1>6. Consumes(todo)
  BY <1>5 DEF ExpectToken
<1>. QED
  BY <1>2, <1>5, <1>6, ConsumesHope

LEMMA BuildingHope ==
  ASSUME NEW s, OnTheSpot(s), OnItsWay(s), MakeNode \/ PushBack \/ InsertDeclarations
  PROVE  Hopeful(s)'
<1>1. PICK todo, j, u : Leads(s, todo, j, u)
  BY SomewhereLeads
<1>2. PICK f \in {"make", "push_back", "declared"} : Due(f)
  BY DEF MakeNode, PushBack, InsertDeclarations
<1>3. u = "other" /\ MoveSimply(s, Head(calls), Position, todo, j) /\ Head(calls)[1] = f
  BY <1>1, <1>2, LeadsSimply
<1>4. todo = <<>> /\ j = Position
  BY <1>2, <1>3 DEF MoveSimply
<1>5. Instead(todo) /\ outcome' = outcome /\ input' = input
  BY <1>4 DEF MakeNode, PushBack, InsertDeclarations
<1>. QED
  BY <1>1, <1>3, <1>4, <1>5, OtherHope

LEMMA ProgramHope ==
  ASSUME NEW s, OnTheSpot(s), OnItsWay(s), ParseProgram
  PROVE  Hopeful(s)'
<1>1. s[Position + 1] = currentToken /\ Due("program")
  BY Seen DEF OnTheSpot, ParseProgram
<1>2. PICK todo, j, u : Leads(s, todo, j, u)
  BY SomewhereLeads
<1>3. u = "other" /\ Flagged(u) /\ MoveSimply(s, Head(calls), Position, todo, j)
      /\ Head(calls)[1] = "program"
  BY <1>1, <1>2, LeadsSimply
<1>4. MoveProgram(s, Position, todo, j)
  BY <1>3 DEF MoveSimply
<1>5. CASE currentToken \in Types
  <2>1. todo = <<Call("type"), Call("declarations"), Call("program")>> /\ j = Position
    BY <1>1, <1>4, <1>5 DEF MoveProgram, Types, END
  <2>2. Pushes(<<>>, todo)
    BY <1>5, <2>1 DEF ParseProgram, Types, END
  <2>. QED
    BY <1>2, <1>3, <2>1, <2>2, OtherHope DEF Pushes
<1>6. CASE currentToken \notin Types \cup {END}
  <2>1. todo = <<Statement, Call("push_back"), Call("program")>> /\ j = Position
    BY <1>1, <1>4, <1>6 DEF MoveProgram
  <2>2. Calls(todo)
    BY <1>6, <2>1 DEF ParseProgram
  <2>. QED
    BY <1>2, <1>3, <2>1, <2>2, CallsHope
<1>7. CASE currentToken = END
  <2>1. outcome' = "parsed"
    BY <1>7 DEF ParseProgram, Types, END
  <2>. QED
    BY <2>1 DEF Hopeful
<1>. QED
  BY <1>5, <1>6, <1>7

LEMMA TypeHope ==
  ASSUME NEW s, OnTheSpot(s), OnItsWay(s), ParseType, Continues(s, Considered')
  PROVE  Hopeful(s)'
<1>1. s[Position + 1] = currentToken /\ Due("type")
  BY Seen DEF OnTheSpot, ParseType
<1>2. PICK todo, j, u : Leads(s, todo, j, u)
  BY SomewhereLeads
<1>3. u = "other" /\ Flagged(u) /\ MoveSimply(s, Head(calls), Position, todo, j)
      /\ Head(calls)[1] = "type"
  BY <1>1, <1>2, LeadsSimply
<1>4. MoveType(s, Position, todo, j)
  BY <1>3 DEF MoveSimply
<1>5. Consumes(todo) /\ j = Position + 1
  BY <1>1, <1>4 DEF MoveType, ParseType
<1>. QED
  BY <1>2, <1>3, <1>5, ConsumesHope

LEMMA DeclarationsHope ==
  ASSUME NEW s, OnTheSpot(s), OnItsWay(s), ParseDeclarations, Continues(s, Considered')
  PROVE  Hopeful(s)'
<1>1. s[Position + 1] = currentToken /\ Due("declarations")
  BY Seen DEF OnTheSpot, ParseDeclarations
<1>2. PICK todo, j, u : Leads(s, todo, j, u)
  BY SomewhereLeads
<1>3. u = "other" /\ Flagged(u) /\ MoveSimply(s, Head(calls), Position, todo, j)
      /\ Head(calls)[1] = "declarations"
  BY <1>1, <1>2, LeadsSimply
<1>4. MoveDeclarations(s, Position, todo, j)
  BY <1>3 DEF MoveSimply
<1>5. CASE currentToken = "SEMICOLON"
  <2>1. s[Position + 2] = peekToken
    <3>1. NextToken /\ vocabulary' = vocabulary /\ InputRight
      BY <1>5 DEF ParseDeclarations, Consumes, OnTheSpot
    <3>. QED
      BY <3>1, SeenNext
  <2>2. Consumes(todo) /\ j = Position + 1
    <3>1. CASE peekToken \in Types
      BY <1>1, <1>4, <1>5, <2>1, <3>1 DEF MoveDeclarations, ParseDeclarations
    <3>2. CASE peekToken \notin Types
      BY <1>1, <1>4, <1>5, <2>1, <3>2 DEF MoveDeclarations, ParseDeclarations
    <3>. QED
      BY <3>1, <3>2
  <2>. QED
    BY <1>2, <1>3, <2>2, ConsumesHope
<1>6. CASE currentToken # "SEMICOLON"
  <2>1. Calls(todo) /\ j = Position
    BY <1>1, <1>4, <1>6 DEF MoveDeclarations, ParseDeclarations
  <2>. QED
    BY <1>2, <1>3, <2>1, CallsHope
<1>. QED
  BY <1>5, <1>6

LEMMA MoreHope ==
  ASSUME NEW s, OnTheSpot(s), OnItsWay(s), ParseMore, Continues(s, Considered')
  PROVE  Hopeful(s)'
<1>1. s[Position + 1] = currentToken /\ Due("more")
  BY Seen DEF OnTheSpot, ParseMore
<1>2. PICK todo, j, u : Leads(s, todo, j, u)
  BY SomewhereLeads
<1>3. u = "other" /\ Flagged(u) /\ MoveSimply(s, Head(calls), Position, todo, j)
      /\ Head(calls)[1] = "more"
  BY <1>1, <1>2, LeadsSimply
<1>4. MoveMore(s, Head(calls)[2], Position, todo, j)
  BY <1>3 DEF MoveSimply
<1>5. CASE currentToken = "COMMA"
  <2>1. Consumes(todo) /\ j = Position + 1
    BY <1>1, <1>4, <1>5 DEF MoveMore, ParseMore
  <2>. QED
    BY <1>2, <1>3, <2>1, ConsumesHope
<1>6. CASE currentToken # "COMMA"
  <2>1. Calls(todo) /\ j = Position
    BY <1>1, <1>4, <1>6 DEF MoveMore, ParseMore
  <2>. QED
    BY <1>2, <1>3, <2>1, CallsHope
<1>. QED
  BY <1>5, <1>6

LEMMA IdentifierHope ==
  ASSUME NEW s, OnTheSpot(s), OnItsWay(s), Supplied, ParseIdentifier, Continues(s, Considered')
  PROVE  Hopeful(s)'
<1>1. s[Position + 1] = currentToken /\ Due("identifier")
  BY Seen DEF OnTheSpot, ParseIdentifier
<1>2. PICK todo, j, u : Leads(s, todo, j, u)
  BY SomewhereLeads
<1>3. u = "other" /\ Flagged(u) /\ MoveSimply(s, Head(calls), Position, todo, j)
      /\ Head(calls)[1] = "identifier"
  BY <1>1, <1>2, LeadsSimply
<1>4. currentToken = "IDENTIFIER" /\ todo = <<>> /\ j = Position + 1
  BY <1>1, <1>3 DEF MoveSimply
<1>5. TokenPushes(<<"IDENTIFIER">>)
  BY <1>4 DEF ParseIdentifier, TokenPushes
<1>6. Leads(s, <<>>, j, u) /\ IsSeq(built)
  BY <1>2, <1>4 DEF Supplied
<1>. QED
  BY <1>3, <1>4, <1>5, <1>6, LeafHope

LEMMA VariableHope ==
  ASSUME NEW s, OnTheSpot(s), OnItsWay(s), ParseVariableDecl, Continues(s, Considered')
  PROVE  Hopeful(s)'
<1>1. s[Position + 1] = currentToken
  BY Seen DEF OnTheSpot
<1>2. PICK todo, j, u : Leads(s, todo, j, u)
  BY SomewhereLeads
<1>3. CASE Due("variable") /\ Calls(<<Call("identifier"), Of("initializer", Head(calls)[2])>>)
  <2>1. Flagged(u) /\ MoveSimply(s, Head(calls), Position, todo, j) /\ Head(calls)[1] = "variable"
    BY <1>2, <1>3, LeadsSimply
  <2>2. Calls(todo) /\ j = Position
    BY <1>3, <2>1 DEF MoveSimply
  <2>. QED
    BY <1>2, <2>1, <2>2, CallsHope
<1>4. CASE Due("initializer") /\ currentToken = "ASSIGN"
           /\ Consumes(<<Expression, VariableDecl(Head(calls)[2], 2)>>)
  <2>1. Flagged(u) /\ MoveSimply(s, Head(calls), Position, todo, j) /\ Head(calls)[1] = "initializer"
    BY <1>2, <1>4, LeadsSimply
  <2>2. MoveInitializer(s, Head(calls)[2], Position, todo, j)
    BY <2>1 DEF MoveSimply
  <2>3. Consumes(todo) /\ j = Position + 1
    BY <1>1, <1>4, <2>2 DEF MoveInitializer
  <2>. QED
    BY <1>2, <2>1, <2>3, ConsumesHope
<1>5. CASE Due("initializer") /\ currentToken # "ASSIGN"
           /\ Calls(<<VariableDecl(Head(calls)[2], 1)>>)
  <2>1. Flagged(u) /\ MoveSimply(s, Head(calls), Position, todo, j) /\ Head(calls)[1] = "initializer"
    BY <1>2, <1>5, LeadsSimply
  <2>2. MoveInitializer(s, Head(calls)[2], Position, todo, j)
    BY <2>1 DEF MoveSimply
  <2>3. Calls(todo) /\ j = Position
    BY <1>1, <1>5, <2>2 DEF MoveInitializer
  <2>. QED
    BY <1>2, <2>1, <2>3, CallsHope
<1>. QED
  BY <1>3, <1>4, <1>5 DEF ParseVariableDecl

LEMMA AssignmentHope ==
  ASSUME NEW s, OnTheSpot(s), OnItsWay(s), ParseAssignment, Continues(s, Considered')
  PROVE  Hopeful(s)'
<1>1. s[Position + 1] = currentToken
  BY Seen DEF OnTheSpot
<1>2. PICK todo, j, u : Leads(s, todo, j, u)
  BY SomewhereLeads
<1>3. CASE Due("assignment") /\ Calls(Operand(1) \o <<Call("assign")>>)
  <2>1. Flagged(u) /\ MoveSimply(s, Head(calls), Position, todo, j) /\ Head(calls)[1] = "assignment"
    BY <1>2, <1>3, LeadsSimply
  <2>2. Calls(todo) /\ j = Position
    BY <1>3, <2>1 DEF MoveSimply
  <2>. QED
    BY <1>2, <2>1, <2>2, CallsHope
<1>4. CASE Due("assign") /\ ~(Due("assignment") /\ Calls(Operand(1) \o <<Call("assign")>>))
  <2>1. PICK p : Flagged(p) /\ Moves(s, Head(calls), Position, p, todo, j, u)
    BY <1>2 DEF Leads
  <2>2. MoveAssign(s, Position, p, todo, j, u)
    BY <1>4, <2>1 DEF Moves, MoveSimply, Due
  <2>3. CASE currentToken # "ASSIGN"
    <3>1. todo = <<>> /\ j = Position /\ Flagged(u)
      BY <1>1, <2>1, <2>2, <2>3 DEF MoveAssign
    <3>2. Calls(todo)
      BY <1>4, <2>3, <3>1 DEF ParseAssignment
    <3>. QED
      BY <1>2, <3>1, <3>2, CallsHope
  <2>4. CASE currentToken = "ASSIGN"
    <3>1. p = "name" /\ todo = <<Expression, Assignment>> /\ j = Position + 1 /\ u = "other"
      BY <1>1, <2>2, <2>4 DEF MoveAssign
    <3>2. Head(built)[1] \in Names /\ Flagged(u)
      BY <2>1, <3>1 DEF Flagged
    <3>3. Consumes(todo)
      BY <1>4, <2>4, <3>1, <3>2 DEF ParseAssignment
    <3>. QED
      BY <1>2, <3>1, <3>2, <3>3, ConsumesHope
  <2>. QED
    BY <2>3, <2>4
<1>. QED
  BY <1>3, <1>4 DEF ParseAssignment

LEMMA BinaryHope ==
  ASSUME NEW s, OnTheSpot(s), OnItsWay(s), ParseBinary, Continues(s, Considered')
  PROVE  Hopeful(s)'
<1>1. s[Position + 1] = currentToken /\ Head(calls)[1] = "operators"
  BY Seen DEF OnTheSpot, ParseBinary, Due
<1>2. PICK todo, j, u : Leads(s, todo, j, u)
  BY SomewhereLeads
<1>3. PICK p : Flagged(p) /\ Moves(s, Head(calls), Position, p, todo, j, u)
  BY <1>2 DEF Leads
<1>4. MoveOperators(s, Head(calls)[2], Position, p, todo, j, u)
  BY <1>1, <1>3 DEF Moves, MoveSimply
<1>5. CASE currentToken \notin Levels[Head(calls)[2]]
  <2>1. todo = <<>> /\ j = Position /\ Flagged(u)
    BY <1>1, <1>3, <1>4, <1>5 DEF MoveOperators
  <2>2. Calls(todo)
    BY <1>5, <2>1 DEF ParseBinary
  <2>. QED
    BY <1>2, <2>1, <2>2, CallsHope
<1>6. CASE currentToken \in Levels[Head(calls)[2]]
  <2>1. /\ todo = Operand(Head(calls)[2] + 1)
                    \o <<BinaryOp(currentToken), Of("operators", Head(calls)[2])>>
        /\ j = Position + 1 /\ Flagged(u)
    BY <1>1, <1>3, <1>4, <1>6 DEF MoveOperators, Flagged
  <2>2. Consumes(todo)
    BY <1>6, <2>1 DEF ParseBinary
  <2>. QED
    BY <1>2, <2>1, <2>2, ConsumesHope
<1>. QED
  BY <1>5, <1>6

LEMMA UnaryHope ==
  ASSUME NEW s, OnTheSpot(s), OnItsWay(s), ParseUnary, Continues(s, Considered')
  PROVE  Hopeful(s)'
<1>1. s[Position + 1] = currentToken /\ Due("unary")
  BY Seen DEF OnTheSpot, ParseUnary
<1>2. PICK todo, j, u : Leads(s, todo, j, u)
  BY SomewhereLeads
<1>3. Flagged(u) /\ MoveSimply(s, Head(calls), Position, todo, j) /\ Head(calls)[1] = "unary"
  BY <1>1, <1>2, LeadsSimply
<1>4. MoveUnary(s, Position, todo, j)
  BY <1>3 DEF MoveSimply
<1>5. CASE currentToken \in Unary
  <2>1. Consumes(todo) /\ j = Position + 1
    BY <1>1, <1>4, <1>5 DEF MoveUnary, ParseUnary
  <2>. QED
    BY <1>2, <1>3, <2>1, ConsumesHope
<1>6. CASE currentToken \notin Unary
  <2>1. Calls(todo) /\ j = Position
    BY <1>1, <1>4, <1>6 DEF MoveUnary, ParseUnary
  <2>. QED
    BY <1>2, <1>3, <2>1, CallsHope
<1>. QED
  BY <1>5, <1>6

LEMMA PrimaryHope ==
  ASSUME NEW s, OnTheSpot(s), OnItsWay(s), Supplied, ParsePrimary, Continues(s, Considered')
  PROVE  Hopeful(s)'
<1>1. s[Position + 1] = currentToken /\ Head(calls)[1] = "primary"
  BY Seen DEF OnTheSpot, ParsePrimary, Due
<1>2. PICK todo, j, u : Leads(s, todo, j, u)
  BY SomewhereLeads
<1>3. PICK p : Flagged(p) /\ Moves(s, Head(calls), Position, p, todo, j, u)
  BY <1>2 DEF Leads
<1>4. MovePrimary(s, Position, todo, j, u)
  BY <1>1, <1>3 DEF Moves, MoveSimply
<1>5. j = Position + 1
  BY <1>4 DEF MovePrimary
<1>6. /\ "LPAREN" \notin Literals \cup Names /\ TooLarge \notin Literals \cup Names /\ TooLarge # "LPAREN"
      /\ Literals \cap Names = {}
  BY DEF Literals, Names, TooLarge
<1>7. CASE currentToken \in Literals \cup Names
  <2>1. todo = <<>> /\ (u = "other" \/ (u = "name" /\ currentToken \in Names))
    BY <1>1, <1>4, <1>6, <1>7 DEF MovePrimary
  <2>2. TokenPushes(<<currentToken>>)
    BY <1>6, <1>7 DEF ParsePrimary, TokenPushes, Throws
  <2>3. Leads(s, <<>>, j, u) /\ IsSeq(built) /\ <<currentToken>>[1] = currentToken
    BY <1>2, <2>1 DEF Supplied
  <2> DEFINE node == <<currentToken>>
  <2>4. TokenPushes(node) /\ (u = "other" \/ (u = "name" /\ node[1] \in Names))
    BY <2>1, <2>2, <2>3
  <2> HIDE DEF node
  <2>. QED
    BY <1>5, <2>3, <2>4, LeafHope
<1>8. CASE currentToken = "LPAREN"
  <2>1. todo = <<Expression, Expect("RPAREN")>> /\ Flagged(u)
    BY <1>1, <1>4, <1>6, <1>8 DEF MovePrimary, Flagged
  <2>2. Consumes(todo)
    BY <1>6, <1>8, <2>1 DEF ParsePrimary
  <2>. QED
    BY <1>2, <1>5, <2>1, <2>2, ConsumesHope
<1>9. currentToken \in Literals \cup Names \cup {"LPAREN"}
  BY <1>1, <1>4 DEF MovePrimary
<1>. QED
  BY <1>7, <1>8, <1>9

-----------------------------------------------------------------------------
(* Where the lookahead is not that of the script, the name comes next.           *)

LEMMA OnlyDue ==
  ASSUME Next, calls # <<>>
  PROVE  /\ Head(calls)[1] = "expect" => ExpectToken
         /\ Head(calls)[1] = "assignment" => ParseAssignment
         /\ Head(calls)[1] = "unary" => ParseUnary
         /\ Head(calls)[1] = "primary" => ParsePrimary
<1>1. Parse => Head(calls)[1] \notin {"expect", "assignment", "unary", "primary"}
  BY DEF Parse, ParseProgram, ParseType, ParseDeclarations, InsertDeclarations, ParseMore,
         ParseIdentifier, ParseVariableDecl, Due
<1>2. ParseStatement => Head(calls)[1] \notin {"expect", "assignment", "unary", "primary"}
  BY DEF ParseStatement, ParseCompoundStatement, ParseIfStatement, ParseWhileStatement,
         ParseDoWhileStatement, ParseForStatement, ParseReadStatement, ParseWriteStatement,
         ParseExpressionList, ParseLabeledStatement, ParseExpressionStatement, Case, Due
<1>3. MakeNode \/ PushBack => Head(calls)[1] \notin {"expect", "assignment", "unary", "primary"}
  BY DEF MakeNode, PushBack, Due
<1>4. /\ ExpectToken => Head(calls)[1] = "expect"
      /\ ParseAssignment => Head(calls)[1] \in {"assignment", "assign"}
      /\ ParseBinary => Head(calls)[1] = "operators"
      /\ ParseUnary => Head(calls)[1] = "unary"
      /\ ParsePrimary => Head(calls)[1] = "primary"
  BY DEF ExpectToken, ParseAssignment, ParseBinary, ParseUnary, ParsePrimary, Due
<1>. QED
  BY <1>1, <1>2, <1>3, <1>4 DEF Next, ParseExpression

LEMMA StuckOn ==
  ASSUME NEW s, OnTheSpot(s), s[Position + 2] # peekToken, currentToken = "IDENTIFIER",
         NEW todo, Calls(todo), NEW h, NEW rest, IsSeq(rest), todo \o Tail(calls) = On(h, rest),
         h \in {Expect("IDENTIFIER"), Expression, Call("unary"), Call("primary")}
  PROVE  Hopeful(s)'
<1>1. /\ Position' = Position /\ peekToken' = peekToken /\ currentToken' = currentToken
      /\ outcome' = "parsing" /\ calls' = On(h, rest)
  BY DEF Calls, Instead, Position, peekToken, currentToken, OnTheSpot
<1>2. calls' # <<>> /\ Head(calls') = h
  BY <1>1, OnIs
<1>3. Stuck(s)'
  BY <1>1, <1>2 DEF Stuck
<1>. QED
  BY <1>1, <1>3 DEF Hopeful

LEMMA StuckHope ==
  ASSUME NEW s, OnTheSpot(s), Stuck(s), Next, Continues(s, Considered')
  PROVE  Hopeful(s)'
<1>1. calls # <<>> /\ currentToken = "IDENTIFIER" /\ s[Position + 2] # peekToken
  BY DEF Stuck
<1>2. InputRight /\ IsSeq(Tail(calls)) /\ IsSeq(calls)
  BY <1>1, StackIs DEF OnTheSpot, CallsRight, Todo
<1>3. ~(NextToken /\ vocabulary' = vocabulary)
  BY <1>1, <1>2, SeenNext
<1>4. CASE Head(calls) = Expect("IDENTIFIER")
  <2>1. Head(calls)[1] = "expect" /\ Head(calls)[2] = "IDENTIFIER"
    BY <1>4 DEF Expect
  <2>2. Consumes(<<>>)
    BY <1>1, <2>1, OnlyDue DEF ExpectToken
  <2>. QED
    BY <1>3, <2>2 DEF Consumes
<1>5. CASE Head(calls) = Expression
  <2>1. Head(calls)[1] = "assignment"
    BY <1>5 DEF Expression, Call
  <2>2. Calls(Operand(1) \o <<Call("assign")>>)
    BY <1>1, <2>1, OnlyDue DEF ParseAssignment, Due
  <2> DEFINE last == <<Call("assign")>>
             t == last \o Tail(calls)
             p == Operand(1)
  <2>3. IsSeq(last) /\ IsSeq(t) /\ IsSeq(p)
    <3>1. 1 \in 1 .. 7
      OBVIOUS
    <3>2. IsSeq(last)
      BY OneIsSeq
    <3> HIDE DEF last
    <3>. QED
      BY <1>2, <3>1, <3>2, ConcatIs, OperandIs
  <2>4. PICK f : Unfolds(1, t, f)
    <3>1. 1 \in 1 .. 7
      OBVIOUS
    <3> HIDE DEF t
    <3>. QED
      BY <2>3, <3>1, OperandOn
  <2>5. p \o t = On(Call("unary"), f[6]) /\ IsSeq(f[6])
    <3>1. 6 \in 1 - 1 .. 6
      OBVIOUS
    <3> HIDE DEF t
    <3>. QED
      BY <2>4, <3>1 DEF Unfolds
  <2>6. (p \o last) \o Tail(calls) = p \o t
    <3> DEFINE w == Tail(calls)
    <3>1. IsSeq(w)
      BY <1>2
    <3> HIDE DEF p, last, w
    <3>2. (p \o last) \o w = p \o (last \o w)
      BY <2>3, <3>1, ConcatAssoc
    <3>. QED
      BY <3>2 DEF w
  <2>7. Calls(p \o last)
    BY <2>2
  <2> HIDE DEF p, last, t
  <2>. QED
    BY <1>1, <2>5, <2>6, <2>7, StuckOn
<1>6. CASE Head(calls) = Call("unary")
  <2>1. Head(calls)[1] = "unary"
    BY <1>6 DEF Call
  <2>2. Calls(<<Call("primary")>>)
    BY <1>1, <2>1, OnlyDue DEF ParseUnary, Unary
  <2>3. <<Call("primary")>> \o Tail(calls) = On(Call("primary"), Tail(calls))
    BY OnOne
  <2>. QED
    BY <1>1, <1>2, <2>2, <2>3, StuckOn
<1>7. CASE Head(calls) = Call("primary")
  <2>1. Head(calls)[1] = "primary"
    BY <1>7 DEF Call
  <2>2. NextToken /\ vocabulary' = vocabulary
    BY <1>1, <2>1, OnlyDue DEF ParsePrimary, Literals, Names, TooLarge, Consumes
  <2>. QED
    BY <1>3, <2>2
<1>. QED
  BY <1>4, <1>5, <1>6, <1>7 DEF Stuck

(* What a statement begins with.                                               *)
LEMMA StatementLeads ==
  ASSUME NEW s, OnTheSpot(s), OnItsWay(s), Due("statement")
  PROVE  /\ s[Position + 1] = currentToken
         /\ \E todo, j, u : /\ Leads(s, todo, j, u) /\ u = "other" /\ Flagged(u) /\ j = Position
                            /\ MoveStatement(s, Position, todo, j)
<1>1. s[Position + 1] = currentToken
  BY Seen DEF OnTheSpot
<1>2. PICK todo, j, u : Leads(s, todo, j, u)
  BY SomewhereLeads
<1>3. u = "other" /\ Flagged(u) /\ MoveSimply(s, Head(calls), Position, todo, j)
      /\ Head(calls)[1] = "statement"
  BY <1>2, LeadsSimply
<1>4. MoveStatement(s, Position, todo, j)
  BY <1>3 DEF MoveSimply
<1>5. j = Position
  BY <1>4 DEF MoveStatement
<1>. QED
  BY <1>1, <1>2, <1>3, <1>4, <1>5

LEMMA CompoundHope ==
  ASSUME NEW s, OnTheSpot(s), OnItsWay(s), ParseCompoundStatement
  PROVE  Hopeful(s)'
<1>1. CASE Case("LBRACE") /\ Pushes(<<"CompoundStatement">>, <<Expect("LBRACE"), Call("block")>>)
  <2>1. Due("statement") /\ currentToken = "LBRACE"
    BY <1>1 DEF Case
  <2>2. PICK todo, j, u : /\ Leads(s, todo, j, u) /\ u = "other" /\ j = Position
                          /\ MoveStatement(s, Position, todo, j)
    BY <2>1, StatementLeads
  <2>3. todo = <<Expect("LBRACE"), Call("block")>>
    BY <2>1, <2>2, StatementLeads DEF MoveStatement, Keywords
  <2>4. Instead(todo) /\ outcome' = outcome /\ input' = input
    BY <1>1, <2>3 DEF Pushes
  <2>. QED
    BY <2>2, <2>4, OtherHope
<1>2. CASE Due("block") /\ IF currentToken = "RBRACE" THEN Calls(<<Expect("RBRACE")>>)
                           ELSE Calls(<<Statement, Call("push_back"), Call("block")>>)
  <2>1. s[Position + 1] = currentToken
    BY Seen DEF OnTheSpot
  <2>2. PICK todo, j, u : Leads(s, todo, j, u)
    BY SomewhereLeads
  <2>3. Flagged(u) /\ MoveSimply(s, Head(calls), Position, todo, j) /\ Head(calls)[1] = "block"
    BY <1>2, <2>2, LeadsSimply
  <2>4. MoveBlock(s, Position, todo, j)
    BY <2>3 DEF MoveSimply
  <2>5. Calls(todo) /\ j = Position
    BY <1>2, <2>1, <2>4 DEF MoveBlock
  <2>. QED
    BY <2>2, <2>3, <2>5, CallsHope
<1>. QED
  BY <1>1, <1>2 DEF ParseCompoundStatement

LEMMA KeywordHope ==
  ASSUME NEW s, OnTheSpot(s), OnItsWay(s), NEW t \in Keywords \ {"LBRACE", "WRITE"}, Case(t),
         NEW do, Calls(do),
         \A todo, j : s[Position + 1] = t /\ MoveStatement(s, Position, todo, j) => todo = do
  PROVE  Hopeful(s)'
<1>1. Due("statement") /\ currentToken = t
  BY DEF Case
<1>2. PICK todo, j, u : /\ Leads(s, todo, j, u) /\ Flagged(u) /\ j = Position
                        /\ MoveStatement(s, Position, todo, j)
  BY <1>1, StatementLeads
<1>3. s[Position + 1] = t
  BY <1>1, StatementLeads
<1>4. todo = do
  BY <1>2, <1>3
<1>. QED
  BY <1>2, <1>4, CallsHope

LEMMA IfHope ==
  ASSUME NEW s, OnTheSpot(s), OnItsWay(s), ParseIfStatement, Continues(s, Considered')
  PROVE  Hopeful(s)'
<1>1. CASE Case("IF") /\ Calls(<<Expect("IF")>> \o Condition \o <<Statement, Call("else")>>)
  <2>1. \A todo, j : s[Position + 1] = "IF" /\ MoveStatement(s, Position, todo, j)
          => todo = <<Expect("IF")>> \o Condition \o <<Statement, Call("else")>>
    BY DEF MoveStatement, Keywords
  <2>2. "IF" \in Keywords \ {"LBRACE", "WRITE"}
    BY DEF Keywords
  <2>. QED
    BY <1>1, <2>1, <2>2, KeywordHope
<1>2. CASE Due("else") /\ IF currentToken = "ELSE" THEN Consumes(<<Statement, IfStatement(3)>>)
                          ELSE Calls(<<IfStatement(2)>>)
  <2>1. s[Position + 1] = currentToken
    BY Seen DEF OnTheSpot
  <2>2. PICK todo, j, u : Leads(s, todo, j, u)
    BY SomewhereLeads
  <2>3. Flagged(u) /\ MoveSimply(s, Head(calls), Position, todo, j) /\ Head(calls)[1] = "else"
    BY <1>2, <2>2, LeadsSimply
  <2>4. MoveElse(s, Position, todo, j)
    BY <2>3 DEF MoveSimply
  <2>5. CASE currentToken = "ELSE"
    <3>1. Consumes(todo) /\ j = Position + 1
      BY <1>2, <2>1, <2>4, <2>5 DEF MoveElse
    <3>. QED
      BY <2>2, <2>3, <3>1, ConsumesHope
  <2>6. CASE currentToken # "ELSE"
    <3>1. Calls(todo) /\ j = Position
      BY <1>2, <2>1, <2>4, <2>6 DEF MoveElse
    <3>. QED
      BY <2>2, <2>3, <3>1, CallsHope
  <2>. QED
    BY <2>5, <2>6
<1>. QED
  BY <1>1, <1>2 DEF ParseIfStatement

LEMMA LoopHope ==
  ASSUME NEW s, OnTheSpot(s), OnItsWay(s),
         ParseWhileStatement \/ ParseDoWhileStatement \/ ParseReadStatement
  PROVE  Hopeful(s)'
<1>1. CASE ParseWhileStatement
  <2> DEFINE do == <<Expect("WHILE")>> \o Condition \o <<Statement, WhileStatement>>
  <2>1. \A todo, j : s[Position + 1] = "WHILE" /\ MoveStatement(s, Position, todo, j) => todo = do
    BY DEF MoveStatement, Keywords
  <2>2. "WHILE" \in Keywords \ {"LBRACE", "WRITE"} /\ Case("WHILE") /\ Calls(do)
    BY <1>1 DEF Keywords, ParseWhileStatement
  <2> HIDE DEF do
  <2>. QED
    BY <2>1, <2>2, KeywordHope
<1>2. CASE ParseDoWhileStatement
  <2> DEFINE do == <<Expect("DO"), Statement, Expect("WHILE")>> \o Condition
                     \o <<Expect("SEMICOLON"), DoWhileStatement>>
  <2>1. \A todo, j : s[Position + 1] = "DO" /\ MoveStatement(s, Position, todo, j) => todo = do
    BY DEF MoveStatement, Keywords
  <2>2. "DO" \in Keywords \ {"LBRACE", "WRITE"} /\ Case("DO") /\ Calls(do)
    BY <1>2 DEF Keywords, ParseDoWhileStatement
  <2> HIDE DEF do
  <2>. QED
    BY <2>1, <2>2, KeywordHope
<1>3. CASE ParseReadStatement
  <2> DEFINE do == <<Expect("READ"), Expect("LPAREN"), Call("identifier"), Expect("RPAREN"),
                     Expect("SEMICOLON"), ReadStatement>>
  <2>1. \A todo, j : s[Position + 1] = "READ" /\ MoveStatement(s, Position, todo, j) => todo = do
    BY DEF MoveStatement, Keywords
  <2>2. "READ" \in Keywords \ {"LBRACE", "WRITE"} /\ Case("READ") /\ Calls(do)
    BY <1>3 DEF Keywords, ParseReadStatement
  <2> HIDE DEF do
  <2>. QED
    BY <2>1, <2>2, KeywordHope
<1>. QED
  BY <1>1, <1>2, <1>3

LEMMA ForHope ==
  ASSUME NEW s, OnTheSpot(s), OnItsWay(s), ParseForStatement
  PROVE  Hopeful(s)'
<1> DEFINE do == <<Expect("FOR"), Expect("LPAREN"),
                   Optional("SEMICOLON"), Expect("SEMICOLON"),
                   Optional("SEMICOLON"), Expect("SEMICOLON"),
                   Optional("RPAREN"), Expect("RPAREN"), Statement, ForStatement>>
<1>1. CASE Case("FOR") /\ Calls(do)
  <2>1. \A todo, j : s[Position + 1] = "FOR" /\ MoveStatement(s, Position, todo, j) => todo = do
    BY DEF MoveStatement, Keywords
  <2>2. "FOR" \in Keywords \ {"LBRACE", "WRITE"}
    BY DEF Keywords
  <2> HIDE DEF do
  <2>. QED
    BY <1>1, <2>1, <2>2, KeywordHope
<1>2. CASE Due("optional") /\ IF currentToken = Head(calls)[2] THEN Pushes(<<"nullptr">>, <<>>)
                              ELSE Calls(<<Expression>>)
  <2>1. s[Position + 1] = currentToken
    BY Seen DEF OnTheSpot
  <2>2. PICK todo, j, u : Leads(s, todo, j, u)
    BY SomewhereLeads
  <2>3. u = "other" /\ MoveSimply(s, Head(calls), Position, todo, j) /\ Head(calls)[1] = "optional"
    BY <1>2, <2>2, LeadsSimply
  <2>4. MoveOptional(s, Head(calls)[2], Position, todo, j)
    BY <2>3 DEF MoveSimply
  <2>5. Instead(todo) /\ outcome' = outcome /\ input' = input /\ j = Position
    BY <1>2, <2>1, <2>4 DEF MoveOptional, Pushes, Calls
  <2>. QED
    BY <2>2, <2>3, <2>5, OtherHope
<1>. QED
  BY <1>1, <1>2 DEF ParseForStatement

LEMMA WriteHope ==
  ASSUME NEW s, OnTheSpot(s), OnItsWay(s), ParseWriteStatement
  PROVE  Hopeful(s)'
<1> DEFINE do == <<Expect("WRITE"), Expect("LPAREN"), Call("arguments"), Expect("RPAREN"),
                   Expect("SEMICOLON")>>
<1>1. Due("statement") /\ currentToken = "WRITE" /\ Pushes(<<"WriteStatement">>, do)
  BY DEF ParseWriteStatement, Case
<1>2. PICK todo, j, u : /\ Leads(s, todo, j, u) /\ u = "other" /\ j = Position
                        /\ MoveStatement(s, Position, todo, j)
  BY <1>1, StatementLeads
<1>3. s[Position + 1] = "WRITE"
  BY <1>1, StatementLeads
<1>4. todo = do
  BY <1>2, <1>3 DEF MoveStatement, Keywords
<1>5. Instead(todo) /\ outcome' = outcome /\ input' = input
  BY <1>1, <1>4 DEF Pushes
<1>. QED
  BY <1>2, <1>5, OtherHope

LEMMA ArgumentsHope ==
  ASSUME NEW s, OnTheSpot(s), OnItsWay(s), ParseExpressionList
  PROVE  Hopeful(s)'
<1>1. s[Position + 1] = currentToken /\ Due("arguments")
  BY Seen DEF OnTheSpot, ParseExpressionList
<1>2. PICK todo, j, u : Leads(s, todo, j, u)
  BY SomewhereLeads
<1>3. Flagged(u) /\ MoveSimply(s, Head(calls), Position, todo, j) /\ Head(calls)[1] = "arguments"
  BY <1>1, <1>2, LeadsSimply
<1>4. MoveArguments(s, Position, todo, j)
  BY <1>3 DEF MoveSimply
<1>5. Calls(todo) /\ j = Position
  BY <1>1, <1>4 DEF MoveArguments, ParseExpressionList
<1>. QED
  BY <1>2, <1>3, <1>5, CallsHope

(* A label, or none, by a lookahead that may be another than that of the script. *)
LEMMA NameHope ==
  ASSUME NEW s, OnTheSpot(s), OnItsWay(s), ParseLabeledStatement \/ ParseExpressionStatement
  PROVE  Hopeful(s)'
<1>1. Due("statement")
  BY DEF ParseLabeledStatement, ParseExpressionStatement, Case
<1>2. s[Position + 1] = currentToken
  BY <1>1, StatementLeads
<1>3. PICK todo, j, u : /\ Leads(s, todo, j, u) /\ Flagged(u) /\ j = Position
                        /\ MoveStatement(s, Position, todo, j)
  BY <1>1, StatementLeads
<1>4. calls # <<>> /\ IsSeq(Tail(calls))
  BY StackIs DEF OnTheSpot, CallsRight, Todo
<1> DEFINE label == <<Expect("IDENTIFIER"), Expect("COLON"), Statement>>
           plain == <<Expression, Expect("SEMICOLON"), ExpressionStatement>>
<1>5. \/ currentToken = "IDENTIFIER" /\ peekToken = "COLON" /\ Calls(label)
      \/ /\ currentToken \notin Keywords /\ ~(currentToken = "IDENTIFIER" /\ peekToken = "COLON")
         /\ Calls(plain)
  BY DEF ParseLabeledStatement, ParseExpressionStatement, Case, Labelled
<1>6. "IDENTIFIER" \notin Keywords
  BY DEF Keywords
<1>7. CASE currentToken # "IDENTIFIER" \/ s[Position + 2] = peekToken
  <2>1. \/ /\ s[Position + 1] = "IDENTIFIER" /\ s[Position + 2] = "COLON" /\ Calls(label)
        \/ /\ s[Position + 1] \notin Keywords
           /\ ~(s[Position + 1] = "IDENTIFIER" /\ s[Position + 2] = "COLON")
           /\ Calls(plain)
    BY <1>2, <1>5, <1>7
  <2>2. Calls(todo)
    BY <1>3, <1>6, <2>1 DEF MoveStatement, Keywords
  <2>. QED
    BY <1>3, <2>2, CallsHope
<1>8. CASE currentToken = "IDENTIFIER" /\ s[Position + 2] # peekToken
  <2> DEFINE w == Tail(calls)
  <2>1. \A a, b, c : <<a, b, c>> \o w = On(a, On(b, On(c, w))) /\ IsSeq(On(b, On(c, w)))
    <3>1. IsSeq(w)
      BY <1>4
    <3> HIDE DEF w
    <3>2. \A c : IsSeq(On(c, w))
      BY <3>1, OnIs
    <3>3. \A b, c : IsSeq(On(b, On(c, w)))
      BY <3>2, OnIs
    <3>. QED
      BY <3>1, <3>3, OnThree
  <2>2. CASE Calls(label)
    <3>1. label \o w = On(Expect("IDENTIFIER"), On(Expect("COLON"), On(Statement, w)))
          /\ IsSeq(On(Expect("COLON"), On(Statement, w)))
      BY <2>1
    <3>. QED
      BY <1>8, <2>2, <3>1, StuckOn
  <2>3. CASE Calls(plain)
    <3>1. plain \o w = On(Expression, On(Expect("SEMICOLON"), On(ExpressionStatement, w)))
          /\ IsSeq(On(Expect("SEMICOLON"), On(ExpressionStatement, w)))
      BY <2>1
    <3>. QED
      BY <1>8, <2>3, <3>1, StuckOn
  <2>. QED
    BY <1>5, <2>2, <2>3
<1>. QED
  BY <1>7, <1>8

LEMMA NextHope ==
  ASSUME NEW s, OnTheSpot(s), Supplied, Next, Continues(s, Considered'), Stuck(s) \/ OnItsWay(s)
  PROVE  Hopeful(s)'
<1>1. CASE Stuck(s)
  BY <1>1, StuckHope
<1>2. CASE OnItsWay(s)
  <2>1. CASE ExpectToken \/ MakeNode \/ PushBack
    BY <1>2, <2>1, ExpectHope, BuildingHope
  <2>2. CASE Parse
    BY <1>2, <2>2, ProgramHope, TypeHope, DeclarationsHope, BuildingHope, MoreHope, IdentifierHope,
       VariableHope
    DEF Parse
  <2>3. CASE ParseStatement
    BY <1>2, <2>3, CompoundHope, IfHope, LoopHope, ForHope, WriteHope, ArgumentsHope, NameHope
    DEF ParseStatement
  <2>4. CASE ParseExpression
    BY <1>2, <2>4, AssignmentHope, BinaryHope, UnaryHope, PrimaryHope DEF ParseExpression
  <2>. QED
    BY <2>1, <2>2, <2>3, <2>4 DEF Next
<1>. QED
  BY <1>1, <1>2

-----------------------------------------------------------------------------
(* Every sentence is a script.                                                *)
Script(r) == [n \in Nat |-> IF n \in 1 .. Len(r.tokens) THEN r.tokens[n] ELSE END]

LEMMA SentenceIs ==
  ASSUME NEW v \in Vocabularies, NEW r \in Sentences[v]
  PROVE  \E m \in 0 .. v.most : r \in Possible(v, "program", m) /\ IsMade(v, r, m)
<1>1. PICK m \in 0 .. v.most : r \in Table(v)[v.most][m]["program"]
  BY DEF Sentences
<1>2. v.most \in 0 .. v.most /\ "program" \in Symbols
  BY MostNat, SymbolNames DEF Own
<1>3. Table(v)[v.most][m] = Table(v)[m][m]
  BY <1>2, RowKept
<1>4. r \in Possible(v, "program", m)
  BY <1>1, <1>3 DEF Possible
<1>5. Typed(v, m)
  BY PossibleMade
<1>. QED
  BY <1>2, <1>4, <1>5 DEF Typed

LEMMA SentenceScripted ==
  ASSUME NEW r, vocabulary \in Vocabularies, r \in Sentences[vocabulary]
  PROVE  /\ Scripted(Script(r)) /\ IsSeq(r.tokens)
         /\ \A n \in 1 .. Len(r.tokens) : Script(r)[n] = r.tokens[n] /\ r.tokens[n] # END
         /\ \A n \in Nat : n \notin 1 .. Len(r.tokens) => Script(r)[n] = END
<1> DEFINE v == vocabulary
           s == Script(r)
<1>1. PICK m \in 0 .. v.most : r \in Possible(v, "program", m) /\ IsMade(v, r, m)
  BY SentenceIs
<1>2. r.tokens \in Seq(v.tokens) /\ Len(r.tokens) = m /\ m \in Nat /\ m <= v.most /\ v.most \in Nat
  BY <1>1, MostNat DEF IsMade
<1>3. /\ r.tokens = [n \in 1 .. m |-> r.tokens[n]] /\ \A n \in 1 .. m : r.tokens[n] \in v.tokens
      /\ IsSeq(r.tokens)
  BY <1>2 DEF IsSeq
<1>4. /\ s = [n \in Nat |-> IF n \in 1 .. m THEN r.tokens[n] ELSE END]
      /\ \A n \in 1 .. m : n \in Nat
  BY <1>2 DEF Script
<1>5. END \notin v.tokens
  BY VocabularyAssumption
<1>6. s \in Streams(v)
  <2>1. \A n \in Nat : s[n] \in v.tokens \cup {END}
    BY <1>3, <1>4
  <2>2. \A n \in Nat : n > v.most => n \notin 1 .. m
    BY <1>2
  <2>3. s \in [Nat -> v.tokens \cup {END}]
    BY <1>4, <2>1
  <2>. QED
    BY <1>4, <2>2, <2>3 DEF Streams
<1>7. r.tokens = Slice(s, 0, m)
  <2>1. \A n \in 1 .. m : s[0 + n] = r.tokens[n]
    BY <1>4
  <2>2. m - 0 = m
    BY <1>2
  <2>3. Slice(s, 0, m) = [n \in 1 .. m |-> s[0 + n]]
    BY <2>2 DEF Slice
  <2>. QED
    BY <1>3, <2>1, <2>3
<1>8. Span(v, s, "program", 0, m)
  <2>1. m - 0 = m /\ 0 \in Nat /\ 0 <= m
    BY <1>2
  <2>. QED
    BY <1>1, <1>2, <1>7, <2>1 DEF Span
<1>9. s[m + 1] = END
  <2>1. m + 1 \in Nat /\ m + 1 \notin 1 .. m
    BY <1>2
  <2>. QED
    BY <1>4, <2>1
<1>. QED
  BY <1>2, <1>3, <1>4, <1>5, <1>6, <1>8, <1>9 DEF Scripted

-----------------------------------------------------------------------------
(* The second invariant is inductive.                                          *)

LEMMA HopeBegins ==
  ASSUME Init
  PROVE  Hoped
<1>1. vocabulary \in Vocabularies
  BY InitPromises DEF ParserInv, InputRight
<1>2. calls = <<Expect("PROGRAM"), Call("program")>> /\ outcome = "parsing" /\ Len(input) = 2
  BY TuplesAre DEF Init
<1>3. Position = 0
  BY <1>2 DEF Position
<1>4. ASSUME NEW s, Scripted(s) PROVE OnItsWay(s)
  <2>1. PICK j : Span(vocabulary, s, "program", 0, j) /\ s[j + 1] = END
    BY <1>4 DEF Scripted
  <2>2. Accepted(s, <<Expect("PROGRAM"), Call("program")>>, 0)
    BY <1>1, <2>1, SentenceAccepted
  <2>3. Accepts(s, calls, Position, "other")
    BY <1>2, <1>3, <2>2 DEF Accepted
  <2>. QED
    BY <2>3 DEF OnItsWay, Flagged
<1>. QED
  BY <1>2, <1>4 DEF Hoped, Hopeful

LEMMA StepRight ==
  ASSUME InputRight, CallsRight, Next
  PROVE  /\ calls # <<>> /\ outcome = "parsing" /\ vocabulary' = vocabulary
         /\ (input' = input \/ NextToken)
BY NextGoes DEF CallsRight, Goes, Follows, Returns, Fails, Due

LEMMA HopeKept ==
  ASSUME ParserInv, Supplied, Hoped, Next
  PROVE  Hoped'
<1>1. InputRight /\ CallsRight
  BY DEF ParserInv
<1>2. /\ calls # <<>> /\ outcome = "parsing" /\ vocabulary' = vocabulary
      /\ (input' = input \/ NextToken)
  BY <1>1, StepRight
<1>3. ASSUME NEW s, Scripted(s)', Continues(s, Considered') PROVE Hopeful(s)'
  <2>1. Continues(s, Considered)
    <3>1. CASE input' = input
      BY <1>3, <3>1 DEF Considered
    <3>2. CASE NextToken
      BY <1>1, <1>2, <1>3, <3>2, SeenNext
    <3>. QED
      BY <1>2, <3>1, <3>2
  <2>2. Scripted(s)
    BY <1>2, <1>3 DEF Scripted
  <2>3. Stuck(s) \/ OnItsWay(s)
    BY <1>2, <2>1, <2>2 DEF Hoped, Hopeful
  <2>4. OnTheSpot(s)
    BY <1>1, <1>2, <2>1 DEF OnTheSpot
  <2>. QED
    BY <1>3, <2>3, <2>4, NextHope
<1>. QED
  BY <1>3 DEF Hoped, Continues

LEMMA HopeStutters ==
  ASSUME Supplied, Hoped, UNCHANGED vars
  PROVE  Supplied' /\ Hoped'
<1>1. Supplied'
  BY DEF Supplied, vars
<1>2. /\ vocabulary' = vocabulary /\ calls' = calls /\ outcome' = outcome /\ Position' = Position
      /\ currentToken' = currentToken /\ peekToken' = peekToken /\ Considered' = Considered
      /\ built' = built
  BY DEF vars, Position, currentToken, peekToken, Considered
<1>3. ASSUME NEW s, Scripted(s)', Continues(s, Considered)' PROVE Hopeful(s)'
  <2>1. Scripted(s) /\ Continues(s, Considered)
    BY <1>2, <1>3 DEF Scripted, Continues
  <2>2. Hopeful(s)
    BY <2>1 DEF Hoped
  <2>. QED
    BY <1>2, <2>2 DEF Hopeful, Stuck, OnItsWay, Flagged
<1>. QED
  BY <1>1, <1>3 DEF Hoped

(* What the parser has looked at, at the end of the script and before.          *)
LEMMA ReadContinues ==
  ASSUME InputRight, NEW r \in Sentences[vocabulary], Last(Considered) = END, Read = r.tokens
  PROVE  Continues(Script(r), Considered)
<1>1. /\ IsSeq(r.tokens)
      /\ \A n \in 1 .. Len(r.tokens) : Script(r)[n] = r.tokens[n] /\ r.tokens[n] # END
      /\ \A n \in Nat : n \notin 1 .. Len(r.tokens) => Script(r)[n] = END
  BY SentenceScripted DEF InputRight
<1>2. DOMAIN r.tokens = 1 .. Len(r.tokens)
  BY <1>1, SeqIs
<1>3. DOMAIN input = 1 .. Len(input)
  BY SeqIs DEF InputRight
<1>4. Read = [n \in {m \in DOMAIN input : input[m] # END} |-> input[n]]
  BY DEF Read, Restrict
<1>5. \A n \in 1 .. Len(input) : input[n] # END => n \in 1 .. Len(r.tokens) /\ r.tokens[n] = input[n]
  BY <1>2, <1>3, <1>4
<1>6. \A n \in 1 .. Len(input) : input[n] = END => n \notin 1 .. Len(r.tokens)
  BY <1>2, <1>4
<1>7. \A n \in 1 .. Len(input) : Script(r)[n] = input[n]
  <2>1. \A n \in 1 .. Len(input) : n \in Nat
    OBVIOUS
  <2>. QED
    BY <1>1, <1>5, <1>6, <2>1
<1>8. \A n \in 1 .. Len(input) - 1 : n \in 1 .. Len(input)
  BY ConsideredIs
<1>. QED
  BY <1>7, <1>8, ConsideredIs DEF Continues

LEMMA ViableContinues ==
  ASSUME InputRight, Considered \in Viable[vocabulary]
  PROVE  \E r \in Sentences[vocabulary] : Continues(Script(r), Considered)
<1>1. vocabulary \in Vocabularies
  BY DEF InputRight
<1>2. PICK r \in Sentences[vocabulary] : \E n \in 0 .. Len(r.tokens) : Considered = SubSeq(r.tokens, 1, n)
  BY <1>1 DEF Viable
<1>3. PICK n \in 0 .. Len(r.tokens) : Considered = SubSeq(r.tokens, 1, n)
  BY <1>2
<1>4. /\ IsSeq(r.tokens) /\ Len(r.tokens) \in Nat
      /\ \A m \in 1 .. Len(r.tokens) : Script(r)[m] = r.tokens[m]
  BY <1>1, SentenceScripted, SeqIs
<1>5. Len(Considered) = n /\ \A m \in 1 .. n : Considered[m] = r.tokens[m]
  BY <1>3, <1>4, SubSeqOf
<1>6. \A m \in 1 .. n : m \in 1 .. Len(r.tokens)
  BY <1>4
<1>. QED
  BY <1>4, <1>5, <1>6 DEF Continues

LEMMA HopedThrows ==
  ASSUME InputRight, Hoped
  PROVE  ThrowsOnlyAtErrors
<1>1. SUFFICES ASSUME outcome \notin {"parsing", "parsed"},
                      NEW r \in Sentences[vocabulary], Continues(Script(r), Considered)
               PROVE  FALSE
  <2>1. SUFFICES ASSUME outcome \notin {"parsing", "parsed"},
                        IF Last(Considered) = END THEN Read \in {s.tokens : s \in Sentences[vocabulary]}
                                                  ELSE Considered \in Viable[vocabulary]
                 PROVE  FALSE
    BY DEF ThrowsOnlyAtErrors
  <2>2. CASE Last(Considered) = END
    BY <1>1, <2>1, <2>2, ReadContinues
  <2>3. CASE Last(Considered) # END
    BY <1>1, <2>1, <2>3, ViableContinues
  <2>. QED
    BY <2>2, <2>3
<1>2. Scripted(Script(r))
  BY SentenceScripted DEF InputRight
<1>3. Hopeful(Script(r))
  BY <1>1, <1>2 DEF Hoped
<1>. QED
  BY <1>1, <1>3 DEF Hopeful

(* The parser throws, for a script of any length over any vocabulary, only where *)
(* what it has looked at cannot be continued to a sentence of the grammar: no   *)
(* script that is right is refused.                                          *)
THEOREM ParserThrowsOnlyAtErrors == Spec => []ThrowsOnlyAtErrors
<1> DEFINE Inv == ParserInv /\ Supplied /\ Hoped
<1>1. Init => Inv
  BY InitPromises, InitSupplied, HopeBegins
<1>2. Inv /\ [Next]_vars => Inv'
  <2>1. ASSUME Inv, Next PROVE Inv'
    <3>1. InputRight /\ CallsRight
      BY <2>1 DEF ParserInv
    <3>2. ParserInv'
      BY <2>1, <3>1, NextGoes, StepKeeps
    <3>. QED
      BY <2>1, <3>1, <3>2, NextSupplied, HopeKept
  <2>2. ASSUME Inv, UNCHANGED vars PROVE Inv'
    BY <2>2, StutteringKeeps, HopeStutters
  <2>. QED
    BY <2>1, <2>2
<1>3. Inv => ThrowsOnlyAtErrors
  BY HopedThrows DEF ParserInv
<1>. QED
  BY <1>1, <1>2, <1>3, PTL DEF Spec

=============================================================================
