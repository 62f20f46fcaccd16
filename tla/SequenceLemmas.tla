--------------------------- MODULE SequenceLemmas ---------------------------
(***************************************************************************)
(* Facts about numbers and sequences that the proofs about several modules  *)
(* need: induction over the natural numbers in a form that takes a set, and *)
(* what FlattenSeq, IsSuffix and SubSeq make of sequences of any length.    *)
(***************************************************************************)
EXTENDS Integers, SequencesExt, SequenceTheorems, WellFoundedInduction, TLAPS

(* A set of natural numbers that is not empty has a least element.           *)
LEMMA LeastNumber ==
  ASSUME NEW S \in SUBSET Nat, S # {}
  PROVE  \E x \in S : \A y \in S : x <= y
<1>1. PICK x \in S : \A y \in S : ~(<<y, x>> \in OpToRel(<, Nat))
  BY NatLessThanWellFounded, WFMin
<1>2. ASSUME NEW y \in S
      PROVE  x <= y
  <2>1. y < x => <<y, x>> \in OpToRel(<, Nat)
    <3>1. <<y, x>> \in Nat \X Nat
      OBVIOUS
    <3>2. <<y, x>>[1] = y /\ <<y, x>>[2] = x
      OBVIOUS
    <3>. QED
      BY <3>1, <3>2, Zenon DEF OpToRel
  <2>2. ~(y < x)
    BY <1>1, <2>1, Zenon
  <2>. QED
    BY <2>2
<1>. QED
  BY <1>2

(* A set of numbers that is bounded has a greatest one.                       *)
LEMMA GreatestNumber ==
  ASSUME NEW n \in Nat, NEW S \in SUBSET (0 .. n), S # {}
  PROVE  Max(S) \in S /\ \A y \in S : y <= Max(S)
<1> DEFINE R == {i \in 0 .. n : n - i \in S}
<1>1. PICK x \in R : \A y \in R : x <= y
  <2>1. PICK i \in S : TRUE
    OBVIOUS
  <2>2. n - i \in R
    BY <2>1
  <2>3. R \in SUBSET Nat
    OBVIOUS
  <2>4. R # {}
    BY <2>2
  <2> HIDE DEF R
  <2>. QED
    BY <2>3, <2>4, LeastNumber
<1>2. n - x \in S
  BY <1>1
<1>3. ASSUME NEW y \in S PROVE n - x >= y
  <2>1. n - y \in R
    OBVIOUS
  <2>2. x <= n - y
    BY <1>1, <2>1
  <2>. QED
    BY <1>1, <2>2
<1>4. \E m \in S : \A y \in S : m >= y
  BY <1>2, <1>3
<1>5. Max(S) \in S /\ \A y \in S : Max(S) >= y
  BY <1>4 DEF Max
<1>. QED
  BY <1>5

(* Induction: a set that holds 0, and n + 1 whenever it holds n.             *)
LEMMA Induction ==
  ASSUME NEW S, 0 \in S, \A n \in Nat : n \in S => n + 1 \in S
  PROVE  \A n \in Nat : n \in S
<1>1. SUFFICES ASSUME NEW n \in Nat, n \notin S PROVE FALSE
  OBVIOUS
<1>2. PICK x \in Nat \ S : \A y \in Nat \ S : x <= y
  BY <1>1, LeastNumber
<1>3. x # 0 /\ x - 1 \in Nat
  BY <1>2
<1>4. x - 1 \in S
  BY <1>2, <1>3
<1>. QED
  BY <1>2, <1>3, <1>4

-----------------------------------------------------------------------------
(* FlattenSeq.                                                               *)

(* g[i] is what the first i sequences make when written one after the other. *)
Joined(seqs, g) ==
  g = [i \in 1 .. Len(seqs) |-> IF i = 1 THEN seqs[i] ELSE g[i - 1] \o seqs[i]]

LEMMA RunningAt ==
  ASSUME NEW seqs, NEW g, Joined(seqs, g), NEW i \in 1 .. Len(seqs)
  PROVE  g[i] = IF i = 1 THEN seqs[i] ELSE g[i - 1] \o seqs[i]
BY DEF Joined

LEMMA RunningExists ==
  ASSUME NEW S, NEW seqs \in Seq(Seq(S))
  PROVE  \E g \in [1 .. Len(seqs) -> Seq(S)] : Joined(seqs, g)
<1> DEFINE Upto(n, g) ==
             \A i \in 1 .. n : g[i] = IF i = 1 THEN seqs[i] ELSE g[i - 1] \o seqs[i]
           Good(n) == n <= Len(seqs) => \E g \in [1 .. n -> Seq(S)] : Upto(n, g)
<1>1. Good(0)
  <2>1. [i \in 1 .. 0 |-> <<>>] \in [1 .. 0 -> Seq(S)]
    OBVIOUS
  <2>2. Upto(0, [i \in 1 .. 0 |-> <<>>])
    OBVIOUS
  <2> HIDE DEF Upto
  <2>. QED
    BY <2>1, <2>2
<1>2. ASSUME NEW n \in Nat, Good(n) PROVE Good(n + 1)
  <2>1. SUFFICES ASSUME n + 1 <= Len(seqs)
                 PROVE  \E g \in [1 .. n + 1 -> Seq(S)] : Upto(n + 1, g)
    OBVIOUS
  <2>2. PICK g \in [1 .. n -> Seq(S)] : Upto(n, g)
    <3>1. n <= Len(seqs)
      BY <2>1, LenProperties
    <3> HIDE DEF Upto
    <3>. QED
      BY <1>2, <3>1
  <2> DEFINE last == IF n = 0 THEN seqs[n + 1] ELSE g[n] \o seqs[n + 1]
             h == [i \in 1 .. n + 1 |-> IF i <= n THEN g[i] ELSE last]
  <2>3. seqs[n + 1] \in Seq(S)
    BY <2>1, LenProperties
  <2>4. last \in Seq(S)
    BY <2>2, <2>3, ConcatProperties
  <2>5. h \in [1 .. n + 1 -> Seq(S)]
    <3> HIDE DEF last
    <3>. QED
      BY <2>2, <2>4
  <2>6. /\ \A i \in 1 .. n : h[i] = g[i]
        /\ h[n + 1] = IF n = 0 THEN seqs[n + 1] ELSE g[n] \o seqs[n + 1]
    <3> HIDE DEF last
    <3>1. \A i \in 1 .. n + 1 : h[i] = IF i <= n THEN g[i] ELSE last
      OBVIOUS
    <3>2. n + 1 \in 1 .. n + 1 /\ ~(n + 1 <= n) /\ \A i \in 1 .. n : i \in 1 .. n + 1 /\ i <= n
      OBVIOUS
    <3> HIDE DEF h
    <3>3. h[n + 1] = last
      BY <3>1, <3>2
    <3>. QED
      BY <3>1, <3>2, <3>3 DEF last
  <2>7. Upto(n + 1, h)
    <3> HIDE DEF h, last
    <3>1. ASSUME NEW i \in 1 .. n + 1
          PROVE  h[i] = IF i = 1 THEN seqs[i] ELSE h[i - 1] \o seqs[i]
      <4>1. CASE i = n + 1
        <5>1. n # 0 => h[n] = g[n]
          BY <2>6
        <5>. QED
          BY <2>6, <4>1, <5>1
      <4>2. CASE i \in 1 .. n
        <5>1. h[i] = g[i] /\ (i # 1 => h[i - 1] = g[i - 1])
          BY <2>6, <4>2
        <5>. QED
          BY <2>2, <4>2, <5>1
      <4>. QED
        BY <4>1, <4>2
    <3>. QED
      BY <3>1
  <2>. QED
    BY <2>5, <2>7
<1>3. Good(Len(seqs))
  <2> DEFINE G == {n \in Nat : Good(n)}
  <2> HIDE DEF Good
  <2>1. 0 \in G
    BY <1>1
  <2>2. \A n \in Nat : n \in G => n + 1 \in G
    BY <1>2
  <2>3. Len(seqs) \in G
    <3> HIDE DEF G
    <3>. QED
      BY <2>1, <2>2, Induction, LenProperties
  <2>. QED
    BY <2>3
<1>4. PICK g \in [1 .. Len(seqs) -> Seq(S)] : Upto(Len(seqs), g)
  BY <1>3, LenProperties
<1>5. Joined(seqs, g)
  BY <1>4 DEF Joined
<1>. QED
  BY <1>5

LEMMA RunningUnique ==
  ASSUME NEW S, NEW seqs \in Seq(Seq(S)), NEW g, NEW h, Joined(seqs, g), Joined(seqs, h)
  PROVE  g = h
<1> DEFINE G == {n \in Nat : n \in 1 .. Len(seqs) => g[n] = h[n]}
<1>1. 0 \in G
  OBVIOUS
<1>2. ASSUME NEW n \in Nat, n \in G PROVE n + 1 \in G
  <2>1. SUFFICES ASSUME n + 1 \in 1 .. Len(seqs) PROVE g[n + 1] = h[n + 1]
    OBVIOUS
  <2>2. n # 0 => g[n] = h[n]
    BY <1>2, <2>1, LenProperties
  <2>3. /\ g[n + 1] = IF n + 1 = 1 THEN seqs[n + 1] ELSE g[n + 1 - 1] \o seqs[n + 1]
        /\ h[n + 1] = IF n + 1 = 1 THEN seqs[n + 1] ELSE h[n + 1 - 1] \o seqs[n + 1]
    BY <2>1, RunningAt
  <2>4. n + 1 - 1 = n
    OBVIOUS
  <2>. QED
    BY <2>2, <2>3, <2>4
<1>3. \A n \in Nat : n \in G
  <2> HIDE DEF G
  <2>. QED
    BY <1>1, <1>2, Induction
<1>4. \A n \in 1 .. Len(seqs) : g[n] = h[n]
  BY <1>3, LenProperties
<1>. QED
  BY <1>4 DEF Joined

LEMMA FlattenRunning ==
  ASSUME NEW S, NEW seqs \in Seq(Seq(S)), seqs # <<>>, NEW g, Joined(seqs, g)
  PROVE  FlattenSeq(seqs) = g[Len(seqs)]
<1> DEFINE f == CHOOSE f : f = [i \in 1 .. Len(seqs) |->
                                  IF i = 1 THEN seqs[i] ELSE f[i - 1] \o seqs[i]]
<1>1. Len(seqs) # 0
  BY EmptySeq
<1>2. FlattenSeq(seqs) = f[Len(seqs)]
  BY <1>1 DEF FlattenSeq
<1>3. Joined(seqs, f)
  BY DEF Joined
<1>4. f = g
  <2> HIDE DEF f
  <2>. QED
    BY <1>3, RunningUnique
<1>. QED
  BY <1>2, <1>4

LEMMA FlattenEmpty == FlattenSeq(<<>>) = <<>>
BY EmptySeq DEF FlattenSeq

(* FlattenSeq of the first k sequences is where the running one has got.     *)
LEMMA FlattenFirst ==
  ASSUME NEW S, NEW seqs \in Seq(Seq(S)), NEW g \in [1 .. Len(seqs) -> Seq(S)],
         Joined(seqs, g), NEW k \in 1 .. Len(seqs)
  PROVE  FlattenSeq(SubSeq(seqs, 1, k)) = g[k]
<1> DEFINE first == SubSeq(seqs, 1, k)
           h == [i \in 1 .. k |-> g[i]]
<1>1. /\ first \in Seq(Seq(S)) /\ Len(first) = k
      /\ \A i \in 1 .. k : first[i] = seqs[i]
  BY SubSeqProperties, LenProperties
<1>2. first # <<>>
  <2> HIDE DEF first
  <2>. QED
    BY <1>1, EmptySeq
<1>3. Joined(first, h)
  <2>1. \A i \in 1 .. k : g[i] = IF i = 1 THEN seqs[i] ELSE g[i - 1] \o seqs[i]
    <3>1. ASSUME NEW i \in 1 .. k
          PROVE  g[i] = IF i = 1 THEN seqs[i] ELSE g[i - 1] \o seqs[i]
      <4>1. i \in 1 .. Len(seqs)
        BY LenProperties
      <4>. QED
        BY <4>1, RunningAt
    <3>. QED
      BY <3>1
  <2>2. \A i \in 1 .. k : h[i] = g[i] /\ (i # 1 => h[i - 1] = g[i - 1])
    OBVIOUS
  <2>3. \A i \in 1 .. k : h[i] = IF i = 1 THEN first[i] ELSE h[i - 1] \o first[i]
    <3> HIDE DEF h, first
    <3>. QED
      BY <1>1, <2>1, <2>2
  <2>4. h = [i \in 1 .. k |-> h[i]]
    OBVIOUS
  <2> HIDE DEF h, first
  <2>. QED
    BY <1>1, <2>3, <2>4 DEF Joined
<1>4. h[k] = g[k]
  OBVIOUS
<1> HIDE DEF h, first
<1>5. FlattenSeq(first) = h[k]
  BY <1>1, <1>2, <1>3, FlattenRunning
<1>. QED
  BY <1>4, <1>5 DEF first

LEMMA FlattenType ==
  ASSUME NEW S, NEW seqs \in Seq(Seq(S))
  PROVE  FlattenSeq(seqs) \in Seq(S)
<1>1. PICK g \in [1 .. Len(seqs) -> Seq(S)] : Joined(seqs, g)
  BY RunningExists
<1>2. CASE seqs = <<>>
  BY <1>2, FlattenEmpty, EmptySeq
<1>3. CASE seqs # <<>>
  <2>1. FlattenSeq(seqs) = g[Len(seqs)]
    BY <1>1, <1>3, FlattenRunning
  <2>2. Len(seqs) \in 1 .. Len(seqs)
    BY <1>3, EmptySeq
  <2>. QED
    BY <1>1, <2>1, <2>2
<1>. QED
  BY <1>2, <1>3

(* Runs(seqs)[k] is what the first k sequences make.                         *)
Runs(seqs) == [k \in 0 .. Len(seqs) |-> FlattenSeq(SubSeq(seqs, 1, k))]

LEMMA RunsProperties ==
  ASSUME NEW S, NEW seqs \in Seq(Seq(S))
  PROVE  /\ Runs(seqs) \in [0 .. Len(seqs) -> Seq(S)]
         /\ Runs(seqs)[0] = <<>> /\ Runs(seqs)[Len(seqs)] = FlattenSeq(seqs)
         /\ \A k \in 1 .. Len(seqs) : Runs(seqs)[k] = Runs(seqs)[k - 1] \o seqs[k]
<1>1. Len(seqs) \in Nat
  BY LenProperties
<1>2. ASSUME NEW k \in 0 .. Len(seqs) PROVE FlattenSeq(SubSeq(seqs, 1, k)) \in Seq(S)
  <2>1. SubSeq(seqs, 1, k) \in Seq(Seq(S))
    BY <1>1, SubSeqProperties, LenProperties
  <2>. QED
    BY <2>1, FlattenType
<1>3. FlattenSeq(SubSeq(seqs, 1, 0)) = <<>>
  <2>1. SubSeq(seqs, 1, 0) = <<>>
    BY SubSeqEmpty
  <2>. QED
    BY <2>1, FlattenEmpty
<1>4. PICK g \in [1 .. Len(seqs) -> Seq(S)] : Joined(seqs, g)
  BY RunningExists
<1>5. ASSUME NEW k \in 1 .. Len(seqs)
      PROVE  FlattenSeq(SubSeq(seqs, 1, k)) = FlattenSeq(SubSeq(seqs, 1, k - 1)) \o seqs[k]
  <2>1. FlattenSeq(SubSeq(seqs, 1, k)) = g[k]
    BY <1>4, FlattenFirst
  <2>2. g[k] = IF k = 1 THEN seqs[k] ELSE g[k - 1] \o seqs[k]
    BY <1>4, RunningAt
  <2>3. CASE k = 1
    <3>1. k - 1 = 0
      BY <2>3
    <3>2. <<>> \o seqs[k] = seqs[k]
      BY LenProperties, ConcatEmptySeq
    <3>. QED
      BY <1>3, <2>1, <2>2, <2>3, <3>1, <3>2, Zenon
  <2>4. CASE k # 1
    <3>1. k - 1 \in 1 .. Len(seqs)
      BY <1>1, <2>4
    <3>2. FlattenSeq(SubSeq(seqs, 1, k - 1)) = g[k - 1]
      BY <1>4, <3>1, FlattenFirst
    <3>. QED
      BY <2>1, <2>2, <2>4, <3>2, Zenon
  <2>. QED
    BY <2>3, <2>4
<1>6. Runs(seqs) \in [0 .. Len(seqs) -> Seq(S)]
  BY <1>2 DEF Runs
<1>7. /\ 0 \in 0 .. Len(seqs) /\ Len(seqs) \in 0 .. Len(seqs)
      /\ \A k \in 1 .. Len(seqs) : k \in 0 .. Len(seqs) /\ k - 1 \in 0 .. Len(seqs)
  BY <1>1
<1>8. \A k \in 0 .. Len(seqs) : Runs(seqs)[k] = FlattenSeq(SubSeq(seqs, 1, k))
  BY DEF Runs
<1>9. SubSeq(seqs, 1, Len(seqs)) = seqs
  BY SubSeqFull
<1>10. Runs(seqs)[0] = <<>> /\ Runs(seqs)[Len(seqs)] = FlattenSeq(seqs)
  BY <1>3, <1>7, <1>8, <1>9, Zenon
<1>11. \A k \in 1 .. Len(seqs) : Runs(seqs)[k] = Runs(seqs)[k - 1] \o seqs[k]
  BY <1>5, <1>7, <1>8, Zenon
<1>. QED
  BY <1>6, <1>10, <1>11

(* s is how t begins.                                                        *)
Begins(S, s, t) == \E u \in Seq(S) : t = s \o u

LEMMA BeginsFurther ==
  ASSUME NEW S, NEW s \in Seq(S), NEW t \in Seq(S), NEW u \in Seq(S)
  PROVE  Begins(S, s, (s \o t) \o u)
<1>1. (s \o t) \o u = s \o (t \o u)
  BY ConcatAssociative
<1>2. t \o u \in Seq(S)
  BY ConcatProperties
<1>. QED
  BY <1>1, <1>2 DEF Begins

(* Each of the sequences F is the one before, followed by one of e.          *)
Chain(n, F, e) == \A i \in 1 .. n : F[i] = F[i - 1] \o e[i]

(* What the first k sequences make begins what they all make.                *)
LEMMA RunsPrefix ==
  ASSUME NEW S, NEW n \in Nat, NEW e \in [1 .. n -> Seq(S)], NEW F \in [0 .. n -> Seq(S)],
         Chain(n, F, e), NEW k \in 0 .. n
  PROVE  Begins(S, F[k], F[n])
<1> DEFINE G == {m \in Nat : m \in k .. n => Begins(S, F[k], F[m])}
<1>1. Begins(S, F[k], F[k])
  <2>1. F[k] = F[k] \o <<>> /\ <<>> \in Seq(S)
    BY ConcatEmptySeq, EmptySeq
  <2>. QED
    BY <2>1 DEF Begins
<1>2. ASSUME NEW m \in k .. n, m + 1 <= n, Begins(S, F[k], F[m])
      PROVE  Begins(S, F[k], F[m + 1])
  <2>1. PICK t \in Seq(S) : F[m] = F[k] \o t
    BY <1>2 DEF Begins
  <2>2. PICK j \in 1 .. n : j = m + 1
    BY <1>2
  <2>3. F[j] = F[j - 1] \o e[j] /\ j - 1 = m /\ e[j] \in Seq(S) /\ F[k] \in Seq(S)
    <3>1. F[j] = F[j - 1] \o e[j]
      BY Zenon DEF Chain
    <3>2. j - 1 = m
      BY <2>2
    <3>3. e[j] \in Seq(S) /\ F[k] \in Seq(S)
      OBVIOUS
    <3>. QED
      BY <3>1, <3>2, <3>3
  <2>4. F[j] = (F[k] \o t) \o e[j]
    BY <2>1, <2>3
  <2>5. Begins(S, F[k], (F[k] \o t) \o e[j])
    BY <2>3, BeginsFurther
  <2>. QED
    BY <2>2, <2>4, <2>5, Zenon
<1>3. 0 \in G
  BY <1>1
<1>4. ASSUME NEW m \in Nat, m \in G PROVE m + 1 \in G
  <2>1. CASE m \in k .. n /\ m + 1 <= n
    <3>1. Begins(S, F[k], F[m])
      BY <1>4, <2>1
    <3>2. Begins(S, F[k], F[m + 1])
      BY <1>2, <2>1, <3>1
    <3>. QED
      BY <3>2
  <2>2. CASE m + 1 = k
    BY <1>1, <2>2
  <2>3. CASE m + 1 < k \/ m + 1 > n
    BY <2>3
  <2>. QED
    BY <2>1, <2>2, <2>3
<1>5. n \in G
  <2> HIDE DEF G
  <2>. QED
    BY <1>3, <1>4, Induction
<1>6. n \in k .. n
  OBVIOUS
<1>. QED
  BY <1>5, <1>6

(* The part of a sequence behind another one that begins it.                 *)
LEMMA Middle ==
  ASSUME NEW S, NEW s \in Seq(S), NEW t \in Seq(S), NEW u \in Seq(S)
  PROVE  SubSeq((s \o t) \o u, Len(s) + 1, Len(s) + Len(t)) = t
<1>1. /\ Len(s) \in Nat /\ Len(t) \in Nat /\ Len(u) \in Nat
      /\ s \o t \in Seq(S) /\ Len(s \o t) = Len(s) + Len(t)
  BY LenProperties, ConcatProperties
<1> DEFINE all == (s \o t) \o u
<1>2. all \in Seq(S) /\ Len(all) = Len(s) + Len(t) + Len(u)
  BY <1>1, ConcatProperties
<1>3. ASSUME NEW i \in 1 .. Len(t) PROVE all[Len(s) + i] = t[i]
  <2>1. all[Len(s) + i] = (s \o t)[Len(s) + i]
    BY <1>1, ConcatProperties
  <2>2. (s \o t)[Len(s) + i] = t[Len(s) + i - Len(s)]
    BY <1>1, ConcatProperties
  <2>3. Len(s) + i - Len(s) = i
    BY <1>1
  <2>. QED
    BY <2>1, <2>2, <2>3
<1> HIDE DEF all
<1> DEFINE part == SubSeq(all, Len(s) + 1, Len(s) + Len(t))
<1>4. \A i \in Len(s) + 1 .. Len(s) + Len(t) : all[i] \in S
  BY <1>1, <1>2, LenProperties
<1>5. /\ part \in Seq(S)
      /\ Len(part) = IF Len(s) + 1 <= Len(s) + Len(t) THEN Len(s) + Len(t) - (Len(s) + 1) + 1 ELSE 0
      /\ \A i \in 1 .. Len(s) + Len(t) - (Len(s) + 1) + 1 : part[i] = all[Len(s) + 1 + i - 1]
  BY <1>1, <1>4, SubSeqProperties
<1> HIDE DEF part
<1>6. Len(part) = Len(t)
  BY <1>1, <1>5
<1>7. \A i \in 1 .. Len(t) : part[i] = t[i]
  <2>1. ASSUME NEW i \in 1 .. Len(t) PROVE part[i] = t[i]
    <3>1. /\ i \in 1 .. Len(s) + Len(t) - (Len(s) + 1) + 1
          /\ Len(s) + 1 + i - 1 = Len(s) + i
      BY <1>1
    <3>. QED
      BY <1>3, <1>5, <3>1, Zenon
  <2>. QED
    BY <2>1
<1>8. part = t
  BY <1>5, <1>6, <1>7, SeqEqual
<1>. QED
  BY <1>8 DEF part, all

(* s is what all holds behind its first a elements, up to the b-th.          *)
Within(all, s, a, b) ==
  a \in Nat /\ b = a + Len(s) /\ b <= Len(all) /\ SubSeq(all, a + 1, b) = s

(* Where the k-th sequence is in what they all make.                         *)
LEMMA ChainAt ==
  ASSUME NEW S, NEW n \in Nat, NEW e \in [1 .. n -> Seq(S)], NEW F \in [0 .. n -> Seq(S)],
         Chain(n, F, e), NEW k \in 1 .. n
  PROVE  Within(F[n], e[k], Len(F[k - 1]), Len(F[k]))
<1>1. k \in 0 .. n /\ k - 1 \in 0 .. n /\ n \in 0 .. n
  OBVIOUS
<1>2. PICK t \in Seq(S) : F[n] = F[k] \o t
  <2>1. Begins(S, F[k], F[n])
    BY <1>1, RunsPrefix
  <2>. QED
    BY <2>1 DEF Begins
<1>3. PICK p \in Seq(S) : p = F[k - 1]
  BY <1>1
<1>4. PICK q \in Seq(S) : q = e[k]
  OBVIOUS
<1>5. F[k] = p \o q
  BY <1>3, <1>4, Zenon DEF Chain
<1>6. F[n] = (p \o q) \o t
  BY <1>2, <1>5
<1>7. /\ Len(p \o q) = Len(p) + Len(q) /\ p \o q \in Seq(S)
      /\ Len((p \o q) \o t) = Len(p \o q) + Len(t)
  BY ConcatProperties
<1>8. Len(p) \in Nat /\ Len(q) \in Nat /\ Len(t) \in Nat
  BY LenProperties
<1>9. SubSeq((p \o q) \o t, Len(p) + 1, Len(p) + Len(q)) = q
  BY Middle
<1>10. Len(p \o q) <= Len((p \o q) \o t)
  BY <1>7, <1>8
<1>. QED
  BY <1>3, <1>4, <1>5, <1>6, <1>7, <1>8, <1>9, <1>10, Zenon DEF Within

LEMMA RunsAt ==
  ASSUME NEW S, NEW seqs \in Seq(Seq(S))
  PROVE  \A k \in 1 .. Len(seqs) :
           Within(FlattenSeq(seqs), seqs[k], Len(Runs(seqs)[k - 1]), Len(Runs(seqs)[k]))
<1>1. /\ Runs(seqs) \in [0 .. Len(seqs) -> Seq(S)]
      /\ Runs(seqs)[Len(seqs)] = FlattenSeq(seqs)
      /\ Chain(Len(seqs), Runs(seqs), seqs)
  BY RunsProperties, Zenon DEF Chain
<1>2. Len(seqs) \in Nat /\ seqs \in [1 .. Len(seqs) -> Seq(S)]
  BY LenProperties
<1>. QED
  BY <1>1, <1>2, ChainAt

-----------------------------------------------------------------------------
(* Parts of a sequence.                                                      *)

(* What s holds behind its first a elements, up to the b-th.                 *)
Part(s, a, b) == SubSeq(s, a + 1, b)

LEMMA PartType ==
  ASSUME NEW S, NEW s \in Seq(S), NEW a \in Nat, NEW b \in Nat, a <= b, b <= Len(s)
  PROVE  /\ Part(s, a, b) \in Seq(S) /\ Len(Part(s, a, b)) = b - a
         /\ \A i \in 1 .. b - a : Part(s, a, b)[i] = s[a + i]
<1>1. \A i \in a + 1 .. b : s[i] \in S
  BY LenProperties
<1>2. /\ SubSeq(s, a + 1, b) \in Seq(S)
      /\ Len(SubSeq(s, a + 1, b)) = IF a + 1 <= b THEN b - (a + 1) + 1 ELSE 0
      /\ \A i \in 1 .. b - (a + 1) + 1 : SubSeq(s, a + 1, b)[i] = s[a + 1 + i - 1]
  BY <1>1, SubSeqProperties
<1>3. Len(SubSeq(s, a + 1, b)) = b - a
  BY <1>2
<1>4. ASSUME NEW i \in 1 .. b - a
      PROVE  SubSeq(s, a + 1, b)[i] = s[a + i]
  <2>1. i \in 1 .. b - (a + 1) + 1 /\ a + 1 + i - 1 = a + i
    OBVIOUS
  <2>. QED
    BY <1>2, <2>1
<1>. QED
  BY <1>2, <1>3, <1>4 DEF Part

LEMMA PartEmpty ==
  ASSUME NEW s, NEW a \in Nat
  PROVE  Part(s, a, a) = <<>>
BY SubSeqEmpty DEF Part

LEMMA PartFull ==
  ASSUME NEW S, NEW s \in Seq(S)
  PROVE  Part(s, 0, Len(s)) = s
BY SubSeqFull DEF Part

LEMMA PartConcat ==
  ASSUME NEW S, NEW s \in Seq(S), NEW a \in Nat, NEW b \in Nat, NEW c \in Nat,
         a <= b, b <= c, c <= Len(s)
  PROVE  Part(s, a, b) \o Part(s, b, c) = Part(s, a, c)
<1>1. /\ a + 1 \in 1 .. Len(s) + 1 /\ b \in (a + 1) - 1 .. Len(s) /\ c \in b .. Len(s)
  BY LenProperties
<1>. QED
  BY <1>1, ConcatAdjacentSubSeq DEF Part

LEMMA PartOfPart ==
  ASSUME NEW S, NEW s \in Seq(S), NEW a \in Nat, NEW b \in Nat, a <= b, b <= Len(s),
         NEW i \in Nat, NEW j \in Nat, i <= j, j <= b - a
  PROVE  Part(Part(s, a, b), i, j) = Part(s, a + i, a + j)
<1> DEFINE p == Part(s, a, b)
           l == Part(p, i, j)
           r == Part(s, a + i, a + j)
<1>1. /\ p \in Seq(S) /\ Len(p) = b - a /\ \A k \in 1 .. b - a : p[k] = s[a + k]
  BY PartType
<1>2. Len(s) \in Nat
  BY LenProperties
<1> HIDE DEF p
<1>3. l \in Seq(S) /\ Len(l) = j - i /\ \A k \in 1 .. j - i : l[k] = p[i + k]
  <2>1. p \in Seq(S) /\ j <= Len(p)
    BY <1>1
  <2>. QED
    BY <2>1, PartType
<1>4. a + i \in Nat /\ a + j \in Nat /\ a + i <= a + j /\ a + j <= Len(s) /\ (a + j) - (a + i) = j - i
  BY <1>2
<1>5. r \in Seq(S) /\ Len(r) = j - i /\ \A k \in 1 .. j - i : r[k] = s[(a + i) + k]
  <2>1. /\ r \in Seq(S) /\ Len(r) = (a + j) - (a + i)
        /\ \A k \in 1 .. (a + j) - (a + i) : r[k] = s[(a + i) + k]
    BY <1>4, PartType
  <2>. QED
    BY <1>4, <2>1
<1> HIDE DEF l, r
<1>6. ASSUME NEW k \in 1 .. j - i PROVE l[k] = r[k]
  <2>1. i + k \in 1 .. b - a /\ a + (i + k) = (a + i) + k
    OBVIOUS
  <2>. QED
    BY <1>1, <1>3, <1>5, <2>1, Zenon
<1>7. l = r
  BY <1>3, <1>5, <1>6, SeqEqual
<1>. QED
  BY <1>7 DEF l, r, p

(* The last part of what is up to the b-th element is a suffix of it.        *)
LEMMA PartSuffix ==
  ASSUME NEW S, NEW s \in Seq(S), NEW a \in Nat, NEW b \in Nat, a <= b, b <= Len(s)
  PROVE  IsSuffix(Part(s, a, b), Part(s, 0, b))
<1> DEFINE p == Part(s, a, b)
           q == Part(s, 0, b)
           n == b - a
<1>1. n \in Nat /\ n <= b
  OBVIOUS
<1>2. p \in Seq(S) /\ Len(p) = n /\ \A i \in 1 .. n : p[i] = s[a + i]
  BY PartType
<1>3. q \in Seq(S) /\ Len(q) = b /\ \A i \in 1 .. b : q[i] = s[i]
  <2>1. 0 \in Nat /\ 0 <= b /\ b - 0 = b /\ \A i \in 1 .. b : 0 + i = i
    OBVIOUS
  <2>2. /\ q \in Seq(S) /\ Len(q) = b - 0 /\ \A i \in 1 .. b - 0 : q[i] = s[0 + i]
    BY <2>1, PartType
  <2>. QED
    BY <2>1, <2>2
<1> HIDE DEF p, q
<1>4. /\ Reverse(p) = [i \in 1 .. n |-> p[(n - i) + 1]]
      /\ Reverse(q) = [i \in 1 .. b |-> q[(b - i) + 1]]
  BY <1>2, <1>3 DEF Reverse
<1>5. ASSUME NEW i \in 1 .. n PROVE Reverse(p)[i] = Reverse(q)[i]
  <2>1. /\ (n - i) + 1 \in 1 .. n /\ i \in 1 .. b /\ (b - i) + 1 \in 1 .. b
        /\ a + ((n - i) + 1) = (b - i) + 1
    OBVIOUS
  <2>2. Reverse(p)[i] = p[(n - i) + 1] /\ Reverse(q)[i] = q[(b - i) + 1]
    BY <1>4, <2>1
  <2>. QED
    BY <1>2, <1>3, <2>1, <2>2, Zenon
<1>6. /\ Reverse(p) \in Seq(S) /\ Len(Reverse(p)) = n
      /\ Reverse(q) \in Seq(S) /\ Len(Reverse(q)) = b
  <2>1. Reverse(p) \in [1 .. n -> S]
    <3>1. \A i \in 1 .. n : p[(n - i) + 1] \in S
      BY <1>2, LenProperties
    <3> HIDE DEF n
    <3>. QED
      BY <1>4, <3>1
  <2>2. Reverse(q) \in [1 .. b -> S]
    <3>1. \A i \in 1 .. b : q[(b - i) + 1] \in S
      BY <1>3, LenProperties
    <3>. QED
      BY <1>4, <3>1
  <2> HIDE DEF n
  <2>. QED
    BY <1>1, <2>1, <2>2, SeqDef
<1> HIDE DEF n
<1>7. SubSeq(Reverse(p), 1, n) = SubSeq(Reverse(q), 1, n)
  BY <1>1, <1>5, <1>6, SMT
<1>. QED
  BY <1>1, <1>6, <1>7 DEF IsSuffix, IsPrefix, p, q

=============================================================================
