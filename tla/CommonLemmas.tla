---------------------------- MODULE CommonLemmas ----------------------------
(***************************************************************************)
(* What the proofs of several modules need of numbers and sequences.       *)
(*                                                                         *)
(* The induction theorems of the library take a predicate as an argument,  *)
(* which the provers cannot instantiate.  LeastNatural takes a set: to     *)
(* prove P for every natural number, apply it to those without P.          *)
(***************************************************************************)
EXTENDS Integers, SequencesExt, SequenceTheorems, WellFoundedInduction, TLAPS

\* Every set of natural numbers that is not empty has a least one.
LEMMA LeastNatural ==
    ASSUME NEW T, T \subseteq Nat, T # {}
    PROVE  \E x \in T : \A y \in T : x <= y
<1>. DEFINE R == {ss \in Nat \X Nat : ss[1] < ss[2]}
<1>1. R = OpToRel(<, Nat)
  BY Zenon DEF OpToRel
<1>2. IsWellFoundedOn(R, Nat)
  BY <1>1, NatLessThanWellFounded, Zenon
<1>3. PICK x \in T : \A y \in T : ~(<<y, x>> \in R)
  <2>. HIDE DEF R
  <2>. QED BY <1>2, WFMin, Zenon
<1>4. ASSUME NEW y \in T
      PROVE  x <= y
  <2>1. ~(<<y, x>> \in R) /\ x \in Nat /\ y \in Nat
    BY <1>3
  <2>. QED BY <2>1
<1>. QED BY <1>4

\* A set of numbers that holds 0, and with k also k + 1, up to n.
LEMMA UpTo ==
    ASSUME NEW n \in Nat, NEW P, 0 \in P, \A k \in 0..(n - 1) : k \in P => k + 1 \in P
    PROVE  0..n \subseteq P
<1>. SUFFICES ASSUME (0..n) \ P # {}
              PROVE  FALSE
  OBVIOUS
<1>. DEFINE T == (0..n) \ P
<1>1. PICK x \in T : \A y \in T : x <= y
  <2>1. T \subseteq Nat /\ T # {}
    OBVIOUS
  <2>. HIDE DEF T
  <2>. QED BY <2>1, LeastNatural
<1>2. x # 0 /\ x \in 1..n /\ x - 1 \in 0..(n - 1)
  OBVIOUS
<1>3. x - 1 \in P
  <2>1. x - 1 \notin T
    BY <1>1, <1>2
  <2>. QED BY <1>2, <2>1
<1>4. (x - 1) + 1 \in P
  BY <1>2, <1>3
<1>. QED BY <1>2, <1>4

\* Two functions that agree at 0, and from k - 1 to k, agree.
LEMMA SameRecursion ==
    ASSUME NEW n \in Nat, NEW f, NEW g, f[0] = g[0],
           \A k \in 1..n : f[k - 1] = g[k - 1] => f[k] = g[k]
    PROVE  \A k \in 0..n : f[k] = g[k]
<1>. DEFINE P == {k \in 0..n : f[k] = g[k]}
<1>1. 0 \in P
  OBVIOUS
<1>2. ASSUME NEW k \in 0..(n - 1), k \in P
      PROVE  k + 1 \in P
  <2>1. k + 1 \in 1..n /\ (k + 1) - 1 = k
    OBVIOUS
  <2>2. f[k + 1] = g[k + 1]
    BY <1>2, <2>1
  <2>. QED BY <2>1, <2>2
<1>3. 0..n \subseteq P
  <2>. HIDE DEF P
  <2>. QED BY <1>1, <1>2, UpTo
<1>. QED BY <1>3

-----------------------------------------------------------------------------

\* The least element, where it is known.
LEMMA MinIs ==
    ASSUME NEW S \in SUBSET Int, NEW m \in S, \A x \in S : m <= x
    PROVE  Min(S) = m
<1>1. Min(S) \in S /\ \A x \in S : Min(S) <= x
  BY Zenon DEF Min
<1>2. Min(S) \in Int /\ m \in Int /\ Min(S) <= m /\ m <= Min(S)
  BY <1>1
<1>. QED BY <1>2

\* The lesser of two.
LEMMA MinOfTwo ==
    ASSUME NEW a \in Int, NEW b \in Int
    PROVE  Min({a, b}) = IF a <= b THEN a ELSE b
<1>1. CASE a <= b
  BY <1>1, MinIs
<1>2. CASE ~(a <= b)
  BY <1>2, MinIs
<1>. QED BY <1>1, <1>2

-----------------------------------------------------------------------------
(* A recursive function, by its equations.                                 *)

\* g is what step makes of start, n times.
Recursive(g, start, step, n) ==
    g = [k \in 0..n |-> IF k = 0 THEN start ELSE step[k][g[k - 1]]]

LEMMA RecursionExists ==
    ASSUME NEW n \in Nat, NEW S, NEW start \in S, NEW step \in [1..n -> [S -> S]]
    PROVE  \E g \in [0..n -> S] : Recursive(g, start, step, n)
<1>. DEFINE P == {m \in 0..n : \E g \in [0..m -> S] : Recursive(g, start, step, m)}
<1>1. 0 \in P
  <2>. DEFINE g == [k \in 0..0 |-> start]
  <2>1. g \in [0..0 -> S] /\ Recursive(g, start, step, 0)
    BY DEF Recursive
  <2>. QED BY <2>1
<1>2. ASSUME NEW m \in 0..(n - 1), m \in P
      PROVE  m + 1 \in P
  <2>1. PICK g \in [0..m -> S] : Recursive(g, start, step, m)
    BY <1>2
  <2>. DEFINE h == [k \in 0..(m + 1) |-> IF k = m + 1 THEN step[m + 1][g[m]] ELSE g[k]]
  <2>2. m + 1 \in 1..n /\ g[m] \in S
    OBVIOUS
  <2>3. step[m + 1][g[m]] \in S
    BY <2>2
  <2>4. h \in [0..(m + 1) -> S]
    BY <2>3
  <2>5. ASSUME NEW k \in 0..(m + 1)
        PROVE  h[k] = IF k = 0 THEN start ELSE step[k][h[k - 1]]
    <3>1. CASE k = m + 1
      <4>1. h[k - 1] = g[m]
        BY <3>1
      <4>. QED BY <3>1, <4>1
    <3>2. CASE k \in 0..m
      <4>1. h[k] = g[k] /\ (k # 0 => h[k - 1] = g[k - 1])
        BY <3>2
      <4>. QED BY <2>1, <3>2, <4>1 DEF Recursive
    <3>. QED BY <3>1, <3>2
  <2>6. Recursive(h, start, step, m + 1)
    <3>1. h = [k \in 0..(m + 1) |-> h[k]]
      BY <2>4
    <3>. HIDE DEF h
    <3>. QED BY <2>5, <3>1 DEF Recursive
  <2>. QED BY <2>4, <2>6
<1>3. 0..n \subseteq P
  <2>. HIDE DEF P
  <2>. QED BY <1>1, <1>2, UpTo
<1>. QED BY <1>3

LEMMA RecursionUnwinds ==
    ASSUME NEW n \in Nat, NEW start, NEW step, NEW f, Recursive(f, start, step, n)
    PROVE  /\ f = [k \in 0..n |-> f[k]] /\ f[0] = start
           /\ \A k \in 1..n : f[k] = step[k][f[k - 1]]
<1>1. \A k \in 1..n : k \in 0..n /\ k # 0
  OBVIOUS
<1>2. 0 \in 0..n
  OBVIOUS
<1>3. ASSUME NEW k \in 0..n
      PROVE  f[k] = IF k = 0 THEN start ELSE step[k][f[k - 1]]
  BY DEF Recursive
<1>4. f = [k \in 0..n |-> f[k]]
  BY DEF Recursive
<1>. QED BY <1>1, <1>2, <1>3, <1>4

\* flat[k] joins the first k of the sequences in ss.
AreJoined(flat, ss) ==
    /\ flat[0] = <<>>
    /\ \A k \in 1..Len(ss) : flat[k] = flat[k - 1] \o ss[k]

LEMMA JoinedOf ==
    ASSUME NEW S, NEW ss \in Seq(Seq(S))
    PROVE  \E flat : /\ flat \in [0..Len(ss) -> Seq(S)] /\ AreJoined(flat, ss)
                     /\ FlattenSeq(ss) = flat[Len(ss)]
<1>. DEFINE n == Len(ss)
            step == [k \in 1..n |-> [s \in Seq(S) |-> s \o ss[k]]]
            Body(g) == [k \in 1..n |-> IF k = 1 THEN ss[k] ELSE g[k - 1] \o ss[k]]
            chosen == CHOOSE g : g = Body(g)
<1>1. n \in Nat /\ <<>> \in Seq(S) /\ \A k \in 1..n : ss[k] \in Seq(S)
  OBVIOUS
<1>2. step \in [1..n -> [Seq(S) -> Seq(S)]]
  BY <1>1
<1>3. PICK flat : flat \in [0..n -> Seq(S)] /\ Recursive(flat, <<>>, step, n)
  <2>. HIDE DEF step, n
  <2>. QED BY <1>1, <1>2, RecursionExists
<1>4. flat[0] = <<>> /\ \A k \in 1..n : flat[k] = step[k][flat[k - 1]]
  <2>. HIDE DEF step, n
  <2>. QED BY <1>1, <1>3, RecursionUnwinds
<1>5. \A k \in 1..n : flat[k] = flat[k - 1] \o ss[k]
  <2>1. \A k \in 1..n : flat[k - 1] \in Seq(S)
    <3>1. \A k \in 1..n : k - 1 \in 0..n
      BY <1>1
    <3>. HIDE DEF n
    <3>. QED BY <1>3, <3>1
  <2>. HIDE DEF n
  <2>. QED BY <1>4, <2>1
<1>6. AreJoined(flat, ss)
  BY <1>4, <1>5 DEF AreJoined
<1>7. FlattenSeq(ss) = flat[n]
  <2>1. CASE n = 0
    <3>1. ss = <<>>
      BY <2>1
    <3>2. FlattenSeq(ss) = ss
      BY <2>1, Zenon DEF FlattenSeq
    <3>. QED BY <1>4, <2>1, <3>1, <3>2
  <2>2. CASE n # 0
    <3>1. 1 \in 1..n /\ n \in 1..n
      BY <1>1, <2>2
    <3>2. flat[1] = ss[1]
      <4>1. ss[1] \in Seq(S)
        BY <1>1, <3>1
      <4>2. flat[1] = flat[0] \o ss[1]
        <5>1. flat[1] = flat[1 - 1] \o ss[1]
          BY <1>5, <3>1
        <5>. QED BY <5>1
      <4>. QED BY <1>4, <4>1, <4>2
    <3>. DEFINE g == [k \in 1..n |-> flat[k]]
    <3>3. g = Body(g)
      <4>1. \A k \in 1..n : k = 1 \/ k - 1 \in 1..n
        BY <1>1
      <4>2. \A k \in 1..n : g[k] = IF k = 1 THEN ss[k] ELSE g[k - 1] \o ss[k]
        <5>. HIDE DEF n
        <5>. QED BY <1>5, <3>2, <4>1
      <4>3. g = [k \in 1..n |-> g[k]]
        OBVIOUS
      <4>. HIDE DEF g, n
      <4>. QED BY <4>2, <4>3
    <3>4. chosen = Body(chosen)
      <4>1. \E h : h = Body(h)
        <5>. HIDE DEF Body
        <5>. QED BY <3>3
      <4>. HIDE DEF Body
      <4>. QED BY <4>1, Zenon
    <3>5. FlattenSeq(ss) = chosen[n]
      <4>. HIDE DEF chosen
      <4>1. ~(Len(ss) = 0)
        BY <2>2
      <4>. QED BY <4>1, Zenon DEF FlattenSeq, chosen, Body, n
    <3>. HIDE DEF chosen
    <3>. DEFINE P == {k \in 0..n : k = 0 \/ chosen[k] = flat[k]}
    <3>6. 0 \in P
      BY <1>1
    <3>7. ASSUME NEW k \in 0..(n - 1), k \in P
          PROVE  k + 1 \in P
      <4>1. k + 1 \in 1..n /\ k + 1 \in 0..n /\ (k + 1) - 1 = k
        BY <1>1
      <4>2. chosen[k + 1] = IF k + 1 = 1 THEN ss[k + 1] ELSE chosen[k] \o ss[k + 1]
        <5>. HIDE DEF n
        <5>. QED BY <3>4, <4>1
      <4>3. flat[k + 1] = flat[k] \o ss[k + 1]
        BY <1>5, <4>1
      <4>4. CASE k = 0
        BY <3>2, <4>1, <4>2, <4>4
      <4>5. CASE k # 0
        <5>1. k + 1 # 1 /\ chosen[k] = flat[k]
          BY <3>7, <4>5
        <5>. QED BY <4>1, <4>2, <4>3, <5>1
      <4>. QED BY <4>4, <4>5
    <3>8. 0..n \subseteq P
      <4>. HIDE DEF P, n, Body, step
      <4>. QED BY <1>1, <3>6, <3>7, UpTo
    <3>. QED BY <2>2, <3>1, <3>5, <3>8
  <2>. QED BY <2>1, <2>2
<1>. QED BY <1>3, <1>6, <1>7

=============================================================================
