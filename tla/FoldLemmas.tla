----------------------------- MODULE FoldLemmas -----------------------------
(***************************************************************************)
(* Induction over data: what a fold of the models computes, step by step.  *)
(* A fold of the community modules is a function that is defined           *)
(* recursively on the subsets of a domain; before anything can be said of  *)
(* it, such a function has to be shown to exist. The lemmas take the       *)
(* operation as a function, so that they can be used for any of them.      *)
(***************************************************************************)
EXTENDS Integers, Sequences, SequencesExt, FiniteSetTheorems, NaturalsInduction,
        WellFoundedInduction, TLAPS

(* A set of numbers that is not empty has a least element.                 *)
LEMMA LeastNumber ==
  ASSUME NEW S \in SUBSET Nat, S # {}
  PROVE  \E m \in S : \A n \in S : m <= n
<1>. DEFINE less == {pair \in Nat \X Nat : pair[1] < pair[2]}
<1>1. OpToRel(<, Nat) = less
  BY DEF OpToRel
<1>2. IsWellFoundedOn(less, Nat)
  BY <1>1, NatLessThanWellFounded
<1>3. PICK m \in S : \A n \in S : ~(<<n, m>> \in less)
  <2>. HIDE DEF less
  <2>. QED
    BY <1>2, WFMin
<1>4. ASSUME NEW n \in S PROVE m <= n
  <2>1. <<n, m>> \notin less
    BY <1>3
  <2>. QED
    BY <2>1
<1>. QED
  BY <1>4

(* A set of numbers with an upper bound has a greatest element, Max.       *)
LEMMA GreatestNumber ==
  ASSUME NEW n \in Nat, NEW S \in SUBSET (1..n), S # {}
  PROVE  Max(S) \in S /\ \A m \in S : m <= Max(S)
<1>. DEFINE above == {m \in Nat : \A k \in S : k <= m}
<1>1. n \in above
  OBVIOUS
<1>2. PICK m \in above : \A k \in above : m <= k
  <2>. HIDE DEF above
  <2>1. above \in SUBSET Nat
    BY DEF above
  <2>. QED
    BY <1>1, <2>1, LeastNumber
<1>3. m \in S
  <2>1. SUFFICES ASSUME m \notin S PROVE FALSE
    OBVIOUS
  <2>2. m # 0
    <3>1. PICK k \in S : TRUE
      OBVIOUS
    <3>2. k <= m /\ k >= 1
      BY <1>2
    <3>. QED
      BY <3>2
  <2>3. m - 1 \in above
    BY <2>1, <2>2, <1>2
  <2>. QED
    BY <2>3, <1>2
<1>4. \E k \in S : \A j \in S : k >= j
  BY <1>2, <1>3
<1>5. Max(S) \in S /\ \A j \in S : Max(S) >= j
  <2>. DEFINE greatest(k) == \A j \in S : k >= j
  <2>1. Max(S) = CHOOSE k \in S : greatest(k)
    BY DEF Max
  <2>2. \E k \in S : greatest(k)
    BY <1>4
  <2>3. Max(S) \in S /\ greatest(Max(S))
    <3>. HIDE DEF greatest
    <3>. QED
      BY <2>1, <2>2
  <2>. QED
    BY <2>3
<1>. QED
  BY <1>5

LEMMA LeastIsMin ==
  ASSUME NEW S \in SUBSET Nat, S # {}
  PROVE  Min(S) \in S /\ \A m \in S : Min(S) <= m
<1>. DEFINE least(k) == \A j \in S : k =< j
<1>1. Min(S) = CHOOSE k \in S : least(k)
  BY DEF Min
<1>2. \E k \in S : least(k)
  BY LeastNumber
<1>3. Min(S) \in S /\ least(Min(S))
  <2>. HIDE DEF least
  <2>. QED
    BY <1>1, <1>2
<1>. QED
  BY <1>3

(* Induction, as a fact about sets of numbers.                             *)
LEMMA SetInduction ==
  ASSUME NEW S, 0 \in S, \A n \in Nat : n \in S => n + 1 \in S
  PROVE  Nat \subseteq S
<1>1. SUFFICES ASSUME Nat \ S # {} PROVE FALSE
  OBVIOUS
<1>2. PICK m \in Nat \ S : \A n \in Nat \ S : m <= n
  BY <1>1, LeastNumber
<1>3. m # 0 /\ m - 1 \in Nat
  BY <1>2
<1>4. m - 1 \in S
  BY <1>2, <1>3
<1>. QED
  BY <1>2, <1>3, <1>4

(* A sequence of values given by the first one and the step to the next.   *)
IsRecursion(f, base, op) ==
  f[0] = base /\ \A n \in Nat : f[n + 1] = op[<<f[n], n>>]

(* Such a sequence exists.                                                 *)
LEMMA Recursion ==
  ASSUME NEW T, NEW base \in T, NEW op \in [T \X Nat -> T]
  PROVE  \E f \in [Nat -> T] : IsRecursion(f, base, op)
<1>. DEFINE Follows(g, n) ==
              g[0] = base /\ \A k \in 0..(n - 1) : g[k + 1] = op[<<g[k], k>>]
            some == {n \in Nat : \E g \in [0..n -> T] : Follows(g, n)}
<1>1. Nat \subseteq some
  <2>1. 0 \in some
    <3>1. [k \in 0..0 |-> base] \in [0..0 -> T] /\ Follows([k \in 0..0 |-> base], 0)
      OBVIOUS
    <3>. QED
      BY <3>1
  <2>2. ASSUME NEW n \in Nat, n \in some PROVE n + 1 \in some
    <3>1. PICK g \in [0..n -> T] : Follows(g, n)
      BY <2>2
    <3>. DEFINE h == [k \in 0..(n + 1) |-> IF k <= n THEN g[k] ELSE op[<<g[n], n>>]]
    <3>2. h \in [0..(n + 1) -> T]
      OBVIOUS
    <3>3. Follows(h, n + 1)
      <4>1. ASSUME NEW k \in 0..n PROVE h[k + 1] = op[<<h[k], k>>]
        <5>1. CASE k = n
          BY <5>1
        <5>2. CASE k < n
          BY <5>2, <3>1
        <5>. QED
          BY <5>1, <5>2
      <4>2. h[0] = base
        BY <3>1
      <4>3. (n + 1) - 1 = n
        OBVIOUS
      <4>. HIDE DEF h
      <4>. QED
        BY <4>1, <4>2, <4>3
    <3>. HIDE DEF h, Follows
    <3>. QED
      BY <3>2, <3>3
  <2>. HIDE DEF some
  <2>. QED
    BY <2>1, <2>2, SetInduction
<1>. DEFINE start == [n \in Nat |-> CHOOSE g \in [0..n -> T] : Follows(g, n)]
            f == [n \in Nat |-> start[n][n]]
<1>2. ASSUME NEW n \in Nat
      PROVE  start[n] \in [0..n -> T] /\ Follows(start[n], n)
  <2>1. \E g \in [0..n -> T] : Follows(g, n)
    BY <1>1
  <2>. QED
    BY <2>1
<1>3. ASSUME NEW n \in Nat
      PROVE  \A k \in 0..n : start[n + 1][k] = start[n][k]
  <2>. DEFINE same == {k \in Nat : k <= n => start[n + 1][k] = start[n][k]}
  <2>. HIDE DEF start
  <2>0. Follows(start[n + 1], n + 1) /\ Follows(start[n], n)
    BY <1>2
  <2>1. 0 \in same
    BY <2>0
  <2>2. ASSUME NEW k \in Nat, k \in same PROVE k + 1 \in same
    <3>. SUFFICES ASSUME k + 1 <= n PROVE start[n + 1][k + 1] = start[n][k + 1]
      OBVIOUS
    <3>1. start[n + 1][k] = start[n][k]
      BY <2>2
    <3>2. k \in 0..((n + 1) - 1) /\ k \in 0..(n - 1)
      OBVIOUS
    <3>. QED
      BY <2>0, <3>1, <3>2
  <2>3. Nat \subseteq same
    <3>. HIDE DEF same
    <3>. QED
      BY <2>1, <2>2, SetInduction
  <2>. QED
    BY <2>3
<1>. HIDE DEF start
<1>4. f \in [Nat -> T]
  BY <1>2
<1>5. f[0] = base
  BY <1>2
<1>6. ASSUME NEW n \in Nat PROVE f[n + 1] = op[<<f[n], n>>]
  <2>1. start[n + 1][n + 1] = op[<<start[n + 1][n], n>>]
    BY <1>2
  <2>. QED
    BY <2>1, <1>3
<1>. QED
  BY <1>4, <1>5, <1>6 DEF IsRecursion

-----------------------------------------------------------------------------
(* The folds of the community modules.                                     *)

(* The recursive function behind a fold over the set S, with c choosing    *)
(* the element that is taken out of a set next.                            *)
IsSetFold(iter, S, base, op, c) ==
  /\ iter[{}] = base
  /\ \A s \in (SUBSET S) \ {{}} : iter[s] = op[<<iter[s \ {c[s]}], c[s]>>]

(* It exists, if the set is finite.                                        *)
LEMMA SetFoldExists ==
  ASSUME NEW S, IsFiniteSet(S), NEW T, NEW base \in T,
         NEW op \in [T \X S -> T],
         NEW c \in [(SUBSET S) \ {{}} -> S],
         \A s \in (SUBSET S) \ {{}} : c[s] \in s
  PROVE  \E iter \in [SUBSET S -> T] : IsSetFold(iter, S, base, op, c)
<1>. DEFINE P == SUBSET S
            U == [P -> T]
            Step(g) == [s \in P |-> IF s = {} THEN base
                                    ELSE op[<<g[s \ {c[s]}], c[s]>>]]
            ops == [pair \in U \X Nat |-> Step(pair[1])]
            start == [s \in P |-> base]
<1>1. ASSUME NEW g \in U PROVE Step(g) \in U
  <2>1. ASSUME NEW s \in P, s # {} PROVE op[<<g[s \ {c[s]}], c[s]>>] \in T
    <3>1. c[s] \in S /\ s \ {c[s]} \in P
      BY <2>1
    <3>2. g[s \ {c[s]}] \in T
      BY <3>1
    <3>. QED
      BY <3>1, <3>2
  <2>. QED
    BY <2>1
<1>2. start \in U
  OBVIOUS
<1>3. ops \in [U \X Nat -> U]
  <2>. HIDE DEF U, Step
  <2>. QED
    BY <1>1
<1>4. PICK F \in [Nat -> U] : IsRecursion(F, start, ops)
  <2>. HIDE DEF U, ops, start
  <2>. QED
    BY <1>2, <1>3, Recursion
<1>5. ASSUME NEW n \in Nat PROVE F[n] \in U /\ F[n + 1] = Step(F[n])
  <2>. HIDE DEF U, Step
  <2>. QED
    BY <1>4 DEF IsRecursion
<1>. DEFINE iter == [s \in P |-> F[Cardinality(s)][s]]
<1>6. ASSUME NEW s \in P PROVE IsFiniteSet(s) /\ Cardinality(s) \in Nat
  BY FS_Subset, FS_CardinalityType
<1>7. iter \in [P -> T]
  BY <1>5, <1>6
<1>8. iter[{}] = base
  <2>1. iter[{}] = F[0][{}]
    BY FS_EmptySet
  <2>. QED
    BY <2>1, <1>4 DEF IsRecursion
<1>9. ASSUME NEW s \in P, s # {}
      PROVE  iter[s] = op[<<iter[s \ {c[s]}], c[s]>>]
  <2>. DEFINE rest == s \ {c[s]}
              n == Cardinality(rest)
  <2>1. c[s] \in s /\ rest \in P
    BY <1>9
  <2>2. n \in Nat /\ Cardinality(s) = n + 1
    <3>1. IsFiniteSet(s) /\ IsFiniteSet(rest) /\ Cardinality(s) \in Nat /\ n \in Nat
      BY <1>6, <2>1
    <3>2. n = IF c[s] \in s THEN Cardinality(s) - 1 ELSE Cardinality(s)
      BY <3>1, FS_RemoveElement, Zenon
    <3>. QED
      BY <2>1, <3>1, <3>2
  <2>3. iter[s] = F[n + 1][s] /\ iter[rest] = F[n][rest]
    <3>. HIDE DEF rest
    <3>. QED
      BY <2>1, <2>2
  <2>4. F[n + 1] = Step(F[n])
    <3>. HIDE DEF Step, n
    <3>. QED
      BY <1>5, <2>2
  <2>5. F[n + 1][s] = op[<<F[n][rest], c[s]>>]
    BY <2>4, <1>9
  <2>. QED
    BY <2>3, <2>5
<1>. QED
  BY <1>7, <1>8, <1>9 DEF IsSetFold

(* Every value of iter is in T if those it is computed from are.           *)
StaysIn(iter, S, T, c) ==
  /\ iter[{}] \in T
  /\ \A s \in (SUBSET S) \ {{}} :
       c[s] \in s /\ (iter[s \ {c[s]}] \in T => iter[s] \in T)

(* What holds of the first value and is kept by every step holds of the    *)
(* value of every set.                                                     *)
LEMMA SetFoldStays ==
  ASSUME NEW S, IsFiniteSet(S), NEW T, NEW iter, NEW c, StaysIn(iter, S, T, c)
  PROVE  \A s \in SUBSET S : iter[s] \in T
<1>0. /\ iter[{}] \in T
      /\ \A s \in (SUBSET S) \ {{}} :
           c[s] \in s /\ (iter[s \ {c[s]}] \in T => iter[s] \in T)
  BY DEF StaysIn
<1>. DEFINE known == {n \in Nat : \A s \in SUBSET S : Cardinality(s) = n => iter[s] \in T}
<1>1. ASSUME NEW s \in SUBSET S PROVE IsFiniteSet(s) /\ Cardinality(s) \in Nat
  BY FS_Subset, FS_CardinalityType
<1>2. 0 \in known
  <2>1. \A s \in SUBSET S : Cardinality(s) = 0 => s = {}
    BY <1>1, FS_EmptySet
  <2>. QED
    BY <1>0, <2>1
<1>3. ASSUME NEW n \in Nat, n \in known PROVE n + 1 \in known
  <2>. SUFFICES ASSUME NEW s \in SUBSET S, Cardinality(s) = n + 1 PROVE iter[s] \in T
    OBVIOUS
  <2>. DEFINE rest == s \ {c[s]}
  <2>1. s # {}
    BY FS_EmptySet
  <2>2. c[s] \in s /\ rest \in SUBSET S
    BY <1>0, <2>1
  <2>3. Cardinality(rest) = n
    <3>1. IsFiniteSet(s) /\ Cardinality(s) \in Nat
      BY <1>1
    <3>2. Cardinality(rest) = IF c[s] \in s THEN Cardinality(s) - 1 ELSE Cardinality(s)
      BY <3>1, FS_RemoveElement, Zenon
    <3>. QED
      BY <2>2, <3>2
  <2>4. iter[rest] \in T
    BY <1>3, <2>2, <2>3
  <2>. QED
    BY <1>0, <2>1, <2>4
<1>4. Nat \subseteq known
  <2>. HIDE DEF known
  <2>. QED
    BY <1>2, <1>3, SetInduction
<1>. QED
  BY <1>1, <1>4

(* A fold over a sequence takes out the last element first: what it has    *)
(* computed from the elements up to each rank follows the sequence.        *)
IsSequenceFold(iter, n, base, op) ==
  /\ iter[{}] = base
  /\ \A s \in (SUBSET (1..n)) \ {{}} :
       iter[s] = op[<<iter[s \ {Max(s)}], Max(s)>>]

LEMMA SequenceFoldExists ==
  ASSUME NEW n \in Nat, NEW T, NEW base \in T, NEW op \in [T \X (1..n) -> T]
  PROVE  \E iter \in [SUBSET (1..n) -> T] : IsSequenceFold(iter, n, base, op)
<1>. DEFINE c == [s \in (SUBSET (1..n)) \ {{}} |-> Max(s)]
<1>1. ASSUME NEW s \in SUBSET (1..n), s # {}
      PROVE  Max(s) \in s
  BY <1>1, GreatestNumber
<1>2. c \in [(SUBSET (1..n)) \ {{}} -> 1..n]
  BY <1>1
<1>3. \A s \in (SUBSET (1..n)) \ {{}} : c[s] \in s
  BY <1>1
<1>4. IsFiniteSet(1..n)
  BY FS_Interval
<1>5. PICK iter \in [SUBSET (1..n) -> T] : IsSetFold(iter, 1..n, base, op, c)
  <2>. HIDE DEF c
  <2>. QED
    BY <1>2, <1>3, <1>4, SetFoldExists
<1>. QED
  BY <1>5 DEF IsSetFold, IsSequenceFold

LEMMA SequenceFoldSteps ==
  ASSUME NEW n \in Nat, NEW k \in 0..(n - 1)
  PROVE  /\ 1..(k + 1) \in (SUBSET (1..n)) \ {{}}
         /\ Max(1..(k + 1)) = k + 1
         /\ (1..(k + 1)) \ {k + 1} = 1..k
         /\ 1..k \in SUBSET (1..n)
<1>1. 1..(k + 1) \in (SUBSET (1..n)) \ {{}} /\ 1..k \in SUBSET (1..n)
  <2>1. k + 1 \in 1..(k + 1) /\ 1..(k + 1) \subseteq 1..n /\ 1..k \subseteq 1..n
    OBVIOUS
  <2>. QED
    BY <2>1
<1>2. Max(1..(k + 1)) \in 1..(k + 1) /\ \A m \in 1..(k + 1) : m <= Max(1..(k + 1))
  <2>1. 1..(k + 1) \in SUBSET (1..n) /\ 1..(k + 1) # {}
    BY <1>1
  <2>. QED
    BY <2>1, GreatestNumber
<1>3. (1..(k + 1)) \ {k + 1} = 1..k
  OBVIOUS
<1>. QED
  BY <1>1, <1>2, <1>3
=============================================================================
