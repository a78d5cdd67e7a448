-------------------------- MODULE TurnOrderProofs --------------------------
(***************************************************************************)
(* Proofs about PriorityOrderList and SideBattle: the lists keep speaking  *)
(* of the same participants through every computation of a turn, however   *)
(* many participants there are and whatever their speeds; with positive    *)
(* speeds every turn ends, closed by somebody of the slowest participant's *)
(* id, leaves speeds that do not build up and passes no id over for long;  *)
(* the battle of a side keeps what it promises. A member and a contender   *)
(* may share an id throughout.                                             *)
(***************************************************************************)
EXTENDS SideBattle, TurnPatience, FoldLemmas, SequenceTheorems, FunctionTheorems

Elem == [id : Nat, speed : Int, isContender : BOOLEAN]

(* The list s names each of the participants N once, and nobody else.      *)
Lists(s, N) ==
  /\ s \in Seq(Elem)
  /\ \A k \in DOMAIN s : Named(s[k]) \in N
  /\ \A p \in N : \E k \in DOMAIN s : Named(s[k]) = p
  /\ \A j, k \in DOMAIN s : Named(s[j]) = Named(s[k]) => j = k

SpeedsIncrease(s) == \A j, k \in DOMAIN s : j <= k => s[j].speed <= s[k].speed

IsPermutation(perm, n) ==
  /\ perm \in [1..n -> 1..n]
  /\ \A m \in 1..n : \E k \in 1..n : perm[k] = m
  /\ \A j, k \in 1..n : perm[j] = perm[k] => j = k

Permuted(s, perm) == [n \in DOMAIN s |-> s[perm[n]]]

-----------------------------------------------------------------------------
(* Lists.                                                                  *)

LEMMA FunctionIsSequence ==
  ASSUME NEW S, NEW n \in Nat, NEW f \in [1..n -> S]
  PROVE  f \in Seq(S) /\ Len(f) = n
<1>1. f \in Seq(S)
  BY SeqDef
<1>. QED
  BY <1>1

LEMMA SameNamesSameList ==
  ASSUME NEW N, NEW s, Lists(s, N), NEW t \in Seq(Elem), Len(t) = Len(s),
         \A k \in 1..Len(s) : Named(t[k]) = Named(s[k])
  PROVE  Lists(t, N)
<1>1. DOMAIN t = 1..Len(s) /\ DOMAIN s = 1..Len(s)
  BY DEF Lists
<1>. QED
  BY <1>1 DEF Lists

LEMMA PermutedList ==
  ASSUME NEW N, NEW s, Lists(s, N), NEW perm, IsPermutation(perm, Len(s))
  PROVE  Lists(Permuted(s, perm), N)
<1>. DEFINE t == Permuted(s, perm)
            n == Len(s)
<1>1. s \in Seq(Elem) /\ n \in Nat /\ DOMAIN s = 1..n
  BY DEF Lists
<1>2. /\ perm \in [1..n -> 1..n]
      /\ \A m \in 1..n : \E k \in 1..n : perm[k] = m
      /\ \A j, k \in 1..n : perm[j] = perm[k] => j = k
  BY DEF IsPermutation
<1>3. DOMAIN t = 1..n /\ \A k \in 1..n : t[k] = s[perm[k]]
  BY <1>1 DEF Permuted
<1>4. t \in Seq(Elem)
  <2>1. \A k \in 1..n : s[k] \in Elem
    BY <1>1
  <2>2. t \in [1..n -> Elem]
    BY <1>1, <1>2, <2>1 DEF Permuted
  <2>. QED
    BY <1>1, <2>2, FunctionIsSequence
<1>. HIDE DEF t, n
<1>5. \A k \in 1..n : Named(t[k]) \in N
  BY <1>1, <1>2, <1>3 DEF Lists
<1>6. \A p \in N : \E k \in 1..n : Named(t[k]) = p
  BY <1>1, <1>2, <1>3 DEF Lists
<1>7. \A j, k \in 1..n : Named(t[j]) = Named(t[k]) => j = k
  BY <1>1, <1>2, <1>3 DEF Lists
<1>. QED
  BY <1>3, <1>4, <1>5, <1>6, <1>7 DEF Lists, t

(* A list names as many participants as it has elements.                   *)
LEMMA ListLength ==
  ASSUME NEW N, NEW s, Lists(s, N)
  PROVE  Cardinality(N) = Len(s)
<1>. DEFINE n == Len(s)
            f == [k \in 1..n |-> Named(s[k])]
<1>1. n \in Nat /\ DOMAIN s = 1..n
  BY DEF Lists
<1>2. f \in Bijection(1..n, N)
  <2>1. f \in [1..n -> N]
    BY <1>1 DEF Lists
  <2>2. \A j, k \in 1..n : f[j] = f[k] => j = k
    BY <1>1 DEF Lists
  <2>3. \A p \in N : \E k \in 1..n : f[k] = p
    BY <1>1 DEF Lists
  <2>. HIDE DEF f, n
  <2>. QED
    BY <2>1, <2>2, <2>3, Fun_IsBij
<1>. HIDE DEF f, n
<1>3. ExistsBijection(1..n, N)
  BY <1>2 DEF ExistsBijection
<1>4. Cardinality(N) = n
  BY <1>1, <1>3, FS_CountingElements
<1>. QED
  BY <1>4 DEF n

-----------------------------------------------------------------------------
(* Sorting.                                                                *)

NotAfter(s, j, k) == \/ s[j].speed < s[k].speed
                     \/ s[j].speed = s[k].speed /\ j <= k

RankIn(s, k) == Cardinality({j \in DOMAIN s : NotAfter(s, j, k)})

(* The ranks are those of a sequence, each given once.                     *)
LEMMA RanksArePermuted ==
  ASSUME NEW s \in Seq(Elem)
  PROVE  LET n == Len(s) IN
         /\ \A k \in 1..n : RankIn(s, k) \in 1..n
         /\ \A j, k \in 1..n : RankIn(s, j) <= RankIn(s, k) => NotAfter(s, j, k)
         /\ \A j, k \in 1..n : RankIn(s, j) = RankIn(s, k) => j = k
         /\ \A r \in 1..n : \E k \in 1..n : RankIn(s, k) = r
<1>. DEFINE n == Len(s)
            upTo(k) == {j \in DOMAIN s : NotAfter(s, j, k)}
<1>1. n \in Nat /\ DOMAIN s = 1..n /\ \A k \in 1..n : s[k].speed \in Int
  <2>1. n \in Nat /\ DOMAIN s = 1..n /\ \A k \in 1..n : s[k] \in Elem
    OBVIOUS
  <2>. QED
    BY <2>1 DEF Elem
<1>. HIDE DEF n
<1>2. IsFiniteSet(1..n) /\ Cardinality(1..n) = n
  <2>1. IsFiniteSet(1..n) /\ Cardinality(1..n) = IF 1 > n THEN 0 ELSE n - 1 + 1
    BY <1>1, FS_Interval
  <2>. QED
    BY <1>1, <2>1
<1>3. ASSUME NEW k \in 1..n
      PROVE  /\ IsFiniteSet(upTo(k)) /\ k \in upTo(k)
             /\ RankIn(s, k) = Cardinality(upTo(k)) /\ RankIn(s, k) \in 1..n
  <2>1. upTo(k) \subseteq 1..n /\ k \in upTo(k) /\ RankIn(s, k) = Cardinality(upTo(k))
    BY <1>1 DEF NotAfter, RankIn
  <2>. HIDE DEF upTo
  <2>2. IsFiniteSet(upTo(k)) /\ Cardinality(upTo(k)) <= n
    BY <1>2, <2>1, FS_Subset
  <2>3. Cardinality(upTo(k)) \in Nat /\ Cardinality(upTo(k)) # 0
    BY <2>1, <2>2, FS_CardinalityType, FS_EmptySet
  <2>. QED
    BY <1>1, <2>1, <2>2, <2>3
<1>4. ASSUME NEW j \in 1..n, NEW k \in 1..n, ~NotAfter(s, j, k)
      PROVE  RankIn(s, k) < RankIn(s, j)
  <2>1. upTo(k) \subseteq upTo(j) /\ j \notin upTo(k)
    BY <1>1, <1>4 DEF NotAfter
  <2>2. IsFiniteSet(upTo(j)) /\ j \in upTo(j)
    BY <1>3
  <2>. HIDE DEF upTo
  <2>3. Cardinality(upTo(k)) < Cardinality(upTo(j))
    BY <2>1, <2>2, FS_Subset, FS_CardinalityType
  <2>. QED
    BY <1>3, <2>3
<1>5. \A j, k \in 1..n : RankIn(s, j) <= RankIn(s, k) => NotAfter(s, j, k)
  <2>. SUFFICES ASSUME NEW j \in 1..n, NEW k \in 1..n,
                       RankIn(s, j) <= RankIn(s, k), ~NotAfter(s, j, k)
                PROVE  FALSE
    OBVIOUS
  <2>1. RankIn(s, j) \in 1..n /\ RankIn(s, k) \in 1..n /\ RankIn(s, k) < RankIn(s, j)
    BY <1>3, <1>4
  <2>. QED
    BY <1>1, <2>1
<1>6. \A j, k \in 1..n : RankIn(s, j) = RankIn(s, k) => j = k
  <2>1. \A j, k \in 1..n : NotAfter(s, j, k) /\ NotAfter(s, k, j) => j = k
    BY <1>1 DEF NotAfter
  <2>2. \A k \in 1..n : RankIn(s, k) \in 1..n
    BY <1>3
  <2>. HIDE DEF upTo
  <2>. QED
    BY <1>1, <1>5, <2>1, <2>2
<1>7. \A r \in 1..n : \E k \in 1..n : RankIn(s, k) = r
  <2>. DEFINE rank == [k \in 1..n |-> RankIn(s, k)]
  <2>1. rank \in [1..n -> 1..n]
    BY <1>3
  <2>2. rank \in Injection(1..n, 1..n)
    BY <1>6, <2>1, Fun_IsInj
  <2>3. rank \in Surjection(1..n, 1..n)
    BY <1>2, <2>2, FS_Injection
  <2>4. \A r \in 1..n : \E k \in 1..n : rank[k] = r
    <3>. HIDE DEF rank
    <3>. QED
      BY <2>3, Fun_SurjectionProperties
  <2>. QED
    BY <2>4
<1>. HIDE DEF upTo
<1>8. \A k \in 1..n : RankIn(s, k) \in 1..n
  BY <1>3
<1>. QED
  BY <1>5, <1>6, <1>7, <1>8 DEF n

(* What is sorted is the list itself, rearranged by increasing speed.      *)
LEMMA SortingPermutes ==
  ASSUME NEW s \in Seq(Elem)
  PROVE  \E perm : /\ IsPermutation(perm, Len(s))
                   /\ SortedBySpeed(s) = Permuted(s, perm)
                   /\ SpeedsIncrease(SortedBySpeed(s))
<1>. DEFINE n == Len(s)
            perm == [r \in 1..n |-> CHOOSE k \in 1..n : RankIn(s, k) = r]
<1>1. n \in Nat /\ DOMAIN s = 1..n
  OBVIOUS
<1>2. /\ \A k \in 1..n : RankIn(s, k) \in 1..n
      /\ \A j, k \in 1..n : RankIn(s, j) <= RankIn(s, k) => NotAfter(s, j, k)
      /\ \A j, k \in 1..n : RankIn(s, j) = RankIn(s, k) => j = k
      /\ \A r \in 1..n : \E k \in 1..n : RankIn(s, k) = r
  BY RanksArePermuted
<1>3. SortedBySpeed(s) = [r \in 1..n |-> s[CHOOSE k \in 1..n : RankIn(s, k) = r]]
  BY <1>1 DEF SortedBySpeed, RankIn, NotAfter
<1>4. ASSUME NEW r \in 1..n
      PROVE  perm[r] \in 1..n /\ RankIn(s, perm[r]) = r
  BY <1>2
<1>5. SortedBySpeed(s) = Permuted(s, perm)
  BY <1>1, <1>3 DEF Permuted
<1>. HIDE DEF n
<1>6. IsPermutation(perm, n)
  <2>1. perm \in [1..n -> 1..n]
    BY <1>4
  <2>. HIDE DEF perm
  <2>2. \A m \in 1..n : \E r \in 1..n : perm[r] = m
    <3>1. ASSUME NEW m \in 1..n PROVE perm[RankIn(s, m)] = m
      <4>1. RankIn(s, m) \in 1..n
        BY <1>2
      <4>2. perm[RankIn(s, m)] \in 1..n /\ RankIn(s, perm[RankIn(s, m)]) = RankIn(s, m)
        BY <1>4, <4>1
      <4>. QED
        BY <1>2, <4>2, Zenon
    <3>. QED
      BY <1>2, <3>1
  <2>3. \A j, k \in 1..n : perm[j] = perm[k] => j = k
    BY <1>4
  <2>. QED
    BY <2>1, <2>2, <2>3 DEF IsPermutation
<1>7. SpeedsIncrease(SortedBySpeed(s))
  <2>. HIDE DEF perm
  <2>. SUFFICES ASSUME NEW j \in 1..n, NEW k \in 1..n, j <= k
                PROVE  s[perm[j]].speed <= s[perm[k]].speed
    BY <1>1, <1>5 DEF SpeedsIncrease, Permuted
  <2>1. NotAfter(s, perm[j], perm[k])
    BY <1>2, <1>4
  <2>2. s[perm[j]] \in Elem /\ s[perm[k]] \in Elem
    BY <1>1, <1>4 DEF n
  <2>. QED
    BY <2>1, <2>2 DEF NotAfter, Elem
<1>. QED
  BY <1>5, <1>6, <1>7 DEF n

LEMMA SortedList ==
  ASSUME NEW N, NEW s, Lists(s, N)
  PROVE  Lists(SortedBySpeed(s), N) /\ SpeedsIncrease(SortedBySpeed(s))
<1>1. s \in Seq(Elem)
  BY DEF Lists
<1>. QED
  BY <1>1, SortingPermutes, PermutedList

(* The sort is stable: what is sorted already stays as it is.              *)
LEMMA SortedStays ==
  ASSUME NEW s \in Seq(Elem), SpeedsIncrease(s)
  PROVE  SortedBySpeed(s) = s
<1>. DEFINE n == Len(s)
<1>1. n \in Nat /\ DOMAIN s = 1..n /\ \A k \in 1..n : s[k].speed \in Int
  <2>1. n \in Nat /\ DOMAIN s = 1..n /\ \A k \in 1..n : s[k] \in Elem
    OBVIOUS
  <2>. QED
    BY <2>1 DEF Elem
<1>. HIDE DEF n
<1>2. ASSUME NEW k \in 1..n PROVE RankIn(s, k) = k
  <2>1. {j \in 1..n : NotAfter(s, j, k)} = 1..k
    <3>1. \A j \in 1..n : NotAfter(s, j, k) <=> j <= k
      BY <1>1 DEF NotAfter, SpeedsIncrease
    <3>. QED
      BY <1>1, <3>1
  <2>2. Cardinality(1..k) = IF 1 > k THEN 0 ELSE k - 1 + 1
    BY <1>1, FS_Interval
  <2>3. RankIn(s, k) = Cardinality({j \in 1..n : NotAfter(s, j, k)})
    BY <1>1 DEF RankIn
  <2>4. Cardinality(1..k) = k
    <3>1. 1 <= k /\ k \in Int
      BY <1>1
    <3>. QED
      BY <2>2, <3>1
  <2>. QED
    BY <2>1, <2>3, <2>4, Zenon
<1>3. SortedBySpeed(s) = [r \in 1..n |-> s[CHOOSE k \in 1..n : RankIn(s, k) = r]]
  BY <1>1 DEF SortedBySpeed, RankIn, NotAfter
<1>4. \A r \in 1..n : (CHOOSE k \in 1..n : RankIn(s, k) = r) = r
  BY <1>2
<1>5. SortedBySpeed(s) = [r \in 1..n |-> s[r]]
  BY <1>3, <1>4
<1>. QED
  BY <1>1, <1>5

(* Reversing a part of a list rearranges it, and only that part.           *)
LEMMA ReversingPermutes ==
  ASSUME NEW s \in Seq(Elem), NEW a \in 1..Len(s), NEW b \in a..Len(s)
  PROVE  \E perm : /\ IsPermutation(perm, Len(s))
                   /\ ReversedBetween(s, a, b) = Permuted(s, perm)
                   /\ \A k \in 1..Len(s) : perm[k] = k \/ {k, perm[k]} \subseteq a..b
<1>. DEFINE n == Len(s)
            perm == [k \in 1..n |-> IF k < a \/ k > b THEN k ELSE a + b - k]
            before == SubSeq(s, 1, a - 1)
            middle == Reverse(SubSeq(s, a, b))
            after == SubSeq(s, b + 1, Len(s))
<1>1. n \in Nat /\ DOMAIN s = 1..n /\ (\A k \in 1..n : s[k] \in Elem) /\ b \in Nat /\ a \in Nat
       /\ 1 <= a /\ a <= b /\ b <= n
  OBVIOUS
<1>2. before \in Seq(Elem) /\ Len(before) = a - 1 /\ \A k \in 1..(a - 1) : before[k] = s[k]
  <2>1. 1 \in Int /\ a - 1 \in Int /\ \A k \in 1..(a - 1) : s[k] \in Elem
    BY <1>1
  <2>2. /\ before \in Seq(Elem)
        /\ Len(before) = IF 1 <= a - 1 THEN (a - 1) - 1 + 1 ELSE 0
        /\ \A k \in 1..((a - 1) - 1 + 1) : before[k] = s[1 + k - 1]
    BY <2>1, SubSeqProperties
  <2>. QED
    BY <1>1, <2>2
<1>3. /\ middle \in Seq(Elem) /\ Len(middle) = b - a + 1
      /\ \A k \in 1..(b - a + 1) : middle[k] = s[b - k + 1]
  <2>. DEFINE part == SubSeq(s, a, b)
  <2>1. /\ part \in Seq(Elem)
        /\ Len(part) = IF a <= b THEN b - a + 1 ELSE 0
        /\ \A k \in 1..(b - a + 1) : part[k] = s[a + k - 1]
    BY <1>1, SubSeqProperties
  <2>2. middle = [k \in 1..(b - a + 1) |-> part[(b - a + 1 - k) + 1]]
    BY <1>1, <2>1 DEF Reverse
  <2>. HIDE DEF part, middle
  <2>3. \A k \in 1..(b - a + 1) : middle[k] = s[b - k + 1] /\ middle[k] \in Elem
    BY <1>1, <2>1, <2>2
  <2>4. middle \in [1..(b - a + 1) -> Elem] /\ b - a + 1 \in Nat
    BY <1>1, <2>2, <2>3
  <2>. QED
    BY <2>3, <2>4, FunctionIsSequence
<1>4. after \in Seq(Elem) /\ Len(after) = n - b /\ \A k \in 1..(n - b) : after[k] = s[b + k]
  <2>1. b + 1 \in Int /\ n \in Int /\ \A k \in (b + 1)..n : s[k] \in Elem
    BY <1>1
  <2>2. /\ after \in Seq(Elem)
        /\ Len(after) = IF b + 1 <= n THEN n - (b + 1) + 1 ELSE 0
        /\ \A k \in 1..(n - (b + 1) + 1) : after[k] = s[b + 1 + k - 1]
    <3>. HIDE DEF n
    <3>. QED
      BY <2>1, SubSeqProperties DEF n
  <2>. HIDE DEF n, after
  <2>3. Len(after) = n - b
    BY <1>1, <2>2
  <2>4. ASSUME NEW k \in 1..(n - b) PROVE after[k] = s[b + k]
    <3>1. k \in 1..(n - (b + 1) + 1) /\ b + 1 + k - 1 = b + k
      BY <1>1
    <3>. QED
      BY <2>2, <3>1
  <2>. QED
    BY <2>2, <2>3, <2>4
<1>. HIDE DEF n, before, middle, after
<1>. DEFINE upToB == before \o middle
            whole == upToB \o after
<1>5. /\ upToB \in Seq(Elem)
      /\ Len(upToB) = b
      /\ \A k \in 1..b : upToB[k] =
                           IF k < a THEN before[k] ELSE middle[k - (a - 1)]
  <2>1. /\ upToB \in Seq(Elem)
        /\ Len(upToB) = Len(before) + Len(middle)
        /\ \A k \in 1..(Len(before) + Len(middle)) :
             upToB[k] = IF k <= Len(before) THEN before[k]
                                     ELSE middle[k - Len(before)]
    BY <1>2, <1>3, ConcatProperties
  <2>. HIDE DEF upToB
  <2>. QED
    BY <1>1, <1>2, <1>3, <2>1
<1>. HIDE DEF upToB
<1>6. /\ whole \in Seq(Elem)
      /\ Len(whole) = n
      /\ \A k \in 1..n : whole[k] =
                           IF k <= b THEN upToB[k] ELSE after[k - b]
  <2>1. /\ whole \in Seq(Elem)
        /\ Len(whole) = Len(upToB) + Len(after)
        /\ \A k \in 1..(Len(upToB) + Len(after)) :
             whole[k] = IF k <= Len(upToB) THEN upToB[k]
                        ELSE after[k - Len(upToB)]
    BY <1>4, <1>5, ConcatProperties
  <2>. HIDE DEF whole
  <2>2. Len(upToB) = b /\ b + Len(after) = n
    BY <1>1, <1>4, <1>5
  <2>. QED
    BY <2>1, <2>2
<1>7. ReversedBetween(s, a, b) = whole
  BY DEF ReversedBetween, before, middle, after, upToB, n
<1>. HIDE DEF whole
<1>8. perm \in [1..n -> 1..n]
  BY <1>1
<1>9. ASSUME NEW k \in 1..n PROVE ReversedBetween(s, a, b)[k] = s[perm[k]]
  <2>1. CASE k < a
    BY <1>1, <1>2, <1>5, <1>6, <1>7, <2>1
  <2>2. CASE a <= k /\ k <= b
    <3>1. k - (a - 1) \in 1..(b - a + 1) /\ b - (k - (a - 1)) + 1 = a + b - k
      BY <1>1, <2>2
    <3>2. middle[k - (a - 1)] = s[a + b - k]
      BY <1>3, <3>1
    <3>. QED
      BY <1>1, <1>5, <1>6, <1>7, <2>2, <3>2
  <2>3. CASE k > b
    <3>1. k - b \in 1..(n - b) /\ b + (k - b) = k
      BY <1>1, <2>3
    <3>. QED
      BY <1>1, <1>4, <1>6, <1>7, <2>3, <3>1
  <2>. QED
    BY <1>1, <2>1, <2>2, <2>3
<1>10. IsPermutation(perm, n)
  <2>1. \A k \in 1..n : perm[perm[k]] = k
    BY <1>1
  <2>. HIDE DEF perm
  <2>. QED
    BY <1>8, <2>1 DEF IsPermutation
<1>11. ReversedBetween(s, a, b) = Permuted(s, perm)
  <2>. HIDE DEF perm
  <2>1. Permuted(s, perm) = [k \in 1..n |-> s[perm[k]]]
    BY <1>1 DEF Permuted
  <2>2. Permuted(s, perm) \in Seq(Elem) /\ Len(Permuted(s, perm)) = n
    <3>1. [k \in 1..n |-> s[perm[k]]] \in [1..n -> Elem]
      BY <1>1, <1>8
    <3>. QED
      BY <1>1, <2>1, <3>1, FunctionIsSequence
  <2>. QED
    BY <1>6, <1>7, <1>9, <2>1, <2>2, SeqEqual
<1>12. \A k \in 1..n : perm[k] = k \/ {k, perm[k]} \subseteq a..b
  BY <1>1
<1>. HIDE DEF perm
<1>. QED
  BY <1>10, <1>11, <1>12 DEF n

LEMMA CustomSortKeepsList ==
  ASSUME NEW N, NEW base, NEW s, Lists(s, N)
  PROVE  Lists(CustomSort(base, s), N)
<1>. DEFINE t == SortedBySpeed(s)
            n == Len(t)
            Pairs == 1..(n - 1)
            BaseSpeedOf(id) ==
              IF WithId(base, id) = {} THEN 0 ELSE base[Max(WithId(base, id))].speed
            misplaced ==
              {k \in Pairs : /\ t[k].speed = t[k + 1].speed
                             /\ BaseSpeedOf(t[k].id) > BaseSpeedOf(t[k + 1].id)}
            groupEnds == {k \in Pairs : t[k].speed # t[k + 1].speed}
<1>1. Lists(t, N)
  BY SortedList
<1>2. CustomSort(base, s) =
        IF misplaced = {} \/ groupEnds = {} \/ Min(groupEnds) < Min(misplaced) THEN t
        ELSE ReversedBetween(t, Min(misplaced), Min(groupEnds))
  BY DEF CustomSort, EqualsReordered
<1>3. t \in Seq(Elem) /\ n \in Nat
  <2>1. t \in Seq(Elem)
    BY <1>1 DEF Lists
  <2>. QED
    BY <2>1
<1>4. misplaced \subseteq Pairs /\ groupEnds \subseteq Pairs
  OBVIOUS
<1>. HIDE DEF misplaced, groupEnds, t
<1>5. CASE misplaced = {} \/ groupEnds = {} \/ Min(groupEnds) < Min(misplaced)
  BY <1>1, <1>2, <1>5
<1>6. CASE ~(misplaced = {} \/ groupEnds = {} \/ Min(groupEnds) < Min(misplaced))
  <2>1. misplaced \in SUBSET Nat /\ groupEnds \in SUBSET Nat
    BY <1>3, <1>4
  <2>2. Min(misplaced) \in Pairs /\ Min(groupEnds) \in Pairs
    BY <1>4, <1>6, <2>1, LeastIsMin
  <2>3. Min(misplaced) \in 1..n /\ Min(groupEnds) \in Min(misplaced)..n
    BY <1>3, <1>6, <2>2
  <2>4. PICK perm : /\ IsPermutation(perm, n)
                    /\ ReversedBetween(t, Min(misplaced), Min(groupEnds)) = Permuted(t, perm)
    BY <1>3, <2>3, ReversingPermutes
  <2>5. Lists(Permuted(t, perm), N)
    BY <1>1, <2>4, PermutedList
  <2>. QED
    BY <1>2, <1>6, <2>4, <2>5
<1>. QED
  BY <1>5, <1>6

-----------------------------------------------------------------------------
(* The rounds of a turn.                                                   *)

TurnType == [complete : BOOLEAN, analyzed : Seq(Elem), priority : Seq(Elem)]

(* A turn of the participants N: the slowest of the base has not played    *)
(* until it is complete, then he opens the priority, the last to play.     *)
GoodTurn(turn, base, N) ==
  /\ turn \in TurnType
  /\ Lists(turn.analyzed, N)
  /\ \A k \in DOMAIN turn.priority : Named(turn.priority[k]) \in N
  /\ turn.complete =>
       /\ turn.priority # << >>
       /\ \A k \in DOMAIN turn.priority : turn.priority[k].id = base[1].id <=> k = 1
  /\ ~turn.complete => \A k \in DOMAIN turn.priority : turn.priority[k].id # base[1].id

LEMMA ComputedSpeedIsNumber ==
  ASSUME NEW base \in Seq(Elem), NEW analyzed \in Seq(Elem), NEW id
  PROVE  ComputedSpeed(base, analyzed, id) \in Int
<1>. DEFINE slowerId(k) == base[IF k = 1 THEN Len(base) ELSE k - 1].id
            found == {k \in WithId(base, id) : WithId(analyzed, slowerId(k)) # {}}
            slower == WithId(analyzed, slowerId(Min(found)))
<1>1. ComputedSpeed(base, analyzed, id) =
        IF found = {} \/ analyzed[Min(slower)].speed = 0 THEN 1
        ELSE analyzed[Min(slower)].speed
  BY DEF ComputedSpeed
<1>2. CASE found = {}
  BY <1>1, <1>2
<1>3. CASE found # {}
  <2>1. found \in SUBSET Nat
    BY DEF WithId
  <2>2. Min(found) \in found
    <3>. HIDE DEF found
    <3>. QED
      BY <1>3, <2>1, LeastIsMin
  <2>3. slower # {} /\ slower \subseteq DOMAIN analyzed
    BY <2>2 DEF WithId
  <2>4. DOMAIN analyzed = 1..Len(analyzed) /\ Len(analyzed) \in Nat
    OBVIOUS
  <2>. HIDE DEF slower, found
  <2>5. Min(slower) \in 1..Len(analyzed)
    <3>1. slower \in SUBSET Nat
      BY <2>3, <2>4
    <3>. QED
      BY <2>3, <2>4, <3>1, LeastIsMin
  <2>6. analyzed[Min(slower)] \in Elem
    BY <2>5
  <2>. QED
    BY <1>1, <2>6 DEF Elem
<1>. QED
  BY <1>2, <1>3

LEMMA LastAppended ==
  ASSUME NEW S, NEW s \in Seq(S), NEW e \in S
  PROVE  /\ Append(s, e) \in Seq(S)
         /\ Len(Append(s, e)) = Len(s) + 1
         /\ \A k \in 1..Len(s) : Append(s, e)[k] = s[k]
         /\ Append(s, e)[Len(s) + 1] = e
         /\ Last(Append(s, e)) = e
         /\ Front(Append(s, e)) = s
<1>1. /\ Append(s, e) \in Seq(S)
      /\ Len(Append(s, e)) = Len(s) + 1
      /\ \A k \in 1..Len(s) : Append(s, e)[k] = s[k]
      /\ Append(s, e)[Len(s) + 1] = e
  OBVIOUS
<1>2. Last(Append(s, e)) = e
  BY <1>1 DEF Last
<1>3. Front(Append(s, e)) = s
  <2>1. Len(s) \in Nat /\ (Len(s) + 1) - 1 = Len(s)
    OBVIOUS
  <2>2. \A k \in 1..Len(s) : Append(s, e)[k] \in S
    BY <1>1
  <2>3. /\ SubSeq(Append(s, e), 1, Len(s)) \in Seq(S)
        /\ Len(SubSeq(Append(s, e), 1, Len(s))) = IF 1 <= Len(s) THEN Len(s) - 1 + 1 ELSE 0
        /\ \A k \in 1..(Len(s) - 1 + 1) :
             SubSeq(Append(s, e), 1, Len(s))[k] = Append(s, e)[1 + k - 1]
    BY <2>1, <2>2, SubSeqProperties
  <2>4. \A k \in 1..Len(s) : SubSeq(Append(s, e), 1, Len(s))[k] = s[k]
    <3>1. \A k \in 1..Len(s) : k \in 1..(Len(s) - 1 + 1) /\ 1 + k - 1 = k
      BY <2>1
    <3>. QED
      BY <1>1, <2>3, <3>1
  <2>5. Len(SubSeq(Append(s, e), 1, Len(s))) = Len(s)
    BY <2>1, <2>3
  <2>6. SubSeq(Append(s, e), 1, Len(s)) = s
    BY <2>3, <2>4, <2>5, SeqEqual
  <2>. QED
    BY <1>1, <2>1, <2>6 DEF Front
<1>. QED
  BY <1>1, <1>2, <1>3

LEMMA FrontAndLast ==
  ASSUME NEW S, NEW s \in Seq(S), s # << >>
  PROVE  /\ Len(s) \in Nat \ {0} /\ Last(s) \in S /\ Last(s) = s[Len(s)]
         /\ Front(s) \in Seq(S) /\ Len(Front(s)) = Len(s) - 1
         /\ \A k \in 1..(Len(s) - 1) : Front(s)[k] = s[k]
<1>1. PICK t \in Seq(S), e \in S : s = Append(t, e)
  BY SequenceEmptyOrAppend
<1>. QED
  BY <1>1, LastAppended

LEMMA SpeedChanges ==
  ASSUME NEW e \in Elem, NEW speed \in Int
  PROVE  /\ [e EXCEPT !.speed = speed] \in Elem
         /\ Named([e EXCEPT !.speed = speed]) = Named(e)
  BY DEF Elem, Named

(* Playing costs speed, nothing else.                                      *)
LEMMA PlayedKeepsList ==
  ASSUME NEW N, NEW base \in Seq(Elem), NEW s, Lists(s, N), s # << >>,
         NEW priority \in Seq(Elem)
  PROVE  LET turn == Played(base, s, priority) IN
         /\ turn \in TurnType /\ turn.complete = FALSE
         /\ Lists(turn.analyzed, N)
         /\ Last(turn.analyzed) \in Elem
         /\ Named(Last(turn.analyzed)) \in N
         /\ turn.priority = Append(priority, Last(turn.analyzed))
<1>. DEFINE cost == IF Len(s) > 1 THEN ComputedSpeed(base, s, Last(s).id) ELSE 0
            fastest == [Last(s) EXCEPT !.speed = @ - cost]
            turn == Played(base, s, priority)
<1>1. s \in Seq(Elem)
  BY DEF Lists
<1>2. /\ Len(s) \in Nat \ {0} /\ Last(s) \in Elem /\ Last(s) = s[Len(s)]
      /\ Front(s) \in Seq(Elem) /\ Len(Front(s)) = Len(s) - 1
      /\ \A k \in 1..(Len(s) - 1) : Front(s)[k] = s[k]
  BY <1>1, FrontAndLast
<1>3. cost \in Int
  BY <1>1, ComputedSpeedIsNumber
<1>4. fastest \in Elem /\ Named(fastest) = Named(Last(s))
  <2>. HIDE DEF cost
  <2>1. Last(s).speed \in Int
    BY <1>2 DEF Elem
  <2>2. Last(s).speed - cost \in Int
    BY <1>3, <2>1
  <2>. QED
    BY <1>2, <2>2, SpeedChanges
<1>5. turn = [complete |-> FALSE, analyzed |-> Append(Front(s), fastest),
              priority |-> Append(priority, fastest)]
  BY DEF Played
<1>. HIDE DEF fastest, turn
<1>6. /\ Append(Front(s), fastest) \in Seq(Elem)
      /\ Len(Append(Front(s), fastest)) = Len(Front(s)) + 1
      /\ \A k \in 1..Len(Front(s)) : Append(Front(s), fastest)[k] = Front(s)[k]
      /\ Append(Front(s), fastest)[Len(Front(s)) + 1] = fastest
      /\ Last(Append(Front(s), fastest)) = fastest
  BY <1>2, <1>4, LastAppended
<1>7. Lists(turn.analyzed, N)
  <2>. DEFINE t == Append(Front(s), fastest)
  <2>1. Len(t) = Len(s) /\ t[Len(s)] = fastest /\ \A k \in 1..(Len(s) - 1) : t[k] = s[k]
    BY <1>2, <1>6
  <2>. HIDE DEF t
  <2>2. \A k \in 1..Len(s) : Named(t[k]) = Named(s[k])
    BY <1>2, <1>4, <2>1
  <2>3. Lists(t, N)
    BY <1>6, <2>1, <2>2, SameNamesSameList DEF t
  <2>. QED
    BY <1>5, <2>3 DEF t
<1>8. Named(fastest) \in N
  BY <1>1, <1>2, <1>4 DEF Lists
<1>9. turn \in TurnType
  BY <1>4, <1>5, <1>6 DEF TurnType
<1>. QED
  BY <1>4, <1>5, <1>6, <1>7, <1>8, <1>9 DEF turn

(* What the base elements S give at the end of a turn.                     *)
GainOf(base, b) == base[b].speed + FastestBaseSpeed(base)

TotalGain(base, S) ==
  MapThenSumSet(LAMBDA b : base[b].speed + FastestBaseSpeed(base), S)

(* found sums it up, element by element.                                   *)
SumsGains(found, base, S) ==
  \A s \in SUBSET S :
    found[s] = IF s = {} THEN 0
               ELSE GainOf(base, CHOOSE x \in s : TRUE)
                      + found[s \ {CHOOSE x \in s : TRUE}]

LEMMA GainSteps ==
  ASSUME NEW base \in Seq(Elem), base # << >>, NEW S \in SUBSET DOMAIN base
  PROVE  /\ IsFiniteSet(S)
         /\ \A b \in S : GainOf(base, b) \in Int
         /\ \E found : TotalGain(base, S) = found[S] /\ SumsGains(found, base, S)
<1>. DEFINE T == Int
            gain(b) == GainOf(base, b)
            c == [s \in (SUBSET S) \ {{}} |-> CHOOSE x \in s : TRUE]
            op == [pair \in T \X S |-> gain(pair[2]) + pair[1]]
            Body(iter) ==
              [s \in SUBSET S |->
                 IF s = {} THEN 0
                 ELSE gain(CHOOSE x \in s : TRUE) + iter[s \ {CHOOSE x \in s : TRUE}]]
            found == CHOOSE iter : iter = Body(iter)
<1>0. IsFiniteSet(S) /\ \A b \in S : gain(b) \in Int
  <2>1. /\ DOMAIN base = 1..Len(base) /\ Len(base) \in Nat \ {0}
        /\ \A k \in 1..Len(base) : base[k] \in Elem
    OBVIOUS
  <2>2. \A k \in 1..Len(base) : base[k].speed \in Int
    BY <2>1 DEF Elem
  <2>3. FastestBaseSpeed(base) \in Int
    BY <2>1, <2>2 DEF FastestBaseSpeed
  <2>4. IsFiniteSet(1..Len(base))
    BY <2>1, FS_Interval
  <2>. QED
    BY <2>1, <2>2, <2>3, <2>4, FS_Subset DEF GainOf
<1>. HIDE DEF gain
<1>1. \A s \in (SUBSET S) \ {{}} : c[s] \in s
  OBVIOUS
<1>2. c \in [(SUBSET S) \ {{}} -> S]
  OBVIOUS
<1>3. op \in [T \X S -> T] /\ 0 \in T
  BY <1>0
<1>4. PICK fold \in [SUBSET S -> T] : IsSetFold(fold, S, 0, op, c)
  <2>. HIDE DEF c, op, T
  <2>. QED
    BY <1>0, <1>1, <1>2, <1>3, SetFoldExists
<1>5. fold = Body(fold)
  <2>1. ASSUME NEW s \in SUBSET S, s # {}
        PROVE  fold[s] = gain(CHOOSE x \in s : TRUE) + fold[s \ {CHOOSE x \in s : TRUE}]
    <3>1. c[s] = (CHOOSE x \in s : TRUE) /\ c[s] \in S /\ s \ {c[s]} \in SUBSET S
      BY <1>2, <2>1
    <3>2. fold[s] = op[<<fold[s \ {c[s]}], c[s]>>]
      BY <1>4, <2>1 DEF IsSetFold
    <3>. HIDE DEF c
    <3>. QED
      BY <3>1, <3>2
  <2>2. fold[{}] = 0
    BY <1>4 DEF IsSetFold
  <2>. QED
    BY <2>1, <2>2
<1>6. found = Body(found)
  <2>. HIDE DEF Body
  <2>. QED
    BY <1>5
<1>7. TotalGain(base, S) = found[S]
  BY Zenon DEF TotalGain, MapThenSumSet, MapThenFoldSet, gain, GainOf
<1>. HIDE DEF found
<1>8. ASSUME NEW s \in SUBSET S
      PROVE  found[s] = IF s = {} THEN 0
                        ELSE gain(CHOOSE x \in s : TRUE) + found[s \ {CHOOSE x \in s : TRUE}]
  BY <1>6
<1>. QED
  BY <1>0, <1>7, <1>8 DEF gain, SumsGains

(* What a participant gains at the end of a turn is a number.              *)
LEMMA GainIsNumber ==
  ASSUME NEW base \in Seq(Elem), base # << >>, NEW S \in SUBSET DOMAIN base
  PROVE  TotalGain(base, S) \in Int
<1>. DEFINE c == [s \in (SUBSET S) \ {{}} |-> CHOOSE x \in s : TRUE]
<1>1. IsFiniteSet(S) /\ \A b \in S : GainOf(base, b) \in Int
  BY GainSteps
<1>2. PICK found : TotalGain(base, S) = found[S] /\ SumsGains(found, base, S)
  BY GainSteps
<1>3. found[{}] \in Int
  <2>1. {} \in SUBSET S
    OBVIOUS
  <2>2. found[{}] = 0
    BY <1>2, <2>1 DEF SumsGains
  <2>. QED
    BY <2>2
<1>4. ASSUME NEW s \in (SUBSET S) \ {{}}
      PROVE  c[s] \in s /\ (found[s \ {c[s]}] \in Int => found[s] \in Int)
  <2>1. c[s] = (CHOOSE x \in s : TRUE) /\ c[s] \in s /\ c[s] \in S
    OBVIOUS
  <2>2. found[s] = GainOf(base, c[s]) + found[s \ {c[s]}]
    BY <1>2, <2>1 DEF SumsGains
  <2>3. GainOf(base, c[s]) \in Int
    BY <1>1, <2>1
  <2>. QED
    BY <2>1, <2>2, <2>3
<1>. HIDE DEF c
<1>5. StaysIn(found, S, Int, c)
  BY <1>3, <1>4 DEF StaysIn
<1>6. \A s \in SUBSET S : found[s] \in Int
  BY <1>1, <1>5, SetFoldStays
<1>. QED
  BY <1>2, <1>6

(* A single element gives its speed and the fastest one.                   *)
LEMMA GainOfOne ==
  ASSUME NEW base \in Seq(Elem), base # << >>, NEW b \in DOMAIN base
  PROVE  TotalGain(base, {b}) = GainOf(base, b) /\ GainOf(base, b) \in Int
<1>. DEFINE S == {b}
<1>1. S \in SUBSET DOMAIN base /\ b \in S
  OBVIOUS
<1>2. S # {} /\ S \in SUBSET S /\ {} \in SUBSET S
      /\ (CHOOSE x \in S : TRUE) = b /\ S \ {b} = {}
  OBVIOUS
<1>. HIDE DEF S
<1>3. GainOf(base, b) \in Int
  BY <1>1, GainSteps
<1>4. PICK found : TotalGain(base, S) = found[S] /\ SumsGains(found, base, S)
  BY <1>1, GainSteps
<1>5. found[{}] = 0 /\ found[S] = GainOf(base, b) + found[{}]
  BY <1>2, <1>4 DEF SumsGains
<1>6. found[S] = GainOf(base, b)
  BY <1>3, <1>5
<1>. QED
  BY <1>3, <1>4, <1>6 DEF S

LEMMA RestKeepsList ==
  ASSUME NEW N, NEW base \in Seq(Elem), base # << >>,
         NEW turn \in TurnType, Lists(turn.analyzed, N)
  PROVE  LET ended == EndTurnRoutine(base, turn) IN
         /\ ended \in TurnType /\ ended.complete = TRUE
         /\ Lists(ended.analyzed, N)
         /\ Len(base) <= 1 => ended.priority = turn.priority
         /\ ~(Len(base) <= 1) => ended.priority = Reverse(turn.priority)
<1>. DEFINE a == turn.analyzed
            givers(k) == {b \in WithId(base, a[k].id) : k = Min(WithId(a, base[b].id))}
            Gain(k) == TotalGain(base, givers(k))
            rested == [k \in DOMAIN a |-> [a[k] EXCEPT !.speed = @ + Gain(k)]]
<1>1. EndTurnRoutine(base, turn) =
        IF Len(base) <= 1 THEN [turn EXCEPT !.complete = TRUE]
        ELSE [complete |-> TRUE, analyzed |-> CustomSort(base, rested),
              priority |-> Reverse(turn.priority)]
  BY Zenon DEF EndTurnRoutine, TotalGain
<1>2. ASSUME NEW k \in DOMAIN a PROVE Gain(k) \in Int
  <2>1. givers(k) \in SUBSET DOMAIN base
    BY DEF WithId
  <2>. HIDE DEF givers
  <2>. QED
    BY <2>1, GainIsNumber
<1>. HIDE DEF Gain
<1>3. a \in Seq(Elem) /\ Len(a) \in Nat /\ DOMAIN a = 1..Len(a)
      /\ \A k \in DOMAIN a : a[k] \in Elem
  <2>1. a \in Seq(Elem)
    BY DEF TurnType
  <2>. QED
    BY <2>1
<1>. HIDE DEF a
<1>4. ASSUME NEW k \in DOMAIN a
      PROVE  rested[k] \in Elem /\ Named(rested[k]) = Named(a[k])
  <2>1. a[k].speed \in Int
    BY <1>3 DEF Elem
  <2>2. a[k].speed + Gain(k) \in Int
    BY <1>2, <2>1
  <2>. QED
    BY <1>3, <2>2, SpeedChanges
<1>5. Lists(rested, N)
  <2>1. rested \in [1..Len(a) -> Elem]
    BY <1>3, <1>4
  <2>2. rested \in Seq(Elem) /\ Len(rested) = Len(a)
    <3>. HIDE DEF rested
    <3>. QED
      BY <1>3, <2>1, FunctionIsSequence
  <2>. HIDE DEF rested
  <2>3. Lists(a, N)
    BY DEF a
  <2>. QED
    BY <1>3, <1>4, <2>2, <2>3, SameNamesSameList
<1>6. Lists(CustomSort(base, rested), N)
  BY <1>5, CustomSortKeepsList
<1>7. CustomSort(base, rested) \in Seq(Elem)
  BY <1>6 DEF Lists
<1>8. Reverse(turn.priority) \in Seq(Elem)
  <2>. DEFINE p == turn.priority
  <2>1. p \in Seq(Elem)
    BY DEF TurnType
  <2>. HIDE DEF p
  <2>2. /\ Len(p) \in Nat
        /\ \A k \in 1..Len(p) : p[Len(p) - k + 1] \in Elem
    BY <2>1
  <2>3. Reverse(p) \in [1..Len(p) -> Elem]
    BY <2>2 DEF Reverse
  <2>. QED
    BY <2>2, <2>3, FunctionIsSequence DEF p
<1>. HIDE DEF rested
<1>9. CASE Len(base) <= 1
  <2>1. /\ [turn EXCEPT !.complete = TRUE] \in TurnType
        /\ [turn EXCEPT !.complete = TRUE].complete = TRUE
        /\ [turn EXCEPT !.complete = TRUE].analyzed = turn.analyzed
        /\ [turn EXCEPT !.complete = TRUE].priority = turn.priority
    BY DEF TurnType
  <2>. QED
    BY <1>1, <1>9, <2>1
<1>10. CASE ~(Len(base) <= 1)
  BY <1>1, <1>6, <1>7, <1>8, <1>10 DEF TurnType
<1>. QED
  BY <1>9, <1>10

LEMMA NotEmpty ==
  ASSUME NEW N, NEW s, Lists(s, N), NEW t, Lists(t, N), s # << >>
  PROVE  t # << >>
<1>1. s \in Seq(Elem) /\ t \in Seq(Elem)
  BY DEF Lists
<1>2. 1 \in DOMAIN s
  BY <1>1
<1>3. PICK k \in DOMAIN t : Named(t[k]) = Named(s[1])
  BY <1>2 DEF Lists
<1>. QED
  BY <1>1, <1>3

(* One round takes a turn that is not complete further.                    *)
LEMMA RoundIsGood ==
  ASSUME NEW N, NEW base, Lists(base, N), base # << >>,
         NEW turn, GoodTurn(turn, base, N), ~turn.complete
  PROVE  GoodTurn(Round(base, turn), base, N) /\ Round(base, turn).priority # << >>
<1>. DEFINE s == CustomSort(base, turn.analyzed)
            q == turn.priority
            played == Played(base, s, q)
            e == Last(played.analyzed)
            P == Append(q, e)
            n == Len(q)
<1>1. base \in Seq(Elem) /\ q \in Seq(Elem) /\ n \in Nat
  <2>1. base \in Seq(Elem) /\ q \in Seq(Elem)
    BY DEF Lists, GoodTurn, TurnType
  <2>. QED
    BY <2>1
<1>2. Lists(s, N) /\ s # << >>
  BY CustomSortKeepsList, NotEmpty DEF GoodTurn
<1>. HIDE DEF s, q
<1>3. /\ played \in TurnType /\ played.complete = FALSE
      /\ Lists(played.analyzed, N) /\ e \in Elem /\ Named(e) \in N
      /\ played.priority = P
  BY <1>1, <1>2, PlayedKeepsList
<1>4. Round(base, turn) = IF base[1].id = e.id THEN EndTurnRoutine(base, played)
                          ELSE played
  BY DEF Round, EndedBySlowest, IsPlayerSlowest, s, q
<1>. HIDE DEF played, e
<1>5. /\ P \in Seq(Elem) /\ Len(P) = n + 1 /\ P[n + 1] = e
      /\ \A k \in 1..n : P[k] = q[k]
  BY <1>1, <1>3, LastAppended
<1>. HIDE DEF P
<1>6. DOMAIN P = 1..(n + 1) /\ DOMAIN q = 1..n
  BY <1>1, <1>5
<1>. HIDE DEF n
<1>7. \A k \in 1..n : Named(q[k]) \in N /\ q[k].id # base[1].id
  BY <1>6 DEF GoodTurn, q
<1>8. \A k \in DOMAIN P : Named(P[k]) \in N
  BY <1>1, <1>3, <1>5, <1>6, <1>7
<1>9. CASE base[1].id # e.id
  <2>1. \A k \in DOMAIN P : P[k].id # base[1].id
    BY <1>1, <1>5, <1>6, <1>7, <1>9
  <2>2. P # << >>
    BY <1>1, <1>5
  <2>. QED
    BY <1>3, <1>4, <1>8, <1>9, <2>1, <2>2 DEF GoodTurn
<1>10. CASE base[1].id = e.id
  <2>. DEFINE ended == EndTurnRoutine(base, played)
  <2>1. /\ ended \in TurnType /\ ended.complete = TRUE
        /\ Lists(ended.analyzed, N)
        /\ Len(base) <= 1 => ended.priority = P
        /\ ~(Len(base) <= 1) => ended.priority = Reverse(P)
    BY <1>1, <1>3, RestKeepsList
  <2>2. CASE Len(base) <= 1
    <3>1. n = 0
      <4>1. SUFFICES ASSUME n # 0 PROVE FALSE
        OBVIOUS
      <4>2. 1 \in 1..n
        BY <1>1, <4>1
      <4>3. PICK k \in DOMAIN base : Named(base[k]) = Named(q[1])
        BY <1>7, <4>2 DEF Lists
      <4>4. k = 1
        BY <1>1, <2>2
      <4>. QED
        BY <1>7, <4>2, <4>3, <4>4 DEF Named
    <3>2. /\ P # << >> /\ DOMAIN P = 1..1
          /\ \A k \in DOMAIN P : P[k].id = base[1].id <=> k = 1
      <4>1. DOMAIN P = 1..1
        BY <1>6, <3>1
      <4>2. P[1] = e /\ P # << >>
        BY <1>5, <3>1, <4>1
      <4>. QED
        BY <1>10, <4>1, <4>2
    <3>. QED
      BY <1>4, <1>8, <1>10, <2>1, <2>2, <3>2 DEF GoodTurn
  <2>3. CASE ~(Len(base) <= 1)
    <3>. DEFINE R == Reverse(P)
    <3>1. R = [k \in 1..Len(P) |-> P[(Len(P) - k) + 1]]
      BY DEF Reverse
    <3>2. R[1] = e /\ \A k \in 2..(n + 1) : R[k] = q[n + 2 - k] /\ n + 2 - k \in 1..n
      <4>1. R = [k \in 1..(n + 1) |-> P[((n + 1) - k) + 1]]
        BY <1>5, <3>1
      <4>. HIDE DEF R
      <4>2. 1 \in 1..(n + 1) /\ ((n + 1) - 1) + 1 = n + 1
        BY <1>1
      <4>3. R[1] = e
        BY <1>5, <4>1, <4>2
      <4>4. ASSUME NEW k \in 2..(n + 1)
            PROVE  R[k] = q[n + 2 - k] /\ n + 2 - k \in 1..n
        <5>1. k \in 1..(n + 1) /\ ((n + 1) - k) + 1 = n + 2 - k /\ n + 2 - k \in 1..n
          BY <1>1
        <5>. QED
          BY <1>5, <4>1, <5>1
      <4>. QED
        BY <4>3, <4>4
    <3>. HIDE DEF R
    <3>3. R # << >> /\ DOMAIN R = 1..(n + 1)
      <4>1. DOMAIN R = 1..(n + 1)
        BY <1>5, <3>1
      <4>2. 1 \in DOMAIN R
        BY <1>1, <4>1
      <4>3. DOMAIN << >> = {}
        OBVIOUS
      <4>. QED
        BY <4>1, <4>2, <4>3
    <3>4. \A k \in DOMAIN R : Named(R[k]) \in N
      BY <1>1, <1>3, <1>7, <3>2, <3>3
    <3>5. \A k \in DOMAIN R : R[k].id = base[1].id <=> k = 1
      BY <1>1, <1>7, <1>10, <3>2, <3>3
    <3>. QED
      BY <1>4, <1>10, <2>1, <2>3, <3>3, <3>4, <3>5 DEF GoodTurn, R
  <2>. QED
    BY <2>2, <2>3
<1>. QED
  BY <1>9, <1>10

(* The rounds of a computation of a turn, one after the other.             *)
AreRounds(rounds, base, analyzed) ==
  /\ rounds[0] = [complete |-> FALSE, analyzed |-> analyzed, priority |-> << >>]
  /\ \A n \in 0..(MaxRounds - 1) :
       rounds[n + 1] = IF rounds[n].complete THEN rounds[n] ELSE Round(base, rounds[n])

LEMMA RoundsAreGood ==
  ASSUME NEW N, NEW base, Lists(base, N), base # << >>,
         NEW analyzed, Lists(analyzed, N)
  PROVE  \E rounds : /\ AreRounds(rounds, base, analyzed)
                     /\ CalculatePriority(base, analyzed) = rounds[MaxRounds]
                     /\ \A n \in 0..MaxRounds : GoodTurn(rounds[n], base, N)
<1>. DEFINE T == {turn \in TurnType : GoodTurn(turn, base, N)}
            first == [complete |-> FALSE, analyzed |-> analyzed, priority |-> << >>]
            Then(turn) == IF turn.complete THEN turn ELSE Round(base, turn)
            op == [pair \in T \X Nat |-> Then(pair[1])]
            Body(rounds) ==
              [n \in 0..MaxRounds |->
                 IF n = 0 THEN first ELSE Then(rounds[n - 1])]
            found == CHOOSE rounds : rounds = Body(rounds)
<1>1. first \in T
  <2>1. analyzed \in Seq(Elem)
    BY DEF Lists
  <2>2. first \in TurnType
    BY <2>1 DEF TurnType
  <2>3. GoodTurn(first, base, N)
    BY <2>2 DEF GoodTurn
  <2>. QED
    BY <2>2, <2>3
<1>2. ASSUME NEW turn \in T PROVE Then(turn) \in T
  <2>1. CASE turn.complete
    BY <2>1 DEF GoodTurn
  <2>2. CASE ~turn.complete
    <3>1. GoodTurn(Round(base, turn), base, N) /\ Round(base, turn).priority # << >>
      BY <2>2, RoundIsGood
    <3>2. Round(base, turn) \in TurnType
      BY <3>1 DEF GoodTurn
    <3>. QED
      BY <2>2, <3>1, <3>2
  <2>. QED
    BY <2>1, <2>2
<1>3. MaxRounds \in Nat \ {0}
  BY PriorityAssumption
<1>. HIDE DEF T, first, Then
<1>4. op \in [T \X Nat -> T]
  BY <1>2
<1>5. PICK f \in [Nat -> T] : IsRecursion(f, first, op)
  <2>. HIDE DEF op
  <2>. QED
    BY <1>1, <1>4, Recursion
<1>6. f[0] = first /\ \A n \in Nat : f[n + 1] = Then(f[n])
  BY <1>5 DEF IsRecursion
<1>. DEFINE g == [n \in 0..MaxRounds |-> f[n]]
<1>7. g = Body(g)
  <2>1. ASSUME NEW n \in 0..MaxRounds
        PROVE  f[n] = IF n = 0 THEN first ELSE Then(g[n - 1])
    <3>1. CASE n = 0
      BY <1>6, <3>1
    <3>2. CASE n # 0
      <4>1. n - 1 \in 0..MaxRounds /\ n - 1 \in Nat /\ (n - 1) + 1 = n
        BY <1>3, <3>2
      <4>. QED
        BY <1>6, <3>2, <4>1
    <3>. QED
      BY <3>1, <3>2
  <2>. QED
    BY <2>1
<1>8. found = Body(found)
  <2>. HIDE DEF Body, g
  <2>. QED
    BY <1>7
<1>9. CalculatePriority(base, analyzed) = found[MaxRounds]
  BY Zenon DEF CalculatePriority, first, Then
<1>. HIDE DEF found
<1>10. ASSUME NEW n \in 0..MaxRounds
       PROVE  found[n] = IF n = 0 THEN first ELSE Then(found[n - 1])
  BY <1>8
<1>. DEFINE good == {n \in Nat : n <= MaxRounds => found[n] \in T}
<1>11. 0 \in good
  <2>1. found[0] = first
    BY <1>3, <1>10
  <2>. QED
    BY <1>1, <2>1
<1>12. ASSUME NEW n \in Nat, n \in good PROVE n + 1 \in good
  <2>. SUFFICES ASSUME n + 1 <= MaxRounds PROVE found[n + 1] \in T
    OBVIOUS
  <2>1. n + 1 \in 0..MaxRounds /\ (n + 1) - 1 = n /\ n + 1 # 0
    BY <1>3
  <2>2. found[n] \in T
    BY <1>3, <1>12
  <2>3. found[n + 1] = Then(found[n])
    BY <1>10, <2>1
  <2>. QED
    BY <1>2, <2>2, <2>3
<1>13. Nat \subseteq good
  <2>. HIDE DEF good
  <2>. QED
    BY <1>11, <1>12, SetInduction
<1>14. \A n \in 0..MaxRounds : GoodTurn(found[n], base, N)
  BY <1>3, <1>13 DEF T
<1>15. AreRounds(found, base, analyzed)
  <2>1. found[0] = first
    BY <1>3, <1>10
  <2>2. ASSUME NEW n \in 0..(MaxRounds - 1) PROVE found[n + 1] = Then(found[n])
    <3>1. n + 1 \in 0..MaxRounds /\ (n + 1) - 1 = n /\ n + 1 # 0
      BY <1>3
    <3>. QED
      BY <1>10, <3>1
  <2>. QED
    BY <2>1, <2>2 DEF AreRounds, first, Then
<1>. QED
  BY <1>9, <1>14, <1>15

(* So the rounds a computation of a turn takes lead to a good turn, that   *)
(* is not empty.                                                           *)
LEMMA CalculatePriorityIsGood ==
  ASSUME NEW N, NEW base, Lists(base, N), base # << >>,
         NEW analyzed, Lists(analyzed, N)
  PROVE  /\ GoodTurn(CalculatePriority(base, analyzed), base, N)
         /\ CalculatePriority(base, analyzed).priority # << >>
<1>1. PICK rounds : /\ AreRounds(rounds, base, analyzed)
                    /\ CalculatePriority(base, analyzed) = rounds[MaxRounds]
                    /\ \A n \in 0..MaxRounds : GoodTurn(rounds[n], base, N)
  BY RoundsAreGood
<1>. DEFINE m == MaxRounds - 1
<1>2. m \in 0..(MaxRounds - 1) /\ m \in 0..MaxRounds /\ m + 1 = MaxRounds /\ MaxRounds \in 0..MaxRounds
  BY PriorityAssumption
<1>. HIDE DEF m
<1>3. GoodTurn(rounds[m], base, N) /\ GoodTurn(rounds[MaxRounds], base, N)
  BY <1>1, <1>2
<1>4. rounds[MaxRounds] = IF rounds[m].complete THEN rounds[m] ELSE Round(base, rounds[m])
  BY <1>1, <1>2 DEF AreRounds
<1>5. rounds[MaxRounds].priority # << >>
  <2>1. CASE rounds[m].complete
    BY <1>3, <1>4, <2>1 DEF GoodTurn
  <2>2. CASE ~rounds[m].complete
    BY <1>3, <1>4, <2>2, RoundIsGood
  <2>. QED
    BY <2>1, <2>2
<1>. QED
  BY <1>1, <1>3, <1>5

-----------------------------------------------------------------------------
(* What is left of a list when an id is taken out of it.                   *)

LEMMA OthersGoOn ==
  ASSUME NEW s \in Seq(Elem), NEW id
  PROVE  \E kept :
           /\ kept[0] = << >>
           /\ \A k \in 0..(Len(s) - 1) :
                kept[k + 1] = IF s[k + 1].id = id THEN kept[k]
                              ELSE Append(kept[k], s[k + 1])
           /\ Others(s, id) = kept[Len(s)]
<1>. DEFINE n == Len(s)
            T == Seq(Elem)
            With(kept, e) == IF e.id = id THEN kept ELSE Append(kept, e)
            op == [pair \in T \X (1..n) |-> With(pair[1], s[pair[2]])]
            Body(iter) ==
              [S \in SUBSET DOMAIN s |->
                 IF S = {} THEN << >> ELSE With(iter[S \ {Max(S)}], s[Max(S)])]
            found == CHOOSE iter : iter = Body(iter)
            kept == [k \in 0..n |-> found[1..k]]
<1>1. n \in Nat /\ DOMAIN s = 1..n /\ \A k \in 1..n : s[k] \in Elem
  OBVIOUS
<1>2. << >> \in T /\ \A t \in T, k \in 1..n : With(t, s[k]) \in T
  BY <1>1
<1>. HIDE DEF T, With
<1>3. op \in [T \X (1..n) -> T]
  BY <1>2
<1>4. PICK fold \in [SUBSET (1..n) -> T] : IsSequenceFold(fold, n, << >>, op)
  <2>. HIDE DEF op, n
  <2>. QED
    BY <1>1, <1>2, <1>3, SequenceFoldExists
<1>5. fold = Body(fold)
  <2>1. ASSUME NEW S \in SUBSET (1..n), S # {}
        PROVE  fold[S] = With(fold[S \ {Max(S)}], s[Max(S)])
    <3>1. Max(S) \in 1..n /\ S \ {Max(S)} \in SUBSET (1..n)
      BY <1>1, <2>1, GreatestNumber
    <3>2. <<fold[S \ {Max(S)}], Max(S)>> \in T \X (1..n)
      BY <3>1
    <3>3. fold[S] = op[<<fold[S \ {Max(S)}], Max(S)>>]
      BY <1>4, <2>1 DEF IsSequenceFold
    <3>. QED
      BY <3>2, <3>3
  <2>2. fold[{}] = << >>
    BY <1>4 DEF IsSequenceFold
  <2>. HIDE DEF op
  <2>. QED
    BY <1>1, <2>1, <2>2
<1>6. found = Body(found)
  <2>. HIDE DEF Body
  <2>. QED
    BY <1>5
<1>7. Others(s, id) = found[DOMAIN s]
  BY Zenon DEF Others, FoldLeft, MapThenFoldSet, With
<1>. HIDE DEF found
<1>8. ASSUME NEW S \in SUBSET (1..n), S # {}
      PROVE  found[S] = With(found[S \ {Max(S)}], s[Max(S)])
  BY <1>1, <1>6, <1>8
<1>9. kept[0] = << >>
  <2>1. 1..0 = {} /\ 0 \in 0..n
    BY <1>1
  <2>. QED
    BY <1>1, <1>6, <2>1
<1>10. ASSUME NEW k \in 0..(n - 1) PROVE kept[k + 1] = With(kept[k], s[k + 1])
  <2>1. /\ 1..(k + 1) \in (SUBSET (1..n)) \ {{}}
        /\ Max(1..(k + 1)) = k + 1
        /\ (1..(k + 1)) \ {k + 1} = 1..k
    BY <1>1, SequenceFoldSteps
  <2>2. found[1..(k + 1)] = With(found[1..k], s[k + 1])
    BY <1>8, <2>1
  <2>. QED
    BY <1>1, <2>2
<1>11. Others(s, id) = kept[n]
  BY <1>1, <1>7
<1>. HIDE DEF kept
<1>. QED
  BY <1>9, <1>10, <1>11 DEF With

(* Of the first k elements of s, t holds those that have another id, in    *)
(* their order.                                                            *)
Filtered(t, s, k, id) ==
  /\ t \in Seq(Elem)
  /\ \E pos \in [1..Len(t) -> 1..k] :
       /\ \A m \in 1..Len(t) : t[m] = s[pos[m]] /\ s[pos[m]].id # id
       /\ \A l, m \in 1..Len(t) : l < m => pos[l] < pos[m]
       /\ \A j \in 1..k : s[j].id # id => \E m \in 1..Len(t) : pos[m] = j

LEMMA OthersAreFiltered ==
  ASSUME NEW s \in Seq(Elem), NEW id
  PROVE  Filtered(Others(s, id), s, Len(s), id)
<1>. DEFINE n == Len(s)
<1>1. n \in Nat /\ \A k \in 1..n : s[k] \in Elem
  OBVIOUS
<1>2. PICK kept :
        /\ kept[0] = << >>
        /\ \A k \in 0..(n - 1) :
             kept[k + 1] = IF s[k + 1].id = id THEN kept[k] ELSE Append(kept[k], s[k + 1])
        /\ Others(s, id) = kept[n]
  BY OthersGoOn
<1>. HIDE DEF n
<1>. DEFINE good == {k \in Nat : k <= n => Filtered(kept[k], s, k, id)}
<1>3. 0 \in good
  <2>1. << >> \in Seq(Elem) /\ Len(<< >>) = 0 /\ 1..0 = {}
    OBVIOUS
  <2>2. Filtered(<< >>, s, 0, id)
    <3>1. [m \in 1..0 |-> 1] \in [1..0 -> 1..0]
      BY <2>1
    <3>. QED
      BY <2>1, <3>1 DEF Filtered
  <2>. QED
    BY <1>2, <2>2
<1>4. ASSUME NEW k \in Nat, k \in good PROVE k + 1 \in good
  <2>. SUFFICES ASSUME k + 1 <= n PROVE Filtered(kept[k + 1], s, k + 1, id)
    OBVIOUS
  <2>. DEFINE t == kept[k]
  <2>1. Filtered(t, s, k, id) /\ k \in 0..(n - 1) /\ k + 1 \in 1..n
    BY <1>1, <1>4
  <2>2. kept[k + 1] = IF s[k + 1].id = id THEN t ELSE Append(t, s[k + 1])
    BY <1>2, <2>1
  <2>3. t \in Seq(Elem) /\ Len(t) \in Nat
    BY <2>1 DEF Filtered
  <2>4. PICK pos \in [1..Len(t) -> 1..k] :
          /\ \A m \in 1..Len(t) : t[m] = s[pos[m]] /\ s[pos[m]].id # id
          /\ \A l, m \in 1..Len(t) : l < m => pos[l] < pos[m]
          /\ \A j \in 1..k : s[j].id # id => \E m \in 1..Len(t) : pos[m] = j
    BY <2>1 DEF Filtered
  <2>. HIDE DEF t
  <2>5. CASE s[k + 1].id = id
    <3>1. pos \in [1..Len(t) -> 1..(k + 1)]
      BY <2>4
    <3>2. \A j \in 1..(k + 1) : s[j].id # id => \E m \in 1..Len(t) : pos[m] = j
      <4>1. \A j \in 1..(k + 1) : j \in 1..k \/ j = k + 1
        OBVIOUS
      <4>. QED
        BY <2>4, <2>5, <4>1
    <3>3. Filtered(t, s, k + 1, id)
      BY <2>3, <2>4, <3>1, <3>2 DEF Filtered
    <3>. QED
      BY <2>2, <2>5, <3>3
  <2>6. CASE s[k + 1].id # id
    <3>. DEFINE u == Append(t, s[k + 1])
                new == [m \in 1..(Len(t) + 1) |-> IF m <= Len(t) THEN pos[m] ELSE k + 1]
    <3>1. /\ u \in Seq(Elem) /\ Len(u) = Len(t) + 1 /\ u[Len(t) + 1] = s[k + 1]
          /\ \A m \in 1..Len(t) : u[m] = t[m]
      BY <1>1, <2>1, <2>3, LastAppended
    <3>. HIDE DEF u
    <3>2. \A m \in 1..Len(u) : m \in 1..Len(t) \/ m = Len(t) + 1
      BY <2>3, <3>1
    <3>3. /\ \A m \in 1..Len(t) : new[m] = pos[m] /\ pos[m] \in 1..k
          /\ new[Len(t) + 1] = k + 1
      <4>1. ASSUME NEW m \in 1..Len(t) PROVE new[m] = pos[m] /\ pos[m] \in 1..k
        <5>1. m \in 1..(Len(t) + 1) /\ m <= Len(t)
          BY <2>3
        <5>2. new[m] = pos[m]
          BY <5>1
        <5>. QED
          BY <2>4, <5>2
      <4>2. new[Len(t) + 1] = k + 1
        BY <2>3
      <4>. HIDE DEF new
      <4>. QED
        BY <4>1, <4>2
    <3>4. new \in [1..Len(u) -> 1..(k + 1)]
      <4>1. ASSUME NEW m \in 1..Len(u) PROVE new[m] \in 1..(k + 1)
        <5>. HIDE DEF new
        <5>1. CASE m \in 1..Len(t)
          BY <3>3, <5>1
        <5>2. CASE m = Len(t) + 1
          BY <3>3, <5>2
        <5>. QED
          BY <3>2, <5>1, <5>2
      <4>. QED
        BY <3>1, <4>1
    <3>. HIDE DEF new
    <3>5. \A m \in 1..Len(u) : u[m] = s[new[m]] /\ s[new[m]].id # id
      BY <2>4, <2>6, <3>1, <3>2, <3>3
    <3>6. \A l, m \in 1..Len(u) : l < m => new[l] < new[m]
      <4>. SUFFICES ASSUME NEW l \in 1..Len(u), NEW m \in 1..Len(u), l < m
                    PROVE  new[l] < new[m]
        OBVIOUS
      <4>1. l \in 1..Len(t)
        BY <2>3, <3>1
      <4>2. CASE m \in 1..Len(t)
        BY <2>4, <3>3, <4>1, <4>2
      <4>3. CASE m = Len(t) + 1
        BY <3>3, <4>1, <4>3
      <4>. QED
        BY <3>2, <4>2, <4>3
    <3>7. \A j \in 1..(k + 1) : s[j].id # id => \E m \in 1..Len(u) : new[m] = j
      <4>. SUFFICES ASSUME NEW j \in 1..(k + 1), s[j].id # id
                    PROVE  \E m \in 1..Len(u) : new[m] = j
        OBVIOUS
      <4>1. CASE j \in 1..k
        <5>1. PICK m \in 1..Len(t) : pos[m] = j
          BY <2>4, <4>1
        <5>. QED
          BY <2>3, <3>1, <3>3, <5>1
      <4>2. CASE j = k + 1
        <5>1. Len(t) + 1 \in 1..Len(u)
          BY <2>3, <3>1
        <5>. QED
          BY <3>3, <4>2, <5>1
      <4>. QED
        BY <4>1, <4>2
    <3>8. Filtered(u, s, k + 1, id)
      BY <3>1, <3>4, <3>5, <3>6, <3>7 DEF Filtered
    <3>. QED
      BY <2>2, <2>6, <3>8 DEF u
  <2>. QED
    BY <2>5, <2>6
<1>5. Nat \subseteq good
  <2>. HIDE DEF good
  <2>. QED
    BY <1>3, <1>4, SetInduction
<1>6. Filtered(kept[n], s, n, id)
  BY <1>1, <1>5
<1>. QED
  BY <1>2, <1>6 DEF n

LEMMA OthersList ==
  ASSUME NEW N, NEW s, Lists(s, N), NEW id
  PROVE  /\ Lists(Others(s, id), {p \in N : p.id # id})
         /\ SpeedsIncrease(s) => SpeedsIncrease(Others(s, id))
<1>. DEFINE t == Others(s, id)
            n == Len(s)
            rest == {p \in N : p.id # id}
<1>1. s \in Seq(Elem) /\ n \in Nat /\ DOMAIN s = 1..n
  BY DEF Lists
<1>2. Filtered(t, s, n, id)
  BY <1>1, OthersAreFiltered
<1>3. t \in Seq(Elem)
  BY <1>2 DEF Filtered
<1>4. DOMAIN t = 1..Len(t) /\ Len(t) \in Nat
  BY <1>3
<1>5. PICK pos \in [1..Len(t) -> 1..n] :
        /\ \A m \in 1..Len(t) : t[m] = s[pos[m]] /\ s[pos[m]].id # id
        /\ \A l, m \in 1..Len(t) : l < m => pos[l] < pos[m]
        /\ \A j \in 1..n : s[j].id # id => \E m \in 1..Len(t) : pos[m] = j
  BY <1>2 DEF Filtered
<1>. HIDE DEF t, n
<1>6. \A l, m \in 1..Len(t) : pos[l] = pos[m] => l = m
  <2>. SUFFICES ASSUME NEW l \in 1..Len(t), NEW m \in 1..Len(t), pos[l] = pos[m], l # m
                PROVE  FALSE
    OBVIOUS
  <2>1. l < m \/ m < l
    BY <1>4
  <2>2. pos[l] \in 1..n
    OBVIOUS
  <2>. QED
    BY <1>1, <1>5, <2>1, <2>2
<1>7. \A m \in 1..Len(t) : Named(t[m]) \in rest
  BY <1>1, <1>5 DEF Lists, Named
<1>8. \A p \in rest : \E m \in 1..Len(t) : Named(t[m]) = p
  <2>. SUFFICES ASSUME NEW p \in N, p.id # id
                PROVE  \E m \in 1..Len(t) : Named(t[m]) = p
    OBVIOUS
  <2>1. PICK j \in 1..n : Named(s[j]) = p
    BY <1>1 DEF Lists
  <2>2. s[j].id # id
    BY <2>1 DEF Named
  <2>. QED
    BY <1>5, <2>1, <2>2
<1>9. \A l, m \in 1..Len(t) : Named(t[l]) = Named(t[m]) => l = m
  <2>1. \A j, k \in 1..n : Named(s[j]) = Named(s[k]) => j = k
    BY <1>1 DEF Lists
  <2>. QED
    BY <1>5, <1>6, <2>1
<1>10. Lists(t, rest)
  BY <1>3, <1>4, <1>7, <1>8, <1>9 DEF Lists
<1>11. ASSUME SpeedsIncrease(s) PROVE SpeedsIncrease(t)
  <2>. SUFFICES ASSUME NEW l \in 1..Len(t), NEW m \in 1..Len(t), l <= m
                PROVE  t[l].speed <= t[m].speed
    BY <1>4 DEF SpeedsIncrease
  <2>1. pos[l] \in 1..n /\ pos[m] \in 1..n /\ pos[l] <= pos[m]
    <3>1. pos[l] \in 1..n /\ pos[m] \in 1..n
      OBVIOUS
    <3>2. CASE l = m
      BY <1>1, <3>1, <3>2
    <3>3. CASE l < m
      BY <1>1, <1>5, <3>1, <3>3
    <3>. QED
      BY <1>4, <3>2, <3>3
  <2>. QED
    BY <1>1, <1>5, <1>11, <2>1 DEF SpeedsIncrease
<1>. QED
  BY <1>10, <1>11 DEF t

LEMMA OthersWereThere ==
  ASSUME NEW s \in Seq(Elem), NEW id
  PROVE  /\ Others(s, id) \in Seq(Elem)
         /\ \A m \in DOMAIN Others(s, id) :
              \E j \in DOMAIN s : Others(s, id)[m] = s[j] /\ s[j].id # id
<1>1. Filtered(Others(s, id), s, Len(s), id)
  BY OthersAreFiltered
<1>2. DOMAIN s = 1..Len(s)
  OBVIOUS
<1>. QED
  BY <1>1, <1>2 DEF Filtered

LEMMA AppendedList ==
  ASSUME NEW N, NEW s, Lists(s, N), NEW e \in Elem, Named(e) \notin N
  PROVE  Lists(Append(s, e), N \cup {Named(e)})
<1>. DEFINE t == Append(s, e)
            n == Len(s)
<1>1. s \in Seq(Elem) /\ n \in Nat /\ DOMAIN s = 1..n
  BY DEF Lists
<1>2. /\ t \in Seq(Elem) /\ Len(t) = n + 1 /\ t[n + 1] = e
      /\ \A k \in 1..n : t[k] = s[k]
  BY <1>1, LastAppended
<1>3. DOMAIN t = 1..(n + 1) /\ \A k \in 1..(n + 1) : k \in 1..n \/ k = n + 1
  BY <1>1, <1>2
<1>4. n + 1 \in 1..(n + 1) /\ 1..n \subseteq 1..(n + 1)
  BY <1>1
<1>. HIDE DEF t, n
<1>5. \A k \in 1..(n + 1) : Named(t[k]) \in N \cup {Named(e)}
  BY <1>1, <1>2, <1>3 DEF Lists
<1>6. \A p \in N \cup {Named(e)} : \E k \in 1..(n + 1) : Named(t[k]) = p
  BY <1>1, <1>2, <1>4 DEF Lists
<1>7. \A j, k \in 1..(n + 1) : Named(t[j]) = Named(t[k]) => j = k
  BY <1>1, <1>2, <1>3 DEF Lists
<1>. QED
  BY <1>2, <1>3, <1>5, <1>6, <1>7 DEF Lists, t

-----------------------------------------------------------------------------
(* A new turn.                                                             *)

(* The places of a turn are opened by the slowest of the base, who is the  *)
(* last to play: the only place of his id, but for the first turn.         *)
ClosedBySlowestId(places, base) ==
  \A k \in DOMAIN places :
    IF k = 1 THEN places[k].id = base[1].id
    ELSE currentTurn = 0 \/ places[k].id # base[1].id

(* What a turn that is taken over by the lists is: complete or not, it     *)
(* speaks of the participants N, and the slowest closes it.                *)
IsNewTurn(turn, N) ==
  /\ turn.complete \in BOOLEAN
  /\ Lists(turn.base, N) /\ SpeedsIncrease(turn.base)
  /\ Lists(turn.analyzed, N)
  /\ turn.priority \in Seq(Elem) /\ turn.priority # << >>
  /\ \A k \in DOMAIN turn.priority : Named(turn.priority[k]) \in N
  /\ turn.complete => ClosedBySlowestId(turn.priority, turn.base)

LEMMA TurnsAreNew ==
  ASSUME NEW N, NEW base, Lists(base, N), base # << >>,
         NEW analyzed, Lists(analyzed, N)
  PROVE  /\ IsNewTurn(SortBaseAndCalculatePriority(base, analyzed), N)
         /\ SortBaseAndCalculatePriority(base, analyzed).base = SortedBySpeed(base)
<1>. DEFINE sorted == SortedBySpeed(base)
            turn == SortBaseAndCalculatePriority(base, analyzed)
            rounds == CalculatePriority(sorted, analyzed)
<1>1. Lists(sorted, N) /\ SpeedsIncrease(sorted) /\ sorted # << >>
  BY SortedList, NotEmpty
<1>2. sorted \in Seq(Elem) /\ DOMAIN sorted = 1..Len(sorted)
  BY <1>1 DEF Lists
<1>3. 1 \in DOMAIN sorted
  BY <1>1, <1>2
<1>. HIDE DEF sorted
<1>4. CASE currentTurn = 0
  <2>1. turn = [complete |-> TRUE, base |-> sorted, analyzed |-> sorted, priority |-> sorted]
    BY <1>4 DEF SortBaseAndCalculatePriority, sorted
  <2>2. ClosedBySlowestId(sorted, sorted)
    BY <1>4 DEF ClosedBySlowestId
  <2>. QED
    BY <1>1, <1>2, <2>1, <2>2 DEF IsNewTurn, Lists, sorted
<1>5. CASE currentTurn # 0
  <2>1. turn = [complete |-> rounds.complete, base |-> sorted,
                analyzed |-> rounds.analyzed, priority |-> rounds.priority]
    BY <1>5 DEF SortBaseAndCalculatePriority, WithBase, sorted
  <2>2. GoodTurn(rounds, sorted, N) /\ rounds.priority # << >>
    BY <1>1, CalculatePriorityIsGood
  <2>. HIDE DEF rounds
  <2>3. /\ rounds.complete \in BOOLEAN /\ rounds.priority \in Seq(Elem)
        /\ Lists(rounds.analyzed, N)
        /\ \A k \in DOMAIN rounds.priority : Named(rounds.priority[k]) \in N
        /\ rounds.complete => \A k \in DOMAIN rounds.priority :
                                rounds.priority[k].id = sorted[1].id <=> k = 1
    BY <2>2 DEF GoodTurn, TurnType
  <2>4. rounds.complete => ClosedBySlowestId(rounds.priority, sorted)
    BY <2>3 DEF ClosedBySlowestId
  <2>. QED
    BY <1>1, <2>1, <2>2, <2>3, <2>4 DEF IsNewTurn, sorted
<1>. QED
  BY <1>4, <1>5

-----------------------------------------------------------------------------
(* The inductive invariant: the three lists speak of the same participants *)
(* and the base is sorted.                                                 *)

ListsInv ==
  /\ Lists(baseSpeed, Listed)
  /\ SpeedsIncrease(baseSpeed)
  /\ Lists(analyzedList, Listed)
  /\ priorityList \in Seq(Elem)
  /\ \A k \in DOMAIN priorityList : Named(priorityList[k]) \in Listed
  /\ Listed \subseteq Participants

LEMMA ListNames ==
  ASSUME NEW N, NEW s, Lists(s, N)
  PROVE  NamesOf(s) = N
<1>1. \A k \in DOMAIN s : Named(s[k]) \in N
  BY DEF Lists
<1>2. \A p \in N : \E k \in DOMAIN s : Named(s[k]) = p
  BY DEF Lists
<1>. QED
  BY <1>1, <1>2 DEF NamesOf, Range

LEMMA ElementOf ==
  ASSUME NEW p \in Participants, NEW s \in Speeds
  PROVE  PriorityElem(p, s) \in Elem /\ Named(PriorityElem(p, s)) = p
<1>1. p \in [id : Nat, isContender : BOOLEAN] /\ s \in Nat
  BY PriorityAssumption
<1>. QED
  BY <1>1 DEF PriorityElem, Named, Elem

LEMMA EmptyList == Lists(<< >>, {}) /\ SpeedsIncrease(<< >>)
  BY DEF Lists, SpeedsIncrease

BaseSpeedsGiven == \A k \in DOMAIN baseSpeed : baseSpeed[k].speed \in Speeds

LEMMA InitListsAndSpeeds == Init => ListsInv /\ BaseSpeedsGiven
<1>. SUFFICES ASSUME Init PROVE ListsInv /\ BaseSpeedsGiven
  OBVIOUS
<1>1. analyzedList = baseSpeed /\ priorityList = baseSpeed
  BY DEF Init
<1>2. ASSUME NEW N \in SUBSET Participants, Lists(baseSpeed, N), SpeedsIncrease(baseSpeed)
      PROVE  ListsInv
  <2>1. Listed = N
    BY <1>2, ListNames DEF Listed
  <2>2. baseSpeed \in Seq(Elem) /\ \A k \in DOMAIN baseSpeed : Named(baseSpeed[k]) \in N
    BY <1>2 DEF Lists
  <2>. QED
    BY <1>1, <1>2, <2>1, <2>2 DEF ListsInv
<1>3. CASE baseSpeed = << >>
  <2>1. {} \in SUBSET Participants
    OBVIOUS
  <2>. QED
    BY <1>2, <1>3, <2>1, EmptyList DEF BaseSpeedsGiven
<1>4. ASSUME NEW s \in [Participants -> Speeds],
             baseSpeed = SortedBySpeed(SetToSeq({PriorityElem(p, s[p]) : p \in Participants}))
      PROVE  ListsInv /\ BaseSpeedsGiven
  <2>. DEFINE elems == {PriorityElem(p, s[p]) : p \in Participants}
              n == Cardinality(elems)
              t == SetToSeq(elems)
  <2>1. \A p \in Participants :
          PriorityElem(p, s[p]) \in Elem /\ Named(PriorityElem(p, s[p])) = p
    BY ElementOf
  <2>2. /\ elems \subseteq Elem
        /\ \A e \in elems : Named(e) \in Participants /\ e.speed \in Speeds
        /\ \A p \in Participants : \E e \in elems : Named(e) = p
        /\ \A e, f \in elems : Named(e) = Named(f) => e = f
    <3>1. \A p \in Participants : PriorityElem(p, s[p]).speed \in Speeds
      BY DEF PriorityElem
    <3>. QED
      BY <2>1, <3>1
  <2>3. IsFiniteSet(elems)
    <3>. DEFINE f == [p \in Participants |-> PriorityElem(p, s[p])]
    <3>1. f \in [Participants -> elems] /\ \A e \in elems : \E p \in Participants : f[p] = e
      OBVIOUS
    <3>2. f \in Surjection(Participants, elems)
      <4>. HIDE DEF f, elems
      <4>. QED
        BY <3>1, Fun_IsSurj
    <3>3. IsFiniteSet(Participants)
      BY PriorityAssumption
    <3>. HIDE DEF f, elems
    <3>. QED
      BY <3>2, <3>3, FS_Surjection
  <2>. HIDE DEF elems
  <2>4. n \in Nat /\ ExistsBijection(1..n, elems)
    BY <2>3, FS_CardinalityType
  <2>5. t \in [1..n -> elems] /\ (\A j, k \in 1..n : t[j] = t[k] => j = k)
        /\ \A e \in elems : \E k \in 1..n : t[k] = e
    <3>1. PICK f \in Bijection(1..n, elems) : TRUE
      BY <2>4 DEF ExistsBijection
    <3>2. f \in [1..n -> elems] /\ IsInjective(f)
      <4>1. f \in [1..n -> elems] /\ \A j, k \in 1..n : f[j] = f[k] => j = k
        <5>. DEFINE ranks == 1..n
        <5>1. f \in Bijection(ranks, elems)
          OBVIOUS
        <5>2. f \in [ranks -> elems] /\ \A j, k \in ranks : f[j] = f[k] => j = k
          <6>. HIDE DEF ranks
          <6>. QED
            BY <5>1, Fun_BijectionProperties
        <5>. QED
          BY <5>2
      <4>. QED
        BY <4>1 DEF IsInjective
    <3>3. t \in [1..n -> elems] /\ IsInjective(t)
      BY <3>2 DEF SetToSeq
    <3>4. \A j, k \in 1..n : t[j] = t[k] => j = k
      BY <3>3 DEF IsInjective
    <3>. HIDE DEF t, n
    <3>5. t \in Injection(1..n, elems)
      BY <3>3, <3>4, Fun_IsInj
    <3>6. Cardinality(1..n) = n
      <4>1. Cardinality(1..n) = IF 1 > n THEN 0 ELSE n - 1 + 1
        BY <2>4, FS_Interval
      <4>. QED
        BY <2>4, <4>1
    <3>7. t \in Surjection(1..n, elems)
      BY <2>3, <3>5, <3>6, FS_Injection DEF n
    <3>8. \A e \in elems : \E k \in 1..n : t[k] = e
      <4>. DEFINE ranks == 1..n
      <4>1. t \in Surjection(ranks, elems)
        BY <3>7
      <4>2. \A e \in elems : \E k \in ranks : t[k] = e
        <5>. HIDE DEF ranks
        <5>. QED
          BY <4>1, Fun_SurjectionProperties
      <4>. QED
        BY <4>2
    <3>. QED
      BY <3>3, <3>4, <3>8
  <2>. HIDE DEF t, n
  <2>6. t \in Seq(Elem) /\ DOMAIN t = 1..n
    <3>1. t \in [1..n -> Elem]
      BY <2>2, <2>5
    <3>. QED
      BY <2>4, <3>1, FunctionIsSequence
  <2>7. Lists(t, Participants)
    BY <2>2, <2>5, <2>6 DEF Lists
  <2>8. Lists(baseSpeed, Participants) /\ SpeedsIncrease(baseSpeed)
    BY <1>4, <2>7, SortedList DEF t, elems
  <2>9. BaseSpeedsGiven
    <3>1. PICK perm : IsPermutation(perm, Len(t)) /\ SortedBySpeed(t) = Permuted(t, perm)
      BY <2>6, SortingPermutes
    <3>2. baseSpeed = SortedBySpeed(t)
      BY <1>4 DEF t, elems
    <3>3. \A k \in 1..n : t[k].speed \in Speeds
      BY <2>2, <2>5
    <3>4. Len(t) = n
      BY <2>4, <2>6
    <3>. QED
      BY <2>6, <3>1, <3>2, <3>3, <3>4 DEF BaseSpeedsGiven, Permuted, IsPermutation
  <2>. QED
    BY <1>2, <2>8, <2>9
<1>. QED
  BY <1>3, <1>4 DEF Init

LEMMA InitLists == Init => ListsInv
  BY InitListsAndSpeeds

LEMMA RemovingKeepsLists ==
  ASSUME ListsInv, NEW id, RemoveParticipantFromList(id)
  PROVE  ListsInv' /\ Listed' = {p \in Listed : p.id # id}
<1>. DEFINE N == {p \in Listed : p.id # id}
<1>1. /\ baseSpeed' = Others(baseSpeed, id)
      /\ priorityList' = Others(priorityList, id)
      /\ analyzedList' = Others(analyzedList, id)
  BY DEF RemoveParticipantFromList
<1>2. Lists(baseSpeed', N) /\ SpeedsIncrease(baseSpeed') /\ Lists(analyzedList', N)
  BY <1>1, OthersList DEF ListsInv
<1>3. Listed' = N
  BY <1>2, ListNames DEF Listed
<1>4. priorityList' \in Seq(Elem) /\ \A k \in DOMAIN priorityList' : Named(priorityList'[k]) \in N
  <2>1. /\ priorityList' \in Seq(Elem)
        /\ \A k \in DOMAIN priorityList' :
             \E j \in DOMAIN priorityList :
               priorityList'[k] = priorityList[j] /\ priorityList[j].id # id
    BY <1>1, OthersWereThere DEF ListsInv
  <2>2. \A j \in DOMAIN priorityList : Named(priorityList[j]) \in Listed
    BY DEF ListsInv
  <2>3. \A j \in DOMAIN priorityList : Named(priorityList[j]).id = priorityList[j].id
    BY DEF Named
  <2>. QED
    BY <2>1, <2>2, <2>3
<1>. QED
  BY <1>2, <1>3, <1>4 DEF ListsInv

LEMMA AddingKeepsLists ==
  ASSUME ListsInv, NEW p \in Participants, NEW s \in Speeds, AddParticipantInList(p, s)
  PROVE  /\ ListsInv'
         /\ Listed' = Listed \cup {p}
         /\ Len(baseSpeed') = Len(baseSpeed) + 1
         /\ ~endless' => ClosedBySlowestId(priorityList', baseSpeed')
<1>. DEFINE elem == PriorityElem(p, s)
            base == Append(baseSpeed, elem)
            analyzed == WithJoiner(base, elem)
            turn == SortBaseAndCalculatePriority(base, analyzed)
            N == Listed \cup {p}
<1>1. elem \in Elem /\ Named(elem) = p
  BY ElementOf
<1>2. p \notin Listed
  <2>1. \A k \in DOMAIN baseSpeed : ~SameParticipant(baseSpeed[k], elem)
    BY DEF AddParticipantInList
  <2>2. \A k \in DOMAIN baseSpeed : Named(baseSpeed[k]) # p
    BY <1>1, <2>1 DEF SameParticipant, Named
  <2>. QED
    BY <2>2 DEF Listed, NamesOf, Range
<1>. HIDE DEF elem
<1>3. Lists(base, N)
  BY <1>1, <1>2, AppendedList DEF ListsInv
<1>4. base \in Seq(Elem) /\ Len(base) = Len(baseSpeed) + 1 /\ base # << >>
  <2>1. baseSpeed \in Seq(Elem)
    BY DEF ListsInv, Lists
  <2>. QED
    BY <1>1, <2>1, AppendProperties
<1>5. Lists(analyzed, N)
  <2>1. FastestBaseSpeed(base) \in Int
    <3>1. Len(base) \in 1..Len(base)
      BY <1>4
    <3>. HIDE DEF base
    <3>2. base[Len(base)] \in Elem
      BY <1>4, <3>1
    <3>. QED
      BY <3>2 DEF FastestBaseSpeed, Elem
  <2>2. elem.speed + FastestBaseSpeed(base) \in Int
    <3>1. elem.speed \in Int
      BY <1>1 DEF Elem
    <3>. QED
      BY <2>1, <3>1
  <2>. DEFINE joiner == IF currentTurn > 0
                        THEN [elem EXCEPT !.speed = @ + FastestBaseSpeed(base)] ELSE elem
  <2>3. joiner \in Elem /\ Named(joiner) = p
    BY <1>1, <2>2, SpeedChanges
  <2>4. analyzed = Append(analyzedList, joiner)
    BY DEF WithJoiner
  <2>. HIDE DEF joiner
  <2>. QED
    BY <1>2, <2>3, <2>4, AppendedList DEF ListsInv
<1>. HIDE DEF base, analyzed
<1>6. IsNewTurn(turn, N) /\ turn.base = SortedBySpeed(base)
  BY <1>3, <1>4, <1>5, TurnsAreNew
<1>7. /\ baseSpeed' = turn.base
      /\ priorityList' = turn.priority
      /\ analyzedList' = turn.analyzed
      /\ endless' = ~turn.complete
  BY DEF AddParticipantInList, elem, base, analyzed
<1>. HIDE DEF turn
<1>8. Lists(baseSpeed', N)
  BY <1>6, <1>7 DEF IsNewTurn
<1>9. Listed' = N
  BY <1>8, ListNames DEF Listed
<1>10. ListsInv'
  BY <1>6, <1>7, <1>9 DEF IsNewTurn, ListsInv
<1>11. Len(baseSpeed') = Len(baseSpeed) + 1
  <2>1. Cardinality(N) = Len(base) /\ Cardinality(N) = Len(baseSpeed')
    BY <1>3, <1>8, ListLength
  <2>. QED
    BY <1>4, <2>1
<1>12. ~endless' => ClosedBySlowestId(priorityList', baseSpeed')
  BY <1>6, <1>7 DEF IsNewTurn
<1>. QED
  BY <1>9, <1>10, <1>11, <1>12

(* A call takes the last of the turn under way, or of a new one.           *)
LEMMA GettingKeepsLists ==
  ASSUME ListsInv, GetNext
  PROVE  /\ ListsInv'
         /\ baseSpeed' = baseSpeed
         /\ Named(currentPrio') \in Listed
         /\ priorityList = << >> /\ ~endless' =>
              ClosedBySlowestId(Append(priorityList', currentPrio'), baseSpeed')
<1>1. \A q \in Seq(Elem) :
        q # << >> => /\ Last(q) = q[Len(q)] /\ Len(q) \in DOMAIN q
                     /\ Front(q) \in Seq(Elem)
                     /\ \A k \in DOMAIN Front(q) : k \in DOMAIN q /\ Front(q)[k] = q[k]
                     /\ Append(Front(q), Last(q)) = q
  <2>. SUFFICES ASSUME NEW q \in Seq(Elem), q # << >>
                PROVE  /\ Last(q) = q[Len(q)] /\ Len(q) \in DOMAIN q
                       /\ Front(q) \in Seq(Elem)
                       /\ \A k \in DOMAIN Front(q) : k \in DOMAIN q /\ Front(q)[k] = q[k]
                       /\ Append(Front(q), Last(q)) = q
    OBVIOUS
  <2>1. PICK r \in Seq(Elem), e \in Elem : q = Append(r, e)
    BY SequenceEmptyOrAppend
  <2>2. Front(q) = r /\ Last(q) = e /\ \A k \in 1..Len(r) : q[k] = r[k]
    BY <2>1, LastAppended
  <2>3. DOMAIN q = 1..(Len(r) + 1) /\ DOMAIN r = 1..Len(r) /\ Len(r) \in Nat
    BY <2>1
  <2>. QED
    BY <2>1, <2>2, <2>3 DEF Last
<1>2. CASE /\ priorityList # << >>
           /\ currentPrio' = Last(priorityList)
           /\ priorityList' = Front(priorityList)
           /\ UNCHANGED <<baseSpeed, analyzedList, currentTurn, endless, changes>>
  <2>1. Listed' = Listed
    BY <1>2 DEF Listed, NamesOf, Range
  <2>2. priorityList \in Seq(Elem) /\ \A k \in DOMAIN priorityList :
                                        Named(priorityList[k]) \in Listed
    BY DEF ListsInv
  <2>3. ListsInv'
    BY <1>1, <1>2, <2>1, <2>2 DEF ListsInv
  <2>. QED
    BY <1>1, <1>2, <2>2, <2>3
<1>3. CASE /\ priorityList = << >>
           /\ \E turn \in {SortBaseAndCalculatePriority(baseSpeed, analyzedList)} :
                /\ currentPrio' = Last(turn.priority)
                /\ priorityList' = Front(turn.priority)
                /\ baseSpeed' = turn.base
                /\ analyzedList' = turn.analyzed
                /\ endless' = ~turn.complete
           /\ currentTurn' = 1
           /\ UNCHANGED changes
  <2>. DEFINE turn == SortBaseAndCalculatePriority(baseSpeed, analyzedList)
  <2>1. baseSpeed # << >>
    BY DEF GetNext
  <2>2. IsNewTurn(turn, Listed) /\ turn.base = SortedBySpeed(baseSpeed)
    BY <2>1, TurnsAreNew DEF ListsInv
  <2>3. /\ currentPrio' = Last(turn.priority) /\ priorityList' = Front(turn.priority)
        /\ baseSpeed' = turn.base /\ analyzedList' = turn.analyzed
        /\ endless' = ~turn.complete
    BY <1>3
  <2>. HIDE DEF turn
  <2>4. baseSpeed' = baseSpeed
    BY <2>2, <2>3, SortedStays DEF ListsInv, Lists
  <2>5. Listed' = Listed
    BY <2>4 DEF Listed, NamesOf, Range
  <2>6. /\ turn.priority \in Seq(Elem) /\ turn.priority # << >>
        /\ \A k \in DOMAIN turn.priority : Named(turn.priority[k]) \in Listed
    BY <2>2 DEF IsNewTurn
  <2>7. /\ Named(currentPrio') \in Listed
        /\ priorityList' \in Seq(Elem)
        /\ \A k \in DOMAIN priorityList' : Named(priorityList'[k]) \in Listed
        /\ Append(priorityList', currentPrio') = turn.priority
    BY <1>1, <2>3, <2>6
  <2>8. Lists(analyzedList', Listed)
    BY <2>2, <2>3 DEF IsNewTurn
  <2>9. ListsInv'
    BY <2>4, <2>5, <2>7, <2>8 DEF ListsInv
  <2>10. ~endless' => ClosedBySlowestId(turn.priority, baseSpeed')
    BY <2>2, <2>3 DEF IsNewTurn
  <2>. QED
    BY <2>4, <2>7, <2>9, <2>10
<1>. QED
  BY <1>2, <1>3 DEF GetNext

LEMMA NextKeepsLists == ListsInv /\ [Next]_vars => ListsInv'
<1>. SUFFICES ASSUME ListsInv, [Next]_vars PROVE ListsInv'
  OBVIOUS
<1>1. CASE GetNext
  BY <1>1, GettingKeepsLists
<1>2. ASSUME NEW p \in Participants, RemoveParticipantFromList(p.id) PROVE ListsInv'
  BY <1>2, RemovingKeepsLists
<1>3. ASSUME NEW p \in Participants, NEW s \in Speeds, AddParticipantInList(p, s)
      PROVE  ListsInv'
  BY <1>3, AddingKeepsLists
<1>4. CASE UNCHANGED vars
  BY <1>4 DEF vars, lists, ListsInv, Lists, SpeedsIncrease, Listed, NamesOf, Range
<1>. QED
  BY <1>1, <1>2, <1>3, <1>4 DEF Next

(* Whatever is added, removed and played, the three lists speak of the     *)
(* same participants, each of them once in the base and in the analysed    *)
(* list: also with ids that are shared, speeds of 0 and turns that do not  *)
(* end.                                                                    *)
THEOREM ListsAlwaysAgree == Spec => []ListsAgree
<1>1. ListsInv => ListsAgree
  <2>. SUFFICES ASSUME ListsInv PROVE ListsAgree
    OBVIOUS
  <2>1. /\ NamesOf(analyzedList) = Listed /\ NamesOf(baseSpeed) = Listed
        /\ Cardinality(Listed) = Len(baseSpeed) /\ Cardinality(Listed) = Len(analyzedList)
    BY ListNames, ListLength DEF ListsInv
  <2>2. NamesOf(priorityList) \subseteq Listed
    BY DEF ListsInv, NamesOf, Range
  <2>. QED
    BY <2>1, <2>2 DEF ListsAgree, NamesOf, Named
<1>. QED
  BY <1>1, InitLists, NextKeepsLists, PTL DEF Spec

(* Every new turn that is computed is closed by the id of the slowest,     *)
(* which has no other place in it but in the first turn: for any number of *)
(* participants, ids and speeds, those with which a computation may not    *)
(* end (TurnsEnd) included.                                                *)
THEOREM SlowestIdAlwaysClosesTheTurn == Spec /\ []TurnsEnd => SlowestIdClosesTheTurn
<1>. DEFINE Closed ==
              TurnIsComputed =>
                \A k \in DOMAIN NewTurn :
                  IF k = 1 THEN NewTurn[k].id = Head(baseSpeed').id
                  ELSE currentTurn = 0 \/ NewTurn[k].id # Head(baseSpeed').id
<1>1. ListsInv /\ TurnsEnd' /\ [Next]_vars => [Closed]_vars
  <2>. SUFFICES ASSUME ListsInv, ~endless', Next,
                       priorityList = << >>, priorityList' # << >>
                PROVE  ClosedBySlowestId(NewTurn, baseSpeed')
    <3>1. Head(baseSpeed') = baseSpeed'[1]
      OBVIOUS
    <3>. QED
      BY <3>1 DEF TurnsEnd, TurnIsComputed, ClosedBySlowestId
  <2>3. CASE GetNext
    BY <2>3, GettingKeepsLists DEF NewTurn
  <2>4. ASSUME NEW id, RemoveParticipantFromList(id) PROVE FALSE
    <3>1. priorityList' = Others(<< >>, id)
      BY <2>4 DEF RemoveParticipantFromList
    <3>2. << >> \in Seq(Elem) /\ DOMAIN << >> = {}
      OBVIOUS
    <3>3. Others(<< >>, id) \in Seq(Elem) /\ DOMAIN Others(<< >>, id) = {}
      BY <3>2, OthersWereThere
    <3>. QED
      BY <3>1, <3>3
  <2>5. ASSUME NEW p \in Participants, NEW s \in Speeds, AddParticipantInList(p, s)
        PROVE  ClosedBySlowestId(NewTurn, baseSpeed')
    <3>1. Len(baseSpeed) \in Nat
      BY DEF ListsInv, Lists
    <3>2. Len(baseSpeed') # Len(baseSpeed)
      BY <2>5, <3>1, AddingKeepsLists
    <3>. QED
      BY <2>5, <3>2, AddingKeepsLists DEF NewTurn
  <2>. QED
    BY <2>3, <2>4, <2>5 DEF Next
<1>2. SlowestIdClosesTheTurn <=> [][Closed]_vars
  BY DEF SlowestIdClosesTheTurn
<1>. HIDE DEF Closed
<1>. QED
  BY <1>1, <1>2, InitLists, NextKeepsLists, PTL DEF Spec

-----------------------------------------------------------------------------
(* The speeds a turn leaves, and that it ends.                             *)

(* The speed the list s gives to the participant p.                        *)
SpeedOf(s, p) == s[CHOOSE k \in DOMAIN s : Named(s[k]) = p].speed

LEMMA SpeedOfElement ==
  ASSUME NEW N, NEW s, Lists(s, N), NEW k \in DOMAIN s
  PROVE  Named(s[k]) \in N /\ SpeedOf(s, Named(s[k])) = s[k].speed /\ s[k].speed \in Int
<1>1. (CHOOSE j \in DOMAIN s : Named(s[j]) = Named(s[k])) = k
  <2>1. \A j \in DOMAIN s : Named(s[j]) = Named(s[k]) => j = k
    BY DEF Lists
  <2>. QED
    BY <2>1
<1>2. s[k] \in Elem /\ Named(s[k]) \in N
  BY DEF Lists
<1>. QED
  BY <1>1, <1>2 DEF SpeedOf, Elem

LEMMA SpeedOfListed ==
  ASSUME NEW N, NEW s, Lists(s, N), NEW p \in N
  PROVE  /\ SpeedOf(s, p) \in Int
         /\ \E k \in DOMAIN s : Named(s[k]) = p /\ s[k].speed = SpeedOf(s, p)
<1>1. PICK k \in DOMAIN s : Named(s[k]) = p
  BY DEF Lists
<1>2. SpeedOf(s, p) = s[k].speed /\ s[k].speed \in Int
  BY <1>1, SpeedOfElement
<1>. QED
  BY <1>1, <1>2

(* Rearranging a list changes nobody's speed.                              *)
LEMMA PermutedSpeeds ==
  ASSUME NEW N, NEW s, Lists(s, N), NEW perm, IsPermutation(perm, Len(s)), NEW p \in N
  PROVE  SpeedOf(Permuted(s, perm), p) = SpeedOf(s, p)
<1>. DEFINE t == Permuted(s, perm)
<1>1. Lists(t, N)
  BY PermutedList
<1>2. PICK k \in DOMAIN t : Named(t[k]) = p /\ t[k].speed = SpeedOf(t, p)
  BY <1>1, SpeedOfListed
<1>3. k \in DOMAIN s /\ perm[k] \in DOMAIN s /\ t[k] = s[perm[k]]
  <2>1. DOMAIN s = 1..Len(s)
    BY DEF Lists
  <2>. QED
    BY <1>2, <2>1 DEF IsPermutation, Permuted
<1>. HIDE DEF t
<1>4. SpeedOf(s, Named(s[perm[k]])) = s[perm[k]].speed
  BY <1>3, SpeedOfElement
<1>. QED
  BY <1>2, <1>3, <1>4 DEF t

LEMMA SortedSpeeds ==
  ASSUME NEW N, NEW s, Lists(s, N), NEW p \in N
  PROVE  SpeedOf(SortedBySpeed(s), p) = SpeedOf(s, p)
<1>1. s \in Seq(Elem)
  BY DEF Lists
<1>. QED
  BY <1>1, SortingPermutes, PermutedSpeeds

(* Only neighbours of the first group of equal speeds change places: a     *)
(* list that is sorted by calculatePriority is sorted by speed.            *)
LEMMA ReorderingEquals ==
  ASSUME NEW N, NEW base, NEW t, Lists(t, N), SpeedsIncrease(t)
  PROVE  /\ SpeedsIncrease(EqualsReordered(base, t))
         /\ \A p \in N : SpeedOf(EqualsReordered(base, t), p) = SpeedOf(t, p)
<1>. DEFINE n == Len(t)
            Pairs == 1..(n - 1)
            BaseSpeedOf(id) ==
              IF WithId(base, id) = {} THEN 0 ELSE base[Max(WithId(base, id))].speed
            misplaced ==
              {k \in Pairs : /\ t[k].speed = t[k + 1].speed
                             /\ BaseSpeedOf(t[k].id) > BaseSpeedOf(t[k + 1].id)}
            groupEnds == {k \in Pairs : t[k].speed # t[k + 1].speed}
            m == Min(misplaced)
            e == Min(groupEnds)
<1>1. EqualsReordered(base, t) =
        IF misplaced = {} \/ groupEnds = {} \/ e < m THEN t ELSE ReversedBetween(t, m, e)
  BY DEF EqualsReordered
<1>2. t \in Seq(Elem) /\ n \in Nat /\ DOMAIN t = 1..n
  <2>1. t \in Seq(Elem)
    BY DEF Lists
  <2>. QED
    BY <2>1
<1>3. \A k \in 1..n : t[k].speed \in Int
  BY <1>2, SpeedOfElement
<1>4. misplaced \subseteq Pairs /\ groupEnds \subseteq Pairs
      /\ \A k \in Pairs : k \notin groupEnds => t[k].speed = t[k + 1].speed
  OBVIOUS
<1>. HIDE DEF misplaced, groupEnds, n, m, e
<1>5. CASE misplaced = {} \/ groupEnds = {} \/ e < m
  BY <1>1, <1>5
<1>6. CASE ~(misplaced = {} \/ groupEnds = {} \/ e < m)
  <2>1. misplaced \in SUBSET Nat /\ groupEnds \in SUBSET Nat
    BY <1>2, <1>4
  <2>2. m \in Pairs /\ e \in Pairs /\ \A k \in groupEnds : e <= k
    BY <1>4, <1>6, <2>1, LeastIsMin DEF m, e
  <2>3. m \in 1..n /\ e \in m..n /\ e \in Nat /\ e < n
    BY <1>2, <1>6, <2>2
  <2>4. PICK perm : /\ IsPermutation(perm, n)
                    /\ ReversedBetween(t, m, e) = Permuted(t, perm)
                    /\ \A k \in 1..n : perm[k] = k \/ {k, perm[k]} \subseteq m..e
    BY <1>2, <2>3, ReversingPermutes DEF n
  <2>. DEFINE same == {k \in Nat : k + 1 <= e => t[k + 1].speed = t[1].speed}
  <2>5. Nat \subseteq same
    <3>1. 0 \in same
      OBVIOUS
    <3>2. ASSUME NEW k \in Nat, k \in same PROVE k + 1 \in same
      <4>. SUFFICES ASSUME (k + 1) + 1 <= e PROVE t[(k + 1) + 1].speed = t[1].speed
        OBVIOUS
      <4>1. k + 1 \in Pairs /\ k + 1 < e
        BY <1>2, <2>3
      <4>2. k + 1 \notin groupEnds
        BY <2>2, <2>3, <4>1
      <4>3. t[k + 1].speed = t[(k + 1) + 1].speed
        BY <1>4, <4>1, <4>2
      <4>4. t[k + 1].speed = t[1].speed
        BY <2>3, <3>2, <4>1
      <4>. QED
        BY <4>3, <4>4
    <3>. HIDE DEF same
    <3>. QED
      BY <3>1, <3>2, SetInduction
  <2>6. \A k \in m..e : t[k].speed = t[1].speed
    <3>. SUFFICES ASSUME NEW k \in m..e PROVE t[k].speed = t[1].speed
      OBVIOUS
    <3>1. k - 1 \in Nat /\ (k - 1) + 1 = k /\ k <= e
      BY <2>3
    <3>. QED
      BY <2>5, <3>1
  <2>7. \A k \in 1..n : Permuted(t, perm)[k].speed = t[k].speed
    BY <1>2, <2>4, <2>6 DEF Permuted
  <2>8. DOMAIN Permuted(t, perm) = 1..n
    BY <1>2 DEF Permuted
  <2>9. SpeedsIncrease(Permuted(t, perm))
    BY <1>2, <2>7, <2>8 DEF SpeedsIncrease
  <2>10. \A p \in N : SpeedOf(Permuted(t, perm), p) = SpeedOf(t, p)
    BY <2>4, PermutedSpeeds DEF n
  <2>. QED
    BY <1>1, <1>6, <2>4, <2>9, <2>10
<1>. QED
  BY <1>5, <1>6

LEMMA CustomSortedSpeeds ==
  ASSUME NEW N, NEW base, NEW s, Lists(s, N)
  PROVE  /\ SpeedsIncrease(CustomSort(base, s))
         /\ \A p \in N : SpeedOf(CustomSort(base, s), p) = SpeedOf(s, p)
<1>1. Lists(SortedBySpeed(s), N) /\ SpeedsIncrease(SortedBySpeed(s))
  BY SortedList
<1>2. \A p \in N : SpeedOf(SortedBySpeed(s), p) = SpeedOf(s, p)
  BY SortedSpeeds
<1>. QED
  BY <1>1, <1>2, ReorderingEquals DEF CustomSort

(* So the last of a sorted list has as much left as anybody.               *)
LEMMA LastIsFastest ==
  ASSUME NEW N, NEW s, Lists(s, N), SpeedsIncrease(s), s # << >>
  PROVE  /\ Named(Last(s)) \in N
         /\ SpeedOf(s, Named(Last(s))) = Last(s).speed
         /\ \A p \in N : SpeedOf(s, p) <= Last(s).speed
<1>1. s \in Seq(Elem) /\ DOMAIN s = 1..Len(s)
  BY DEF Lists
<1>2. Len(s) \in DOMAIN s /\ Last(s) = s[Len(s)]
  <2>1. Len(s) \in Nat \ {0} /\ Last(s) = s[Len(s)]
    BY <1>1, FrontAndLast
  <2>. QED
    BY <1>1, <2>1
<1>3. \A k \in DOMAIN s : s[k].speed <= s[Len(s)].speed
  BY <1>1, <1>2 DEF SpeedsIncrease
<1>4. \A p \in N : SpeedOf(s, p) <= Last(s).speed
  BY <1>2, <1>3, SpeedOfListed
<1>. QED
  BY <1>2, <1>4, SpeedOfElement

(* Playing takes its cost from the fastest and nothing from the others.    *)
Cost(base, s) == IF Len(s) > 1 THEN ComputedSpeed(base, s, Last(s).id) ELSE 0

SpeedsPlayed(t, base, s, N) ==
  \A p \in N : SpeedOf(t, p) = IF p = Named(Last(s)) THEN SpeedOf(s, p) - Cost(base, s)
                              ELSE SpeedOf(s, p)

SameButLast(t, s) == Len(t) = Len(s) /\ \A k \in 1..(Len(s) - 1) : t[k] = s[k]

LEMMA PlayedSpeeds ==
  ASSUME NEW N, NEW base \in Seq(Elem), NEW s, Lists(s, N), s # << >>,
         NEW priority \in Seq(Elem)
  PROVE  LET turn == Played(base, s, priority) IN
         /\ Lists(turn.analyzed, N)
         /\ Named(Last(turn.analyzed)) = Named(Last(s))
         /\ SpeedsPlayed(turn.analyzed, base, s, N)
         /\ SameButLast(turn.analyzed, s)
<1>. DEFINE cost == Cost(base, s)
            fastest == [Last(s) EXCEPT !.speed = @ - cost]
            turn == Played(base, s, priority)
            t == Append(Front(s), fastest)
            n == Len(s)
<1>1. s \in Seq(Elem) /\ DOMAIN s = 1..n
  BY DEF Lists
<1>2. /\ n \in Nat \ {0} /\ Last(s) \in Elem /\ Last(s) = s[n]
      /\ Front(s) \in Seq(Elem) /\ Len(Front(s)) = n - 1
      /\ \A k \in 1..(n - 1) : Front(s)[k] = s[k]
  BY <1>1, FrontAndLast
<1>3. cost \in Int
  BY <1>1, ComputedSpeedIsNumber DEF Cost
<1>4. turn.analyzed = t
  BY DEF Played, Cost
<1>. HIDE DEF cost
<1>5. fastest \in Elem /\ Named(fastest) = Named(Last(s)) /\ fastest.speed = s[n].speed - cost
  <2>1. Last(s).speed \in Int
    BY <1>2 DEF Elem
  <2>2. Last(s).speed - cost \in Int
    BY <1>3, <2>1
  <2>3. fastest.speed = Last(s).speed - cost
    BY <1>2 DEF Elem
  <2>. QED
    BY <1>2, <2>2, <2>3, SpeedChanges
<1>. HIDE DEF fastest, n
<1>6. /\ Len(t) = n /\ t[n] = fastest /\ Last(t) = fastest
      /\ \A k \in 1..(n - 1) : t[k] = s[k]
  <2>1. /\ Len(t) = Len(Front(s)) + 1
        /\ \A k \in 1..Len(Front(s)) : t[k] = Front(s)[k]
        /\ t[Len(Front(s)) + 1] = fastest
        /\ Last(t) = fastest
    BY <1>2, <1>5, LastAppended
  <2>2. Len(Front(s)) = n - 1 /\ (n - 1) + 1 = n
    BY <1>2
  <2>. HIDE DEF t
  <2>. QED
    BY <1>2, <2>1, <2>2
<1>. HIDE DEF t
<1>7. Lists(t, N)
  <2>1. Lists(turn.analyzed, N)
    BY PlayedKeepsList
  <2>. QED
    BY <1>4, <2>1
<1>. HIDE DEF turn
<1>8. DOMAIN t = 1..n /\ n \in DOMAIN s
  BY <1>1, <1>2, <1>6, <1>7 DEF Lists
<1>9. ASSUME NEW p \in N
      PROVE  SpeedOf(t, p) = IF p = Named(Last(s)) THEN SpeedOf(s, p) - cost ELSE SpeedOf(s, p)
  <2>1. PICK k \in DOMAIN t : Named(t[k]) = p /\ t[k].speed = SpeedOf(t, p)
    BY <1>7, SpeedOfListed
  <2>2. CASE k = n
    <3>1. p = Named(s[n]) /\ SpeedOf(t, p) = s[n].speed - cost
      BY <1>2, <1>5, <1>6, <2>1, <2>2
    <3>2. SpeedOf(s, Named(s[n])) = s[n].speed
      BY <1>8, SpeedOfElement
    <3>. QED
      BY <1>2, <3>1, <3>2
  <2>3. CASE k # n
    <3>1. k \in 1..(n - 1) /\ k \in DOMAIN s
      BY <1>1, <1>2, <1>8, <2>3
    <3>2. t[k] = s[k]
      BY <1>6, <3>1
    <3>3. SpeedOf(s, p) = s[k].speed
      BY <2>1, <3>1, <3>2, SpeedOfElement
    <3>4. p # Named(s[n])
      BY <1>8, <2>1, <2>3, <3>1, <3>2 DEF Lists
    <3>. QED
      BY <1>2, <2>1, <3>2, <3>3, <3>4
  <2>. QED
    BY <2>2, <2>3
<1>. QED
  BY <1>2, <1>4, <1>5, <1>6, <1>7, <1>9 DEF turn, cost, n, SpeedsPlayed, SameButLast

(* An id has two participants at most, a member and a contender.           *)
Twin(p) == [p EXCEPT !.isContender = ~@]

(* The other one of the participants N with the id of p, or p himself.     *)
Mate(N, p) == IF Twin(p) \in N THEN Twin(p) ELSE p

LEMMA NamesAreRecords ==
  ASSUME NEW N, NEW s, Lists(s, N)
  PROVE  N \subseteq [id : Nat, isContender : BOOLEAN]
<1>. SUFFICES ASSUME NEW p \in N PROVE p \in [id : Nat, isContender : BOOLEAN]
  OBVIOUS
<1>1. PICK k \in DOMAIN s : Named(s[k]) = p
  BY DEF Lists
<1>2. s[k] \in Elem
  BY DEF Lists
<1>. QED
  BY <1>1, <1>2 DEF Named, Elem

LEMMA MatesShareTheirId ==
  ASSUME NEW N, NEW s, Lists(s, N), NEW p \in N
  PROVE  /\ Mate(N, p) \in N /\ Mate(N, p).id = p.id
         /\ Mate(N, Mate(N, p)) = p
         /\ \A q \in N : q.id = p.id => q = p \/ q = Mate(N, p)
<1>1. N \subseteq [id : Nat, isContender : BOOLEAN]
  BY NamesAreRecords
<1>2. p = [id |-> p.id, isContender |-> p.isContender] /\ p.isContender \in BOOLEAN
  BY <1>1
<1>3. Twin(p) = [id |-> p.id, isContender |-> ~p.isContender]
  BY <1>2 DEF Twin
<1>4. Twin(Twin(p)) = p
  <2>. DEFINE q == [id |-> p.id, isContender |-> ~p.isContender]
  <2>1. Twin(q) = [id |-> p.id, isContender |-> ~q.isContender]
    BY DEF Twin
  <2>2. q.isContender = ~p.isContender
    OBVIOUS
  <2>3. ~q.isContender = p.isContender
    BY <1>2, <2>2, Zenon
  <2>. QED
    BY <1>2, <1>3, <2>1, <2>3
<1>5. Mate(N, p) \in N /\ Mate(N, p).id = p.id /\ Mate(N, Mate(N, p)) = p
  BY <1>3, <1>4 DEF Mate
<1>6. ASSUME NEW q \in N, q.id = p.id PROVE q = p \/ q = Mate(N, p)
  <2>1. q = [id |-> p.id, isContender |-> q.isContender] /\ q.isContender \in BOOLEAN
    BY <1>1, <1>6
  <2>2. q.isContender = p.isContender \/ q.isContender = ~p.isContender
    BY <1>2, <2>1
  <2>3. q = p \/ q = Twin(p)
    BY <1>2, <1>3, <2>1, <2>2
  <2>. QED
    BY <2>3 DEF Mate
<1>. QED
  BY <1>5, <1>6

(* The first place of an id in a list.                                     *)
FirstOf(s, id) == Min(WithId(s, id))

LEMMA FirstOfAnId ==
  ASSUME NEW N, NEW s, Lists(s, N), NEW p \in N
  PROVE  LET k == FirstOf(s, p.id) IN
         /\ k \in DOMAIN s /\ s[k].id = p.id
         /\ Named(s[k]) = p \/ Named(s[k]) = Mate(N, p)
         /\ \A j \in DOMAIN s : s[j].id = p.id => k <= j
<1>. DEFINE places == WithId(s, p.id)
            k == FirstOf(s, p.id)
<1>1. DOMAIN s \subseteq Nat
  BY DEF Lists
<1>2. PICK j \in DOMAIN s : Named(s[j]) = p
  BY DEF Lists
<1>3. places \in SUBSET Nat /\ places # {}
  BY <1>1, <1>2 DEF WithId, Named
<1>4. Min(places) \in places /\ \A j1 \in places : Min(places) <= j1
  <2>. HIDE DEF places
  <2>. QED
    BY <1>3, LeastIsMin
<1>5. k \in DOMAIN s /\ s[k].id = p.id /\ \A j1 \in DOMAIN s : s[j1].id = p.id => k <= j1
  BY <1>4 DEF WithId, FirstOf
<1>. HIDE DEF k, places
<1>6. Named(s[k]) \in N /\ Named(s[k]).id = p.id
  BY <1>5, SpeedOfElement DEF Named
<1>. QED
  BY <1>5, <1>6, MatesShareTheirId DEF k

(* What the one with less left of the participants with the id of p has.   *)
LowOf(s, N, p) ==
  IF SpeedOf(s, p) <= SpeedOf(s, Mate(N, p)) THEN SpeedOf(s, p)
  ELSE SpeedOf(s, Mate(N, p))

LEMMA FirstIsLowest ==
  ASSUME NEW N, NEW s, Lists(s, N), SpeedsIncrease(s), NEW p \in N
  PROVE  s[FirstOf(s, p.id)].speed = LowOf(s, N, p)
<1>. DEFINE k == FirstOf(s, p.id)
            m == Mate(N, p)
<1>1. /\ k \in DOMAIN s
      /\ Named(s[k]) = p \/ Named(s[k]) = m
      /\ \A j \in DOMAIN s : s[j].id = p.id => k <= j
  BY FirstOfAnId
<1>2. m \in N /\ m.id = p.id
  BY MatesShareTheirId
<1>. HIDE DEF k, m
<1>3. ASSUME NEW q \in N, q.id = p.id PROVE s[k].speed <= SpeedOf(s, q)
  <2>1. PICK j \in DOMAIN s : Named(s[j]) = q /\ s[j].speed = SpeedOf(s, q)
    BY SpeedOfListed
  <2>2. s[j].id = p.id
    BY <1>3, <2>1 DEF Named
  <2>. QED
    BY <1>1, <2>1, <2>2 DEF SpeedsIncrease
<1>4. s[k].speed = SpeedOf(s, p) \/ s[k].speed = SpeedOf(s, m)
  <2>1. SpeedOf(s, Named(s[k])) = s[k].speed
    BY <1>1, SpeedOfElement
  <2>. QED
    BY <1>1, <2>1
<1>5. s[k].speed <= SpeedOf(s, p) /\ s[k].speed <= SpeedOf(s, m)
  BY <1>2, <1>3
<1>6. SpeedOf(s, p) \in Int /\ SpeedOf(s, m) \in Int
  BY <1>2, SpeedOfListed
<1>. QED
  BY <1>4, <1>5, <1>6 DEF LowOf, k, m

LEMMA LowIsOneOfThem ==
  ASSUME NEW N, NEW s, Lists(s, N), NEW p \in N
  PROVE  /\ LowOf(s, N, p) \in Int
         /\ LowOf(s, N, p) <= SpeedOf(s, p) /\ LowOf(s, N, p) <= SpeedOf(s, Mate(N, p))
         /\ LowOf(s, N, p) = SpeedOf(s, p) \/ LowOf(s, N, p) = SpeedOf(s, Mate(N, p))
<1>1. SpeedOf(s, p) \in Int /\ SpeedOf(s, Mate(N, p)) \in Int
  BY MatesShareTheirId, SpeedOfListed
<1>. QED
  BY <1>1 DEF LowOf

(* The next slower element of the base, the fastest for the slowest.       *)
SlowerRank(base, b) == IF b = 1 THEN Len(base) ELSE b - 1

SlowerOf(base, p) == Named(base[SlowerRank(base, FirstOf(base, p.id))])

AtLeastOne(n) == IF n = 0 THEN 1 ELSE n

(* Playing costs the least that is left to the next slower id, at least 1. *)
LEMMA CostIsWhatSlowerHasLeft ==
  ASSUME NEW N, NEW base, Lists(base, N), NEW s, Lists(s, N), SpeedsIncrease(s),
         NEW p \in N
  PROVE  /\ SlowerOf(base, p) \in N
         /\ ComputedSpeed(base, s, p.id) = AtLeastOne(LowOf(s, N, SlowerOf(base, p)))
<1>. DEFINE slowerId(k) == base[IF k = 1 THEN Len(base) ELSE k - 1].id
            found == {k \in WithId(base, p.id) : WithId(s, slowerId(k)) # {}}
            b == FirstOf(base, p.id)
            c == SlowerRank(base, b)
<1>1. base \in Seq(Elem) /\ DOMAIN base = 1..Len(base) /\ Len(base) \in Nat
  <2>1. base \in Seq(Elem)
    BY DEF Lists
  <2>. QED
    BY <2>1
<1>2. b \in DOMAIN base /\ base[b].id = p.id
  BY FirstOfAnId
<1>3. ASSUME NEW k \in DOMAIN base PROVE WithId(s, slowerId(k)) # {}
  <2>1. SlowerRank(base, k) \in DOMAIN base /\ slowerId(k) = base[SlowerRank(base, k)].id
    BY <1>1 DEF SlowerRank
  <2>2. PICK j \in DOMAIN s : Named(s[j]) = Named(base[SlowerRank(base, k)])
    BY <2>1 DEF Lists
  <2>. QED
    BY <2>1, <2>2 DEF WithId, Named
<1>4. found = WithId(base, p.id) /\ found # {} /\ Min(found) = b
  <2>1. found = WithId(base, p.id)
    BY <1>3 DEF WithId
  <2>2. b \in WithId(base, p.id)
    BY <1>2 DEF WithId
  <2>. HIDE DEF found
  <2>. QED
    BY <2>1, <2>2 DEF FirstOf
<1>5. ComputedSpeed(base, s, p.id) =
        IF found = {} \/ s[Min(WithId(s, slowerId(Min(found))))].speed = 0 THEN 1
        ELSE s[Min(WithId(s, slowerId(Min(found))))].speed
  BY DEF ComputedSpeed
<1>6. c \in DOMAIN base /\ slowerId(b) = base[c].id /\ Named(base[c]) \in N
      /\ Named(base[c]).id = base[c].id
  <2>1. c \in DOMAIN base /\ slowerId(b) = base[c].id
    BY <1>1, <1>2 DEF SlowerRank
  <2>. HIDE DEF c, slowerId
  <2>. QED
    BY <2>1, SpeedOfElement DEF Named
<1>. HIDE DEF found, slowerId, b, c
<1>7. ComputedSpeed(base, s, p.id) = AtLeastOne(s[FirstOf(s, Named(base[c]).id)].speed)
  BY <1>4, <1>5, <1>6 DEF FirstOf, AtLeastOne
<1>8. s[FirstOf(s, Named(base[c]).id)].speed = LowOf(s, N, Named(base[c]))
  BY <1>6, FirstIsLowest
<1>. QED
  BY <1>6, <1>7, <1>8 DEF SlowerOf, b, c

LEMMA GainOfNobody ==
  ASSUME NEW base \in Seq(Elem), base # << >>
  PROVE  TotalGain(base, {}) = 0
<1>1. {} \in SUBSET DOMAIN base
  OBVIOUS
<1>2. PICK found : TotalGain(base, {}) = found[{}] /\ SumsGains(found, base, {})
  BY <1>1, GainSteps
<1>3. {} \in SUBSET {}
  OBVIOUS
<1>. QED
  BY <1>2, <1>3 DEF SumsGains

(* Two elements give what each of them gives.                              *)
LEMMA GainOfTwo ==
  ASSUME NEW base \in Seq(Elem), base # << >>,
         NEW b \in DOMAIN base, NEW c \in DOMAIN base, b # c
  PROVE  TotalGain(base, {b, c}) = GainOf(base, b) + GainOf(base, c)
<1>. DEFINE S == {b, c}
            x == CHOOSE e \in S : TRUE
<1>1. S \in SUBSET DOMAIN base
  OBVIOUS
<1>2. x \in S /\ S # {} /\ S \in SUBSET S
  OBVIOUS
<1>3. ASSUME NEW e \in S PROVE {e} \in SUBSET S /\ {e} # {} /\ (CHOOSE d \in {e} : TRUE) = e
  OBVIOUS
<1>4. S \ {b} = {c} /\ S \ {c} = {b}
  OBVIOUS
<1>5. x = b \/ x = c
  BY <1>2
<1>6. b \in S /\ c \in S
  OBVIOUS
<1>. HIDE DEF S
<1>7. /\ GainOf(base, b) \in Int /\ GainOf(base, c) \in Int
  BY <1>1, <1>6, GainSteps
<1>8. PICK found : TotalGain(base, S) = found[S] /\ SumsGains(found, base, S)
  BY <1>1, GainSteps
<1>9. {} \in SUBSET S /\ found[{}] = 0
  <2>1. {} \in SUBSET S
    OBVIOUS
  <2>. QED
    BY <1>8, <2>1 DEF SumsGains
<1>10. ASSUME NEW e \in S, GainOf(base, e) \in Int PROVE found[{e}] = GainOf(base, e)
  <2>1. /\ {e} \in SUBSET S /\ {e} # {} /\ (CHOOSE d \in {e} : TRUE) = e
        /\ {e} \ {e} = {}
    BY <1>3
  <2>2. found[{e}] = GainOf(base, CHOOSE d \in {e} : TRUE)
                       + found[{e} \ {CHOOSE d \in {e} : TRUE}]
    BY <1>8, <2>1 DEF SumsGains
  <2>3. found[{e}] = GainOf(base, e) + found[{}]
    BY <2>1, <2>2, Zenon
  <2>. QED
    BY <1>9, <1>10, <2>3
<1>11. found[{b}] = GainOf(base, b) /\ found[{c}] = GainOf(base, c)
  BY <1>6, <1>7, <1>10
<1>12. found[S] = GainOf(base, x) + found[S \ {x}]
  BY <1>2, <1>8 DEF SumsGains
<1>. HIDE DEF x
<1>13. found[S] = GainOf(base, b) + GainOf(base, c)
  <2>1. CASE x = b
    <3>1. found[S \ {x}] = found[{c}] /\ GainOf(base, x) = GainOf(base, b)
      BY <1>4, <2>1, Zenon
    <3>. QED
      BY <1>11, <1>12, <3>1
  <2>2. CASE x = c
    <3>1. found[S \ {x}] = found[{b}] /\ GainOf(base, x) = GainOf(base, c)
      BY <1>4, <2>2, Zenon
    <3>. QED
      BY <1>7, <1>11, <1>12, <3>1
  <2>. QED
    BY <1>5, <2>1, <2>2
<1>. QED
  BY <1>8, <1>13 DEF S

(* What the participants with the id of p give together.                   *)
IdGain(base, N, p) ==
  (SpeedOf(base, p) + FastestBaseSpeed(base))
    + (IF Mate(N, p) = p THEN 0
       ELSE SpeedOf(base, Mate(N, p)) + FastestBaseSpeed(base))

LEMMA GainOfAnId ==
  ASSUME NEW N, NEW base, Lists(base, N), NEW p \in N
  PROVE  /\ TotalGain(base, WithId(base, p.id)) = IdGain(base, N, p)
         /\ IdGain(base, N, p) \in Int
<1>. DEFINE m == Mate(N, p)
<1>1. /\ m \in N /\ m.id = p.id
      /\ \A q \in N : q.id = p.id => q = p \/ q = m
  BY MatesShareTheirId
<1>. HIDE DEF m
<1>2. PICK b \in DOMAIN base : Named(base[b]) = p /\ base[b].speed = SpeedOf(base, p)
  BY SpeedOfListed
<1>3. PICK c \in DOMAIN base : Named(base[c]) = m /\ base[c].speed = SpeedOf(base, m)
  BY <1>1, SpeedOfListed
<1>4. WithId(base, p.id) = {b, c}
  <2>1. ASSUME NEW k \in DOMAIN base, base[k].id = p.id PROVE k = b \/ k = c
    <3>1. Named(base[k]) \in N /\ Named(base[k]).id = p.id
      BY <2>1, SpeedOfElement DEF Named
    <3>2. Named(base[k]) = p \/ Named(base[k]) = m
      BY <1>1, <3>1
    <3>. QED
      BY <1>2, <1>3, <3>2 DEF Lists
  <2>2. base[b].id = p.id /\ base[c].id = p.id
    BY <1>1, <1>2, <1>3 DEF Named
  <2>. QED
    BY <2>1, <2>2 DEF WithId
<1>5. base \in Seq(Elem) /\ base # << >>
  <2>1. base \in Seq(Elem)
    BY DEF Lists
  <2>2. DOMAIN << >> = {}
    OBVIOUS
  <2>. QED
    BY <1>2, <2>1, <2>2
<1>6. FastestBaseSpeed(base) \in Int
  <2>1. /\ DOMAIN base = 1..Len(base) /\ Len(base) \in Nat
    BY <1>5
  <2>2. Len(base) \in DOMAIN base
    BY <1>2, <2>1
  <2>. QED
    BY <2>2, SpeedOfElement DEF FastestBaseSpeed
<1>7. SpeedOf(base, p) \in Int /\ SpeedOf(base, m) \in Int
  BY <1>1, SpeedOfListed
<1>8. CASE m = p
  <2>1. b = c
    BY <1>2, <1>3, <1>8 DEF Lists
  <2>2. TotalGain(base, {b}) = GainOf(base, b)
    BY <1>5, GainOfOne
  <2>3. WithId(base, p.id) = {b}
    BY <1>4, <2>1
  <2>4. IdGain(base, N, p) = (SpeedOf(base, p) + FastestBaseSpeed(base)) + 0
    BY <1>8 DEF IdGain, m
  <2>. QED
    BY <1>2, <1>6, <1>7, <2>2, <2>3, <2>4 DEF GainOf
<1>9. CASE m # p
  <2>1. b # c
    BY <1>2, <1>3, <1>9
  <2>2. TotalGain(base, {b, c}) = GainOf(base, b) + GainOf(base, c)
    BY <1>5, <2>1, GainOfTwo
  <2>3. IdGain(base, N, p) = (SpeedOf(base, p) + FastestBaseSpeed(base))
                               + (SpeedOf(base, m) + FastestBaseSpeed(base))
    BY <1>9 DEF IdGain, m
  <2>. QED
    BY <1>2, <1>3, <1>4, <1>6, <1>7, <2>2, <2>3 DEF GainOf
<1>. QED
  BY <1>8, <1>9

(* A rest gives all of it to the first of the id in the analysed list.     *)
IsFirstOfId(s, p) == Named(s[FirstOf(s, p.id)]) = p

LEMMA RestSpeeds ==
  ASSUME NEW N, NEW base, Lists(base, N), Len(base) > 1,
         NEW turn \in TurnType, Lists(turn.analyzed, N), NEW p \in N
  PROVE  SpeedOf(EndTurnRoutine(base, turn).analyzed, p) =
           SpeedOf(turn.analyzed, p)
             + (IF IsFirstOfId(turn.analyzed, p) THEN IdGain(base, N, p) ELSE 0)
<1>. DEFINE a == turn.analyzed
            givers(k) == {b \in WithId(base, a[k].id) : k = Min(WithId(a, base[b].id))}
            Gain(k) == TotalGain(base, givers(k))
            rested == [k \in DOMAIN a |-> [a[k] EXCEPT !.speed = @ + Gain(k)]]
<1>1. base \in Seq(Elem) /\ base # << >> /\ DOMAIN base = 1..Len(base) /\ Len(base) \in Nat
  <2>1. base \in Seq(Elem)
    BY DEF Lists
  <2>. QED
    BY <2>1
<1>2. EndTurnRoutine(base, turn).analyzed = CustomSort(base, rested)
  <2>1. EndTurnRoutine(base, turn) =
          IF Len(base) <= 1 THEN [turn EXCEPT !.complete = TRUE]
          ELSE [complete |-> TRUE, analyzed |-> CustomSort(base, rested),
                priority |-> Reverse(turn.priority)]
    BY Zenon DEF EndTurnRoutine, TotalGain
  <2>2. ~(Len(base) <= 1)
    BY <1>1
  <2>. HIDE DEF rested
  <2>. QED
    BY <2>1, <2>2
<1>3. ASSUME NEW k \in DOMAIN a
      PROVE  /\ Gain(k) \in Int /\ a[k] \in Elem
             /\ Gain(k) = IF IsFirstOfId(a, Named(a[k]))
                          THEN IdGain(base, N, Named(a[k])) ELSE 0
  <2>. DEFINE q == Named(a[k])
  <2>1. q \in N /\ q.id = a[k].id /\ a[k] \in Elem
    BY SpeedOfElement DEF Named, Lists
  <2>2. \A b \in WithId(base, a[k].id) : base[b].id = a[k].id
    BY DEF WithId
  <2>3. /\ FirstOf(a, q.id) \in DOMAIN a /\ Named(a[FirstOf(a, q.id)]) \in N
    BY <2>1, FirstOfAnId, SpeedOfElement
  <2>4. IsFirstOfId(a, q) <=> k = FirstOf(a, a[k].id)
    BY <2>1, <2>3 DEF IsFirstOfId, Lists
  <2>5. givers(k) = IF k = FirstOf(a, a[k].id) THEN WithId(base, a[k].id) ELSE {}
    BY <2>2 DEF FirstOf
  <2>6. TotalGain(base, WithId(base, q.id)) = IdGain(base, N, q) /\ IdGain(base, N, q) \in Int
    BY <2>1, GainOfAnId
  <2>7. TotalGain(base, {}) = 0
    BY <1>1, GainOfNobody
  <2>. HIDE DEF givers, a, q
  <2>8. Gain(k) = IF IsFirstOfId(a, q) THEN IdGain(base, N, q) ELSE 0
    BY <2>1, <2>4, <2>5, <2>6, <2>7
  <2>. QED
    BY <2>1, <2>6, <2>8 DEF q
<1>. HIDE DEF Gain
<1>4. a \in Seq(Elem) /\ Len(a) \in Nat /\ DOMAIN a = 1..Len(a) /\ Lists(a, N)
  <2>1. a \in Seq(Elem)
    BY DEF Lists
  <2>. QED
    BY <2>1
<1>. HIDE DEF a
<1>5. ASSUME NEW k \in DOMAIN a
      PROVE  /\ rested[k] \in Elem /\ Named(rested[k]) = Named(a[k])
             /\ rested[k].speed = a[k].speed + Gain(k)
  <2>1. a[k].speed \in Int
    BY <1>3 DEF Elem
  <2>2. a[k].speed + Gain(k) \in Int
    BY <1>3, <2>1
  <2>3. rested[k].speed = a[k].speed + Gain(k)
    BY <1>3 DEF Elem
  <2>. QED
    BY <1>3, <2>2, <2>3, SpeedChanges
<1>6. Lists(rested, N)
  <2>1. rested \in [1..Len(a) -> Elem]
    BY <1>4, <1>5
  <2>2. rested \in Seq(Elem) /\ Len(rested) = Len(a)
    <3>. HIDE DEF rested
    <3>. QED
      BY <1>4, <2>1, FunctionIsSequence
  <2>. HIDE DEF rested
  <2>. QED
    BY <1>4, <1>5, <2>2, SameNamesSameList
<1>7. SpeedOf(CustomSort(base, rested), p) = SpeedOf(rested, p)
  BY <1>6, CustomSortedSpeeds
<1>8. PICK k \in DOMAIN a : Named(a[k]) = p /\ a[k].speed = SpeedOf(a, p)
  BY <1>4, SpeedOfListed
<1>9. k \in DOMAIN rested
  OBVIOUS
<1>. HIDE DEF rested
<1>10. SpeedOf(rested, p) = rested[k].speed
  BY <1>5, <1>6, <1>8, <1>9, SpeedOfElement
<1>. QED
  BY <1>2, <1>3, <1>5, <1>7, <1>8, <1>10 DEF a

-----------------------------------------------------------------------------
(* What one round does: the participant f, who has as much left as anybody,*)
(* pays; when he has the id of the slowest every id gains.                 *)
Slowest(base) == Named(base[1])

Fastest(base) == Named(base[Len(base)])

Payment(s, base, N, f) ==
  IF Len(base) = 1 THEN 0 ELSE AtLeastOne(LowOf(s, N, SlowerOf(base, f)))

Paid(s, base, N, f, p) ==
  IF p = f THEN SpeedOf(s, p) - Payment(s, base, N, f) ELSE SpeedOf(s, p)

(* One participant of every id is the first when f has played in the list  *)
(* s: he who has less left of those with another id than f, and the other  *)
(* one of the id of f if there is one.                                     *)
FirstsOfIds(firsts, s, N, f) ==
  \A p \in N :
    /\ p \in firsts \/ Mate(N, p) \in firsts
    /\ Mate(N, p) # p => p \notin firsts \/ Mate(N, p) \notin firsts
    /\ p = f /\ Mate(N, p) # p => p \notin firsts
    /\ p \in firsts /\ p.id # f.id => SpeedOf(s, p) <= SpeedOf(s, Mate(N, p))

Gained(t, s, base, N, f) ==
  \E firsts : /\ FirstsOfIds(firsts, s, N, f)
              /\ \A p \in N : SpeedOf(t, p) = Paid(s, base, N, f, p)
                                + (IF p \in firsts THEN IdGain(base, N, p) ELSE 0)

IsToPlay(s, N, f) == f \in N /\ \A p \in N : SpeedOf(s, p) <= SpeedOf(s, f)

RoundPlayed(turn, s, base, N, f) ==
  /\ IsToPlay(s, N, f)
  /\ turn.complete <=> f.id = Slowest(base).id
  /\ IF turn.complete /\ Len(base) > 1 THEN Gained(turn.analyzed, s, base, N, f)
     ELSE \A p \in N : SpeedOf(turn.analyzed, p) = Paid(s, base, N, f, p)

(* Who has a place in the turn after it: the one who played it, too.       *)
RoundNames(next, turn, f) ==
  NamesOf(next.priority) = NamesOf(turn.priority) \cup {f}

LEMMA FirstsAfterPlaying ==
  ASSUME NEW N, NEW s, Lists(s, N), SpeedsIncrease(s),
         NEW t, Lists(t, N), t # << >>, SameButLast(t, s)
  PROVE  FirstsOfIds({p \in N : IsFirstOfId(t, p)}, s, N, Named(Last(t)))
<1>. DEFINE n == Len(t)
            f == Named(Last(t))
<1>1. /\ DOMAIN t = 1..n /\ DOMAIN s = 1..n /\ n \in Nat \ {0} /\ f = Named(t[n])
      /\ \A j, k \in DOMAIN t : Named(t[j]) = Named(t[k]) => j = k
  <2>1. t \in Seq(Elem) /\ s \in Seq(Elem)
    BY DEF Lists
  <2>2. n \in Nat \ {0} /\ Last(t) = t[n]
    BY <2>1, FrontAndLast
  <2>. QED
    BY <2>1, <2>2 DEF Lists, SameButLast
<1>2. \A k \in 1..(n - 1) : t[k] = s[k]
  BY DEF SameButLast
<1>. HIDE DEF n, f
<1>3. ASSUME NEW p \in N
      PROVE  /\ IsFirstOfId(t, p) \/ IsFirstOfId(t, Mate(N, p))
             /\ Mate(N, p) # p => ~IsFirstOfId(t, p) \/ ~IsFirstOfId(t, Mate(N, p))
             /\ p = f /\ Mate(N, p) # p => ~IsFirstOfId(t, p)
             /\ IsFirstOfId(t, p) /\ p.id # f.id => SpeedOf(s, p) <= SpeedOf(s, Mate(N, p))
  <2>. DEFINE k == FirstOf(t, p.id)
              m == Mate(N, p)
  <2>1. /\ k \in DOMAIN t /\ t[k].id = p.id
        /\ Named(t[k]) = p \/ Named(t[k]) = m
        /\ \A j \in DOMAIN t : t[j].id = p.id => k <= j
    BY FirstOfAnId
  <2>2. m \in N /\ m.id = p.id
    BY MatesShareTheirId
  <2>3. /\ IsFirstOfId(t, p) <=> Named(t[k]) = p
        /\ IsFirstOfId(t, m) <=> Named(t[k]) = m
    BY <2>2 DEF IsFirstOfId
  <2>4. PICK j \in DOMAIN t : Named(t[j]) = m
    BY <2>2 DEF Lists
  <2>. HIDE DEF k, m
  <2>5. k <= j
    BY <2>1, <2>2, <2>4 DEF Named
  <2>6. ASSUME p = f, m # p, IsFirstOfId(t, p) PROVE FALSE
    <3>1. k = n
      BY <1>1, <2>1, <2>3, <2>6
    <3>2. j = n
      BY <1>1, <2>5, <3>1
    <3>. QED
      BY <1>1, <2>4, <2>6, <3>2
  <2>7. ASSUME IsFirstOfId(t, p), p.id # f.id PROVE SpeedOf(s, p) <= SpeedOf(s, m)
    <3>1. f.id = t[n].id /\ t[j].id = p.id /\ t[k].id = p.id
      BY <1>1, <2>1, <2>2, <2>4 DEF Named
    <3>2. k # n /\ j # n
      BY <2>7, <3>1
    <3>3. t[k] = s[k] /\ t[j] = s[j] /\ k \in DOMAIN s /\ j \in DOMAIN s
      BY <1>1, <1>2, <2>1, <3>2
    <3>4. s[k].speed <= s[j].speed
      BY <2>5, <3>3 DEF SpeedsIncrease
    <3>5. SpeedOf(s, Named(s[k])) = s[k].speed /\ SpeedOf(s, Named(s[j])) = s[j].speed
      BY <3>3, SpeedOfElement
    <3>. QED
      BY <2>3, <2>4, <2>7, <3>3, <3>4, <3>5
  <2>. QED
    BY <2>1, <2>3, <2>6, <2>7 DEF m
<1>4. f = Named(Last(t))
  BY DEF f
<1>5. ASSUME NEW p \in N PROVE Mate(N, p) \in N
  BY MatesShareTheirId
<1>. QED
  BY <1>3, <1>4, <1>5 DEF FirstsOfIds

LEMMA AppendedNames ==
  ASSUME NEW s \in Seq(Elem), NEW e \in Elem
  PROVE  NamesOf(Append(s, e)) = NamesOf(s) \cup {Named(e)}
<1>. DEFINE t == Append(s, e)
            n == Len(s)
<1>1. n \in Nat /\ DOMAIN s = 1..n
  OBVIOUS
<1>2. t \in Seq(Elem) /\ Len(t) = n + 1 /\ t[n + 1] = e /\ \A k \in 1..n : t[k] = s[k]
  BY LastAppended
<1>3. DOMAIN t = (1..n) \cup {n + 1}
  BY <1>1, <1>2
<1>. HIDE DEF t, n
<1>4. NamesOf(t) = NamesOf(s) \cup {Named(e)}
  BY <1>1, <1>2, <1>3 DEF NamesOf, Range
<1>. QED
  BY <1>4 DEF t

LEMMA ReversedNames ==
  ASSUME NEW s \in Seq(Elem)
  PROVE  NamesOf(Reverse(s)) = NamesOf(s)
<1>. DEFINE r == Reverse(s)
            n == Len(s)
<1>1. n \in Nat /\ DOMAIN s = 1..n
  OBVIOUS
<1>2. r = [k \in 1..n |-> s[(n - k) + 1]]
  BY DEF Reverse
<1>. HIDE DEF r, n
<1>3. \A k \in 1..n : (n - k) + 1 \in 1..n /\ (n - ((n - k) + 1)) + 1 = k
  BY <1>1
<1>4. DOMAIN r = 1..n /\ \A k \in 1..n : r[k] = s[(n - k) + 1]
  BY <1>2
<1>5. Range(r) = Range(s)
  BY <1>1, <1>3, <1>4 DEF Range
<1>. QED
  BY <1>5 DEF NamesOf, r

LEMMA RestKeepsNames ==
  ASSUME NEW N, NEW base \in Seq(Elem), base # << >>,
         NEW turn \in TurnType, Lists(turn.analyzed, N)
  PROVE  LET ended == EndTurnRoutine(base, turn) IN
         /\ ended.complete = TRUE
         /\ NamesOf(ended.priority) = NamesOf(turn.priority)
<1>. DEFINE ended == EndTurnRoutine(base, turn)
<1>1. /\ ended.complete = TRUE
      /\ \/ ended.priority = turn.priority
         \/ ended.priority = Reverse(turn.priority)
  BY RestKeepsList
<1>2. turn.priority \in Seq(Elem)
  BY DEF TurnType
<1>. HIDE DEF ended
<1>3. NamesOf(ended.priority) = NamesOf(turn.priority)
  BY <1>1, <1>2, ReversedNames
<1>. QED
  BY <1>1, <1>3 DEF ended

LEMMA RoundIsPlayed ==
  ASSUME NEW N, NEW base, Lists(base, N), base # << >>,
         NEW turn, GoodTurn(turn, base, N), ~turn.complete
  PROVE  \E f : /\ RoundPlayed(Round(base, turn), turn.analyzed, base, N, f)
                /\ RoundNames(Round(base, turn), turn, f)
<1>. DEFINE a == turn.analyzed
            s == CustomSort(base, a)
            q == turn.priority
            played == Played(base, s, q)
            f == Named(Last(s))
<1>1. /\ base \in Seq(Elem) /\ q \in Seq(Elem) /\ Lists(a, N)
      /\ DOMAIN base = 1..Len(base) /\ Len(base) \in Nat \ {0}
  <2>1. base \in Seq(Elem) /\ q \in Seq(Elem) /\ Lists(a, N)
    BY DEF Lists, GoodTurn, TurnType
  <2>. QED
    BY <2>1
<1>2. Lists(s, N) /\ s # << >> /\ SpeedsIncrease(s) /\ \A p \in N : SpeedOf(s, p) = SpeedOf(a, p)
  BY <1>1, CustomSortKeepsList, CustomSortedSpeeds, NotEmpty
<1>. HIDE DEF s, q, a
<1>3. f \in N /\ \A p \in N : SpeedOf(a, p) <= SpeedOf(a, f)
  <2>1. f \in N /\ SpeedOf(s, f) = Last(s).speed /\ \A p \in N : SpeedOf(s, p) <= Last(s).speed
    BY <1>2, LastIsFastest
  <2>. HIDE DEF f
  <2>. QED
    BY <1>2, <2>1
<1>4. \A p \in N : Mate(N, p) \in N
  BY <1>2, MatesShareTheirId
<1>5. f.id = Last(s).id /\ Slowest(base).id = base[1].id
  BY DEF Named, Slowest
<1>6. Len(s) = Len(base)
  BY <1>2, ListLength
<1>7. Cost(base, s) = Payment(a, base, N, f)
  <2>. DEFINE w == SlowerOf(base, f)
  <2>1. w \in N /\ ComputedSpeed(base, s, f.id) = AtLeastOne(LowOf(s, N, w))
    BY <1>2, <1>3, CostIsWhatSlowerHasLeft
  <2>. HIDE DEF w
  <2>2. LowOf(s, N, w) = LowOf(a, N, w)
    BY <1>2, <1>4, <2>1 DEF LowOf
  <2>3. CASE Len(base) = 1
    BY <1>6, <2>3 DEF Cost, Payment
  <2>4. CASE Len(base) # 1
    <3>1. Len(s) > 1
      BY <1>1, <1>6, <2>4
    <3>2. Cost(base, s) = ComputedSpeed(base, s, f.id)
      BY <1>5, <3>1 DEF Cost
    <3>3. Payment(a, base, N, f) = AtLeastOne(LowOf(a, N, w))
      BY <2>4 DEF Payment, w
    <3>. QED
      BY <2>1, <2>2, <3>2, <3>3
  <2>. QED
    BY <2>3, <2>4
<1>8. /\ played \in TurnType /\ played.complete = FALSE
      /\ Lists(played.analyzed, N)
      /\ Named(Last(played.analyzed)) = f
      /\ NamesOf(played.priority) = NamesOf(q) \cup {f}
      /\ \A p \in N : SpeedOf(played.analyzed, p) = Paid(a, base, N, f, p)
      /\ FirstsOfIds({p \in N : IsFirstOfId(played.analyzed, p)}, s, N, f)
  <2>0. base \in Seq(Elem) /\ q \in Seq(Elem) /\ Lists(s, N) /\ s # << >>
    BY <1>1, <1>2
  <2>1. /\ played \in TurnType /\ played.complete = FALSE
        /\ Last(played.analyzed) \in Elem
        /\ played.priority = Append(q, Last(played.analyzed))
    BY <2>0, PlayedKeepsList
  <2>2. /\ Lists(played.analyzed, N)
        /\ Named(Last(played.analyzed)) = f
        /\ SpeedsPlayed(played.analyzed, base, s, N)
        /\ SameButLast(played.analyzed, s)
    BY <2>0, PlayedSpeeds
  <2>. HIDE DEF played
  <2>3. \A p \in N : SpeedOf(played.analyzed, p) =
                       IF p = f THEN SpeedOf(s, p) - Cost(base, s) ELSE SpeedOf(s, p)
    BY <2>2 DEF SpeedsPlayed
  <2>4. NamesOf(played.priority) = NamesOf(q) \cup {f}
    BY <2>0, <2>1, <2>2, AppendedNames
  <2>5. played.analyzed # << >>
    BY <2>0, <2>2, NotEmpty
  <2>. DEFINE t == played.analyzed
  <2>6. Lists(t, N) /\ SameButLast(t, s) /\ t # << >> /\ Named(Last(t)) = f
    BY <2>2, <2>5
  <2>. HIDE DEF t, f
  <2>7. FirstsOfIds({p \in N : IsFirstOfId(t, p)}, s, N, Named(Last(t)))
    BY <1>2, <2>6, FirstsAfterPlaying
  <2>. QED
    BY <1>2, <1>7, <2>1, <2>2, <2>3, <2>4, <2>6, <2>7 DEF Paid, t
<1>9. Round(base, turn) = IF base[1].id = Last(played.analyzed).id
                          THEN EndTurnRoutine(base, played) ELSE played
  BY DEF Round, EndedBySlowest, IsPlayerSlowest, s, q, a
<1>10. base[1].id = Last(played.analyzed).id <=> f.id = Slowest(base).id
  <2>1. Last(played.analyzed).id = f.id
    BY <1>8 DEF Named
  <2>. QED
    BY <1>5, <2>1
<1>11. IsToPlay(a, N, f)
  BY <1>3 DEF IsToPlay
<1>. HIDE DEF played, f
<1>12. CASE f.id # Slowest(base).id
  BY <1>8, <1>9, <1>10, <1>11, <1>12 DEF RoundPlayed, RoundNames, a, q
<1>13. CASE f.id = Slowest(base).id
  <2>. DEFINE ended == EndTurnRoutine(base, played)
              firsts == {p \in N : IsFirstOfId(played.analyzed, p)}
  <2>1. /\ ended.complete = TRUE
        /\ NamesOf(ended.priority) = NamesOf(played.priority)
    <3>1. played \in TurnType /\ Lists(played.analyzed, N) /\ base \in Seq(Elem)
      BY <1>1, <1>8
    <3>. QED
      BY <3>1, RestKeepsNames
  <2>2. RoundNames(Round(base, turn), turn, f)
    <3>. HIDE DEF ended
    <3>. QED
      BY <1>8, <1>9, <1>10, <1>13, <2>1 DEF RoundNames, q, ended
  <2>3. CASE Len(base) = 1
    <3>1. ended = [played EXCEPT !.complete = TRUE]
      <4>1. Len(base) <= 1
        BY <2>3
      <4>. QED
        BY <4>1, Zenon DEF EndTurnRoutine
    <3>2. ended.analyzed = played.analyzed
      BY <1>8, <3>1 DEF TurnType
    <3>. HIDE DEF ended
    <3>. QED
      BY <1>8, <1>9, <1>10, <1>11, <1>13, <2>1, <2>3, <2>2, <3>2 DEF RoundPlayed, a, ended
  <2>4. CASE Len(base) # 1
    <3>1. Len(base) > 1
      BY <1>1, <2>4
    <3>2. \A p \in N : SpeedOf(ended.analyzed, p) =
                         SpeedOf(played.analyzed, p)
                           + (IF IsFirstOfId(played.analyzed, p) THEN IdGain(base, N, p) ELSE 0)
      BY <1>8, <3>1, RestSpeeds
    <3>3. \A p \in N : SpeedOf(ended.analyzed, p) =
                         Paid(a, base, N, f, p)
                           + (IF p \in firsts THEN IdGain(base, N, p) ELSE 0)
      BY <1>8, <3>2
    <3>4. FirstsOfIds(firsts, a, N, f)
      BY <1>2, <1>4, <1>8 DEF FirstsOfIds
    <3>. HIDE DEF ended, firsts
    <3>5. Gained(ended.analyzed, a, base, N, f)
      BY <3>3, <3>4 DEF Gained
    <3>. QED
      BY <1>9, <1>10, <1>11, <1>13, <2>1, <2>2, <3>1, <3>5 DEF RoundPlayed, a, ended
  <2>. QED
    BY <2>3, <2>4
<1>. QED
  BY <1>12, <1>13

-----------------------------------------------------------------------------
(* What is left during a turn that started from the list start, and after  *)
(* it: nobody with the id of the slowest has paid, who has paid had as much*)
(* left as they have.                                                      *)
UnderWay(s, base, N, start) ==
  /\ \A p \in N : SpeedOf(s, p) \in 0..SpeedOf(start, p)
  /\ \A a \in N : a.id = Slowest(base).id =>
       /\ SpeedOf(s, a) = SpeedOf(start, a)
       /\ \A p \in N : \/ SpeedOf(s, p) = SpeedOf(start, p)
                       \/ SpeedOf(start, a) <= SpeedOf(start, p)

Rested(t, base, N, start) ==
  \E s, f : /\ Lists(s, N) /\ UnderWay(s, base, N, start)
            /\ IsToPlay(s, N, f) /\ f.id = Slowest(base).id
            /\ IF Len(base) = 1 THEN \A p \in N : SpeedOf(t, p) = SpeedOf(s, p)
               ELSE Gained(t, s, base, N, f)

(* Nobody owes speed and every id has some left.                           *)
HaveSpeed(s, N) ==
  \A p \in N : SpeedOf(s, p) >= 0 /\ (SpeedOf(s, p) >= 1 \/ SpeedOf(s, Mate(N, p)) >= 1)

(* Everything that is left: a pair for every unit of speed.                *)
Units(s, N, V) == {unit \in N \X (1..V) : unit[2] <= SpeedOf(s, unit[1])}

LEMMA BaseEnds ==
  ASSUME NEW N, NEW base, Lists(base, N), base # << >>
  PROVE  /\ base \in Seq(Elem) /\ DOMAIN base = 1..Len(base) /\ Len(base) \in Nat \ {0}
         /\ 1 \in DOMAIN base /\ Len(base) \in DOMAIN base
         /\ Slowest(base) \in N /\ Fastest(base) \in N
         /\ SpeedOf(base, Fastest(base)) = FastestBaseSpeed(base)
         /\ FastestBaseSpeed(base) \in Int
<1>1. base \in Seq(Elem) /\ DOMAIN base = 1..Len(base) /\ Len(base) \in Nat \ {0}
  <2>1. base \in Seq(Elem)
    BY DEF Lists
  <2>. QED
    BY <2>1
<1>2. 1 \in DOMAIN base /\ Len(base) \in DOMAIN base
  BY <1>1
<1>. QED
  BY <1>1, <1>2, SpeedOfElement DEF Slowest, Fastest, FastestBaseSpeed

LEMMA SlowestHasSpeed ==
  ASSUME NEW N, NEW base, Lists(base, N), base # << >>, NEW s, HaveSpeed(s, N)
  PROVE  \E a \in N : a.id = Slowest(base).id /\ SpeedOf(s, a) >= 1
<1>1. Slowest(base) \in N
  BY BaseEnds
<1>2. Mate(N, Slowest(base)) \in N /\ Mate(N, Slowest(base)).id = Slowest(base).id
  BY <1>1, MatesShareTheirId
<1>. QED
  BY <1>1, <1>2 DEF HaveSpeed

(* A round that does not complete the turn costs one of the participants.  *)
LEMMA RoundTakesSpeed ==
  ASSUME NEW N, NEW base, Lists(base, N), base # << >>, NEW start, Lists(start, N),
         NEW a \in N, a.id = Slowest(base).id, SpeedOf(start, a) >= 1,
         NEW s, Lists(s, N), UnderWay(s, base, N, start),
         NEW turn, NEW f, RoundPlayed(turn, s, base, N, f), ~turn.complete
  PROVE  /\ UnderWay(turn.analyzed, base, N, start)
         /\ \A p \in N : SpeedOf(turn.analyzed, p) <= SpeedOf(s, p)
         /\ \E p \in N : SpeedOf(turn.analyzed, p) < SpeedOf(s, p)
<1>. DEFINE t == turn.analyzed
            slower == SlowerOf(base, f)
            pay == Payment(s, base, N, f)
<1>2. f \in N /\ f.id # Slowest(base).id /\ \A p \in N : SpeedOf(s, p) <= SpeedOf(s, f)
  BY DEF RoundPlayed, IsToPlay
<1>3. slower \in N
  BY <1>2, CostIsWhatSlowerHasLeft, SortedList
<1>4. \A p \in N : SpeedOf(t, p) = IF p = f THEN SpeedOf(s, p) - pay ELSE SpeedOf(s, p)
  BY DEF RoundPlayed, Paid
<1>5. Len(base) # 1
  <2>1. DOMAIN base = 1..Len(base) /\ 1 \in DOMAIN base
    BY BaseEnds
  <2>2. PICK k \in DOMAIN base : Named(base[k]) = f
    BY <1>2 DEF Lists
  <2>3. k # 1
    BY <1>2, <2>2 DEF Slowest
  <2>. QED
    BY <2>1, <2>2, <2>3
<1>6. pay = AtLeastOne(LowOf(s, N, slower))
  BY <1>5 DEF Payment
<1>. HIDE DEF t, slower, pay
<1>7. \A p \in N : SpeedOf(s, p) \in Int /\ SpeedOf(start, p) \in Int
  BY SpeedOfListed
<1>8. \A p \in N : 0 <= SpeedOf(s, p) /\ SpeedOf(s, p) <= SpeedOf(start, p)
  BY <1>7 DEF UnderWay
<1>9. \A b \in N : b.id = Slowest(base).id => SpeedOf(start, b) <= SpeedOf(s, f)
  BY <1>2 DEF UnderWay
<1>10. pay \in Int /\ 1 <= pay /\ pay <= SpeedOf(s, f)
  <2>1. /\ LowOf(s, N, slower) \in Int /\ Mate(N, slower) \in N
        /\ \/ LowOf(s, N, slower) = SpeedOf(s, slower)
           \/ LowOf(s, N, slower) = SpeedOf(s, Mate(N, slower))
    BY <1>3, LowIsOneOfThem, MatesShareTheirId
  <2>2. 0 <= LowOf(s, N, slower) /\ LowOf(s, N, slower) <= SpeedOf(s, f)
    BY <1>2, <1>3, <1>8, <2>1
  <2>3. SpeedOf(s, f) >= 1
    <3>1. SpeedOf(start, a) <= SpeedOf(s, f)
      BY <1>9
    <3>. QED
      BY <1>2, <1>7, <3>1
  <2>. QED
    BY <1>2, <1>6, <1>7, <2>1, <2>2, <2>3 DEF AtLeastOne
<1>11. \A p \in N : SpeedOf(t, p) \in Int /\ 0 <= SpeedOf(t, p) /\ SpeedOf(t, p) <= SpeedOf(s, p)
  BY <1>4, <1>7, <1>8, <1>10
<1>12. \A p \in N : SpeedOf(t, p) \in 0..SpeedOf(start, p)
  BY <1>7, <1>8, <1>11
<1>13. SpeedOf(t, f) < SpeedOf(s, f)
  BY <1>2, <1>4, <1>7, <1>10
<1>14. ASSUME NEW b \in N, b.id = Slowest(base).id
       PROVE  /\ SpeedOf(t, b) = SpeedOf(start, b)
              /\ \A p \in N : SpeedOf(t, p) = SpeedOf(start, p) \/ SpeedOf(start, b) <= SpeedOf(start, p)
  <2>1. SpeedOf(t, b) = SpeedOf(start, b)
    BY <1>2, <1>4, <1>14 DEF UnderWay
  <2>2. ASSUME NEW p \in N
        PROVE  SpeedOf(t, p) = SpeedOf(start, p) \/ SpeedOf(start, b) <= SpeedOf(start, p)
    <3>1. CASE p = f
      BY <1>7, <1>8, <1>9, <1>14, <3>1
    <3>2. CASE p # f
      BY <1>4, <1>14, <3>2 DEF UnderWay
    <3>. QED
      BY <3>1, <3>2
  <2>. QED
    BY <2>1, <2>2
<1>15. UnderWay(t, base, N, start)
  BY <1>12, <1>14 DEF UnderWay
<1>. QED
  BY <1>2, <1>11, <1>13, <1>15 DEF t

(* The round of the slowest completes the turn.                            *)
LEMMA RoundOfSlowest ==
  ASSUME NEW N, NEW base, Lists(base, N), base # << >>, NEW start, Lists(start, N),
         NEW s, Lists(s, N), UnderWay(s, base, N, start),
         NEW turn, NEW f, RoundPlayed(turn, s, base, N, f), turn.complete
  PROVE  Rested(turn.analyzed, base, N, start)
<1>1. IsToPlay(s, N, f) /\ f.id = Slowest(base).id
  BY DEF RoundPlayed
<1>2. CASE Len(base) = 1
  <2>1. \A p \in N : SpeedOf(turn.analyzed, p) = Paid(s, base, N, f, p)
    BY <1>2 DEF RoundPlayed
  <2>2. Payment(s, base, N, f) = 0
    BY <1>2 DEF Payment
  <2>3. \A p \in N : SpeedOf(s, p) \in Int
    BY SpeedOfListed
  <2>4. \A p \in N : SpeedOf(turn.analyzed, p) = SpeedOf(s, p)
    BY <2>1, <2>2, <2>3 DEF Paid
  <2>. QED
    BY <1>1, <1>2, <2>4 DEF Rested
<1>3. CASE Len(base) # 1
  <2>1. Len(base) > 1
    <3>1. Len(base) \in Nat \ {0}
      BY BaseEnds
    <3>2. \A n \in Nat \ {0} : n # 1 => n > 1
      OBVIOUS
    <3>. QED
      BY <1>3, <3>1, <3>2
  <2>2. Gained(turn.analyzed, s, base, N, f)
    BY <2>1 DEF RoundPlayed
  <2>. QED
    BY <1>1, <1>3, <2>2 DEF Rested
<1>. QED
  BY <1>2, <1>3

LEMMA UnitsAreFinite ==
  ASSUME NEW N, IsFiniteSet(N), NEW V \in Nat, NEW s
  PROVE  /\ IsFiniteSet(Units(s, N, V)) /\ Cardinality(Units(s, N, V)) \in Nat
         /\ Cardinality(Units(s, N, V)) <= Cardinality(N) * V
<1>. DEFINE all == N \X (1..V)
<1>1. IsFiniteSet(1..V) /\ Cardinality(1..V) = V
  <2>1. IsFiniteSet(1..V) /\ Cardinality(1..V) = IF 1 > V THEN 0 ELSE V - 1 + 1
    BY FS_Interval
  <2>. QED
    BY <2>1
<1>2. IsFiniteSet(all) /\ Cardinality(all) = Cardinality(N) * V
  BY <1>1, FS_Product
<1>3. Units(s, N, V) \subseteq all
  BY DEF Units
<1>. HIDE DEF all
<1>. QED
  BY <1>2, <1>3, FS_Subset, FS_CardinalityType

LEMMA FewerUnits ==
  ASSUME NEW N, IsFiniteSet(N), NEW V \in Nat, NEW s, NEW t,
         \A p \in N : /\ SpeedOf(s, p) \in Int /\ SpeedOf(t, p) \in Int
                      /\ 0 <= SpeedOf(t, p) /\ SpeedOf(t, p) <= SpeedOf(s, p)
                      /\ SpeedOf(s, p) <= V,
         \E p \in N : SpeedOf(t, p) < SpeedOf(s, p)
  PROVE  Cardinality(Units(t, N, V)) < Cardinality(Units(s, N, V))
<1>1. PICK p \in N : SpeedOf(t, p) < SpeedOf(s, p)
  OBVIOUS
<1>2. SpeedOf(s, p) \in 1..V /\ SpeedOf(t, p) \in Int
  BY <1>1
<1>. DEFINE unit == <<p, SpeedOf(s, p)>>
<1>3. unit \in Units(s, N, V) /\ unit \notin Units(t, N, V)
  BY <1>1, <1>2 DEF Units
<1>4. Units(t, N, V) \subseteq Units(s, N, V)
  <2>. SUFFICES ASSUME NEW q \in N, NEW v \in 1..V, v <= SpeedOf(t, q)
                PROVE  v <= SpeedOf(s, q)
    BY DEF Units
  <2>. QED
    OBVIOUS
<1>5. IsFiniteSet(Units(s, N, V)) /\ Cardinality(Units(s, N, V)) \in Nat
      /\ Cardinality(Units(t, N, V)) \in Nat
  BY UnitsAreFinite
<1>6. /\ Cardinality(Units(t, N, V)) <= Cardinality(Units(s, N, V))
      /\ Cardinality(Units(t, N, V)) = Cardinality(Units(s, N, V))
           => Units(t, N, V) = Units(s, N, V)
  BY <1>4, <1>5, FS_Subset
<1>. QED
  BY <1>3, <1>5, <1>6

(* The rounds of a turn that started from start, n of them later.          *)
Reached(turn, n, base, N, start, V) ==
  IF turn.complete THEN Rested(turn.analyzed, base, N, start)
  ELSE /\ UnderWay(turn.analyzed, base, N, start)
       /\ n + Cardinality(Units(turn.analyzed, N, V)) <= Cardinality(Units(start, N, V))

LEMMA RoundGoesOn ==
  ASSUME NEW N, IsFiniteSet(N), NEW V \in Nat,
         NEW base, Lists(base, N), base # << >>, NEW start, Lists(start, N),
         \A p \in N : SpeedOf(start, p) \in 0..V, HaveSpeed(start, N),
         NEW turn, GoodTurn(turn, base, N), ~turn.complete,
         NEW n \in Nat, Reached(turn, n, base, N, start, V)
  PROVE  Reached(Round(base, turn), n + 1, base, N, start, V)
<1>. DEFINE next == Round(base, turn)
<1>1. Lists(turn.analyzed, N) /\ UnderWay(turn.analyzed, base, N, start)
      /\ n + Cardinality(Units(turn.analyzed, N, V)) <= Cardinality(Units(start, N, V))
  BY DEF Reached, GoodTurn
<1>2. GoodTurn(next, base, N)
  BY RoundIsGood
<1>3. Lists(next.analyzed, N) /\ next.complete \in BOOLEAN
  BY <1>2 DEF GoodTurn, TurnType
<1>4. PICK f : RoundPlayed(next, turn.analyzed, base, N, f)
  BY RoundIsPlayed
<1>. HIDE DEF next
<1>6. CASE next.complete
  <2>1. Rested(next.analyzed, base, N, start)
    BY <1>1, <1>4, <1>6, RoundOfSlowest
  <2>. QED
    BY <1>6, <2>1 DEF Reached, next
<1>7. CASE ~next.complete
  <2>. DEFINE s == turn.analyzed
              t == next.analyzed
  <2>1. PICK a \in N : a.id = Slowest(base).id /\ SpeedOf(start, a) >= 1
    BY SlowestHasSpeed
  <2>2. /\ UnderWay(t, base, N, start)
        /\ \A p \in N : SpeedOf(t, p) <= SpeedOf(s, p)
        /\ \E p \in N : SpeedOf(t, p) < SpeedOf(s, p)
    BY <1>1, <1>4, <1>7, <2>1, RoundTakesSpeed
  <2>3. \A p \in N : /\ SpeedOf(s, p) \in Int /\ SpeedOf(t, p) \in Int
                     /\ SpeedOf(start, p) \in 0..V
    BY <1>1, <1>3, SpeedOfListed
  <2>4. UnderWay(s, base, N, start)
    BY <1>1
  <2>5. Units(s, N, V) = Units(turn.analyzed, N, V)
    OBVIOUS
  <2>. HIDE DEF s, t
  <2>6. \A p \in N : /\ 0 <= SpeedOf(t, p) /\ SpeedOf(s, p) <= V
    BY <2>2, <2>3, <2>4 DEF UnderWay
  <2>7. Cardinality(Units(t, N, V)) < Cardinality(Units(s, N, V))
    BY <2>2, <2>3, <2>6, FewerUnits
  <2>8. /\ Cardinality(Units(s, N, V)) \in Nat /\ Cardinality(Units(t, N, V)) \in Nat
        /\ Cardinality(Units(start, N, V)) \in Nat
    BY UnitsAreFinite
  <2>9. (n + 1) + Cardinality(Units(t, N, V)) <= Cardinality(Units(start, N, V))
    BY <1>1, <2>5, <2>7, <2>8
  <2>. QED
    BY <1>7, <2>2, <2>9 DEF Reached, next, t
<1>. QED
  BY <1>3, <1>6, <1>7

(* What a computation of a turn leaves, and that it ends if it may take as *)
(* many rounds as there are units of speed.                                *)
LEMMA CalculatedSpeeds ==
  ASSUME NEW N, IsFiniteSet(N), NEW V \in Nat,
         NEW base, Lists(base, N), base # << >>, NEW start, Lists(start, N),
         \A p \in N : SpeedOf(start, p) \in 0..V, HaveSpeed(start, N)
  PROVE  LET turn == CalculatePriority(base, start) IN
         /\ GoodTurn(turn, base, N)
         /\ turn.complete => Rested(turn.analyzed, base, N, start)
         /\ ~turn.complete => UnderWay(turn.analyzed, base, N, start)
         /\ MaxRounds >= Cardinality(N) * V => turn.complete
<1>1. PICK rounds : /\ AreRounds(rounds, base, start)
                    /\ CalculatePriority(base, start) = rounds[MaxRounds]
                    /\ \A n \in 0..MaxRounds : GoodTurn(rounds[n], base, N)
  BY RoundsAreGood
<1>. DEFINE reached == {n \in Nat : n <= MaxRounds => Reached(rounds[n], n, base, N, start, V)}
<1>2. MaxRounds \in Nat
  BY PriorityAssumption
<1>3. 0 \in reached
  <2>1. rounds[0].complete = FALSE /\ rounds[0].analyzed = start
    BY <1>1 DEF AreRounds
  <2>2. \A p \in N : SpeedOf(start, p) \in 0..SpeedOf(start, p)
    OBVIOUS
  <2>3. UnderWay(start, base, N, start)
    BY <2>2 DEF UnderWay
  <2>4. Cardinality(Units(start, N, V)) \in Nat
    BY UnitsAreFinite
  <2>. QED
    BY <2>1, <2>3, <2>4 DEF Reached
<1>4. ASSUME NEW n \in Nat, n \in reached PROVE n + 1 \in reached
  <2>. SUFFICES ASSUME n + 1 <= MaxRounds
                PROVE  Reached(rounds[n + 1], n + 1, base, N, start, V)
    OBVIOUS
  <2>1. n \in 0..(MaxRounds - 1) /\ n \in 0..MaxRounds
    BY <1>2
  <2>2. Reached(rounds[n], n, base, N, start, V) /\ GoodTurn(rounds[n], base, N)
    BY <1>1, <1>2, <1>4, <2>1
  <2>3. rounds[n + 1] = IF rounds[n].complete THEN rounds[n] ELSE Round(base, rounds[n])
    BY <1>1, <2>1 DEF AreRounds
  <2>4. CASE rounds[n].complete
    BY <2>2, <2>3, <2>4 DEF Reached
  <2>5. CASE ~rounds[n].complete
    BY <2>2, <2>3, <2>5, RoundGoesOn
  <2>. QED
    BY <2>4, <2>5
<1>5. Nat \subseteq reached
  <2>. HIDE DEF reached
  <2>. QED
    BY <1>3, <1>4, SetInduction
<1>6. Reached(rounds[MaxRounds], MaxRounds, base, N, start, V) /\ GoodTurn(rounds[MaxRounds], base, N)
  BY <1>1, <1>2, <1>5
<1>7. ASSUME MaxRounds >= Cardinality(N) * V, ~rounds[MaxRounds].complete PROVE FALSE
  <2>. DEFINE s == rounds[MaxRounds].analyzed
  <2>1. UnderWay(s, base, N, start)
        /\ MaxRounds + Cardinality(Units(s, N, V)) <= Cardinality(Units(start, N, V))
    BY <1>6, <1>7 DEF Reached
  <2>2. PICK a \in N : a.id = Slowest(base).id /\ SpeedOf(start, a) >= 1
    BY SlowestHasSpeed
  <2>. DEFINE unit == <<a, 1>>
  <2>3. SpeedOf(start, a) \in 1..V /\ SpeedOf(s, a) = SpeedOf(start, a)
    BY <2>1, <2>2 DEF UnderWay
  <2>4. unit \in Units(s, N, V)
    BY <2>2, <2>3 DEF Units
  <2>5. /\ IsFiniteSet(Units(s, N, V)) /\ Cardinality(Units(s, N, V)) \in Nat
        /\ Cardinality(Units(start, N, V)) \in Nat
        /\ Cardinality(Units(start, N, V)) <= Cardinality(N) * V
    BY UnitsAreFinite
  <2>6. Cardinality(Units(s, N, V)) # 0
    BY <2>4, <2>5, FS_EmptySet
  <2>7. Cardinality(N) * V \in Int
    BY FS_CardinalityType
  <2>. HIDE DEF s
  <2>. QED
    BY <1>2, <1>7, <2>1, <2>5, <2>6, <2>7
<1>8. rounds[MaxRounds].complete \in BOOLEAN
  BY <1>6 DEF GoodTurn, TurnType
<1>. QED
  BY <1>1, <1>6, <1>7, <1>8 DEF Reached

-----------------------------------------------------------------------------
(* The speeds left between two turns. With x and xx the speeds left to the *)
(* participants with the id of the slowest, y and yy those left to the     *)
(* participants with the id of the fastest, all twice when there is only   *)
(* one, and fast the fastest base speed:                                   *)

(* Twice what the speed v lacks to four times the fastest one.             *)
Lack(fast, v) == IF v < 4 * fast THEN 2 * (4 * fast - v) ELSE 0

(* What is left to the slowest is small when little is left to the         *)
(* fastest, what he pays being little then;                                *)
Balanced(B, M, fast, x, xx, y, yy) ==
  /\ x <= B /\ xx <= B
  /\ x + xx + Lack(fast, y) + Lack(fast, yy) <= 2 * B - 8 * M

(* and when much is left to the fastest, who may play in the turn.         *)
Apart(B, M, fast, x, xx, y, yy) ==
  /\ y <= yy => x + xx + y <= 3 * B - 44 * M
  /\ yy <= y => x + xx + yy <= 3 * B - 44 * M
  /\ x + xx + y + Lack(fast, y) + Lack(fast, yy) <= 3 * B - 36 * M
  /\ x + xx + yy + Lack(fast, y) + Lack(fast, yy) <= 3 * B - 36 * M

Least(v, w) == IF v <= w THEN v ELSE w

(* A rest: he who played pays, somebody of every id gains. Who has the id  *)
(* of the fastest had as much left as at the start of the turn unless it   *)
(* was as much as the one who played.                                      *)
PlayerGains(fast, x, xx, g, pay, a, aa) ==
  /\ x \in Int /\ xx \in Int /\ 0 <= xx /\ xx <= x
  /\ g \in Int /\ pay \in Int /\ a \in Int /\ aa \in Int
  /\ \/ a = x - pay /\ aa = xx + g /\ g <= 4 * fast
     \/ x = xx /\ a = x - pay + g /\ aa = a /\ g <= 2 * fast

FastestGain(fast, x, y, yy, u, uu, h, b, bb) ==
  /\ y \in Int /\ yy \in Int /\ u \in Int /\ uu \in Int
  /\ h \in Int /\ b \in Int /\ bb \in Int
  /\ 0 <= u /\ u <= x /\ u <= y /\ (u = y \/ x <= y)
  /\ 0 <= uu /\ uu <= x /\ uu <= yy /\ (uu = yy \/ x <= yy)
  /\ 2 * fast <= h /\ h <= 4 * fast
  /\ \/ b = u + h /\ bb = uu /\ u <= uu
     \/ b = u /\ bb = uu + h /\ uu <= u
     \/ u = uu /\ b = u + h /\ bb = b

LEMMA SlowestPays ==
  ASSUME NEW B \in Int, NEW M \in Int, NEW fast \in Int,
         1 <= fast, fast <= M, 44 * M <= B,
         NEW x, NEW xx, NEW y, NEW yy, NEW u, NEW uu, NEW g, NEW h, NEW pay,
         NEW a, NEW aa, NEW b, NEW bb,
         Balanced(B, M, fast, x, xx, y, yy), Apart(B, M, fast, x, xx, y, yy),
         PlayerGains(fast, x, xx, g, pay, a, aa),
         FastestGain(fast, x, y, yy, u, uu, h, b, bb),
         pay = AtLeastOne(Least(u, uu))
  PROVE  Balanced(B, M, fast, a, aa, b, bb) /\ Apart(B, M, fast, a, aa, b, bb)
<1>1. Balanced(B, M, fast, a, aa, b, bb)
  BY SMTT(60) DEF Balanced, Apart, Lack, Least, AtLeastOne, PlayerGains, FastestGain
<1>2. Apart(B, M, fast, a, aa, b, bb)
  BY SMTT(60) DEF Balanced, Apart, Lack, Least, AtLeastOne, PlayerGains, FastestGain
<1>. QED
  BY <1>1, <1>2

(* The slowest and the fastest may share an id.                            *)
LEMMA SlowestIsFastest ==
  ASSUME NEW B \in Int, NEW M \in Int, NEW fast \in Int,
         1 <= fast, fast <= M, 44 * M <= B,
         NEW x, NEW xx, NEW g, NEW pay, NEW a, NEW aa,
         Balanced(B, M, fast, x, xx, x, xx),
         PlayerGains(fast, x, xx, g, pay, a, aa),
         pay = AtLeastOne(Least(x, xx)), 2 * fast <= g
  PROVE  Balanced(B, M, fast, a, aa, a, aa)
BY SMTT(60) DEF Balanced, Lack, Least, AtLeastOne, PlayerGains

LEMMA SmallSpeeds ==
  ASSUME NEW B \in Int, NEW M \in Int, NEW fast \in Int,
         1 <= fast, fast <= M, 44 * M <= B,
         NEW x \in 0..(B - 15 * M), NEW xx \in 0..(B - 15 * M),
         NEW y \in 0..(B - 15 * M), NEW yy \in 0..(B - 15 * M)
  PROVE  Balanced(B, M, fast, x, xx, y, yy) /\ Apart(B, M, fast, x, xx, y, yy)
BY DEF Balanced, Apart, Lack

LEMMA EitherFirst ==
  ASSUME NEW B \in Int, NEW M \in Int, NEW fast \in Int,
         NEW x \in Int, NEW xx \in Int, NEW y \in Int, NEW yy \in Int,
         Balanced(B, M, fast, x, xx, y, yy)
  PROVE  /\ Balanced(B, M, fast, xx, x, y, yy)
         /\ Balanced(B, M, fast, x, xx, yy, y)
         /\ Apart(B, M, fast, x, xx, y, yy) => Apart(B, M, fast, xx, x, y, yy)
<1>1. Lack(fast, y) \in Int /\ Lack(fast, yy) \in Int
  BY DEF Lack
<1>. QED
  BY <1>1 DEF Balanced, Apart

(* The speeds left are balanced whoever stands for the two ids.            *)
BalancedFor(base, s, N, B, M, a, b) ==
  LET fast == FastestBaseSpeed(base)
      x == SpeedOf(s, a)
      xx == SpeedOf(s, Mate(N, a))
      y == SpeedOf(s, b)
      yy == SpeedOf(s, Mate(N, b))
  IN  /\ Balanced(B, M, fast, x, xx, y, yy)
      /\ a.id # b.id => Apart(B, M, fast, x, xx, y, yy)

SpeedsLeft(base, s, N, B, M) ==
  /\ HaveSpeed(s, N)
  /\ \A p \in N : SpeedOf(s, p) <= B + 4 * M
  /\ base # << >> =>
       \A a, b \in N : a.id = Slowest(base).id /\ b.id = Fastest(base).id =>
         BalancedFor(base, s, N, B, M, a, b)

(* What the base gives at a rest: between 2 and four times the fastest.    *)
LEMMA GainsOfIds ==
  ASSUME NEW N, NEW base, Lists(base, N), base # << >>, SpeedsIncrease(base),
         NEW M \in Int, \A p \in N : SpeedOf(base, p) \in 1..M
  PROVE  LET fast == FastestBaseSpeed(base) IN
         /\ fast \in Int /\ 1 <= fast /\ fast <= M
         /\ \A p \in N :
              /\ IdGain(base, N, p) \in Int
              /\ 2 <= IdGain(base, N, p) /\ IdGain(base, N, p) <= 4 * fast
              /\ Mate(N, p) = p => IdGain(base, N, p) <= 2 * fast
              /\ p.id = Fastest(base).id => 2 * fast <= IdGain(base, N, p)
<1>. DEFINE fast == FastestBaseSpeed(base)
            quick == Fastest(base)
<1>1. /\ DOMAIN base = 1..Len(base) /\ Len(base) \in Nat \ {0}
      /\ Len(base) \in DOMAIN base
      /\ quick \in N /\ SpeedOf(base, quick) = fast
  BY BaseEnds
<1>2. \A p \in N : SpeedOf(base, p) <= fast
  <2>1. \A k \in DOMAIN base : base[k].speed <= base[Len(base)].speed
    BY <1>1 DEF SpeedsIncrease
  <2>. QED
    BY <2>1, SpeedOfListed DEF FastestBaseSpeed
<1>. HIDE DEF fast, quick
<1>3. fast \in Int /\ 1 <= fast /\ fast <= M
  BY <1>1
<1>4. ASSUME NEW p \in N
      PROVE  /\ IdGain(base, N, p) \in Int
             /\ 2 <= IdGain(base, N, p) /\ IdGain(base, N, p) <= 4 * fast
             /\ Mate(N, p) = p => IdGain(base, N, p) <= 2 * fast
             /\ p.id = quick.id => 2 * fast <= IdGain(base, N, p)
  <2>. DEFINE m == Mate(N, p)
              v == SpeedOf(base, p)
              w == SpeedOf(base, m)
  <2>1. m \in N /\ (p.id = quick.id => quick = p \/ quick = m)
    BY <1>1, MatesShareTheirId
  <2>2. IdGain(base, N, p) = (v + fast) + (IF m = p THEN 0 ELSE w + fast)
    BY DEF IdGain, fast
  <2>3. v \in 1..M /\ w \in 1..M /\ v <= fast /\ w <= fast
    BY <1>2, <2>1
  <2>4. p.id = quick.id => v = fast \/ (m # p /\ w = fast)
    BY <1>1, <2>1
  <2>. HIDE DEF m, v, w
  <2>5. CASE m = p
    BY <1>3, <2>2, <2>3, <2>4, <2>5 DEF m
  <2>6. CASE m # p
    BY <1>3, <2>2, <2>3, <2>4, <2>6 DEF m
  <2>. QED
    BY <2>5, <2>6
<1>. QED
  BY <1>3, <1>4 DEF fast, quick

(* The slowest pays what is left to the fastest.                           *)
LEMMA SlowestPaysFastest ==
  ASSUME NEW N, NEW base, Lists(base, N), base # << >>, NEW s, Lists(s, N),
         NEW f \in N, f.id = Slowest(base).id, Len(base) # 1,
         NEW b \in N, b.id = Fastest(base).id
  PROVE  Payment(s, base, N, f) = AtLeastOne(Least(SpeedOf(s, b), SpeedOf(s, Mate(N, b))))
<1>. DEFINE quick == Fastest(base)
<1>1. DOMAIN base = 1..Len(base) /\ 1 \in DOMAIN base /\ quick \in N
  BY BaseEnds
<1>2. FirstOf(base, f.id) = 1
  <2>. DEFINE k == FirstOf(base, f.id)
  <2>1. k \in DOMAIN base /\ \A j \in DOMAIN base : base[j].id = f.id => k <= j
    BY FirstOfAnId
  <2>2. base[1].id = f.id
    BY DEF Slowest, Named
  <2>. HIDE DEF k
  <2>3. k = 1
    BY <1>1, <2>1, <2>2
  <2>. QED
    BY <2>3 DEF k
<1>3. SlowerOf(base, f) = quick
  BY <1>2 DEF SlowerOf, SlowerRank, Fastest
<1>4. quick = b \/ (quick = Mate(N, b) /\ Mate(N, quick) = b)
  BY <1>1, MatesShareTheirId
<1>5. SpeedOf(s, b) \in Int /\ SpeedOf(s, Mate(N, b)) \in Int
  BY MatesShareTheirId, SpeedOfListed
<1>. HIDE DEF quick
<1>6. LowOf(s, N, quick) = Least(SpeedOf(s, b), SpeedOf(s, Mate(N, b)))
  BY <1>4, <1>5 DEF LowOf, Least
<1>. QED
  BY <1>3, <1>6 DEF Payment

LEMMA SmallSpeedsAnyBase ==
  ASSUME NEW N, NEW base, Lists(base, N), SpeedsIncrease(base), NEW s, Lists(s, N),
         NEW B \in Nat, NEW M \in Nat, 44 * M <= B,
         \A p \in N : SpeedOf(base, p) \in 1..M,
         HaveSpeed(s, N), \A p \in N : SpeedOf(s, p) <= B - 15 * M
  PROVE  SpeedsLeft(base, s, N, B, M)
<1>1. \A p \in N : SpeedOf(s, p) \in Int
  BY SpeedOfListed
<1>2. \A p \in N : SpeedOf(s, p) \in 0..(B - 15 * M)
  BY <1>1 DEF HaveSpeed
<1>3. ASSUME base # << >>, NEW a \in N, NEW b \in N
      PROVE  BalancedFor(base, s, N, B, M, a, b)
  <2>1. Mate(N, a) \in N /\ Mate(N, b) \in N
    BY MatesShareTheirId
  <2>2. /\ FastestBaseSpeed(base) \in Int /\ 1 <= FastestBaseSpeed(base)
        /\ FastestBaseSpeed(base) <= M
    BY <1>3, GainsOfIds
  <2>. DEFINE x == SpeedOf(s, a)
              xx == SpeedOf(s, Mate(N, a))
              y == SpeedOf(s, b)
              yy == SpeedOf(s, Mate(N, b))
              fast == FastestBaseSpeed(base)
  <2>3. /\ x \in 0..(B - 15 * M) /\ xx \in 0..(B - 15 * M)
        /\ y \in 0..(B - 15 * M) /\ yy \in 0..(B - 15 * M)
        /\ fast \in Int /\ 1 <= fast /\ fast <= M
    BY <1>2, <2>1, <2>2
  <2>. HIDE DEF x, xx, y, yy, fast
  <2>4. Balanced(B, M, fast, x, xx, y, yy) /\ Apart(B, M, fast, x, xx, y, yy)
    BY <2>3, SmallSpeeds
  <2>. QED
    BY <2>4 DEF BalancedFor, x, xx, y, yy, fast
<1>4. \A p \in N : SpeedOf(s, p) <= B + 4 * M
  BY <1>2
<1>. QED
  BY <1>3, <1>4 DEF SpeedsLeft

LEMMA SameSpeedsLeft ==
  ASSUME NEW N, NEW base, NEW s, Lists(s, N), NEW t,
         NEW B \in Nat, NEW M \in Nat, SpeedsLeft(base, s, N, B, M),
         \A p \in N : SpeedOf(t, p) = SpeedOf(s, p)
  PROVE  SpeedsLeft(base, t, N, B, M)
<1>1. \A p \in N : Mate(N, p) \in N
  BY MatesShareTheirId
<1>2. HaveSpeed(t, N)
  BY <1>1 DEF SpeedsLeft, HaveSpeed
<1>3. ASSUME NEW a \in N, NEW b \in N, BalancedFor(base, s, N, B, M, a, b)
      PROVE  BalancedFor(base, t, N, B, M, a, b)
  <2>1. /\ SpeedOf(t, a) = SpeedOf(s, a) /\ SpeedOf(t, Mate(N, a)) = SpeedOf(s, Mate(N, a))
        /\ SpeedOf(t, b) = SpeedOf(s, b) /\ SpeedOf(t, Mate(N, b)) = SpeedOf(s, Mate(N, b))
    BY <1>1
  <2>. QED
    BY <1>3, <2>1, Zenon DEF BalancedFor
<1>. QED
  BY <1>2, <1>3 DEF SpeedsLeft

(* What is paid in the round of the slowest, whoever of his id plays it.   *)
LEMMA SlowestCanPay ==
  ASSUME NEW N, NEW base, Lists(base, N), base # << >>, Len(base) # 1,
         NEW start, Lists(start, N), HaveSpeed(start, N),
         NEW s, Lists(s, N), UnderWay(s, base, N, start),
         NEW f, IsToPlay(s, N, f), f.id = Slowest(base).id
  PROVE  /\ Payment(s, base, N, f) \in Int
         /\ 1 <= Payment(s, base, N, f) /\ Payment(s, base, N, f) <= SpeedOf(s, f)
<1>. DEFINE slower == SlowerOf(base, f)
<1>1. f \in N /\ \A p \in N : SpeedOf(s, p) <= SpeedOf(s, f)
  BY DEF IsToPlay
<1>2. slower \in N
  BY <1>1, CostIsWhatSlowerHasLeft, SortedList
<1>3. Payment(s, base, N, f) = AtLeastOne(LowOf(s, N, slower))
  BY DEF Payment
<1>. HIDE DEF slower
<1>4. \A p \in N : SpeedOf(s, p) \in Int /\ SpeedOf(start, p) \in Int /\ 0 <= SpeedOf(s, p)
  BY SpeedOfListed DEF UnderWay
<1>5. /\ LowOf(s, N, slower) \in Int /\ Mate(N, slower) \in N
      /\ \/ LowOf(s, N, slower) = SpeedOf(s, slower)
         \/ LowOf(s, N, slower) = SpeedOf(s, Mate(N, slower))
  BY <1>2, LowIsOneOfThem, MatesShareTheirId
<1>6. 0 <= LowOf(s, N, slower) /\ LowOf(s, N, slower) <= SpeedOf(s, f)
  BY <1>1, <1>2, <1>4, <1>5
<1>7. PICK a \in N : a.id = Slowest(base).id /\ SpeedOf(start, a) >= 1
  BY SlowestHasSpeed
<1>8. SpeedOf(s, a) = SpeedOf(start, a)
  BY <1>7 DEF UnderWay
<1>9. SpeedOf(s, f) >= 1 /\ SpeedOf(s, f) \in Int
  BY <1>1, <1>4, <1>7, <1>8
<1>. QED
  BY <1>3, <1>5, <1>6, <1>9 DEF AtLeastOne

(* The two speeds of the id that has played and of any other, after a rest.*)
GainedBy(firsts, t, s, base, N, f) ==
  \A p \in N : SpeedOf(t, p) = Paid(s, base, N, f, p)
                 + (IF p \in firsts THEN IdGain(base, N, p) ELSE 0)

LEMMA GainOfPlayer ==
  ASSUME NEW N, NEW base, Lists(base, N), NEW s, Lists(s, N), NEW f \in N,
         NEW firsts, FirstsOfIds(firsts, s, N, f),
         NEW t, GainedBy(firsts, t, s, base, N, f)
  PROVE  LET m == Mate(N, f)
             pay == Payment(s, base, N, f)
             g == IdGain(base, N, m)
         IN  \/ /\ m # f
                /\ SpeedOf(t, f) = (SpeedOf(s, f) - pay) + 0 /\ SpeedOf(t, m) = SpeedOf(s, m) + g
             \/ m = f /\ SpeedOf(t, f) = (SpeedOf(s, f) - pay) + g
<1>. DEFINE m == Mate(N, f)
<1>1. m \in N
  BY MatesShareTheirId
<1>2. /\ f \in firsts \/ m \in firsts
      /\ m # f => f \notin firsts
  BY DEF FirstsOfIds
<1>. HIDE DEF m
<1>3. CASE m = f
  BY <1>2, <1>3, Zenon DEF GainedBy, Paid, m
<1>4. CASE m # f
  BY <1>1, <1>2, <1>4, Zenon DEF GainedBy, Paid, m
<1>. QED
  BY <1>3, <1>4 DEF m

LEMMA GainOfOthers ==
  ASSUME NEW N, NEW base, Lists(base, N), base # << >>, NEW s, Lists(s, N), NEW f \in N,
         NEW firsts, FirstsOfIds(firsts, s, N, f),
         NEW t, GainedBy(firsts, t, s, base, N, f),
         NEW b \in N, b.id # f.id
  PROVE  LET m == Mate(N, b)
             u == SpeedOf(s, b)
             uu == SpeedOf(s, m)
         IN  \E h \in {IdGain(base, N, b), IdGain(base, N, m)} :
               \/ SpeedOf(t, b) = u + h /\ SpeedOf(t, m) = uu /\ u <= uu
               \/ SpeedOf(t, b) = u /\ SpeedOf(t, m) = uu + h /\ uu <= u
               \/ m = b /\ u = uu /\ SpeedOf(t, b) = u + h
<1>. DEFINE m == Mate(N, b)
            g == IdGain(base, N, b)
            h == IdGain(base, N, m)
<1>1. m \in N /\ m.id = b.id /\ Mate(N, m) = b
  BY MatesShareTheirId
<1>2. b # f /\ m # f
  BY <1>1
<1>3. /\ b \in firsts \/ m \in firsts
      /\ m # b => b \notin firsts \/ m \notin firsts
      /\ b \in firsts => SpeedOf(s, b) <= SpeedOf(s, m)
  BY <1>1 DEF FirstsOfIds
<1>4. m \in firsts => SpeedOf(s, m) <= SpeedOf(s, b)
  BY <1>1 DEF FirstsOfIds
<1>5. /\ b \in firsts => SpeedOf(t, b) = SpeedOf(s, b) + g
      /\ b \notin firsts => SpeedOf(t, b) = SpeedOf(s, b) + 0
      /\ m \in firsts => SpeedOf(t, m) = SpeedOf(s, m) + h
      /\ m \notin firsts => SpeedOf(t, m) = SpeedOf(s, m) + 0
  BY <1>1, <1>2, Zenon DEF GainedBy, Paid
<1>6. SpeedOf(s, b) \in Int /\ SpeedOf(s, m) \in Int
  BY <1>1, SpeedOfListed
<1>7. m = b => SpeedOf(s, b) = SpeedOf(s, m) /\ SpeedOf(t, b) = SpeedOf(t, m)
  OBVIOUS
<1>. HIDE DEF m, g, h
<1>8. \/ SpeedOf(t, b) = SpeedOf(s, b) + g /\ SpeedOf(t, m) = SpeedOf(s, m)
           /\ SpeedOf(s, b) <= SpeedOf(s, m)
      \/ SpeedOf(t, b) = SpeedOf(s, b) /\ SpeedOf(t, m) = SpeedOf(s, m) + h
           /\ SpeedOf(s, m) <= SpeedOf(s, b)
      \/ m = b /\ SpeedOf(s, b) = SpeedOf(s, m) /\ SpeedOf(t, b) = SpeedOf(s, b) + g
  BY <1>3, <1>4, <1>5, <1>6, <1>7
<1>. QED
  BY <1>8, Zenon DEF m, g, h

(* A rest keeps the balance of the one who played and of the fastest.      *)
LEMMA RestBalances ==
  ASSUME NEW N, NEW base, Lists(base, N), base # << >>, Len(base) # 1, SpeedsIncrease(base),
         NEW B \in Nat, NEW M \in Nat, 44 * M <= B,
         \A p \in N : SpeedOf(base, p) \in 1..M,
         NEW start, Lists(start, N), SpeedsLeft(base, start, N, B, M),
         NEW s, Lists(s, N), UnderWay(s, base, N, start),
         NEW f, IsToPlay(s, N, f), f.id = Slowest(base).id,
         NEW firsts, FirstsOfIds(firsts, s, N, f),
         NEW t, Lists(t, N),
         GainedBy(firsts, t, s, base, N, f),
         NEW b \in N, b.id = Fastest(base).id
  PROVE  BalancedFor(base, t, N, B, M, f, b)
<1>. DEFINE fast == FastestBaseSpeed(base)
            m == Mate(N, f)
            n == Mate(N, b)
            pay == Payment(s, base, N, f)
            x == SpeedOf(s, f)
            xx == SpeedOf(s, m)
            y == SpeedOf(start, b)
            yy == SpeedOf(start, n)
            u == SpeedOf(s, b)
            uu == SpeedOf(s, n)
            a == SpeedOf(t, f)
            aa == SpeedOf(t, m)
            c == SpeedOf(t, b)
            cc == SpeedOf(t, n)
            g == IdGain(base, N, m)
<1>1. f \in N /\ \A p \in N : SpeedOf(s, p) <= SpeedOf(s, f)
  BY DEF IsToPlay
<1>2. /\ m \in N /\ m.id = f.id /\ Mate(N, m) = f
      /\ n \in N /\ n.id = b.id /\ Mate(N, n) = b
      /\ b.id = f.id => b = f \/ b = m
  BY <1>1, MatesShareTheirId
<1>3. /\ fast \in Int /\ 1 <= fast /\ fast <= M
      /\ \A p \in N : /\ IdGain(base, N, p) \in Int
                      /\ 2 <= IdGain(base, N, p) /\ IdGain(base, N, p) <= 4 * fast
                      /\ Mate(N, p) = p => IdGain(base, N, p) <= 2 * fast
                      /\ p.id = Fastest(base).id => 2 * fast <= IdGain(base, N, p)
  BY GainsOfIds
<1>4. \A p \in N : SpeedOf(s, p) \in Int /\ SpeedOf(t, p) \in Int /\ SpeedOf(start, p) \in Int
  BY SpeedOfListed
<1>5. /\ SpeedOf(start, f) = x /\ SpeedOf(start, m) = xx
      /\ \A p \in N : /\ 0 <= SpeedOf(s, p) /\ SpeedOf(s, p) <= SpeedOf(start, p)
                      /\ SpeedOf(s, p) = SpeedOf(start, p) \/ x <= SpeedOf(start, p)
  <2>1. /\ SpeedOf(s, f) = SpeedOf(start, f) /\ SpeedOf(s, m) = SpeedOf(start, m)
        /\ \A p \in N : SpeedOf(s, p) = SpeedOf(start, p) \/ SpeedOf(start, f) <= SpeedOf(start, p)
    BY <1>1, <1>2 DEF UnderWay
  <2>2. \A p \in N : 0 <= SpeedOf(s, p) /\ SpeedOf(s, p) <= SpeedOf(start, p)
    BY <1>4 DEF UnderWay
  <2>. QED
    BY <2>1, <2>2
<1>6. pay \in Int /\ pay = AtLeastOne(Least(u, uu))
  <2>1. HaveSpeed(start, N)
    BY DEF SpeedsLeft
  <2>. QED
    BY <1>1, <2>1, SlowestCanPay, SlowestPaysFastest
<1>7. /\ Balanced(B, M, fast, x, xx, y, yy)
      /\ f.id # b.id => Apart(B, M, fast, x, xx, y, yy)
  <2>1. BalancedFor(base, start, N, B, M, f, b)
    BY <1>1 DEF SpeedsLeft
  <2>. QED
    BY <1>5, <2>1, Zenon DEF BalancedFor
<1>8. \/ m # f /\ a = (x - pay) + 0 /\ aa = xx + g
      \/ m = f /\ a = (x - pay) + g
  <2>. HIDE DEF a, aa, x, xx, m, pay, g
  <2>. QED
    BY <1>1, GainOfPlayer DEF a, aa, x, xx, m, pay, g
<1>9. /\ g \in Int /\ 2 <= g /\ g <= 4 * fast /\ (m = f => g <= 2 * fast)
      /\ b.id = f.id => 2 * fast <= g
  BY <1>1, <1>2, <1>3
<1>10. m = f => aa = a /\ xx = x
  OBVIOUS
<1>11. /\ x \in Int /\ xx \in Int /\ 0 <= xx /\ xx <= x /\ a \in Int /\ aa \in Int
       /\ y \in Int /\ yy \in Int /\ u \in Int /\ uu \in Int /\ c \in Int /\ cc \in Int
       /\ 0 <= u /\ u <= x /\ u <= y /\ (u = y \/ x <= y)
       /\ 0 <= uu /\ uu <= x /\ uu <= yy /\ (uu = yy \/ x <= yy)
  BY <1>1, <1>2, <1>4, <1>5
<1>12. CASE b.id # f.id
  <2>1. PICK h \in {IdGain(base, N, b), IdGain(base, N, n)} :
               \/ c = u + h /\ cc = uu /\ u <= uu
               \/ c = u /\ cc = uu + h /\ uu <= u
               \/ n = b /\ u = uu /\ c = u + h
    <3>. HIDE DEF c, cc, u, uu, n
    <3>. QED
      BY <1>1, <1>12, GainOfOthers DEF c, cc, u, uu, n
  <2>2. h \in Int /\ 2 * fast <= h /\ h <= 4 * fast
    BY <1>2, <1>3
  <2>3. n = b => cc = c
    OBVIOUS
  <2>4. \/ c = u + h /\ cc = uu /\ u <= uu
        \/ c = u /\ cc = uu + h /\ uu <= u
        \/ u = uu /\ c = u + h /\ cc = c
    BY <2>1, <2>3, Zenon
  <2>. HIDE DEF a, aa, c, cc, x, xx, y, yy, u, uu, pay, g, fast, m, n
  <2>5. \/ a = x - pay /\ aa = xx + g /\ g <= 4 * fast
        \/ x = xx /\ a = x - pay + g /\ aa = a /\ g <= 2 * fast
    BY <1>6, <1>8, <1>9, <1>10, <1>11
  <2>6. PlayerGains(fast, x, xx, g, pay, a, aa)
    BY <1>6, <1>9, <1>11, <2>5 DEF PlayerGains
  <2>7. FastestGain(fast, x, y, yy, u, uu, h, c, cc)
    BY <1>11, <2>2, <2>4 DEF FastestGain
  <2>8. Balanced(B, M, fast, x, xx, y, yy) /\ Apart(B, M, fast, x, xx, y, yy)
    BY <1>7, <1>12
  <2>9. Balanced(B, M, fast, a, aa, c, cc) /\ Apart(B, M, fast, a, aa, c, cc)
    BY <1>3, <1>6, <2>6, <2>7, <2>8, SlowestPays
  <2>. QED
    BY <2>9 DEF BalancedFor, a, aa, c, cc, m, n, fast
<1>13. CASE b.id = f.id
  <2>1. (b = f /\ n = m) \/ (b = m /\ n = f)
    BY <1>2, <1>13
  <2>2. Balanced(B, M, fast, x, xx, x, xx)
    <3>1. BalancedFor(base, start, N, B, M, f, f)
      BY <1>1, <1>13 DEF SpeedsLeft
    <3>. QED
      BY <1>5, <3>1, Zenon DEF BalancedFor
  <2>3. pay = AtLeastOne(Least(x, xx))
    BY <1>6, <1>11, <2>1 DEF Least
  <2>4. (c = a /\ cc = aa) \/ (c = aa /\ cc = a)
    BY <2>1
  <2>. HIDE DEF a, aa, c, cc, x, xx, y, yy, u, uu, pay, g, fast, m, n
  <2>5. \/ a = x - pay /\ aa = xx + g /\ g <= 4 * fast
        \/ x = xx /\ a = x - pay + g /\ aa = a /\ g <= 2 * fast
    BY <1>6, <1>8, <1>9, <1>10, <1>11
  <2>6. PlayerGains(fast, x, xx, g, pay, a, aa) /\ 2 * fast <= g
    BY <1>6, <1>9, <1>11, <1>13, <2>5 DEF PlayerGains
  <2>7. Balanced(B, M, fast, a, aa, a, aa)
    BY <1>3, <2>2, <2>3, <2>6, SlowestIsFastest
  <2>8. Balanced(B, M, fast, a, aa, aa, a)
    <3>1. B \in Int /\ M \in Int
      OBVIOUS
    <3>. QED
      BY <1>3, <1>11, <2>7, <3>1, EitherFirst, Zenon
  <2>9. Balanced(B, M, fast, a, aa, c, cc)
    BY <2>4, <2>7, <2>8
  <2>. QED
    BY <1>13, <2>9 DEF BalancedFor, a, aa, c, cc, m, n, fast
<1>. QED
  BY <1>12, <1>13

LEMMA MateFirst ==
  ASSUME NEW N, NEW base, Lists(base, N), base # << >>, NEW t, Lists(t, N),
         NEW B \in Nat, NEW M \in Nat, NEW a \in N, NEW b \in N,
         BalancedFor(base, t, N, B, M, a, b)
  PROVE  BalancedFor(base, t, N, B, M, Mate(N, a), b)
<1>1. /\ Mate(N, a) \in N /\ Mate(N, a).id = a.id /\ Mate(N, Mate(N, a)) = a
      /\ Mate(N, b) \in N
  BY MatesShareTheirId
<1>2. FastestBaseSpeed(base) \in Int
  BY BaseEnds
<1>. DEFINE x == SpeedOf(t, a)
            xx == SpeedOf(t, Mate(N, a))
            y == SpeedOf(t, b)
            yy == SpeedOf(t, Mate(N, b))
            fast == FastestBaseSpeed(base)
<1>3. /\ x \in Int /\ xx \in Int /\ y \in Int /\ yy \in Int /\ fast \in Int
      /\ B \in Int /\ M \in Int
  BY <1>1, <1>2, SpeedOfListed
<1>4. /\ Balanced(B, M, fast, x, xx, y, yy)
      /\ a.id # b.id => Apart(B, M, fast, x, xx, y, yy)
  BY DEF BalancedFor
<1>. HIDE DEF x, xx, y, yy, fast
<1>5. Balanced(B, M, fast, xx, x, y, yy)
  BY <1>3, <1>4, EitherFirst, Zenon
<1>6. a.id # b.id => Apart(B, M, fast, xx, x, y, yy)
  BY <1>3, <1>4, EitherFirst, Zenon
<1>. QED
  BY <1>1, <1>5, <1>6, Zenon DEF BalancedFor, x, xx, y, yy, fast

(* A rest leaves the speeds within the bounds they had.                    *)
LEMMA RestKeepsBounds ==
  ASSUME NEW N, NEW base, Lists(base, N), base # << >>, SpeedsIncrease(base),
         NEW B \in Nat, NEW M \in Nat, 44 * M <= B,
         \A p \in N : SpeedOf(base, p) \in 1..M,
         NEW start, Lists(start, N), SpeedsLeft(base, start, N, B, M),
         NEW t, Lists(t, N), Rested(t, base, N, start)
  PROVE  SpeedsLeft(base, t, N, B, M)
<1>1. PICK s, f : /\ Lists(s, N) /\ UnderWay(s, base, N, start)
                  /\ IsToPlay(s, N, f) /\ f.id = Slowest(base).id
                  /\ IF Len(base) = 1 THEN \A p \in N : SpeedOf(t, p) = SpeedOf(s, p)
                     ELSE Gained(t, s, base, N, f)
  BY DEF Rested
<1>2. /\ DOMAIN base = 1..Len(base) /\ Len(base) \in Nat \ {0}
      /\ Slowest(base) \in N /\ Fastest(base) \in N
  BY BaseEnds
<1>3. CASE Len(base) = 1
  <2>1. \A p \in N : p = Slowest(base)
    <3>1. ASSUME NEW p \in N PROVE p = Slowest(base)
      <4>1. PICK k \in DOMAIN base : Named(base[k]) = p
        BY DEF Lists
      <4>2. k = 1
        BY <1>2, <1>3, <4>1
      <4>. QED
        BY <4>1, <4>2 DEF Slowest
    <3>. QED
      BY <3>1
  <2>2. \A p \in N : SpeedOf(t, p) = SpeedOf(start, p)
    BY <1>1, <1>3, <2>1 DEF UnderWay
  <2>. QED
    BY <2>2, SameSpeedsLeft
<1>4. CASE Len(base) # 1
  <2>1. PICK firsts : FirstsOfIds(firsts, s, N, f) /\ GainedBy(firsts, t, s, base, N, f)
    BY <1>1, <1>4 DEF Gained, GainedBy
  <2>2. f \in N /\ \A p \in N : SpeedOf(s, p) <= SpeedOf(s, f)
    BY <1>1 DEF IsToPlay
  <2>3. \A p \in N : Mate(N, p) \in N /\ Mate(N, p).id = p.id /\ Mate(N, Mate(N, p)) = p
    BY MatesShareTheirId
  <2>4. /\ FastestBaseSpeed(base) <= M /\ FastestBaseSpeed(base) \in Int
        /\ \A p \in N : /\ IdGain(base, N, p) \in Int
                        /\ 2 <= IdGain(base, N, p)
                        /\ IdGain(base, N, p) <= 4 * FastestBaseSpeed(base)
    BY GainsOfIds
  <2>5. \A p \in N : SpeedOf(s, p) \in Int /\ SpeedOf(t, p) \in Int /\ SpeedOf(start, p) \in Int
    BY <1>1, SpeedOfListed
  <2>6. /\ SpeedOf(start, f) = SpeedOf(s, f)
        /\ \A p \in N : 0 <= SpeedOf(s, p) /\ SpeedOf(s, p) <= SpeedOf(start, p)
    BY <1>1, <2>2, <2>5 DEF UnderWay
  <2>7. HaveSpeed(start, N) /\ \A p \in N : SpeedOf(start, p) <= B + 4 * M
    BY DEF SpeedsLeft
  <2>8. /\ Payment(s, base, N, f) \in Int /\ 1 <= Payment(s, base, N, f)
        /\ Payment(s, base, N, f) <= SpeedOf(s, f)
    BY <1>1, <1>4, <2>7, SlowestCanPay
  <2>9. SpeedOf(s, f) <= B
    <3>1. BalancedFor(base, start, N, B, M, f, Fastest(base))
      BY <1>1, <1>2, <2>2 DEF SpeedsLeft
    <3>2. SpeedOf(start, f) <= B
      BY <3>1 DEF BalancedFor, Balanced
    <3>. QED
      BY <2>6, <3>2
  <2>10. ASSUME NEW p \in N
         PROVE  /\ 0 <= SpeedOf(t, p) /\ SpeedOf(t, p) <= B + 4 * M
                /\ p \in firsts => 1 <= SpeedOf(t, p)
    <3>1. SpeedOf(t, p) = Paid(s, base, N, f, p)
                            + (IF p \in firsts THEN IdGain(base, N, p) ELSE 0)
      BY <2>1 DEF GainedBy
    <3>2. /\ Paid(s, base, N, f, p) \in Int
          /\ 0 <= Paid(s, base, N, f, p) /\ Paid(s, base, N, f, p) <= SpeedOf(s, p)
      BY <2>2, <2>5, <2>6, <2>8 DEF Paid
    <3>3. CASE p \in firsts
      <4>1. /\ SpeedOf(t, p) = Paid(s, base, N, f, p) + IdGain(base, N, p)
            /\ SpeedOf(s, p) <= SpeedOf(s, f)
            /\ IdGain(base, N, p) <= 4 * FastestBaseSpeed(base)
            /\ 2 <= IdGain(base, N, p) /\ IdGain(base, N, p) \in Int
        BY <2>2, <2>4, <3>1, <3>3
      <4>2. Paid(s, base, N, f, p) <= B
        BY <2>2, <2>5, <2>9, <3>2, <4>1
      <4>3. IdGain(base, N, p) <= 4 * M
        BY <2>4, <4>1
      <4>. QED
        BY <3>2, <4>1, <4>2, <4>3
    <3>4. CASE p \notin firsts
      <4>1. SpeedOf(t, p) = Paid(s, base, N, f, p)
        BY <3>1, <3>2, <3>4
      <4>2. SpeedOf(s, p) <= SpeedOf(start, p) /\ SpeedOf(start, p) <= B + 4 * M
        BY <2>6, <2>7
      <4>. QED
        BY <2>5, <3>2, <3>4, <4>1, <4>2
    <3>. QED
      BY <3>3, <3>4
  <2>11. HaveSpeed(t, N)
    <3>1. ASSUME NEW p \in N
          PROVE  SpeedOf(t, p) >= 0 /\ (SpeedOf(t, p) >= 1 \/ SpeedOf(t, Mate(N, p)) >= 1)
      <4>1. p \in firsts \/ Mate(N, p) \in firsts
        BY <2>1 DEF FirstsOfIds
      <4>. QED
        BY <2>3, <2>5, <2>10, <4>1
    <3>. QED
      BY <3>1 DEF HaveSpeed
  <2>12. ASSUME NEW a \in N, NEW b \in N,
                a.id = Slowest(base).id, b.id = Fastest(base).id
         PROVE  BalancedFor(base, t, N, B, M, a, b)
    <3>1. BalancedFor(base, t, N, B, M, f, b)
      BY <1>1, <1>4, <2>1, <2>12, RestBalances
    <3>2. a = f \/ a = Mate(N, f)
      BY <1>1, <2>2, <2>12, MatesShareTheirId
    <3>. QED
      BY <2>2, <3>1, <3>2, MateFirst
  <2>. QED
    BY <2>10, <2>11, <2>12 DEF SpeedsLeft
<1>. QED
  BY <1>3, <1>4

(* What the computation of a turn leaves is within the same bounds, while  *)
(* it is under way nobody owes speed, and it ends if there are enough      *)
(* rounds.                                                                 *)
LEMMA NewTurnSpeeds ==
  ASSUME NEW N, IsFiniteSet(N),
         NEW base, Lists(base, N), base # << >>,
         NEW B \in Nat, NEW M \in Nat, 44 * M <= B,
         \A p \in N : SpeedOf(base, p) \in 1..M,
         NEW V \in Nat, V >= B + 4 * M,
         NEW analyzed, Lists(analyzed, N),
         currentTurn = 0 \/ SpeedsLeft(SortedBySpeed(base), analyzed, N, B, M)
  PROVE  LET turn == SortBaseAndCalculatePriority(base, analyzed) IN
         /\ turn.complete => SpeedsLeft(turn.base, turn.analyzed, N, B, M)
         /\ \A p \in N : SpeedOf(turn.base, p) = SpeedOf(base, p)
         /\ \A p \in N : SpeedOf(turn.analyzed, p) \in 0..(B + 4 * M)
         /\ MaxRounds >= Cardinality(N) * V => turn.complete
<1>. DEFINE sorted == SortedBySpeed(base)
            turn == SortBaseAndCalculatePriority(base, analyzed)
            rounds == CalculatePriority(sorted, analyzed)
<1>1. Lists(sorted, N) /\ SpeedsIncrease(sorted) /\ sorted # << >>
      /\ \A p \in N : SpeedOf(sorted, p) = SpeedOf(base, p)
  BY SortedList, SortedSpeeds, NotEmpty
<1>2. \A p \in N : SpeedOf(sorted, p) \in 1..M
  BY <1>1
<1>3. CASE currentTurn = 0
  <2>1. turn = [complete |-> TRUE, base |-> sorted, analyzed |-> sorted, priority |-> sorted]
    BY <1>3 DEF SortBaseAndCalculatePriority
  <2>. HIDE DEF sorted, turn
  <2>2. \A p \in N : /\ SpeedOf(sorted, p) <= B - 15 * M
                     /\ SpeedOf(sorted, p) >= 0 /\ SpeedOf(sorted, p) >= 1
                     /\ SpeedOf(sorted, p) \in 0..(B + 4 * M)
    BY <1>2
  <2>3. HaveSpeed(sorted, N)
    BY <2>2 DEF HaveSpeed
  <2>4. SpeedsLeft(sorted, sorted, N, B, M)
    BY <1>1, <1>2, <2>2, <2>3, SmallSpeedsAnyBase
  <2>. QED
    BY <1>1, <2>1, <2>2, <2>4 DEF turn
<1>4. CASE currentTurn # 0
  <2>1. turn = [complete |-> rounds.complete, base |-> sorted,
                analyzed |-> rounds.analyzed, priority |-> rounds.priority]
    BY <1>4 DEF SortBaseAndCalculatePriority, WithBase
  <2>2. SpeedsLeft(sorted, analyzed, N, B, M)
    BY <1>4
  <2>. HIDE DEF sorted, turn
  <2>3. HaveSpeed(analyzed, N) /\ \A p \in N : SpeedOf(analyzed, p) \in 0..(B + 4 * M)
    <3>1. \A p \in N : SpeedOf(analyzed, p) \in Int
      BY SpeedOfListed
    <3>. QED
      BY <2>2, <3>1 DEF SpeedsLeft, HaveSpeed
  <2>4. \A p \in N : SpeedOf(analyzed, p) \in 0..V
    BY <2>3
  <2>5. /\ GoodTurn(rounds, sorted, N)
        /\ rounds.complete => Rested(rounds.analyzed, sorted, N, analyzed)
        /\ ~rounds.complete => UnderWay(rounds.analyzed, sorted, N, analyzed)
        /\ MaxRounds >= Cardinality(N) * V => rounds.complete
    BY <1>1, <2>3, <2>4, CalculatedSpeeds
  <2>. HIDE DEF rounds
  <2>6. Lists(rounds.analyzed, N)
    BY <2>5 DEF GoodTurn
  <2>7. rounds.complete => SpeedsLeft(sorted, rounds.analyzed, N, B, M)
    BY <1>1, <1>2, <2>2, <2>5, <2>6, RestKeepsBounds
  <2>8. ASSUME NEW p \in N PROVE SpeedOf(rounds.analyzed, p) \in 0..(B + 4 * M)
    <3>1. CASE rounds.complete
      <4>1. SpeedOf(rounds.analyzed, p) \in Int
        BY <2>6, SpeedOfListed
      <4>. QED
        BY <2>7, <3>1, <4>1 DEF SpeedsLeft, HaveSpeed
    <3>2. CASE ~rounds.complete
      <4>1. SpeedOf(rounds.analyzed, p) \in 0..SpeedOf(analyzed, p)
        BY <2>5, <3>2 DEF UnderWay
      <4>. QED
        BY <2>3, <4>1
    <3>. QED
      BY <3>1, <3>2
  <2>. QED
    BY <1>1, <2>1, <2>5, <2>7, <2>8 DEF turn
<1>. QED
  BY <1>3, <1>4

-----------------------------------------------------------------------------
(* The speeds of a list that an element joins or an id leaves.             *)

LEMMA AppendedSpeeds ==
  ASSUME NEW N, NEW s, Lists(s, N), NEW e \in Elem, Named(e) \notin N
  PROVE  /\ SpeedOf(Append(s, e), Named(e)) = e.speed
         /\ \A p \in N : SpeedOf(Append(s, e), p) = SpeedOf(s, p)
<1>. DEFINE t == Append(s, e)
            n == Len(s)
<1>1. s \in Seq(Elem) /\ n \in Nat /\ DOMAIN s = 1..n
  BY DEF Lists
<1>2. t \in Seq(Elem) /\ Len(t) = n + 1 /\ t[n + 1] = e /\ \A k \in 1..n : t[k] = s[k]
  BY <1>1, LastAppended
<1>3. Lists(t, N \cup {Named(e)})
  BY AppendedList
<1>4. DOMAIN t = 1..(n + 1)
  BY <1>1, <1>2
<1>. HIDE DEF t, n
<1>5. SpeedOf(t, Named(e)) = e.speed
  <2>1. n + 1 \in DOMAIN t
    BY <1>1, <1>4
  <2>. QED
    BY <1>2, <1>3, <2>1, SpeedOfElement
<1>6. ASSUME NEW p \in N PROVE SpeedOf(t, p) = SpeedOf(s, p)
  <2>1. PICK k \in DOMAIN s : Named(s[k]) = p /\ s[k].speed = SpeedOf(s, p)
    BY SpeedOfListed
  <2>2. k \in DOMAIN t /\ t[k] = s[k]
    BY <1>1, <1>2, <1>4
  <2>3. SpeedOf(t, Named(t[k])) = t[k].speed
    BY <1>3, <2>2, SpeedOfElement
  <2>. QED
    BY <2>1, <2>2, <2>3
<1>. QED
  BY <1>5, <1>6 DEF t

LEMMA OthersSpeeds ==
  ASSUME NEW N, NEW s, Lists(s, N), NEW id, NEW p \in N, p.id # id
  PROVE  SpeedOf(Others(s, id), p) = SpeedOf(s, p)
<1>. DEFINE t == Others(s, id)
            rest == {q \in N : q.id # id}
<1>1. Lists(t, rest) /\ p \in rest
  BY OthersList
<1>2. s \in Seq(Elem)
  BY DEF Lists
<1>3. \A m \in DOMAIN t : \E j \in DOMAIN s : t[m] = s[j]
  BY <1>2, OthersWereThere
<1>. HIDE DEF t, rest
<1>4. PICK m \in DOMAIN t : Named(t[m]) = p /\ t[m].speed = SpeedOf(t, p)
  BY <1>1, SpeedOfListed
<1>5. PICK j \in DOMAIN s : t[m] = s[j]
  BY <1>3
<1>6. SpeedOf(s, Named(s[j])) = s[j].speed
  BY SpeedOfElement
<1>. QED
  BY <1>4, <1>5, <1>6 DEF t

-----------------------------------------------------------------------------
(* The inductive invariant of the speeds.                                  *)

(* Speeds are positive and bounded: a speed of 0 never lets a turn end.    *)
PositiveSpeeds == Speeds # {} /\ \E top \in Nat : Speeds \subseteq 1..top

Bound(c) == (44 + 19 * c) * Max(Speeds)

MostLeft(c) == (48 + 19 * c) * Max(Speeds)

EnoughRounds == MaxRounds >= Cardinality(Participants) * MostLeft(MaxChanges)

SpeedsInv ==
  /\ changes \in Nat /\ changes <= MaxChanges
  /\ currentTurn \in Nat
  /\ \A p \in Listed : SpeedOf(baseSpeed, p) \in Speeds
  /\ \A p \in Listed : SpeedOf(analyzedList, p) \in 0..MostLeft(changes)
  /\ endless \in BOOLEAN
  /\ ~endless => SpeedsLeft(baseSpeed, analyzedList, Listed, Bound(changes), Max(Speeds))
  /\ EnoughRounds => ~endless

LEMMA GreatestSpeed ==
  ASSUME PositiveSpeeds
  PROVE  /\ Max(Speeds) \in Nat \ {0}
         /\ \A s \in Speeds : s \in 1..Max(Speeds)
<1>1. PICK top \in Nat : Speeds \subseteq 1..top
  BY DEF PositiveSpeeds
<1>2. Max(Speeds) \in Speeds /\ \A s \in Speeds : s <= Max(Speeds)
  <2>1. Speeds \in SUBSET (1..top) /\ Speeds # {}
    BY <1>1 DEF PositiveSpeeds
  <2>. QED
    BY <2>1, GreatestNumber
<1>3. Max(Speeds) \in 1..top
  BY <1>1, <1>2
<1>4. ASSUME NEW s \in Speeds PROVE s \in 1..Max(Speeds)
  <2>1. s \in 1..top /\ s <= Max(Speeds)
    BY <1>1, <1>2
  <2>. QED
    BY <1>3, <2>1
<1>. QED
  BY <1>3, <1>4

LEMMA ProductsGrow ==
  ASSUME NEW a \in Nat, NEW b \in Nat, a <= b, NEW v \in Nat
  PROVE  a * v <= b * v
  OBVIOUS

LEMMA Bounds ==
  ASSUME PositiveSpeeds, NEW c \in Nat
  PROVE  /\ Bound(c) \in Nat /\ 44 * Max(Speeds) <= Bound(c)
         /\ MostLeft(c) = Bound(c) + 4 * Max(Speeds)
         /\ MostLeft(c) = Bound(c + 1) - 15 * Max(Speeds)
         /\ MostLeft(c) \in Nat
         /\ c <= MaxChanges => MostLeft(c) <= MostLeft(MaxChanges)
<1>. DEFINE M == Max(Speeds)
<1>1. M \in Nat
  BY GreatestSpeed
<1>2. MaxChanges \in Nat
  BY PriorityAssumption
<1>. HIDE DEF M
<1>3. 19 * (c * M) \in Nat
  <2>1. c * M \in Nat
    BY <1>1
  <2>. QED
    BY <2>1
<1>4. (44 + 19 * c) * M = 44 * M + 19 * (c * M)
  BY <1>1
<1>5. (48 + 19 * c) * M = 48 * M + 19 * (c * M)
  BY <1>1
<1>6. (44 + 19 * (c + 1)) * M = 63 * M + 19 * (c * M)
  BY <1>1
<1>7. ASSUME c <= MaxChanges
      PROVE  (48 + 19 * c) * M <= (48 + 19 * MaxChanges) * M
  <2>1. 48 + 19 * c \in Nat /\ 48 + 19 * MaxChanges \in Nat /\ 48 + 19 * c <= 48 + 19 * MaxChanges
    BY <1>2, <1>7
  <2>. QED
    BY <1>1, <2>1, ProductsGrow
<1>. QED
  BY <1>1, <1>3, <1>4, <1>5, <1>6, <1>7 DEF Bound, MostLeft, M

LEMMA ListedAreFew ==
  ASSUME NEW N \in SUBSET Participants, NEW V \in Nat,
         MaxRounds >= Cardinality(Participants) * V
  PROVE  MaxRounds >= Cardinality(N) * V
<1>1. IsFiniteSet(Participants) /\ MaxRounds \in Nat
  BY PriorityAssumption
<1>2. Cardinality(N) \in Nat /\ Cardinality(Participants) \in Nat
      /\ Cardinality(N) <= Cardinality(Participants)
  BY <1>1, FS_Subset, FS_CardinalityType
<1>3. Cardinality(N) * V <= Cardinality(Participants) * V
  BY <1>2, ProductsGrow
<1>4. Cardinality(N) * V \in Int /\ Cardinality(Participants) * V \in Int
  BY <1>2
<1>. QED
  BY <1>1, <1>3, <1>4

LEMMA InitSpeeds ==
  ASSUME PositiveSpeeds, Init
  PROVE  SpeedsInv
<1>. DEFINE M == Max(Speeds)
<1>1. ListsInv /\ BaseSpeedsGiven
  BY InitListsAndSpeeds
<1>2. analyzedList = baseSpeed /\ endless = FALSE /\ changes = 0
  BY Zenon DEF Init
<1>3. currentTurn \in Nat
  <2>1. currentTurn = 0 \/ currentTurn = 1
    BY Zenon DEF Init
  <2>. QED
    BY <2>1
<1>4. Lists(baseSpeed, Listed) /\ SpeedsIncrease(baseSpeed)
  BY <1>1 DEF ListsInv
<1>5. \A p \in Listed : SpeedOf(baseSpeed, p) \in Speeds
  BY <1>1, <1>4, SpeedOfListed DEF BaseSpeedsGiven
<1>6. M \in Nat \ {0} /\ \A s \in Speeds : s \in 1..M
  BY GreatestSpeed
<1>7. Bound(0) \in Nat /\ 44 * M <= Bound(0) /\ MostLeft(0) = Bound(0) + 4 * M
  BY Bounds
<1>. HIDE DEF M
<1>8. \A p \in Listed : SpeedOf(baseSpeed, p) \in 1..M
  BY <1>5, <1>6
<1>9. \A p \in Listed : /\ SpeedOf(baseSpeed, p) <= Bound(0) - 15 * M
                        /\ SpeedOf(baseSpeed, p) >= 0 /\ SpeedOf(baseSpeed, p) >= 1
                        /\ SpeedOf(baseSpeed, p) \in 0..MostLeft(0)
  BY <1>6, <1>7, <1>8
<1>10. HaveSpeed(baseSpeed, Listed)
  BY <1>9 DEF HaveSpeed
<1>11. SpeedsLeft(baseSpeed, baseSpeed, Listed, Bound(0), M)
  BY <1>4, <1>6, <1>7, <1>8, <1>9, <1>10, SmallSpeedsAnyBase
<1>12. MaxChanges \in Nat
  BY PriorityAssumption
<1>13. /\ \A p \in Listed : SpeedOf(analyzedList, p) \in 0..MostLeft(changes)
       /\ SpeedsLeft(baseSpeed, analyzedList, Listed, Bound(changes), M)
  BY <1>2, <1>9, <1>11
<1>14. changes \in Nat /\ changes <= MaxChanges
  BY <1>2, <1>12
<1>15. endless \in BOOLEAN /\ ~endless
  BY <1>2, Zenon
<1>. QED
  BY <1>5, <1>3, <1>13, <1>14, <1>15, Zenon DEF SpeedsInv, M

(* Who stays with an id, or joins with some speed, leaves the ids speed.   *)
LEMMA LeavingLeavesSpeed ==
  ASSUME NEW N, NEW s, Lists(s, N), HaveSpeed(s, N), NEW id, NEW t,
         \A p \in N : p.id # id => SpeedOf(t, p) = SpeedOf(s, p)
  PROVE  HaveSpeed(t, {p \in N : p.id # id})
<1>. DEFINE P == {p \in N : p.id # id}
<1>1. ASSUME NEW p \in P
      PROVE  Mate(P, p) = Mate(N, p) /\ Mate(N, p) \in P
  <2>1. Mate(N, p) \in N /\ Mate(N, p).id = p.id
    BY MatesShareTheirId
  <2>2. Mate(N, p) \in P
    BY <2>1
  <2>. QED
    BY <2>1, <2>2 DEF Mate
<1>. QED
  BY <1>1 DEF HaveSpeed

LEMMA JoiningLeavesSpeed ==
  ASSUME NEW N, NEW s, Lists(s, N), HaveSpeed(s, N), NEW p, NEW t,
         \A q \in N : SpeedOf(t, q) = SpeedOf(s, q), SpeedOf(t, p) >= 0, SpeedOf(t, p) >= 1
  PROVE  HaveSpeed(t, N \cup {p})
<1>. DEFINE P == N \cup {p}
<1>1. ASSUME NEW q \in N
      PROVE  SpeedOf(t, q) >= 0 /\ (SpeedOf(t, q) >= 1 \/ SpeedOf(t, Mate(P, q)) >= 1)
  <2>1. SpeedOf(s, q) >= 0 /\ (SpeedOf(s, q) >= 1 \/ SpeedOf(s, Mate(N, q)) >= 1)
    BY DEF HaveSpeed
  <2>2. Mate(N, q) = q \/ (Mate(P, q) = Mate(N, q) /\ Mate(N, q) \in N)
    BY DEF Mate
  <2>3. SpeedOf(t, q) = SpeedOf(s, q)
    OBVIOUS
  <2>4. CASE Mate(N, q) = q
    BY <2>1, <2>3, <2>4
  <2>5. CASE Mate(P, q) = Mate(N, q) /\ Mate(N, q) \in N
    BY <2>1, <2>3, <2>5
  <2>. QED
    BY <2>2, <2>4, <2>5
<1>. QED
  BY <1>1 DEF HaveSpeed

(* Every change adds to the bound what a turn may leave above it: what is  *)
(* left before it suits the base after it, whoever is the slowest there.   *)
LEMMA ChangesKeepBounds ==
  ASSUME PositiveSpeeds, NEW c \in Nat,
         NEW base, NEW s, NEW N, SpeedsLeft(base, s, N, Bound(c), Max(Speeds)),
         NEW newBase, NEW t, NEW P, Lists(newBase, P), SpeedsIncrease(newBase), Lists(t, P),
         \A p \in P : SpeedOf(newBase, p) \in Speeds,
         \A p \in P \cap N : SpeedOf(t, p) = SpeedOf(s, p),
         \A p \in P \ N : SpeedOf(t, p) = 2 * SpeedOf(newBase, p),
         HaveSpeed(t, P)
  PROVE  SpeedsLeft(newBase, t, P, Bound(c + 1), Max(Speeds))
<1>. DEFINE M == Max(Speeds)
            B == Bound(c + 1)
<1>1. M \in Nat \ {0} /\ \A v \in Speeds : v \in 1..M
  BY GreatestSpeed
<1>2. /\ Bound(c) \in Nat /\ 44 * M <= Bound(c) /\ Bound(c) + 4 * M = B - 15 * M /\ B \in Nat
      /\ 44 * M <= B
  <2>1. c + 1 \in Nat
    OBVIOUS
  <2>. QED
    BY <2>1, Bounds
<1>3. \A p \in N : SpeedOf(s, p) <= Bound(c) + 4 * M
  BY DEF SpeedsLeft
<1>. HIDE DEF M, B
<1>4. \A p \in P : SpeedOf(t, p) \in Int /\ SpeedOf(newBase, p) \in 1..M
  BY <1>1, SpeedOfListed
<1>5. ASSUME NEW p \in P PROVE SpeedOf(t, p) <= B - 15 * M
  <2>1. CASE p \in N
    <3>1. SpeedOf(t, p) = SpeedOf(s, p) /\ SpeedOf(s, p) <= Bound(c) + 4 * M
      BY <1>3, <2>1
    <3>. QED
      BY <1>1, <1>2, <3>1
  <2>2. CASE p \notin N
    <3>1. SpeedOf(newBase, p) \in 1..M /\ SpeedOf(t, p) = 2 * SpeedOf(newBase, p)
      BY <1>4, <2>2
    <3>. QED
      BY <1>1, <1>2, <3>1
  <2>. QED
    BY <2>1, <2>2
<1>6. SpeedsLeft(newBase, t, P, B, M)
  BY <1>1, <1>2, <1>4, <1>5, SmallSpeedsAnyBase
<1>. QED
  BY <1>6 DEF B, M

LEMMA RemovingKeepsSpeeds ==
  ASSUME PositiveSpeeds, ListsInv, SpeedsInv, NEW id, RemoveParticipantFromList(id)
  PROVE  SpeedsInv'
<1>. DEFINE N == {p \in Listed : p.id # id}
<1>1. /\ baseSpeed' = Others(baseSpeed, id) /\ analyzedList' = Others(analyzedList, id)
      /\ ~endless /\ endless' = endless /\ currentTurn' = currentTurn
      /\ changes < MaxChanges /\ changes' = changes + 1
  BY DEF RemoveParticipantFromList
<1>2. ListsInv' /\ Listed' = N
  BY RemovingKeepsLists
<1>3. Lists(baseSpeed, Listed) /\ Lists(analyzedList, Listed)
      /\ Lists(baseSpeed', N) /\ Lists(analyzedList', N)
  BY <1>2 DEF ListsInv
<1>4. \A p \in N : /\ SpeedOf(baseSpeed', p) = SpeedOf(baseSpeed, p)
                   /\ SpeedOf(analyzedList', p) = SpeedOf(analyzedList, p)
  BY <1>1, <1>3, OthersSpeeds
<1>5. changes \in Nat /\ MaxChanges \in Nat
  BY PriorityAssumption DEF SpeedsInv
<1>6. SpeedsLeft(baseSpeed, analyzedList, Listed, Bound(changes), Max(Speeds))
  BY <1>1 DEF SpeedsInv
<1>7. N \cap Listed = N /\ N \ Listed = {}
  OBVIOUS
<1>8. SpeedsLeft(baseSpeed', analyzedList', N, Bound(changes + 1), Max(Speeds))
  <2>1. HaveSpeed(analyzedList, Listed)
    BY <1>6 DEF SpeedsLeft
  <2>2. HaveSpeed(analyzedList', N)
    <3>1. \A p \in Listed : p.id # id =>
            SpeedOf(analyzedList', p) = SpeedOf(analyzedList, p)
      BY <1>4
    <3>2. Lists(analyzedList, Listed)
      BY <1>3
    <3>. QED
      BY <2>1, <3>1, <3>2, LeavingLeavesSpeed, Zenon
  <2>3. SpeedsIncrease(baseSpeed')
    BY <1>2 DEF ListsInv
  <2>4. \A p \in N : SpeedOf(baseSpeed', p) \in Speeds
    BY <1>4 DEF SpeedsInv
  <2>5. \A p \in N \cap Listed : SpeedOf(analyzedList', p) = SpeedOf(analyzedList, p)
    BY <1>4, <1>7
  <2>. HIDE DEF N
  <2>6. \A p \in N \ Listed : SpeedOf(analyzedList', p) = 2 * SpeedOf(baseSpeed', p)
    BY <1>7
  <2>. QED
    BY <1>3, <1>5, <1>6, <2>2, <2>3, <2>4, <2>5, <2>6, ChangesKeepBounds
<1>. HIDE DEF N
<1>9. Max(Speeds) \in Nat /\ Bound(changes + 1) \in Nat
      /\ MostLeft(changes + 1) = Bound(changes + 1) + 4 * Max(Speeds)
  <2>1. changes + 1 \in Nat
    BY <1>5
  <2>. QED
    BY <2>1, GreatestSpeed, Bounds
<1>10. \A p \in N : SpeedOf(analyzedList', p) \in 0..MostLeft(changes + 1)
  <2>1. \A p \in N : /\ SpeedOf(analyzedList', p) >= 0
                     /\ SpeedOf(analyzedList', p) <= Bound(changes + 1) + 4 * Max(Speeds)
    BY <1>8 DEF SpeedsLeft, HaveSpeed
  <2>2. \A p \in N : SpeedOf(analyzedList', p) \in Int
    BY <1>3, SpeedOfListed
  <2>. QED
    BY <1>9, <2>1, <2>2
<1>11. \A p \in N : SpeedOf(baseSpeed', p) \in Speeds
  BY <1>4, <1>7 DEF SpeedsInv
<1>12. /\ changes' \in Nat /\ changes' <= MaxChanges /\ currentTurn' \in Nat
       /\ endless' \in BOOLEAN /\ ~endless'
  BY <1>1, <1>5 DEF SpeedsInv
<1>. QED
  BY <1>1, <1>2, <1>8, <1>10, <1>11, <1>12 DEF SpeedsInv

(* A turn that is computed leaves the speeds within the bound there is.    *)
LEMMA TakenTurnSpeeds ==
  ASSUME PositiveSpeeds,
         NEW N \in SUBSET Participants, NEW c \in Nat, c <= MaxChanges,
         NEW base, Lists(base, N), base # << >>, NEW analyzed, Lists(analyzed, N),
         \A p \in N : SpeedOf(base, p) \in Speeds,
         \/ currentTurn = 0
         \/ SpeedsLeft(SortedBySpeed(base), analyzed, N, Bound(c), Max(Speeds))
  PROVE  LET turn == SortBaseAndCalculatePriority(base, analyzed) IN
         /\ turn.complete => SpeedsLeft(turn.base, turn.analyzed, N, Bound(c), Max(Speeds))
         /\ \A p \in N : SpeedOf(turn.base, p) \in Speeds
         /\ \A p \in N : SpeedOf(turn.analyzed, p) \in 0..MostLeft(c)
         /\ EnoughRounds => turn.complete
<1>. DEFINE M == Max(Speeds)
            V == MostLeft(MaxChanges)
            turn == SortBaseAndCalculatePriority(base, analyzed)
<1>1. IsFiniteSet(N)
  BY PriorityAssumption, FS_Subset
<1>2. M \in Nat /\ \A p \in N : SpeedOf(base, p) \in 1..M
  BY GreatestSpeed
<1>3. /\ Bound(c) \in Nat /\ 44 * M <= Bound(c) /\ V >= Bound(c) + 4 * M
      /\ MostLeft(c) = Bound(c) + 4 * M
  BY Bounds
<1>4. V \in Nat
  BY PriorityAssumption, Bounds
<1>. HIDE DEF M, V
<1>5. currentTurn = 0 \/ SpeedsLeft(SortedBySpeed(base), analyzed, N, Bound(c), M)
  BY DEF M
<1>6. /\ turn.complete => SpeedsLeft(turn.base, turn.analyzed, N, Bound(c), M)
      /\ \A p \in N : SpeedOf(turn.base, p) = SpeedOf(base, p)
      /\ \A p \in N : SpeedOf(turn.analyzed, p) \in 0..(Bound(c) + 4 * M)
      /\ MaxRounds >= Cardinality(N) * V => turn.complete
  BY <1>1, <1>2, <1>3, <1>4, <1>5, NewTurnSpeeds
<1>7. EnoughRounds => MaxRounds >= Cardinality(N) * V
  BY <1>4, ListedAreFew DEF EnoughRounds, V
<1>. HIDE DEF turn
<1>8. \A p \in N : SpeedOf(turn.base, p) \in Speeds
  BY <1>6
<1>9. \A p \in N : SpeedOf(turn.analyzed, p) \in 0..MostLeft(c)
  BY <1>3, <1>6
<1>. QED
  BY <1>6, <1>7, <1>8, <1>9 DEF turn, M

(* The lists a turn is computed from when the participant p is added.      *)
Joined(base, analyzed, p, s) ==
  /\ Lists(base, Listed \cup {p}) /\ base # << >>
  /\ Lists(analyzed, Listed \cup {p})
  /\ SpeedOf(base, p) = s
  /\ currentTurn # 0 => SpeedOf(analyzed, p) = 2 * s
  /\ \A q \in Listed : /\ SpeedOf(base, q) = SpeedOf(baseSpeed, q)
                       /\ SpeedOf(analyzed, q) = SpeedOf(analyzedList, q)

LEMMA AddingJoins ==
  ASSUME PositiveSpeeds, ListsInv, SpeedsInv,
         NEW p \in Participants, NEW s \in Speeds, AddParticipantInList(p, s)
  PROVE  \E base, analyzed :
           /\ p \notin Listed
           /\ Joined(base, analyzed, p, s)
           /\ baseSpeed' = SortBaseAndCalculatePriority(base, analyzed).base
           /\ analyzedList' = SortBaseAndCalculatePriority(base, analyzed).analyzed
           /\ priorityList' = SortBaseAndCalculatePriority(base, analyzed).priority
           /\ endless' = ~SortBaseAndCalculatePriority(base, analyzed).complete
<1>. DEFINE elem == PriorityElem(p, s)
            base == Append(baseSpeed, elem)
            analyzed == WithJoiner(base, elem)
            turn == SortBaseAndCalculatePriority(base, analyzed)
<1>1. elem \in Elem /\ Named(elem) = p /\ elem.speed = s
  BY ElementOf DEF PriorityElem
<1>2. p \notin Listed
  <2>1. \A k \in DOMAIN baseSpeed : ~SameParticipant(baseSpeed[k], elem)
    BY DEF AddParticipantInList
  <2>2. \A k \in DOMAIN baseSpeed : Named(baseSpeed[k]) # p
    BY <1>1, <2>1 DEF SameParticipant, Named
  <2>. QED
    BY <2>2 DEF Listed, NamesOf, Range
<1>3. s \in Int /\ currentTurn \in Nat
  BY GreatestSpeed DEF SpeedsInv
<1>4. /\ baseSpeed' = turn.base /\ analyzedList' = turn.analyzed
      /\ priorityList' = turn.priority /\ endless' = ~turn.complete
  BY DEF AddParticipantInList
<1>. HIDE DEF elem
<1>5. Lists(baseSpeed, Listed) /\ Lists(analyzedList, Listed)
  BY DEF ListsInv
<1>6. Lists(base, Listed \cup {p})
  BY <1>1, <1>2, <1>5, AppendedList
<1>7. /\ base # << >> /\ FastestBaseSpeed(base) = s
  <2>1. baseSpeed \in Seq(Elem)
    BY <1>5 DEF Lists
  <2>2. base \in Seq(Elem) /\ Len(base) = Len(baseSpeed) + 1
        /\ base[Len(baseSpeed) + 1] = elem /\ base # << >>
    BY <1>1, <2>1, AppendProperties
  <2>. QED
    BY <1>1, <2>2 DEF FastestBaseSpeed
<1>8. /\ SpeedOf(base, p) = s
      /\ \A q \in Listed : SpeedOf(base, q) = SpeedOf(baseSpeed, q)
  BY <1>1, <1>2, <1>5, AppendedSpeeds
<1>. DEFINE joiner == IF currentTurn > 0
                      THEN [elem EXCEPT !.speed = @ + FastestBaseSpeed(base)] ELSE elem
<1>9. /\ joiner \in Elem /\ Named(joiner) = p
      /\ currentTurn > 0 => joiner.speed = s + s
  <2>. HIDE DEF base
  <2>1. elem.speed + FastestBaseSpeed(base) \in Int
    BY <1>1, <1>3, <1>7
  <2>. QED
    BY <1>1, <1>7, <2>1, SpeedChanges
<1>10. analyzed = Append(analyzedList, joiner)
  BY DEF WithJoiner
<1>. HIDE DEF joiner
<1>11. /\ Lists(analyzed, Listed \cup {p})
       /\ SpeedOf(analyzed, p) = joiner.speed
       /\ \A q \in Listed : SpeedOf(analyzed, q) = SpeedOf(analyzedList, q)
  BY <1>2, <1>5, <1>9, <1>10, AppendedList, AppendedSpeeds
<1>. HIDE DEF base, analyzed
<1>12. currentTurn # 0 => SpeedOf(analyzed, p) = 2 * s
  BY <1>3, <1>9, <1>11
<1>13. Joined(base, analyzed, p, s)
  BY <1>6, <1>7, <1>8, <1>11, <1>12 DEF Joined
<1>. QED
  BY <1>2, <1>4, <1>13

LEMMA AddingKeepsSpeeds ==
  ASSUME PositiveSpeeds, ListsInv, SpeedsInv,
         NEW p \in Participants, NEW s \in Speeds, AddParticipantInList(p, s)
  PROVE  SpeedsInv'
<1>. DEFINE N == Listed \cup {p}
            M == Max(Speeds)
            B == Bound(changes + 1)
<1>1. PICK base, analyzed :
        /\ p \notin Listed
        /\ Joined(base, analyzed, p, s)
        /\ baseSpeed' = SortBaseAndCalculatePriority(base, analyzed).base
        /\ analyzedList' = SortBaseAndCalculatePriority(base, analyzed).analyzed
        /\ endless' = ~SortBaseAndCalculatePriority(base, analyzed).complete
  BY AddingJoins
<1>. DEFINE turn == SortBaseAndCalculatePriority(base, analyzed)
<1>2. /\ ~endless /\ changes < MaxChanges /\ changes' = changes + 1
      /\ currentTurn' = currentTurn
  BY DEF AddParticipantInList
<1>3. /\ Lists(base, N) /\ base # << >> /\ Lists(analyzed, N)
      /\ SpeedOf(base, p) = s
      /\ currentTurn # 0 => SpeedOf(analyzed, p) = 2 * s
      /\ \A q \in Listed : /\ SpeedOf(base, q) = SpeedOf(baseSpeed, q)
                           /\ SpeedOf(analyzed, q) = SpeedOf(analyzedList, q)
  BY <1>1 DEF Joined
<1>4. \A q \in N : SpeedOf(base, q) \in Speeds
  BY <1>3 DEF SpeedsInv
<1>5. changes \in Nat /\ changes + 1 \in Nat /\ changes + 1 <= MaxChanges
      /\ currentTurn \in Nat
  BY <1>2, PriorityAssumption DEF SpeedsInv
<1>6. ASSUME currentTurn # 0 PROVE SpeedsLeft(SortedBySpeed(base), analyzed, N, B, M)
  <2>1. /\ Lists(SortedBySpeed(base), N)
        /\ \A q \in N : SpeedOf(SortedBySpeed(base), q) = SpeedOf(base, q)
    BY <1>3, SortedList, SortedSpeeds
  <2>2. SpeedsLeft(baseSpeed, analyzedList, Listed, Bound(changes), M)
    BY <1>2 DEF SpeedsInv
  <2>3. N \cap Listed = Listed /\ N \ Listed = {p}
    BY <1>1
  <2>4. HaveSpeed(analyzedList, Listed)
    BY <2>2 DEF SpeedsLeft
  <2>5. SpeedOf(analyzed, p) = 2 * s /\ s \in 1..M
    BY <1>3, <1>6, GreatestSpeed
  <2>6. Lists(analyzedList, Listed)
    BY DEF ListsInv
  <2>7. SpeedOf(analyzed, p) >= 0 /\ SpeedOf(analyzed, p) >= 1
    BY <2>5, GreatestSpeed
  <2>8. \A q \in Listed : SpeedOf(analyzed, q) = SpeedOf(analyzedList, q)
    BY <1>3
  <2>9. HaveSpeed(analyzed, N)
    BY <2>4, <2>6, <2>7, <2>8, JoiningLeavesSpeed
  <2>10. \A q \in N : SpeedOf(SortedBySpeed(base), q) \in Speeds
    BY <1>4, <2>1
  <2>11. \A q \in N \cap Listed : SpeedOf(analyzed, q) = SpeedOf(analyzedList, q)
    BY <2>3, <2>8
  <2>12. \A q \in N \ Listed : SpeedOf(analyzed, q) = 2 * SpeedOf(SortedBySpeed(base), q)
    BY <1>3, <2>1, <2>3, <2>5
  <2>13. SpeedsIncrease(SortedBySpeed(base))
    BY <1>3, SortedList
  <2>. HIDE DEF N
  <2>. QED
    BY <1>3, <1>5, <2>1, <2>2, <2>9, <2>10, <2>11, <2>12, <2>13, ChangesKeepBounds
<1>7. ListsInv' /\ Listed' = N
  BY AddingKeepsLists
<1>8. N \in SUBSET Participants
  BY DEF ListsInv
<1>. HIDE DEF N
<1>9. /\ turn.complete => SpeedsLeft(turn.base, turn.analyzed, N, B, M)
      /\ \A q \in N : SpeedOf(turn.base, q) \in Speeds
      /\ \A q \in N : SpeedOf(turn.analyzed, q) \in 0..MostLeft(changes + 1)
      /\ EnoughRounds => turn.complete
  BY <1>3, <1>4, <1>5, <1>6, <1>8, TakenTurnSpeeds
<1>10. turn.complete \in BOOLEAN
  BY <1>3, TurnsAreNew DEF IsNewTurn
<1>11. /\ baseSpeed' = turn.base /\ analyzedList' = turn.analyzed /\ endless' = ~turn.complete
  BY <1>1
<1>. HIDE DEF turn
<1>12. endless' \in BOOLEAN /\ (EnoughRounds => ~endless')
  BY <1>9, <1>10, <1>11
<1>13. ~endless' => SpeedsLeft(baseSpeed', analyzedList', N, Bound(changes'), M)
  BY <1>2, <1>9, <1>11
<1>14. /\ \A q \in N : SpeedOf(baseSpeed', q) \in Speeds
       /\ \A q \in N : SpeedOf(analyzedList', q) \in 0..MostLeft(changes')
  BY <1>2, <1>9, <1>11
<1>15. changes' \in Nat /\ changes' <= MaxChanges /\ currentTurn' \in Nat
  BY <1>2, <1>5
<1>. QED
  BY <1>7, <1>12, <1>13, <1>14, <1>15 DEF SpeedsInv, EnoughRounds

LEMMA GettingKeepsSpeeds ==
  ASSUME PositiveSpeeds, ListsInv, SpeedsInv, GetNext
  PROVE  SpeedsInv'
<1>. DEFINE turn == SortBaseAndCalculatePriority(baseSpeed, analyzedList)
            M == Max(Speeds)
<1>1. CASE UNCHANGED <<baseSpeed, analyzedList, currentTurn, endless, changes>>
  BY <1>1 DEF SpeedsInv, Listed, NamesOf, Range
<1>2. CASE /\ \E t \in {turn} : /\ baseSpeed' = t.base
                                /\ analyzedList' = t.analyzed
                                /\ endless' = ~t.complete
           /\ currentTurn' = 1 /\ UNCHANGED changes
  <2>1. baseSpeed # << >> /\ ~endless
    BY DEF GetNext
  <2>2. /\ baseSpeed' = turn.base /\ analyzedList' = turn.analyzed
        /\ endless' = ~turn.complete /\ currentTurn' = 1 /\ changes' = changes
    BY <1>2
  <2>3. /\ Lists(baseSpeed, Listed) /\ Lists(analyzedList, Listed)
        /\ Listed \in SUBSET Participants /\ SortedBySpeed(baseSpeed) = baseSpeed
    BY SortedStays DEF ListsInv, Lists
  <2>4. /\ changes \in Nat /\ changes <= MaxChanges
        /\ \A q \in Listed : SpeedOf(baseSpeed, q) \in Speeds
        /\ SpeedsLeft(SortedBySpeed(baseSpeed), analyzedList, Listed, Bound(changes), M)
    BY <2>1, <2>3 DEF SpeedsInv
  <2>5. /\ turn.complete => SpeedsLeft(turn.base, turn.analyzed, Listed, Bound(changes), M)
        /\ \A q \in Listed : SpeedOf(turn.base, q) \in Speeds
        /\ \A q \in Listed : SpeedOf(turn.analyzed, q) \in 0..MostLeft(changes)
        /\ EnoughRounds => turn.complete
    BY <2>1, <2>3, <2>4, TakenTurnSpeeds
  <2>6. turn.complete \in BOOLEAN
    BY <2>1, <2>3, TurnsAreNew DEF IsNewTurn
  <2>. HIDE DEF turn
  <2>7. Listed' = Listed
    BY GettingKeepsLists DEF Listed, NamesOf, Range
  <2>8. endless' \in BOOLEAN /\ (EnoughRounds => ~endless')
    BY <2>2, <2>5, <2>6
  <2>9. /\ ~endless' => SpeedsLeft(baseSpeed', analyzedList', Listed, Bound(changes'), M)
        /\ \A q \in Listed : SpeedOf(baseSpeed', q) \in Speeds
        /\ \A q \in Listed : SpeedOf(analyzedList', q) \in 0..MostLeft(changes')
    BY <2>2, <2>5
  <2>10. changes' \in Nat /\ changes' <= MaxChanges /\ currentTurn' \in Nat
    BY <2>2, <2>4
  <2>. QED
    BY <2>7, <2>8, <2>9, <2>10 DEF SpeedsInv, EnoughRounds
<1>3. \/ UNCHANGED <<baseSpeed, analyzedList, currentTurn, endless, changes>>
      \/ /\ \E t \in {turn} : /\ baseSpeed' = t.base
                              /\ analyzedList' = t.analyzed
                              /\ endless' = ~t.complete
         /\ currentTurn' = 1 /\ UNCHANGED changes
  BY DEF GetNext
<1>. QED
  BY <1>1, <1>2, <1>3

LEMMA NextKeepsSpeeds ==
  ASSUME PositiveSpeeds
  PROVE  ListsInv /\ SpeedsInv /\ [Next]_vars => SpeedsInv'
<1>. SUFFICES ASSUME ListsInv, SpeedsInv, [Next]_vars PROVE SpeedsInv'
  OBVIOUS
<1>1. CASE GetNext
  BY <1>1, GettingKeepsSpeeds
<1>2. ASSUME NEW p \in Participants, RemoveParticipantFromList(p.id) PROVE SpeedsInv'
  BY <1>2, RemovingKeepsSpeeds
<1>3. ASSUME NEW p \in Participants, NEW s \in Speeds, AddParticipantInList(p, s)
      PROVE  SpeedsInv'
  BY <1>3, AddingKeepsSpeeds
<1>4. CASE UNCHANGED vars
  BY <1>4 DEF vars, lists, SpeedsInv, Listed, NamesOf, Range
<1>. QED
  BY <1>1, <1>2, <1>3, <1>4 DEF Next

(* What is left to whoever is in the list never goes below 0 and never     *)
(* builds up from turn to turn: between two changes it stays within the    *)
(* same multiple of the greatest speed, however many turns are played.     *)
(* Speeds are positive and bounded; members and contenders may share ids.  *)
THEOREM SpeedsAlwaysStayBounded ==
  ASSUME PositiveSpeeds
  PROVE  Spec => []SpeedsStayBounded
<1>1. ListsInv /\ SpeedsInv => SpeedsStayBounded
  <2>. SUFFICES ASSUME ListsInv, SpeedsInv, NEW k \in DOMAIN analyzedList
                PROVE  analyzedList[k].speed \in 0..MostLeft(changes)
    BY DEF SpeedsStayBounded, MostLeft
  <2>1. /\ Named(analyzedList[k]) \in Listed
        /\ SpeedOf(analyzedList, Named(analyzedList[k])) = analyzedList[k].speed
    BY SpeedOfElement DEF ListsInv
  <2>. QED
    BY <2>1 DEF SpeedsInv
<1>2. Init => SpeedsInv
  BY InitSpeeds
<1>3. ListsInv /\ SpeedsInv /\ [Next]_vars => SpeedsInv'
  BY NextKeepsSpeeds
<1>. QED
  BY <1>1, <1>2, <1>3, InitLists, NextKeepsLists, PTL DEF Spec

(* Every computation of a turn ends, which the recursion of                *)
(* calculatePriority takes for granted: each round takes speed away from   *)
(* somebody as long as the slowest is not the one who plays, so that as    *)
(* many rounds as there are units of speed are enough.                     *)
THEOREM TurnsAlwaysEnd ==
  ASSUME PositiveSpeeds, EnoughRounds
  PROVE  Spec => []TurnsEnd
<1>1. SpeedsInv => TurnsEnd
  BY DEF SpeedsInv, TurnsEnd
<1>2. Init => SpeedsInv
  BY InitSpeeds
<1>3. ListsInv /\ SpeedsInv /\ [Next]_vars => SpeedsInv'
  BY NextKeepsSpeeds
<1>. QED
  BY <1>1, <1>2, <1>3, InitLists, NextKeepsLists, PTL DEF Spec

(* So every turn, which always gets computed, is closed by a participant   *)
(* with the id of the slowest, and by nobody else with that id.            *)
THEOREM EveryTurnIsClosedBySlowestId ==
  ASSUME PositiveSpeeds, EnoughRounds
  PROVE  Spec => SlowestIdClosesTheTurn
<1>1. Spec => []TurnsEnd
  BY TurnsAlwaysEnd
<1>2. Spec /\ []TurnsEnd => SlowestIdClosesTheTurn
  BY SlowestIdAlwaysClosesTheTurn
<1>. QED
  BY <1>1, <1>2, PTL

-----------------------------------------------------------------------------
(* An id that has no place in a turn gains speed by it.                    *)

(* What is left to the participants with the id of p together.             *)
IdSpeed(s, N, p) ==
  SpeedOf(s, p) + (IF Mate(N, p) = p THEN 0 ELSE SpeedOf(s, Mate(N, p)))

PlaysOrGains(turn, base, N, start) ==
  \A p \in N :
    \/ p.id \in IdsOf(turn.priority)
    \/ IF turn.complete /\ Len(base) > 1
       THEN IdSpeed(turn.analyzed, N, p) >= IdSpeed(start, N, p) + 2
       ELSE IdSpeed(turn.analyzed, N, p) = IdSpeed(start, N, p)

LEMMA IdsOfNames ==
  ASSUME NEW s
  PROVE  IdsOf(s) = {p.id : p \in NamesOf(s)}
<1>1. \A k \in DOMAIN s : Named(s[k]).id = s[k].id
  BY DEF Named
<1>2. NamesOf(s) = {Named(s[k]) : k \in DOMAIN s}
  BY DEF NamesOf, Range
<1>. QED
  BY <1>1, <1>2 DEF IdsOf

LEMMA IdSpeedsAreNumbers ==
  ASSUME NEW N, NEW s, Lists(s, N), NEW p \in N
  PROVE  IdSpeed(s, N, p) \in Int
<1>1. Mate(N, p) \in N
  BY MatesShareTheirId
<1>2. SpeedOf(s, p) \in Int /\ SpeedOf(s, Mate(N, p)) \in Int
  BY <1>1, SpeedOfListed
<1>. QED
  BY <1>2 DEF IdSpeed

LEMMA SameIdSpeeds ==
  ASSUME NEW N, NEW s, NEW t, NEW p,
         SpeedOf(t, p) = SpeedOf(s, p), SpeedOf(t, Mate(N, p)) = SpeedOf(s, Mate(N, p))
  PROVE  IdSpeed(t, N, p) = IdSpeed(s, N, p)
  BY DEF IdSpeed

LEMMA RoundPassesOver ==
  ASSUME NEW N, NEW base, Lists(base, N), base # << >>, SpeedsIncrease(base),
         NEW M \in Int, \A p \in N : SpeedOf(base, p) \in 1..M,
         NEW start, Lists(start, N),
         NEW turn, GoodTurn(turn, base, N), ~turn.complete,
         PlaysOrGains(turn, base, N, start)
  PROVE  PlaysOrGains(Round(base, turn), base, N, start)
<1>. DEFINE next == Round(base, turn)
            s == turn.analyzed
<1>1. PICK f : RoundPlayed(next, s, base, N, f) /\ RoundNames(next, turn, f)
  BY RoundIsPlayed
<1>2. Lists(s, N) /\ Lists(next.analyzed, N) /\ f \in N
  BY <1>1, RoundIsGood DEF GoodTurn, RoundPlayed, IsToPlay
<1>3. IdsOf(next.priority) = IdsOf(turn.priority) \cup {f.id}
  <2>1. NamesOf(next.priority) = NamesOf(turn.priority) \cup {f}
    BY <1>1 DEF RoundNames
  <2>. HIDE DEF next
  <2>. QED
    BY <2>1, IdsOfNames
<1>. HIDE DEF next
<1>4. ASSUME NEW p \in N, p.id \notin IdsOf(next.priority)
      PROVE  IF next.complete /\ Len(base) > 1
             THEN IdSpeed(next.analyzed, N, p) >= IdSpeed(start, N, p) + 2
             ELSE IdSpeed(next.analyzed, N, p) = IdSpeed(start, N, p)
  <2>. DEFINE m == Mate(N, p)
              t == next.analyzed
  <2>1. p.id \notin IdsOf(turn.priority) /\ p.id # f.id
    BY <1>3, <1>4
  <2>2. IdSpeed(s, N, p) = IdSpeed(start, N, p)
    BY <2>1 DEF PlaysOrGains
  <2>3. m \in N /\ p # f /\ m # f
    BY <1>2, <2>1, MatesShareTheirId
  <2>4. CASE ~(next.complete /\ Len(base) > 1)
    <3>1. \A q \in N : SpeedOf(t, q) = Paid(s, base, N, f, q)
      BY <1>1, <2>4 DEF RoundPlayed
    <3>2. SpeedOf(t, p) = SpeedOf(s, p) /\ SpeedOf(t, m) = SpeedOf(s, m)
      BY <2>3, <3>1 DEF Paid
    <3>3. IdSpeed(t, N, p) = IdSpeed(s, N, p)
      BY <3>2, SameIdSpeeds
    <3>. QED
      BY <2>2, <2>4, <3>3
  <2>5. CASE next.complete /\ Len(base) > 1
    <3>1. PICK firsts : FirstsOfIds(firsts, s, N, f) /\ GainedBy(firsts, t, s, base, N, f)
      BY <1>1, <2>5 DEF RoundPlayed, Gained, GainedBy
    <3>. DEFINE u == SpeedOf(s, p)
                uu == SpeedOf(s, m)
                v == SpeedOf(t, p)
                vv == SpeedOf(t, m)
    <3>2. PICK h \in {IdGain(base, N, p), IdGain(base, N, m)} :
            \/ v = u + h /\ vv = uu /\ u <= uu
            \/ v = u /\ vv = uu + h /\ uu <= u
            \/ m = p /\ u = uu /\ v = u + h
      <4>. HIDE DEF v, vv, u, uu, m, t, s
      <4>. QED
        BY <1>2, <2>1, <3>1, GainOfOthers DEF v, vv, u, uu, m
    <3>3. h \in Int /\ 2 <= h
      BY <2>3, GainsOfIds
    <3>4. u \in Int /\ uu \in Int /\ v \in Int /\ vv \in Int /\ (m = p => u = uu /\ v = vv)
      BY <1>2, <2>3, SpeedOfListed
    <3>5. /\ IdSpeed(t, N, p) = v + (IF m = p THEN 0 ELSE vv)
          /\ IdSpeed(s, N, p) = u + (IF m = p THEN 0 ELSE uu)
      BY DEF IdSpeed
    <3>. HIDE DEF v, vv, u, uu, m, t, s
    <3>6. IdSpeed(t, N, p) >= IdSpeed(s, N, p) + 2
      BY <3>2, <3>3, <3>4, <3>5
    <3>. QED
      BY <2>2, <2>5, <3>6 DEF t
  <2>. QED
    BY <2>4, <2>5
<1>. QED
  BY <1>4 DEF PlaysOrGains, next

LEMMA CalculatedPassesOver ==
  ASSUME NEW N, NEW base, Lists(base, N), base # << >>, SpeedsIncrease(base),
         NEW M \in Int, \A p \in N : SpeedOf(base, p) \in 1..M,
         NEW start, Lists(start, N)
  PROVE  PlaysOrGains(CalculatePriority(base, start), base, N, start)
<1>1. PICK rounds : /\ AreRounds(rounds, base, start)
                    /\ CalculatePriority(base, start) = rounds[MaxRounds]
                    /\ \A n \in 0..MaxRounds : GoodTurn(rounds[n], base, N)
  BY RoundsAreGood
<1>. DEFINE kept == {n \in Nat : n <= MaxRounds => PlaysOrGains(rounds[n], base, N, start)}
<1>2. MaxRounds \in Nat
  BY PriorityAssumption
<1>3. 0 \in kept
  <2>1. rounds[0].complete = FALSE /\ rounds[0].analyzed = start
    BY <1>1 DEF AreRounds
  <2>. QED
    BY <2>1 DEF PlaysOrGains
<1>4. ASSUME NEW n \in Nat, n \in kept PROVE n + 1 \in kept
  <2>. SUFFICES ASSUME n + 1 <= MaxRounds
                PROVE  PlaysOrGains(rounds[n + 1], base, N, start)
    OBVIOUS
  <2>1. n \in 0..(MaxRounds - 1) /\ n \in 0..MaxRounds
    BY <1>2
  <2>2. PlaysOrGains(rounds[n], base, N, start) /\ GoodTurn(rounds[n], base, N)
    BY <1>1, <1>2, <1>4, <2>1
  <2>3. rounds[n + 1] = IF rounds[n].complete THEN rounds[n] ELSE Round(base, rounds[n])
    BY <1>1, <2>1 DEF AreRounds
  <2>4. CASE rounds[n].complete
    BY <2>2, <2>3, <2>4
  <2>5. CASE ~rounds[n].complete
    BY <2>2, <2>3, <2>5, RoundPassesOver
  <2>. QED
    BY <2>4, <2>5
<1>5. Nat \subseteq kept
  <2>. HIDE DEF kept
  <2>. QED
    BY <1>3, <1>4, SetInduction
<1>. QED
  BY <1>1, <1>2, <1>5

(* Whoever is listed has a place for his id in a turn that is computed, or *)
(* his id gains by it; nobody is passed over in the first turn.            *)
LEMMA PassedOverGain ==
  ASSUME PositiveSpeeds, NEW N, NEW base, Lists(base, N), base # << >>,
         NEW analyzed, Lists(analyzed, N),
         \A q \in N : SpeedOf(base, q) \in Speeds,
         SortBaseAndCalculatePriority(base, analyzed).complete,
         NEW p \in N,
         p.id \notin IdsOf(SortBaseAndCalculatePriority(base, analyzed).priority)
  PROVE  /\ currentTurn # 0
         /\ IdSpeed(SortBaseAndCalculatePriority(base, analyzed).analyzed, N, p)
              >= IdSpeed(analyzed, N, p) + 2
<1>. DEFINE sorted == SortedBySpeed(base)
            turn == SortBaseAndCalculatePriority(base, analyzed)
            rounds == CalculatePriority(sorted, analyzed)
            M == Max(Speeds)
<1>1. /\ Lists(sorted, N) /\ sorted # << >> /\ SpeedsIncrease(sorted)
      /\ \A q \in N : SpeedOf(sorted, q) = SpeedOf(base, q)
  BY SortedList, SortedSpeeds, NotEmpty
<1>2. M \in Int /\ \A q \in N : SpeedOf(sorted, q) \in 1..M
  BY <1>1, GreatestSpeed
<1>. HIDE DEF sorted, M
<1>3. currentTurn # 0
  <2>. SUFFICES ASSUME currentTurn = 0 PROVE FALSE
    OBVIOUS
  <2>1. turn.priority = sorted
    BY DEF SortBaseAndCalculatePriority, sorted
  <2>. QED
    BY <1>1, <2>1, ListNames, IdsOfNames
<1>4. turn = [complete |-> rounds.complete, base |-> sorted,
              analyzed |-> rounds.analyzed, priority |-> rounds.priority]
  BY <1>3 DEF SortBaseAndCalculatePriority, WithBase, sorted
<1>5. PlaysOrGains(rounds, sorted, N, analyzed) /\ GoodTurn(rounds, sorted, N)
      /\ rounds.priority # << >>
  BY <1>1, <1>2, CalculatedPassesOver, CalculatePriorityIsGood
<1>6. rounds.complete /\ p.id \notin IdsOf(rounds.priority)
  BY <1>4
<1>. HIDE DEF rounds, turn
<1>7. Len(sorted) > 1
  <2>. SUFFICES ASSUME ~(Len(sorted) > 1) PROVE FALSE
    OBVIOUS
  <2>1. DOMAIN sorted = 1..Len(sorted) /\ Len(sorted) \in Nat \ {0}
    BY <1>1, BaseEnds
  <2>2. \A q \in N : q = Named(sorted[1])
    BY <1>1, <2>1 DEF Lists
  <2>3. rounds.priority \in Seq(Elem) /\ \A k \in DOMAIN rounds.priority :
                                           Named(rounds.priority[k]) \in N
    BY <1>5 DEF GoodTurn, TurnType
  <2>4. 1 \in DOMAIN rounds.priority
    BY <1>5, <2>3
  <2>5. Named(rounds.priority[1]) = p
    BY <2>2, <2>3, <2>4
  <2>. QED
    BY <1>6, <2>4, <2>5 DEF IdsOf, Named
<1>8. IdSpeed(rounds.analyzed, N, p) >= IdSpeed(analyzed, N, p) + 2
  BY <1>5, <1>6, <1>7 DEF PlaysOrGains
<1>. QED
  BY <1>3, <1>4, <1>8 DEF turn

(* A twin who joins adds to what is left to his id.                        *)
LEMMA JoinersAdd ==
  ASSUME NEW N, NEW s, Lists(s, N), NEW p, NEW t, Lists(t, N \cup {p}),
         \A q \in N : SpeedOf(t, q) = SpeedOf(s, q), SpeedOf(t, p) >= 0,
         NEW q \in N
  PROVE  IdSpeed(t, N \cup {p}, q) >= IdSpeed(s, N, q)
<1>. DEFINE P == N \cup {p}
<1>1. Mate(N, q) \in N /\ Mate(P, q) \in P /\ q \in P
  BY MatesShareTheirId
<1>2. \/ Mate(P, q) = Mate(N, q)
      \/ Mate(N, q) = q /\ Mate(P, q) = p
  BY DEF Mate
<1>3. /\ SpeedOf(s, q) \in Int /\ SpeedOf(s, Mate(N, q)) \in Int
      /\ SpeedOf(t, Mate(P, q)) \in Int
  BY <1>1, SpeedOfListed
<1>4. /\ SpeedOf(t, q) = SpeedOf(s, q) /\ SpeedOf(t, Mate(N, q)) = SpeedOf(s, Mate(N, q))
      /\ Mate(P, q) = p => SpeedOf(t, Mate(P, q)) >= 0
  BY <1>1
<1>. HIDE DEF P
<1>5. CASE Mate(P, q) = Mate(N, q)
  <2>1. IdSpeed(t, P, q) = IdSpeed(s, N, q)
    BY <1>4, <1>5, Zenon DEF IdSpeed
  <2>2. IdSpeed(s, N, q) \in Int
    BY IdSpeedsAreNumbers
  <2>. QED
    BY <2>1, <2>2 DEF P
<1>6. CASE Mate(N, q) = q /\ Mate(P, q) = p
  <2>1. IdSpeed(s, N, q) = SpeedOf(s, q) + 0
    BY <1>6, Zenon DEF IdSpeed
  <2>2. IdSpeed(t, P, q) = SpeedOf(s, q) + (IF p = q THEN 0 ELSE SpeedOf(t, p))
    BY <1>4, <1>6, Zenon DEF IdSpeed
  <2>3. SpeedOf(t, p) >= 0 /\ SpeedOf(t, p) \in Int
    BY <1>3, <1>4, <1>6
  <2>4. IdSpeed(t, P, q) >= IdSpeed(s, N, q)
    BY <1>3, <2>1, <2>2, <2>3
  <2>. QED
    BY <2>4 DEF P
<1>. QED
  BY <1>2, <1>5, <1>6

-----------------------------------------------------------------------------
(* How long an id waits for a place in a turn.                             *)

(* For every turn it is passed over it has two units of speed more.        *)
WaitingPaysOff ==
  /\ passedOver \in [Participants -> Nat]
  /\ \A p \in Listed : 2 * passedOver[p] <= IdSpeed(analyzedList, Listed, p)

LEMMA CountingKeepsWaiting ==
  ASSUME WaitingPaysOff, Listed \subseteq Participants,
         NEW ids, CountTurn(ids),
         \A p \in Listed' : IdSpeed(analyzedList', Listed', p) \in Nat,
         \A p \in Listed : IdSpeed(analyzedList, Listed, p) \in Int,
         Listed' \subseteq Participants,
         \A p \in Listed \cap Listed' : p.id \notin ids =>
           IdSpeed(analyzedList', Listed', p) >= IdSpeed(analyzedList, Listed, p) + 2
  PROVE  WaitingPaysOff'
<1>. DEFINE counts == [p \in Participants |->
                         IF p \in Listed /\ p.id \notin ids THEN OneMore(passedOver[p])
                         ELSE 0]
<1>1. passedOver' = counts
  BY DEF CountTurn
<1>2. passedOver \in [Participants -> Nat]
  BY DEF WaitingPaysOff
<1>3. counts \in [Participants -> Nat]
  BY <1>2 DEF OneMore
<1>4. ASSUME NEW p \in Listed' PROVE 2 * counts[p] <= IdSpeed(analyzedList', Listed', p)
  <2>1. CASE p \in Listed /\ p.id \notin ids
    <3>1. /\ counts[p] = OneMore(passedOver[p]) /\ passedOver[p] \in Nat
          /\ OneMore(passedOver[p]) \in Nat /\ OneMore(passedOver[p]) <= passedOver[p] + 1
      BY <1>2, <2>1 DEF OneMore
    <3>2. /\ 2 * passedOver[p] <= IdSpeed(analyzedList, Listed, p)
          /\ IdSpeed(analyzedList', Listed', p) >= IdSpeed(analyzedList, Listed, p) + 2
          /\ IdSpeed(analyzedList, Listed, p) \in Int
          /\ IdSpeed(analyzedList', Listed', p) \in Int
      BY <2>1, <1>4 DEF WaitingPaysOff
    <3>. QED
      BY <3>1, <3>2
  <2>2. CASE ~(p \in Listed /\ p.id \notin ids)
    <3>1. counts[p] = 0
      BY <1>4, <2>2
    <3>. QED
      BY <1>4, <3>1
  <2>. QED
    BY <2>1, <2>2
<1>. QED
  BY <1>1, <1>3, <1>4 DEF WaitingPaysOff

(* What is left to an id is bounded.                                       *)
SpeedNumbers ==
  /\ Listed \subseteq Participants /\ MostLeft(changes) \in Nat
  /\ \A p \in Listed :
       /\ IdSpeed(analyzedList, Listed, p) \in Nat
       /\ IdSpeed(analyzedList, Listed, p) <= 2 * MostLeft(changes)

LEMMA SpeedsAreNumbers ==
  ASSUME PositiveSpeeds
  PROVE  ListsInv /\ SpeedsInv => SpeedNumbers
<1>. SUFFICES ASSUME ListsInv, SpeedsInv PROVE SpeedNumbers
  OBVIOUS
<1>1. MostLeft(changes) \in Nat
  BY Bounds DEF SpeedsInv
<1>2. \A p \in Listed : SpeedOf(analyzedList, p) \in 0..MostLeft(changes)
  BY DEF SpeedsInv
<1>3. Lists(analyzedList, Listed) /\ Listed \subseteq Participants
  BY DEF ListsInv
<1>4. ASSUME NEW p \in Listed
      PROVE  /\ IdSpeed(analyzedList, Listed, p) \in Nat
             /\ IdSpeed(analyzedList, Listed, p) <= 2 * MostLeft(changes)
  <2>1. Mate(Listed, p) \in Listed
    BY <1>3, MatesShareTheirId
  <2>2. /\ SpeedOf(analyzedList, p) \in 0..MostLeft(changes)
        /\ SpeedOf(analyzedList, Mate(Listed, p)) \in 0..MostLeft(changes)
    BY <1>2, <2>1
  <2>. QED
    BY <1>1, <2>2 DEF IdSpeed
<1>. QED
  BY <1>1, <1>3, <1>4 DEF SpeedNumbers

LEMMA GettingKeepsWaiting ==
  ASSUME PositiveSpeeds, EnoughRounds,
         ListsInv, SpeedsInv, WaitingPaysOff, SpeedsInv', SpeedNumbers, SpeedNumbers',
         GetNext, priorityList = << >>,
         CountTurn(IdsOf(Append(priorityList', currentPrio')))
  PROVE  WaitingPaysOff'
<1>. DEFINE turn == SortBaseAndCalculatePriority(baseSpeed, analyzedList)
<1>1. /\ currentPrio' = Last(turn.priority) /\ priorityList' = Front(turn.priority)
      /\ analyzedList' = turn.analyzed /\ endless' = ~turn.complete
      /\ baseSpeed # << >>
  BY DEF GetNext
<1>2. /\ Lists(baseSpeed, Listed) /\ Lists(analyzedList, Listed)
      /\ \A p \in Listed : SpeedOf(baseSpeed, p) \in Speeds
  BY DEF ListsInv, SpeedsInv
<1>3. IsNewTurn(turn, Listed)
  BY <1>1, <1>2, TurnsAreNew
<1>4. ASSUME NEW p \in Listed, turn.complete, p.id \notin IdsOf(turn.priority)
      PROVE  IdSpeed(turn.analyzed, Listed, p) >= IdSpeed(analyzedList, Listed, p) + 2
  BY <1>1, <1>2, <1>4, PassedOverGain
<1>. HIDE DEF turn
<1>5. turn.complete
  <2>1. ~endless'
    BY DEF SpeedsInv, EnoughRounds
  <2>. QED
    BY <1>1, <2>1
<1>6. IdsOf(Append(priorityList', currentPrio')) = IdsOf(turn.priority)
  <2>1. turn.priority \in Seq(Elem) /\ turn.priority # << >>
    BY <1>3 DEF IsNewTurn
  <2>2. PICK t \in Seq(Elem), e \in Elem : turn.priority = Append(t, e)
    BY <2>1, SequenceEmptyOrAppend
  <2>3. Front(turn.priority) = t /\ Last(turn.priority) = e
    BY <2>2, LastAppended
  <2>. QED
    BY <1>1, <2>2, <2>3
<1>7. Listed' = Listed /\ ListsInv'
  BY GettingKeepsLists DEF Listed, NamesOf, Range
<1>8. /\ \A p \in Listed : IdSpeed(analyzedList, Listed, p) \in Int
      /\ Listed \subseteq Participants
  BY DEF SpeedNumbers
<1>9. \A p \in Listed' : IdSpeed(analyzedList', Listed', p) \in Nat
  BY <1>7 DEF SpeedNumbers
<1>10. \A p \in Listed \cap Listed' : p.id \notin IdsOf(turn.priority) =>
         IdSpeed(analyzedList', Listed', p) >= IdSpeed(analyzedList, Listed, p) + 2
  BY <1>1, <1>4, <1>5, <1>7
<1>. QED
  BY <1>6, <1>7, <1>8, <1>9, <1>10, CountingKeepsWaiting

LEMMA AddingKeepsWaiting ==
  ASSUME PositiveSpeeds, EnoughRounds,
         ListsInv, SpeedsInv, WaitingPaysOff, SpeedsInv', SpeedNumbers, SpeedNumbers',
         NEW p \in Participants, NEW s \in Speeds, AddParticipantInList(p, s),
         CountTurn(IdsOf(priorityList'))
  PROVE  WaitingPaysOff'
<1>. DEFINE N == Listed \cup {p}
<1>1. PICK base, analyzed :
        /\ p \notin Listed
        /\ Joined(base, analyzed, p, s)
        /\ analyzedList' = SortBaseAndCalculatePriority(base, analyzed).analyzed
        /\ priorityList' = SortBaseAndCalculatePriority(base, analyzed).priority
        /\ endless' = ~SortBaseAndCalculatePriority(base, analyzed).complete
  BY AddingJoins
<1>. DEFINE turn == SortBaseAndCalculatePriority(base, analyzed)
<1>2. /\ Lists(base, N) /\ base # << >> /\ Lists(analyzed, N)
      /\ \A q \in N : SpeedOf(base, q) \in Speeds
      /\ \A q \in Listed : SpeedOf(analyzed, q) = SpeedOf(analyzedList, q)
      /\ currentTurn # 0 => SpeedOf(analyzed, p) = 2 * s
  BY <1>1 DEF Joined, SpeedsInv
<1>3. ListsInv' /\ Listed' = N
  BY AddingKeepsLists
<1>4. Lists(analyzedList, Listed)
  BY DEF ListsInv
<1>5. turn.complete
  <2>1. ~endless'
    BY DEF SpeedsInv, EnoughRounds
  <2>. QED
    BY <1>1, <2>1
<1>6. ASSUME NEW q \in Listed, q.id \notin IdsOf(turn.priority)
      PROVE  IdSpeed(turn.analyzed, N, q) >= IdSpeed(analyzedList, Listed, q) + 2
  <2>1. q \in N
    OBVIOUS
  <2>2. currentTurn # 0 /\ IdSpeed(turn.analyzed, N, q) >= IdSpeed(analyzed, N, q) + 2
    <3>. HIDE DEF N
    <3>. QED
      BY <1>2, <1>5, <1>6, <2>1, PassedOverGain
  <2>3. SpeedOf(analyzed, p) >= 0
    <3>1. s \in 1..Max(Speeds)
      BY GreatestSpeed
    <3>. QED
      BY <1>2, <2>2, <3>1
  <2>4. IdSpeed(analyzed, N, q) >= IdSpeed(analyzedList, Listed, q)
    BY <1>2, <1>4, <2>3, JoinersAdd
  <2>5. /\ IdSpeed(analyzed, N, q) \in Int /\ IdSpeed(analyzedList, Listed, q) \in Int
        /\ IdSpeed(turn.analyzed, N, q) \in Int
    <3>1. Lists(turn.analyzed, N)
      BY <1>2, TurnsAreNew DEF IsNewTurn
    <3>. HIDE DEF N, turn
    <3>. QED
      BY <1>2, <1>4, <2>1, <3>1, IdSpeedsAreNumbers
  <2>. HIDE DEF N, turn
  <2>. QED
    BY <2>2, <2>4, <2>5
<1>7. analyzedList' = turn.analyzed /\ priorityList' = turn.priority
  BY <1>1
<1>. HIDE DEF turn
<1>8. /\ \A q \in Listed : IdSpeed(analyzedList, Listed, q) \in Int
      /\ Listed \subseteq Participants
  BY DEF SpeedNumbers
<1>9. /\ \A q \in Listed' : IdSpeed(analyzedList', Listed', q) \in Nat
      /\ Listed' \subseteq Participants
  BY DEF SpeedNumbers
<1>10. \A q \in Listed \cap Listed' : q.id \notin IdsOf(priorityList') =>
         IdSpeed(analyzedList', Listed', q) >= IdSpeed(analyzedList, Listed, q) + 2
  BY <1>3, <1>6, <1>7
<1>. QED
  BY <1>8, <1>9, <1>10, CountingKeepsWaiting

LEMMA RemovingKeepsWaiting ==
  ASSUME ListsInv, WaitingPaysOff, NEW id, RemoveParticipantFromList(id),
         passedOver' = passedOver
  PROVE  WaitingPaysOff'
<1>1. Listed' = {p \in Listed : p.id # id}
  BY RemovingKeepsLists
<1>2. analyzedList' = Others(analyzedList, id) /\ Lists(analyzedList, Listed)
  BY DEF RemoveParticipantFromList, ListsInv
<1>3. \A p \in Listed' : SpeedOf(analyzedList', p) = SpeedOf(analyzedList, p)
  BY <1>1, <1>2, OthersSpeeds
<1>4. ASSUME NEW p \in Listed'
      PROVE  IdSpeed(analyzedList', Listed', p) = IdSpeed(analyzedList, Listed, p)
  <2>1. p \in Listed /\ Mate(Listed, p) \in Listed /\ Mate(Listed, p).id = p.id
    BY <1>1, <1>2, <1>4, MatesShareTheirId
  <2>2. Mate(Listed, p) \in Listed'
    BY <1>1, <1>4, <2>1
  <2>3. Mate(Listed', p) = Mate(Listed, p)
    BY <1>1, <2>1, <2>2 DEF Mate
  <2>. QED
    BY <1>3, <1>4, <2>2, <2>3 DEF IdSpeed
<1>5. Listed' \subseteq Listed
  BY <1>1
<1>. QED
  BY <1>4, <1>5 DEF WaitingPaysOff

LEMMA CountedNextKeepsWaiting ==
  ASSUME PositiveSpeeds, EnoughRounds
  PROVE  ListsInv /\ SpeedsInv /\ SpeedsInv' /\ SpeedNumbers /\ SpeedNumbers' /\ WaitingPaysOff
           /\ [CountedNext]_countedVars => WaitingPaysOff'
<1>. SUFFICES ASSUME ListsInv, SpeedsInv, SpeedsInv', SpeedNumbers, SpeedNumbers',
                     WaitingPaysOff, [CountedNext]_countedVars
              PROVE  WaitingPaysOff'
  OBVIOUS
<1>1. ASSUME baseSpeed' = baseSpeed, analyzedList' = analyzedList, passedOver' = passedOver
      PROVE  WaitingPaysOff'
  <2>1. Listed' = Listed
    BY <1>1 DEF Listed, NamesOf, Range
  <2>. QED
    BY <1>1, <2>1 DEF WaitingPaysOff
<1>2. CASE GetNext /\ priorityList # << >> /\ UNCHANGED passedOver
  <2>1. baseSpeed' = baseSpeed /\ analyzedList' = analyzedList
    BY <1>2 DEF GetNext
  <2>. QED
    BY <1>1, <1>2, <2>1
<1>3. CASE /\ GetNext /\ priorityList = << >>
           /\ CountTurn(IdsOf(Append(priorityList', currentPrio')))
  BY <1>3, GettingKeepsWaiting
<1>4. ASSUME NEW p \in Participants, RemoveParticipantFromList(p.id), UNCHANGED passedOver
      PROVE  WaitingPaysOff'
  BY <1>4, RemovingKeepsWaiting
<1>5. ASSUME NEW p \in Participants, NEW s \in Speeds, AddParticipantInList(p, s),
             CountTurn(IdsOf(priorityList'))
      PROVE  WaitingPaysOff'
  BY <1>5, AddingKeepsWaiting
<1>6. CASE UNCHANGED countedVars
  BY <1>1, <1>6 DEF countedVars, vars, lists
<1>. QED
  BY <1>2, <1>3, <1>4, <1>5, <1>6 DEF CountedNext

(* Nobody waits for long: the id of whoever is listed is passed over in at *)
(* most as many turns in a row as bring it from nothing to the most that   *)
(* can be left, which is what NobodyStarves needs of the turns. The bound  *)
(* grows with the changes, which restart turns.                            *)
THEOREM NobodyIsPassedOverForLong ==
  ASSUME PositiveSpeeds, EnoughRounds
  PROVE  CountedSpec => []NobodyWaitsLong
<1>1. SpeedNumbers /\ WaitingPaysOff => NobodyWaitsLong
  <2>. SUFFICES ASSUME SpeedNumbers, WaitingPaysOff, NEW p \in Listed
                PROVE  passedOver[p] <= MostLeft(changes)
    BY DEF NobodyWaitsLong, MostLeft
  <2>1. /\ IdSpeed(analyzedList, Listed, p) \in Nat
        /\ IdSpeed(analyzedList, Listed, p) <= 2 * MostLeft(changes)
        /\ MostLeft(changes) \in Nat /\ p \in Participants
    BY DEF SpeedNumbers
  <2>2. passedOver[p] \in Nat /\ 2 * passedOver[p] <= IdSpeed(analyzedList, Listed, p)
    BY <2>1 DEF WaitingPaysOff
  <2>. QED
    BY <2>1, <2>2
<1>2. CountedInit => ListsInv /\ SpeedsInv /\ WaitingPaysOff
  <2>. SUFFICES ASSUME CountedInit PROVE ListsInv /\ SpeedsInv /\ WaitingPaysOff
    OBVIOUS
  <2>1. Init /\ passedOver = [p \in Participants |-> 0]
    BY DEF CountedInit
  <2>2. ListsInv /\ SpeedsInv
    BY <2>1, InitLists, InitSpeeds
  <2>3. \A p \in Listed : IdSpeed(analyzedList, Listed, p) \in Nat /\ p \in Participants
    BY <2>2, SpeedsAreNumbers DEF SpeedNumbers
  <2>4. \A p \in Listed : 2 * passedOver[p] <= IdSpeed(analyzedList, Listed, p)
    <3>1. \A p \in Listed : passedOver[p] = 0
      BY <2>1, <2>3
    <3>. QED
      BY <2>3, <3>1
  <2>. QED
    BY <2>1, <2>2, <2>4 DEF WaitingPaysOff
<1>3. [CountedNext]_countedVars => [Next]_vars
  BY DEF CountedNext, Next, countedVars
<1>4. ListsInv /\ SpeedsInv /\ [Next]_vars => ListsInv' /\ SpeedsInv'
  BY NextKeepsLists, NextKeepsSpeeds
<1>5. ListsInv /\ SpeedsInv /\ SpeedsInv' /\ SpeedNumbers /\ SpeedNumbers' /\ WaitingPaysOff
        /\ [CountedNext]_countedVars => WaitingPaysOff'
  BY CountedNextKeepsWaiting
<1>6. ListsInv /\ SpeedsInv => SpeedNumbers
  BY SpeedsAreNumbers
<1>. QED
  BY <1>1, <1>2, <1>3, <1>4, <1>5, <1>6, PTL DEF CountedSpec

-----------------------------------------------------------------------------
(* The battle of a side.                                                   *)

SideInv ==
  /\ ListsInv
  /\ answer = currentPrio
  /\ ~started => remaining = 0

LEMMA InitSide == SideInit => SideInv
  BY InitLists DEF SideInit, SideInv, Init

LEMMA SideNextKeeps == SideInv /\ [SideNext]_sideVars => SideInv'
<1>. SUFFICES ASSUME SideInv, [SideNext]_sideVars PROVE SideInv'
  OBVIOUS
<1>1. ASSUME UNCHANGED vars PROVE ListsInv'
  BY <1>1, NextKeepsLists DEF SideInv
<1>2. CASE GetCurrentParticipantTurn
  <2>1. CASE UNCHANGED vars /\ answer' = currentPrio
    <3>1. currentPrio' = currentPrio
      BY <2>1 DEF vars
    <3>. QED
      BY <1>1, <1>2, <2>1, <3>1 DEF SideInv, GetCurrentParticipantTurn
  <2>2. CASE GetNext /\ answer' = currentPrio'
    BY <1>2, <2>2, GettingKeepsLists DEF SideInv, GetCurrentParticipantTurn
  <2>. QED
    BY <1>2, <2>1, <2>2 DEF GetCurrentParticipantTurn
<1>3. CASE TimePasses
  <2>1. currentPrio' = currentPrio
    BY <1>3 DEF TimePasses, vars
  <2>. QED
    BY <1>1, <1>3, <2>1 DEF SideInv, TimePasses
<1>4. ASSUME NEW p \in Participants, NEW s \in Speeds, InitializePriorityList(p, s)
      PROVE  SideInv'
  <2>1. AddParticipantInList(p, s) /\ UNCHANGED <<started, remaining, answer>>
    BY <1>4 DEF InitializePriorityList
  <2>2. currentPrio' = currentPrio
    BY <2>1 DEF AddParticipantInList
  <2>. QED
    BY <2>1, <2>2, AddingKeepsLists DEF SideInv
<1>5. CASE UNCHANGED sideVars
  <2>1. currentPrio' = currentPrio
    BY <1>5 DEF sideVars, vars
  <2>. QED
    BY <1>1, <1>5, <2>1 DEF SideInv, sideVars
<1>. QED
  BY <1>2, <1>3, <1>4, <1>5 DEF SideNext

(* Whoever's turn it is keeps it for the interlude of the pit, at every    *)
(* level: the answer of a pass only changes when the interlude is over,    *)
(* and starts a new one. Before the first pass nobody's turn is running.   *)
THEOREM TurnsAlwaysLastTheInterlude == SideSpec => TurnsLastTheInterlude
<1>. DEFINE Lasts == answer' # answer => remaining = 0 /\ remaining' = Interlude
<1>1. SideInv /\ [SideNext]_sideVars => [Lasts]_sideVars
  <2>. SUFFICES ASSUME SideInv, SideNext, answer' # answer
                PROVE  remaining = 0 /\ remaining' = Interlude
    OBVIOUS
  <2>1. CASE GetCurrentParticipantTurn
    BY <2>1 DEF GetCurrentParticipantTurn, SideInv
  <2>2. CASE TimePasses
    BY <2>2 DEF TimePasses
  <2>3. ASSUME NEW p \in Participants, NEW s \in Speeds, InitializePriorityList(p, s)
        PROVE  FALSE
    BY <2>3 DEF InitializePriorityList
  <2>. QED
    BY <2>1, <2>2, <2>3 DEF SideNext
<1>2. TurnsLastTheInterlude <=> [][Lasts]_sideVars
  BY DEF TurnsLastTheInterlude
<1>. HIDE DEF Lasts
<1>. QED
  BY <1>1, <1>2, InitSide, SideNextKeeps, PTL DEF SideSpec

(* The clock only decides when the next participant is taken: whatever is  *)
(* proved of the turn order (that turns end, that speeds stay bounded, who *)
(* closes a turn) holds of the battle of a side.                           *)
THEOREM SidesPlayInTurnOrder == SideSpec => Spec
<1>1. SideInit => Init
  BY DEF SideInit
<1>2. [SideNext]_sideVars => [Next]_vars
  <2>. SUFFICES ASSUME [SideNext]_sideVars PROVE [Next]_vars
    OBVIOUS
  <2>1. CASE GetCurrentParticipantTurn
    BY <2>1 DEF GetCurrentParticipantTurn, Next
  <2>2. CASE TimePasses
    BY <2>2 DEF TimePasses
  <2>3. ASSUME NEW p \in Participants, NEW s \in Speeds, InitializePriorityList(p, s)
        PROVE  Next
    BY <2>3 DEF InitializePriorityList, Next
  <2>4. CASE UNCHANGED sideVars
    BY <2>4 DEF sideVars
  <2>. QED
    BY <2>1, <2>2, <2>3, <2>4 DEF SideNext
<1>. QED
  BY <1>1, <1>2, PTL DEF SideSpec, Spec

(* The clock and the turn order behind it implement the side the worker    *)
(* relies on: a pass answers somebody who is listed, or whom it answered   *)
(* before.                                                                 *)
THEOREM SideBattleImplementsSideTurns == SideSpec => ImplementsSideTurns
<1>1. SideInit => Side!Init
  BY DEF SideInit, Init, Side!Init, Listed, NamesOf, Range
<1>2. SideInv /\ [SideNext]_sideVars
        => [Side!Next]_<<Listed, Named(answer)>>
  <2>. SUFFICES ASSUME SideInv, [SideNext]_sideVars
                PROVE  Side!Next \/ (Listed' = Listed /\ Named(answer)' = Named(answer))
    BY DEF Listed, NamesOf
  <2>1. ASSUME baseSpeed' = baseSpeed PROVE Listed' = Listed
    BY <2>1 DEF Listed, NamesOf, Range
  <2>2. CASE GetCurrentParticipantTurn
    <3>1. CASE UNCHANGED vars /\ answer' = currentPrio
      <4>1. baseSpeed' = baseSpeed /\ answer' = answer
        BY <3>1 DEF vars, lists, SideInv
      <4>. QED
        BY <2>1, <4>1 DEF Named
    <3>2. CASE GetNext /\ answer' = currentPrio'
      <4>1. baseSpeed' = baseSpeed /\ Named(answer') \in Listed
        BY <3>2, GettingKeepsLists DEF SideInv
      <4>2. Side!GetCurrentParticipantTurn
        BY <2>1, <4>1 DEF Side!GetCurrentParticipantTurn, Side!Answers, Listed, NamesOf
      <4>. QED
        BY <4>2 DEF Side!Next
    <3>. QED
      BY <2>2, <3>1, <3>2 DEF GetCurrentParticipantTurn
  <2>3. CASE TimePasses
    <3>1. baseSpeed' = baseSpeed /\ answer' = answer
      BY <2>3 DEF TimePasses, vars, lists
    <3>. QED
      BY <2>1, <3>1 DEF Named
  <2>4. ASSUME NEW p \in Participants, NEW s \in Speeds, InitializePriorityList(p, s)
        PROVE  Side!Next
    <3>1. Listed' = Listed \cup {p} /\ answer' = answer
      BY <2>4, AddingKeepsLists DEF InitializePriorityList, SideInv
    <3>2. Side!List(p) /\ p \in Listed'
      BY <3>1 DEF Side!List, Listed, NamesOf, Named
    <3>. QED
      BY <3>2 DEF Side!Next, Listed, NamesOf
  <2>5. CASE UNCHANGED sideVars
    <3>1. baseSpeed' = baseSpeed /\ answer' = answer
      BY <2>5 DEF sideVars, vars, lists
    <3>. QED
      BY <2>1, <3>1 DEF Named
  <2>. QED
    BY <2>2, <2>3, <2>4, <2>5 DEF SideNext
<1>. QED
  BY <1>1, <1>2, InitSide, SideNextKeeps, PTL DEF SideSpec, ImplementsSideTurns, Side!Spec
=============================================================================
