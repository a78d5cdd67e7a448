------------------------- MODULE PitBuildingProofs -------------------------
(***************************************************************************)
(* What is proved of the building of a fighting pit, for any configuration *)
(* and any scripts: how stale a script may be that is served from memory,  *)
(* the draw of the contenders, and the pit the steps lead to.              *)
(*                                                                         *)
(* Of the scripts: the clock of the files and that of the system are       *)
(* assumed to have the same epoch, as in libstdc++ up to GCC 8; with an    *)
(* epoch in the future, as since GCC 9, whatever is in memory is taken for *)
(* up to date.                                                             *)
(***************************************************************************)
EXTENDS PitBuilding, FoldLemmas

-----------------------------------------------------------------------------
(* The script cache.                                                       *)

(* A file not written after it was read still holds what was read, unless  *)
(* it was written within the tick it was read in.                          *)
MemoryFollowsFiles ==
  \A k \in Keys :
    /\ local[k] # Absent
    /\ mem[k] # Absent
    /\ local[k].writeTime <= mem[k].timestamp
    => \/ local[k].content = mem[k].content
       \/ local[k].writeTime = mem[k].timestamp

CacheInv == CacheTypeOK /\ MemoryFollowsFiles

-----------------------------------------------------------------------------
(* Absent is nothing else.                                                 *)
LEMMA AbsentIsNoFile ==
  /\ \A f \in LocalFile : f # Absent
  /\ \A e \in InMemoryCached : e # Absent
  /\ \A c \in Contents : c # Absent
<1>. QED
  BY CacheAssumption

LEMMA LookedUpIsAFile ==
  ASSUME CacheInv, NEW k \in Keys, LookedUp(k) # Absent
  PROVE  /\ LookedUp(k) \in LocalFile
         /\ LookedUp(k).writeTime <= now
<1>1. CASE IsInLocalStorage(k)
  BY <1>1 DEF LookedUp, IsInLocalStorage, CacheInv, CacheTypeOK
<1>2. CASE ~IsInLocalStorage(k)
  <2>1. LookedUp(k) = [content |-> source[k], writeTime |-> now] /\ source[k] # Absent
    BY <1>2 DEF LookedUp, CreateFileInLocalStorage
  <2>2. source[k] \in Contents /\ now \in Nat
    BY <2>1 DEF CacheInv, CacheTypeOK
  <2>. QED
    BY <2>1, <2>2 DEF LocalFile
<1>. QED
  BY <1>1, <1>2

(* After the look-up the local storage has the file that was looked up.    *)
LEMMA LookedUpIsStored ==
  ASSUME CacheInv, NEW k \in Keys, FindInCache(k)
  PROVE  /\ local'[k] = LookedUp(k)
         /\ \A j \in Keys : j # k => local'[j] = local[j]
         /\ local' \in [Keys -> LocalFile \cup {Absent}]
<1>1. LookedUp(k) \in LocalFile \cup {Absent}
  BY LookedUpIsAFile
<1>2. local \in [Keys -> LocalFile \cup {Absent}]
  BY DEF CacheInv, CacheTypeOK
<1>3. CASE IsInLocalStorage(k)
  BY <1>2, <1>3 DEF FindInCache, LookedUp
<1>4. CASE ~IsInLocalStorage(k)
  BY <1>1, <1>2, <1>4 DEF FindInCache
<1>. QED
  BY <1>3, <1>4

LEMMA FindKeepsCacheInv ==
  ASSUME CacheInv, NEW k \in Keys, FindInCache(k)
  PROVE  CacheInv'
<1>. DEFINE entry == [content |-> LookedUp(k).content, timestamp |-> now]
<1>0. CacheTypeOK /\ MemoryFollowsFiles
  BY DEF CacheInv
<1>1. /\ local'[k] = LookedUp(k)
      /\ \A j \in Keys : j # k => local'[j] = local[j]
      /\ local' \in [Keys -> LocalFile \cup {Absent}]
      /\ now' = now /\ source' = source
  BY LookedUpIsStored DEF FindInCache
<1>2. LookedUp(k) # Absent => /\ LookedUp(k) \in LocalFile
                              /\ LookedUp(k).writeTime <= now
  BY LookedUpIsAFile
<1>3. \A j \in Keys : local'[j] # Absent => local'[j].writeTime <= now'
  BY <1>0, <1>1, <1>2 DEF CacheTypeOK
<1>4. CASE LookedUp(k) # Absent /\ ~AnsweredFromMemory(k)
  <2>1. mem' = [mem EXCEPT ![k] = entry]
    BY <1>4 DEF FindInCache
  <2>2. entry \in InMemoryCached /\ entry.timestamp = now /\ now \in Nat
    BY <1>0, <1>2, <1>4 DEF CacheTypeOK, LocalFile, InMemoryCached
  <2>3. mem'[k] = entry /\ \A j \in Keys : j # k => mem'[j] = mem[j]
    BY <1>0, <2>1 DEF CacheTypeOK
  <2>. HIDE DEF entry
  <2>4. mem' \in [Keys -> InMemoryCached \cup {Absent}]
    BY <1>0, <2>1, <2>2 DEF CacheTypeOK
  <2>5. \A j \in Keys : mem'[j] # Absent => mem'[j].timestamp <= now'
    BY <1>0, <1>1, <2>2, <2>3 DEF CacheTypeOK
  <2>6. CacheTypeOK'
    BY <1>0, <1>1, <1>3, <2>4, <2>5 DEF CacheTypeOK
  <2>7. entry.content = LookedUp(k).content
    BY DEF entry
  <2>8. MemoryFollowsFiles'
    BY <1>0, <1>1, <2>3, <2>7 DEF MemoryFollowsFiles
  <2>. QED
    BY <2>6, <2>8 DEF CacheInv
<1>5. CASE LookedUp(k) = Absent \/ AnsweredFromMemory(k)
  <2>1. mem' = mem
    BY <1>5 DEF FindInCache
  <2>2. CacheTypeOK'
    BY <1>0, <1>1, <1>3, <2>1 DEF CacheTypeOK
  <2>3. CASE IsInLocalStorage(k)
    <3>1. \A j \in Keys : local'[j] = local[j]
      BY <1>1, <2>3 DEF LookedUp
    <3>. QED
      BY <1>0, <2>1, <2>2, <3>1 DEF MemoryFollowsFiles, CacheInv
  <2>4. CASE ~IsInLocalStorage(k)
    <3>1. LookedUp(k) # Absent => LookedUp(k).writeTime = now
      BY <2>4 DEF LookedUp, CreateFileInLocalStorage
    <3>2. mem[k] # Absent => mem[k].timestamp \in Nat /\ mem[k].timestamp <= now
      BY <1>0 DEF CacheTypeOK, InMemoryCached
    <3>3. now \in Nat
      BY <1>0 DEF CacheTypeOK
    <3>4. LookedUp(k) # Absent /\ mem[k] # Absent
            /\ LookedUp(k).writeTime <= mem[k].timestamp
          => LookedUp(k).writeTime = mem[k].timestamp
      BY <3>1, <3>2, <3>3
    <3>. QED
      BY <1>0, <1>1, <2>1, <2>2, <3>4 DEF MemoryFollowsFiles, CacheInv
  <2>. QED
    BY <2>3, <2>4
<1>. QED
  BY <1>4, <1>5

LEMMA CacheInitInv == CacheInit => CacheInv
<1>. QED
  BY AbsentIsNoFile DEF CacheInit, CacheInv, CacheTypeOK, MemoryFollowsFiles

LEMMA CacheNextInv == CacheInv /\ [CacheNext]_cacheVars => CacheInv'
<1>. SUFFICES ASSUME CacheInv, [CacheNext]_cacheVars PROVE CacheInv'
  OBVIOUS
<1>. USE AbsentIsNoFile DEF CacheInv
<1>1. CASE Tick
  BY <1>1 DEF Tick, CacheTypeOK, MemoryFollowsFiles, LocalFile, InMemoryCached
<1>2. ASSUME NEW k \in Keys, NEW content \in Contents \cup {Absent},
             ChangeSource(k, content)
      PROVE  CacheInv'
  BY <1>2 DEF ChangeSource, CacheTypeOK, MemoryFollowsFiles
<1>3. ASSUME NEW k \in Keys, NEW content \in Contents, ChangeLocal(k, content)
      PROVE  CacheInv'
  <2>. DEFINE file == [content |-> content, writeTime |-> now]
  <2>1. file \in LocalFile
    BY DEF CacheTypeOK, LocalFile
  <2>2. CacheTypeOK'
    BY <1>3, <2>1 DEF ChangeLocal, CacheTypeOK, LocalFile
  <2>3. mem[k] # Absent => mem[k].timestamp \in Nat /\ now \in Nat
    BY DEF CacheTypeOK, InMemoryCached
  <2>4. MemoryFollowsFiles'
    BY <1>3, <2>3 DEF ChangeLocal, CacheTypeOK, MemoryFollowsFiles
  <2>. QED
    BY <2>2, <2>4
<1>4. ASSUME NEW k \in Keys, RemoveLocal(k) PROVE CacheInv'
  BY <1>4 DEF RemoveLocal, CacheTypeOK, MemoryFollowsFiles
<1>5. CASE LoseMemory
  BY <1>5 DEF LoseMemory, CacheTypeOK, MemoryFollowsFiles
<1>6. CASE UNCHANGED cacheVars
  BY <1>6 DEF cacheVars, CacheTypeOK, MemoryFollowsFiles
<1>. QED
  BY <1>1, <1>2, <1>3, <1>4, <1>5, <1>6, FindKeepsCacheInv DEF CacheNext

LEMMA CacheInvariance == CacheSpec => []CacheInv
<1>. QED
  BY CacheInitInv, CacheNextInv, PTL DEF CacheSpec

(* Files and entries are well-formed and never dated in the future.        *)
THEOREM CacheTypeCorrectness == CacheSpec => []CacheTypeOK
<1>1. CacheInv => CacheTypeOK
  BY DEF CacheInv
<1>. QED
  BY CacheInvariance, <1>1, PTL

(* Cml::findInCache never serves an old script from memory, unless its     *)
(* file was written again in the tick it was read in: "check if file has   *)
(* been updated".                                                          *)
THEOREM MemoryIsFresh ==
  ASSUME EpochGap = 0
  PROVE  CacheSpec => []StaleOnlyWithinATick
<1>1. CacheInv => StaleOnlyWithinATick
  <2>. SUFFICES ASSUME CacheInv, NEW k \in Keys, AnsweredFromMemory(k)
                PROVE  \/ Found(k) = LookedUp(k).content
                       \/ LookedUp(k).writeTime = mem[k].timestamp
    BY DEF StaleOnlyWithinATick
  <2>1. LookedUp(k) # Absent /\ mem[k] # Absent
    BY DEF AnsweredFromMemory, FileIsThereAndUpToDate
  <2>2. /\ LookedUp(k).writeTime \in Nat
        /\ mem[k].timestamp \in Nat /\ mem[k].timestamp <= now /\ now \in Nat
    BY <2>1, LookedUpIsAFile DEF CacheInv, CacheTypeOK, LocalFile, InMemoryCached
  <2>3. LookedUp(k).writeTime <= mem[k].timestamp
    BY <2>2 DEF AnsweredFromMemory, FileIsThereAndUpToDate
  <2>4. Found(k) = mem[k].content
    BY DEF Found
  <2>5. CASE IsInLocalStorage(k)
    <3>1. LookedUp(k) = local[k]
      BY <2>5 DEF LookedUp
    <3>. QED
      BY <2>1, <2>3, <2>4, <3>1 DEF CacheInv, MemoryFollowsFiles
  <2>6. CASE ~IsInLocalStorage(k)
    <3>1. LookedUp(k).writeTime = now
      BY <2>1, <2>6 DEF LookedUp, CreateFileInLocalStorage
    <3>. QED
      BY <2>2, <2>3, <3>1
  <2>. QED
    BY <2>5, <2>6
<1>. QED
  BY CacheInvariance, <1>1, PTL

-----------------------------------------------------------------------------
(* The draw of a contender: what its two folds compute.                    *)

(* The sum of the chances, entry by entry.                                 *)
LEMMA TotalGoesOn ==
  ASSUME NEW entries \in Seq(ReadEntry), NEW d \in Difficulties
  PROVE  \E total \in [0..Len(entries) -> Nat] :
           /\ total[0] = 0
           /\ \A k \in 0..(Len(entries) - 1) :
                total[k + 1] = total[k] + entries[k + 1].chance[d]
           /\ TotalChance(entries, d) = total[Len(entries)]
<1>. DEFINE n == Len(entries)
            T == Nat
            With(sum, e) == sum + e.chance[d]
            op == [pair \in T \X (1..n) |-> With(pair[1], entries[pair[2]])]
            Body(iter) ==
              [S \in SUBSET DOMAIN entries |->
                 IF S = {} THEN 0 ELSE With(iter[S \ {Max(S)}], entries[Max(S)])]
            found == CHOOSE iter : iter = Body(iter)
            total == [k \in 0..n |-> found[1..k]]
<1>1. n \in Nat /\ DOMAIN entries = 1..n /\ \A k \in 1..n : entries[k] \in ReadEntry
  OBVIOUS
<1>2. 0 \in T /\ \A t \in T, k \in 1..n : With(t, entries[k]) \in T
  BY <1>1 DEF ReadEntry
<1>. HIDE DEF T, With
<1>3. op \in [T \X (1..n) -> T]
  BY <1>2
<1>4. PICK fold \in [SUBSET (1..n) -> T] : IsSequenceFold(fold, n, 0, op)
  <2>. HIDE DEF op, n
  <2>. QED
    BY <1>1, <1>2, <1>3, SequenceFoldExists
<1>5. fold = Body(fold)
  <2>1. ASSUME NEW S \in SUBSET (1..n), S # {}
        PROVE  fold[S] = With(fold[S \ {Max(S)}], entries[Max(S)])
    <3>1. Max(S) \in 1..n /\ S \ {Max(S)} \in SUBSET (1..n)
      BY <1>1, <2>1, GreatestNumber
    <3>2. <<fold[S \ {Max(S)}], Max(S)>> \in T \X (1..n)
      BY <3>1
    <3>3. fold[S] = op[<<fold[S \ {Max(S)}], Max(S)>>]
      BY <1>4, <2>1 DEF IsSequenceFold
    <3>. QED
      BY <3>2, <3>3
  <2>2. fold[{}] = 0
    BY <1>4 DEF IsSequenceFold
  <2>. HIDE DEF op
  <2>. QED
    BY <1>1, <2>1, <2>2
<1>6. found = Body(found)
  <2>. HIDE DEF Body
  <2>. QED
    BY <1>5
<1>7. TotalChance(entries, d) = found[DOMAIN entries]
  BY Zenon DEF TotalChance, FoldLeft, MapThenFoldSet, With
<1>. HIDE DEF found
<1>8. ASSUME NEW S \in SUBSET (1..n), S # {}
      PROVE  found[S] = With(found[S \ {Max(S)}], entries[Max(S)])
  BY <1>1, <1>6, <1>8
<1>9. total[0] = 0
  <2>1. 1..0 = {} /\ 0 \in 0..n
    BY <1>1
  <2>. QED
    BY <1>1, <1>6, <2>1
<1>10. ASSUME NEW k \in 0..(n - 1) PROVE total[k + 1] = With(total[k], entries[k + 1])
  <2>1. /\ 1..(k + 1) \in (SUBSET (1..n)) \ {{}}
        /\ Max(1..(k + 1)) = k + 1
        /\ (1..(k + 1)) \ {k + 1} = 1..k
    BY <1>1, SequenceFoldSteps
  <2>2. found[1..(k + 1)] = With(found[1..k], entries[k + 1])
    BY <1>8, <2>1
  <2>. QED
    BY <1>1, <2>2
<1>11. TotalChance(entries, d) = total[n]
  BY <1>1, <1>7
<1>12. total \in [0..n -> T]
  <2>. DEFINE typed == {k \in Nat : k <= n => total[k] \in T}
  <2>1. 0 \in typed
    BY <1>2, <1>9
  <2>2. ASSUME NEW k \in Nat, k \in typed PROVE k + 1 \in typed
    <3>. SUFFICES ASSUME k + 1 <= n PROVE total[k + 1] \in T
      OBVIOUS
    <3>1. k \in 0..(n - 1) /\ k + 1 \in 1..n /\ k <= n
      BY <1>1
    <3>2. total[k] \in T
      BY <2>2, <3>1
    <3>. HIDE DEF total, n
    <3>. QED
      BY <1>2, <1>10, <3>1, <3>2
  <2>3. Nat \subseteq typed
    <3>. HIDE DEF typed
    <3>. QED
      BY <2>1, <2>2, SetInduction
  <2>4. ASSUME NEW k \in 0..n PROVE total[k] \in T
    <3>1. k \in Nat /\ k <= n
      BY <1>1
    <3>. HIDE DEF total, n
    <3>. QED
      BY <2>3, <3>1
  <2>. QED
    BY <2>4
<1>. HIDE DEF total
<1>. QED
  BY <1>9, <1>10, <1>11, <1>12 DEF With, T

(* What the boundaries are made from, entry by entry.                      *)
Added(former, chance, n) ==
  [val |-> former.val + chance,
   bm |-> InsertBoundary(former.bm, former.val + chance, n)]

BoundaryMaps(n) == UNION {[D -> 1..n] : D \in SUBSET Nat}

LEMMA AddedParts ==
  ASSUME NEW former, NEW chance, NEW n
  PROVE  /\ Added(former, chance, n).val = former.val + chance
         /\ Added(former, chance, n).bm = InsertBoundary(former.bm, former.val + chance, n)
<1>. QED
  BY DEF Added

LEMMA BoundaryMapParts ==
  ASSUME NEW n, NEW bm \in BoundaryMaps(n)
  PROVE  DOMAIN bm \subseteq Nat /\ \A b \in DOMAIN bm : bm[b] \in 1..n
<1>. QED
  BY DEF BoundaryMaps

LEMMA InsertedIsBoundaryMap ==
  ASSUME NEW n \in Nat, NEW bm \in BoundaryMaps(n), NEW index \in Nat, NEW k \in 1..n
  PROVE  /\ InsertBoundary(bm, index, k) \in BoundaryMaps(n)
         /\ \E b \in DOMAIN InsertBoundary(bm, index, k) : b >= index
<1>1. DOMAIN bm \subseteq Nat /\ \A b \in DOMAIN bm : bm[b] \in 1..n
  BY BoundaryMapParts
<1>2. ASSUME NEW b \in Nat PROVE /\ WithBoundary(bm, b, k) \in BoundaryMaps(n)
                                 /\ b \in DOMAIN WithBoundary(bm, b, k)
  <2>. DEFINE D == DOMAIN bm \cup {b}
  <2>1. WithBoundary(bm, b, k) \in [D -> 1..n]
    BY <1>1 DEF WithBoundary
  <2>2. D \in SUBSET Nat
    BY <1>1
  <2>3. b \in DOMAIN WithBoundary(bm, b, k)
    BY DEF WithBoundary
  <2>. HIDE DEF D
  <2>. QED
    BY <2>1, <2>2, <2>3 DEF BoundaryMaps
<1>3. CASE Boundaries(bm, index) = {}
  <2>1. InsertBoundary(bm, index, k) = WithBoundary(bm, index, k)
    BY <1>3 DEF InsertBoundary
  <2>. QED
    BY <1>2, <2>1
<1>4. CASE Boundaries(bm, index) # {}
  <2>1. InsertBoundary(bm, index, k) = WithBoundary(bm, Get(bm, index) + 1, k)
    BY <1>4 DEF InsertBoundary
  <2>2. Get(bm, index) \in Boundaries(bm, index)
    BY <1>1, <1>4, LeastIsMin DEF Get, Boundaries
  <2>3. Get(bm, index) + 1 \in Nat /\ Get(bm, index) + 1 >= index
    BY <1>1, <2>2 DEF Boundaries
  <2>. QED
    BY <1>2, <1>4, <2>1, <2>3
<1>. QED
  BY <1>3, <1>4

LEMMA BoundariesGoOn ==
  ASSUME NEW entries \in Seq(ReadEntry), NEW d \in Difficulties
  PROVE  \E made \in [0..Len(entries) -> [val : Nat, bm : BoundaryMaps(Len(entries))]] :
           /\ made[0] = [val |-> 0, bm |-> << >>]
           /\ \A k \in 0..(Len(entries) - 1) :
                made[k + 1] = Added(made[k], entries[k + 1].chance[d], k + 1)
           /\ MakeContenderRngBoundaryMap(entries, d) = made[Len(entries)].bm
<1>. DEFINE n == Len(entries)
            T == [val : Nat, bm : BoundaryMaps(n)]
            base == [val |-> 0, bm |-> << >>]
            ranks == [i \in DOMAIN entries |-> i]
            With(former, k) == Added(former, entries[k].chance[d], k)
            op == [pair \in T \X (1..n) |-> With(pair[1], pair[2])]
            Body(iter) ==
              [S \in SUBSET DOMAIN ranks |->
                 IF S = {} THEN base ELSE With(iter[S \ {Max(S)}], ranks[Max(S)])]
            found == CHOOSE iter : iter = Body(iter)
            made == [k \in 0..n |-> found[1..k]]
<1>1. n \in Nat /\ DOMAIN entries = 1..n /\ \A k \in 1..n : entries[k] \in ReadEntry
  OBVIOUS
<1>0. DOMAIN ranks = 1..n /\ \A k \in 1..n : ranks[k] = k
  BY <1>1
<1>2. /\ base \in T
      /\ \A t \in T, k \in 1..n : With(t, k) \in T
  <2>1. << >> \in BoundaryMaps(n)
    <3>1. << >> \in [{} -> 1..n] /\ {} \in SUBSET Nat
      OBVIOUS
    <3>. QED
      BY <3>1 DEF BoundaryMaps
  <2>2. ASSUME NEW t \in T, NEW k \in 1..n PROVE With(t, k) \in T
    <3>. DEFINE val == t.val + entries[k].chance[d]
    <3>1. val \in Nat /\ t.bm \in BoundaryMaps(n)
      BY <1>1 DEF ReadEntry
    <3>. HIDE DEF n
    <3>2. InsertBoundary(t.bm, val, k) \in BoundaryMaps(n)
      <4>. HIDE DEF val
      <4>. QED
        BY <1>1, <3>1, InsertedIsBoundaryMap
    <3>. QED
      BY <3>1, <3>2 DEF Added
  <2>. QED
    BY <2>1, <2>2
<1>7. MakeContenderRngBoundaryMap(entries, d) = found[DOMAIN ranks].bm
  BY Zenon DEF MakeContenderRngBoundaryMap, FoldLeftDomain, FoldLeft, MapThenFoldSet, Added
<1>. HIDE DEF T, With, ranks, base
<1>3. op \in [T \X (1..n) -> T]
  BY <1>2
<1>4. PICK fold \in [SUBSET (1..n) -> T] : IsSequenceFold(fold, n, base, op)
  <2>. HIDE DEF op, n
  <2>. QED
    BY <1>1, <1>2, <1>3, SequenceFoldExists
<1>5. fold = Body(fold)
  <2>1. ASSUME NEW S \in SUBSET (1..n), S # {}
        PROVE  fold[S] = With(fold[S \ {Max(S)}], ranks[Max(S)])
    <3>1. Max(S) \in 1..n /\ S \ {Max(S)} \in SUBSET (1..n)
      BY <1>1, <2>1, GreatestNumber
    <3>2. <<fold[S \ {Max(S)}], Max(S)>> \in T \X (1..n)
      BY <3>1
    <3>3. fold[S] = op[<<fold[S \ {Max(S)}], Max(S)>>]
      BY <1>4, <2>1 DEF IsSequenceFold
    <3>. QED
      BY <1>0, <3>1, <3>2, <3>3
  <2>2. fold[{}] = base
    BY <1>4 DEF IsSequenceFold
  <2>. HIDE DEF op
  <2>. QED
    BY <1>0, <2>1, <2>2
<1>6. found = Body(found)
  <2>. HIDE DEF Body
  <2>. QED
    BY <1>5
<1>. HIDE DEF found
<1>8. ASSUME NEW S \in SUBSET (1..n), S # {}
      PROVE  found[S] = With(found[S \ {Max(S)}], ranks[Max(S)])
  BY <1>0, <1>6, <1>8
<1>9. made[0] = base
  <2>1. 1..0 = {} /\ 0 \in 0..n
    BY <1>1
  <2>. QED
    BY <1>0, <1>6, <2>1
<1>10. ASSUME NEW k \in 0..(n - 1) PROVE made[k + 1] = With(made[k], k + 1)
  <2>1. /\ 1..(k + 1) \in (SUBSET (1..n)) \ {{}}
        /\ Max(1..(k + 1)) = k + 1
        /\ (1..(k + 1)) \ {k + 1} = 1..k
    BY <1>1, SequenceFoldSteps
  <2>2. found[1..(k + 1)] = With(found[1..k], ranks[k + 1])
    BY <1>8, <2>1
  <2>3. ranks[k + 1] = k + 1
    BY <1>0, <1>1
  <2>. QED
    BY <1>1, <2>2, <2>3
<1>11. MakeContenderRngBoundaryMap(entries, d) = made[n].bm
  BY <1>0, <1>1, <1>7
<1>12. made \in [0..n -> T]
  <2>. DEFINE typed == {k \in Nat : k <= n => made[k] \in T}
  <2>1. 0 \in typed
    BY <1>2, <1>9
  <2>2. ASSUME NEW k \in Nat, k \in typed PROVE k + 1 \in typed
    <3>. SUFFICES ASSUME k + 1 <= n PROVE made[k + 1] \in T
      OBVIOUS
    <3>1. k \in 0..(n - 1) /\ k + 1 \in 1..n /\ k <= n
      BY <1>1
    <3>2. made[k] \in T
      BY <2>2, <3>1
    <3>. HIDE DEF made, n
    <3>. QED
      BY <1>2, <1>10, <3>1, <3>2
  <2>3. Nat \subseteq typed
    <3>. HIDE DEF typed
    <3>. QED
      BY <2>1, <2>2, SetInduction
  <2>4. ASSUME NEW k \in 0..n PROVE made[k] \in T
    <3>1. k \in Nat /\ k <= n
      BY <1>1
    <3>. HIDE DEF made, n
    <3>. QED
      BY <2>3, <3>1
  <2>. QED
    BY <2>4
<1>. HIDE DEF made
<1>. QED
  BY <1>9, <1>10, <1>11, <1>12 DEF With, T, base

(* The sums of the chances up to each entry are what the boundaries are    *)
(* made from; the last is the sum of all.                                  *)
LEMMA BoundariesFollowTheSums ==
  ASSUME NEW entries \in Seq(ReadEntry), NEW d \in Difficulties
  PROVE  \E total \in [0..Len(entries) -> Nat],
            made \in [0..Len(entries) -> [val : Nat, bm : BoundaryMaps(Len(entries))]] :
           /\ total[0] = 0
           /\ made[0] = [val |-> 0, bm |-> << >>]
           /\ \A k \in 0..(Len(entries) - 1) :
                /\ total[k + 1] = total[k] + entries[k + 1].chance[d]
                /\ made[k + 1].bm = InsertBoundary(made[k].bm, total[k + 1], k + 1)
           /\ TotalChance(entries, d) = total[Len(entries)]
           /\ MakeContenderRngBoundaryMap(entries, d) = made[Len(entries)].bm
<1>. DEFINE n == Len(entries)
<1>1. n \in Nat
  OBVIOUS
<1>2. PICK total \in [0..n -> Nat] :
        /\ total[0] = 0
        /\ \A k \in 0..(n - 1) : total[k + 1] = total[k] + entries[k + 1].chance[d]
        /\ TotalChance(entries, d) = total[n]
  BY TotalGoesOn
<1>3. PICK made \in [0..n -> [val : Nat, bm : BoundaryMaps(n)]] :
        /\ made[0] = [val |-> 0, bm |-> << >>]
        /\ \A k \in 0..(n - 1) :
             made[k + 1] = Added(made[k], entries[k + 1].chance[d], k + 1)
        /\ MakeContenderRngBoundaryMap(entries, d) = made[n].bm
  BY BoundariesGoOn
<1>. HIDE DEF n
<1>. DEFINE same == {k \in Nat : k <= n => made[k].val = total[k]}
<1>4. Nat \subseteq same
  <2>1. 0 \in same
    BY <1>2, <1>3
  <2>2. ASSUME NEW k \in Nat, k \in same PROVE k + 1 \in same
    <3>. SUFFICES ASSUME k + 1 <= n PROVE made[k + 1].val = total[k + 1]
      OBVIOUS
    <3>1. k \in 0..(n - 1) /\ made[k].val = total[k]
      BY <1>1, <2>2
    <3>2. made[k + 1].val = made[k].val + entries[k + 1].chance[d]
      BY <1>3, <3>1, AddedParts
    <3>3. total[k + 1] = total[k] + entries[k + 1].chance[d]
      BY <1>2, <3>1
    <3>. QED
      BY <3>1, <3>2, <3>3, Zenon
  <2>. HIDE DEF same
  <2>. QED
    BY <2>1, <2>2, SetInduction
<1>5. ASSUME NEW k \in 0..(n - 1)
      PROVE  made[k + 1].bm = InsertBoundary(made[k].bm, total[k + 1], k + 1)
  <2>1. k \in same /\ k <= n
    BY <1>1, <1>4
  <2>2. made[k].val = total[k]
    BY <2>1
  <2>3. total[k + 1] = total[k] + entries[k + 1].chance[d]
    BY <1>2
  <2>4. made[k + 1] = Added(made[k], entries[k + 1].chance[d], k + 1)
    BY <1>3
  <2>5. made[k + 1].bm = InsertBoundary(made[k].bm, made[k].val + entries[k + 1].chance[d], k + 1)
    BY <2>4, AddedParts
  <2>. QED
    BY <2>2, <2>3, <2>5, Zenon
<1>. QED
  <2>1. \A k \in 0..(n - 1) :
          /\ total[k + 1] = total[k] + entries[k + 1].chance[d]
          /\ made[k + 1].bm = InsertBoundary(made[k].bm, total[k + 1], k + 1)
    BY <1>2, <1>5
  <2>. QED
    BY <1>2, <1>3, <2>1, Zenon DEF n

(* Each value up to the sum of the chances draws an entry.                 *)
LEMMA ValueDrawsAnEntry ==
  ASSUME NEW entries \in Seq(ReadEntry), NEW d \in Difficulties,
         TotalChance(entries, d) = Percent, NEW value \in 0..Percent
  PROVE  /\ Boundaries(MakeContenderRngBoundaryMap(entries, d), value) # {}
         /\ Drawn(MakeContenderRngBoundaryMap(entries, d), value) \in DOMAIN entries
<1>. DEFINE n == Len(entries)
            bm == MakeContenderRngBoundaryMap(entries, d)
<1>1. n \in Nat /\ DOMAIN entries = 1..n
  OBVIOUS
<1>2. PICK total \in [0..n -> Nat], made \in [0..n -> [val : Nat, bm : BoundaryMaps(n)]] :
        /\ total[0] = 0
        /\ \A k \in 0..(n - 1) :
             /\ total[k + 1] = total[k] + entries[k + 1].chance[d]
             /\ made[k + 1].bm = InsertBoundary(made[k].bm, total[k + 1], k + 1)
        /\ TotalChance(entries, d) = total[n]
        /\ bm = made[n].bm
  BY BoundariesFollowTheSums
<1>. HIDE DEF n, bm
<1>3. n # 0 /\ Percent \in Nat
  BY <1>2, PitBuildingAssumption
<1>4. \E b \in DOMAIN bm : b >= Percent
  <2>. DEFINE last == n - 1
  <2>1. last \in 0..(n - 1) /\ last \in 0..n /\ last + 1 = n /\ n \in 1..n
    BY <1>1, <1>3
  <2>2. bm = InsertBoundary(made[last].bm, Percent, n)
    <3>. HIDE DEF last
    <3>. QED
      BY <1>2, <2>1
  <2>3. made[last].bm \in BoundaryMaps(n)
    <3>. HIDE DEF last
    <3>. QED
      BY <1>2, <2>1
  <2>. QED
    BY <1>1, <1>3, <2>1, <2>2, <2>3, InsertedIsBoundaryMap
<1>5. DOMAIN bm \subseteq Nat /\ \A b \in DOMAIN bm : bm[b] \in 1..n
  <2>1. bm \in BoundaryMaps(n)
    BY <1>1, <1>2
  <2>. QED
    BY <2>1, BoundaryMapParts
<1>6. Boundaries(bm, value) # {} /\ Boundaries(bm, value) \subseteq DOMAIN bm
  BY <1>3, <1>4, <1>5 DEF Boundaries
<1>7. Get(bm, value) \in Boundaries(bm, value)
  BY <1>5, <1>6, LeastIsMin DEF Get
<1>8. Drawn(bm, value) \in DOMAIN entries
  BY <1>1, <1>5, <1>6, <1>7 DEF Drawn
<1>. QED
  BY <1>6, <1>8 DEF bm

(* BoundaryMap::get: in every zone of a configuration that is accepted,    *)
(* each value a draw may give is that of a contender.                      *)
THEOREM EveryDrawFindsAContender == Spec => []EveryValueDrawsAContender
<1>1. EveryValueDrawsAContender
  <2>. SUFFICES ASSUME NEW c \in Accepted, NEW z \in Zones(c), NEW d \in Difficulties,
                       NEW value \in 0..Percent
                PROVE  ValueDraws(c, z, d, value)
    BY DEF EveryValueDrawsAContender, AllAcceptedDraw
  <2>1. EntriesOf(c, z) \in Seq(ReadEntry) /\ TotalChance(EntriesOf(c, z), d) = Percent
    BY PitBuildingAssumption
       DEF Accepted, ReadConfig, ValidateEncounterContext, EntriesOf, Zones
  <2>. QED
    BY <2>1, ValueDrawsAnEntry DEF ValueDraws
<1>. QED
  BY <1>1, PTL

(* Without an entry of no chance, the boundaries are the sums of the       *)
(* chances, which grow.                                                    *)
LEMMA BoundariesAreTheSums ==
  ASSUME NEW entries \in Seq(ReadEntry), NEW d \in Difficulties,
         \A k \in 1..Len(entries) : entries[k].chance[d] > 0
  PROVE  \E total \in [0..Len(entries) -> Nat] :
           /\ total[0] = 0
           /\ \A k \in 0..(Len(entries) - 1) :
                total[k + 1] = total[k] + entries[k + 1].chance[d]
           /\ \A j, k \in 0..Len(entries) : j < k => total[j] < total[k]
           /\ TotalChance(entries, d) = total[Len(entries)]
           /\ DOMAIN MakeContenderRngBoundaryMap(entries, d)
                = {total[j] : j \in 1..Len(entries)}
           /\ \A j \in 1..Len(entries) :
                MakeContenderRngBoundaryMap(entries, d)[total[j]] = j
<1>. DEFINE n == Len(entries)
            final == MakeContenderRngBoundaryMap(entries, d)
<1>1. n \in Nat /\ DOMAIN entries = 1..n
      /\ \A k \in 1..n : entries[k].chance[d] \in Nat /\ entries[k].chance[d] > 0
  <2>1. n \in Nat /\ DOMAIN entries = 1..n /\ \A k \in 1..n : entries[k] \in ReadEntry
    OBVIOUS
  <2>2. \A k \in 1..n : entries[k].chance[d] > 0
    OBVIOUS
  <2>. HIDE DEF n
  <2>. QED
    BY <2>1, <2>2 DEF ReadEntry
<1>2. PICK total \in [0..n -> Nat], made \in [0..n -> [val : Nat, bm : BoundaryMaps(n)]] :
        /\ total[0] = 0
        /\ made[0] = [val |-> 0, bm |-> << >>]
        /\ \A k \in 0..(n - 1) :
             /\ total[k + 1] = total[k] + entries[k + 1].chance[d]
             /\ made[k + 1].bm = InsertBoundary(made[k].bm, total[k + 1], k + 1)
        /\ TotalChance(entries, d) = total[n]
        /\ final = made[n].bm
  BY BoundariesFollowTheSums
<1>. HIDE DEF n, final
<1>3. \A j, k \in 0..n : j < k => total[j] < total[k]
  <2>. DEFINE above == {k \in Nat : k <= n => \A j \in 0..n : j < k => total[j] < total[k]}
  <2>1. 0 \in above
    OBVIOUS
  <2>2. ASSUME NEW k \in Nat, k \in above PROVE k + 1 \in above
    <3>. SUFFICES ASSUME k + 1 <= n, NEW j \in 0..n, j < k + 1
                  PROVE  total[j] < total[k + 1]
      OBVIOUS
    <3>1. k \in 0..(n - 1) /\ k \in 0..n /\ k + 1 \in 1..n
      BY <1>1
    <3>2. total[k + 1] > total[k]
      <4>1. total[k + 1] = total[k] + entries[k + 1].chance[d]
        BY <1>2, <3>1
      <4>2. total[k] \in Nat /\ entries[k + 1].chance[d] \in Nat \ {0}
        BY <1>1, <3>1
      <4>. QED
        BY <4>1, <4>2
    <3>3. total[j] \in Nat /\ total[k] \in Nat /\ total[k + 1] \in Nat
      BY <3>1, <1>1
    <3>4. total[j] < total[k] \/ j = k
      BY <2>2, <3>1
    <3>. QED
      BY <3>2, <3>3, <3>4
  <2>3. Nat \subseteq above
    <3>. HIDE DEF above
    <3>. QED
      BY <2>1, <2>2, SetInduction
  <2>4. ASSUME NEW k \in 0..n PROVE k \in above /\ k <= n
    <3>1. k \in Nat /\ k <= n
      BY <1>1
    <3>. HIDE DEF above
    <3>. QED
      BY <2>3, <3>1
  <2>5. ASSUME NEW j \in 0..n, NEW k \in 0..n, j < k PROVE total[j] < total[k]
    BY <2>4, <2>5
  <2>. QED
    BY <2>5
<1>. DEFINE Summed(map, k) == /\ DOMAIN map = {total[j] : j \in 1..k}
                              /\ \A j \in 1..k : map[total[j]] = j
            summed == {k \in Nat : k <= n => Summed(made[k].bm, k)}
<1>4. 0 \in summed
  <2>1. made[0].bm = << >>
    BY <1>2
  <2>2. DOMAIN << >> = {} /\ 1..0 = {}
    OBVIOUS
  <2>. QED
    BY <2>1, <2>2
<1>5. ASSUME NEW k \in Nat, k \in summed PROVE k + 1 \in summed
  <2>. SUFFICES ASSUME k + 1 <= n PROVE Summed(made[k + 1].bm, k + 1)
    OBVIOUS
  <2>. DEFINE sofar == made[k].bm
              index == total[k + 1]
  <2>1. k \in 0..(n - 1) /\ k \in 0..n /\ k + 1 \in 1..n /\ k + 1 \in 0..n
    BY <1>1
  <2>2. Summed(sofar, k)
    BY <1>5, <2>1
  <2>3. \A j \in 1..k : total[j] \in Nat /\ total[j] < index
    <3>1. \A j \in 1..k : j \in 0..n /\ j < k + 1
      BY <1>1, <2>1
    <3>. QED
      BY <1>3, <2>1, <3>1
  <2>4. index \in Nat /\ sofar \in BoundaryMaps(n)
    BY <2>1
  <2>5. made[k + 1].bm = InsertBoundary(sofar, index, k + 1)
    BY <1>2, <2>1
  <2>. HIDE DEF sofar, index
  <2>6. Boundaries(sofar, index) = {}
    <3>1. ASSUME NEW b \in DOMAIN sofar PROVE ~(b >= index)
      <4>1. PICK j \in 1..k : b = total[j]
        BY <2>2
      <4>2. b \in Nat /\ b < index
        BY <2>3, <4>1, Zenon
      <4>. HIDE DEF Summed
      <4>. QED
        BY <2>4, <4>2
    <3>. QED
      BY <3>1 DEF Boundaries
  <2>7. made[k + 1].bm = WithBoundary(sofar, index, k + 1)
    <3>1. InsertBoundary(sofar, index, k + 1) = WithBoundary(sofar, index, k + 1)
      BY <2>6 DEF InsertBoundary
    <3>. QED
      BY <2>5, <3>1
  <2>8. 1..(k + 1) = (1..k) \cup {k + 1}
    OBVIOUS
  <2>9. DOMAIN made[k + 1].bm = {total[j] : j \in 1..(k + 1)}
    <3>1. DOMAIN made[k + 1].bm = {total[j] : j \in 1..k} \cup {index}
      BY <2>2, <2>7 DEF WithBoundary
    <3>. QED
      BY <2>8, <3>1 DEF index
  <2>10. ASSUME NEW j \in 1..(k + 1) PROVE made[k + 1].bm[total[j]] = j
    <3>1. CASE j = k + 1
      BY <2>7, <3>1 DEF WithBoundary, index
    <3>2. CASE j \in 1..k
      <4>1. total[j] \in DOMAIN sofar /\ sofar[total[j]] = j /\ total[j] # index
        BY <2>2, <2>3, <2>4, <3>2
      <4>. QED
        BY <2>7, <4>1 DEF WithBoundary
    <3>. QED
      BY <2>8, <3>1, <3>2
  <2>. QED
    BY <2>9, <2>10
<1>6. Summed(final, n)
  <2>1. n \in summed /\ n <= n
    <3>1. Nat \subseteq summed
      <4>. HIDE DEF summed
      <4>. QED
        BY <1>4, <1>5, SetInduction
    <3>. HIDE DEF summed
    <3>. QED
      BY <1>1, <3>1
  <2>. HIDE DEF Summed
  <2>. QED
    BY <1>2, <2>1
<1>7. \A k \in 0..(n - 1) : total[k + 1] = total[k] + entries[k + 1].chance[d]
  BY <1>2
<1>. QED
  BY <1>2, <1>3, <1>6, <1>7, Zenon DEF n, final, Summed

(* An entry is drawn by the values above the sum of the chances before it, *)
(* up to the one that includes its own.                                    *)
LEMMA EntriesDrawnByTheirShare ==
  ASSUME NEW entries \in Seq(ReadEntry), NEW d \in Difficulties,
         TotalChance(entries, d) = Percent,
         \A k \in 1..Len(entries) : entries[k].chance[d] > 0,
         NEW rank \in 1..Len(entries)
  PROVE  Cardinality(
           {value \in 0..Percent :
              /\ Boundaries(MakeContenderRngBoundaryMap(entries, d), value) # {}
              /\ Drawn(MakeContenderRngBoundaryMap(entries, d), value) = rank})
           = entries[rank].chance[d] + (IF rank = 1 THEN 1 ELSE 0)
<1>. DEFINE n == Len(entries)
            bm == MakeContenderRngBoundaryMap(entries, d)
            drawing == {value \in 0..Percent :
                          Boundaries(bm, value) # {} /\ Drawn(bm, value) = rank}
            chance == entries[rank].chance[d]
            former == rank - 1
<1>1. n \in Nat /\ chance \in Nat /\ former \in 0..(n - 1) /\ former + 1 = rank
      /\ former \in 0..n /\ rank \in 0..n /\ former < rank
  <2>1. n \in Nat /\ entries[rank] \in ReadEntry
    OBVIOUS
  <2>. QED
    BY <2>1 DEF ReadEntry
<1>2. PICK total \in [0..n -> Nat] :
        /\ total[0] = 0
        /\ \A k \in 0..(n - 1) : total[k + 1] = total[k] + entries[k + 1].chance[d]
        /\ \A j, k \in 0..n : j < k => total[j] < total[k]
        /\ TotalChance(entries, d) = total[n]
        /\ DOMAIN bm = {total[j] : j \in 1..n}
        /\ \A j \in 1..n : bm[total[j]] = j
  BY BoundariesAreTheSums
<1>. DEFINE low == IF rank = 1 THEN 0 ELSE total[former] + 1
            high == total[rank]
<1>3. high = total[former] + chance /\ total[former] \in Nat
  <2>1. total[former + 1] = total[former] + entries[former + 1].chance[d]
    BY <1>1, <1>2
  <2>. QED
    BY <1>1, <2>1
<1>. HIDE DEF n, chance, former, bm
<1>4. high <= Percent /\ high \in Nat /\ Percent = total[n] /\ Percent \in Nat
  <2>1. rank \in 0..n /\ n \in 0..n /\ (rank < n \/ rank = n)
    BY <1>1 DEF n
  <2>2. total[rank] < total[n] \/ rank = n
    BY <1>2, <2>1
  <2>3. total[rank] \in Nat /\ total[n] \in Nat
    BY <2>1
  <2>. QED
    BY <1>2, <2>2, <2>3
<1>5. ASSUME NEW value \in 0..Percent
      PROVE  /\ Boundaries(bm, value) # {}
             /\ Drawn(bm, value) = rank <=> value \in low..high
  <2>1. DOMAIN bm \in SUBSET Nat
    <3>1. \A j \in 1..n : j \in 0..n
      BY <1>1
    <3>. QED
      BY <1>2, <3>1
  <2>2. n \in 1..n
    BY <1>1
  <2>3. total[n] \in Boundaries(bm, value)
    BY <1>2, <1>4, <2>2 DEF Boundaries
  <2>4. Boundaries(bm, value) \in SUBSET Nat /\ Boundaries(bm, value) # {}
    BY <2>1, <2>3 DEF Boundaries
  <2>5. /\ Get(bm, value) \in Boundaries(bm, value)
        /\ \A b \in Boundaries(bm, value) : Get(bm, value) <= b
    BY <2>4, LeastIsMin DEF Get
  <2>6. PICK i \in 1..n : Get(bm, value) = total[i]
    BY <1>2, <2>5 DEF Boundaries
  <2>7. Drawn(bm, value) = i
    BY <1>2, <2>6 DEF Drawn
  <2>8. value <= total[i]
    BY <2>5, <2>6 DEF Boundaries
  <2>9. ASSUME NEW m \in 1..n, value <= total[m] PROVE total[i] <= total[m]
    BY <1>2, <2>5, <2>6, <2>9 DEF Boundaries
  <2>10. i \in 0..n /\ total[i] \in Nat /\ total[rank] \in Nat /\ rank \in 1..n
         /\ value \in Nat
    <3>1. i \in 0..n /\ rank \in 0..n
      BY <1>1
    <3>. QED
      BY <1>1, <3>1 DEF n
  <2>11. ASSUME i = rank PROVE value \in low..high
    <3>1. CASE rank = 1
      BY <1>4, <2>8, <2>10, <2>11, <3>1
    <3>2. CASE rank # 1
      <4>1. former \in 1..n
        BY <1>1, <2>10, <3>2 DEF former
      <4>2. total[former] < total[rank]
        BY <1>1, <1>2
      <4>3. ~(value <= total[former])
        <5>1. value <= total[former] => total[i] <= total[former]
          BY <2>9, <4>1
        <5>. QED
          BY <1>3, <2>10, <2>11, <4>2, <5>1
      <4>. QED
        BY <1>3, <2>8, <2>10, <2>11, <3>2, <4>3
    <3>. QED
      BY <3>1, <3>2
  <2>12. ASSUME value \in low..high PROVE i = rank
    <3>1. total[i] <= total[rank]
      BY <1>4, <2>9, <2>10, <2>12
    <3>2. ~(rank < i)
      <4>1. rank < i => total[rank] < total[i]
        BY <1>1, <1>2, <2>10
      <4>. QED
        BY <2>10, <3>1, <4>1
    <3>3. ~(i < rank)
      <4>. SUFFICES ASSUME i < rank PROVE FALSE
        OBVIOUS
      <4>1. rank # 1 /\ (i < former \/ i = former)
        BY <2>10 DEF former
      <4>2. i < former => total[i] < total[former]
        BY <1>1, <1>2, <2>10
      <4>3. total[former] + 1 <= value
        BY <1>3, <1>4, <2>12, <4>1
      <4>. QED
        BY <1>3, <2>8, <2>10, <4>1, <4>2, <4>3
    <3>. QED
      BY <2>10, <3>2, <3>3
  <2>. QED
    BY <2>4, <2>7, <2>11, <2>12
<1>6. drawing = low..high
  <2>1. low \in Nat
    BY <1>3
  <2>. HIDE DEF low, high
  <2>2. low..high \subseteq 0..Percent
    BY <1>4, <2>1
  <2>. QED
    BY <1>5, <2>2
<1>7. Cardinality(low..high) = chance + (IF rank = 1 THEN 1 ELSE 0)
  <2>1. low \in Int /\ high \in Int
    BY <1>3, <1>4
  <2>2. Cardinality(low..high) = IF low > high THEN 0 ELSE high - low + 1
    <3>. HIDE DEF low, high
    <3>. QED
      BY <2>1, FS_Interval
  <2>3. rank = 1 => total[former] = 0
    BY <1>2 DEF former
  <2>4. chance \in Nat
    BY <1>1
  <2>5. CASE rank = 1
    <3>1. low = 0 /\ high = chance
      BY <1>3, <2>3, <2>4, <2>5
    <3>. QED
      BY <2>2, <2>4, <2>5, <3>1
  <2>6. CASE rank # 1
    <3>1. low = total[former] + 1 /\ high = total[former] + chance
      BY <1>3, <2>6
    <3>. HIDE DEF low, high
    <3>2. low > high <=> chance = 0
      BY <1>3, <2>4, <3>1
    <3>3. high - low + 1 = chance
      BY <1>3, <2>4, <3>1
    <3>. QED
      BY <2>2, <2>4, <2>6, <3>2, <3>3
  <2>. QED
    BY <2>5, <2>6
<1>. QED
  BY <1>6, <1>7, Zenon DEF chance, bm

(* makeContenderRngBoundaryMap: the chances of a zone are those of its     *)
(* configuration, unless one is zero.                                      *)
THEOREM ChancesAreAlwaysKept == Spec => []ChancesAreKept
<1>1. ChancesAreKept
  <2>. SUFFICES ASSUME NEW c \in Accepted, NEW z \in Zones(c), NEW d \in Difficulties,
                       \A e \in Range(EntriesOf(c, z)) : e.chance[d] > 0
                PROVE  ChancesOf(c, z, d)
    BY DEF ChancesAreKept, AllAcceptedKeepChances
  <2>. DEFINE entries == EntriesOf(c, z)
              bm == MakeContenderRngBoundaryMap(entries, d)
  <2>1. entries \in Seq(ReadEntry) /\ TotalChance(entries, d) = Percent
    BY PitBuildingAssumption
       DEF Accepted, ReadConfig, ValidateEncounterContext, EntriesOf, Zones
  <2>. HIDE DEF entries
  <2>2. DOMAIN entries = 1..Len(entries)
    BY <2>1
  <2>3. \A k \in 1..Len(entries) : entries[k].chance[d] > 0
    BY <2>2 DEF Range, entries
  <2>. HIDE DEF bm
  <2>4. ASSUME NEW rank \in DOMAIN entries
        PROVE  Cardinality({value \in 0..Percent :
                              Boundaries(bm, value) # {} /\ Drawn(bm, value) = rank})
                 = entries[rank].chance[d] + (IF rank = 1 THEN 1 ELSE 0)
    <3>1. rank \in 1..Len(entries)
      BY <2>2
    <3>. QED
      BY <2>1, <2>3, <3>1, EntriesDrawnByTheirShare, Zenon DEF bm
  <2>. QED
    BY <2>4 DEF ChancesOf, entries, bm
<1>. QED
  BY <1>1, PTL

-----------------------------------------------------------------------------
(* The steps of the building.                                              *)

Stages == {"none", "refused", "base", "team", "contenders", "built", "failed"}

PitTypeOK ==
  /\ stage \in Stages
  /\ difficulty \in Difficulties
  /\ actions \in Seq(Keys)
  /\ left \in Nat
  /\ contenders \in Seq(Nat)
  /\ alive \in BOOLEAN
  /\ changes \in Nat
  /\ alive => ValidateEncounterContext(Config)
  /\ Building \/ stage = "built" => wsId \in Zones(Config)

(* generateContenders, of the entry of a given rank.                       *)
GeneratesRank(rank) ==
  LET key == EntriesOf(Config, wsId)[rank].key
      name == GetNameFromKey[key]
  IN  /\ alive
      /\ stage = "contenders"
      /\ left > 0
      /\ LoadContenderScript(key)
      /\ \/ /\ ~Constructs(name, classes')
            /\ alive' = FALSE
            /\ UNCHANGED <<stage, actions, left, contenders>>
         \/ /\ Constructs(name, classes')
            /\ ~SetsUp(name, classes')
            /\ AddContender(rank)
            /\ Idle("failed")
            /\ UNCHANGED alive
         \/ /\ Constructs(name, classes')
            /\ SetsUp(name, classes')
            /\ AddContender(rank)
            /\ left' = left - 1
            /\ UNCHANGED <<alive, stage, actions>>
      /\ UNCHANGED <<wsId, difficulty, changes>>

(* What is drawn is an entry of the zone.                                  *)
LEMMA DrawnIsAnEntry ==
  ASSUME PitTypeOK, NEW value \in GenerateInRange(0, Percent), GenerateContender(value)
  PROVE  \E rank \in DOMAIN EntriesOf(Config, wsId) :
           /\ rank \in Nat
           /\ EntriesOf(Config, wsId)[rank].key \in Keys
           /\ GeneratesRank(rank)
<1>. DEFINE entries == EntriesOf(Config, wsId)
            rank == Drawn(MakeContenderRngBoundaryMap(entries, difficulty), value)
<1>1. alive /\ stage = "contenders"
  BY DEF GenerateContender
<1>2. wsId \in Zones(Config) /\ ValidateEncounterContext(Config)
      /\ difficulty \in Difficulties
  BY <1>1 DEF PitTypeOK, Building
<1>3. entries \in Seq(ReadEntry) /\ TotalChance(entries, difficulty) = Percent
  BY <1>2, PitBuildingAssumption
     DEF ReadConfig, ValidateEncounterContext, EntriesOf, Zones
<1>4. GeneratesRank(rank)
  BY Zenon DEF GenerateContender, GeneratesRank, EntriesOf
<1>. HIDE DEF entries
<1>5. rank \in DOMAIN entries
  BY <1>2, <1>3, ValueDrawsAnEntry DEF GenerateInRange
<1>. HIDE DEF rank
<1>6. rank \in Nat /\ entries[rank] \in ReadEntry
  BY <1>3, <1>5
<1>7. entries[rank].key \in Keys
  BY <1>6 DEF ReadEntry
<1>. QED
  BY <1>4, <1>5, <1>6, <1>7 DEF entries

LEMMA InitType == Init => PitTypeOK
<1>. SUFFICES ASSUME Init PROVE PitTypeOK
  OBVIOUS
<1>1. alive \in BOOLEAN
  BY DEF Init, ValidateEncounterContext
<1>. QED
  BY <1>1 DEF Init, PitTypeOK, Stages, Building

LEMMA RankKeepsType ==
  ASSUME PitTypeOK, NEW rank \in Nat, GeneratesRank(rank)
  PROVE  PitTypeOK'
<1>. DEFINE name == GetNameFromKey[EntriesOf(Config, wsId)[rank].key]
<1>1. UNCHANGED <<wsId, difficulty, changes>>
  BY DEF GeneratesRank
<1>2. CASE alive' = FALSE /\ UNCHANGED <<stage, actions, left, contenders>>
  BY <1>1, <1>2 DEF PitTypeOK, Building
<1>3. CASE AddContender(rank) /\ Idle("failed") /\ UNCHANGED alive
  <2>1. contenders' \in Seq(Nat)
    BY <1>3 DEF AddContender, PitTypeOK
  <2>. QED
    BY <1>1, <1>3, <2>1 DEF PitTypeOK, Stages, Building, Idle
<1>4. CASE /\ stage = "contenders" /\ left > 0 /\ AddContender(rank)
           /\ left' = left - 1 /\ UNCHANGED <<alive, stage, actions>>
  <2>1. contenders' \in Seq(Nat) /\ left' \in Nat
    BY <1>4 DEF AddContender, PitTypeOK
  <2>. QED
    BY <1>1, <1>4, <2>1 DEF PitTypeOK, Building
<1>. QED
  BY <1>2, <1>3, <1>4 DEF GeneratesRank

LEMMA NextType ==
  ASSUME PitTypeOK, [Next]_vars
  PROVE  PitTypeOK'
<1>1. ASSUME NEW user \in Users, NEW ws \in WsIds, RefuseFightingPit(user, ws)
      PROVE  PitTypeOK'
  BY <1>1 DEF RefuseFightingPit, Idle, PitTypeOK, Stages, Building
<1>2. ASSUME NEW user \in Users, NEW ws \in WsIds, NEW level \in Levels,
             BuildFightingPit(user, ws, TranslateLevelFromFlatbuffer(level))
      PROVE  PitTypeOK'
  <2>1. TranslateLevelFromFlatbuffer(level) \in Difficulties
    BY PitBuildingAssumption DEF TranslateLevelFromFlatbuffer
  <2>. QED
    BY <1>2, <2>1, PitBuildingAssumption DEF BuildFightingPit, PitTypeOK, Stages
<1>3. CASE RegisterBaseAction
  <2>1. Tail(actions) \in Seq(Keys)
    BY <1>3 DEF RegisterBaseAction, PitTypeOK
  <2>. QED
    BY <1>3, <2>1 DEF RegisterBaseAction, PitTypeOK, Building
<1>4. CASE BaseActionsAreRegistered
  BY <1>4, PitBuildingAssumption
     DEF BaseActionsAreRegistered, PitTypeOK, Stages, Building
<1>5. CASE LoadAndRegisterAction
  <2>1. Tail(actions) \in Seq(Keys)
    BY <1>5 DEF LoadAndRegisterAction, PitTypeOK
  <2>2. actions' \in Seq(Keys)
    BY <1>5, <2>1 DEF LoadAndRegisterAction
  <2>. QED
    BY <1>5, <2>2 DEF LoadAndRegisterAction, PitTypeOK, Building
<1>6. CASE StartGeneratingContenders
  <2>. DEFINE range == Config.rangePerZone[wsId][difficulty]
  <2>1. CASE /\ wsId \in DOMAIN Config.rangePerZone
             /\ left' \in GenerateInRange(range[1], range[2])
             /\ stage' = "contenders"
             /\ UNCHANGED alive
    <3>1. range \in Nat \X Nat
      <4>1. Config.rangePerZone[wsId] \in [Difficulties -> Nat \X Nat]
        BY <2>1, PitBuildingAssumption DEF ReadConfig
      <4>. QED
        BY <4>1 DEF PitTypeOK
    <3>2. left' \in Nat
      BY <2>1, <3>1 DEF GenerateInRange
    <3>. QED
      BY <1>6, <2>1, <3>2 DEF StartGeneratingContenders, PitTypeOK, Stages, Building
  <2>2. CASE alive' = FALSE /\ UNCHANGED <<left, stage>>
    BY <1>6, <2>2 DEF StartGeneratingContenders, PitTypeOK, Building
  <2>. QED
    BY <1>6, <2>1, <2>2 DEF StartGeneratingContenders
<1>7. ASSUME NEW value \in GenerateInRange(0, Percent), GenerateContender(value)
      PROVE  PitTypeOK'
  BY <1>7, DrawnIsAnEntry, RankKeepsType
<1>8. CASE ContendersAreGenerated
  BY <1>8 DEF ContendersAreGenerated, Idle, PitTypeOK, Stages, Building
<1>9. CASE ChangeFiles
  BY <1>9 DEF ChangeFiles, PitTypeOK, Building
<1>10. CASE TimePasses
  BY <1>10 DEF TimePasses, buildVars, PitTypeOK, Building
<1>11. CASE Restart
  <2>1. alive' \in BOOLEAN
    BY <1>11 DEF Restart, ValidateEncounterContext
  <2>. QED
    BY <1>11, <2>1 DEF Restart, Idle, PitTypeOK, Stages, Building
<1>12. CASE UNCHANGED vars
  BY <1>12 DEF vars, buildVars, PitTypeOK, Building
<1>. QED
  BY <1>1, <1>2, <1>3, <1>4, <1>5, <1>6, <1>7, <1>8, <1>9, <1>10, <1>11, <1>12 DEF Next

(* The building of a pit uses the cache as it is specified: every step is  *)
(* one of the cache, or leaves it alone.                                   *)
LEMMA LoadingFindsOrLeaves ==
  ASSUME NEW key \in Keys, LoadContenderScript(key)
  PROVE  [CacheNext]_cacheVars
<1>. QED
  BY DEF LoadContenderScript, CacheNext

LEMMA StepsUseTheCache ==
  ASSUME PitTypeOK, [Next]_vars
  PROVE  [CacheNext]_cacheVars
<1>1. ASSUME NEW user \in Users, NEW ws \in WsIds, RefuseFightingPit(user, ws)
      PROVE  [CacheNext]_cacheVars
  BY <1>1 DEF RefuseFightingPit
<1>2. ASSUME NEW user, NEW ws, NEW d, BuildFightingPit(user, ws, d)
      PROVE  [CacheNext]_cacheVars
  BY <1>2 DEF BuildFightingPit
<1>3. CASE RegisterBaseAction
  <2>1. Head(actions) \in Keys /\ FindInCache(Head(actions))
    BY <1>3 DEF RegisterBaseAction, PitTypeOK
  <2>. QED
    BY <2>1 DEF CacheNext
<1>4. CASE BaseActionsAreRegistered
  BY <1>4 DEF BaseActionsAreRegistered
<1>5. CASE LoadAndRegisterAction
  <2>1. Head(actions) \in Keys /\ FindInCache(Head(actions))
    BY <1>5 DEF LoadAndRegisterAction, PitTypeOK
  <2>. QED
    BY <2>1 DEF CacheNext
<1>6. CASE StartGeneratingContenders
  BY <1>6 DEF StartGeneratingContenders
<1>7. ASSUME NEW value \in GenerateInRange(0, Percent), GenerateContender(value)
      PROVE  [CacheNext]_cacheVars
  <2>1. PICK rank : /\ EntriesOf(Config, wsId)[rank].key \in Keys
                    /\ GeneratesRank(rank)
    BY <1>7, DrawnIsAnEntry
  <2>. QED
    BY <2>1, LoadingFindsOrLeaves DEF GeneratesRank
<1>8. CASE ContendersAreGenerated
  BY <1>8 DEF ContendersAreGenerated
<1>9. CASE ChangeFiles
  BY <1>9 DEF ChangeFiles, CacheNext
<1>10. CASE TimePasses
  BY <1>10 DEF TimePasses, CacheNext
<1>11. CASE Restart
  BY <1>11 DEF Restart, CacheNext
<1>12. CASE UNCHANGED vars
  BY <1>12 DEF vars
<1>. QED
  BY <1>1, <1>2, <1>3, <1>4, <1>5, <1>6, <1>7, <1>8, <1>9, <1>10, <1>11, <1>12 DEF Next

(* Every variable of the building keeps its type; a process that runs has  *)
(* a configuration it accepts.                                             *)
THEOREM PitTypeCorrectness == Spec => []PitTypeOK
<1>. QED
  BY InitType, NextType, PTL DEF Spec

(* FightingPitAnnouncer and Cml: whatever is built, and whatever happens   *)
(* to the scripts meanwhile, the cache goes through the states it is       *)
(* specified to.                                                           *)
THEOREM BuildingUsesTheCache == Spec => CacheSpec
<1>1. Init => CacheInit
  BY DEF Init
<1>2. PitTypeOK /\ [Next]_vars => [CacheNext]_cacheVars
  BY StepsUseTheCache
<1>. QED
  BY PitTypeCorrectness, <1>1, <1>2, PTL DEF Spec, CacheSpec

(* No pit is built with a script that was served from memory and is older  *)
(* than its file, unless the file was written in the tick it was read in.  *)
THEOREM PitScriptsAreFresh ==
  ASSUME EpochGap = 0
  PROVE  Spec => []StaleOnlyWithinATick
<1>1. CacheSpec => []StaleOnlyWithinATick
  BY MemoryIsFresh
<1>. QED
  BY BuildingUsesTheCache, <1>1, PTL

-----------------------------------------------------------------------------
(* The contenders of a pit.                                                *)

(* A contender of a rank could be constructed and set up.                  *)
Fights(rank, zone, known) ==
  \E name \in {GetNameFromKey[EntriesOf(Config, zone)[rank].key]} :
    Constructs(name, known) /\ name \in DOMAIN known /\ SetsUp(name, known)

AllFight(ranks, zone, known) == \A n \in 1..Len(ranks) : Fights(ranks[n], zone, known)

(* While contenders are generated, those there are and those still to come *)
(* are as many as the zone allows.                                         *)
ContendersInv ==
  /\ stage \in {"base", "team"} => contenders = << >>
  /\ stage \in {"contenders", "built"} =>
       /\ wsId \in DOMAIN Config.rangePerZone
       /\ \E range \in {Config.rangePerZone[wsId][difficulty]} :
            Len(contenders) + left \in range[1]..range[2]
       /\ AllFight(contenders, wsId, classes)
  /\ stage = "built" => left = 0

(* A class is never forgotten while a pit is built, nor defined again.     *)
LEMMA ClassesOnlyGrow ==
  ASSUME NEW key, classes' = WithClassOf(key)
  PROVE  /\ DOMAIN classes \subseteq DOMAIN classes'
         /\ \A name \in DOMAIN classes : classes'[name] = classes[name]
         /\ Defines(Found(key)) => GetNameFromKey[key] \in DOMAIN classes'
<1>. DEFINE content == Found(key)
            new == GetNameFromKey[key]
<1>. HIDE DEF content, new
<1>1. classes' = IF Defines(content)
                 THEN [name \in DOMAIN classes \cup {new} |->
                         IF name \in DOMAIN classes THEN classes[name] ELSE content]
                 ELSE classes
  BY DEF WithClassOf, content, new
<1>2. CASE Defines(content)
  BY <1>1, <1>2 DEF content, new
<1>3. CASE ~Defines(content)
  BY <1>1, <1>3 DEF content
<1>. QED
  BY <1>2, <1>3

LEMMA LoadingOnlyAddsClasses ==
  ASSUME NEW key, LoadContenderScript(key)
  PROVE  /\ DOMAIN classes \subseteq DOMAIN classes'
         /\ \A name \in DOMAIN classes : classes'[name] = classes[name]
<1>1. CASE UNCHANGED <<cacheVars, classes, loaded>>
  BY <1>1
<1>2. CASE classes' = WithClassOf(key)
  BY <1>2, ClassesOnlyGrow
<1>. QED
  BY <1>1, <1>2 DEF LoadContenderScript

LEMMA FightersStay ==
  ASSUME NEW ranks, NEW zone, AllFight(ranks, zone, classes),
         DOMAIN classes \subseteq DOMAIN classes',
         \A name \in DOMAIN classes : classes'[name] = classes[name]
  PROVE  AllFight(ranks, zone, classes')
<1>1. ASSUME NEW rank, Fights(rank, zone, classes) PROVE Fights(rank, zone, classes')
  BY <1>1 DEF Fights, Constructs, SetsUp
<1>. QED
  BY <1>1 DEF AllFight

LEMMA OneMoreFights ==
  ASSUME NEW ranks \in Seq(Nat), NEW zone, NEW known, AllFight(ranks, zone, known),
         NEW rank \in Nat, Fights(rank, zone, known)
  PROVE  AllFight(Append(ranks, rank), zone, known) /\ Len(Append(ranks, rank)) = Len(ranks) + 1
<1>. QED
  BY DEF AllFight

LEMMA RankKeepsContenders ==
  ASSUME PitTypeOK, ContendersInv, NEW rank \in Nat, GeneratesRank(rank),
         EntriesOf(Config, wsId)[rank].key \in Keys
  PROVE  ContendersInv'
<1>. DEFINE key == EntriesOf(Config, wsId)[rank].key
            name == GetNameFromKey[key]
            range == Config.rangePerZone[wsId][difficulty]
<1>1. /\ stage = "contenders" /\ left > 0 /\ left \in Nat
      /\ contenders \in Seq(Nat) /\ wsId' = wsId /\ difficulty' = difficulty
  BY DEF GeneratesRank, PitTypeOK
<1>2. /\ wsId \in DOMAIN Config.rangePerZone
      /\ Len(contenders) + left \in range[1]..range[2]
      /\ AllFight(contenders, wsId, classes)
  BY <1>1 DEF ContendersInv
<1>3. /\ DOMAIN classes \subseteq DOMAIN classes'
      /\ \A known \in DOMAIN classes : classes'[known] = classes[known]
  BY LoadingOnlyAddsClasses DEF GeneratesRank
<1>4. AllFight(contenders, wsId, classes')
  BY <1>2, <1>3, FightersStay
<1>5. CASE UNCHANGED <<stage, left, contenders>>
  BY <1>1, <1>2, <1>4, <1>5 DEF ContendersInv
<1>6. CASE stage' = "failed"
  BY <1>6 DEF ContendersInv
<1>7. CASE /\ Constructs(name, classes')
           /\ SetsUp(name, classes')
           /\ AddContender(rank)
           /\ left' = left - 1
           /\ UNCHANGED stage
  <2>1. name \in DOMAIN classes'
    <3>1. name \in Uses[name]
      BY PitBuildingAssumption
    <3>. QED
      BY <1>7, <3>1 DEF Constructs
  <2>2. Fights(rank, wsId, classes')
    BY <1>7, <2>1 DEF Fights
  <2>3. AllFight(contenders', wsId, classes') /\ Len(contenders') = Len(contenders) + 1
    BY <1>1, <1>4, <1>7, <2>2, OneMoreFights DEF AddContender
  <2>4. Len(contenders') + left' = Len(contenders) + left
    BY <1>1, <1>7, <2>3
  <2>. QED
    BY <1>1, <1>2, <1>7, <2>3, <2>4 DEF ContendersInv
<1>. QED
  BY <1>5, <1>6, <1>7 DEF GeneratesRank, Idle

LEMMA NextContenders ==
  ASSUME PitTypeOK, ContendersInv, [Next]_vars
  PROVE  ContendersInv'
<1>1. ASSUME NEW user \in Users, NEW ws \in WsIds, RefuseFightingPit(user, ws)
      PROVE  ContendersInv'
  BY <1>1 DEF RefuseFightingPit, Idle, ContendersInv
<1>2. ASSUME NEW user, NEW ws, NEW d, BuildFightingPit(user, ws, d)
      PROVE  ContendersInv'
  BY <1>2 DEF BuildFightingPit, ContendersInv
<1>3. CASE RegisterBaseAction
  BY <1>3 DEF RegisterBaseAction, ContendersInv
<1>4. CASE BaseActionsAreRegistered
  BY <1>4 DEF BaseActionsAreRegistered, ContendersInv
<1>5. CASE LoadAndRegisterAction
  BY <1>5 DEF LoadAndRegisterAction, ContendersInv
<1>6. CASE StartGeneratingContenders
  <2>. DEFINE range == Config.rangePerZone[wsId][difficulty]
  <2>1. contenders = << >> /\ contenders' = << >> /\ wsId' = wsId /\ difficulty' = difficulty
        /\ stage = "team"
    BY <1>6 DEF StartGeneratingContenders, ContendersInv
  <2>2. CASE /\ wsId \in DOMAIN Config.rangePerZone
             /\ left' \in GenerateInRange(range[1], range[2])
             /\ stage' = "contenders"
    <3>1. Config.rangePerZone[wsId] \in [Difficulties -> Nat \X Nat]
      BY <2>2, PitBuildingAssumption DEF ReadConfig
    <3>2. range \in Nat \X Nat
      BY <3>1 DEF PitTypeOK
    <3>3. Len(contenders') + left' \in range[1]..range[2]
      BY <2>1, <2>2, <3>2 DEF GenerateInRange
    <3>4. AllFight(contenders', wsId', classes')
      BY <2>1 DEF AllFight
    <3>. QED
      BY <2>1, <2>2, <3>3, <3>4 DEF ContendersInv
  <2>3. CASE UNCHANGED stage
    BY <2>1, <2>3 DEF ContendersInv
  <2>. QED
    BY <1>6, <2>2, <2>3 DEF StartGeneratingContenders
<1>7. ASSUME NEW value \in GenerateInRange(0, Percent), GenerateContender(value)
      PROVE  ContendersInv'
  BY <1>7, DrawnIsAnEntry, RankKeepsContenders
<1>8. CASE ContendersAreGenerated
  BY <1>8 DEF ContendersAreGenerated, Idle, ContendersInv
<1>9. CASE ChangeFiles
  BY <1>9 DEF ChangeFiles, ContendersInv
<1>10. CASE TimePasses
  BY <1>10 DEF TimePasses, buildVars, ContendersInv
<1>11. CASE Restart
  BY <1>11 DEF Restart, Idle, ContendersInv
<1>12. CASE UNCHANGED vars
  BY <1>12 DEF vars, buildVars, ContendersInv
<1>. QED
  BY <1>1, <1>2, <1>3, <1>4, <1>5, <1>6, <1>7, <1>8, <1>9, <1>10, <1>11, <1>12 DEF Next

(* FightingPitAnnouncer::generateContenders: a pit that was built has as   *)
(* many contenders as its zone allows, and all of them can fight, whatever *)
(* happened to the scripts while it was built.                             *)
THEOREM EveryPitHasItsContenders == Spec => []PitHasItsContenders
<1>1. Init => ContendersInv
  BY DEF Init, ContendersInv
<1>2. Spec => []ContendersInv
  BY PitTypeCorrectness, <1>1, NextContenders, PTL DEF Spec
<1>3. ASSUME PitTypeOK, ContendersInv PROVE PitHasItsContenders
  <2>. SUFFICES ASSUME stage = "built"
                PROVE  /\ Len(contenders) \in Config.rangePerZone[wsId][difficulty][1]
                                               ..Config.rangePerZone[wsId][difficulty][2]
                       /\ \A rank \in Range(contenders) :
                            \E name \in {GetNameFromKey[EntriesOf(Config, wsId)[rank].key]} :
                              Constructs(name, classes) /\ SetsUp(name, classes)
    BY DEF PitHasItsContenders
  <2>1. /\ Len(contenders) + left \in Config.rangePerZone[wsId][difficulty][1]
                                        ..Config.rangePerZone[wsId][difficulty][2]
        /\ AllFight(contenders, wsId, classes)
        /\ left = 0
    BY <1>3 DEF ContendersInv
  <2>2. contenders \in Seq(Nat) /\ DOMAIN contenders = 1..Len(contenders)
        /\ Len(contenders) \in Nat
    BY <1>3 DEF PitTypeOK
  <2>3. Len(contenders) + left = Len(contenders)
    BY <2>1, <2>2
  <2>4. ASSUME NEW rank \in Range(contenders) PROVE Fights(rank, wsId, classes)
    <3>1. PICK n \in 1..Len(contenders) : rank = contenders[n]
      BY <2>2 DEF Range
    <3>. QED
      BY <2>1, <3>1 DEF AllFight
  <2>. QED
    BY <2>1, <2>3, <2>4 DEF Fights
<1>. QED
  BY PitTypeCorrectness, <1>2, <1>3, PTL

-----------------------------------------------------------------------------
(* What may end the server, as long as nobody touches the scripts.         *)

NamesOf(keys) == {GetNameFromKey[k] : k \in Range(keys)}

(* An action of the team relies on the base actions and on those of the    *)
(* team that are loaded before it, at most.                                *)
ActionsFollowWhatTheyUse ==
  \A n \in DOMAIN TeamActions :
    Uses[GetNameFromKey[TeamActions[n]]] \subseteq
      NamesOf(BaseActions) \cup {GetNameFromKey[TeamActions[m]] : m \in 1..n}

(* Wherever a script is, it defines its class.                             *)
WholeScripts ==
  \A k \in Keys :
    /\ Defines(source[k])
    /\ local[k] # Absent => Defines(local[k].content)
    /\ mem[k] # Absent => Defines(mem[k].content)

(* What is not yet loaded of a sequence of keys is its rest.               *)
LoadedUpTo(keys, rest, known) ==
  \E done \in 0..Len(keys) :
    /\ Len(rest) = Len(keys) - done
    /\ \A n \in 1..Len(rest) : rest[n] = keys[done + n]
    /\ \A n \in 1..done : GetNameFromKey[keys[n]] \in known

(* While nobody touches the scripts, each is whole, what was asked for is  *)
(* loaded, and the server has not ended.                                   *)
UntouchedInv ==
  changes = 0 =>
    /\ WholeScripts
    /\ loaded \subseteq DOMAIN classes
    /\ stage = "base" => LoadedUpTo(BaseActions, actions, DOMAIN classes)
    /\ stage \in {"team", "contenders"} => NamesOf(BaseActions) \subseteq DOMAIN classes
    /\ stage = "team" => LoadedUpTo(TeamActions, actions, DOMAIN classes)
    /\ stage = "contenders" => NamesOf(TeamActions) \subseteq DOMAIN classes

LEMMA FindKeepsWholeScripts ==
  ASSUME CacheInv, WholeScripts, NEW k \in Keys, FindInCache(k)
  PROVE  WholeScripts' /\ Defines(Found(k))
<1>0. CacheTypeOK
  BY DEF CacheInv
<1>1. LookedUp(k) # Absent /\ Defines(LookedUp(k).content)
  <2>1. CASE IsInLocalStorage(k)
    BY <2>1 DEF LookedUp, IsInLocalStorage, WholeScripts
  <2>2. CASE ~IsInLocalStorage(k)
    <3>1. source[k] # Absent /\ Defines(source[k]) /\ source[k] \in Contents
      BY <1>0 DEF WholeScripts, Defines, CacheTypeOK
    <3>2. LookedUp(k) = [content |-> source[k], writeTime |-> now]
      BY <2>2, <3>1 DEF LookedUp, CreateFileInLocalStorage
    <3>3. [content |-> source[k], writeTime |-> now] \in LocalFile
      BY <1>0, <3>1 DEF LocalFile, CacheTypeOK
    <3>4. LookedUp(k).content = source[k]
      BY <3>2
    <3>. QED
      BY <3>1, <3>2, <3>3, <3>4, AbsentIsNoFile
  <2>. QED
    BY <2>1, <2>2
<1>2. Defines(Found(k)) /\ source' = source
  BY <1>1 DEF WholeScripts, Found, AnsweredFromMemory, FindInCache
<1>3. \A j \in Keys : local'[j] # Absent => Defines(local'[j].content)
  BY <1>1, LookedUpIsStored DEF WholeScripts
<1>4. \A j \in Keys : mem'[j] # Absent => Defines(mem'[j].content)
  <2>1. CASE mem' = mem
    BY <2>1 DEF WholeScripts
  <2>2. CASE mem' = [mem EXCEPT ![k] = [content |-> LookedUp(k).content, timestamp |-> now]]
    <3>1. mem'[k].content = LookedUp(k).content
      BY <1>0, <2>2 DEF CacheTypeOK
    <3>2. \A j \in Keys : j # k => mem'[j] = mem[j]
      BY <1>0, <2>2 DEF CacheTypeOK
    <3>. QED
      BY <1>1, <3>1, <3>2 DEF WholeScripts
  <2>. QED
    BY <2>1, <2>2 DEF FindInCache
<1>5. \A j \in Keys : Defines(source'[j])
  BY <1>2 DEF WholeScripts
<1>. QED
  BY <1>2, <1>3, <1>4, <1>5, Zenon DEF WholeScripts, Defines

LEMMA NothingLoadedYet ==
  ASSUME NEW keys \in Seq(Keys), NEW known
  PROVE  LoadedUpTo(keys, keys, known)
<1>1. /\ 0 \in 0..Len(keys) /\ Len(keys) = Len(keys) - 0
      /\ \A n \in 1..Len(keys) : keys[n] = keys[0 + n]
      /\ \A n \in 1..0 : GetNameFromKey[keys[n]] \in known
  OBVIOUS
<1>. QED
  BY <1>1 DEF LoadedUpTo

LEMMA OneMoreLoaded ==
  ASSUME NEW keys \in Seq(Keys), NEW rest \in Seq(Keys), rest # << >>, NEW known,
         LoadedUpTo(keys, rest, known), NEW after, known \subseteq after,
         GetNameFromKey[Head(rest)] \in after
  PROVE  /\ LoadedUpTo(keys, Tail(rest), after)
         /\ \E n \in DOMAIN keys :
              /\ Head(rest) = keys[n]
              /\ \A m \in 1..(n - 1) : GetNameFromKey[keys[m]] \in known
<1>1. PICK done \in 0..Len(keys) :
        /\ Len(rest) = Len(keys) - done
        /\ \A n \in 1..Len(rest) : rest[n] = keys[done + n]
        /\ \A n \in 1..done : GetNameFromKey[keys[n]] \in known
  BY DEF LoadedUpTo
<1>2. /\ Len(keys) \in Nat /\ Len(rest) \in Nat /\ Len(rest) > 0
      /\ DOMAIN keys = 1..Len(keys)
  OBVIOUS
<1>. DEFINE next == done + 1
<1>3. next \in 1..Len(keys) /\ Head(rest) = keys[next] /\ next - 1 = done
  BY <1>1, <1>2
<1>4. Len(Tail(rest)) = Len(keys) - next
      /\ \A n \in 1..Len(Tail(rest)) : Tail(rest)[n] = rest[n + 1] /\ n + 1 \in 1..Len(rest)
  BY <1>1, <1>2
<1>5. \A n \in 1..Len(Tail(rest)) : Tail(rest)[n] = keys[next + n]
  <2>1. ASSUME NEW n \in 1..Len(Tail(rest)) PROVE Tail(rest)[n] = keys[next + n]
    <3>1. rest[n + 1] = keys[done + (n + 1)] /\ done + (n + 1) = next + n
      BY <1>1, <1>2, <1>4
    <3>. QED
      BY <1>4, <3>1
  <2>. QED
    BY <2>1
<1>6. \A n \in 1..next : GetNameFromKey[keys[n]] \in after
  <2>1. ASSUME NEW n \in 1..next PROVE GetNameFromKey[keys[n]] \in after
    <3>1. n \in 1..done \/ n = next
      BY <1>1
    <3>. QED
      BY <1>1, <1>3, <3>1
  <2>. QED
    BY <2>1
<1>7. LoadedUpTo(keys, Tail(rest), after)
  <2>. HIDE DEF next
  <2>1. next \in 0..Len(keys)
    BY <1>2, <1>3
  <2>. QED
    BY <1>4, <1>5, <1>6, <2>1 DEF LoadedUpTo
<1>8. \A m \in 1..(next - 1) : GetNameFromKey[keys[m]] \in known
  BY <1>1, <1>3
<1>. QED
  <2>. HIDE DEF next
  <2>. QED
    BY <1>2, <1>3, <1>7, <1>8

LEMMA AllAreLoaded ==
  ASSUME NEW keys \in Seq(Keys), NEW known, LoadedUpTo(keys, << >>, known)
  PROVE  NamesOf(keys) \subseteq known
<1>1. PICK done \in 0..Len(keys) :
        /\ Len(<< >>) = Len(keys) - done
        /\ \A n \in 1..done : GetNameFromKey[keys[n]] \in known
  BY DEF LoadedUpTo
<1>2. done = Len(keys) /\ DOMAIN keys = 1..Len(keys)
  BY <1>1
<1>. QED
  BY <1>1, <1>2 DEF NamesOf, Range

LEMMA FindingAddsTheClass ==
  ASSUME CacheInv, WholeScripts, NEW key \in Keys, FindInCache(key),
         classes' = WithClassOf(key)
  PROVE  /\ WholeScripts'
         /\ DOMAIN classes \subseteq DOMAIN classes'
         /\ GetNameFromKey[key] \in DOMAIN classes'
<1>. QED
  BY FindKeepsWholeScripts, ClassesOnlyGrow

LEMMA LoadingAddsTheClass ==
  ASSUME CacheInv, WholeScripts, loaded \subseteq DOMAIN classes,
         NEW key \in Keys, LoadContenderScript(key)
  PROVE  /\ WholeScripts'
         /\ loaded' \subseteq DOMAIN classes'
         /\ DOMAIN classes \subseteq DOMAIN classes'
         /\ GetNameFromKey[key] \in DOMAIN classes'
<1>1. CASE /\ GetNameFromKey[key] \in loaded
           /\ UNCHANGED <<cacheVars, classes, loaded>>
  <2>1. WholeScripts'
    BY <1>1 DEF WholeScripts, cacheVars
  <2>. QED
    BY <1>1, <2>1
<1>2. CASE /\ FindInCache(key)
           /\ classes' = WithClassOf(key)
           /\ loaded' = loaded \cup {GetNameFromKey[key]}
  BY <1>2, FindingAddsTheClass
<1>. QED
  BY <1>1, <1>2 DEF LoadContenderScript

(* The action that is loaded next finds what it uses.                      *)
LEMMA TeamActionConstructs ==
  ASSUME ActionsFollowWhatTheyUse, NEW rest \in Seq(Keys), rest # << >>, NEW known,
         LoadedUpTo(TeamActions, rest, DOMAIN known),
         NamesOf(BaseActions) \subseteq DOMAIN known,
         NEW after, DOMAIN known \subseteq DOMAIN after,
         GetNameFromKey[Head(rest)] \in DOMAIN after
  PROVE  Constructs(GetNameFromKey[Head(rest)], after)
<1>1. TeamActions \in Seq(Keys)
  BY PitBuildingAssumption
<1>2. PICK n \in DOMAIN TeamActions :
        /\ Head(rest) = TeamActions[n]
        /\ \A m \in 1..(n - 1) : GetNameFromKey[TeamActions[m]] \in DOMAIN known
  BY <1>1, OneMoreLoaded
<1>3. \A m \in 1..n : GetNameFromKey[TeamActions[m]] \in DOMAIN after
  <2>1. n \in Nat
    BY <1>1
  <2>2. ASSUME NEW m \in 1..n PROVE m \in 1..(n - 1) \/ m = n
    BY <2>1
  <2>. QED
    BY <1>2, <2>2
<1>4. Uses[GetNameFromKey[TeamActions[n]]] \subseteq
        NamesOf(BaseActions) \cup {GetNameFromKey[TeamActions[m]] : m \in 1..n}
  BY DEF ActionsFollowWhatTheyUse
<1>. QED
  BY <1>2, <1>3, <1>4 DEF Constructs

LEMMA NextUntouched ==
  ASSUME ActionsFollowWhatTheyUse, PitTypeOK, CacheInv, UntouchedInv, [Next]_vars
  PROVE  UntouchedInv'
<1>. SUFFICES ASSUME changes' = 0
              PROVE  UntouchedInv'
  BY DEF UntouchedInv
<1>0. BaseActions \in Seq(Keys) /\ TeamActions \in Seq(Keys) /\ actions \in Seq(Keys)
  BY PitBuildingAssumption DEF PitTypeOK
<1>1. ASSUME NEW user \in Users, NEW ws \in WsIds, RefuseFightingPit(user, ws)
      PROVE  UntouchedInv'
  BY <1>1 DEF RefuseFightingPit, Idle, UntouchedInv, WholeScripts, cacheVars
<1>2. ASSUME NEW user, NEW ws, NEW d, BuildFightingPit(user, ws, d)
      PROVE  UntouchedInv'
  <2>1. changes = 0 /\ WholeScripts'
    BY <1>2 DEF BuildFightingPit, UntouchedInv, WholeScripts, cacheVars
  <2>2. LoadedUpTo(BaseActions, actions', DOMAIN classes')
    BY <1>0, <1>2, NothingLoadedYet DEF BuildFightingPit
  <2>. QED
    BY <1>2, <2>1, <2>2 DEF BuildFightingPit, UntouchedInv
<1>3. CASE RegisterBaseAction
  <2>1. /\ changes = 0 /\ actions # << >> /\ stage = "base" /\ stage' = "base"
        /\ Head(actions) \in Keys /\ FindInCache(Head(actions))
        /\ classes' = WithClassOf(Head(actions))
        /\ actions' = Tail(actions) /\ loaded' = loaded
    BY <1>0, <1>3 DEF RegisterBaseAction
  <2>2. WholeScripts /\ loaded \subseteq DOMAIN classes
        /\ LoadedUpTo(BaseActions, actions, DOMAIN classes)
    BY <2>1 DEF UntouchedInv
  <2>3. /\ WholeScripts'
        /\ DOMAIN classes \subseteq DOMAIN classes'
        /\ GetNameFromKey[Head(actions)] \in DOMAIN classes'
    BY <2>1, <2>2, FindingAddsTheClass
  <2>4. LoadedUpTo(BaseActions, actions', DOMAIN classes')
    BY <1>0, <2>1, <2>2, <2>3, OneMoreLoaded
  <2>. QED
    BY <2>1, <2>2, <2>3, <2>4 DEF UntouchedInv
<1>4. CASE BaseActionsAreRegistered
  <2>1. /\ changes = 0 /\ actions = << >> /\ stage = "base" /\ stage' = "team"
        /\ UNCHANGED <<cacheVars, classes, loaded>> /\ actions' = TeamActions
    BY <1>4 DEF BaseActionsAreRegistered
  <2>2. /\ WholeScripts' /\ loaded' \subseteq DOMAIN classes'
        /\ LoadedUpTo(BaseActions, << >>, DOMAIN classes)
    BY <2>1 DEF UntouchedInv, WholeScripts, cacheVars
  <2>3. NamesOf(BaseActions) \subseteq DOMAIN classes'
    BY <1>0, <2>1, <2>2, AllAreLoaded
  <2>4. LoadedUpTo(TeamActions, actions', DOMAIN classes')
    BY <1>0, <2>1, NothingLoadedYet
  <2>. QED
    BY <2>1, <2>2, <2>3, <2>4 DEF UntouchedInv
<1>5. CASE LoadAndRegisterAction
  <2>1. /\ changes = 0 /\ actions # << >> /\ stage = "team" /\ stage' = "team"
        /\ Head(actions) \in Keys /\ FindInCache(Head(actions))
        /\ classes' = WithClassOf(Head(actions)) /\ loaded' = loaded
    BY <1>0, <1>5 DEF LoadAndRegisterAction
  <2>2. /\ WholeScripts /\ loaded \subseteq DOMAIN classes
        /\ LoadedUpTo(TeamActions, actions, DOMAIN classes)
        /\ NamesOf(BaseActions) \subseteq DOMAIN classes
    BY <2>1 DEF UntouchedInv
  <2>3. /\ WholeScripts'
        /\ DOMAIN classes \subseteq DOMAIN classes'
        /\ GetNameFromKey[Head(actions)] \in DOMAIN classes'
    BY <2>1, <2>2, FindingAddsTheClass
  <2>4. Constructs(GetNameFromKey[Head(actions)], classes')
    BY <1>0, <2>1, <2>2, <2>3, TeamActionConstructs
  <2>5. actions' = Tail(actions)
    BY <1>5, <2>4 DEF LoadAndRegisterAction
  <2>6. LoadedUpTo(TeamActions, actions', DOMAIN classes')
    BY <1>0, <2>1, <2>2, <2>3, <2>5, OneMoreLoaded
  <2>. QED
    BY <2>1, <2>2, <2>3, <2>6 DEF UntouchedInv
<1>6. CASE StartGeneratingContenders
  <2>1. /\ changes = 0 /\ actions = << >> /\ stage = "team"
        /\ UNCHANGED <<cacheVars, classes, loaded, actions>>
        /\ stage' \in {"team", "contenders"}
    BY <1>6 DEF StartGeneratingContenders
  <2>2. /\ WholeScripts' /\ loaded' \subseteq DOMAIN classes'
        /\ LoadedUpTo(TeamActions, << >>, DOMAIN classes)
        /\ LoadedUpTo(TeamActions, actions', DOMAIN classes')
        /\ NamesOf(BaseActions) \subseteq DOMAIN classes'
    BY <2>1 DEF UntouchedInv, WholeScripts, cacheVars
  <2>3. NamesOf(TeamActions) \subseteq DOMAIN classes'
    BY <1>0, <2>1, <2>2, AllAreLoaded
  <2>. QED
    BY <2>1, <2>2, <2>3 DEF UntouchedInv
<1>7. ASSUME NEW value \in GenerateInRange(0, Percent), GenerateContender(value)
      PROVE  UntouchedInv'
  <2>1. PICK rank : EntriesOf(Config, wsId)[rank].key \in Keys /\ GeneratesRank(rank)
    BY <1>7, DrawnIsAnEntry
  <2>2. /\ changes = 0 /\ stage = "contenders"
        /\ stage' \in {"contenders", "failed"}
        /\ LoadContenderScript(EntriesOf(Config, wsId)[rank].key)
    BY <2>1 DEF GeneratesRank, Idle
  <2>3. /\ WholeScripts /\ loaded \subseteq DOMAIN classes
        /\ NamesOf(BaseActions) \subseteq DOMAIN classes
        /\ NamesOf(TeamActions) \subseteq DOMAIN classes
    BY <2>2 DEF UntouchedInv
  <2>4. /\ WholeScripts'
        /\ loaded' \subseteq DOMAIN classes'
        /\ DOMAIN classes \subseteq DOMAIN classes'
    BY <2>1, <2>2, <2>3, LoadingAddsTheClass
  <2>. QED
    BY <2>2, <2>3, <2>4 DEF UntouchedInv
<1>8. CASE ContendersAreGenerated
  BY <1>8 DEF ContendersAreGenerated, Idle, UntouchedInv, WholeScripts, cacheVars
<1>9. CASE ChangeFiles
  BY <1>9 DEF ChangeFiles, PitTypeOK
<1>10. CASE TimePasses
  BY <1>10 DEF TimePasses, Tick, buildVars, UntouchedInv, WholeScripts
<1>11. CASE Restart
  <2>1. changes = 0 /\ stage' = "none" /\ classes' = << >> /\ loaded' = {}
        /\ UNCHANGED <<source, local>> /\ mem' = [k \in Keys |-> Absent]
    BY <1>11 DEF Restart, Idle, LoseMemory, CreateChaiInstance
  <2>2. WholeScripts'
    BY <2>1 DEF UntouchedInv, WholeScripts
  <2>. QED
    BY <2>1, <2>2 DEF UntouchedInv
<1>12. CASE UNCHANGED vars
  BY <1>12 DEF vars, buildVars, cacheVars, UntouchedInv, WholeScripts
<1>. QED
  BY <1>1, <1>2, <1>3, <1>4, <1>5, <1>6, <1>7, <1>8, <1>9, <1>10, <1>11, <1>12 DEF Next

(* A contender of a zone finds what it needs, unless that is an action     *)
(* no member of the team has.                                              *)
LEMMA ContenderConstructs ==
  ASSUME NEW rank \in DOMAIN EntriesOf(Config, wsId),
         NeededOfTheTeam(wsId) \subseteq NamesOf(TeamActions), NEW known,
         NamesOf(BaseActions) \subseteq DOMAIN known,
         NamesOf(TeamActions) \subseteq DOMAIN known,
         GetNameFromKey[EntriesOf(Config, wsId)[rank].key] \in DOMAIN known
  PROVE  Constructs(GetNameFromKey[EntriesOf(Config, wsId)[rank].key], known)
<1>. DEFINE e == EntriesOf(Config, wsId)[rank]
            name == GetNameFromKey[e.key]
<1>1. e \in Range(EntriesOf(Config, wsId))
  BY DEF Range
<1>2. Uses[name] \ ({name} \cup NamesOf(BaseActions)) \subseteq NeededOfTheTeam(wsId)
  BY <1>1 DEF NeededOfTheTeam, NamesOf
<1>. QED
  BY <1>2 DEF Constructs

LEMMA NextOnlyBadEnd ==
  ASSUME PitTypeOK, CacheInv, UntouchedInv, OnlyBadConfigurationsEndTheServer, [Next]_vars
  PROVE  OnlyBadConfigurationsEndTheServer'
<1>. DEFINE Bad(zone) ==
              \/ ~ValidateEncounterContext(Config)
              \/ zone \notin DOMAIN Config.rangePerZone
              \/ ~(NeededOfTheTeam(zone) \subseteq NamesOf(TeamActions))
<1>0. /\ OnlyBadConfigurationsEndTheServer <=> (~alive /\ changes = 0 => Bad(wsId))
      /\ OnlyBadConfigurationsEndTheServer' <=> (~alive' /\ changes' = 0 => Bad(wsId'))
  BY DEF OnlyBadConfigurationsEndTheServer, NamesOf, NeededOfTheTeam
<1>. SUFFICES ASSUME ~alive', changes' = 0 PROVE Bad(wsId')
  BY <1>0
<1>1. CASE alive' = alive /\ changes' = changes /\ wsId' = wsId
  BY <1>0, <1>1
<1>2. ASSUME NEW user, NEW ws, RefuseFightingPit(user, ws) PROVE Bad(wsId')
  BY <1>1, <1>2 DEF RefuseFightingPit
<1>3. ASSUME NEW user, NEW ws, NEW d, BuildFightingPit(user, ws, d) PROVE FALSE
  BY <1>3 DEF BuildFightingPit
<1>4. CASE \/ RegisterBaseAction \/ BaseActionsAreRegistered \/ LoadAndRegisterAction
           \/ ContendersAreGenerated
  BY <1>1, <1>4 DEF RegisterBaseAction, BaseActionsAreRegistered, LoadAndRegisterAction,
                    ContendersAreGenerated
<1>5. CASE StartGeneratingContenders
  BY <1>5 DEF StartGeneratingContenders
<1>6. ASSUME NEW value \in GenerateInRange(0, Percent), GenerateContender(value)
      PROVE  Bad(wsId')
  <2>1. PICK rank \in DOMAIN EntriesOf(Config, wsId) :
          EntriesOf(Config, wsId)[rank].key \in Keys /\ GeneratesRank(rank)
    BY <1>6, DrawnIsAnEntry
  <2>. DEFINE key == EntriesOf(Config, wsId)[rank].key
  <2>2. /\ changes = 0 /\ stage = "contenders" /\ alive /\ wsId' = wsId
        /\ LoadContenderScript(key)
        /\ ~Constructs(GetNameFromKey[key], classes')
    BY <2>1 DEF GeneratesRank, PitTypeOK
  <2>3. /\ WholeScripts /\ loaded \subseteq DOMAIN classes
        /\ NamesOf(BaseActions) \subseteq DOMAIN classes
        /\ NamesOf(TeamActions) \subseteq DOMAIN classes
    BY <2>2 DEF UntouchedInv
  <2>4. /\ DOMAIN classes \subseteq DOMAIN classes'
        /\ GetNameFromKey[key] \in DOMAIN classes'
    BY <2>1, <2>2, <2>3, LoadingAddsTheClass
  <2>5. ~(NeededOfTheTeam(wsId) \subseteq NamesOf(TeamActions))
    BY <2>2, <2>3, <2>4, ContenderConstructs
  <2>. QED
    BY <2>2, <2>5
<1>7. CASE ChangeFiles
  BY <1>7 DEF ChangeFiles, PitTypeOK
<1>8. CASE TimePasses
  BY <1>1, <1>8 DEF TimePasses, buildVars
<1>9. CASE Restart
  BY <1>9 DEF Restart
<1>10. CASE UNCHANGED vars
  BY <1>1, <1>10 DEF vars, buildVars
<1>. QED
  BY <1>2, <1>3, <1>4, <1>5, <1>6, <1>7, <1>8, <1>9, <1>10 DEF Next

(* createNewFightingPit: as long as nobody touches the scripts, building a *)
(* pit ends the server only in a zone without a range, or whose contenders *)
(* rely on actions no member of the team has.                              *)
THEOREM OnlyBadConfigurationsEverEndTheServer ==
  ASSUME ActionsFollowWhatTheyUse
  PROVE  Spec => []OnlyBadConfigurationsEndTheServer
<1>1. Init => UntouchedInv /\ OnlyBadConfigurationsEndTheServer
  <2>. SUFFICES ASSUME Init PROVE UntouchedInv /\ OnlyBadConfigurationsEndTheServer
    OBVIOUS
  <2>1. WholeScripts
    BY DEF Init, CacheInit, WholeScripts, Defines
  <2>2. UntouchedInv
    BY <2>1 DEF Init, UntouchedInv, CreateChaiInstance
  <2>3. OnlyBadConfigurationsEndTheServer
    BY DEF Init, OnlyBadConfigurationsEndTheServer
  <2>. QED
    BY <2>2, <2>3
<1>2. Spec => []CacheInv
  BY BuildingUsesTheCache, CacheInvariance, PTL
<1>3. /\ PitTypeOK /\ CacheInv /\ UntouchedInv /\ OnlyBadConfigurationsEndTheServer
      /\ [Next]_vars
      => UntouchedInv' /\ OnlyBadConfigurationsEndTheServer'
  BY NextUntouched, NextOnlyBadEnd
<1>. QED
  BY PitTypeCorrectness, <1>1, <1>2, <1>3, PTL DEF Spec
=============================================================================
