-------------------------- MODULE SizedQueueProofs --------------------------
(***************************************************************************)
(* The circular array of SizedQueue implements the bounded FIFO, for every *)
(* capacity and every word size, as long as the tail counter does not wrap *)
(* around: the assumption MaxTail < WordSize of the theorems below.        *)
(***************************************************************************)
EXTENDS SizedQueue, SequenceTheorems, TLAPS

(* The counters stay below the bound, so unsigned subtraction is exact.    *)
Inv == TypeOK /\ CountersInOrder /\ tail <= MaxTail

-----------------------------------------------------------------------------
(* Products of natural numbers.                                            *)
LEMMA ProductIsNatural == ASSUME NEW m \in Nat, NEW n \in Nat
                          PROVE  m * n \in Nat
<1>1. m * n \in Int
  BY SMT
<1>2. m * n >= 0
  BY SMT
<1>. QED
  BY <1>1, <1>2

LEMMA ProductDistributes ==
  ASSUME NEW q \in Nat, NEW k \in Nat, NEW n \in Nat
  PROVE  n * (q + 1 + k) = n * q + n + n * k
  BY SMT

LEMMA NextMultipleIsAhead ==
  ASSUME NEW q \in Nat, NEW r \in Nat, NEW n \in Nat, q < r
  PROVE  n * q + n <= n * r
<1>. DEFINE k == r - q - 1
<1>1. k \in Nat /\ r = q + 1 + k
  OBVIOUS
<1>2. n * r = n * q + n + n * k
  BY <1>1, ProductDistributes
<1>3. n * k \in Nat /\ n * q \in Nat
  BY <1>1, ProductIsNatural
<1>. HIDE DEF k
<1>. QED
  BY <1>2, <1>3

LEMMA QuotientAndRemainder ==
  ASSUME NEW a \in Int, NEW n \in Int, n > 0
  PROVE  a = n * (a \div n) + (a % n)
  BY SMT

LEMMA RemainderRange ==
  ASSUME NEW a \in Int, NEW n \in Int, n > 0
  PROVE  a \div n \in Int /\ a % n \in 0..(n - 1)
  BY SMT

LEMMA QuotientIsNatural ==
  ASSUME NEW a \in Nat, NEW n \in Int, n > 0
  PROVE  a \div n >= 0
  BY SMT

LEMMA EuclideanDivision ==
  ASSUME NEW a \in Nat, NEW n \in Nat \ {0}
  PROVE  /\ a \div n \in Nat
         /\ a % n \in 0..(n - 1)
         /\ a = n * (a \div n) + (a % n)
<1>1. a = n * (a \div n) + (a % n)
  BY QuotientAndRemainder
<1>2. a \div n \in Int /\ a % n \in 0..(n - 1)
  BY RemainderRange
<1>3. a \div n >= 0
  BY QuotientIsNatural
<1>. QED
  BY <1>1, <1>2, <1>3

LEMMA SmallRemainder ==
  ASSUME NEW a \in Int, NEW n \in Int, 0 <= a, a < n
  PROVE  a % n = a
  BY SMT

(* Two positions of the same turn of the array are different slots.        *)
LEMMA SlotsAreDistinct ==
  ASSUME NEW n \in Nat \ {0}, NEW a \in Nat, NEW b \in Nat,
         a < b, b - a < n
  PROVE  a % n # b % n
<1>. SUFFICES ASSUME a % n = b % n PROVE FALSE
  OBVIOUS
<1>. DEFINE q == a \div n
            r == b \div n
            s == a % n
<1>1. q \in Nat /\ r \in Nat /\ s \in Nat
  <2>1. q \in Nat /\ s \in 0..(n - 1)
    BY EuclideanDivision
  <2>2. r \in Nat
    BY EuclideanDivision
  <2>. HIDE DEF q, r, s
  <2>. QED
    BY <2>1, <2>2
<1>2. a = n * q + s /\ b = n * r + s
  <2>1. a = n * q + s
    BY EuclideanDivision
  <2>2. b = n * r + s
    BY EuclideanDivision
  <2>. QED
    BY <2>1, <2>2
<1>. HIDE DEF q, r, s
<1>3. n * q \in Nat /\ n * r \in Nat
  BY <1>1, ProductIsNatural
<1>4. n * q < n * r /\ n * r < n * q + n
  BY <1>1, <1>2, <1>3
<1>5. ~(q < r)
  BY <1>1, <1>3, <1>4, NextMultipleIsAhead
<1>6. ~(r < q)
  BY <1>1, <1>3, <1>4, NextMultipleIsAhead
<1>. QED
  BY <1>1, <1>4, <1>5, <1>6

-----------------------------------------------------------------------------
(* In the states of Inv the size is the distance of the counters.          *)
LEMMA SizeIsExact ==
  ASSUME Inv
  PROVE  Size = tail - head /\ Size \in Nat /\ Size <= SIZE_QUEUE
<1>1. /\ tail - head \in Nat
      /\ tail - head < WordSize
      /\ WordSize \in Nat
      /\ tail - head <= SIZE_QUEUE
  BY QueueAssumption DEF Inv, TypeOK, CountersInOrder, Word
<1>. DEFINE d == tail - head
<1>2. d % WordSize = d
  BY <1>1, SmallRemainder
<1>. QED
  BY <1>1, <1>2 DEF Size

LEMMA IndexIsASlot == \A n \in Nat : GetIndex(n) \in Slots
  BY EuclideanDivision, QueueAssumption DEF GetIndex, Slots

LEMMA InitInv == Init => Inv
  BY QueueAssumption DEF Init, Inv, TypeOK, CountersInOrder, Word

LEMMA NextInv ==
  ASSUME MaxTail < WordSize
  PROVE  Inv /\ [Next]_vars => Inv'
<1>. SUFFICES ASSUME Inv, [Next]_vars PROVE Inv'
  OBVIOUS
<1>0. /\ head \in Nat /\ tail \in Nat /\ head <= tail
      /\ tail <= MaxTail /\ tail - head <= SIZE_QUEUE
      /\ WordSize \in Nat /\ MaxTail \in Nat /\ SIZE_QUEUE \in Nat
      /\ Word = 0..(WordSize - 1) /\ MaxTail < WordSize
  BY QueueAssumption DEF Inv, TypeOK, CountersInOrder, Word
<1>1. \A n \in Nat : n < MaxTail => (n + 1) % WordSize = n + 1
  <2>. SUFFICES ASSUME NEW n \in Nat, n < MaxTail
                PROVE  (n + 1) % WordSize = n + 1
    OBVIOUS
  <2>1. n + 1 \in Nat /\ n + 1 < WordSize
    BY <1>0
  <2>. QED
    BY <1>0, <2>1, SmallRemainder
<1>2. ASSUME NEW v \in Values, Push(v) PROVE Inv'
  <2>1. CASE Size >= SIZE_QUEUE
    BY <1>2, <2>1, SizeIsExact, QueueAssumption
       DEF Push, Inv, TypeOK, CountersInOrder
  <2>2. CASE Size < SIZE_QUEUE
    <3>1. /\ tail' = (tail + 1) % WordSize
          /\ tail < MaxTail
          /\ head' = head
          /\ queue' = [queue EXCEPT ![GetIndex(tail)] = v]
          /\ answer' = Accepted
      BY <1>0, <1>2, <2>2, SizeIsExact DEF Push
    <3>2. tail' = tail + 1
      BY <1>0, <1>1, <3>1
    <3>3. CountersInOrder' /\ tail' \in Word /\ tail' <= MaxTail
      BY <1>0, <2>2, <3>1, <3>2, SizeIsExact DEF CountersInOrder
    <3>4. queue' \in [Slots -> Values \cup {Nothing}]
      BY <3>1 DEF Inv, TypeOK
    <3>. QED
      BY <3>1, <3>3, <3>4 DEF Inv, TypeOK
  <2>. QED
    BY <1>0, <2>1, <2>2, SizeIsExact
<1>3. CASE Pop
  <2>1. CASE head < tail
    <3>1. /\ head' = (head + 1) % WordSize
          /\ UNCHANGED <<tail, queue>>
          /\ answer' = queue[GetIndex(head)]
      BY <1>3, <2>1 DEF Pop
    <3>2. head' = head + 1
      BY <1>0, <1>1, <2>1, <3>1
    <3>3. answer' \in Values \cup {Nothing}
      BY <1>0, <3>1, IndexIsASlot DEF Inv, TypeOK
    <3>. QED
      BY <1>0, <2>1, <3>1, <3>2, <3>3 DEF Inv, TypeOK, CountersInOrder
  <2>2. CASE ~(head < tail)
    BY <1>0, <1>3, <2>2 DEF Pop, Inv, TypeOK, CountersInOrder
  <2>. QED
    BY <2>1, <2>2
<1>4. CASE UNCHANGED vars
  BY <1>4 DEF vars, Inv, TypeOK, CountersInOrder
<1>. QED
  BY <1>2, <1>3, <1>4 DEF Next

(* Without wrap-around the counters stay in order and at most one turn of  *)
(* the array apart, and every variable keeps its type.                     *)
THEOREM CountersStayInOrder ==
  ASSUME MaxTail < WordSize
  PROVE  Spec => [](TypeOK /\ CountersInOrder)
<1>1. Spec => []Inv
  BY InitInv, NextInv, PTL DEF Spec
<1>2. Inv => TypeOK /\ CountersInOrder
  BY DEF Inv
<1>. QED
  BY <1>1, <1>2, PTL

-----------------------------------------------------------------------------
(* Two sequences are equal when they agree at every position.              *)
LEMMA AppendByPosition ==
  ASSUME NEW S, NEW s \in Seq(S), NEW e \in S, NEW t \in Seq(S),
         Len(t) = Len(s) + 1, t[Len(s) + 1] = e,
         \A k \in 1..Len(s) : t[k] = s[k]
  PROVE  t = Append(s, e)
  OBVIOUS

LEMMA TailByPosition ==
  ASSUME NEW S, NEW s \in Seq(S), s # << >>, NEW t \in Seq(S),
         Len(t) = Len(s) - 1, \A k \in 1..Len(t) : t[k] = s[k + 1]
  PROVE  t = Tail(s)
  OBVIOUS

LEMMA FunctionIsSequence ==
  ASSUME NEW S, NEW n \in Nat, NEW f \in [1..n -> S]
  PROVE  f \in Seq(S) /\ Len(f) = n
  OBVIOUS

Elements == Values \cup {Nothing}

(* The shape of the content: one value per position from head to tail.     *)
ContentShape ==
  /\ Size = tail - head
  /\ Size \in 0..SIZE_QUEUE
  /\ Content \in Seq(Elements)
  /\ Len(Content) = Size
  /\ \A k \in 1..Size : Content[k] = queue[GetIndex(head + k - 1)]

LEMMA ContentHasShape == Inv => ContentShape
<1>. SUFFICES ASSUME Inv PROVE ContentShape
  OBVIOUS
<1>1. Size = tail - head /\ Size \in 0..SIZE_QUEUE /\ head \in Nat
  BY SizeIsExact, QueueAssumption DEF Inv, TypeOK, Word
<1>2. ASSUME NEW k \in 1..Size
      PROVE  queue[GetIndex(head + k - 1)] \in Elements
  <2>1. head + k - 1 \in Nat
    BY <1>1
  <2>. QED
    BY <2>1, IndexIsASlot DEF Inv, TypeOK, Elements
<1>3. Content \in [1..Size -> Elements]
  BY <1>2 DEF Content
<1>4. Content \in Seq(Elements) /\ Len(Content) = Size
  BY <1>1, <1>3, FunctionIsSequence
<1>. QED
  BY <1>1, <1>4 DEF ContentShape, Content

LEMMA NextContentHasShape == Inv' => ContentShape'
  BY ContentHasShape, PTL

(* A push writes a slot outside of the queue: the content grows at its     *)
(* end and nothing in it is overridden.                                    *)
LEMMA PushAppends ==
  ASSUME Inv, Inv', NEW v \in Values,
         tail' = tail + 1, head' = head, Size < SIZE_QUEUE,
         queue' = [queue EXCEPT ![GetIndex(tail)] = v]
  PROVE  Content' = Append(Content, v)
<1>1. /\ head \in Nat /\ tail \in Nat
      /\ Size = tail - head /\ Size \in Nat /\ Size' = Size + 1
      /\ SIZE_QUEUE \in Nat \ {0}
      /\ Content \in Seq(Elements) /\ Len(Content) = Size
      /\ Content' \in Seq(Elements) /\ Len(Content') = Size'
  BY ContentHasShape, NextContentHasShape, QueueAssumption
     DEF ContentShape, Inv, TypeOK, Word
<1>2. \A k \in 1..Size : Content[k] = queue[GetIndex(head + k - 1)]
  BY ContentHasShape DEF ContentShape
<1>3. \A k \in 1..(Size + 1) : Content'[k] = queue'[GetIndex(head + k - 1)]
  BY <1>1, NextContentHasShape DEF ContentShape
<1>4. ASSUME NEW k \in 1..Size
      PROVE  Content'[k] = Content[k]
  <2>. DEFINE n == head + k - 1
  <2>1. n \in Nat /\ n < tail /\ tail - n < SIZE_QUEUE
    BY <1>1
  <2>2. n % SIZE_QUEUE # tail % SIZE_QUEUE
    BY <1>1, <2>1, SlotsAreDistinct
  <2>3. GetIndex(n) \in Slots
    BY <2>1, IndexIsASlot
  <2>4. queue'[GetIndex(n)] = queue[GetIndex(n)]
    BY <2>2, <2>3 DEF GetIndex, Inv, TypeOK
  <2>5. k \in 1..(Size + 1)
    BY <1>1
  <2>. QED
    BY <1>2, <1>3, <2>4, <2>5
<1>5. Content'[Size + 1] = v
  <2>1. head + (Size + 1) - 1 = tail /\ Size + 1 \in 1..(Size + 1)
    BY <1>1
  <2>2. GetIndex(tail) \in Slots
    BY <1>1, IndexIsASlot
  <2>. QED
    BY <1>3, <2>1, <2>2 DEF Inv, TypeOK
<1>6. v \in Elements
  BY DEF Elements
<1>. QED
  BY <1>1, <1>4, <1>5, <1>6, AppendByPosition

(* A pop of a queue that is not empty takes its first value.               *)
LEMMA PopTakesHead ==
  ASSUME Inv, Inv', head < tail, head' = head + 1, tail' = tail,
         queue' = queue
  PROVE  /\ Content # << >>
         /\ queue[GetIndex(head)] = Head(Content)
         /\ Content' = Tail(Content)
<1>1. /\ head \in Nat /\ tail \in Nat
      /\ Size = tail - head /\ Size \in Nat \ {0} /\ Size' = Size - 1
      /\ Content \in Seq(Elements) /\ Len(Content) = Size
      /\ Content' \in Seq(Elements) /\ Len(Content') = Size'
  BY ContentHasShape, NextContentHasShape, QueueAssumption
     DEF ContentShape, Inv, TypeOK, Word
<1>2. \A k \in 1..Size : Content[k] = queue[GetIndex(head + k - 1)]
  BY ContentHasShape DEF ContentShape
<1>3. \A k \in 1..(Size - 1) : Content'[k] = queue[GetIndex((head + 1) + k - 1)]
  BY <1>1, NextContentHasShape DEF ContentShape
<1>4. Content # << >> /\ Head(Content) = Content[1]
  BY <1>1
<1>5. Content[1] = queue[GetIndex(head)]
  <2>1. head + 1 - 1 = head /\ 1 \in 1..Size
    BY <1>1
  <2>. QED
    BY <1>2, <2>1
<1>6. ASSUME NEW k \in 1..(Size - 1)
      PROVE  Content'[k] = Content[k + 1]
  <2>1. k + 1 \in 1..Size /\ (head + 1) + k - 1 = head + (k + 1) - 1
    BY <1>1
  <2>. QED
    BY <1>2, <1>3, <2>1
<1>7. Content' = Tail(Content)
  BY <1>1, <1>4, <1>6, TailByPosition
<1>. QED
  BY <1>4, <1>5, <1>7

(* An empty queue has an empty content.                                    *)
LEMMA EmptyContent == Inv => (Content = << >> <=> ~(head < tail))
<1>. SUFFICES ASSUME Inv PROVE Content = << >> <=> ~(head < tail)
  OBVIOUS
<1>1. head \in Int /\ tail \in Int /\ head <= tail
  BY QueueAssumption DEF Inv, TypeOK, Word, CountersInOrder
<1>2. Content \in Seq(Elements) /\ Len(Content) = Size /\ Size = tail - head
  BY ContentHasShape DEF ContentShape
<1>3. Content = << >> <=> Len(Content) = 0
  BY <1>2, EmptySeq
<1>4. Size = 0 <=> ~(head < tail)
  BY <1>1, <1>2
<1>. QED
  BY <1>2, <1>3, <1>4

LEMMA NextEmptyContent == Inv' => (Content = << >> <=> ~(head < tail))'
  BY EmptyContent, PTL

(* The content only depends on the queue and its counters.                 *)
LEMMA SameContent ==
  ASSUME head' = head, tail' = tail, queue' = queue
  PROVE  Content' = Content
  BY DEF Content, Size, GetIndex

LEMMA InitialContent == Init => Fifo!Init
<1>. SUFFICES ASSUME Init PROVE Content = << >> /\ answer = Nothing
  BY DEF Fifo!Init
<1>1. Inv
  BY InitInv
<1>2. ~(head < tail)
  BY DEF Init
<1>. QED
  BY <1>1, <1>2, EmptyContent DEF Init

(* Every call on the queue is a call on the FIFO.                          *)
LEMMA PushIsFifoPush ==
  ASSUME MaxTail < WordSize, Inv, Inv', NEW v \in Values, Push(v)
  PROVE  Fifo!Push(v)
<1>1. /\ Size = tail - head /\ Len(Content) = Size
      /\ head \in Nat /\ tail \in Nat
  BY ContentHasShape DEF ContentShape, Inv, TypeOK, Word
<1>2. CASE Size >= SIZE_QUEUE
  <2>1. answer' = Refused /\ head' = head /\ tail' = tail /\ queue' = queue
    BY <1>1, <1>2, QueueAssumption DEF Push
  <2>. QED
    BY <1>1, <1>2, <2>1, SameContent DEF Fifo!Push
<1>3. CASE ~(Size >= SIZE_QUEUE)
  <2>1. /\ Size < SIZE_QUEUE
        /\ queue' = [queue EXCEPT ![GetIndex(tail)] = v]
        /\ tail' = (tail + 1) % WordSize
        /\ answer' = Accepted
        /\ head' = head
    BY <1>1, <1>3, QueueAssumption DEF Push
  <2>2. tail' = tail + 1
    <3>1. tail < MaxTail
      BY DEF Push
    <3>2. tail + 1 \in 0..(WordSize - 1)
      BY <1>1, <3>1, QueueAssumption
    <3>. QED
      BY <2>1, <3>2, QueueAssumption
  <2>3. Content' = Append(Content, v)
    BY <2>1, <2>2, PushAppends
  <2>. QED
    BY <1>1, <2>1, <2>3 DEF Fifo!Push
<1>. QED
  BY <1>2, <1>3

LEMMA PopIsFifoPop ==
  ASSUME MaxTail < WordSize, Inv, Inv', Pop
  PROVE  Fifo!Pop
<1>1. CASE head < tail
  <2>1. /\ answer' = queue[GetIndex(head)]
        /\ head' = (head + 1) % WordSize
        /\ tail' = tail /\ queue' = queue
    BY <1>1 DEF Pop
  <2>2. head' = head + 1
    <3>1. head + 1 \in 0..(WordSize - 1)
      BY <1>1, QueueAssumption DEF Inv, TypeOK, Word
    <3>. QED
      BY <2>1, <3>1, QueueAssumption
  <2>. QED
    BY <1>1, <2>1, <2>2, PopTakesHead DEF Fifo!Pop
<1>2. CASE ~(head < tail)
  <2>1. answer' = Nothing /\ head' = 0 /\ tail' = 0
    BY <1>2 DEF Pop
  <2>2. Content = << >> /\ Content' = << >>
    BY <1>2, <2>1, EmptyContent, NextEmptyContent
  <2>. QED
    BY <2>1, <2>2 DEF Fifo!Pop
<1>. QED
  BY <1>1, <1>2

(* A queue whose counters never wrap around is a bounded FIFO: the circular *)
(* array loses, repeats, reorders and overrides nothing, and refuses a     *)
(* push exactly when the queue is full.                                    *)
THEOREM Refinement ==
  ASSUME MaxTail < WordSize
  PROVE  Spec => ImplementsFifo
<1>1. Spec => []Inv
  BY InitInv, NextInv, PTL DEF Spec
<1>2. ASSUME Inv, Inv', [Next]_vars
      PROVE  [Fifo!Next]_<<Content, answer>>
  <2>1. CASE Pop
    BY <1>2, <2>1, PopIsFifoPop DEF Fifo!Next
  <2>2. ASSUME NEW v \in Values, Push(v)
        PROVE  Fifo!Next
    BY <1>2, <2>2, PushIsFifoPush DEF Fifo!Next
  <2>3. CASE UNCHANGED vars
    BY <2>3, SameContent DEF vars
  <2>. QED
    BY <1>2, <2>1, <2>2, <2>3 DEF Next
<1>. QED
  BY <1>1, <1>2, InitialContent, PTL DEF Spec, ImplementsFifo, Fifo!Spec
=============================================================================
