----------------------------- MODULE SizedQueue -----------------------------
(***************************************************************************)
(* fys::common::SizedQueue, the queue of the pending actions of a team     *)
(* member: an array used circularly, with a head and a tail counter that   *)
(* only go back to 0 when a pop finds the queue empty. Counters are        *)
(* unsigned: they count modulo WordSize.                                   *)
(***************************************************************************)
EXTENDS Integers, Sequences

CONSTANTS
  Values,                      \* elements
  SIZE_QUEUE,                  \* slots of the array
  WordSize,                    \* 2 ^ width of uint
  MaxTail,                     \* bound of the model: value the tail may reach
  Nothing, Accepted, Refused   \* nullopt, true and false

\* The static_assert of the class, and the domain of the bound.
ASSUME QueueAssumption ==
  /\ SIZE_QUEUE \in Nat \ {0}
  /\ WordSize \in Nat \ {0}
  /\ SIZE_QUEUE < WordSize
  /\ MaxTail \in 0..WordSize

VARIABLES
  head, tail,  \* _head and _tail
  queue,       \* _queue, Nothing in the slots never written
  answer       \* what the last call returned

vars == <<head, tail, queue, answer>>

Word == 0..(WordSize - 1)
Slots == 0..(SIZE_QUEUE - 1)

Init ==
  /\ head = 0
  /\ tail = 0
  /\ queue = [s \in Slots |-> Nothing]
  /\ answer = Nothing

Size == (tail - head) % WordSize

GetIndex(n) == n % SIZE_QUEUE

Push(v) ==
  /\ tail < MaxTail
  /\ \/ /\ Size >= SIZE_QUEUE
        /\ answer' = Refused
        /\ UNCHANGED <<head, tail, queue>>
     \/ /\ Size < SIZE_QUEUE
        /\ queue' = [queue EXCEPT ![GetIndex(tail)] = v]
        /\ tail' = (tail + 1) % WordSize
        /\ answer' = Accepted
        /\ UNCHANGED head

\* Slip: finding the queue empty only puts the head back.
PopForgettingTail ==
  \/ /\ head < tail
     /\ answer' = queue[GetIndex(head)]
     /\ head' = (head + 1) % WordSize
     /\ UNCHANGED <<tail, queue>>
  \/ /\ ~(head < tail)
     /\ head' = 0
     /\ answer' = Nothing
     /\ UNCHANGED <<tail, queue>>

Pop ==
  \/ /\ head < tail
     /\ answer' = queue[GetIndex(head)]
     /\ head' = (head + 1) % WordSize
     /\ UNCHANGED <<tail, queue>>
  \/ /\ ~(head < tail)
     /\ head' = 0
     /\ tail' = 0
     /\ answer' = Nothing
     /\ UNCHANGED queue

Next == Pop \/ \E v \in Values : Push(v)

Spec == Init /\ [][Next]_vars

-----------------------------------------------------------------------------
(* Every variable has its type, and the counters delimit at most the slots *)
(* of the array.                                                           *)
TypeOK ==
  /\ head \in Word
  /\ tail \in Word
  /\ queue \in [Slots -> Values \cup {Nothing}]
  /\ answer \in Values \cup {Nothing, Accepted, Refused}

(* The queue seen as a sequence: the Size slots from head on.              *)
Content == [k \in 1..Size |-> queue[GetIndex(head + k - 1)]]

Fifo == INSTANCE BoundedFifo WITH
          Capacity <- SIZE_QUEUE, content <- Content, answer <- answer

(* As long as the tail counter does not wrap around, the circular array    *)
(* behaves as a bounded FIFO: no value is lost, overridden, repeated or    *)
(* reordered, and a push is refused exactly when the queue is full.        *)
ImplementsFifo == Fifo!Spec

(* The head never overtakes the tail, which is at most one turn ahead.     *)
CountersInOrder == head <= tail /\ tail - head <= SIZE_QUEUE
=============================================================================
