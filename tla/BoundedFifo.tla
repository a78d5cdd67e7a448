---------------------------- MODULE BoundedFifo ----------------------------
(***************************************************************************)
(* What fys::common::SizedQueue promises: a first-in first-out queue that  *)
(* holds at most Capacity values, refuses the values that do not fit       *)
(* instead of overriding older ones, and answers nothing when it is empty. *)
(***************************************************************************)
EXTENDS Naturals, Sequences

CONSTANTS Values, Capacity, Nothing, Accepted, Refused

VARIABLES content, answer

Init == content = << >> /\ answer = Nothing

Push(v) ==
  \/ /\ Len(content) < Capacity
     /\ content' = Append(content, v)
     /\ answer' = Accepted
  \/ /\ Len(content) >= Capacity
     /\ answer' = Refused
     /\ UNCHANGED content

Pop ==
  \/ /\ content # << >>
     /\ answer' = Head(content)
     /\ content' = Tail(content)
  \/ /\ content = << >>
     /\ answer' = Nothing
     /\ UNCHANGED content

Next == Pop \/ \E v \in Values : Push(v)

Spec == Init /\ [][Next]_<<content, answer>>
=============================================================================
