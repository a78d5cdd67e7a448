----------------------------- MODULE SideTurns -----------------------------
(***************************************************************************)
(* What the battle of a side promises the worker: a turn is always that of *)
(* one of the participants listed on the side, or still that of the        *)
(* default participant the side is built with.                             *)
(***************************************************************************)
EXTENDS FiniteSets

CONSTANT DefaultParticipant

VARIABLES
  listed,  \* participants listed on the side
  turn     \* whose turn it was at the last call

Init == listed = {} /\ turn = DefaultParticipant

List(p) ==
  /\ listed' = listed \cup {p}
  /\ UNCHANGED turn

(* What a call may answer.                                                 *)
Answers == IF listed = {} THEN {} ELSE listed \cup {turn}

GetCurrentParticipantTurn ==
  /\ turn' \in Answers
  /\ UNCHANGED listed

Next == GetCurrentParticipantTurn \/ \E p \in listed' : List(p)

Spec == Init /\ [][Next]_<<listed, turn>>

TurnIsListed == turn \in listed \cup {DefaultParticipant}
=============================================================================
