---------------------------- MODULE MCSideBattle ----------------------------
(***************************************************************************)
(* Participants for the model checker.                                     *)
(***************************************************************************)
EXTENDS SideBattle

Members == {[id |-> n, isContender |-> FALSE] : n \in 1..2}
Contenders == {[id |-> n, isContender |-> TRUE] : n \in 0..1}

(* As in a pit: the second contender has the id of the first member.       *)
SideParticipants == Members \cup Contenders
=============================================================================
