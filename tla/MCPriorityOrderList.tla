------------------------ MODULE MCPriorityOrderList ------------------------
(***************************************************************************)
(* Participants for the model checker.                                     *)
(***************************************************************************)
EXTENDS PriorityOrderList

Member(n) == [id |-> n, isContender |-> FALSE]
Contender(n) == [id |-> n, isContender |-> TRUE]

(* A contender and members whose ids all differ.                           *)
DistinctIds == {Contender(0), Member(1), Member(2)}

(* Contenders are numbered from 0 on each side, members from 1 on: the     *)
(* second contender and the first member share their id.                   *)
SharedIds == {Contender(0), Contender(1), Member(1)}
=============================================================================
