--------------------------- MODULE MCTurnPatience ---------------------------
(***************************************************************************)
(* The participants of MCPriorityOrderList, with the history of the turns. *)
(***************************************************************************)
EXTENDS MCPriorityOrderList, TurnPatience
=============================================================================
