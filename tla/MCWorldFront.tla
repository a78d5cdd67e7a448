---------------------------- MODULE MCWorldFront ----------------------------
(***************************************************************************)
(* Two zones behind a dispatcher for the model checker: a registered       *)
(* player in the last of three slots, a stranger, and a map smaller than   *)
(* its boundaries.                                                         *)
(***************************************************************************)
EXTENDS WorldFront

TwoServers == {"WS00", "WS01"}
OneGroup == {"WS00"}
OneTopic == {"PM"}

Message(first, token, action, internal) ==
  [first |-> first, token |-> token, action |-> action, internal |-> internal]

FromClients ==
  {Message(<<"WS00", "#1">>, "ann", a, FALSE) : a \in {"east", "north", "Interruption"}}
    \cup {Message(<<"WS00", "#1">>, "bob", "east", FALSE),
          Message(<<"WS00", "#1">>, "ann", "Other", FALSE),
          Message(<<"WS01", "#1">>, "ann", "east", FALSE)}

FromCluster == {Message(<<"WS00", "PM">>, "ann", "Interruption", TRUE)}

OnePlayer == [t \in {"ann"} |-> 2]
AllIdentities == {<<"WS00", "#1">>, <<"WS01", "#1">>}
AllDirections == {"east", "north"}
SmallWorld == [code |-> "WS00", begin_x |-> 0, end_x |-> 3, begin_y |-> 0, end_y |-> 3]
TwoLayers ==
  {[properties |-> {"collision"},
    boxes |-> {[left |-> 0, width |-> 1, top |-> 1, height |-> 1]}],
   [properties |-> {"trigger"},
    boxes |-> {[left |-> 0, width |-> 1, top |-> 0, height |-> 1]}]}
=============================================================================
