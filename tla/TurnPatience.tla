---------------------------- MODULE TurnPatience ----------------------------
(***************************************************************************)
(* How long an id of PriorityOrderList waits for a place in a turn: a      *)
(* history variable counts, for every participant, the turns in a row in   *)
(* which nobody of his id has a place.                                     *)
(***************************************************************************)
EXTENDS PriorityOrderList

VARIABLE passedOver  \* history: turns in a row without a place for his id

countedVars == <<vars, passedOver>>

(* Bound of the history: more turns than anybody may be passed over in.    *)
TooLong == (48 + 19 * MaxChanges) * Max(Speeds) + 1

OneMore(n) == IF n = TooLong THEN n ELSE n + 1

(* A turn with places for the ids has been computed.                       *)
CountTurn(ids) ==
  passedOver' = [p \in Participants |->
                   IF p \in Listed /\ p.id \notin ids THEN OneMore(passedOver[p])
                   ELSE 0]

IdsOf(turn) == {turn[k].id : k \in DOMAIN turn}

CountedInit == Init /\ passedOver = [p \in Participants |-> 0]

CountedNext ==
  \/ /\ GetNext
     /\ \/ priorityList # << >> /\ UNCHANGED passedOver
        \/ /\ priorityList = << >>
           /\ CountTurn(IdsOf(Append(priorityList', currentPrio')))
  \/ \E p \in Participants :
       \/ RemoveParticipantFromList(p.id) /\ UNCHANGED passedOver
       \/ \E s \in Speeds : /\ AddParticipantInList(p, s)
                            /\ CountTurn(IdsOf(priorityList'))

CountedSpec == CountedInit /\ [][CountedNext]_countedVars

CountedFairSpec == CountedSpec /\ Fairness

(* No id is passed over for long: in at most as many turns in a row as it  *)
(* takes to gain the most that can be left to anybody. Changes, which      *)
(* restart turns, add to that bound.                                       *)
NobodyWaitsLong ==
  \A p \in Listed : passedOver[p] <= (48 + 19 * changes) * Max(Speeds)
=============================================================================
