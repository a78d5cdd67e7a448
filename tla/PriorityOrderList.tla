------------------------- MODULE PriorityOrderList -------------------------
(***************************************************************************)
(* fys::arena::PriorityOrderList: who plays next on one side of a fighting *)
(* pit. The priority list is the current turn, last player first; when it  *)
(* is used up the next turn is computed from the analysed list, in which   *)
(* every participant holds the speed he has left.                          *)
(*                                                                         *)
(* The code compares participants by id alone, so does the model. The sort *)
(* is stable, as std::sort is on lists as short as these.                  *)
(***************************************************************************)
EXTENDS Integers, Sequences, SequencesExt

CONSTANTS
  Participants,  \* what identifies them: records of an id and isContender
  Speeds,        \* initial speeds
  MaxRounds,     \* bound of the model: rounds a computation of a turn may take
  MaxChanges     \* bound of the model: participants added or removed

ASSUME PriorityAssumption ==
  /\ IsFiniteSet(Participants)
  /\ Participants \subseteq [id : Nat, isContender : BOOLEAN]
  /\ Speeds \subseteq Nat
  /\ MaxRounds \in Nat \ {0}
  /\ MaxChanges \in Nat

VARIABLES
  baseSpeed,     \* _baseSpeed, slowest first
  priorityList,  \* _priorityList, the next to play last
  analyzedList,  \* _analyzedList
  currentPrio,   \* _currentPrio
  currentTurn,   \* _currentTurn, of which only 0 and more than 0 are told apart
  endless,       \* a call is still computing a turn after MaxRounds rounds
  changes        \* history: number of participants added or removed

lists == <<baseSpeed, priorityList, analyzedList>>
vars == <<lists, currentPrio, currentTurn, endless, changes>>

PriorityElem(p, s) == [id |-> p.id, speed |-> s, isContender |-> p.isContender]

NoParticipant == [id |-> 0, speed |-> 0, isContender |-> FALSE]

SameParticipant(e, f) == e.id = f.id /\ e.isContender = f.isContender

-----------------------------------------------------------------------------
(* The computation of a turn.                                              *)

WithId(s, id) == {k \in DOMAIN s : s[k].id = id}

(* Sorted by increasing speed, equal speeds in their former order.         *)
SortedBySpeed(s) ==
  LET NotAfter(j, k) == \/ s[j].speed < s[k].speed
                        \/ s[j].speed = s[k].speed /\ j <= k
      Rank(k) == Cardinality({j \in DOMAIN s : NotAfter(j, k)})
  IN  [n \in DOMAIN s |-> s[CHOOSE k \in DOMAIN s : Rank(k) = n]]

ReversedBetween(s, a, b) ==
  SubSeq(s, 1, a - 1) \o Reverse(SubSeq(s, a, b)) \o SubSeq(s, b + 1, Len(s))

(* Neighbours of equal speed in the wrong order of base speed are searched *)
(* in the whole list, the end of their group from its beginning: when that *)
(* end comes before them, std::reverse is given a backward range, which    *)
(* its loop on random access iterators leaves alone.                       *)
EqualsReordered(base, s) ==
  LET Pairs == 1..(Len(s) - 1)
      BaseSpeedOf(id) ==
        IF WithId(base, id) = {} THEN 0 ELSE base[Max(WithId(base, id))].speed
      misplaced ==
        {k \in Pairs : /\ s[k].speed = s[k + 1].speed
                       /\ BaseSpeedOf(s[k].id) > BaseSpeedOf(s[k + 1].id)}
      groupEnds == {k \in Pairs : s[k].speed # s[k + 1].speed}
  IN  IF \/ misplaced = {} \/ groupEnds = {}
         \/ Min(groupEnds) < Min(misplaced) THEN s
      ELSE ReversedBetween(s, Min(misplaced), Min(groupEnds))

CustomSort(base, analyzed) == EqualsReordered(base, SortedBySpeed(analyzed))

\* Slip: a slower participant without speed left makes playing free.
ComputedSpeedMaybeZero(base, analyzed, id) ==
  LET slowerId(k) == base[IF k = 1 THEN Len(base) ELSE k - 1].id
      found == {k \in WithId(base, id) : WithId(analyzed, slowerId(k)) # {}}
  IN  IF found = {} THEN 1
      ELSE analyzed[Min(WithId(analyzed, slowerId(Min(found))))].speed

\* Slip: playing costs as little as it may.
ComputedSpeedOfOne(base, analyzed, id) == 1

(* What playing costs: the speed left to the next slower participant, the  *)
(* fastest one for the slowest, and at least 1 for a speed of 0.           *)
ComputedSpeed(base, analyzed, id) ==
  LET slowerId(k) == base[IF k = 1 THEN Len(base) ELSE k - 1].id
      found == {k \in WithId(base, id) : WithId(analyzed, slowerId(k)) # {}}
      left == analyzed[Min(WithId(analyzed, slowerId(Min(found))))].speed
  IN  IF found = {} \/ left = 0 THEN 1 ELSE left

FastestBaseSpeed(base) == base[Len(base)].speed

\* Slip: the first of the analysed list gets nothing.
RestedButFirst(base, turn) ==
  LET Gain(k) == base[Min(WithId(base, turn.analyzed[k].id))].speed + FastestBaseSpeed(base)
      rested == [k \in DOMAIN turn.analyzed |->
                   IF k = 1 THEN turn.analyzed[k]
                   ELSE [turn.analyzed[k] EXCEPT !.speed = @ + Gain(k)]]
  IN  IF Len(base) <= 1 THEN [turn EXCEPT !.complete = TRUE]
      ELSE [complete |-> TRUE,
            analyzed |-> CustomSort(base, rested),
            priority |-> Reverse(turn.priority)]

(* Every base element gives its speed and the fastest one to the first     *)
(* analysed element of its id.                                             *)
EndTurnRoutine(base, turn) ==
  LET Gain(k) ==
        MapThenSumSet(LAMBDA b : base[b].speed + FastestBaseSpeed(base),
                      {b \in WithId(base, turn.analyzed[k].id) :
                         k = Min(WithId(turn.analyzed, base[b].id))})
      rested == [k \in DOMAIN turn.analyzed |->
                   [turn.analyzed[k] EXCEPT !.speed = @ + Gain(k)]]
  IN  IF Len(base) <= 1 THEN [turn EXCEPT !.complete = TRUE]
      ELSE [complete |-> TRUE,
            analyzed |-> CustomSort(base, rested),
            priority |-> Reverse(turn.priority)]

\* Slip: the turn ends with the fastest of the base.
EndedByFastest(base, turn) ==
  IF base[Len(base)].id = Last(turn.analyzed).id
  THEN EndTurnRoutine(base, turn) ELSE turn

IsPlayerSlowest(base, id) == base[1].id = id

(* The turn is complete when the slowest of the base has played.           *)
EndedBySlowest(base, turn) ==
  IF IsPlayerSlowest(base, Last(turn.analyzed).id)
  THEN EndTurnRoutine(base, turn) ELSE turn

\* Slip: whoever plays is taken for a member.
PlayedAsMember(base, sorted, priority) ==
  LET member == [Last(sorted) EXCEPT !.speed = @ - 1, !.isContender = FALSE]
  IN  [complete |-> FALSE, analyzed |-> Append(Front(sorted), member),
       priority |-> Append(priority, member)]

(* The fastest, last in a sorted list, plays and pays for it.              *)
Played(base, sorted, priority) ==
  LET cost == IF Len(sorted) > 1
              THEN ComputedSpeed(base, sorted, Last(sorted).id) ELSE 0
      fastest == [Last(sorted) EXCEPT !.speed = @ - cost]
  IN  [complete |-> FALSE, analyzed |-> Append(Front(sorted), fastest),
       priority |-> Append(priority, fastest)]

(* One call of calculatePriority.                                          *)
Round(base, turn) ==
  EndedBySlowest(base, Played(base, CustomSort(base, turn.analyzed),
                              turn.priority))

(* The rounds it takes to complete a turn, at most MaxRounds of them.      *)
CalculatePriority(base, analyzed) ==
  LET rounds[n \in 0..MaxRounds] ==
        IF n = 0 THEN [complete |-> FALSE, analyzed |-> analyzed, priority |-> << >>]
        ELSE LET turn == rounds[n - 1]
             IN  IF turn.complete THEN turn ELSE Round(base, turn)
  IN  rounds[MaxRounds]

WithBase(sorted, turn) ==
  [complete |-> turn.complete, base |-> sorted,
   analyzed |-> turn.analyzed, priority |-> turn.priority]

(* sortBaseAndCalculatePriority on lists that are not empty: what it       *)
(* leaves in the three lists, and whether it ends.                         *)
SortBaseAndCalculatePriority(base, analyzed) ==
  LET sorted == SortedBySpeed(base)
  IN  IF currentTurn = 0
      THEN [complete |-> TRUE, base |-> sorted, analyzed |-> sorted,
            priority |-> sorted]
      ELSE WithBase(sorted, CalculatePriority(sorted, analyzed))

-----------------------------------------------------------------------------
(* The operations.                                                         *)

(* Built empty, or by the constructor that takes the base speeds.          *)
Init ==
  /\ \/ baseSpeed = << >> /\ currentTurn = 0
     \/ \E s \in [Participants -> Speeds] :
          /\ baseSpeed = SortedBySpeed(SetToSeq({PriorityElem(p, s[p]) :
                                                   p \in Participants}))
          /\ currentTurn = 1
  /\ analyzedList = baseSpeed
  /\ priorityList = baseSpeed
  /\ currentPrio = NoParticipant
  /\ endless = FALSE
  /\ changes = 0

(* Whoever joins a running fight gets the fastest speed on top of his own. *)
(* It is read off the end of the base, where he was just put: his own.     *)
WithJoiner(base, elem) ==
  Append(analyzedList,
         IF currentTurn > 0
         THEN [elem EXCEPT !.speed = @ + FastestBaseSpeed(base)] ELSE elem)

(* Adding restarts the turn; the turn number is put back, so what is added *)
(* before the first turn is computed as if it had always been there.       *)
AddParticipantInList(p, s) ==
  LET elem == PriorityElem(p, s)
      base == Append(baseSpeed, elem)
  IN  /\ ~endless
      /\ changes < MaxChanges
      /\ \A k \in DOMAIN baseSpeed : ~SameParticipant(baseSpeed[k], elem)
      /\ \E turn \in {SortBaseAndCalculatePriority(base,
                                                    WithJoiner(base, elem))} :
           /\ baseSpeed' = turn.base
           /\ priorityList' = turn.priority
           /\ analyzedList' = turn.analyzed
           /\ endless' = ~turn.complete
      /\ changes' = changes + 1
      /\ UNCHANGED <<currentPrio, currentTurn>>

(* The elements of the list that do not have that id.                      *)
Others(s, id) ==
  FoldLeft(LAMBDA kept, e : IF e.id = id THEN kept ELSE Append(kept, e), << >>, s)

\* Slip: the removed participant stays in the analysed list.
RemoveKeepingAnalyzed(id) ==
  /\ ~endless
  /\ changes < MaxChanges
  /\ WithId(baseSpeed, id) # {}
  /\ baseSpeed' = Others(baseSpeed, id)
  /\ priorityList' = Others(priorityList, id)
  /\ changes' = changes + 1
  /\ UNCHANGED <<analyzedList, currentPrio, currentTurn, endless>>

(* Removing takes every element of that id out of the three lists.         *)
RemoveParticipantFromList(id) ==
  /\ ~endless
  /\ changes < MaxChanges
  /\ WithId(baseSpeed, id) # {}
  /\ baseSpeed' = Others(baseSpeed, id)
  /\ priorityList' = Others(priorityList, id)
  /\ analyzedList' = Others(analyzedList, id)
  /\ changes' = changes + 1
  /\ UNCHANGED <<currentPrio, currentTurn, endless>>

\* Slip: the first of the list plays, the last is taken out.
GetNextOfOtherEnd ==
  /\ ~endless
  /\ baseSpeed # << >>
  /\ \/ /\ priorityList # << >>
        /\ currentPrio' = Head(priorityList)
        /\ priorityList' = Front(priorityList)
        /\ UNCHANGED <<baseSpeed, analyzedList, currentTurn, endless, changes>>
     \/ /\ priorityList = << >>
        /\ \E turn \in {SortBaseAndCalculatePriority(baseSpeed, analyzedList)} :
             /\ currentPrio' = Head(turn.priority)
             /\ priorityList' = Front(turn.priority)
             /\ baseSpeed' = turn.base
             /\ analyzedList' = turn.analyzed
             /\ endless' = ~turn.complete
        /\ currentTurn' = 1
        /\ UNCHANGED changes

(* The next participant, of a new turn when the last one is used up.       *)
GetNext ==
  /\ ~endless
  /\ baseSpeed # << >>
  /\ \/ /\ priorityList # << >>
        /\ currentPrio' = Last(priorityList)
        /\ priorityList' = Front(priorityList)
        /\ UNCHANGED <<baseSpeed, analyzedList, currentTurn, endless, changes>>
     \/ /\ priorityList = << >>
        /\ \E turn \in {SortBaseAndCalculatePriority(baseSpeed, analyzedList)} :
             /\ currentPrio' = Last(turn.priority)
             /\ priorityList' = Front(turn.priority)
             /\ baseSpeed' = turn.base
             /\ analyzedList' = turn.analyzed
             /\ endless' = ~turn.complete
        /\ currentTurn' = 1
        /\ UNCHANGED changes

Next ==
  \/ GetNext
  \/ \E p \in Participants :
       \/ RemoveParticipantFromList(p.id)
       \/ \E s \in Speeds : AddParticipantInList(p, s)

Spec == Init /\ [][Next]_vars

(* The worker keeps asking for the next participant. With fewer than two   *)
(* of them asking ends up changing nothing: those behaviours, of no        *)
(* interest for who plays, are left out.                                   *)
Fairness == []<><<GetNext>>_vars

-----------------------------------------------------------------------------
(* Properties.                                                             *)

Named(e) == [id |-> e.id, isContender |-> e.isContender]

NamesOf(s) == {Named(e) : e \in Range(s)}

Listed == NamesOf(baseSpeed)

(* The three lists speak of the same participants, each once in the base   *)
(* and in the analysed list: whoever was removed never plays.              *)
ListsAgree ==
  /\ NamesOf(analyzedList) = Listed
  /\ NamesOf(priorityList) \subseteq Listed
  /\ Cardinality(Listed) = Len(baseSpeed)
  /\ Len(analyzedList) = Len(baseSpeed)

(* Every computation of a turn ends: the slowest gets to play, which is    *)
(* what ends the recursion of calculatePriority.                           *)
TurnsEnd == ~endless

(* Between the calls nobody owes speed, and what is left to a participant  *)
(* stays within so many times the fastest speed, a bound that grows with   *)
(* the changes made in the middle of turns and not with the turns: speed   *)
(* does not build up from turn to turn until the int overflows.            *)
SpeedsStayBounded ==
  \A k \in DOMAIN analyzedList :
    analyzedList[k].speed \in 0..((48 + 19 * changes) * Max(Speeds))

(* The places of a turn that has just been computed.                       *)
NewTurn == IF baseSpeed' = baseSpeed THEN Append(priorityList', currentPrio')
                                     ELSE priorityList'

TurnIsComputed == priorityList = << >> /\ priorityList' # << >>

(* A new turn is closed by somebody of the slowest participant's id, an id *)
(* being all the computation goes by: a member and a contender may share   *)
(* one. But for the first turn, where everybody has a place, that is the   *)
(* only place of the id.                                                   *)
SlowestIdClosesTheTurn ==
  [][TurnIsComputed =>
       \A k \in DOMAIN NewTurn :
         IF k = 1 THEN NewTurn[k].id = Head(baseSpeed').id
         ELSE currentTurn = 0 \/ NewTurn[k].id # Head(baseSpeed').id]_vars

(* A new turn is closed by the slowest participant himself, who plays only *)
(* once in it ("the slowest pit participant played sign the completion of  *)
(* the current turn"); it is not, see the configuration PrioritySharedIds. *)
SlowestClosesTheTurn ==
  [][TurnIsComputed =>
       \A k \in DOMAIN NewTurn :
         SameParticipant(NewTurn[k], Head(baseSpeed')) <=> k = 1]_vars

(* Every id in the list keeps being given turns.                           *)
NobodyStarves ==
  \A id \in {p.id : p \in Participants} :
    []<>(currentPrio.id = id \/ WithId(baseSpeed, id) = {})

(* So does every participant; whoever shares his id may not, see the       *)
(* configuration PriorityStarving.                                         *)
NoParticipantStarves ==
  \A p \in Participants :
    []<>(\/ SameParticipant(currentPrio, p)
         \/ \A k \in DOMAIN baseSpeed : ~SameParticipant(baseSpeed[k], p))
=============================================================================
