---------------------------- MODULE FightingPit ----------------------------
(***************************************************************************)
(* fys::arena::FightingPit once it is built: the worker thread passes over *)
(* the battles of the sides and has the participant whose turn it is act,  *)
(* while the main thread forwards the orders of the players and adds the   *)
(* teams that join. No lock separates the two threads.                     *)
(*                                                                         *)
(* The members of all the teams are one sequence, in the order of the      *)
(* teams. Whose turn it is on a side is what SideTurns allows. An action   *)
(* of a member is given its target's status by value: nothing it does      *)
(* outlives the call, so contenders never lose life and are constants.     *)
(***************************************************************************)
EXTENDS TargetSelection, FiniteSets

CONSTANTS
  Users, Creator,  \* players, and who creates the pit
  Started,         \* _end is NOT_FINISHED, nothing ever changes it
  SideBattles,     \* sides of the battles, in the order they are built in
  Team,            \* retrievePartyTeam: life and side of the members, in order
  DoableActions,   \* _actionsDoable of a member: keys, in order
  NameOfKey,       \* getActionNameFromKey
  RequiredTarget,  \* requireTarget of the action of a name
  ContenderSides,  \* side of every contender, in order
  Strategy,        \* whom the script of a contender attacks
  Power,           \* damage of a contender's slash, 30 at level 0
  Orders,          \* a key and a target each: what may be asked of a member
  QueueSize,       \* SIZE_QUEUE of the pending actions
  MaxTeams,        \* bound of the model: teams in the pit
  MaxWaiting       \* bound of the model: members with pending orders

Contenders == 0..(Len(ContenderSides) - 1)

ASSUME PitAssumption ==
  /\ Creator \in Users
  /\ Started \in BOOLEAN
  /\ SideBattles \in Seq(Range(SideBattles))
  /\ IsInjective(SideBattles)
  /\ Len(Team) > 0
  /\ Team \in Seq([life : Nat, side : Range(SideBattles)])
  /\ ContenderSides \in Seq(Range(SideBattles))
  /\ Strategy \in [Contenders -> {"nobody", "lower_life", "higher_life", "one_random"}]
  /\ Power \in Nat \ {0}
  /\ QueueSize \in Nat /\ MaxTeams \in Nat /\ MaxWaiting \in Nat

VARIABLES
  members,      \* members of _partyTeams
  currentId,    \* _currentTeamMemberId
  sideBattles,  \* _sideBattles: the sides in their present order
  listed,       \* participants listed on each side
  turn,         \* whose turn it was on each side
  at,           \* index the worker's pass has reached, 0 between two passes
  popping,      \* member whose queue the worker has just found empty, or 0
  alive,        \* no exception has left the worker's thread
  played,       \* history: turns taken by each side in the current pass
  joined        \* history: a team has joined during the current pass

vars == <<members, currentId, sideBattles, listed, turn, at, popping, alive,
          played, joined>>

Sides == Range(SideBattles)

DefaultParticipant == [id |-> 0, isContender |-> FALSE]

Turns(s) == INSTANCE SideTurns WITH listed <- listed[s], turn <- turn[s]

-----------------------------------------------------------------------------
(* Party teams.                                                            *)

(* The team of a user as the database connector hands it out; who its      *)
(* members are does not depend on the user.                                *)
RetrievePartyTeam(user) ==
  [k \in DOMAIN Team |->
     [user |-> user, life |-> Team[k].life, side |-> Team[k].side, pending |-> << >>]]

\* Slip: every team numbers its members from 1.
NumberedPerTeam(user, ms) ==
  ms \o [k \in DOMAIN Team |->
           [id |-> k, user |-> user, team |-> Len(ms) \div Len(Team) + 1,
            life |-> Team[k].life, side |-> Team[k].side, pending |-> << >>]]

(* The members of the team of a user, numbered after those already there.  *)
WithPartyTeam(user, ms) ==
  LET pt == RetrievePartyTeam(user)
  IN  ms \o [k \in DOMAIN pt |->
               [id |-> Len(ms) + k, user |-> pt[k].user,
                team |-> Len(ms) \div Len(Team) + 1,
                life |-> pt[k].life, side |-> pt[k].side, pending |-> pt[k].pending]]

(* The first member of that id, of any team; 0 if there is none.           *)
SelectMemberById(id) ==
  LET found == {k \in DOMAIN members : members[k].id = id}
  IN  IF found = {} THEN 0 ELSE Min(found)

(* The member of that id in the first team of the user; 0 if there is none.*)
GetSpecificTeamMemberById(user, id) ==
  LET owned == {k \in DOMAIN members : members[k].user = user}
      found == {k \in owned : members[k].team = members[Min(owned)].team
                                /\ members[k].id = id}
  IN  IF owned = {} \/ found = {} THEN 0 ELSE Min(found)

MembersBySide(ms, s) == {ms[k].id : k \in {j \in DOMAIN ms : ms[j].side = s}}

ContendersOnSide(s) == {c \in Contenders : ContenderSides[c + 1] = s}

ContenderOnSide(s) == Cardinality(ContendersOnSide(s))

AllyNumberOnSide(ms, s) == Cardinality({k \in DOMAIN ms : ms[k].side = s})

ActiveCharactersOnSide(ms, s) == ContenderOnSide(s) + AllyNumberOnSide(ms, s)

\* Slip: every member is listed on every side.
ListedWherever(ms, s) ==
  [id : {ms[k].id : k \in DOMAIN ms}, isContender : {FALSE}]
    \cup [id : 0..(Cardinality(ContendersOnSide(s)) - 1), isContender : {TRUE}]

(* Members are listed under their id, contenders under their rank on the   *)
(* side.                                                                   *)
InitialPriorityList(ms, s) ==
  [id : MembersBySide(ms, s), isContender : {FALSE}]
    \cup [id : 0..(Cardinality(ContendersOnSide(s)) - 1), isContender : {TRUE}]

(* The announcer has added the creator's team, then the contenders, then   *)
(* built the battles of the sides.                                         *)
Init ==
  /\ members = WithPartyTeam(Creator, << >>)
  /\ currentId = Len(Team)
  /\ sideBattles = SideBattles
  /\ listed = [s \in Sides |-> InitialPriorityList(members, s)]
  /\ turn = [s \in Sides |-> DefaultParticipant]
  /\ at = 0
  /\ popping = 0
  /\ alive = TRUE
  /\ played = [s \in Sides |-> 0]
  /\ joined = FALSE

-----------------------------------------------------------------------------
(* The main thread.                                                        *)

Waiting == {k \in DOMAIN members : members[k].pending # << >>}

\* Slip: an order there is no room for replaces the oldest one.
AddOverOldestAction(m, order) ==
  LET kept == IF Len(members[m].pending) < QueueSize THEN members[m].pending
              ELSE Tail(members[m].pending)
  IN  /\ Cardinality(Waiting \cup {m}) <= MaxWaiting
      /\ members' = [members EXCEPT ![m].pending = Append(kept, order)]

(* A member without room in his queue ignores the order.                   *)
AddPendingAction(m, order) ==
  /\ Len(members[m].pending) < QueueSize
  /\ Cardinality(Waiting \cup {m}) <= MaxWaiting
  /\ members' = [members EXCEPT ![m].pending = Append(@, order)]

(* The order goes to a member of the user's own team.                      *)
ForwardMessageToTeamMember(user, idMember, order) ==
  /\ alive
  /\ GetSpecificTeamMemberById(user, idMember) # 0
  /\ AddPendingAction(GetSpecificTeamMemberById(user, idMember), order)
  /\ UNCHANGED <<currentId, sideBattles, listed, turn, at, popping, alive,
                 played, joined>>

(* The battles are sorted by the number of characters on their side, in    *)
(* place, wherever the worker has got to. The new team is not listed.      *)
AddPartyTeamAndRegisterActions(user) ==
  /\ alive
  /\ Len(members) < MaxTeams * Len(Team)
  /\ members' = WithPartyTeam(user, members)
  /\ currentId' = currentId + Len(Team)
  /\ sideBattles' \in
       {o \in SetToSeqs(Sides) :
          \A i, j \in DOMAIN o :
            i < j => ActiveCharactersOnSide(members', o[i])
                       <= ActiveCharactersOnSide(members', o[j])}
  /\ joined' = TRUE
  /\ UNCHANGED <<listed, turn, at, popping, alive, played>>

-----------------------------------------------------------------------------
(* The actions.                                                            *)

(* The script map of the actions knows a member's first action only (the   *)
(* insertion of the others finds his entry already there), and under its   *)
(* name, while it is looked up under its key.                              *)
IsRegistered(key) == key = Head(DoableActions) /\ NameOfKey[key] = key

\* Slip: the targets are counted from 1.
ReachesTargetFromOne(order) ==
  LET required == RequiredTarget[NameOfKey[order.key]]
  IN  \/ required \notin {order.target.kind, "ALLY_OR_ENNEMY"}
      \/ order.target.kind = "ENNEMY" /\ order.target.id - 1 \in Contenders
      \/ order.target.kind = "ALLY" /\ SelectMemberById(order.target.id) # 0

(* An action the target's kind does not suit is refused; if it suits, the  *)
(* target has to be there.                                                 *)
ReachesItsTarget(order) ==
  LET required == RequiredTarget[NameOfKey[order.key]]
  IN  \/ required \notin {order.target.kind, "ALLY_OR_ENNEMY"}
      \/ order.target.kind = "ENNEMY" /\ order.target.id \in Contenders
      \/ order.target.kind = "ALLY" /\ SelectMemberById(order.target.id) # 0

(* TeamMember::executeAction: whether the worker survives it.              *)
Executes(order) ==
  order.key \in Range(DoableActions) =>
    IsRegistered(order.key) /\ ReachesItsTarget(order)

Hurt(life) == IF life > Power THEN life - Power ELSE 0

(* The functions of decide_target, among the members on the side; any of   *)
(* those who stand there for the random one, the dead included.            *)
Targets(c) ==
  LET side == ContenderSides[c + 1]
      suitable(comp) == {SelectSuitableOnSideAlive(members, side, comp).id}
  IN  CASE Strategy[c] = "lower_life" -> suitable(LowerLife(members))
        [] Strategy[c] = "higher_life" -> suitable(HigherLife(members))
        [] Strategy[c] = "one_random" -> {m.id : m \in OnSide(members, side)}
        [] OTHER -> {}

(* The slash of a contender on the target its script decides on, if any;   *)
(* there has to be somebody to choose at random from.                      *)
RunScriptedAction(c) ==
  /\ members' \in
       {[k \in DOMAIN members |->
           IF members[k].id = id THEN [members[k] EXCEPT !.life = Hurt(@)]
           ELSE members[k]] : id \in IF Targets(c) = {} THEN {0} ELSE Targets(c)}
  /\ alive' = (Strategy[c] = "one_random" => Targets(c) # {})

-----------------------------------------------------------------------------
(* The worker thread.                                                      *)

(* continueBattle, once checkEndStatusFightingPit lets it through.         *)
StartPass ==
  /\ alive
  /\ Started
  /\ popping = 0
  /\ at = 0
  /\ at' = 1
  /\ played' = [s \in Sides |-> 0]
  /\ joined' = FALSE
  /\ UNCHANGED <<members, currentId, sideBattles, listed, turn, popping, alive>>

\* Slip: an empty side ends the pass.
LeaveAtEmptySide ==
  /\ alive
  /\ popping = 0
  /\ at \in DOMAIN sideBattles
  /\ listed[sideBattles[at]] = {}
  /\ at' = Len(sideBattles) + 1
  /\ UNCHANGED <<members, currentId, sideBattles, listed, turn, popping, alive,
                 played, joined>>

IgnoreEmptySide ==
  /\ alive
  /\ popping = 0
  /\ at \in DOMAIN sideBattles
  /\ listed[sideBattles[at]] = {}
  /\ at' = at + 1
  /\ UNCHANGED <<members, currentId, sideBattles, listed, turn, popping, alive,
                 played, joined>>

(* What every turn starts with: the participant p gets the turn of side s. *)
TakesTurn(s, p) ==
  /\ alive
  /\ popping = 0
  /\ at \in DOMAIN sideBattles
  /\ s = sideBattles[at]
  /\ p \in Turns(s)!Answers
  /\ turn' = [turn EXCEPT ![s] = p]
  /\ played' = [played EXCEPT ![s] = @ + 1]
  /\ UNCHANGED <<currentId, sideBattles, listed, joined>>

(* executeContenderAction: the id is an index among all the contenders.    *)
ContenderActs(s, p) ==
  /\ TakesTurn(s, p)
  /\ p.isContender
  /\ \/ p.id \in Contenders /\ RunScriptedAction(p.id)
     \/ p.id \notin Contenders /\ UNCHANGED <<members, alive>>
  /\ at' = at + 1
  /\ UNCHANGED popping

(* executeAllyAction without such a member.                                *)
NobodyActs(s, p) ==
  /\ TakesTurn(s, p)
  /\ ~p.isContender
  /\ SelectMemberById(p.id) = 0
  /\ at' = at + 1
  /\ UNCHANGED <<members, popping, alive>>

\* Slip: the member keeps the order he executes.
ExecuteKeepingOrder(s, p) ==
  LET m == SelectMemberById(p.id)
  IN  /\ TakesTurn(s, p)
      /\ ~p.isContender
      /\ m # 0
      /\ members[m].pending # << >>
      /\ alive' = Executes(Head(members[m].pending))
      /\ at' = at + 1
      /\ UNCHANGED <<members, popping>>

(* executeAllyAction with an order to execute.                             *)
MemberExecutes(s, p) ==
  LET m == SelectMemberById(p.id)
  IN  /\ TakesTurn(s, p)
      /\ ~p.isContender
      /\ m # 0
      /\ members[m].pending # << >>
      /\ members' = [members EXCEPT ![m].pending = Tail(@)]
      /\ alive' = Executes(Head(members[m].pending))
      /\ at' = at + 1
      /\ UNCHANGED popping

(* executeAllyAction without one: the queue is found empty, and an order   *)
(* may still come before its counters are put back.                        *)
MemberFindsNoOrder(s, p) ==
  LET m == SelectMemberById(p.id)
  IN  /\ TakesTurn(s, p)
      /\ ~p.isContender
      /\ m # 0
      /\ members[m].pending = << >>
      /\ popping' = m
      /\ UNCHANGED <<members, at, alive>>

MemberPutsCountersBack ==
  /\ alive
  /\ popping # 0
  /\ members' = [members EXCEPT ![popping].pending = << >>]
  /\ popping' = 0
  /\ at' = at + 1
  /\ UNCHANGED <<currentId, sideBattles, listed, turn, alive, played, joined>>

EndPass ==
  /\ alive
  /\ popping = 0
  /\ at > Len(sideBattles)
  /\ at' = 0
  /\ UNCHANGED <<members, currentId, sideBattles, listed, turn, popping, alive,
                 played, joined>>

Turn(s, p) ==
  \/ ContenderActs(s, p)
  \/ NobodyActs(s, p)
  \/ MemberExecutes(s, p)
  \/ MemberFindsNoOrder(s, p)

Worker ==
  \/ StartPass
  \/ IgnoreEmptySide
  \/ \E s \in Sides : \E p \in Turns(s)!Answers : Turn(s, p)
  \/ MemberPutsCountersBack
  \/ EndPass

Main ==
  \/ \E user \in Users, order \in Orders :
       \E id \in 0..currentId : ForwardMessageToTeamMember(user, id, order)
  \/ \E user \in Users : AddPartyTeamAndRegisterActions(user)

Next == Worker \/ Main

Spec == Init /\ [][Next]_vars

ListedAtFirst(s) == InitialPriorityList(WithPartyTeam(Creator, << >>), s)

(* The worker's loop never stops by itself, and every id listed on a side  *)
(* keeps being given turns, to one or another of those who share it        *)
(* (EveryoneKeepsPlaying of SideBattle).                                   *)
Fairness ==
  /\ WF_vars(Worker)
  /\ \A s \in Sides : \A id \in {p.id : p \in ListedAtFirst(s)} :
       SF_vars(\E p \in ListedAtFirst(s) : p.id = id /\ Turn(s, p))

FairSpec == Spec /\ Fairness

-----------------------------------------------------------------------------
(* Properties.                                                             *)

(* A member is found under the id the sides list him with, whichever teams *)
(* have joined, and nobody has the id of the default participant.          *)
MembersAreFoundById ==
  \A k \in DOMAIN members :
    /\ SelectMemberById(members[k].id) = k
    /\ members[k].id \in 1..currentId

(* Whoever has the turn of a side stands on it: a fight on one side is     *)
(* never played from another.                                              *)
TurnsStayOnTheirSide ==
  \A s \in Sides :
    \/ turn[s] = DefaultParticipant
    \/ turn[s].isContender /\ turn[s].id \in ContendersOnSide(s)
    \/ ~turn[s].isContender /\ members[SelectMemberById(turn[s].id)].side = s

SidesHavePlayedOnce ==
  at > Len(sideBattles) =>
    \A s \in Sides : played[s] = IF listed[s] = {} THEN 0 ELSE 1

(* Every side somebody was listed on is played once in every pass of the   *)
(* worker, the others never, unless a team joins during the pass.          *)
EverySidePlaysOncePerPass == ~joined => SidesHavePlayedOnce

(* It is not so when a team joins: it has the battles sorted under the     *)
(* worker's feet, see the configuration PitJoined.                         *)
SidesPlayOnceWhoeverJoins == SidesHavePlayedOnce

OnTheSide(s) == {k \in DOMAIN members : members[k].side = s}

ContenderAttacks(c) ==
  /\ Strategy[c] = "lower_life"
  /\ \E s \in Sides :
       /\ played'[s] = played[s] + 1
       /\ turn'[s] = [id |-> c, isContender |-> TRUE]

LosesLife(k) == members'[k].life < members[k].life

(* As long as nobody has died, the first member stands on the side of the  *)
(* contender and nobody elsewhere is as weak as someone there, his attack  *)
(* hits one of the weakest of that side.                                   *)
UntilADeathTheWeakestIsHit ==
  [][\A c \in Contenders :
       LET s == ContenderSides[c + 1]
       IN  /\ ContenderAttacks(c)
           /\ members[1].side = s
           /\ \A k \in DOMAIN members :
                /\ members[k].life > 0
                /\ members[k].side # s =>
                     \A j \in OnTheSide(s) : members[j].life < members[k].life
           => \A k \in OnTheSide(s) :
                \E j \in OnTheSide(s) :
                  LosesLife(j) /\ members[j].life <= members[k].life]_vars

TakesOrder(k) ==
  members[k].pending # << >> /\ members'[k].pending = Tail(members[k].pending)

GetsTheTurn(k) ==
  \E s \in Sides :
    /\ played'[s] = played[s] + 1
    /\ turn'[s] = [id |-> members[k].id, isContender |-> FALSE]

(* Orders stay in the queue of a member, in their order and whichever come *)
(* after them, until he takes the oldest one in a turn of his own; only    *)
(* those that come while his turn finds the queue empty are lost.          *)
OrdersLeaveByBeingTaken ==
  [][\A k \in DOMAIN members :
       \/ IsPrefix(members[k].pending, members'[k].pending)
       \/ TakesOrder(k) /\ GetsTheTurn(k)
       \/ k = popping]_vars

FirstActionOnSomebody(order) ==
  /\ order.key = Head(DoableActions)
  /\ NameOfKey[order.key] = order.key
  /\ order.target.kind = "ENNEMY" /\ order.target.id \in Contenders

(* Nothing ends the worker but an order for another action than a member's *)
(* first one, or on somebody who is not there, and a contender that is to  *)
(* attack anybody where nobody stands: with orders of the first kind, the  *)
(* worker lives.                                                           *)
OnlyBadOrdersEndTheWorker ==
  [][alive /\ ~alive' =>
       \/ \E k \in DOMAIN members :
            TakesOrder(k) /\ ~FirstActionOnSomebody(Head(members[k].pending))
       \/ \E c \in Contenders :
            Strategy[c] = "one_random" /\ OnTheSide(ContenderSides[c + 1]) = {}]_vars

(* Contenders are ranked on their side from 0.                             *)
SharesHisId(k) == k < ContenderOnSide(Team[k].side)

(* The orders of a member who was there when the pit was built, and shares *)
(* his id with no contender of his side, keep being taken, as long as the  *)
(* worker lives.                                                           *)
OrdersKeepBeingTaken ==
  \A k \in {j \in DOMAIN Team : ~SharesHisId(j)} :
    \/ <>~alive
    \/ []<>(members[k].pending = << >>)
    \/ []<><<TakesOrder(k)>>_vars
=============================================================================
