----------------------------- MODULE SideBattle -----------------------------
(***************************************************************************)
(* fys::arena::SideBattle: the clock in front of the priority list of one  *)
(* side. The participants of the side are listed when the pit is built;    *)
(* from then on the worker asks, at every pass of its loop, whose turn it  *)
(* is, and a participant keeps his turn for the interlude of the pit.      *)
(***************************************************************************)
EXTENDS PriorityOrderList

CONSTANT Level  \* level of the pit

(* _timeInterlude, in ticks of five seconds.                               *)
RetrieveTimeInterludeFromLevelDegree(level) ==
  CASE level = "EASY" -> 4
    [] level = "MEDIUM" -> 2
    [] level = "HARD" -> 1
    [] OTHER -> 0

Interlude == RetrieveTimeInterludeFromLevelDegree(Level)

VARIABLES
  started,    \* _started
  remaining,  \* _endCurrentTurn - now, 0 once it is reached
  answer      \* whose turn it was at the last call

sideVars == <<vars, started, remaining, answer>>

SideInit ==
  /\ Init
  /\ currentTurn = 0  \* the list of a side is built empty
  /\ started = FALSE
  /\ remaining = 0
  /\ answer = NoParticipant

(* FightingPit::initializePriorityListInSidesBattle.                       *)
InitializePriorityList(p, s) ==
  /\ ~started
  /\ AddParticipantInList(p, s)
  /\ UNCHANGED <<started, remaining, answer>>

\* Slip: every pass ends the turn.
PassEndsTurn ==
  /\ baseSpeed # << >>
  /\ started' = TRUE
  /\ remaining' = Interlude
  /\ GetNext
  /\ answer' = currentPrio'

\* Slip: every pass takes the next participant, only the answer is timed.
PassTakesNext ==
  LET left == IF started THEN remaining ELSE Interlude
  IN  /\ baseSpeed # << >>
      /\ started' = TRUE
      /\ GetNext
      /\ \/ /\ left > 0
            /\ remaining' = left
            /\ answer' = answer
         \/ /\ left = 0
            /\ remaining' = Interlude
            /\ answer' = currentPrio'

(* The worker skips the sides where nobody stands.                         *)
GetCurrentParticipantTurn ==
  LET left == IF started THEN remaining ELSE Interlude
  IN  /\ baseSpeed # << >>
      /\ started' = TRUE
      /\ \/ /\ left > 0
            /\ remaining' = left
            /\ answer' = currentPrio
            /\ UNCHANGED vars
         \/ /\ left = 0
            /\ remaining' = Interlude
            /\ GetNext
            /\ answer' = currentPrio'

TimePasses ==
  /\ started
  /\ remaining > 0
  /\ remaining' = remaining - 1
  /\ UNCHANGED <<vars, started, answer>>

SideNext ==
  \/ GetCurrentParticipantTurn
  \/ TimePasses
  \/ \E p \in Participants, s \in Speeds : InitializePriorityList(p, s)

SideSpec == SideInit /\ [][SideNext]_sideVars

(* Time goes on and the worker keeps passing by, once the side has at      *)
(* least two participants (see Fairness).                                  *)
SideFairSpec ==
  /\ SideSpec
  /\ []<><<TimePasses>>_sideVars
  /\ []<><<GetCurrentParticipantTurn>>_sideVars

-----------------------------------------------------------------------------
(* Properties.                                                             *)

(* What the worker is promised; only participants listed get turns, as     *)
(* what they are listed as.                                                *)
Side == INSTANCE SideTurns WITH
          DefaultParticipant <- Named(NoParticipant),
          listed <- Listed,
          turn <- Named(answer)

(* The clock and the turn order behind it keep that promise.               *)
ImplementsSideTurns == Side!Spec

(* A participant keeps his turn for the whole interlude: the answer only   *)
(* changes when it is over, and a new one starts then.                     *)
TurnsLastTheInterlude ==
  [][answer' # answer => remaining = 0 /\ remaining' = Interlude]_sideVars

(* From the first turn on it is the turn of somebody who is listed; it is  *)
(* not, see the configuration SideBattleFirstTurn.                         *)
AnswerIsAParticipant ==
  started => \E k \in DOMAIN baseSpeed : SameParticipant(answer, baseSpeed[k])

WithIdOf(p) == {q \in Listed : q.id = p.id}

(* Whoever was listed when the pit was built keeps being given turns, or   *)
(* somebody with whom he shares his id does: he himself when he shares it  *)
(* with nobody.                                                            *)
EveryoneKeepsPlaying ==
  \A p \in Participants : []<>(p \notin Listed \/ Named(answer) \in WithIdOf(p))
=============================================================================
