---------------------------- MODULE ArenaServer ----------------------------
(***************************************************************************)
(* The admission side of an arena server: what its main thread does with   *)
(* the messages of the dispatcher and of the players                       *)
(* (ArenaServerService::runServerLoop and the WorkerService it owns).      *)
(*                                                                         *)
(* A world server announces a player under a token; the player then        *)
(* authenticates with that token, which creates a fighting pit or joins    *)
(* one; from there on the messages of the player are in-game messages.     *)
(* One iteration of the loop handles at most one message of each side and  *)
(* the loop is the only caller of the handlers, so a handler is one step.  *)
(*                                                                         *)
(* The environment is open: any peer may send any message at any time,     *)
(* hence a message may be lost, repeated, late, or overtake another one.   *)
(* A message that leaves every variable unchanged (a registration under a  *)
(* token already awaited, a join of a pit that does not exist, an in-game  *)
(* message of a stranger, a malformed multipart) is not an action.         *)
(***************************************************************************)
EXTENDS Integers, FiniteSets, Sequences

CONSTANTS
  Users,              \* user names
  Tokens,             \* authentication tokens given by the world servers
  Identities,         \* routing identities of the players' connections
  Zones,              \* codes of the world servers
  RegisteredZones,    \* the zones the encounter context describes
  NoName,             \* the empty user name or token
  NoZone,             \* no pit to generate: the player joins one
  NotAwaited,         \* no entry under a token
  MaxArenaId,         \* numeric_limits<unsigned>::max(), the last arena id
  MaxRegistrations,   \* bound of the model: registrations accepted
  EndDereference,     \* what reading through the end iterator may do
  FailedBuilding,     \* how the building of a pit may fail
  SentMultipart       \* how sending a multipart may leave it

CREATION_ERROR == 0

\* The constants make sense; unsigned arithmetic has at least the ids 0 and 1.
ASSUME ServerAssumption ==
  /\ MaxArenaId \in Nat \ {0}
  /\ MaxRegistrations \in Nat
  /\ RegisteredZones \subseteq Zones
  /\ NoZone \notin Zones
  /\ EndDereference \subseteq {"crash", "refused"}
  /\ FailedBuilding \subseteq {"crash", "refused"}
  /\ SentMultipart \in (SUBSET {"intact", "emptied"}) \ {{}}

PitIds == 0..MaxArenaId

AwaitingPlayerArena ==
  [user : Users, pit : PitIds, gen : Zones \cup {NoZone}]

ASSUME NotAwaitedAssumption == NotAwaited \notin AwaitingPlayerArena

PlayerIdentifier == [user : Users, identity : Identities]

VARIABLES
  running,         \* the process is alive
  awaiting,        \* _awaitingArena: what is awaited under each token
  currentArenaId,  \* _currentArenaId
  arenaInstances,  \* the keys of _arenaInstances
  authenticated,   \* _authenticatedPlayers of each pit
  partyTeams,      \* the owners of the party teams of each pit, in order
  identifiers,     \* _arenaIdOnIdentifier
  forwarded,       \* history: the pits and users an in-game message reached
  registrations,   \* history: number of registrations accepted
  refusals         \* history: number of pits whose creation failed

pitVars == <<currentArenaId, arenaInstances, authenticated, partyTeams,
             identifiers>>
vars == <<running, awaiting, pitVars, forwarded, registrations, refusals>>

Init ==
  /\ running = TRUE
  /\ awaiting = [t \in Tokens |-> NotAwaited]
  /\ currentArenaId = 0
  /\ arenaInstances = {}
  /\ authenticated = [p \in PitIds |-> {}]
  /\ partyTeams = [p \in PitIds |-> << >>]
  /\ identifiers = [p \in PitIds |-> {}]
  /\ forwarded = {}
  /\ registrations = 0
  /\ refusals = 0

-----------------------------------------------------------------------------
(* What the handlers ask.                                                  *)

DoesFightingPitExist(p) == p \in arenaInstances

HasToBeGenerated(apa) == apa.pit = 0 /\ apa.gen # NoZone

IsPlayerAwaited(u, t, p) ==
  /\ awaiting[t] # NotAwaited
  /\ awaiting[t].user = u
  /\ awaiting[t].pit = p

\* Slip: whoever names a pit that exists plays in it.
AnyoneParticipates(p, u, t) == TRUE

IsPlayerParticipant(p, u, t) == <<u, t>> \in authenticated[p]

(* The pit is handed out to its participants only.                         *)
GetAuthenticatedPlayerFightingPit(p, u, t) ==
  DoesFightingPitExist(p) /\ IsPlayerParticipant(p, u, t)

Owners(teams) == {teams[k] : k \in DOMAIN teams}

HasPartyTeam(p, u) == u \in Owners(partyTeams[p])

(* A pit can be built for a named creator in a registered zone.            *)
Buildable(apa, t) ==
  apa.user # NoName /\ t # NoName /\ apa.gen \in RegisteredZones

\* Slip: the worker takes any number of pits.
WorkerNeverFull == FALSE

WorkerFull == Cardinality(arenaInstances) >= MaxArenaId

(* The loop of addFightingPit: increment, in unsigned arithmetic, until    *)
(* the counter is 0 or free.                                               *)
Incremented(n) == (currentArenaId + n) % (MaxArenaId + 1)

StopsAt(n) == Incremented(n) = 0 \/ Incremented(n) \notin arenaInstances

NextArenaId ==
  Incremented(CHOOSE n \in 1..(MaxArenaId + 1) :
                StopsAt(n) /\ \A k \in 1..(n - 1) : ~StopsAt(k))

-----------------------------------------------------------------------------
(* What the handlers change.                                               *)

WithIdentifier(known, u, i) ==
  LET own == {r \in known : r.user = u}
      new == [user |-> u, identity |-> i]
  IN  IF own = {} THEN known \cup {new}
      ELSE (known \ {CHOOSE r \in own : TRUE}) \cup {new}

\* Slip: only the pits already registered take identifiers.
IdentifyInRegisteredPit(p, u, i) ==
  identifiers' = IF p \in arenaInstances
                 THEN [identifiers EXCEPT ![p] = WithIdentifier(@, u, i)]
                 ELSE identifiers

(* playerJoinFightingPit: the team enters the pit it is meant for.         *)
PlayerJoinFightingPit(p, u) ==
  /\ partyTeams' = [partyTeams EXCEPT ![p] = Append(@, u)]
  /\ UNCHANGED <<currentArenaId, arenaInstances, authenticated>>

\* Slip: the identifier goes to the pit created last.
IdentifyInLatestPit(p, u, i) ==
  identifiers' = [identifiers EXCEPT ![currentArenaId] = WithIdentifier(@, u, i)]

AddPlayerIdentifier(p, u, i) ==
  identifiers' = [identifiers EXCEPT ![p] = WithIdentifier(@, u, i)]

(* broadCastNewArrivingTeam is noexcept: an exception ends the process.    *)
(* getPartyTeamOfPlayer throws for a user without a team; broadcastMsg     *)
(* takes the part it rewrites for each receiver out of a message that the  *)
(* previous send may have emptied.                                         *)
BroadCastNewArrivingTeam(p, u) ==
  \E multipart \in SentMultipart :
    running' = /\ p \in arenaInstances'
               /\ u \in Owners(partyTeams'[p])
               /\ multipart = "emptied" => Cardinality(identifiers'[p]) <= 1

-----------------------------------------------------------------------------
(* The handlers.                                                           *)

\* Slip: a second registration under a token replaces the first one.
RegisterOverFormerPlayer(u, t, p, z) ==
  LET apa == [user |-> u, pit |-> p, gen |-> IF p = 0 THEN z ELSE NoZone]
  IN  /\ running
      /\ registrations < MaxRegistrations
      /\ HasToBeGenerated(apa) \/ DoesFightingPitExist(p)
      /\ awaiting' = [awaiting EXCEPT ![t] = apa]
      /\ registrations' = registrations + 1
      /\ UNCHANGED <<running, pitVars, forwarded, refusals>>

(* Dispatcher handler: the player is awaited under a fresh token.          *)
RegisterAwaitedPlayer(u, t, p, z) ==
  LET apa == [user |-> u, pit |-> p, gen |-> IF p = 0 THEN z ELSE NoZone]
  IN  /\ running
      /\ registrations < MaxRegistrations
      /\ HasToBeGenerated(apa) \/ DoesFightingPitExist(p)
      /\ awaiting[t] = NotAwaited
      /\ awaiting' = [awaiting EXCEPT ![t] = apa]
      /\ registrations' = registrations + 1
      /\ UNCHANGED <<running, pitVars, forwarded, refusals>>

(* Authentication handler, the player is not awaited: the pit id is read   *)
(* through the end iterator before the test that refuses the player.       *)
RefuseAuthentication(u, t, p) ==
  /\ running
  /\ ~IsPlayerAwaited(u, t, p)
  /\ \E outcome \in EndDereference : running' = (outcome = "refused")
  /\ UNCHANGED <<awaiting, pitVars, forwarded, registrations, refusals>>

(* Authentication handler, the player is awaited and a pit is generated.   *)
CreateFightingPit(i, u, t, p) ==
  /\ running
  /\ IsPlayerAwaited(u, t, p)
  /\ HasToBeGenerated(awaiting[t])
  /\ Buildable(awaiting[t], t)
  /\ ~WorkerFull
  /\ LET id == NextArenaId
     IN  /\ currentArenaId' = id
         /\ arenaInstances' = arenaInstances \cup {id}
         /\ authenticated' = [authenticated EXCEPT ![id] = {<<u, t>>}]
         /\ partyTeams' = [partyTeams EXCEPT ![id] = <<u>>]
         /\ AddPlayerIdentifier(id, u, i)
         /\ BroadCastNewArrivingTeam(id, u)
  /\ awaiting' = [awaiting EXCEPT ![t] = NotAwaited]
  /\ UNCHANGED <<forwarded, registrations, refusals>>

\* Slip: after a failed creation the player is still awaited.
FailKeepingToken(u, t, p) ==
  /\ running
  /\ IsPlayerAwaited(u, t, p)
  /\ HasToBeGenerated(awaiting[t])
  /\ UNCHANGED vars

(* Authentication handler, the pit cannot be generated: it is not          *)
(* buildable, a contender script fails to set up, or the worker is full.   *)
FailFightingPitCreation(u, t, p) ==
  /\ running
  /\ IsPlayerAwaited(u, t, p)
  /\ HasToBeGenerated(awaiting[t])
  /\ ~Buildable(awaiting[t], t) \/ WorkerFull \/ "refused" \in FailedBuilding
  /\ awaiting' = [awaiting EXCEPT ![t] = NotAwaited]
  /\ refusals' = refusals + 1
  /\ UNCHANGED <<running, pitVars, forwarded, registrations>>

(* Authentication handler, an exception leaves the building of a pit, be   *)
(* the worker full or not: createNewFightingPit is noexcept, the process   *)
(* ends before the token is erased.                                        *)
ThrowInFightingPitCreation(u, t, p) ==
  /\ running
  /\ IsPlayerAwaited(u, t, p)
  /\ HasToBeGenerated(awaiting[t])
  /\ Buildable(awaiting[t], t)
  /\ "crash" \in FailedBuilding
  /\ running' = FALSE
  /\ UNCHANGED <<awaiting, pitVars, forwarded, registrations, refusals>>

\* Slip: the player who joined is still awaited.
JoinKeepingToken(i, u, t, p) ==
  /\ running
  /\ IsPlayerAwaited(u, t, p)
  /\ ~HasToBeGenerated(awaiting[t])
  /\ DoesFightingPitExist(p)
  /\ PlayerJoinFightingPit(p, u)
  /\ AddPlayerIdentifier(p, u, i)
  /\ BroadCastNewArrivingTeam(p, u)
  /\ UNCHANGED <<awaiting, forwarded, registrations, refusals>>

\* Slip: the player joins and his team does not.
JoinWithoutTeam(i, u, t, p) ==
  /\ running
  /\ IsPlayerAwaited(u, t, p)
  /\ ~HasToBeGenerated(awaiting[t])
  /\ DoesFightingPitExist(p)
  /\ awaiting' = [awaiting EXCEPT ![t] = NotAwaited]
  /\ AddPlayerIdentifier(p, u, i)
  /\ UNCHANGED <<currentArenaId, arenaInstances, authenticated, partyTeams>>
  /\ BroadCastNewArrivingTeam(p, u)
  /\ UNCHANGED <<forwarded, registrations, refusals>>

(* Authentication handler, the player joins the pit he is awaited in.      *)
JoinFightingPit(i, u, t, p) ==
  /\ running
  /\ IsPlayerAwaited(u, t, p)
  /\ ~HasToBeGenerated(awaiting[t])
  /\ DoesFightingPitExist(p)
  /\ PlayerJoinFightingPit(p, u)
  /\ awaiting' = [awaiting EXCEPT ![t] = NotAwaited]
  /\ AddPlayerIdentifier(p, u, i)
  /\ BroadCastNewArrivingTeam(p, u)
  /\ UNCHANGED <<forwarded, registrations, refusals>>

(* In-game handler: the message of a participant is handed to his pit.     *)
HandleInGameMessage(u, t, p) ==
  /\ running
  /\ GetAuthenticatedPlayerFightingPit(p, u, t)
  /\ forwarded' = forwarded \cup {<<p, u>>}
  /\ UNCHANGED <<running, awaiting, pitVars, registrations, refusals>>

(* The loop of the server polls the dispatcher, then the players, for at   *)
(* most one message each; nothing is known of the order they come in.      *)
PollAndProcessMessageFromDispatcher ==
  \E u \in Users, t \in Tokens, p \in PitIds, z \in Zones :
    RegisterAwaitedPlayer(u, t, p, z)

PollAndProcessMessageFromPlayer ==
  \E u \in Users, t \in Tokens, p \in PitIds :
    \/ RefuseAuthentication(u, t, p)
    \/ \E i \in Identities : CreateFightingPit(i, u, t, p)
    \/ FailFightingPitCreation(u, t, p)
    \/ ThrowInFightingPitCreation(u, t, p)
    \/ \E i \in Identities : JoinFightingPit(i, u, t, p)
    \/ HandleInGameMessage(u, t, p)

Next == PollAndProcessMessageFromDispatcher \/ PollAndProcessMessageFromPlayer

Spec == Init /\ [][Next]_vars

(* A player that keeps authenticating until he is answered: the loop polls *)
(* the players forever, so his message is handled in the end.              *)
SettleAwaited(t) ==
  \E u \in Users, p \in PitIds :
    \/ \E i \in Identities : CreateFightingPit(i, u, t, p)
    \/ FailFightingPitCreation(u, t, p)
    \/ ThrowInFightingPitCreation(u, t, p)
    \/ \E i \in Identities : JoinFightingPit(i, u, t, p)

FairSpec == Spec /\ \A t \in Tokens : WF_vars(SettleAwaited(t))

-----------------------------------------------------------------------------
(* Properties.                                                             *)

(* Every variable has its type.                                            *)
TypeOK ==
  /\ running \in BOOLEAN
  /\ awaiting \in [Tokens -> AwaitingPlayerArena \cup {NotAwaited}]
  /\ currentArenaId \in PitIds
  /\ arenaInstances \in SUBSET PitIds
  /\ authenticated \in [PitIds -> SUBSET (Users \X Tokens)]
  /\ partyTeams \in [PitIds -> Seq(Users)]
  /\ identifiers \in [PitIds -> SUBSET PlayerIdentifier]
  /\ forwarded \in SUBSET (PitIds \X Users)
  /\ registrations \in 0..MaxRegistrations
  /\ refusals \in Nat

(* The ids given to pits are 1, 2, ... in order: never CREATION_ERROR,     *)
(* never one that is in use, and no wrap-around of the unsigned counter    *)
(* even when the worker is full (WorkerService::addFightingPit).           *)
PitIdsAreDense == arenaInstances = (CREATION_ERROR + 1)..currentArenaId

(* A pit is registered only when it is ready to host its creator: he is    *)
(* the one authenticated player, he leads the party teams and he can be    *)
(* reached (the announcer builds the pit before the worker takes it).      *)
RegisteredPitsAreReady ==
  \A p \in arenaInstances :
    \E u \in Users, t \in Tokens :
      /\ authenticated[p] = {<<u, t>>}
      /\ partyTeams[p] # << >> /\ partyTeams[p][1] = u
      /\ \E r \in identifiers[p] : r.user = u

(* A player is awaited either to create a pit in a zone or to join a pit   *)
(* that exists: the second existence test of the authentication handler,   *)
(* whose failure would leave the token awaited forever, never fails.       *)
AwaitedPitsExist ==
  \A t \in Tokens :
    awaiting[t] # NotAwaited =>
      IF awaiting[t].pit = 0 THEN awaiting[t].gen \in Zones
      ELSE awaiting[t].gen = NoZone /\ awaiting[t].pit \in arenaInstances

(* Nothing is recorded of a pit that does not exist: an id taken later     *)
(* starts from a clean slate.                                              *)
UnusedPitsAreEmpty ==
  \A p \in PitIds \ arenaInstances :
    authenticated[p] = {} /\ partyTeams[p] = << >> /\ identifiers[p] = {}

(* Whoever is reached by the broadcasts of a pit has a party team in it,   *)
(* the precondition that WorkerService::broadCastNewArrivingTeam leaves to *)
(* its caller.                                                             *)
IdentifiedPlayersHaveTeams ==
  \A p \in PitIds : \A r \in identifiers[p] : HasPartyTeam(p, r.user)

(* A player is known to a pit under one connection, the last one he        *)
(* authenticated from, however often he comes back.                        *)
OneIdentifierPerPlayer ==
  \A p \in PitIds : \A r, s \in identifiers[p] : r.user = s.user => r = s

(* The in-game messages handed to a pit are those of players who own a     *)
(* party team in it.                                                       *)
ForwardedPlayersHaveTeams ==
  \A x \in forwarded : x[1] \in arenaInstances /\ HasPartyTeam(x[1], x[2])

\* The players still awaited, and the places of the party teams in the pits.
AwaitedTokens == {t \in Tokens : awaiting[t] # NotAwaited}
TeamPlaces == UNION {{p} \X DOMAIN partyTeams[p] : p \in PitIds}

(* Every registration accepted is in one place: still awaited, turned into *)
(* a party team, or spent on a pit that could not be created. None is lost *)
(* and none is counted twice, whatever is repeated or reordered.           *)
RegistrationsAreAccountedFor ==
  registrations = Cardinality(AwaitedTokens) + refusals + Cardinality(TeamPlaces)

(* The process outlives every message.                                     *)
ServerSurvives == running

(* A registered pit is never replaced or emptied: its players stay its     *)
(* players and its teams only grow at the end.                             *)
PitsAreNeverReplaced ==
  [][\A p \in arenaInstances :
       /\ p \in arenaInstances'
       /\ authenticated'[p] = authenticated[p]
       /\ Len(partyTeams'[p]) >= Len(partyTeams[p])
       /\ \A k \in DOMAIN partyTeams[p] :
            partyTeams'[p][k] = partyTeams[p][k]]_vars

(* A party team enters a pit only against a token, which is used up by the *)
(* same step: it was awaited for that very player and for that pit, or for *)
(* a pit to be generated if the pit is new.                                *)
AdmissionConsumesToken ==
  [][\A p \in PitIds :
       partyTeams'[p] # partyTeams[p] =>
         \E t \in Tokens :
           /\ awaiting[t] # NotAwaited
           /\ awaiting' = [awaiting EXCEPT ![t] = NotAwaited]
           /\ partyTeams'[p] = Append(partyTeams[p], awaiting[t].user)
           /\ awaiting[t].pit = IF p \in arenaInstances THEN p ELSE 0]_vars

(* The ways to end the process, and no other: a player nobody awaits, the  *)
(* building of a pit, which leaves the tables as they were, and a team     *)
(* announced to more than one player. No broadcast ever misses the pit or  *)
(* the team it asks for.                                                   *)
OnlyThreeWaysToEnd ==
  [][running /\ ~running' =>
       \/ "crash" \in EndDereference /\ UNCHANGED <<awaiting, pitVars>>
       \/ /\ "crash" \in FailedBuilding
          /\ \E t \in Tokens :
               /\ awaiting[t] # NotAwaited
               /\ HasToBeGenerated(awaiting[t]) /\ Buildable(awaiting[t], t)
          /\ UNCHANGED <<awaiting, pitVars>>
       \/ /\ "emptied" \in SentMultipart
          /\ \E p \in arenaInstances :
               /\ partyTeams'[p] # partyTeams[p]
               /\ \E r, s \in identifiers'[p] : r # s]_vars

(* An awaited player who keeps authenticating is settled, and one awaited  *)
(* in a pit gets his party team there, unless the process ends before.     *)
AwaitedIsSettled ==
  \A t \in Tokens :
    awaiting[t] # NotAwaited ~> awaiting[t] = NotAwaited \/ ~running

AwaitedJoinerIsAdmitted ==
  \A t \in Tokens, u \in Users, p \in PitIds \ {0} :
    IsPlayerAwaited(u, t, p) ~> HasPartyTeam(p, u) \/ ~running

(* Every player with a party team in a pit may play there: one of his      *)
(* tokens makes him a participant.                                         *)
TeamOwnersMayPlay ==
  \A p \in arenaInstances : \A k \in DOMAIN partyTeams[p] :
    \E t \in Tokens : IsPlayerParticipant(p, partyTeams[p][k], t)
=============================================================================
