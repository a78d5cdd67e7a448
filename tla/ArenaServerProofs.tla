------------------------- MODULE ArenaServerProofs -------------------------
(***************************************************************************)
(* What ArenaServer guarantees for any number of players, tokens, pits and *)
(* registrations, and whatever the undefined steps of the code do.         *)
(***************************************************************************)
EXTENDS ArenaServer, FiniteSetTheorems, TLAPS

(* The inductive invariant. Density of the ids makes the next id fresh;    *)
(* the emptiness of unused pits makes the players of a fresh pit exactly   *)
(* its creator; the existence of the awaited pits makes a join meet a pit  *)
(* whose broadcast list is covered by its teams.                           *)
IInv ==
  /\ TypeOK
  /\ PitIdsAreDense
  /\ RegisteredPitsAreReady
  /\ AwaitedPitsExist
  /\ UnusedPitsAreEmpty
  /\ IdentifiedPlayersHaveTeams
  /\ OneIdentifierPerPlayer
  /\ ForwardedPlayersHaveTeams

-----------------------------------------------------------------------------
(* The worker accepts a pit only while an id is left.                      *)
LEMMA RoomForAnId ==
  ASSUME TypeOK, PitIdsAreDense, ~WorkerFull
  PROVE  currentArenaId + 1 <= MaxArenaId
<1>1. currentArenaId \in Nat
  BY ServerAssumption DEF TypeOK, PitIds
<1>2. Cardinality(arenaInstances) = currentArenaId
  BY <1>1, FS_Interval DEF PitIdsAreDense, CREATION_ERROR
<1>. QED
  BY <1>1, <1>2, ServerAssumption DEF WorkerFull, TypeOK, PitIds

(* The search of addFightingPit ends at its first increment, on the id     *)
(* after the last one given.                                               *)
LEMMA NextIdIsFresh ==
  ASSUME TypeOK, PitIdsAreDense, ~WorkerFull
  PROVE  /\ NextArenaId = currentArenaId + 1
         /\ NextArenaId \in PitIds \ {0}
         /\ NextArenaId \notin arenaInstances
<1>1. /\ currentArenaId \in Nat
      /\ currentArenaId + 1 \in Nat
      /\ currentArenaId + 1 < MaxArenaId + 1
      /\ MaxArenaId + 1 \in Nat
  BY RoomForAnId, ServerAssumption DEF TypeOK, PitIds
<1>2. Incremented(1) = currentArenaId + 1
  BY <1>1, SMT DEF Incremented
<1>3. StopsAt(1)
  BY <1>1, <1>2 DEF StopsAt, PitIdsAreDense, CREATION_ERROR
<1>. DEFINE First(n) == StopsAt(n) /\ \A k \in 1..(n - 1) : ~StopsAt(k)
<1>4. First(1)
  BY <1>3
<1>5. \A n \in 1..(MaxArenaId + 1) : First(n) => n = 1
  BY <1>1, <1>3
<1>6. 1 \in 1..(MaxArenaId + 1)
  BY <1>1
<1>. HIDE DEF First
<1>7. (CHOOSE n \in 1..(MaxArenaId + 1) : First(n)) = 1
  BY <1>4, <1>5, <1>6
<1>8. NextArenaId = currentArenaId + 1
  BY <1>2, <1>7 DEF NextArenaId, First
<1>9. arenaInstances = 1..currentArenaId
  BY DEF PitIdsAreDense, CREATION_ERROR
<1>. QED
  BY <1>1, <1>8, <1>9, ServerAssumption DEF PitIds

(* Recording a connection keeps one record per player: the others keep     *)
(* theirs and this player gets the new one.                                *)
LEMMA WithIdentifierKeepsOne ==
  ASSUME NEW known \in SUBSET PlayerIdentifier,
         NEW u \in Users, NEW i \in Identities,
         \A r, s \in known : r.user = s.user => r = s
  PROVE  /\ WithIdentifier(known, u, i) \in SUBSET PlayerIdentifier
         /\ [user |-> u, identity |-> i] \in WithIdentifier(known, u, i)
         /\ \A r \in WithIdentifier(known, u, i) :
              r.user = u \/ r \in known
         /\ \A r, s \in WithIdentifier(known, u, i) :
              r.user = s.user => r = s
<1>. DEFINE own == {r \in known : r.user = u}
            new == [user |-> u, identity |-> i]
<1>1. new \in PlayerIdentifier /\ new.user = u
  BY DEF PlayerIdentifier
<1>2. CASE own = {}
  BY <1>1, <1>2 DEF WithIdentifier
<1>3. CASE own # {}
  <2>1. PICK r \in own : r = (CHOOSE x \in own : TRUE)
    BY <1>3
  <2>2. WithIdentifier(known, u, i) = (known \ {r}) \cup {new}
    BY <1>3, <2>1 DEF WithIdentifier
  <2>3. \A s \in known \ {r} : s.user # u
    BY <2>1
  <2>. QED
    BY <1>1, <2>2, <2>3
<1>. QED
  BY <1>2, <1>3
-----------------------------------------------------------------------------
LEMMA InitIInv == Init => IInv
  BY ServerAssumption
  DEF Init, IInv, TypeOK, PitIdsAreDense, RegisteredPitsAreReady,
      AwaitedPitsExist, UnusedPitsAreEmpty, IdentifiedPlayersHaveTeams,
      OneIdentifierPerPlayer, ForwardedPlayersHaveTeams, PitIds,
      CREATION_ERROR, HasPartyTeam, Owners

(* Only the pits matter to the parts of the invariant about pits.          *)
PitInv ==
  /\ PitIdsAreDense
  /\ RegisteredPitsAreReady
  /\ UnusedPitsAreEmpty
  /\ IdentifiedPlayersHaveTeams
  /\ OneIdentifierPerPlayer

LEMMA PitInvDependsOnPits == PitInv /\ UNCHANGED pitVars => PitInv'
  BY DEF PitInv, pitVars, PitIdsAreDense, RegisteredPitsAreReady,
         UnusedPitsAreEmpty, IdentifiedPlayersHaveTeams,
         OneIdentifierPerPlayer, HasPartyTeam, Owners

LEMMA RegisterKeepsIInv ==
  ASSUME IInv, NEW u \in Users, NEW t \in Tokens, NEW p \in PitIds,
         NEW z \in Zones, RegisterAwaitedPlayer(u, t, p, z)
  PROVE  IInv'
<1>. DEFINE apa == [user |-> u, pit |-> p, gen |-> IF p = 0 THEN z ELSE NoZone]
<1>. USE DEF IInv, RegisterAwaitedPlayer
<1>1. /\ apa \in AwaitingPlayerArena
      /\ awaiting' = [awaiting EXCEPT ![t] = apa]
  BY DEF AwaitingPlayerArena
<1>2. TypeOK'
  BY <1>1, ServerAssumption DEF TypeOK, pitVars
<1>3. PitInv'
  BY PitInvDependsOnPits DEF PitInv
<1>4. AwaitedPitsExist'
  <2>1. p # 0 => p \in arenaInstances
    BY DEF HasToBeGenerated, DoesFightingPitExist
  <2>2. IF apa.pit = 0 THEN apa.gen \in Zones
        ELSE apa.gen = NoZone /\ apa.pit \in arenaInstances
    BY <2>1
  <2>. QED
    BY <1>1, <2>2 DEF AwaitedPitsExist, TypeOK, pitVars
<1>5. ForwardedPlayersHaveTeams'
  BY DEF ForwardedPlayersHaveTeams, HasPartyTeam, Owners, pitVars
<1>. QED
  BY <1>2, <1>3, <1>4, <1>5 DEF PitInv

LEMMA RefuseKeepsIInv ==
  ASSUME IInv, NEW u \in Users, NEW t \in Tokens, NEW p \in PitIds,
         RefuseAuthentication(u, t, p)
  PROVE  IInv'
<1>. USE DEF IInv, RefuseAuthentication
<1>1. TypeOK'
  BY DEF TypeOK, pitVars
<1>2. PitInv'
  BY PitInvDependsOnPits DEF PitInv
<1>. QED
  BY <1>1, <1>2 DEF PitInv, AwaitedPitsExist, ForwardedPlayersHaveTeams,
                    HasPartyTeam, Owners, pitVars

LEMMA FailKeepsIInv ==
  ASSUME IInv, NEW u \in Users, NEW t \in Tokens, NEW p \in PitIds,
         FailFightingPitCreation(u, t, p)
  PROVE  IInv'
<1>. USE DEF IInv, FailFightingPitCreation
<1>1. TypeOK'
  BY DEF TypeOK, pitVars
<1>2. PitInv'
  BY PitInvDependsOnPits DEF PitInv
<1>3. AwaitedPitsExist'
  BY DEF AwaitedPitsExist, TypeOK, pitVars
<1>. QED
  BY <1>1, <1>2, <1>3 DEF PitInv, ForwardedPlayersHaveTeams,
                          HasPartyTeam, Owners, pitVars

LEMMA ThrowKeepsIInv ==
  ASSUME IInv, NEW u \in Users, NEW t \in Tokens, NEW p \in PitIds,
         ThrowInFightingPitCreation(u, t, p)
  PROVE  IInv'
<1>. USE DEF IInv, ThrowInFightingPitCreation
<1>1. TypeOK'
  BY DEF TypeOK, pitVars
<1>2. PitInv'
  BY PitInvDependsOnPits DEF PitInv
<1>. QED
  BY <1>1, <1>2 DEF PitInv, AwaitedPitsExist, ForwardedPlayersHaveTeams,
                    HasPartyTeam, Owners, pitVars

LEMMA InGameKeepsIInv ==
  ASSUME IInv, NEW u \in Users, NEW t \in Tokens, NEW p \in PitIds,
         HandleInGameMessage(u, t, p)
  PROVE  IInv'
<1>. USE DEF IInv, HandleInGameMessage,
         GetAuthenticatedPlayerFightingPit
<1>1. TypeOK'
  BY DEF TypeOK, pitVars
<1>2. PitInv'
  BY PitInvDependsOnPits DEF PitInv
<1>3. AwaitedPitsExist'
  BY DEF AwaitedPitsExist, pitVars
<1>4. HasPartyTeam(p, u) /\ p \in arenaInstances
  <2>1. p \in arenaInstances /\ <<u, t>> \in authenticated[p]
    BY DEF DoesFightingPitExist, IsPlayerParticipant
  <2>2. partyTeams[p] # << >> /\ partyTeams[p][1] = u
    BY <2>1 DEF RegisteredPitsAreReady
  <2>3. 1 \in DOMAIN partyTeams[p]
    BY <2>2 DEF TypeOK
  <2>. QED
    BY <2>1, <2>2, <2>3 DEF HasPartyTeam, Owners
<1>5. ForwardedPlayersHaveTeams'
  BY <1>4 DEF ForwardedPlayersHaveTeams, HasPartyTeam, Owners, pitVars
<1>. QED
  BY <1>1, <1>2, <1>3, <1>5 DEF PitInv

LEMMA CreateKeepsIInv ==
  ASSUME IInv, NEW i \in Identities, NEW u \in Users, NEW t \in Tokens,
         NEW p \in PitIds, CreateFightingPit(i, u, t, p)
  PROVE  IInv'
<1>. DEFINE id == currentArenaId + 1
<1>. USE DEF IInv
<1>1. /\ NextArenaId = id
      /\ id \in PitIds \ {0}
      /\ id \notin arenaInstances
  BY NextIdIsFresh DEF CreateFightingPit
<1>2. /\ currentArenaId' = id
      /\ arenaInstances' = arenaInstances \cup {id}
      /\ authenticated' = [authenticated EXCEPT ![id] = {<<u, t>>}]
      /\ partyTeams' = [partyTeams EXCEPT ![id] = <<u>>]
      /\ identifiers' = [identifiers EXCEPT
                           ![id] = WithIdentifier(identifiers[id], u, i)]
      /\ running' \in BOOLEAN
      /\ awaiting' = [awaiting EXCEPT ![t] = NotAwaited]
      /\ UNCHANGED <<forwarded, registrations, refusals>>
  BY <1>1 DEF CreateFightingPit, AddPlayerIdentifier,
              BroadCastNewArrivingTeam
<1>3. /\ identifiers'[id] \in SUBSET PlayerIdentifier
      /\ [user |-> u, identity |-> i] \in identifiers'[id]
      /\ \A r \in identifiers'[id] : r.user = u
      /\ \A r, s \in identifiers'[id] : r.user = s.user => r = s
  <2>1. id \in PitIds \ arenaInstances
    BY <1>1
  <2>2. identifiers[id] = {}
    BY <2>1 DEF UnusedPitsAreEmpty
  <2>3. identifiers'[id] = WithIdentifier({}, u, i)
    BY <1>1, <1>2, <2>2 DEF TypeOK
  <2>4. /\ WithIdentifier({}, u, i) \in SUBSET PlayerIdentifier
        /\ [user |-> u, identity |-> i] \in WithIdentifier({}, u, i)
        /\ \A r \in WithIdentifier({}, u, i) : r.user = u \/ r \in {}
        /\ \A r, s \in WithIdentifier({}, u, i) : r.user = s.user => r = s
    BY WithIdentifierKeepsOne
  <2>. QED
    BY <2>3, <2>4
<1>4. \A q \in PitIds \ {id} :
        /\ authenticated'[q] = authenticated[q]
        /\ partyTeams'[q] = partyTeams[q]
        /\ identifiers'[q] = identifiers[q]
  BY <1>2 DEF TypeOK
<1>5. authenticated'[id] = {<<u, t>>} /\ partyTeams'[id] = <<u>>
  BY <1>1, <1>2 DEF TypeOK
<1>6. TypeOK'
  <2>1. identifiers' \in [PitIds -> SUBSET PlayerIdentifier]
    BY <1>2, <1>3, <1>4 DEF TypeOK
  <2>2. partyTeams' \in [PitIds -> Seq(Users)]
    <3>1. <<u>> \in Seq(Users)
      OBVIOUS
    <3>. QED
      BY <1>2, <3>1 DEF TypeOK
  <2>3. authenticated' \in [PitIds -> SUBSET (Users \X Tokens)]
    <3>1. {<<u, t>>} \in SUBSET (Users \X Tokens)
      OBVIOUS
    <3>. QED
      BY <1>2, <3>1 DEF TypeOK
  <2>. QED
    BY <1>1, <1>2, <2>1, <2>2, <2>3 DEF TypeOK
<1>7. PitIdsAreDense'
  <2>1. currentArenaId \in Nat
    BY ServerAssumption DEF TypeOK, PitIds
  <2>2. 1..(currentArenaId + 1) = (1..currentArenaId) \cup {currentArenaId + 1}
    BY <2>1
  <2>. QED
    BY <1>2, <2>2 DEF PitIdsAreDense, CREATION_ERROR
<1>8. RegisteredPitsAreReady'
  <2>1. <<u>> # << >> /\ <<u>>[1] = u
    OBVIOUS
  <2>2. [user |-> u, identity |-> i].user = u
    OBVIOUS
  <2>3. \A q \in arenaInstances : q \in PitIds \ {id}
    BY <1>1 DEF TypeOK
  <2>. QED
    BY <1>2, <1>3, <1>4, <1>5, <2>1, <2>2, <2>3
       DEF RegisteredPitsAreReady
<1>9. AwaitedPitsExist'
  BY <1>2 DEF AwaitedPitsExist, TypeOK
<1>10. UnusedPitsAreEmpty'
  BY <1>1, <1>2, <1>4 DEF UnusedPitsAreEmpty
<1>11. IdentifiedPlayersHaveTeams'
  <2>1. u \in Owners(<<u>>)
    BY DEF Owners
  <2>. QED
    BY <1>3, <1>4, <1>5, <2>1 DEF IdentifiedPlayersHaveTeams, HasPartyTeam
<1>12. OneIdentifierPerPlayer'
  BY <1>3, <1>4 DEF OneIdentifierPerPlayer
<1>13. ForwardedPlayersHaveTeams'
  <2>1. \A q \in arenaInstances : q \in PitIds \ {id}
    BY <1>1 DEF TypeOK
  <2>. QED
    BY <1>2, <1>4, <2>1 DEF ForwardedPlayersHaveTeams, HasPartyTeam
<1>. QED
  BY <1>6, <1>7, <1>8, <1>9, <1>10, <1>11, <1>12, <1>13

LEMMA JoinKeepsIInv ==
  ASSUME IInv, NEW i \in Identities, NEW u \in Users, NEW t \in Tokens,
         NEW p \in PitIds, JoinFightingPit(i, u, t, p)
  PROVE  IInv'
<1>. USE DEF IInv
<1>1. /\ p \in arenaInstances
      /\ partyTeams' = [partyTeams EXCEPT ![p] = Append(@, u)]
      /\ identifiers' = [identifiers EXCEPT
                           ![p] = WithIdentifier(identifiers[p], u, i)]
      /\ awaiting' = [awaiting EXCEPT ![t] = NotAwaited]
      /\ running' \in BOOLEAN
      /\ UNCHANGED <<currentArenaId, arenaInstances, authenticated,
                     forwarded, registrations, refusals>>
  BY DEF JoinFightingPit, PlayerJoinFightingPit, DoesFightingPitExist,
         AddPlayerIdentifier, BroadCastNewArrivingTeam
<1>2. /\ identifiers'[p] \in SUBSET PlayerIdentifier
      /\ [user |-> u, identity |-> i] \in identifiers'[p]
      /\ \A r \in identifiers'[p] : r.user = u \/ r \in identifiers[p]
      /\ \A r, s \in identifiers'[p] : r.user = s.user => r = s
  <2>1. identifiers[p] \in SUBSET PlayerIdentifier
    BY DEF TypeOK
  <2>2. \A r, s \in identifiers[p] : r.user = s.user => r = s
    BY DEF OneIdentifierPerPlayer
  <2>3. identifiers'[p] = WithIdentifier(identifiers[p], u, i)
    BY <1>1 DEF TypeOK
  <2>. QED
    BY <2>1, <2>2, <2>3, WithIdentifierKeepsOne
<1>3. \A q \in PitIds \ {p} : /\ partyTeams'[q] = partyTeams[q]
                              /\ identifiers'[q] = identifiers[q]
  BY <1>1 DEF TypeOK
<1>4. /\ partyTeams'[p] = Append(partyTeams[p], u)
      /\ partyTeams[p] \in Seq(Users)
  BY <1>1 DEF TypeOK
<1>5. Owners(partyTeams'[p]) = Owners(partyTeams[p]) \cup {u}
  BY <1>4 DEF Owners
<1>6. TypeOK'
  <2>1. identifiers' \in [PitIds -> SUBSET PlayerIdentifier]
    BY <1>1, <1>2, <1>3 DEF TypeOK
  <2>2. partyTeams' \in [PitIds -> Seq(Users)]
    BY <1>1 DEF TypeOK
  <2>. QED
    BY <1>1, <2>1, <2>2 DEF TypeOK
<1>7. PitIdsAreDense'
  BY <1>1 DEF PitIdsAreDense
<1>8. RegisteredPitsAreReady'
  <2>1. ASSUME NEW q \in arenaInstances
        PROVE  \E v \in Users, k \in Tokens :
                 /\ authenticated'[q] = {<<v, k>>}
                 /\ partyTeams'[q] # << >> /\ partyTeams'[q][1] = v
                 /\ \E r \in identifiers'[q] : r.user = v
    <3>1. PICK v \in Users, k \in Tokens :
            /\ authenticated[q] = {<<v, k>>}
            /\ partyTeams[q] # << >> /\ partyTeams[q][1] = v
            /\ \E r \in identifiers[q] : r.user = v
      BY DEF RegisteredPitsAreReady
    <3>2. authenticated'[q] = {<<v, k>>}
      BY <1>1, <3>1
    <3>3. partyTeams'[q] # << >> /\ partyTeams'[q][1] = v
      <4>1. q \in PitIds
        BY DEF TypeOK
      <4>2. CASE q # p
        BY <1>3, <3>1, <4>1, <4>2
      <4>3. CASE q = p
        <5>1. \A s \in Seq(Users) : s # << >> =>
                /\ Append(s, u) # << >>
                /\ Append(s, u)[1] = s[1]
          OBVIOUS
        <5>. QED
          BY <1>4, <3>1, <4>3, <5>1
      <4>. QED
        BY <4>2, <4>3
    <3>4. CASE q # p
      BY <1>3, <3>1, <3>2, <3>3, <3>4 DEF TypeOK
    <3>5. CASE q = p
      <4>1. \E r \in identifiers'[p] : r.user = v
        <5>1. PICK r \in identifiers[p] : r.user = v
          BY <3>1, <3>5
        <5>2. CASE v = u
          BY <1>2, <5>2
        <5>3. CASE v # u
          <6>1. r \in WithIdentifier(identifiers[p], u, i)
            BY <5>1, <5>3 DEF WithIdentifier
          <6>. QED
            BY <1>1, <5>1, <6>1 DEF TypeOK
        <5>. QED
          BY <5>2, <5>3
      <4>. QED
        BY <3>2, <3>3, <3>5, <4>1
    <3>. QED
      BY <3>4, <3>5
  <2>. QED
    BY <1>1, <2>1 DEF RegisteredPitsAreReady
<1>9. AwaitedPitsExist'
  BY <1>1 DEF AwaitedPitsExist, TypeOK
<1>10. UnusedPitsAreEmpty'
  BY <1>1, <1>3 DEF UnusedPitsAreEmpty
<1>11. IdentifiedPlayersHaveTeams'
  BY <1>2, <1>3, <1>5 DEF IdentifiedPlayersHaveTeams, HasPartyTeam
<1>12. OneIdentifierPerPlayer'
  BY <1>2, <1>3 DEF OneIdentifierPerPlayer
<1>13. ForwardedPlayersHaveTeams'
  <2>1. \A q \in arenaInstances : q \in PitIds
    BY DEF TypeOK
  <2>. QED
    BY <1>1, <1>3, <1>5, <2>1 DEF ForwardedPlayersHaveTeams, HasPartyTeam
<1>. QED
  BY <1>6, <1>7, <1>8, <1>9, <1>10, <1>11, <1>12, <1>13

LEMMA NextKeepsIInv == IInv /\ [Next]_vars => IInv'
<1>. SUFFICES ASSUME IInv, [Next]_vars PROVE IInv'
  OBVIOUS
<1>1. CASE UNCHANGED vars
  <2>1. TypeOK'
    BY <1>1 DEF vars, pitVars, IInv, TypeOK
  <2>2. PitInv'
    BY <1>1, PitInvDependsOnPits DEF vars, PitInv, IInv
  <2>3. AwaitedPitsExist'
    BY <1>1 DEF vars, pitVars, IInv, AwaitedPitsExist
  <2>4. ForwardedPlayersHaveTeams'
    BY <1>1 DEF vars, pitVars, IInv, ForwardedPlayersHaveTeams,
                HasPartyTeam, Owners
  <2>. QED
    BY <2>1, <2>2, <2>3, <2>4 DEF IInv, PitInv
<1>2. CASE Next
  <2>. PICK u \in Users, t \in Tokens, p \in PitIds :
         \/ \E z \in Zones : RegisterAwaitedPlayer(u, t, p, z)
         \/ RefuseAuthentication(u, t, p)
         \/ \E i \in Identities : CreateFightingPit(i, u, t, p)
         \/ FailFightingPitCreation(u, t, p)
         \/ ThrowInFightingPitCreation(u, t, p)
         \/ \E i \in Identities : JoinFightingPit(i, u, t, p)
         \/ HandleInGameMessage(u, t, p)
    BY <1>2 DEF Next, PollAndProcessMessageFromDispatcher,
              PollAndProcessMessageFromPlayer
  <2>1. CASE \E z \in Zones : RegisterAwaitedPlayer(u, t, p, z)
    BY <2>1, RegisterKeepsIInv
  <2>2. CASE RefuseAuthentication(u, t, p)
    BY <2>2, RefuseKeepsIInv
  <2>3. CASE \E i \in Identities : CreateFightingPit(i, u, t, p)
    BY <2>3, CreateKeepsIInv
  <2>4. CASE FailFightingPitCreation(u, t, p)
    BY <2>4, FailKeepsIInv
  <2>5. CASE \E i \in Identities : JoinFightingPit(i, u, t, p)
    BY <2>5, JoinKeepsIInv
  <2>6. CASE HandleInGameMessage(u, t, p)
    BY <2>6, InGameKeepsIInv
  <2>7. CASE ThrowInFightingPitCreation(u, t, p)
    BY <2>7, ThrowKeepsIInv
  <2>. QED
    BY <2>1, <2>2, <2>3, <2>4, <2>5, <2>6, <2>7
<1>. QED
  BY <1>1, <1>2

(* The strengthening holds in every reachable state.                       *)
THEOREM Invariance == Spec => []IInv
  BY InitIInv, NextKeepsIInv, PTL DEF Spec

(* Every variable of the admission model keeps its type.                   *)
THEOREM TypeCorrectness == Spec => []TypeOK
  BY Invariance, PTL DEF IInv

(* Pits are numbered 1, 2, ...: addFightingPit never gives out             *)
(* CREATION_ERROR, never reuses an id, and never wraps around.             *)
THEOREM IdsAreDense == Spec => []PitIdsAreDense
  BY Invariance, PTL DEF IInv

(* Every registered pit has its creator authenticated, leading its teams   *)
(* and reachable.                                                          *)
THEOREM PitsAreReady == Spec => []RegisteredPitsAreReady
  BY Invariance, PTL DEF IInv

(* A token awaited for a join always designates an existing pit.           *)
THEOREM AwaitedPitsAlwaysExist == Spec => []AwaitedPitsExist
  BY Invariance, PTL DEF IInv

(* Nothing is recorded about a pit before it exists.                       *)
THEOREM UnusedPitsStayEmpty == Spec => []UnusedPitsAreEmpty
  BY Invariance, PTL DEF IInv

(* Every receiver of a pit's broadcasts has a party team in the pit.       *)
THEOREM IdentifiedPlayersAlwaysHaveTeams ==
  Spec => []IdentifiedPlayersHaveTeams
  BY Invariance, PTL DEF IInv

(* A player is reached through one connection per pit.                     *)
THEOREM OneConnectionPerPlayer == Spec => []OneIdentifierPerPlayer
  BY Invariance, PTL DEF IInv

(* In-game messages are handed over for owners of a party team only.       *)
THEOREM ForwardedPlayersAlwaysHaveTeams ==
  Spec => []ForwardedPlayersHaveTeams
  BY Invariance, PTL DEF IInv

-----------------------------------------------------------------------------
LEMMA AtMostOne ==
  ASSUME NEW S, \A r, s \in S : r = s
  PROVE  Cardinality(S) <= 1
<1>1. CASE S = {}
  <2>1. Cardinality(S) = 0
    BY <1>1, FS_EmptySet
  <2>. QED
    BY <2>1
<1>2. ASSUME NEW r \in S
      PROVE  Cardinality(S) <= 1
  <2>1. S = {r}
    OBVIOUS
  <2>2. Cardinality({r}) = 1
    BY FS_Singleton, Zenon
  <2>. QED
    BY <2>1, <2>2
<1>. QED
  BY <1>1, <1>2

(* The process only ends by an authentication of a player who is not       *)
(* awaited, in the building of a pit, or by a broadcast to more than one   *)
(* player whose message does not survive being sent: whatever else is      *)
(* received, and whatever of the three the build and the scripts allow.    *)
THEOREM NoOtherWayToEnd == Spec => OnlyThreeWaysToEnd
<1>. DEFINE Known ==
       \/ "crash" \in EndDereference /\ UNCHANGED <<awaiting, pitVars>>
       \/ /\ "crash" \in FailedBuilding
          /\ \E t \in Tokens :
               /\ awaiting[t] # NotAwaited
               /\ HasToBeGenerated(awaiting[t]) /\ Buildable(awaiting[t], t)
          /\ UNCHANGED <<awaiting, pitVars>>
       \/ /\ "emptied" \in SentMultipart
          /\ \E p \in arenaInstances :
               /\ partyTeams'[p] # partyTeams[p]
               /\ \E r, s \in identifiers'[p] : r # s
<1>1. ASSUME IInv, Next, running, ~running'
      PROVE  Known
  <2>1. ASSUME NEW u \in Users, NEW t \in Tokens, NEW p \in PitIds,
               RefuseAuthentication(u, t, p)
        PROVE  Known
    <3>1. PICK outcome \in EndDereference : running' = (outcome = "refused")
      BY <2>1 DEF RefuseAuthentication
    <3>2. outcome = "crash"
      BY <1>1, <3>1, ServerAssumption
    <3>. QED
      BY <2>1, <3>1, <3>2 DEF RefuseAuthentication
  <2>2. ASSUME NEW u \in Users, NEW t \in Tokens, NEW p \in PitIds,
               ThrowInFightingPitCreation(u, t, p)
        PROVE  Known
    BY <2>2 DEF ThrowInFightingPitCreation, IsPlayerAwaited
  <2>3. ASSUME NEW i \in Identities, NEW u \in Users, NEW t \in Tokens,
               NEW p \in PitIds, CreateFightingPit(i, u, t, p)
        PROVE  FALSE
    <3>. DEFINE id == NextArenaId
    <3>1. id \in PitIds \ arenaInstances
      BY <1>1, <2>3, NextIdIsFresh DEF CreateFightingPit, IInv
    <3>2. /\ id \in arenaInstances'
          /\ partyTeams' = [partyTeams EXCEPT ![id] = <<u>>]
          /\ identifiers' = [identifiers EXCEPT ![id] = WithIdentifier(@, u, i)]
          /\ BroadCastNewArrivingTeam(id, u)
      BY <2>3 DEF CreateFightingPit, AddPlayerIdentifier
    <3>. HIDE DEF id
    <3>3. partyTeams'[id] = <<u>> /\ u \in Owners(<<u>>)
      BY <1>1, <3>1, <3>2 DEF IInv, TypeOK, Owners
    <3>4. identifiers'[id] = WithIdentifier({}, u, i)
      BY <1>1, <3>1, <3>2 DEF IInv, TypeOK, UnusedPitsAreEmpty
    <3>5. identifiers'[id] = {[user |-> u, identity |-> i]}
      BY <3>4 DEF WithIdentifier
    <3>6. Cardinality(identifiers'[id]) = 1
      BY <3>5, FS_Singleton
    <3>. QED
      BY <1>1, <3>2, <3>3, <3>6 DEF BroadCastNewArrivingTeam
  <2>4. ASSUME NEW i \in Identities, NEW u \in Users, NEW t \in Tokens,
               NEW p \in PitIds, JoinFightingPit(i, u, t, p)
        PROVE  Known
    <3>1. /\ p \in arenaInstances /\ arenaInstances' = arenaInstances
          /\ partyTeams' = [partyTeams EXCEPT ![p] = Append(@, u)]
          /\ BroadCastNewArrivingTeam(p, u)
      BY <2>4 DEF JoinFightingPit, PlayerJoinFightingPit, DoesFightingPitExist
    <3>2. /\ partyTeams'[p] = Append(partyTeams[p], u)
          /\ partyTeams[p] \in Seq(Users)
      BY <1>1, <3>1 DEF IInv, TypeOK
    <3>3. u \in Owners(partyTeams'[p])
      BY <3>2 DEF Owners
    <3>4. partyTeams'[p] # partyTeams[p]
      BY <3>2
    <3>5. PICK multipart \in SentMultipart :
            running' = /\ p \in arenaInstances'
                       /\ u \in Owners(partyTeams'[p])
                       /\ multipart = "emptied" => Cardinality(identifiers'[p]) <= 1
      BY <3>1 DEF BroadCastNewArrivingTeam
    <3>6. multipart = "emptied" /\ ~(Cardinality(identifiers'[p]) <= 1)
      BY <1>1, <3>1, <3>3, <3>5
    <3>7. \E r, s \in identifiers'[p] : r # s
      BY <3>6, AtMostOne
    <3>. QED
      BY <3>1, <3>4, <3>5, <3>6, <3>7
  <2>. QED
    BY <1>1, <2>1, <2>2, <2>3, <2>4 DEF Next,
       PollAndProcessMessageFromDispatcher, PollAndProcessMessageFromPlayer,
       RegisterAwaitedPlayer, FailFightingPitCreation, HandleInGameMessage
<1>. HIDE DEF Known
<1>2. IInv /\ [Next]_vars => [running /\ ~running' => Known]_vars
  BY <1>1
<1>. USE DEF Known
<1>. QED
  BY <1>2, Invariance, PTL DEF Spec, OnlyThreeWaysToEnd

(* Only the handlers that create and join a pit change the pits.           *)
LEMMA OnlyTwoHandlersChangePits ==
  ASSUME Next
  PROVE  \/ UNCHANGED pitVars
         \/ \E i \in Identities, u \in Users, t \in Tokens, p \in PitIds :
              CreateFightingPit(i, u, t, p)
         \/ \E i \in Identities, u \in Users, t \in Tokens, p \in PitIds :
              JoinFightingPit(i, u, t, p)
<1>1. ASSUME NEW u \in Users, NEW t \in Tokens, NEW p \in PitIds,
             NEW z \in Zones, RegisterAwaitedPlayer(u, t, p, z)
      PROVE  UNCHANGED pitVars
  BY <1>1 DEF RegisterAwaitedPlayer
<1>2. ASSUME NEW u \in Users, NEW t \in Tokens, NEW p \in PitIds,
             \/ RefuseAuthentication(u, t, p)
             \/ FailFightingPitCreation(u, t, p)
             \/ ThrowInFightingPitCreation(u, t, p)
             \/ HandleInGameMessage(u, t, p)
      PROVE  UNCHANGED pitVars
  BY <1>2 DEF RefuseAuthentication, FailFightingPitCreation,
     ThrowInFightingPitCreation, HandleInGameMessage
<1>. QED
  BY <1>1, <1>2 DEF Next, PollAndProcessMessageFromDispatcher,
     PollAndProcessMessageFromPlayer

(* A registered pit is never replaced and its teams only grow.             *)
THEOREM PitsNeverReplaced == Spec => PitsAreNeverReplaced
<1>. DEFINE Kept(p) ==
       /\ p \in arenaInstances'
       /\ authenticated'[p] = authenticated[p]
       /\ Len(partyTeams'[p]) >= Len(partyTeams[p])
       /\ \A k \in DOMAIN partyTeams[p] :
            partyTeams'[p][k] = partyTeams[p][k]
<1>1. ASSUME IInv, Next, NEW q \in arenaInstances
      PROVE  Kept(q)
  <2>1. q \in PitIds /\ partyTeams[q] \in Seq(Users)
    BY <1>1 DEF IInv, TypeOK
  <2>2. CASE UNCHANGED pitVars
    BY <2>1, <2>2 DEF pitVars
  <2>3. ASSUME NEW i \in Identities, NEW u \in Users, NEW t \in Tokens,
               NEW p \in PitIds, CreateFightingPit(i, u, t, p)
        PROVE  Kept(q)
    <3>1. q # NextArenaId
      BY <1>1, <2>3, NextIdIsFresh DEF CreateFightingPit, IInv
    <3>2. /\ q \in arenaInstances'
          /\ authenticated'[q] = authenticated[q]
          /\ partyTeams'[q] = partyTeams[q]
      BY <1>1, <2>1, <2>3, <3>1 DEF CreateFightingPit, IInv, TypeOK
    <3>. QED
      BY <2>1, <3>2
  <2>4. ASSUME NEW i \in Identities, NEW u \in Users, NEW t \in Tokens,
               NEW p \in PitIds, JoinFightingPit(i, u, t, p)
        PROVE  Kept(q)
    <3>1. /\ q \in arenaInstances'
          /\ authenticated'[q] = authenticated[q]
          /\ partyTeams'[q] = partyTeams[q]
                \/ partyTeams'[q] = Append(partyTeams[q], u)
      BY <1>1, <2>1, <2>4 DEF JoinFightingPit, PlayerJoinFightingPit, IInv, TypeOK
    <3>2. \A s \in Seq(Users) :
            /\ Len(Append(s, u)) >= Len(s)
            /\ \A k \in DOMAIN s : Append(s, u)[k] = s[k]
      OBVIOUS
    <3>3. CASE partyTeams'[q] = partyTeams[q]
      <4>1. partyTeams[q] \in Seq(Users)
        BY <2>1
      <4>2. Len(partyTeams'[q]) >= Len(partyTeams[q])
        BY <3>3, <4>1
      <4>. QED
        BY <3>1, <3>3, <4>2
    <3>4. CASE partyTeams'[q] = Append(partyTeams[q], u)
      <4>1. partyTeams[q] \in Seq(Users)
        BY <2>1
      <4>2. /\ Len(partyTeams'[q]) >= Len(partyTeams[q])
            /\ \A k \in DOMAIN partyTeams[q] :
                 partyTeams'[q][k] = partyTeams[q][k]
        BY <3>2, <3>4, <4>1
      <4>. QED
        BY <3>1, <4>2
    <3>. QED
      BY <3>1, <3>3, <3>4
  <2>. QED
    BY <1>1, <2>2, <2>3, <2>4, OnlyTwoHandlersChangePits
<1>2. IInv /\ [Next]_vars => [\A p \in arenaInstances : Kept(p)]_vars
  BY <1>1
<1>. QED
  BY <1>2, Invariance, PTL DEF Spec, PitsAreNeverReplaced

(* A team enters a pit only by using up the token it was awaited under.    *)
THEOREM AdmissionNeedsToken == Spec => AdmissionConsumesToken
<1>. DEFINE Paid(q) ==
       \E t \in Tokens :
         /\ awaiting[t] # NotAwaited
         /\ awaiting' = [awaiting EXCEPT ![t] = NotAwaited]
         /\ partyTeams'[q] = Append(partyTeams[q], awaiting[t].user)
         /\ awaiting[t].pit = IF q \in arenaInstances THEN q ELSE 0
<1>1. ASSUME IInv, Next, NEW q \in PitIds, partyTeams'[q] # partyTeams[q]
      PROVE  Paid(q)
  <2>1. ASSUME NEW i \in Identities, NEW u \in Users, NEW t \in Tokens,
               NEW p \in PitIds, CreateFightingPit(i, u, t, p)
        PROVE  Paid(q)
    <3>1. NextArenaId \in PitIds /\ NextArenaId \notin arenaInstances
      BY <1>1, <2>1, NextIdIsFresh DEF CreateFightingPit, IInv
    <3>. DEFINE id == NextArenaId
    <3>2. partyTeams' = [partyTeams EXCEPT ![id] = <<u>>]
      BY <2>1 DEF CreateFightingPit
    <3>. HIDE DEF id
    <3>a. DOMAIN partyTeams = PitIds
      BY <1>1 DEF IInv, TypeOK
    <3>3. q = id /\ partyTeams'[q] = <<u>>
      BY <1>1, <3>2, <3>a
    <3>4. partyTeams[q] = << >> /\ q \notin arenaInstances
      BY <1>1, <3>1, <3>3 DEF IInv, UnusedPitsAreEmpty, id
    <3>5. /\ awaiting[t] # NotAwaited
          /\ awaiting[t].user = u /\ awaiting[t].pit = 0
          /\ awaiting' = [awaiting EXCEPT ![t] = NotAwaited]
      BY <2>1 DEF CreateFightingPit, IsPlayerAwaited, HasToBeGenerated
    <3>6. Append(<< >>, u) = <<u>>
      OBVIOUS
    <3>. QED
      BY <3>3, <3>4, <3>5, <3>6
  <2>2. ASSUME NEW i \in Identities, NEW u \in Users, NEW t \in Tokens,
               NEW p \in PitIds, JoinFightingPit(i, u, t, p)
        PROVE  Paid(q)
    <3>1. partyTeams' = [partyTeams EXCEPT ![p] = Append(@, u)]
      BY <2>2 DEF JoinFightingPit, PlayerJoinFightingPit
    <3>2. q = p /\ partyTeams'[q] = Append(partyTeams[q], u)
      BY <1>1, <3>1 DEF IInv, TypeOK
    <3>3. /\ awaiting[t] # NotAwaited
          /\ awaiting[t].user = u /\ awaiting[t].pit = p
          /\ p \in arenaInstances
          /\ awaiting' = [awaiting EXCEPT ![t] = NotAwaited]
      BY <2>2 DEF JoinFightingPit, IsPlayerAwaited, DoesFightingPitExist
    <3>. QED
      BY <3>2, <3>3
  <2>3. CASE UNCHANGED pitVars
    BY <1>1, <2>3 DEF pitVars
  <2>. HIDE DEF Paid
  <2>. QED
    BY <1>1, <2>1, <2>2, <2>3, OnlyTwoHandlersChangePits
<1>2. IInv /\ [Next]_vars
        => [\A p \in PitIds : partyTeams'[p] # partyTeams[p] => Paid(p)]_vars
  BY <1>1
<1>. QED
  BY <1>2, Invariance, PTL DEF Spec, AdmissionConsumesToken

-----------------------------------------------------------------------------
(* No registration is lost and none is counted twice. Beside IInv, which   *)
(* has the pit taken next without teams, what is counted has to be finite. *)
CountInv ==
  /\ IsFiniteSet(AwaitedTokens)
  /\ IsFiniteSet(TeamPlaces)
  /\ RegistrationsAreAccountedFor

(* A team that enters a pit takes a place nobody had.                      *)
LEMMA PlacesOfOneMoreTeam ==
  ASSUME TypeOK, NEW p \in PitIds, NEW u \in Users,
         partyTeams' = [partyTeams EXCEPT ![p] = Append(partyTeams[p], u)],
         IsFiniteSet(TeamPlaces)
  PROVE  /\ IsFiniteSet(TeamPlaces')
         /\ Cardinality(TeamPlaces') = Cardinality(TeamPlaces) + 1
<1>. DEFINE place == <<p, Len(partyTeams[p]) + 1>>
<1>1. partyTeams \in [PitIds -> Seq(Users)]
  BY DEF TypeOK
<1>2. ASSUME NEW q \in PitIds, q # p PROVE partyTeams'[q] = partyTeams[q]
  BY <1>1, <1>2
<1>3. DOMAIN partyTeams'[p] = DOMAIN partyTeams[p] \cup {Len(partyTeams[p]) + 1}
  <2>1. partyTeams'[p] = Append(partyTeams[p], u) /\ partyTeams[p] \in Seq(Users)
    BY <1>1
  <2>. QED
    BY <2>1
<1>4. place \notin TeamPlaces
  <2>1. Len(partyTeams[p]) + 1 \notin DOMAIN partyTeams[p]
    BY <1>1
  <2>. QED
    BY <2>1 DEF TeamPlaces
<1>5. TeamPlaces' = TeamPlaces \cup {place}
  BY <1>2, <1>3 DEF TeamPlaces
<1>. HIDE DEF place
<1>. QED
  BY <1>4, <1>5, FS_AddElement

LEMMA OneLessAwaited ==
  ASSUME TypeOK, NEW t \in Tokens, awaiting[t] # NotAwaited,
         awaiting' = [awaiting EXCEPT ![t] = NotAwaited],
         IsFiniteSet(AwaitedTokens)
  PROVE  /\ IsFiniteSet(AwaitedTokens')
         /\ Cardinality(AwaitedTokens) = Cardinality(AwaitedTokens') + 1
<1>1. AwaitedTokens' = AwaitedTokens \ {t} /\ t \in AwaitedTokens
  BY DEF TypeOK, AwaitedTokens
<1>2. /\ IsFiniteSet(AwaitedTokens \ {t})
      /\ Cardinality(AwaitedTokens \ {t}) =
           IF t \in AwaitedTokens THEN Cardinality(AwaitedTokens) - 1
           ELSE Cardinality(AwaitedTokens)
  BY FS_RemoveElement, Zenon
<1>3. Cardinality(AwaitedTokens) \in Nat
  BY FS_CardinalityType
<1>. QED
  BY <1>1, <1>2, <1>3

LEMMA OneMoreAwaited ==
  ASSUME TypeOK, NEW t \in Tokens, NEW apa \in AwaitingPlayerArena,
         awaiting[t] = NotAwaited, awaiting' = [awaiting EXCEPT ![t] = apa],
         IsFiniteSet(AwaitedTokens)
  PROVE  /\ IsFiniteSet(AwaitedTokens')
         /\ Cardinality(AwaitedTokens') = Cardinality(AwaitedTokens) + 1
<1>1. AwaitedTokens' = AwaitedTokens \cup {t} /\ t \notin AwaitedTokens
  BY NotAwaitedAssumption DEF TypeOK, AwaitedTokens
<1>. QED
  BY <1>1, FS_AddElement

LEMMA CountsAreNumbers ==
  ASSUME CountInv
  PROVE  Cardinality(AwaitedTokens) \in Nat /\ Cardinality(TeamPlaces) \in Nat
BY FS_CardinalityType DEF CountInv

LEMMA InitCountInv == Init => CountInv
<1>. SUFFICES ASSUME Init PROVE CountInv
  OBVIOUS
<1>1. AwaitedTokens = {} /\ TeamPlaces = {}
  BY DEF Init, AwaitedTokens, TeamPlaces
<1>. QED
  BY <1>1, FS_EmptySet DEF Init, CountInv, RegistrationsAreAccountedFor

LEMMA NextKeepsCountInv == IInv /\ CountInv /\ [Next]_vars => CountInv'
<1>. SUFFICES ASSUME IInv, CountInv, [Next]_vars PROVE CountInv'
  OBVIOUS
<1>. USE CountsAreNumbers DEF IInv
<1>0. refusals \in Nat /\ registrations \in Int
  BY DEF TypeOK
<1>1. ASSUME NEW u \in Users, NEW t \in Tokens, NEW p \in PitIds, NEW z \in Zones,
             RegisterAwaitedPlayer(u, t, p, z)
      PROVE  CountInv'
  <2>. DEFINE apa == [user |-> u, pit |-> p, gen |-> IF p = 0 THEN z ELSE NoZone]
  <2>1. apa \in AwaitingPlayerArena
    BY DEF AwaitingPlayerArena
  <2>2. /\ awaiting[t] = NotAwaited /\ awaiting' = [awaiting EXCEPT ![t] = apa]
        /\ registrations' = registrations + 1
        /\ partyTeams' = partyTeams /\ refusals' = refusals
    BY <1>1 DEF RegisterAwaitedPlayer, pitVars
  <2>. HIDE DEF apa
  <2>3. /\ IsFiniteSet(AwaitedTokens')
        /\ Cardinality(AwaitedTokens') = Cardinality(AwaitedTokens) + 1
    BY <2>1, <2>2, OneMoreAwaited DEF CountInv
  <2>4. TeamPlaces' = TeamPlaces
    BY <2>2 DEF TeamPlaces
  <2>. QED
    BY <1>0, <2>2, <2>3, <2>4 DEF CountInv, RegistrationsAreAccountedFor
<1>2. ASSUME NEW u \in Users, NEW t \in Tokens, NEW p \in PitIds,
             FailFightingPitCreation(u, t, p)
      PROVE  CountInv'
  <2>1. /\ awaiting[t] # NotAwaited /\ awaiting' = [awaiting EXCEPT ![t] = NotAwaited]
        /\ refusals' = refusals + 1
        /\ partyTeams' = partyTeams /\ registrations' = registrations
    BY <1>2 DEF FailFightingPitCreation, IsPlayerAwaited, pitVars
  <2>2. /\ IsFiniteSet(AwaitedTokens')
        /\ Cardinality(AwaitedTokens) = Cardinality(AwaitedTokens') + 1
    BY <2>1, OneLessAwaited DEF CountInv
  <2>3. TeamPlaces' = TeamPlaces
    BY <2>1 DEF TeamPlaces
  <2>4. Cardinality(AwaitedTokens') \in Nat
    BY <2>2, FS_CardinalityType
  <2>. QED
    BY <1>0, <2>1, <2>2, <2>3, <2>4 DEF CountInv, RegistrationsAreAccountedFor
<1>3. ASSUME NEW u \in Users, NEW t \in Tokens, NEW p \in PitIds,
             awaiting[t] # NotAwaited, awaiting' = [awaiting EXCEPT ![t] = NotAwaited],
             partyTeams' = [partyTeams EXCEPT ![p] = Append(partyTeams[p], u)],
             refusals' = refusals, registrations' = registrations
      PROVE  CountInv'
  <2>1. /\ IsFiniteSet(AwaitedTokens')
        /\ Cardinality(AwaitedTokens) = Cardinality(AwaitedTokens') + 1
    BY <1>3, OneLessAwaited DEF CountInv
  <2>2. /\ IsFiniteSet(TeamPlaces')
        /\ Cardinality(TeamPlaces') = Cardinality(TeamPlaces) + 1
    BY <1>3, PlacesOfOneMoreTeam DEF CountInv
  <2>3. Cardinality(AwaitedTokens') \in Nat
    BY <2>1, FS_CardinalityType
  <2>. QED
    BY <1>0, <1>3, <2>1, <2>2, <2>3 DEF CountInv, RegistrationsAreAccountedFor
<1>4. ASSUME NEW i \in Identities, NEW u \in Users, NEW t \in Tokens,
             NEW p \in PitIds, CreateFightingPit(i, u, t, p)
      PROVE  CountInv'
  <2>1. NextArenaId \in PitIds /\ NextArenaId \notin arenaInstances
    BY <1>4, NextIdIsFresh DEF CreateFightingPit
  <2>2. partyTeams[NextArenaId] = << >>
    BY <2>1 DEF UnusedPitsAreEmpty
  <2>3. /\ awaiting[t] # NotAwaited
        /\ awaiting' = [awaiting EXCEPT ![t] = NotAwaited]
        /\ partyTeams' = [partyTeams EXCEPT ![NextArenaId] = <<u>>]
        /\ refusals' = refusals /\ registrations' = registrations
    BY <1>4 DEF CreateFightingPit, IsPlayerAwaited
  <2>4. <<u>> = Append(partyTeams[NextArenaId], u)
    BY <2>2
  <2>. QED
    BY <1>3, <2>1, <2>3, <2>4
<1>5. ASSUME NEW i \in Identities, NEW u \in Users, NEW t \in Tokens,
             NEW p \in PitIds, JoinFightingPit(i, u, t, p)
      PROVE  CountInv'
  BY <1>3, <1>5 DEF JoinFightingPit, PlayerJoinFightingPit, IsPlayerAwaited
<1>6. ASSUME UNCHANGED <<awaiting, partyTeams, registrations, refusals>>
      PROVE  CountInv'
  <2>1. AwaitedTokens' = AwaitedTokens /\ TeamPlaces' = TeamPlaces
    BY <1>6 DEF AwaitedTokens, TeamPlaces
  <2>. QED
    BY <1>6, <2>1 DEF CountInv, RegistrationsAreAccountedFor
<1>7. ASSUME NEW u \in Users, NEW t \in Tokens, NEW p \in PitIds,
             \/ RefuseAuthentication(u, t, p)
             \/ ThrowInFightingPitCreation(u, t, p)
             \/ HandleInGameMessage(u, t, p)
      PROVE  CountInv'
  BY <1>6, <1>7 DEF RefuseAuthentication, ThrowInFightingPitCreation,
                    HandleInGameMessage, pitVars
<1>8. CASE UNCHANGED vars
  BY <1>6, <1>8 DEF vars, pitVars
<1>. QED
  BY <1>1, <1>2, <1>4, <1>5, <1>7, <1>8 DEF Next,
     PollAndProcessMessageFromDispatcher, PollAndProcessMessageFromPlayer

(* Every registration accepted is awaited, a party team or a refusal.      *)
THEOREM RegistrationsAlwaysAccountedFor == Spec => []RegistrationsAreAccountedFor
<1>1. Spec => []CountInv
  BY InitCountInv, NextKeepsCountInv, Invariance, PTL DEF Spec
<1>2. CountInv => RegistrationsAreAccountedFor
  BY DEF CountInv
<1>. QED
  BY <1>1, <1>2, PTL
=============================================================================
