------------------------- MODULE FightingPitProofs -------------------------
(***************************************************************************)
(* What a fighting pit guarantees for any sides, teams, contenders and     *)
(* orders, with any number of teams: the ids by which its parts find each  *)
(* other, and the pass of the worker over the sides.                       *)
(***************************************************************************)
EXTENDS FightingPit, FoldLemmas, SequenceTheorems

Member ==
  [id : Nat, user : Users, team : Int, life : Nat, side : Sides,
   pending : Seq(Orders)]

InitialList(s) == InitialPriorityList(WithPartyTeam(Creator, << >>), s)

(* Ids are places in the sequence of the members, and the creator's team   *)
(* stays at its head.                                                      *)
MembersInPlace ==
  /\ members \in Seq(Member)
  /\ currentId = Len(members)
  /\ Len(Team) <= Len(members)
  /\ \A k \in 1..Len(members) : members[k].id = k
  /\ \A k \in 1..Len(Team) : members[k].side = Team[k].side

ListsAreInitial ==
  /\ listed = [s \in Sides |-> InitialList(s)]
  /\ DOMAIN turn = Sides
  /\ \A s \in Sides : turn[s] \in InitialList(s) \cup {DefaultParticipant}

(* However they are sorted, the battles are one for each side.             *)
SidesAreAllThere ==
  /\ sideBattles \in [1..Len(SideBattles) -> Sides]
  /\ Len(sideBattles) = Len(SideBattles)
  /\ \A i, j \in 1..Len(SideBattles) : sideBattles[i] = sideBattles[j] => i = j
  /\ \A s \in Sides : \E i \in 1..Len(SideBattles) : sideBattles[i] = s

(* The battles before the place the worker has reached have been played.   *)
PassInOrder ==
  /\ at \in 0..(Len(SideBattles) + 1)
  /\ popping \in Nat
  /\ popping # 0 => popping \in 1..Len(members) /\ at \in 1..Len(SideBattles)
  /\ played \in [Sides -> Nat]
  /\ ~joined /\ at > 0 =>
       /\ popping # 0 => listed[sideBattles[at]] # {}
       /\ \A j \in 1..Len(SideBattles) :
            played[sideBattles[j]] =
              IF /\ listed[sideBattles[j]] # {}
                 /\ j < at \/ (j = at /\ popping # 0)
              THEN 1 ELSE 0

IInv == MembersInPlace /\ ListsAreInitial /\ SidesAreAllThere /\ PassInOrder

-----------------------------------------------------------------------------
(* Basic facts of the constants.                                           *)
LEMMA TeamFacts ==
  /\ Len(Team) \in Nat /\ Len(Team) > 0
  /\ \A k \in 1..Len(Team) : Team[k] \in [life : Nat, side : Sides]
  /\ DOMAIN Team = 1..Len(Team)
<1>. DEFINE M == [life : Nat, side : Sides]
<1>1. Team \in Seq(M) /\ Len(Team) > 0
  BY PitAssumption DEF Sides
<1>2. Len(Team) \in Nat /\ Team \in [1..Len(Team) -> M] /\ DOMAIN Team = 1..Len(Team)
  BY <1>1, LenProperties
<1>. QED
  BY <1>1, <1>2

LEMMA FunctionIsSequence ==
  ASSUME NEW S, NEW n \in Nat, NEW f \in [1..n -> S]
  PROVE  f \in Seq(S) /\ Len(f) = n
  OBVIOUS

(* A joining team comes after the others, numbered from there on.          *)
LEMMA JoiningTeam ==
  ASSUME NEW ms \in Seq(Member), NEW user \in Users
  PROVE  /\ WithPartyTeam(user, ms) \in Seq(Member)
         /\ Len(WithPartyTeam(user, ms)) = Len(ms) + Len(Team)
         /\ \A k \in 1..Len(ms) : WithPartyTeam(user, ms)[k] = ms[k]
         /\ \A k \in 1..Len(Team) :
              /\ WithPartyTeam(user, ms)[Len(ms) + k].id = Len(ms) + k
              /\ WithPartyTeam(user, ms)[Len(ms) + k].side = Team[k].side
<1>. DEFINE new(k) == [id |-> Len(ms) + k, user |-> user,
                       team |-> Len(ms) \div Len(Team) + 1,
                       life |-> Team[k].life, side |-> Team[k].side,
                       pending |-> << >>]
            team == [k \in 1..Len(Team) |-> new(k)]
<1>1. Len(ms) \in Nat
  BY LenProperties
<1>2. Len(ms) \div Len(Team) + 1 \in Int
  BY <1>1, TeamFacts
<1>3. \A k \in 1..Len(Team) : new(k) \in Member
  <2>. TAKE k \in 1..Len(Team)
  <2>1. Team[k].life \in Nat /\ Team[k].side \in Sides /\ Len(ms) + k \in Nat
    BY <1>1, TeamFacts
  <2>2. << >> \in Seq(Orders)
    BY EmptySeq
  <2>. QED
    BY <1>2, <2>1, <2>2 DEF Member
<1>4. team \in Seq(Member) /\ Len(team) = Len(Team)
  <2>1. team \in [1..Len(Team) -> Member]
    BY <1>3
  <2>. HIDE DEF team
  <2>. QED
    BY <2>1, TeamFacts, FunctionIsSequence
<1>5. WithPartyTeam(user, ms) = ms \o team
  BY TeamFacts DEF WithPartyTeam, RetrievePartyTeam
<1>6. /\ ms \o team \in Seq(Member)
      /\ Len(ms \o team) = Len(ms) + Len(Team)
      /\ \A i \in 1..(Len(ms) + Len(Team)) :
           (ms \o team)[i] = IF i <= Len(ms) THEN ms[i] ELSE team[i - Len(ms)]
  BY <1>4, ConcatProperties
<1>7. \A k \in 1..Len(ms) : (ms \o team)[k] = ms[k]
  BY <1>1, <1>6, TeamFacts
<1>8. \A k \in 1..Len(Team) : (ms \o team)[Len(ms) + k] = team[k]
  <2>. TAKE k \in 1..Len(Team)
  <2>1. /\ Len(ms) + k \in 1..(Len(ms) + Len(Team))
        /\ ~(Len(ms) + k <= Len(ms)) /\ Len(ms) + k - Len(ms) = k
    BY <1>1, TeamFacts
  <2>. QED
    BY <1>6, <2>1
<1>. HIDE DEF team
<1>9. \A k \in 1..Len(Team) : team[k].id = Len(ms) + k /\ team[k].side = Team[k].side
  BY DEF team
<1>. QED
  BY <1>5, <1>6, <1>7, <1>8, <1>9

(* Where the creator's team stands.                                        *)
LEMMA CreatorsTeam ==
  /\ WithPartyTeam(Creator, << >>) \in Seq(Member)
  /\ Len(WithPartyTeam(Creator, << >>)) = Len(Team)
  /\ \A k \in 1..Len(Team) :
       /\ WithPartyTeam(Creator, << >>)[k].id = k
       /\ WithPartyTeam(Creator, << >>)[k].side = Team[k].side
<1>1. << >> \in Seq(Member) /\ Len(<< >>) = 0 /\ Creator \in Users
  BY EmptySeq, PitAssumption
<1>. DEFINE first == WithPartyTeam(Creator, << >>)
<1>2. /\ first \in Seq(Member)
      /\ Len(first) = Len(<< >>) + Len(Team)
      /\ \A k \in 1..Len(Team) :
           /\ first[Len(<< >>) + k].id = Len(<< >>) + k
           /\ first[Len(<< >>) + k].side = Team[k].side
  BY <1>1, JoiningTeam
<1>. HIDE DEF first
<1>3. \A k \in 1..Len(Team) : Len(<< >>) + k = k
  BY <1>1, TeamFacts
<1>4. Len(<< >>) + Len(Team) = Len(Team)
  BY <1>1, TeamFacts
<1>5. first \in Seq(Member) /\ Len(first) = Len(Team)
  BY <1>2, <1>4
<1>6. \A k \in 1..Len(Team) : first[k].id = k /\ first[k].side = Team[k].side
  BY <1>2, <1>3
<1>. QED
  BY <1>5, <1>6 DEF first

(* The members first listed on a side are those of the creator's team who  *)
(* stand there.                                                            *)
LEMMA ListedMembersStandThere ==
  ASSUME NEW s \in Sides, NEW p \in InitialList(s), ~p.isContender
  PROVE  p.id \in 1..Len(Team) /\ Team[p.id].side = s
<1>. DEFINE first == WithPartyTeam(Creator, << >>)
<1>1. p.id \in MembersBySide(first, s)
  BY DEF InitialList, InitialPriorityList
<1>2. PICK k \in DOMAIN first : first[k].side = s /\ p.id = first[k].id
  BY <1>1 DEF MembersBySide
<1>3. DOMAIN first = 1..Len(Team)
  BY CreatorsTeam, LenProperties
<1>. QED
  BY <1>2, <1>3, CreatorsTeam

(* A member's place is found under his id.                                 *)
LEMMA PlaceOfAnId ==
  ASSUME MembersInPlace, NEW k \in 1..Len(members)
  PROVE  SelectMemberById(k) = k
<1>1. DOMAIN members = 1..Len(members)
  BY LenProperties DEF MembersInPlace
<1>2. {j \in DOMAIN members : members[j].id = k} = {k}
  BY <1>1 DEF MembersInPlace
<1>3. Min({k}) = k
  BY DEF Min
<1>. QED
  BY <1>2, <1>3 DEF SelectMemberById

(* An order or an attack leaves the members in their places.               *)
LEMMA SamePlaces ==
  ASSUME MembersInPlace,
         members' \in Seq(Member), Len(members') = Len(members),
         \A k \in 1..Len(members) :
           members'[k].id = members[k].id /\ members'[k].side = members[k].side,
         UNCHANGED currentId
  PROVE  MembersInPlace'
<1>1. Len(members) \in Nat
  BY LenProperties DEF MembersInPlace
<1>. QED
  BY <1>1, TeamFacts DEF MembersInPlace

(* So does anything that changes one member but for his id and his side.   *)
LEMMA PendingChanges ==
  ASSUME MembersInPlace, NEW m \in 1..Len(members), NEW q \in Seq(Orders),
         members' = [members EXCEPT ![m].pending = q], UNCHANGED currentId
  PROVE  MembersInPlace'
<1>. DEFINE changed == [members[m] EXCEPT !.pending = q]
<1>1. members[m] \in Member
  BY ElementOfSeq DEF MembersInPlace
<1>2. changed \in Member /\ changed.id = members[m].id /\ changed.side = members[m].side
  BY <1>1 DEF Member
<1>3. members' = [members EXCEPT ![m] = changed]
  OBVIOUS
<1>. HIDE DEF changed
<1>4. /\ members' \in Seq(Member)
      /\ Len(members') = Len(members)
      /\ \A j \in 1..Len(members) :
           members'[j] = IF j = m THEN changed ELSE members[j]
  BY <1>2, <1>3, ExceptSeq DEF MembersInPlace
<1>5. \A k \in 1..Len(members) :
        members'[k].id = members[k].id /\ members'[k].side = members[k].side
  BY <1>2, <1>4
<1>. QED
  BY <1>4, <1>5, SamePlaces

(* And so does an attack, which may hurt whoever it names.                 *)
LEMMA AttackChanges ==
  ASSUME MembersInPlace, NEW c, RunScriptedAction(c), UNCHANGED currentId
  PROVE  MembersInPlace'
<1>. DEFINE hit(id, k) == IF members[k].id = id
                          THEN [members[k] EXCEPT !.life = Hurt(@)]
                          ELSE members[k]
<1>1. DOMAIN members = 1..Len(members) /\ Len(members) \in Nat
  BY LenProperties DEF MembersInPlace
<1>2. PICK id : members' = [k \in 1..Len(members) |-> hit(id, k)]
  BY <1>1 DEF RunScriptedAction
<1>3. \A k \in 1..Len(members) :
        /\ hit(id, k) \in Member
        /\ hit(id, k).id = members[k].id
        /\ hit(id, k).side = members[k].side
  <2>. TAKE k \in 1..Len(members)
  <2>1. members[k] \in Member
    BY ElementOfSeq DEF MembersInPlace
  <2>2. Hurt(members[k].life) \in Nat
    BY <2>1, PitAssumption DEF Hurt, Member
  <2>. QED
    BY <2>1, <2>2 DEF Member
<1>. HIDE DEF hit
<1>4. members' \in [1..Len(members) -> Member]
  BY <1>2, <1>3
<1>5. members' \in Seq(Member) /\ Len(members') = Len(members)
  BY <1>1, <1>4
<1>. QED
  BY <1>2, <1>3, <1>5, SamePlaces

-----------------------------------------------------------------------------
(* The sides, each in one battle, however the battles are sorted.          *)
LEMMA SidesFacts ==
  /\ Len(SideBattles) \in Nat
  /\ SideBattles \in [1..Len(SideBattles) -> Sides]
  /\ \A i, j \in 1..Len(SideBattles) : SideBattles[i] = SideBattles[j] => i = j
  /\ \A s \in Sides : \E i \in 1..Len(SideBattles) : SideBattles[i] = s
<1>1. /\ Len(SideBattles) \in Nat
      /\ SideBattles \in [1..Len(SideBattles) -> Sides]
      /\ DOMAIN SideBattles = 1..Len(SideBattles)
  BY PitAssumption, LenProperties DEF Sides
<1>. QED
  BY <1>1, PitAssumption DEF Sides, Range, IsInjective

LEMMA NumberOfSides ==
  /\ IsFiniteSet(1..Len(SideBattles)) /\ IsFiniteSet(Sides)
  /\ Cardinality(1..Len(SideBattles)) = Len(SideBattles)
  /\ Cardinality(Sides) = Len(SideBattles)
<1>. DEFINE D == 1..Len(SideBattles)
<1>1. IsFiniteSet(D) /\ Cardinality(D) = Len(SideBattles)
  BY SidesFacts, FS_Interval
<1>2. SideBattles \in Surjection(D, Sides)
  BY SidesFacts DEF Surjection
<1>3. SideBattles \in Injection(D, Sides)
  BY SidesFacts DEF Injection, IsInjective
<1>. QED
  BY <1>1, <1>2, <1>3, FS_Surjection

LEMMA SortedSidesAreAllThere ==
  ASSUME NEW o \in SetToSeqs(Sides)
  PROVE  /\ o \in [1..Len(SideBattles) -> Sides]
         /\ Len(o) = Len(SideBattles)
         /\ \A i, j \in 1..Len(SideBattles) : o[i] = o[j] => i = j
         /\ \A s \in Sides : \E i \in 1..Len(SideBattles) : o[i] = s
<1>. DEFINE D == 1..Len(SideBattles)
<1>1. o \in [D -> Sides] /\ \A i, j \in D : o[i] = o[j] => i = j
  BY NumberOfSides DEF SetToSeqs
<1>2. IsFiniteSet(D) /\ Cardinality(D) = Cardinality(Sides)
  BY NumberOfSides
<1>3. o \in Injection(D, Sides)
  BY <1>1 DEF Injection, IsInjective
<1>4. o \in Surjection(D, Sides)
  BY <1>2, <1>3, NumberOfSides, FS_Injection
<1>5. \A s \in Sides : \E i \in D : o[i] = s
  BY <1>4 DEF Surjection
<1>. QED
  BY <1>1, <1>5, SidesFacts, FunctionIsSequence

-----------------------------------------------------------------------------
(* The invariant.                                                          *)
LEMMA Initially ==
  Init => IInv
<1>. SUFFICES ASSUME Init PROVE IInv
  OBVIOUS
<1>1. MembersInPlace
  BY CreatorsTeam, TeamFacts DEF Init, MembersInPlace
<1>2. ListsAreInitial
  BY DEF Init, ListsAreInitial, InitialList
<1>3. SidesAreAllThere
  BY SidesFacts DEF Init, SidesAreAllThere
<1>4. PassInOrder
  BY SidesFacts DEF Init, PassInOrder
<1>. QED
  BY <1>1, <1>2, <1>3, <1>4 DEF IInv

(* What the battles have been played when the worker is somewhere in them. *)
LEMMA PlayedSoFar ==
  ASSUME PassInOrder, ~joined, at > 0, NEW j \in 1..Len(SideBattles)
  PROVE  /\ popping # 0 => listed[sideBattles[at]] # {}
         /\ played[sideBattles[j]] =
              IF /\ listed[sideBattles[j]] # {}
                 /\ j < at \/ (j = at /\ popping # 0)
              THEN 1 ELSE 0
  BY DEF PassInOrder

(* Taking a turn, on the side the worker has reached.                      *)
LEMMA TurnsAreOfTheListed ==
  ASSUME IInv, NEW s \in Sides, NEW p, TakesTurn(s, p)
  PROVE  /\ ListsAreInitial' /\ SidesAreAllThere'
         /\ listed[s] # {}
         /\ p \in InitialList(s) \cup {DefaultParticipant}
<1>. USE DEF IInv, ListsAreInitial
<1>1. p \in listed[s] \cup {turn[s]} /\ listed[s] # {}
  BY DEF TakesTurn, Turns!Answers
<1>2. p \in InitialList(s) \cup {DefaultParticipant}
  BY <1>1
<1>3. ListsAreInitial'
  BY <1>2 DEF TakesTurn
<1>4. SidesAreAllThere'
  BY DEF TakesTurn, SidesAreAllThere
<1>. QED
  BY <1>1, <1>2, <1>3, <1>4

(* The end of a turn that leaves the worker on the side or has it go on.   *)
LEMMA TurnsCount ==
  ASSUME IInv, NEW s \in Sides, NEW p, TakesTurn(s, p),
         \/ at' = at + 1 /\ popping' = popping
         \/ at' = at /\ popping' \in 1..Len(members),
         Len(members') = Len(members)
  PROVE  PassInOrder'
<1>. USE DEF IInv, SidesAreAllThere
<1>1. /\ popping = 0 /\ at \in 1..Len(SideBattles) /\ s = sideBattles[at]
      /\ played' = [played EXCEPT ![s] = @ + 1]
      /\ UNCHANGED <<sideBattles, listed, joined>>
  BY DEF TakesTurn
<1>2. listed[s] # {}
  BY TurnsAreOfTheListed
<1>3. at \in Nat /\ Len(SideBattles) \in Nat /\ Len(members) \in Nat
  BY SidesFacts, LenProperties DEF PassInOrder, MembersInPlace
<1>4. /\ at' \in 0..(Len(SideBattles) + 1) /\ popping' \in Nat
      /\ popping' # 0 => popping' \in 1..Len(members') /\ at' \in 1..Len(SideBattles)
  BY <1>1, <1>3 DEF PassInOrder
<1>5. played' \in [Sides -> Nat]
  BY <1>1 DEF PassInOrder
<1>6. ASSUME ~joined
      PROVE  \A j \in 1..Len(SideBattles) :
               played'[sideBattles[j]] =
                 IF /\ listed[sideBattles[j]] # {}
                    /\ j < at' \/ (j = at' /\ popping' # 0)
                 THEN 1 ELSE 0
  <2>. TAKE j \in 1..Len(SideBattles)
  <2>1. played[sideBattles[j]] =
          IF listed[sideBattles[j]] # {} /\ j < at THEN 1 ELSE 0
    BY <1>1, <1>3, <1>6 DEF PassInOrder
  <2>2. CASE j = at
    <3>1. played'[s] = played[s] + 1 /\ played[s] = 0
      BY <1>1, <1>3, <2>1, <2>2 DEF PassInOrder
    <3>2. j < at' \/ (j = at' /\ popping' # 0)
      BY <1>1, <1>3, <2>2
    <3>. QED
      BY <1>1, <1>2, <2>2, <3>1, <3>2
  <2>3. CASE j # at
    <3>1. sideBattles[j] # s
      BY <1>1, <2>3
    <3>2. played'[sideBattles[j]] = played[sideBattles[j]]
      BY <1>1, <3>1 DEF PassInOrder
    <3>3. j < at <=> (j < at' \/ (j = at' /\ popping' # 0))
      BY <1>1, <1>3, <2>3
    <3>. QED
      BY <2>1, <3>2, <3>3
  <2>. QED
    BY <2>2, <2>3
<1>7. popping' # 0 => listed[sideBattles[at']] # {}
  BY <1>1, <1>2, <1>3
<1>. QED
  BY <1>1, <1>4, <1>5, <1>6, <1>7 DEF PassInOrder

(* A member found is where his id says.                                    *)
LEMMA FoundMembersAreThere ==
  ASSUME MembersInPlace
  PROVE  /\ \A id : SelectMemberById(id) # 0 => SelectMemberById(id) \in 1..Len(members)
         /\ \A user, id : GetSpecificTeamMemberById(user, id) # 0 =>
              GetSpecificTeamMemberById(user, id) \in 1..Len(members)
<1>. USE DEF MembersInPlace
<1>1. DOMAIN members = 1..Len(members)
  BY LenProperties
<1>2. \A n : Min({n}) = n
  BY DEF Min
<1>3. ASSUME NEW id, SelectMemberById(id) # 0
      PROVE  SelectMemberById(id) \in 1..Len(members)
  <2>1. PICK k \in DOMAIN members : members[k].id = id
    BY <1>3 DEF SelectMemberById
  <2>. QED
    BY <1>1, <2>1, PlaceOfAnId
<1>4. ASSUME NEW user, NEW id, GetSpecificTeamMemberById(user, id) # 0
      PROVE  GetSpecificTeamMemberById(user, id) \in 1..Len(members)
  <2>. DEFINE owned == {k \in DOMAIN members : members[k].user = user}
              found == {k \in owned : members[k].team = members[Min(owned)].team
                                        /\ members[k].id = id}
  <2>1. found # {} /\ GetSpecificTeamMemberById(user, id) = Min(found)
    BY <1>4 DEF GetSpecificTeamMemberById
  <2>2. PICK k : k \in found
    BY <2>1
  <2>3. k \in 1..Len(members) /\ k = id
    BY <1>1, <2>2
  <2>4. found = {k}
    BY <1>1, <2>2, <2>3
  <2>. HIDE DEF found
  <2>5. Min(found) = k
    BY <1>2, <2>4
  <2>. QED
    BY <2>1, <2>3, <2>5
<1>. QED
  BY <1>3, <1>4

LEMMA ForwardKeeps ==
  ASSUME IInv, NEW user \in Users, NEW id, NEW order \in Orders,
         ForwardMessageToTeamMember(user, id, order)
  PROVE  IInv'
<1>. USE DEF IInv, ForwardMessageToTeamMember, AddPendingAction
<1>. DEFINE m == GetSpecificTeamMemberById(user, id)
            q == Append(members[m].pending, order)
<1>1. m \in 1..Len(members)
  BY FoundMembersAreThere
<1>2. members[m].pending \in Seq(Orders)
  <2>1. members[m] \in Member
    BY <1>1, ElementOfSeq DEF MembersInPlace
  <2>. QED
    BY <2>1 DEF Member
<1>3. q \in Seq(Orders)
  BY <1>2, AppendProperties
<1>4. members' = [members EXCEPT ![m].pending = q]
  OBVIOUS
<1>. HIDE DEF m, q
<1>5. MembersInPlace'
  BY <1>1, <1>3, <1>4, PendingChanges
<1>6. ListsAreInitial' /\ SidesAreAllThere'
  BY DEF ListsAreInitial, SidesAreAllThere
<1>8. Len(members') = Len(members)
  BY <1>5 DEF MembersInPlace
<1>9. PassInOrder'
  BY <1>8 DEF PassInOrder
<1>. QED
  BY <1>5, <1>6, <1>9

LEMMA JoiningKeeps ==
  ASSUME IInv, NEW user \in Users, AddPartyTeamAndRegisterActions(user)
  PROVE  IInv'
<1>. USE DEF IInv, AddPartyTeamAndRegisterActions
<1>1. Len(members) \in Nat
  BY LenProperties DEF MembersInPlace
<1>2. /\ members' \in Seq(Member)
      /\ Len(members') = Len(members) + Len(Team)
      /\ \A k \in 1..Len(members) : members'[k] = members[k]
      /\ \A k \in 1..Len(Team) : members'[Len(members) + k].id = Len(members) + k
  BY JoiningTeam DEF MembersInPlace
<1>3. MembersInPlace'
  <2>1. \A k \in 1..Len(members') : members'[k].id = k
    <3>. TAKE k \in 1..Len(members')
    <3>1. CASE k <= Len(members)
      BY <1>1, <1>2, <3>1, TeamFacts DEF MembersInPlace
    <3>2. CASE k > Len(members)
      <4>1. k - Len(members) \in 1..Len(Team) /\ Len(members) + (k - Len(members)) = k
        BY <1>1, <1>2, <3>2, TeamFacts
      <4>. QED
        BY <1>2, <4>1
    <3>. QED
      BY <1>1, <1>2, <3>1, <3>2, TeamFacts
  <2>2. Len(Team) <= Len(members') /\ currentId' = Len(members')
    BY <1>1, <1>2, TeamFacts DEF MembersInPlace
  <2>3. \A k \in 1..Len(Team) : members'[k].side = Team[k].side
    BY <1>1, <1>2, TeamFacts DEF MembersInPlace
  <2>. QED
    BY <1>2, <2>1, <2>2, <2>3 DEF MembersInPlace
<1>4. ListsAreInitial'
  BY DEF ListsAreInitial
<1>5. SidesAreAllThere'
  BY SortedSidesAreAllThere DEF SidesAreAllThere
<1>6. PassInOrder'
  BY <1>1, <1>2, TeamFacts DEF PassInOrder
<1>. QED
  BY <1>3, <1>4, <1>5, <1>6

LEMMA PassesKeep ==
  ASSUME IInv, StartPass \/ IgnoreEmptySide \/ EndPass
  PROVE  IInv'
<1>. USE DEF IInv
<1>1. /\ MembersInPlace' /\ ListsAreInitial' /\ SidesAreAllThere'
      /\ UNCHANGED <<members, sideBattles, listed>>
  BY DEF StartPass, IgnoreEmptySide, EndPass, MembersInPlace, ListsAreInitial,
         SidesAreAllThere
<1>2. Len(SideBattles) \in Nat /\ at \in Nat
  BY SidesFacts DEF PassInOrder
<1>3. CASE StartPass
  <2>1. at' = 1 /\ popping' = 0 /\ joined' = FALSE /\ played' = [t \in Sides |-> 0]
    BY <1>3 DEF StartPass
  <2>2. \A j \in 1..Len(SideBattles) : played'[sideBattles'[j]] = 0 /\ ~(j < 1)
    BY <1>1, <1>2, <2>1 DEF SidesAreAllThere
  <2>3. 1 \in 0..(Len(SideBattles) + 1)
    BY <1>2
  <2>4. PassInOrder'
    BY <2>1, <2>2, <2>3 DEF PassInOrder
  <2>. QED
    BY <1>1, <2>4
<1>4. CASE IgnoreEmptySide
  <2>1. at \in 1..Len(SideBattles) /\ listed[sideBattles[at]] = {} /\ popping = 0
    BY <1>4 DEF IgnoreEmptySide, SidesAreAllThere
  <2>2. at' \in 0..(Len(SideBattles) + 1)
    BY <1>2, <1>4, <2>1 DEF IgnoreEmptySide
  <2>3. ASSUME ~joined, NEW j \in 1..Len(SideBattles)
        PROVE  played[sideBattles[j]] =
                 IF listed[sideBattles[j]] # {} /\ j < at + 1 THEN 1 ELSE 0
    <3>1. played[sideBattles[j]] =
            IF listed[sideBattles[j]] # {} /\ j < at THEN 1 ELSE 0
      <4>1. at > 0
        BY <1>2, <2>1, SidesFacts
      <4>. QED
        BY <2>1, <2>3, <4>1, PlayedSoFar
    <3>2. CASE j = at
      BY <2>1, <3>1, <3>2
    <3>3. CASE j # at
      BY <1>2, <2>1, <3>1, <3>3
    <3>. QED
      BY <3>2, <3>3
  <2>. QED
    BY <1>1, <1>2, <1>4, <2>1, <2>2, <2>3 DEF IgnoreEmptySide, PassInOrder
<1>5. CASE EndPass
  BY <1>1, <1>2, <1>5 DEF EndPass, PassInOrder
<1>. QED
  BY <1>3, <1>4, <1>5, <1>1

LEMMA TurnsKeep ==
  ASSUME IInv, NEW s \in Sides, NEW p, Turn(s, p)
  PROVE  IInv'
<1>. USE DEF IInv
<1>. DEFINE m == SelectMemberById(p.id)
<1>1. TakesTurn(s, p) /\ currentId' = currentId
  BY DEF Turn, ContenderActs, NobodyActs, MemberExecutes, MemberFindsNoOrder, TakesTurn
<1>2. ListsAreInitial' /\ SidesAreAllThere'
  BY <1>1, TurnsAreOfTheListed
<1>3. m # 0 => m \in 1..Len(members)
  BY FoundMembersAreThere
<1>4. MembersInPlace'
  <2>1. CASE ContenderActs(s, p)
    <3>1. CASE RunScriptedAction(p.id)
      BY <1>1, <3>1, AttackChanges
    <3>2. CASE UNCHANGED members
      BY <1>1, <3>2 DEF MembersInPlace
    <3>. QED
      BY <2>1, <3>1, <3>2 DEF ContenderActs
  <2>2. CASE MemberExecutes(s, p)
    <3>. DEFINE q == Tail(members[m].pending)
    <3>1. m \in 1..Len(members) /\ members[m].pending # << >>
      BY <1>3, <2>2 DEF MemberExecutes
    <3>2. members[m].pending \in Seq(Orders)
      <4>1. members[m] \in Member
        BY <3>1, ElementOfSeq DEF MembersInPlace
      <4>. QED
        BY <4>1 DEF Member
    <3>3. q \in Seq(Orders)
      BY <3>1, <3>2, HeadTailProperties
    <3>4. members' = [members EXCEPT ![m].pending = q]
      BY <2>2 DEF MemberExecutes
    <3>. HIDE DEF q, m
    <3>. QED
      BY <1>1, <3>1, <3>3, <3>4, PendingChanges
  <2>3. CASE NobodyActs(s, p) \/ MemberFindsNoOrder(s, p)
    BY <1>1, <2>3 DEF NobodyActs, MemberFindsNoOrder, MembersInPlace
  <2>. QED
    BY <2>1, <2>2, <2>3 DEF Turn
<1>5. Len(members') = Len(members)
  BY <1>1, <1>4 DEF MembersInPlace
<1>6. \/ at' = at + 1 /\ popping' = popping
      \/ at' = at /\ popping' \in 1..Len(members)
  BY <1>3 DEF Turn, ContenderActs, NobodyActs, MemberExecutes, MemberFindsNoOrder
<1>7. PassInOrder'
  BY <1>1, <1>5, <1>6, TurnsCount
<1>. QED
  BY <1>2, <1>4, <1>7

LEMMA CountersKeep ==
  ASSUME IInv, MemberPutsCountersBack
  PROVE  IInv'
<1>. USE DEF IInv, MemberPutsCountersBack
<1>1. popping \in 1..Len(members) /\ at \in 1..Len(SideBattles) /\ at \in Nat
  BY SidesFacts DEF PassInOrder
<1>2. << >> \in Seq(Orders)
  BY EmptySeq
<1>3. MembersInPlace'
  BY <1>1, <1>2, PendingChanges
<1>4. ListsAreInitial' /\ SidesAreAllThere'
  BY DEF ListsAreInitial, SidesAreAllThere
<1>5. \A j \in 1..Len(SideBattles) : (j < at \/ j = at) <=> j < at + 1
  BY <1>1, SidesFacts
<1>6. at' = at + 1 /\ at' \in 0..(Len(SideBattles) + 1) /\ popping' = 0
  BY <1>1, SidesFacts
<1>7. ASSUME ~joined', NEW j \in 1..Len(SideBattles)
      PROVE  played'[sideBattles'[j]] =
               IF listed'[sideBattles'[j]] # {} /\ j < at' THEN 1 ELSE 0
  <2>1. played[sideBattles[j]] =
          IF listed[sideBattles[j]] # {} /\ (j < at \/ j = at) THEN 1 ELSE 0
    <3>1. at > 0 /\ popping # 0
      BY <1>1, SidesFacts
    <3>. QED
      BY <1>7, <3>1, PlayedSoFar
  <2>. QED
    BY <1>5, <1>6, <2>1
<1>8. played' \in [Sides -> Nat]
  BY DEF PassInOrder
<1>9. PassInOrder'
  <2>1. ASSUME ~joined', NEW j \in 1..Len(SideBattles)
        PROVE  played'[sideBattles'[j]] =
                 IF /\ listed'[sideBattles'[j]] # {}
                    /\ j < at' \/ (j = at' /\ popping' # 0)
                 THEN 1 ELSE 0
    BY <1>6, <1>7, <2>1
  <2>2. popping' \in Nat /\ (popping' = 0)
    BY <1>6
  <2>. QED
    BY <1>6, <1>8, <2>1, <2>2 DEF PassInOrder
<1>. QED
  BY <1>3, <1>4, <1>9

LEMMA Step ==
  IInv /\ [Next]_vars => IInv'
<1>. SUFFICES ASSUME IInv, [Next]_vars PROVE IInv'
  OBVIOUS
<1>1. CASE UNCHANGED vars
  BY <1>1 DEF vars, IInv, MembersInPlace, ListsAreInitial, SidesAreAllThere, PassInOrder
<1>2. CASE Worker
  BY <1>2, PassesKeep, TurnsKeep, CountersKeep DEF Worker
<1>3. CASE Main
  BY <1>3, ForwardKeeps, JoiningKeeps DEF Main
<1>. QED
  BY <1>1, <1>2, <1>3 DEF Next

LEMMA Invariance ==
  Spec => []IInv
<1>. QED
  BY Initially, Step, PTL DEF Spec

-----------------------------------------------------------------------------
(* Whoever has joined, a member is found under his id, which is never that *)
(* of the default participant (AllyPartyTeams::addPartyTeam numbers on,    *)
(* selectMemberById searches).                                             *)
THEOREM IdsFindTheirMembers ==
  Spec => []MembersAreFoundById
<1>1. IInv => MembersAreFoundById
  <2>. SUFFICES ASSUME IInv, NEW k \in DOMAIN members
                PROVE  /\ SelectMemberById(members[k].id) = k
                       /\ members[k].id \in 1..currentId
    BY DEF MembersAreFoundById
  <2>1. k \in 1..Len(members)
    BY LenProperties DEF IInv, MembersInPlace
  <2>. QED
    BY <2>1, PlaceOfAnId DEF IInv, MembersInPlace
<1>. QED
  BY <1>1, Invariance, PTL

(* Every side with participants plays once in each pass of the worker that *)
(* no joining team disturbs (FightingPit::continueBattle).                 *)
THEOREM PassesAreFair ==
  Spec => []EverySidePlaysOncePerPass
<1>1. IInv => EverySidePlaysOncePerPass
  <2>. SUFFICES ASSUME IInv, at > Len(sideBattles), ~joined, NEW s \in Sides
                PROVE  played[s] = IF listed[s] = {} THEN 0 ELSE 1
    BY DEF EverySidePlaysOncePerPass, SidesHavePlayedOnce
  <2>1. PICK i \in 1..Len(SideBattles) : sideBattles[i] = s
    BY DEF IInv, SidesAreAllThere
  <2>2. i < at /\ at > 0
    BY SidesFacts DEF IInv, SidesAreAllThere, PassInOrder
  <2>3. played[sideBattles[i]] = IF listed[sideBattles[i]] # {} THEN 1 ELSE 0
    BY <2>2 DEF IInv, PassInOrder
  <2>. QED
    BY <2>1, <2>3
<1>. QED
  BY <1>1, Invariance, PTL

(* As long as all the contenders are on one side, the index a contender is *)
(* listed with is the one he is executed with, and whoever has the turn of *)
(* a side stands on it (FightingPit::initializePriorityListInSidesBattle,  *)
(* executeContenderAction).                                                *)
THEOREM ContendersOfOneSideStay ==
  ASSUME NEW t \in Sides, \A c \in Contenders : ContenderSides[c + 1] = t
  PROVE  Spec => []TurnsStayOnTheirSide
<1>1. IInv => TurnsStayOnTheirSide
  <2>. SUFFICES ASSUME IInv, NEW s \in Sides, turn[s] # DefaultParticipant
                PROVE  \/ turn[s].isContender /\ turn[s].id \in ContendersOnSide(s)
                       \/ /\ ~turn[s].isContender
                          /\ members[SelectMemberById(turn[s].id)].side = s
    BY DEF TurnsStayOnTheirSide
  <2>1. turn[s] \in InitialList(s)
    BY DEF IInv, ListsAreInitial
  <2>2. CASE turn[s].isContender
    <3>1. turn[s].id \in 0..(Cardinality(ContendersOnSide(s)) - 1)
      BY <2>1, <2>2 DEF InitialList, InitialPriorityList, MembersBySide
    <3>2. s = t
      <4>1. s # t => ContendersOnSide(s) = {}
        BY DEF ContendersOnSide
      <4>2. Cardinality({}) = 0
        BY FS_EmptySet
      <4>. QED
        BY <3>1, <4>1, <4>2
    <3>3. ContendersOnSide(s) = Contenders
      BY <3>2 DEF ContendersOnSide
    <3>4. Len(ContenderSides) \in Nat
      BY PitAssumption, LenProperties
    <3>5. Cardinality(Contenders) = Len(ContenderSides)
      <4>1. Cardinality(0..(Len(ContenderSides) - 1)) =
              IF 0 > Len(ContenderSides) - 1 THEN 0
              ELSE Len(ContenderSides) - 1 - 0 + 1
        BY <3>4, FS_Interval
      <4>. QED
        BY <3>4, <4>1 DEF Contenders
    <3>. QED
      BY <2>2, <3>1, <3>3, <3>5 DEF Contenders
  <2>3. CASE ~turn[s].isContender
    <3>1. turn[s].id \in 1..Len(Team) /\ Team[turn[s].id].side = s
      BY <2>1, <2>3, ListedMembersStandThere
    <3>2. turn[s].id \in 1..Len(members) /\ members[turn[s].id].side = s
      BY <3>1, TeamFacts, LenProperties DEF IInv, MembersInPlace
    <3>. QED
      BY <2>3, <3>2, PlaceOfAnId DEF IInv
  <2>. QED
    BY <2>2, <2>3
<1>. QED
  BY <1>1, Invariance, PTL

-----------------------------------------------------------------------------
(* The search of find_most_suitable, step by step: it goes on from the     *)
(* most suitable of the first members with the next one.                   *)
LEMMA SearchGoesOn ==
  ASSUME NEW A, NEW characters \in Seq(A), characters # << >>, NEW comp
  PROVE  \E best :
           /\ best[0] = Head(characters)
           /\ \A k \in 0..(Len(characters) - 1) :
                best[k + 1] = Better(best[k], characters[k + 1], comp)
           /\ FindMostSuitable(characters, comp) = best[Len(characters)]
<1>. DEFINE n == Len(characters)
            T == Range(characters)
            op == [pair \in T \X (1..n) |-> Better(pair[1], characters[pair[2]], comp)]
            Body(iter) ==
              [s \in SUBSET DOMAIN characters |->
                 IF s = {} THEN Head(characters)
                 ELSE Better(iter[s \ {Max(s)}], characters[Max(s)], comp)]
            found == CHOOSE iter : iter = Body(iter)
            best == [k \in 0..n |-> found[1..k]]
<1>1. n \in Nat /\ n > 0 /\ DOMAIN characters = 1..n /\ Head(characters) = characters[1]
  OBVIOUS
<1>2. Head(characters) \in T /\ \A k \in 1..n : characters[k] \in T
  BY <1>1 DEF Range
<1>3. op \in [T \X (1..n) -> T]
  BY <1>2 DEF Better
<1>4. PICK fold \in [SUBSET (1..n) -> T] :
        IsSequenceFold(fold, n, Head(characters), op)
  <2>. HIDE DEF T, op, n
  <2>. QED
    BY <1>1, <1>2, <1>3, SequenceFoldExists
<1>5. fold = Body(fold)
  <2>1. ASSUME NEW s \in SUBSET (1..n), s # {}
        PROVE  fold[s] = Better(fold[s \ {Max(s)}], characters[Max(s)], comp)
    <3>1. Max(s) \in 1..n /\ s \ {Max(s)} \in SUBSET (1..n)
      BY <1>1, <2>1, GreatestNumber
    <3>2. <<fold[s \ {Max(s)}], Max(s)>> \in T \X (1..n)
      BY <3>1
    <3>3. fold[s] = op[<<fold[s \ {Max(s)}], Max(s)>>]
      BY <1>4, <2>1 DEF IsSequenceFold
    <3>. QED
      BY <3>2, <3>3
  <2>2. fold[{}] = Head(characters)
    BY <1>4 DEF IsSequenceFold
  <2>. HIDE DEF T, op
  <2>. QED
    BY <1>1, <2>1, <2>2
<1>6. found = Body(found)
  <2>. HIDE DEF Body
  <2>. QED
    BY <1>5
<1>7. FindMostSuitable(characters, comp) = found[DOMAIN characters]
  BY Zenon DEF FindMostSuitable, FoldLeft, MapThenFoldSet
<1>. HIDE DEF found
<1>8. ASSUME NEW s \in SUBSET (1..n), s # {}
      PROVE  found[s] = Better(found[s \ {Max(s)}], characters[Max(s)], comp)
  BY <1>1, <1>6, <1>8
<1>9. best[0] = Head(characters)
  <2>1. 1..0 = {} /\ 0 \in 0..n
    BY <1>1
  <2>. QED
    BY <1>1, <1>6, <2>1
<1>10. ASSUME NEW k \in 0..(n - 1)
       PROVE  best[k + 1] = Better(best[k], characters[k + 1], comp)
  <2>1. /\ 1..(k + 1) \in (SUBSET (1..n)) \ {{}}
        /\ Max(1..(k + 1)) = k + 1
        /\ (1..(k + 1)) \ {k + 1} = 1..k
    BY <1>1, SequenceFoldSteps
  <2>2. found[1..(k + 1)] = Better(found[1..k], characters[k + 1], comp)
    BY <1>8, <2>1
  <2>. QED
    BY <1>1, <2>2
<1>11. FindMostSuitable(characters, comp) = best[n]
  BY <1>1, <1>7
<1>. HIDE DEF best
<1>. QED
  BY <1>9, <1>10, <1>11

(* As long as the first member stands on the side, nobody is dead and      *)
(* whoever stands elsewhere is stronger, the search for the lowest life    *)
(* ends on one of the weakest of the side.                                 *)
LEMMA SearchFindsTheWeakest ==
  ASSUME MembersInPlace, NEW s, members[1].side = s,
         \A k \in DOMAIN members :
           /\ members[k].life > 0
           /\ members[k].side # s =>
                \A j \in OnTheSide(s) : members[j].life < members[k].life
  PROVE  \E m \in OnTheSide(s) :
           /\ SelectSuitableOnSideAlive(members, s, LowerLife(members)) = members[m]
           /\ \A k \in OnTheSide(s) : members[m].life <= members[k].life
<1>. DEFINE comp == {pair \in LowerLife(members) : ~IsDead(pair[1]) /\ pair[1].side = s}
            n == Len(members)
            Weakest(c, k) == \E m \in OnTheSide(s) :
                               /\ c = members[m]
                               /\ \A j \in OnTheSide(s) :
                                    j <= k => members[m].life <= members[j].life
<1>1. /\ n \in Nat /\ n > 0 /\ DOMAIN members = 1..n
      /\ members # << >> /\ Head(members) = members[1]
  <2>1. members \in Seq(Member) /\ n \in Nat /\ n > 0
    BY TeamFacts, LenProperties DEF MembersInPlace
  <2>. HIDE DEF n
  <2>2. members # << >> /\ Head(members) = members[1]
    BY <2>1 DEF n
  <2>. QED
    BY <2>1, <2>2, LenProperties DEF n
<1>2. \A k \in 1..n : members[k] \in Member /\ members[k].life \in Nat
  <2>. TAKE k \in 1..n
  <2>1. members[k] \in Member
    BY <1>1 DEF MembersInPlace
  <2>. QED
    BY <2>1 DEF Member
<1>3. OnTheSide(s) = {k \in 1..n : members[k].side = s}
  BY <1>1 DEF OnTheSide
<1>4. PICK best :
        /\ best[0] = Head(members)
        /\ \A k \in 0..(n - 1) : best[k + 1] = Better(best[k], members[k + 1], comp)
        /\ FindMostSuitable(members, comp) = best[n]
  <2>. HIDE DEF comp
  <2>. QED
    BY <1>1, SearchGoesOn DEF MembersInPlace
<1>. HIDE DEF comp
<1>5. ASSUME NEW m \in OnTheSide(s), NEW k \in 1..n
      PROVE  <<members[m], members[k]>> \in comp <=> members[m].life >= members[k].life
  <2>1. m \in 1..n /\ members[m].side = s /\ members[m].life > 0
    BY <1>1, <1>3
  <2>2. members[m] \in Range(members) /\ members[k] \in Range(members)
    BY <1>1, <2>1 DEF Range
  <2>. QED
    BY <1>2, <2>1, <2>2 DEF comp, LowerLife, Pairs, IsDead
<1>. DEFINE reached == {k \in Nat : k <= n => Weakest(best[k], k)}
<1>6. 0 \in reached
  <2>1. 1 \in OnTheSide(s)
    BY <1>1, <1>3
  <2>2. Weakest(members[1], 0)
    BY <1>3, <2>1
  <2>. HIDE DEF Weakest
  <2>. QED
    BY <1>1, <1>4, <2>2
<1>7. ASSUME NEW k \in Nat, k \in reached PROVE k + 1 \in reached
  <2>. SUFFICES ASSUME k + 1 <= n PROVE Weakest(best[k + 1], k + 1)
    OBVIOUS
  <2>1. PICK m \in OnTheSide(s) :
          /\ best[k] = members[m]
          /\ \A j \in OnTheSide(s) : j <= k => members[m].life <= members[j].life
    BY <1>7
  <2>2. best[k + 1] = IF members[m].life >= members[k + 1].life THEN members[k + 1]
                      ELSE members[m]
    <3>1. k \in 0..(n - 1) /\ k + 1 \in 1..n
      BY <1>1
    <3>2. best[k + 1] = Better(members[m], members[k + 1], comp)
      BY <1>4, <2>1, <3>1
    <3>. QED
      BY <1>5, <3>1, <3>2 DEF Better
  <2>3. k + 1 \in 1..n /\ m \in 1..n /\ members[m].life \in Nat
                /\ members[k + 1].life \in Nat
    BY <1>1, <1>2, <1>3
  <2>4. CASE members[m].life >= members[k + 1].life
    <3>1. k + 1 \in OnTheSide(s)
      <4>1. members[k + 1].side # s => members[m].life < members[k + 1].life
        BY <1>1, <2>3
      <4>. QED
        BY <1>3, <2>3, <2>4, <4>1
    <3>2. \A j \in OnTheSide(s) : j <= k + 1 => members[k + 1].life <= members[j].life
      BY <1>2, <1>3, <2>1, <2>3, <2>4
    <3>. QED
      BY <2>2, <2>4, <3>1, <3>2
  <2>5. CASE members[m].life < members[k + 1].life
    <3>1. \A j \in OnTheSide(s) : j <= k + 1 => members[m].life <= members[j].life
      BY <1>2, <1>3, <2>1, <2>3, <2>5
    <3>. QED
      BY <2>2, <2>3, <2>5, <3>1
  <2>. QED
    BY <2>3, <2>4, <2>5
<1>8. Weakest(best[n], n)
  <2>1. Nat \subseteq reached
    <3>. HIDE DEF reached
    <3>. QED
      BY <1>6, <1>7, SetInduction
  <2>. HIDE DEF Weakest
  <2>. QED
    BY <1>1, <2>1
<1>9. SelectSuitableOnSideAlive(members, s, LowerLife(members)) = best[n]
  BY <1>4 DEF SelectSuitableOnSideAlive, comp
<1>10. PICK m \in OnTheSide(s) :
         /\ best[n] = members[m]
         /\ \A j \in OnTheSide(s) : j <= n => members[m].life <= members[j].life
  BY <1>8
<1>11. \A j \in OnTheSide(s) : j <= n
  BY <1>1, <1>3
<1>. QED
  BY <1>9, <1>10, <1>11

(* Until a member dies, who attacks the lowest life on his side hits one   *)
(* of the weakest there (find_most_suitable, selectSuitableMemberOnSide    *)
(* and the slash of the contender).                                        *)
THEOREM TheWeakestIsHit ==
  Spec => UntilADeathTheWeakestIsHit
<1>. DEFINE Held(c) ==
       LET s == ContenderSides[c + 1]
       IN  /\ ContenderAttacks(c)
           /\ members[1].side = s
           /\ \A k \in DOMAIN members :
                /\ members[k].life > 0
                /\ members[k].side # s =>
                     \A j \in OnTheSide(s) : members[j].life < members[k].life
           => \A k \in OnTheSide(s) :
                \E j \in OnTheSide(s) :
                  LosesLife(j) /\ members[j].life <= members[k].life
<1>1. ASSUME IInv, [Next]_vars, NEW c \in Contenders PROVE Held(c)
  <2>. DEFINE s == ContenderSides[c + 1]
  <2>. SUFFICES ASSUME ContenderAttacks(c), members[1].side = s,
                       \A k \in DOMAIN members :
                         /\ members[k].life > 0
                         /\ members[k].side # s =>
                              \A j \in OnTheSide(s) : members[j].life < members[k].life,
                       NEW k \in OnTheSide(s)
                PROVE  \E j \in OnTheSide(s) :
                         LosesLife(j) /\ members[j].life <= members[k].life
    OBVIOUS
  <2>1. PICK t \in Sides : /\ played'[t] = played[t] + 1
                           /\ turn'[t] = [id |-> c, isContender |-> TRUE]
                           /\ Strategy[c] = "lower_life"
    BY DEF ContenderAttacks
  <2>2. played[t] \in Nat
    BY <1>1 DEF IInv, PassInOrder
  <2>3. played' # played
    BY <2>1, <2>2
  <2>4. played'[t] # 0
    BY <2>1, <2>2
  <2>5. PICK t0, p : t0 \in Sides /\ Turn(t0, p)
    <3>1. ~StartPass
      BY <2>4 DEF StartPass
    <3>2. ~(UNCHANGED played)
      BY <2>3
    <3>. QED
      BY <1>1, <3>1, <3>2 DEF Next, vars, Worker, Main, IgnoreEmptySide, EndPass,
         MemberPutsCountersBack, ForwardMessageToTeamMember,
         AddPartyTeamAndRegisterActions
  <2>6. TakesTurn(t0, p)
    BY <2>5 DEF Turn, ContenderActs, NobodyActs, MemberExecutes, MemberFindsNoOrder
  <2>7. t = t0
    BY <1>1, <2>1, <2>2, <2>6 DEF TakesTurn, IInv, PassInOrder
  <2>8. p = [id |-> c, isContender |-> TRUE]
    BY <1>1, <2>1, <2>6, <2>7 DEF TakesTurn, IInv, ListsAreInitial
  <2>9. RunScriptedAction(c)
    BY <1>1, <2>5, <2>8 DEF Turn, ContenderActs, NobodyActs, MemberExecutes, MemberFindsNoOrder
  <2>10. PICK m \in OnTheSide(s) :
           /\ SelectSuitableOnSideAlive(members, s, LowerLife(members)) = members[m]
           /\ \A j \in OnTheSide(s) : members[m].life <= members[j].life
    <3>. HIDE DEF s
    <3>. QED
      BY <1>1, SearchFindsTheWeakest DEF IInv
  <2>11. Targets(c) = {members[m].id}
    BY <2>1, <2>10 DEF Targets
  <2>12. members' = [j \in DOMAIN members |->
                       IF members[j].id = members[m].id
                       THEN [members[j] EXCEPT !.life = Hurt(@)] ELSE members[j]]
    BY <2>9, <2>11 DEF RunScriptedAction
  <2>13. m \in DOMAIN members /\ members[m] \in Member /\ members[m].life > 0
    BY <1>1, ElementOfSeq, LenProperties DEF OnTheSide, IInv, MembersInPlace
  <2>14. members'[m] = [members[m] EXCEPT !.life = Hurt(@)]
    BY <2>12, <2>13
  <2>15. members'[m].life = Hurt(members[m].life)
    BY <2>13, <2>14 DEF Member
  <2>16. LosesLife(m)
    BY <2>13, <2>15, PitAssumption DEF LosesLife, Hurt, Member
  <2>. QED
    BY <2>10, <2>16
<1>2. IInv /\ [Next]_vars => [\A c \in Contenders : Held(c)]_vars
  BY <1>1
<1>. QED
  BY <1>2, Invariance, PTL DEF Spec, UntilADeathTheWeakestIsHit

-----------------------------------------------------------------------------
(* What happens to the orders.                                             *)

LEMMA PrefixOfItself ==
  ASSUME NEW S, NEW q \in Seq(S)
  PROVE  IsPrefix(q, q)
BY LenProperties DEF IsPrefix

LEMMA PrefixOfAppended ==
  ASSUME NEW S, NEW q \in Seq(S), NEW e \in S
  PROVE  IsPrefix(q, Append(q, e))
<1>1. /\ Append(q, e) \in Seq(S)
      /\ Len(q) \in Nat
      /\ Len(Append(q, e)) = Len(q) + 1
      /\ \A k \in 1..Len(q) : Append(q, e)[k] = q[k]
  BY AppendProperties, LenProperties
<1>2. SubSeq(q, 1, Len(q)) = SubSeq(Append(q, e), 1, Len(q))
  BY <1>1
<1>. QED
  BY <1>1, <1>2 DEF IsPrefix

(* A member's queue, in any state.                                         *)
LEMMA QueuesAreSequences ==
  ASSUME MembersInPlace, NEW k \in DOMAIN members
  PROVE  /\ k \in 1..Len(members)
         /\ members[k] \in Member
         /\ members[k].pending \in Seq(Orders)
<1>1. k \in 1..Len(members)
  BY LenProperties DEF MembersInPlace
<1>2. members[k] \in Member
  BY <1>1, ElementOfSeq DEF MembersInPlace
<1>. QED
  BY <1>1, <1>2 DEF Member

OrderKept(k) ==
  \/ IsPrefix(members[k].pending, members'[k].pending)
  \/ TakesOrder(k) /\ GetsTheTurn(k)
  \/ k = popping

LEMMA SameQueue ==
  ASSUME MembersInPlace, NEW k \in DOMAIN members,
         members'[k].pending = members[k].pending
  PROVE  OrderKept(k)
BY QueuesAreSequences, PrefixOfItself DEF OrderKept

LEMMA ForwardedOrdersAreKept ==
  ASSUME MembersInPlace, NEW k \in DOMAIN members,
         NEW user \in Users, NEW id, NEW order \in Orders,
         ForwardMessageToTeamMember(user, id, order)
  PROVE  OrderKept(k)
<1>. DEFINE m == GetSpecificTeamMemberById(user, id)
<1>1. members' = [members EXCEPT ![m].pending = Append(@, order)]
  BY DEF ForwardMessageToTeamMember, AddPendingAction
<1>. HIDE DEF m
<1>2. CASE k = m
  <2>1. members'[k].pending = Append(members[k].pending, order)
    BY <1>1, <1>2, QueuesAreSequences DEF Member
  <2>. QED
    BY <2>1, QueuesAreSequences, PrefixOfAppended DEF OrderKept
<1>3. CASE k # m
  BY <1>1, <1>3, SameQueue
<1>. QED
  BY <1>2, <1>3

LEMMA JoiningTeamsKeepOrders ==
  ASSUME MembersInPlace, NEW k \in DOMAIN members, NEW user \in Users,
         AddPartyTeamAndRegisterActions(user)
  PROVE  OrderKept(k)
<1>1. members'[k] = members[k]
  BY JoiningTeam, QueuesAreSequences DEF AddPartyTeamAndRegisterActions, MembersInPlace
<1>. QED
  BY <1>1, SameQueue

LEMMA AttacksKeepOrders ==
  ASSUME MembersInPlace, NEW k \in DOMAIN members, NEW c, RunScriptedAction(c)
  PROVE  OrderKept(k)
<1>1. PICK id : members' = [j \in DOMAIN members |->
                               IF members[j].id = id
                               THEN [members[j] EXCEPT !.life = Hurt(@)] ELSE members[j]]
  BY DEF RunScriptedAction
<1>2. members'[k].pending = members[k].pending
  BY <1>1, QueuesAreSequences DEF Member
<1>. QED
  BY <1>2, SameQueue

LEMMA TurnsTakeOrders ==
  ASSUME IInv, NEW k \in DOMAIN members, NEW s \in Sides, NEW p, Turn(s, p)
  PROVE  OrderKept(k)
<1>1. CASE ContenderActs(s, p)
  <2>1. CASE RunScriptedAction(p.id)
    BY <2>1, AttacksKeepOrders DEF IInv
  <2>2. CASE UNCHANGED members
    BY <2>2, SameQueue DEF IInv
  <2>. QED
    BY <1>1, <2>1, <2>2 DEF ContenderActs
<1>2. CASE MemberExecutes(s, p)
  <2>. DEFINE m == SelectMemberById(p.id)
  <2>1. /\ members' = [members EXCEPT ![m].pending = Tail(@)]
        /\ m # 0 /\ members[m].pending # << >>
        /\ ~p.isContender /\ TakesTurn(s, p)
    BY <1>2 DEF MemberExecutes
  <2>2. m \in 1..Len(members)
    BY <2>1, FoundMembersAreThere DEF IInv
  <2>3. p \in InitialList(s) \cup {DefaultParticipant}
    BY <2>1, TurnsAreOfTheListed
  <2>4. p = [id |-> p.id, isContender |-> FALSE]
    <3>1. ~p.isContender
      BY <2>1
    <3>. HIDE DEF m
    <3>2. CASE p = DefaultParticipant
      BY ONLY <3>2 DEF DefaultParticipant
    <3>3. CASE p \in InitialList(s)
      <4>. DEFINE by == MembersBySide(WithPartyTeam(Creator, << >>), s)
                  upTo == 0..(Cardinality(ContendersOnSide(s)) - 1)
      <4>1. p \in [id : by, isContender : {FALSE}] \cup [id : upTo, isContender : {TRUE}]
        BY ONLY <3>3 DEF InitialList, InitialPriorityList
      <4>. HIDE DEF by, upTo
      <4>. QED
        BY ONLY <3>1, <4>1
    <3>. QED
      BY ONLY <2>3, <3>2, <3>3
  <2>5. members[m].id = p.id
    <3>1. PICK j \in DOMAIN members : members[j].id = p.id
      BY <2>1 DEF SelectMemberById
    <3>2. j \in 1..Len(members) /\ j = p.id
      BY <3>1, LenProperties DEF IInv, MembersInPlace
    <3>3. m = j
      BY <3>2, PlaceOfAnId DEF IInv
    <3>. QED
      BY <3>1, <3>3
  <2>6. played'[s] = played[s] + 1 /\ turn'[s] = p
    BY <2>1 DEF TakesTurn, IInv, PassInOrder, ListsAreInitial
  <2>. HIDE DEF m
  <2>7. CASE k = m
    <3>1. members'[k].pending = Tail(members[k].pending)
      BY <2>1, <2>7, QueuesAreSequences DEF Member, IInv
    <3>. QED
      BY <2>1, <2>4, <2>5, <2>6, <2>7, <3>1 DEF OrderKept, TakesOrder, GetsTheTurn
  <2>8. CASE k # m
    BY <2>1, <2>8, SameQueue DEF IInv
  <2>. QED
    BY <2>7, <2>8
<1>3. CASE NobodyActs(s, p) \/ MemberFindsNoOrder(s, p)
  BY <1>3, SameQueue DEF NobodyActs, MemberFindsNoOrder, IInv
<1>. QED
  BY <1>1, <1>2, <1>3 DEF Turn

(* No order is overridden, taken twice or out of order, or lost, but those *)
(* that come while a turn has found the queue empty (TeamMember's pending  *)
(* actions, pushed and popped without a lock).                             *)
THEOREM OrdersOnlyLeaveByBeingTaken ==
  Spec => OrdersLeaveByBeingTaken
<1>1. ASSUME IInv, [Next]_vars, NEW k \in DOMAIN members PROVE OrderKept(k)
  <2>1. CASE UNCHANGED members
    BY <1>1, <2>1, SameQueue DEF IInv
  <2>2. CASE MemberPutsCountersBack
    <3>1. members' = [members EXCEPT ![popping].pending = << >>]
      BY <2>2 DEF MemberPutsCountersBack
    <3>2. CASE k = popping
      BY <3>2 DEF OrderKept
    <3>3. CASE k # popping
      BY <1>1, <3>1, <3>3, SameQueue DEF IInv
    <3>. QED
      BY <3>2, <3>3
  <2>3. ASSUME NEW s \in Sides, NEW p, Turn(s, p) PROVE OrderKept(k)
    BY <1>1, <2>3, TurnsTakeOrders
  <2>4. CASE Main
    BY <1>1, <2>4, ForwardedOrdersAreKept, JoiningTeamsKeepOrders DEF Main, IInv
  <2>. QED
    BY <1>1, <2>1, <2>2, <2>3, <2>4
       DEF Next, Worker, StartPass, IgnoreEmptySide, EndPass, vars
<1>2. IInv /\ [Next]_vars => [\A k \in DOMAIN members : OrderKept(k)]_vars
  BY <1>1
<1>. QED
  BY <1>2, Invariance, PTL DEF Spec, OrdersLeaveByBeingTaken, OrderKept

-----------------------------------------------------------------------------
(* What ends the worker.                                                   *)

BadOrderTaken ==
  \E k \in DOMAIN members :
    TakesOrder(k) /\ ~FirstActionOnSomebody(Head(members[k].pending))

NobodyToAttack ==
  \E c \in Contenders :
    Strategy[c] = "one_random" /\ OnTheSide(ContenderSides[c + 1]) = {}

(* Only the turn of a contender who chooses at random has to find somebody.*)
LEMMA AttacksEndForLackOfTargets ==
  ASSUME NEW c \in Contenders, RunScriptedAction(c), ~alive'
  PROVE  NobodyToAttack
<1>1. Strategy[c] = "one_random" /\ Targets(c) = {}
  BY DEF RunScriptedAction
<1>2. Targets(c) = {m.id : m \in OnSide(members, ContenderSides[c + 1])}
  BY <1>1 DEF Targets
<1>3. OnSide(members, ContenderSides[c + 1]) = {}
  BY <1>1, <1>2
<1>4. OnTheSide(ContenderSides[c + 1]) = {}
  BY <1>3 DEF OnSide, OnTheSide, Range
<1>. QED
  BY <1>1, <1>4 DEF NobodyToAttack

(* Only an order that is not for a member's first action, or not on a      *)
(* contender who is there, is not executed.                                *)
LEMMA OrdersOnSomebodyExecute ==
  ASSUME NEW order, FirstActionOnSomebody(order)
  PROVE  Executes(order)
BY DEF FirstActionOnSomebody, Executes, IsRegistered, ReachesItsTarget

LEMMA TurnsEndByBadOrders ==
  ASSUME IInv, alive, ~alive', NEW s \in Sides, NEW p, Turn(s, p)
  PROVE  BadOrderTaken \/ NobodyToAttack
<1>1. CASE ContenderActs(s, p)
  <2>1. p.id \in Contenders /\ RunScriptedAction(p.id)
    BY <1>1 DEF ContenderActs
  <2>. QED
    BY <2>1, AttacksEndForLackOfTargets
<1>2. CASE MemberExecutes(s, p)
  <2>. DEFINE m == SelectMemberById(p.id)
  <2>1. /\ members' = [members EXCEPT ![m].pending = Tail(@)]
        /\ m # 0 /\ members[m].pending # << >>
        /\ ~Executes(Head(members[m].pending))
    BY <1>2 DEF MemberExecutes
  <2>2. m \in 1..Len(members)
    BY <2>1, FoundMembersAreThere DEF IInv
  <2>. HIDE DEF m
  <2>3. m \in DOMAIN members
    BY <2>2, LenProperties DEF IInv, MembersInPlace
  <2>4. members'[m].pending = Tail(members[m].pending)
    BY <2>1, <2>3, QueuesAreSequences DEF Member, IInv
  <2>5. ~FirstActionOnSomebody(Head(members[m].pending))
    BY <2>1, OrdersOnSomebodyExecute
  <2>. QED
    BY <2>1, <2>3, <2>4, <2>5 DEF BadOrderTaken, TakesOrder
<1>3. CASE NobodyActs(s, p) \/ MemberFindsNoOrder(s, p)
  BY <1>3 DEF NobodyActs, MemberFindsNoOrder
<1>. QED
  BY <1>1, <1>2, <1>3 DEF Turn

(* The worker's thread only ends by an order that is not for a member's    *)
(* first action on a contender who is there, or by a contender who attacks *)
(* at random where nobody stands (the exceptions of continueBattle).       *)
THEOREM OnlyBadOrdersEverEndTheWorker ==
  Spec => OnlyBadOrdersEndTheWorker
<1>1. IInv /\ [Next]_vars =>
        [alive /\ ~alive' => BadOrderTaken \/ NobodyToAttack]_vars
  <2>. SUFFICES ASSUME IInv, Next, alive, ~alive'
                PROVE  BadOrderTaken \/ NobodyToAttack
    OBVIOUS
  <2>1. PICK s \in Sides : \E p : Turn(s, p)
    BY DEF Next, Worker, StartPass, IgnoreEmptySide, MemberPutsCountersBack,
       EndPass, Main, ForwardMessageToTeamMember, AddPartyTeamAndRegisterActions
  <2>. QED
    BY <2>1, TurnsEndByBadOrders
<1>. QED
  BY <1>1, Invariance, PTL
     DEF Spec, OnlyBadOrdersEndTheWorker, BadOrderTaken, NobodyToAttack
=============================================================================
