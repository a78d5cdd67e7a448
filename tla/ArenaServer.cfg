SPECIFICATION FairSpec
CONSTANTS
  Users = {u1, u2}
  Tokens = {t1, t2}
  Identities = {i1, i2}
  Zones = {z1, z2}
  RegisteredZones = {z1}
  NoName = NoName
  NoZone = NoZone
  NotAwaited = NotAwaited
  MaxArenaId = 2
  MaxRegistrations = 4
  EndDereference = {"crash", "refused"}
  FailedBuilding = {"crash", "refused"}
  SentMultipart = {"intact", "emptied"}
CHECK_DEADLOCK FALSE
INVARIANTS
  PitIdsAreDense
  RegisteredPitsAreReady
  IdentifiedPlayersHaveTeams
  ForwardedPlayersHaveTeams
  RegistrationsAreAccountedFor
PROPERTIES
  PitsAreNeverReplaced
  AdmissionConsumesToken
  OnlyThreeWaysToEnd
  AwaitedIsSettled
  AwaitedJoinerIsAdmitted
