SPECIFICATION Spec
CONSTANTS
  Users = {u1, u2}
  Tokens = {t1, t2}
  Identities = {i1}
  Zones = {z1, z2}
  RegisteredZones = {z1}
  NoName = NoName
  NoZone = NoZone
  NotAwaited = NotAwaited
  MaxArenaId = 1
  MaxRegistrations = 2
  EndDereference = {"refused"}
  FailedBuilding = {"refused"}
  SentMultipart = {"intact"}
INVARIANT TeamOwnersMayPlay
