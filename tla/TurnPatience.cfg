SPECIFICATION CountedFairSpec
CONSTANTS
  Participants <- SharedIds
  Speeds = {1, 3}
  MaxRounds = 60
  MaxChanges = 2
CHECK_DEADLOCK FALSE
INVARIANTS
  ListsAgree
  TurnsEnd
  SpeedsStayBounded
  NobodyWaitsLong
PROPERTIES
  SlowestIdClosesTheTurn
  NobodyStarves
