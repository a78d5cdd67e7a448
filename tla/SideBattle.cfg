SPECIFICATION SideFairSpec
CONSTANTS
  Participants <- SideParticipants
  Speeds = {1, 3}
  MaxRounds = 60
  MaxChanges = 4
  Level = "MEDIUM"
CHECK_DEADLOCK FALSE
PROPERTIES
  TurnsLastTheInterlude
  EveryoneKeepsPlaying
  ImplementsSideTurns
