SPECIFICATION FairSpec
CONSTANTS
  Users = {ann, bob}
  Creator = ann
  Started = TRUE
  SideBattles <- TwoFronts
  Team <- ThreeMembers
  DoableActions <- TwoActions
  NameOfKey <- Names
  RequiredTarget <- TargetOfName
  ContenderSides <- TwoContenders
  Strategy <- LowestOrAny
  Power = 1
  Orders <- SomeOrders
  QueueSize = 1
  MaxTeams = 2
  MaxWaiting = 1
CHECK_DEADLOCK FALSE
INVARIANTS
  MembersAreFoundById
  TurnsStayOnTheirSide
  EverySidePlaysOncePerPass
PROPERTIES
  UntilADeathTheWeakestIsHit
  
  OnlyBadOrdersEndTheWorker
  OrdersKeepBeingTaken
