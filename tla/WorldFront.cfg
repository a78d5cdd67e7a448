SPECIFICATION FairSpec
CONSTANTS
  Servers <- TwoServers
  Topics <- OneTopic
  TopicGroups <- OneGroup
  Clients <- FromClients
  ClusterMessages <- FromCluster
  HighWaterMark = 1
  MaxWaiting = 1
  MaxConnection = 3
  TokenToIndex <- OnePlayer
  Identities <- AllIdentities
  Directions <- AllDirections
  Limit = 2
  Distance = 1
  WorldJson <- SmallWorld
  TileCountX = 2
  TileCountY = 2
  TileSize = 1
  Layers <- TwoLayers
INVARIANTS
  WorldTypeOK
  MessagesReachTheirServerOnly
PROPERTIES
  PlayersFollowTheirClients
  NeitherSideStarves
