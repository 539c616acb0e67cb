CONSTANTS
  Requests = {r1}
  Models = {"m1", "m2", "m3"}
  Agents = {"x"}
  Listed <- MCListed
  Priority <- MCPriority
  Weight <- MCWeight
  Preferred = {"a", "b", "c"}
  Narrow = {"c"}
  Supplies <- MCSupplies
  Routes <- MCRoutes
  Scenes <- MCScenes
  UnsupportedMax = 1
  TurnCycle = 12
SPECIFICATION RoutingFairSpec
INVARIANTS
  AccountsStayBounded
PROPERTIES
  CoolingComesLast
  PinsKeepPriority
  NoChannelStarves
