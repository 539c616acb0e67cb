CONSTANTS
  Requests = {"r1", "r2"}
  Orders <- MCOrders
  Proxied = {"tunnel", "plain"}
  Secure = {"tunnel"}
  Slots = 1
  MAX_REDIRECTS = 1
SPECIFICATION FairSpec
INVARIANTS
  AbortReachesEverySocket
PROPERTIES
  AbortIsNoNetworkError
  EmbeddingsEnd
CHECK_DEADLOCK FALSE
