CONSTANTS
  Callbacks = {1, 2, p1}
  Nobody = Nobody
  NumOids = 1
  NumConnections = 2
  Proxies = {p1}
  HasLog = TRUE
  MaxCalls = 2
  MaxCrashes = 1
SPECIFICATION FairSpec
INVARIANTS CallbacksAlive ConnectionsRecorded
PROPERTIES LeftoversFreed
