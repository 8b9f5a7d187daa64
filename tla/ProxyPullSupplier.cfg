CONSTANTS
  Proxies = {p1, p2, p3}
  MaxQueueLength = 1
  MaxNumProxies = 1
  HasLog = TRUE
  MaxEvents = 3
  MaxCalls = 3
  MaxTime = 1
SPECIFICATION FairSpec
INVARIANTS CopyIsSafe FewProxies
PROPERTIES TransferHappens
