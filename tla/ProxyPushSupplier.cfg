CONSTANTS
  Proxies = {p1, p2}
  Responsive = {p1}
  MaxQueueLength = 2
  HasLog = TRUE
  MaxEvents = 2
  MaxCalls = 2
SPECIFICATION FairSpec
INVARIANTS NoFreedServant NoOrphanRequest EndIsTold ConnectionsLogged
PROPERTIES SentIsDelivered KidsGetIn ShutdownEnds
