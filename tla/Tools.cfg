CONSTANTS
  MaxChannels = 3
  UlongBits = 16
  Names = {n1, omniEvents}
  FactoryName = omniEvents
  NoName = NoName
  Clients = {t1, t2}
  Nobody = Nobody
  Iterators = {1, 2}
  Ttl = 1
  EventChannelName = EventChannel
  MaxRuns = 2
SPECIFICATION Spec
INVARIANTS StoreIsAlive IteratorsAlive NamesAreAlive
CHECK_DEADLOCK FALSE
PROPERTIES DestroyedNameIsFree AbandonedAreFreed
