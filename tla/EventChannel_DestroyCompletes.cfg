CONSTANTS
  Connected = {c1}
  Unconnected = {}
  PushSuppliers = {s1}
  Destroyers = {"client"}
  ServerStops = FALSE
  MaxArrivals = 1
  MaxPulled = 0
SPECIFICATION FairSpec
PROPERTY DestroyCompletes
CHECK_DEADLOCK FALSE
