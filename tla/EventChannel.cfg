CONSTANTS
  Connected = {c1}
  Unconnected = {u1}
  PushSuppliers = {s1}
  Destroyers = {"client", "delete_all"}
  ServerStops = TRUE
  MaxArrivals = 4
  MaxPulled = 1
SPECIFICATION FairSpec
INVARIANTS NothingLostOrOvertaken TransferIsExclusive
PROPERTIES ArrivedIsSent ThreadEnds
