SPECIFICATION Spec
CONSTANTS
  Channels = {c1}
  PushNames = {p1, p2}
  PullNames = {q1}
  MaxCrashes = 2
  MaxIOErrors = 1
SYMMETRY Symmetry
VIEW View
CHECK_DEADLOCK FALSE
INVARIANTS Restorable ChannelsKept ConnectionsKept
