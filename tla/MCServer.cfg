CONSTANTS
  Servers = {s1, s2}
  Nobody = Nobody
  Empty = Empty
  Dead = Dead
  WindowsServer = s1
SPECIFICATION MCSpec
INVARIANTS StarterIsTold PidfileIsKept
PROPERTIES StarterReturns
CHECK_DEADLOCK FALSE
