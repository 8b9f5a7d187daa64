CONSTANTS
  Proxies = {p1, p2}
  Periods = {1, 3}
  Cycle = 1
  MsPerSec = 2
  MILLION = 1
  StartTimes = {3}
  MaxTime = 8
  MaxCalls = 3
  MaxGiven = 1
SPECIFICATION FairSpec
INVARIANTS NoEventLost EndIsComplete OnSchedule
PROPERTIES AskedAgain
