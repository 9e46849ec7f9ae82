CONSTANTS
  Callers = {c1, c2}
  MaxTaskId = 2
  MaxScheduled = 3
SPECIFICATION FairSpec
INVARIANTS
  StopIsQuiescent
  FirstInFirstRun
  LatestSetRateWins
PROPERTIES
  QueueDrains
  StopReturns
CHECK_DEADLOCK FALSE
