CONSTANTS
  App = app
  Loop = app
  Sched = sched
  Collector = collector
  None = None
  LoopErrors = {"UNDERFLOW"}
  CollectorErrors = {}
  MultiPeriod = TRUE
  MaxCalls = 2
  MaxReports = 3
SPECIFICATION FairSpec
PROPERTIES
  CallReturns
CHECK_DEADLOCK FALSE
