CONSTANTS
  App = app
  Loop = app
  Sched = sched
  Collector = collector
  None = None
  LoopErrors = {"PIPELINE_INTERNAL"}
  CollectorErrors = {"STARTTIME_RESET"}
  MultiPeriod = TRUE
  MaxCalls = 3
  MaxReports = 2
SPECIFICATION Spec
INVARIANTS
  IdleHasNoStream
  RetuneStands
CHECK_DEADLOCK FALSE
