\* Two threads and two segments over four directories, with a disk that is
\* too small while a flush is under way, and one crash.
CONSTANTS
  Threads = {t1, t2}
  Urls = {u1, u2}
  MaxSize = 2
  Capacity = 2
  DiskSpace = 3
  MaxWait = 1
  MaxEpochs = 4
  MaxCrashes = 1
SPECIFICATION FairSpec
CHECK_DEADLOCK FALSE
INVARIANTS
  WrittenIsKept
  AccountingExact
  NothingStale
  CleanExit
PROPERTIES
  DestructorReturns
