CONSTANTS
  TrackTypes = {"audio", "subtitle"}
  CacheSize = 2
  LastFragment = 5
  Discontinuities <- FourthIsDiscontinuous
  ChunkModes = {FALSE}
  SegmentInjectThreshold = 2
  MaxDiscards = 2
  MaxSwitches = 0
  MaxSwitchFailures = 0
  MaxRestarts = 1
  MaxSpurious = 0
SPECIFICATION FairSpec
INVARIANTS
  DiscontinuityWaitsForPipeline
  EosAfterLastFragment
PROPERTIES
  ImplementsFragmentQueue
  StopReturns
  DetachReturns
  EndIsSignalled
CHECK_DEADLOCK FALSE
