CONSTANTS
  TrackTypes = {"audio"}
  CacheSize = 2
  LastFragment = 3
  Discontinuities <- ThirdIsDiscontinuous
  ChunkModes = {FALSE, TRUE}
  SegmentInjectThreshold = 2
  MaxDiscards = 0
  MaxSwitches = 1
  MaxSwitchFailures = 1
  MaxRestarts = 0
  MaxSpurious = 1
SPECIFICATION Spec
INVARIANTS
  CacheWithinCapacity
  NoOldAudioAfterSwitch
CHECK_DEADLOCK FALSE
