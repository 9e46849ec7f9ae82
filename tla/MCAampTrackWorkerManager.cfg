CONSTANTS
  TrackOrder <- VideoAudio
  SegmentsPerPeriod = 2
  MaxPeriods = 2
  MaxProfileChanges = 1
  MaxInitFailures = 1
  MaxSwitches = 1
  MaxTunes = 1
SPECIFICATION Spec
INVARIANTS
  SegmentsInOrder
  InitBeforeSegment
  ResetIsBarrier
  StopIsQuiescent
PROPERTIES
  EosAfterLastSegment
CHECK_DEADLOCK FALSE
