CONSTANTS
  TrackOrder <- VideoAudio
  SegmentsPerPeriod = 1
  MaxPeriods = 1
  MaxProfileChanges = 0
  MaxInitFailures = 1
  MaxSwitches = 2
  MaxTunes = 1
SPECIFICATION Spec
INVARIANTS
  NoLockCycle
CHECK_DEADLOCK FALSE
