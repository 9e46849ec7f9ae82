CONSTANTS
  TrackOrder <- VideoAudio
  SegmentsPerPeriod = 1
  MaxPeriods = 2
  MaxProfileChanges = 1
  MaxInitFailures = 0
  MaxSwitches = 0
  MaxTunes = 2
SPECIFICATION FairSpec
PROPERTIES
  StopReturns
  EndIsReached
CHECK_DEADLOCK FALSE
