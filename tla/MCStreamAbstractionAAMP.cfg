\* Three periods of one or two media fragments per track, with or without
\* discontinuities and codec changes between them and with one period of one
\* track lost, through rings of two.
CONSTANTS
  LastPeriod = 3
  MaxFragments = 2
  MaxFailures = 1
  CacheSize = 2
SPECIFICATION FairSpec
CHECK_DEADLOCK FALSE
INVARIANTS
  PairedWhenConfigured
  NoneAcrossDiscontinuity
PROPERTIES
  PlaybackEnds
