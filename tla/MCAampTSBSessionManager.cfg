\* Two video fragments and one of audio, changes between two representations
\* of video, also in a row, a store that may be full with three files and is
\* with five of six, a window of one fragment, and one seek.
CONSTANTS
  high = high
  low = low
  only = only
  LastPosition <- MCLastPosition
  Representations <- MCRepresentations
  MaxInits <- MCMaxInits
  mTsbLength = 1
  FailsFrom = 3
  Capacity = 5
  MaxSeeks = 1
SPECIFICATION Spec
SYMMETRY Symmetry
CHECK_DEADLOCK FALSE
INVARIANTS
  StoreMatchesMetadata
  ReaderPushesInit
  EosIsTheEnd
PROPERTIES
  InjectedInOrder
