CONSTANTS
  Background = {b1, b2}
  Loop = loop
  Listeners = {l1}
  Types = {"EOS", "PROGRESS"}
  TuneEvents = {"EOS"}
  MaxEvents = 2
  MaxSettings = 2
SPECIFICATION FairSpec
INVARIANTS
  NoCallbackAfterDestroy
  EventHasSource
  FlushedNeverDelivered
PROPERTIES
  SenderOrder
  QueuedIsServed
CHECK_DEADLOCK FALSE
