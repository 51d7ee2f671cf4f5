CONSTANTS
  SKUs = {s1}
  Writers = {w1, w2}
  Ids = {1, 2, 3}
  MaxTime = 2
  BatchLimit = 2
  MaxFaults = 1
  NoSKU = NoSKU
SPECIFICATION FairSpec
INVARIANTS
  TypeOK
  SequencesAreDense
  RecoveryHasNoHole
PROPERTIES
  ImplementsEventStream
  EventsAreMissedOnlyLate
  ReadEventsArePublished
CHECK_DEADLOCK FALSE
