CONSTANTS
  Producers = {p1, p2}
  MaxEntries = 2
  BatchSize = 2
  MaxFailures = 1
SPECIFICATION FairSpec
INVARIANTS
  TypeOK
  NothingLost
  BatchHeadsQueue
  StoredInOrder
  OnceUnlessFailed
  NoLostWakeup
PROPERTIES
  EventuallyStored
  LogImplemented
CHECK_DEADLOCK FALSE
