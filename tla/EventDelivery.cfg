CONSTANTS
  MaxEvents = 2
  PageSize = 2
  BatchSize = 2
  FeedSize = 2
  MaxQueue = 3
  MaxCrashes = 1
  MaxRemoved = 1
SPECIFICATION FairSpec
INVARIANTS LogIsWhole
PROPERTIES ImplementsEventLog StoredAndConsumed
CHECK_DEADLOCK FALSE
