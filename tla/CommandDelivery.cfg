CONSTANTS
  Count = 2
  Content <- MCContent
  Built = {1}
  MaxCrashes = 2
SPECIFICATION FairSpec
INVARIANTS DigestsAgree OnlyEscapesChangeDigest RunsInOrder
PROPERTIES ImplementsContract EveryCommandEnds
CHECK_DEADLOCK FALSE
