CONSTANTS
  BlockSets = {{a1}, {a2}}
  MaxGeneration = 2
  MaxRevision = 2
SPECIFICATION LiveSpec
INVARIANTS ConfirmedInForce
PROPERTIES DecisionsInForce
CHECK_DEADLOCK FALSE
