CONSTANTS
  Ids = {1, 2, 3, 4, 5}
  MaxLosses = 1
  MaxLate = 1
  MaxExits = 1
SPECIFICATION Spec
INVARIANTS AcknowledgedIsLive ConfirmedIsLive OutcomeHolds
PROPERTIES UpdateEnds
CHECK_DEADLOCK FALSE
