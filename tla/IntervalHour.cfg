CONSTANTS
  Policies <- MCSkippedHour
  Horizon = 475100
  MaxLag = 30
SPECIFICATION Spec
INVARIANTS IntervalKeepsHour
CHECK_DEADLOCK FALSE
