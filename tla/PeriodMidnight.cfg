CONSTANTS
  Policies <- MCMidnightGap
  Horizon = 479500
  MaxLag = 30
SPECIFICATION Spec
INVARIANTS DailyEndsAtMidnight
CHECK_DEADLOCK FALSE
