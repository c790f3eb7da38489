SPECIFICATION LedgerSpec
CONSTANTS
  LastService = 2
  LastPeriod = 2
  MaxTraffic = 4
  MaxRestarts = 1
  MaxSnapshots = 3
INVARIANTS LedgerIsTraffic CenterKnowsLedger
CHECK_DEADLOCK FALSE
