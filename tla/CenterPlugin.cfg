CONSTANTS
  a1 = a1
  a2 = a2
  a3 = a3
  i1 = i1
  i2 = i2
  i3 = i3
  i4 = i4
  NoConn = NoConn
  Activations <- MCActivations
  Invocations <- MCInvocations
  MayListNodes <- MCMayListNodes
  MethodOf <- MCMethodOf
  Wishes <- MCWishes
  SourceOf <- MCSourceOf
  ContentOf <- MCContentOf
  Bad <- MCBad
  MaxTries = 2
SPECIFICATION MCSpec
INVARIANTS ConnectionsOwned PublishedOnce PublishedIsMine
PROPERTIES FailureKeepsHost
CHECK_DEADLOCK FALSE
