CONSTANTS
  c1 = c1
  c2 = c2
  c3 = c3
  NoCall = NoCall
  Calls <- MCCalls
  MethodOf <- MCMethodOf
  SizeOf <- MCSizeOf
  MaximumUIJSONBytes = 3
  Throws <- MCThrows
SPECIFICATION FairSpec
INVARIANTS MapMatchesPromises RightAnswer
PROPERTIES ImplementsContract EveryCallSettles
CHECK_DEADLOCK FALSE
