CONSTANTS
  N = 3
  MaxWidth = 3
  Calls <- MCCalls
SPECIFICATION FairPoolSpec
INVARIANTS
  AllProcessedAtReturn
  NoErrorSwallowed
PROPERTIES
  ImplementsFor
  CallReturns
