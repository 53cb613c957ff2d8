CONSTANTS
  N = 2
  MaxWidth = 2
  Calls <- MCCalls
SPECIFICATION FairSyncSpec
PROPERTIES
  CallReturns
CHECK_DEADLOCK FALSE
