CONSTANTS
  N = 2
  MaxWidth = 2
  Calls <- MCCalls
SPECIFICATION FairSyncSpec
INVARIANTS
  UninstallsSerialised
  SummaryExact
  NoErrorMeansConverged
  LostReleaseReported
PROPERTIES
  ReturnsUnlessLeaked
  ImplementsPool
CHECK_DEADLOCK FALSE
