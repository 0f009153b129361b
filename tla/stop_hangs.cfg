SPECIFICATION ThreadSpec
CONSTANTS
  Requests <- MCRequests
  Ranges <- MCRanges
  TakenSets <- MCTakenSets
  DefaultPort = 5000
PROPERTY
  StopReturns
CHECK_DEADLOCK FALSE
