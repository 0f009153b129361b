SPECIFICATION FairSpec
CONSTANTS
  Requests <- MCRequests
  Ranges <- MCRanges
  TakenSets <- MCTakenSets
  DefaultPort = 5000
INVARIANTS
  TypeOK
  FirstFreePort
  LoopRunsOnce
  StopCleansUp
PROPERTIES
  StopHitsTheLoop
  BlankOnlyWhileStarting
  StopReturnsWhilePinging
CHECK_DEADLOCK FALSE
