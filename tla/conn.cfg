SPECIFICATION FairSpec
CONSTANTS
  PingToSend = 2
  MaxOther = 1
  MaxOwed = 5
  RestartOk <- AnyLibuv
INVARIANTS
  TypeOK
  FreedIsQuiescent
  DeletedOnce
  ClientBudget
  BreaksOnlyAfterCloseInLoop
PROPERTIES
  RevivedOnlyInLoop
  LifecycleSpec
  ClosingCompletes
  OpenReads
CHECK_DEADLOCK FALSE
