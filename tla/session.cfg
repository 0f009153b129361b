SPECIFICATION FairSpec
CONSTANTS
  PingToSend = 2
  MaxOther = 1
  RestartOk <- AnyLibuv
  ServerKinds <- MCServerKinds
  Fates <- MCFaults
INVARIANTS
  TypeOK
  DeletedWhenDone
  AllAnswered
  EndsForAReason
PROPERTIES
  OnlyBlankDropped
  LinesSpec
  ClientEnds
  ServerForgets
CHECK_DEADLOCK FALSE
