SPECIFICATION FairSpec
CONSTANTS
  PingToSend = 2
  MaxOther = 1
  RestartOk <- OldLibuv
  ServerKinds <- MCServerKinds
  Fates <- NoFault
PROPERTY SendsPings
CHECK_DEADLOCK FALSE
