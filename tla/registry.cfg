SPECIFICATION FairSpec
CONSTANTS
  PingToSend = 0
  MaxOther = 0
  MaxOwed = 1
  RestartOk <- NewLibuv
  Ids = {c1, c2}
  Addrs = {host1, host2}
  Unknown = unknown
INVARIANTS
  TypeOK
  EntriesMatchHandles
  LostOnlyByAddress
  StopFinishesCloses
PROPERTIES
  WalkFindsNoneClosing
  GoneIsForgotten
CHECK_DEADLOCK FALSE
