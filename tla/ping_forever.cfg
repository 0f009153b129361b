SPECIFICATION Spec
CONSTANTS
  PingToSend = 2
  MaxOther = 1
  MaxOwed = 5
  RestartOk <- NewLibuv
INVARIANT
  PingsGoOn
CHECK_DEADLOCK FALSE
