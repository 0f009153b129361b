SPECIFICATION Spec
CONSTANTS
  PingToSend = 2
  MaxOther = 1
  MaxOwed = 5
  RestartOk <- AnyLibuv
INVARIANT
  OnWriteAssertion
CHECK_DEADLOCK FALSE
