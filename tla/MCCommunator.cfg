CONSTANTS
  Caller = {"h", "h2", "w"}
  Cap = 1
  WireCap = 1
  MaxMsgs = 3
  MaybeTooLong = {2}
SPECIFICATION Spec
CHECK_DEADLOCK FALSE
INVARIANT
  TypeOK
PROPERTIES
  ImplementsLink
  SendReturns
