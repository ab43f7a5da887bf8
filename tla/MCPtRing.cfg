CONSTANTS
  Byte = {"ff", "a", "b"}
  FF = "ff"
  BuffLen = 4
  OutLen = 3
  Window = 3
  MaxWritten = 6
SPECIFICATION Spec
INVARIANTS
  TypeOK
  CapturedInOrder
PROPERTIES
  CapturesTrace
  TraceDelivered
