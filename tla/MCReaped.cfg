CONSTANTS
  ClientLimit = 1
  Cap = 1
  Threads = 3
  MaxTasks = 1
  MaybeTooLong = {}
SPECIFICATION Spec
CHECK_DEADLOCK FALSE
PROPERTY
  DisconnectedReaped
