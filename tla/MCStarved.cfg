CONSTANTS
  Worker = {w1, w2}
  Page = {p1, p2}
  None = None
  Stale = Stale
  Threads = 3
  MaxTasks = 2
  MaxInit = 0
  MaybeTooLong = {}
SPECIFICATION Spec
CHECK_DEADLOCK FALSE
PROPERTY
  MessagesReceived
