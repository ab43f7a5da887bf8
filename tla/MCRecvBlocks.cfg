CONSTANTS
  Worker = {w1, w2}
  Page = {p1, p2}
  None = None
  Stale = Stale
  Threads = 4
  MaxTasks = 2
  MaxInit = 1
  MaybeTooLong = {}
SPECIFICATION Spec
CHECK_DEADLOCK FALSE
INVARIANT
  RecvNeverBlocks
