CONSTANTS
  Worker = {w1, w2}
  Page = {p1, p2}
  None = None
  Stale = Stale
  Threads = 4
  MaxTasks = 2
  MaxInit = 1
  MaybeTooLong = {2}
SPECIFICATION Spec
CHECK_DEADLOCK FALSE
INVARIANTS
  TypeOK
  PieceInOnePlace
  NoOrphanWait
  OnlyOverlapDisconnects
PROPERTY
  PieceAnswered
