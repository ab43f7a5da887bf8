CONSTANTS
  CpuNums = 2
  MaxChan = 1
  ClientLimit = 0
  Cap = 1
  Threads = 2
  MaxTasks = 3
  MaybeTooLong = {1}
SPECIFICATION ServerSpec
INVARIANTS
  ServerTypeOK
  CrashOnlyAfterPoolLoss
  PieceAccounted
PROPERTIES
  ServerStops
  
