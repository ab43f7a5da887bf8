CONSTANTS
  ClientLimit = 1
  Cap = 1
  Threads = 3
  MaxTasks = 2
  MaybeTooLong = {1}
SPECIFICATION Spec
CHECK_DEADLOCK FALSE
INVARIANTS
  TypeOK
  ChosenUsable
  PanicOnlyAfterLoss
  OneFate
PROPERTIES
  
  RegisteredUnlessStarved
