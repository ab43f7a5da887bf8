CONSTANTS
  MaxCpus = 3
  Addr = {"a", "b", "c"}
  Streams <- MCStreams
  OutLen = 4
  Where <- MCWhere
  Modules <- MCModules
  PageLen = 4
SPECIFICATION Spec
INVARIANTS
  TypeOK
  ChunkingIrrelevant
  FinalCount
  CapturedUpToStop
  CrashOnlyWithoutWorkers
  ReportFaithful
PROPERTY
  StopCompletes
