CONSTANTS
  Rings = 1
  FILE_SIZE = 1
  Cap = 2
  MaxChunk = 2
  MaxBytes = 4
  MaxTime = 2
SPECIFICATION Spec
INVARIANTS
  TypeOK
  BytesConserved
  DataFilesComplete
  CrashOnlyWhenBehind
PROPERTY
  RotatedCompleted
