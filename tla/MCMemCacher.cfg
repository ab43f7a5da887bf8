CONSTANTS
  PageSize = 3
  Pages = 3
  MaxLen = 3
  MaxVersion = 2
SPECIFICATION Spec
INVARIANTS
  TypeOK
  PrefixRead
  Repeatable
  CrashOnlyInPageZero
