SPECIFICATION FairSpec
CONSTANTS
  NR_TASKS = 3
  PRIORITY_MIN = 1
  PRIORITY_MAX = 2
  NPages = 15
  PGSIZE = 2
  Fanout = 16
  mmap <- MCmmap
  Program <- MCProgram
  Values = {1}
  Untouched = Untouched
  StrictTlb = FALSE
INVARIANTS
  TypeOK
  StoppedOnlyIfIllegal
  RefCovers
  WritableIsExclusive
PROPERTIES
  NeverReused
  LegalAccessCompletes
