SPECIFICATION Spec
CONSTANTS
  NR_TASKS = 3
  PGSIZE = 71
  TASK_STRUCT = 23
  FRAME = 36
  RESTORED = 35
  DEPTH = 10
  Code = {0, 4}
  EcallAt = {0}
  UserSps = {5, 6}
  Values = {1, 2}
INVARIANTS
  TypeOK
  StacksSeparate
PROPERTIES
  ImplementsProcesses
