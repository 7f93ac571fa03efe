SPECIFICATION WSpec
CONSTANTS
  NR_TASKS = 5
  PRIORITY_MIN = 1
  PRIORITY_MAX = 3
  INIT_TASKS = 2
INVARIANTS
  TypeOK
  TableDense
  RunningHasCredit
  WaitBounded
PROPERTIES
  EveryTaskRuns
  ImplementsFairShare
