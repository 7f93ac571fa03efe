SPECIFICATION MCSpec
CONSTANTS
  INT_BITS = 4
  LONG_BITS = 8
  NULL = NULL
  NUL = NUL
  Sizes <- MCSizes
  Procs <- MCProcs
  BUFSIZE = 11
  Calls <- MCCalls
  SP = 240
  MAX_LINES = 2
INVARIANTS
  TypeOK
  WholeLines
  CountsOn
  ForksDouble
  BuffersFit
  ReadsBack
PROPERTIES
  PrintfAdvances
