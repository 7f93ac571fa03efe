SPECIFICATION Spec
CONSTANTS
  PGSIZE = 4
  WORD = 64
  SRAMDISK = 16
  USER_END = 24
  Images <- MCImages
INVARIANTS
  AccessRight
  LoadedRight
  LoadsAgree
CHECK_DEADLOCK FALSE
