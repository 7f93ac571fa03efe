SPECIFICATION Spec
CONSTANTS
  PGSIZE = 4
  WORD = 64
  SRAMDISK = 16
  USER_END = 24
  Images <- MCImages
INVARIANTS
  SegmentRight
CHECK_DEADLOCK FALSE
