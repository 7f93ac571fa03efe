SPECIFICATION Spec
CONSTANTS
  NR_TASKS = 3
  NPages = 14
  PGSIZE = 2
  Fanout = 16
  mmap <- MCmmap
  Program <- MCStackAndText
  Values = {1, 2}
  Untouched = Untouched
  StrictTlb = FALSE
INVARIANTS
  NoPageWasted
