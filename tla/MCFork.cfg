SPECIFICATION ForkSpec
CONSTANTS
  NR_TASKS = 4
  NPages = 22
  PGSIZE = 2
  Fanout = 16
  mmap <- MCForkmmap
  Program <- MCBadStore
  Values = {1, 2}
  Untouched = Untouched
  StrictTlb = TRUE
  Calls = {"do_fork", "do_cow_fork"}
INVARIANTS
  RefMatches
  WritableIsExclusive
  TlbSafe
PROPERTIES
  ImplementsPrivateMemory
