SPECIFICATION BootSpec
CONSTANTS
  NR_TASKS = 3
  NTables = 11
  Fanout = 2
  UserPages = {0, 1, 3}
  Regions <- MCRegions
  Frames = {4, 5}
  Perms = {{"R", "W"}}
  None = None
  PHY_START = 0
  VM_START = 4
  TextPage = 0
  StackPages = {3}
  Bare = Bare
  Early = Early
INVARIANTS
  TypeOK
  TablesSeparate
  HartMapped
PROPERTIES
  ImplementsAddressSpaces
