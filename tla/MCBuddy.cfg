SPECIFICATION Spec
CONSTANTS
  size = 8
  reserved = 3
  Requests = {0, 1, 2, 3, 4, 8}
  MaxRef = 2
INVARIANTS
  TypeOK
  BitmapIsLongest
PROPERTIES
  ImplementsPageAllocator
