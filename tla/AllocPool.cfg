CONSTANTS
  InitCount = 1
  Data = {d1, d2}
  Null = Null
  MaxOwned = 5
SPECIFICATION AllocSpec
INVARIANTS FreeListSound NoLeak
PROPERTIES ImplementsAllocator
