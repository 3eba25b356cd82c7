\* Blocks of one to three units in at most 18 units of memory (13 for
\* heapmgrbase.c, whose chunks have no footer).
SPECIFICATION EitherSpec
CONSTANTS
  MEMALLOC_MIN = 2
  MaxHeap = 18
  MaxBaseHeap = 13
  MaxRequest = 3
  Null = Null
INVARIANTS
  Tiling
  FreeListExact
  InUseIsHeld
  BaseHeapValid
PROPERTIES
  ImplementsAllocator
  BaseIsAllocator
  CallsReturn
