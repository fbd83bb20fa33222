SPECIFICATION Spec
CONSTANTS
  NBUCKETS = 3
  MaxInt = 63
  HeapStart = 4
  Sizes <- MCSizes
  ForeignSizes = {9}
  MaxMallocs = 6
  MaxHeap = 76
INVARIANTS
  NoOverlap
  FreeListsExact
  IInv
  FreeAccepted
PROPERTIES
  ReuseBeforeGrow
  ImplementsHeap
CHECK_DEADLOCK FALSE
