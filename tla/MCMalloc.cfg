CONSTANTS
  PageSize = 8
  Pages = 3
  MaxBlocks = 3
  SizeMod = 40
  Tags = {t1}
  Members = {2}
  Requests = {0, 1, 3, 8, 34, 39}
SPECIFICATION Spec
INVARIANTS
  HeapSound
PROPERTIES
  ImplementsHeap
