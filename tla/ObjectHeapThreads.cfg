SPECIFICATION Spec
CONSTANTS
  Threads = {t1, t2}
  heap_increment = 2
  BucketStep = 1
  MaxObjects = 4
  id_offset = 50331648
  ForeignIds <- OtherHeapIds
SYMMETRY ThreadSymmetry
INVARIANTS
  HeapIsWhole
  SoleHolder
  WalkMissesNothing
  NeverAborts
PROPERTIES
  ImplementsAbstractHeap
