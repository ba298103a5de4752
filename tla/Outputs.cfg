SPECIFICATION Spec
CONSTANTS
  Threads = {t1}
  Surfaces = {s1, s2, s3}
  Drawables = {d1, d2}
  UserOf <- OneEach
  HeapSize = 3
  ArrayStep = 1
  MaxLost = 1
  NONE = NONE
SYMMETRY SurfaceSymmetry
CHECK_DEADLOCK FALSE
INVARIANTS
  ReferencesCounted
  OneOutputPerDrawable
  NeverAborts
PROPERTIES
  SharesOutputs
