SPECIFICATION Spec
CONSTANTS
  Contexts = {c1, c2}
  Surfaces = {s1, s2}
  Buffers = {b1, b2, b3}
  Codecs = {"H264", "MPEG4"}
  Types = {"pic", "param", "data"}
  RefCounts = {1}
  MaxList = 2
  AppRules = {"held", "order", "surfaces"}
  USE_DEBUG = FALSE
  MemoryShort = FALSE
  MaxHeaders = 2
  GEN = GEN
  FREED = FREED
  NONE = NONE
CHECK_DEADLOCK FALSE
SYMMETRY Symmetry
INVARIANTS
  NoDangling
  BuffersAccountedFor
  SlicesReachDecoder
  NeverFaults
