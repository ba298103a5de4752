SPECIFICATION Spec
CONSTANTS
  Contexts = {c1}
  Surfaces = {s1}
  Buffers = {b1, b2, b3}
  Codecs = {"MPEG2"}
  Types = {"param", "data"}
  RefCounts = {1}
  MaxList = 1
  AppRules = {"held", "order", "surfaces"}
  USE_DEBUG = FALSE
  MemoryShort = FALSE
  MaxHeaders = 2
  GEN = GEN
  FREED = FREED
  NONE = NONE
INVARIANTS
  NoDangling
