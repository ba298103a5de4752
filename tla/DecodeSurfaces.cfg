SPECIFICATION Spec
CONSTANTS
  Contexts = {c1, c2}
  Surfaces = {s1, s2}
  Buffers = {b1, b2}
  Codecs = {"H264", "MPEG2", "MPEG4", "VC1"}
  Types = {"iq", "param", "data"}
  RefCounts = {1, 2}
  MaxList = 1
  AppRules = {"held", "surfaces"}
  USE_DEBUG = FALSE
  MemoryShort = TRUE
  MaxHeaders = 2
  GEN = GEN
  FREED = FREED
  NONE = NONE
CHECK_DEADLOCK FALSE
SYMMETRY Symmetry
INVARIANTS
  AssociationsAgree
  DecoderHoldsReferences
