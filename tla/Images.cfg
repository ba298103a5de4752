SPECIFICATION Spec
CONSTANTS
  ImageIDs = {i1, i2}
  BufferIDs = {b1, b2}
  Surfaces <- OddSurface
  Handles = {1, 2}
  Formats = {"NV12", "YV12", "I420", "UYVY", "AYUV", "RGBA", "IA44", "other"}
  Sizes <- EvenAndOdd
  Aligns = {0, 8}
  Failing = {"buffer", "output", "mix"}
  NONE = NONE
SYMMETRY Symmetric
INVARIANTS
  BuffersOwned
  OutputsOwned
  ComponentsKept
  PlanesFit
CHECK_DEADLOCK FALSE
