SPECIFICATION Spec
CONSTANTS
  Surfaces = {s1, s2}
  Subpictures = {p1, p2}
  Images = {i1, i2}
  MaxBlocks = 3
  VDPAU_MAX_SUBPICTURES = 2
  ListStep = 1
  MaxList = 2
  Widths = {w1}
  Parts = {left, right}
  Rects <- LeftOrWhole
  Pixels = {blank, red}
  BLANK = blank
  MaxTime = 2
  AppRules = {"once", "paired", "pixels"}
  NONE = NONE
CHECK_DEADLOCK FALSE
SYMMETRY IdSymmetry
INVARIANTS
  BothEndsAgree
  AssociationsOwned
  CommittedIsNewest
  NeverAborts
