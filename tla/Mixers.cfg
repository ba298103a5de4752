SPECIFICATION Spec
CONSTANTS
  Surfaces = {s1, s2, s3}
  MixerIds = {m1, m2}
  Geometries = {small, large}
  ProcampCount = 2
  Values = {0, 1}
  MaxTime = 2
  MaxLost = 1
  ColorStandards = {"BT601", "BT709"}
  HQSupported = TRUE
  AppRules = {"serial"}
  NONE = NONE
SYMMETRY MixerSymmetry
INVARIANTS
  MixersCounted
  PictureUsesSettings
PROPERTIES
  SharesMixers
