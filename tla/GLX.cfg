SPECIFICATION Spec
CONSTANTS
  Threads = {t1, t2}
  GLXSurfaces = {g1, g2}
  VASurfaces = {v1, v2}
  OwnContexts = {c1, c2, c3}
  FieldSets <- TopOrFrame
  Failing = {"create", "unbind", "bind", "sync", "output", "size", "register", "color",
             "render", "queue", "fbo"}
  AppRules = {"current", "begun", "ended"}
  NONE = NONE
SYMMETRY IdSymmetry
INVARIANTS
  SurfaceContextsAreFree
  OneCallPerSurface
  ShowsAssociated
  CopyCleansUp
  NeverFaults
CHECK_DEADLOCK FALSE
