SPECIFICATION FairSpec
CONSTANTS
  Threads = {t1}
  Surfaces = {s1, s2}
  Sizes = {1, 3}
  max_waste = 2
  CounterSpan = 4
  QueueLimit = 2
  FieldSets <- AllPuts
  Failures = TRUE
  NONE = NONE
INVARIANTS
  RendersOnlyIdle
  QueuedFrameIsComplete
PROPERTIES
  WaitEnds
  SyncEnds
