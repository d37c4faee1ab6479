SPECIFICATION Spec
CONSTANTS
  Client = {c1, c2}
  DirectClient = {c1, c2}
  PingClient = {}
  LazyMax = 2
  MaxRuns = 1
PROPERTY EvictedOnlyWhenFull
CHECK_DEADLOCK FALSE
