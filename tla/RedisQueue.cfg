SPECIFICATION FairSpec
CONSTANTS
  i1 = i1
  i2 = i2
  i3 = i3
  w1 = w1
  w2 = w2
  None = None
  Items = {i1, i2, i3}
  Malformed = {i3}
  Workers = {w1, w2}
  MaxAttempts = 3
  MaxCrashes = 2
  Takeover = FALSE
  CrashInWindow = FALSE
INVARIANT NothingLost
INVARIANT StructuresAgree
INVARIANT DrainedButForWindow
PROPERTY ImplementsTaskQueue
CHECK_DEADLOCK FALSE
PROPERTY EveryItemSettles
