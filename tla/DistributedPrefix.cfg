SPECIFICATION RunFairSpec
CONSTANTS
  i1 = i1
  i2 = i2
  i3 = i3
  w1 = w1
  w2 = w2
  r1 = r1
  r2 = r2
  None = None
  Items = {i1, i3}
  Malformed = {}
  Workers = {w1, w2}
  Runs = {r1, r2}
  RunOf <- TwoRuns
  MaxAttempts = 2
  MaxCrashes = 0
  MaxFaults = 0
  Takeover = FALSE
  CrashInWindow = FALSE
  SharedPrefix = FALSE
PROPERTY RunsAreWrappedUp
CHECK_DEADLOCK FALSE
