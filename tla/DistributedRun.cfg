SPECIFICATION RunFairSpec
CONSTANTS
  i1 = i1
  i2 = i2
  i3 = i3
  w1 = w1
  w2 = w2
  r1 = r1
  r2 = r2
  None = None
  Items = {i1, i2}
  Malformed = {}
  Workers = {w1, w2}
  Runs = {r1}
  RunOf <- TwoRuns
  MaxAttempts = 2
  MaxCrashes = 1
  MaxFaults = 1
  Takeover = FALSE
  CrashInWindow = FALSE
  SharedPrefix = TRUE
INVARIANT AckedIsLogged
INVARIANT FinalizedIsComplete
INVARIANT ReportsAreFinal
PROPERTY RunsAreWrappedUp
CHECK_DEADLOCK FALSE
