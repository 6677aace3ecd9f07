SPECIFICATION RunFairSpec
CONSTANTS
  w1 = w1
  w2 = w2
  p1 = p1
  None = None
  Workers = {w1, w2}
  Processes = {p1}
  ProcessOf <- MCProcessOf
  NumItems = 2
  MaxAttempts = 2
  MaxCrashes = 1
  MaxFaults = 1
  Takeover = FALSE
INVARIANT RecordedOnce
INVARIANT MemoryMatchesLog
INVARIANT AckedIsRecorded
INVARIANT NothingLeftBehind
PROPERTY EventuallyFinished
