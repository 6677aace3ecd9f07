SPECIFICATION FairSpec
CONSTANTS
  w1 = w1
  w2 = w2
  w3 = w3
  p1 = p1
  p2 = p2
  None = None
  Workers = {w1, w2, w3}
  Processes = {p1, p2}
  ProcessOf <- MCProcessOf
  NumItems = 2
  MaxAttempts = 3
  MaxCrashes = 2
  Takeover = FALSE
INVARIANT ClaimExclusive
INVARIANT RetryBudget
INVARIANT NackReadsCurrent
PROPERTY ImplementsTaskQueue
PROPERTY EveryItemSettles
