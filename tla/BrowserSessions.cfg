SPECIFICATION FairSpec
CONSTANTS
  s1 = s1
  s2 = s2
  s3 = s3
  h1 = h1
  h2 = h2
  Callers = {s1, s2, s3}
  Hosts = {h1, h2}
  Burst = 2
  Period = 2
  Concurrency = 2
  Gotos = 2
  MaxFaults = 1
  None = None
INVARIANT RateBound
INVARIANT NothingElseLeaks
PROPERTY EverySampleEnds
CHECK_DEADLOCK FALSE
