SPECIFICATION FairSpec
CONSTANTS
  s1 = s1
  s2 = s2
  s3 = s3
  q1 = q1
  q2 = q2
  Sessions = {s1, s2, s3}
  Requests = {q1, q2}
  TTL = 0
  None = None
INVARIANT WindowsAreKnown
PROPERTY NothingSealedAfterwards
PROPERTY ClosingEnds
CHECK_DEADLOCK FALSE
