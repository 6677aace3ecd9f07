SPECIFICATION Spec
CONSTANTS
  s1 = s1
  s2 = s2
  s3 = s3
  p1 = p1
  p2 = p2
  None = None
  Unresolved = Unresolved
  Empty = Empty
  Torn = Torn
  Samples = {s1, s2, s3}
  Processes = {p1, p2}
  ProcessOf <- InTwoProcesses
  PageOf <- TwoPages
  Hints <- Proposed
  MaxPlans <- OneReplans
  MaxCrashes = 1
INVARIANT WholeUnlessOverlapped
INVARIANT LearnedFromAPass
INVARIANT NoSampleIsStuck
PROPERTY ReplayIsFaithful
CHECK_DEADLOCK FALSE
