SPECIFICATION FairSpec
CONSTANTS
  None = None
  NoPlan = NoPlan
  Steps = {"quiet", "dom", "done", "unknown", "bad"}
  MaxPlan = 2
  MaxDeliveries = 2
  MayFail = TRUE
INVARIANT WorkBound
INVARIANT ExtractAfterPlan
PROPERTY ErrorNeverAdvances
PROPERTY DeliveryEnds
CHECK_DEADLOCK FALSE
