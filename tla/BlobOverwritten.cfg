SPECIFICATION Spec
CONSTANTS
  Contents = {a, b}
  Processes = {p1, p2}
  Folders = {f1}
  LinkMayFail = FALSE
  MaxPuts = 2
  MaxCrashes = 0
  Torn = Torn
  Plain = Plain
  None = None
INVARIANT BlobsAreTheirNames
CHECK_DEADLOCK FALSE
