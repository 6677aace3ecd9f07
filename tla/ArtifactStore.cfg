SPECIFICATION Spec
CONSTANTS
  Contents = {a, b}
  Processes = {p1, p2, p3}
  Folders = {f1, f2}
  LinkMayFail = TRUE
  MaxPuts = 3
  MaxCrashes = 1
  Torn = Torn
  Plain = Plain
  None = None
SYMMETRY Interchangeable
INVARIANT TornTakesTwo
INVARIANT EvidenceIsThere
INVARIANT ManifestStaysTrue
PROPERTY BlobsStayWhole
CHECK_DEADLOCK FALSE
