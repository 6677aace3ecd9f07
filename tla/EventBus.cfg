SPECIFICATION FairSpec
CONSTANTS
  w1 = w1
  w2 = w2
  w3 = w3
  api = api
  agent = agent
  Api = api
  r1 = r1
  r2 = r2
  ofRun = ofRun
  watcher = watcher
  s1 = s1
  None = None
  Writers = {w1, w2, w3}
  ProcessOf <- WithAgent
  RunOf <- TwoRuns
  MaxRows <- AFew
  EventClients = {ofRun}
  FrameClients = {watcher}
  WantedRun <- Wanted
  WatchedSample <- Watched
  Samples = {s1}
  Capacity = 2
  MaxFrames = 1
INVARIANT ForksNeedOverlap
INVARIANT NewestInOrder
PROPERTY ClientsAreServed
CHECK_DEADLOCK FALSE
