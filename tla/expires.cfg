SPECIFICATION AgentFairSpec
CONSTANTS
  h1 = h1
  l1 = l1
  h2 = h2
  Tasks = {1}
  ConcurrentLimit = 1
  FaultKinds = {"db", "restart", "aria2"}
  MaxFaults = 1
  Handlers = {h1}
  Links = {l1}
  NaiveTimes = FALSE
  TTL = 0
  StorageLimit = 1
  Size <- MCSize
  MaxTime = 2
INVARIANTS
  AgentInv
  LinkOutlives
PROPERTIES
  ServesWholeFile
  EventuallyExpired
CHECK_DEADLOCK FALSE
