SPECIFICATION AgentSpec
CONSTANTS
  h1 = h1
  h2 = h2
  l1 = l1
  Tasks = {1}
  ConcurrentLimit = 1
  FaultKinds = {}
  MaxFaults = 0
  Handlers = {}
  Links = {l1}
  NaiveTimes = TRUE
  TTL = 1
  StorageLimit = 1
  Size <- MCSize
  MaxTime = 1
PROPERTIES
  LinkServes
CHECK_DEADLOCK FALSE
