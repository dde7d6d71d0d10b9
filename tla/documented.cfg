SPECIFICATION AgentSpec
CONSTANTS
  h1 = h1
  l1 = l1
  h2 = h2
  Tasks = {1, 2}
  ConcurrentLimit = 1
  FaultKinds = {"fs", "db", "restart", "rpc", "aria2"}
  MaxFaults = 2
  Handlers = {}
  Links = {}
  NaiveTimes = FALSE
  TTL = 0
  StorageLimit = 1
  Size <- MCSize
  MaxTime = 1
INVARIANTS
  AgentTypeOK
  AddsBounded
  
PROPERTIES
  ImplementsTaskQueue
CHECK_DEADLOCK FALSE
