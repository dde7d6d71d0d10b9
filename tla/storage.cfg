SPECIFICATION AgentSpec
CONSTANTS
  h1 = h1
  h2 = h2
  Tasks = {1, 2}
  ConcurrentLimit = 1
  FaultKinds = {"rpc"}
  MaxFaults = 1
  Handlers = {h1}
  Links = {}
  l1 = l1
  NaiveTimes = FALSE
  TTL = 0
  StorageLimit = 2
  Size <- MCSize
  MaxTime = 1
INVARIANTS
  AgentInv
  ServedUntilPurged
  ExpiredIsFreed
PROPERTIES
  NeverBackwards
  QuotaEffective
  EvictsOldest
CHECK_DEADLOCK FALSE
