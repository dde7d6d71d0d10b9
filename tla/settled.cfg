SPECIFICATION FairSpec
CONSTANTS
  h1 = h1
  h2 = h2
  Tasks = {1, 2}
  ConcurrentLimit = 1
  TTL = 0
  FaultKinds = {"rpc", "restart"}
  MaxFaults = 1
  Handlers = {h1}
PROPERTIES
  EventuallySettled
CHECK_DEADLOCK FALSE
