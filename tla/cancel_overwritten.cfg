SPECIFICATION Spec
CONSTANTS
  h1 = h1
  h2 = h2
  Tasks = {1}
  ConcurrentLimit = 1
  TTL = 0
  FaultKinds = {}
  MaxFaults = 0
  Handlers = {h1}
INVARIANTS
  CancelSticks
CHECK_DEADLOCK FALSE
