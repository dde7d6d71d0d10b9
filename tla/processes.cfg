SPECIFICATION ProcessSpec
CONSTANTS
  h1 = h1
  Tasks = {1}
  ConcurrentLimit = 1
  TTL = 0
  FaultKinds = {"start", "restart", "db", "fs", "rpc", "aria2"}
  MaxFaults = 2
  Handlers = {}
INVARIANTS
  ProcessTypeOK
  RowsConsistent
  AddsBounded
  ProcessInv
PROPERTIES
  EventuallySettled
CHECK_DEADLOCK FALSE
