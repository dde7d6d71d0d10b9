SPECIFICATION Spec
CONSTANTS
  h1 = h1
  h2 = h2
  Tasks = {1, 2}
  ConcurrentLimit = 1
  TTL = 0
  FaultKinds = {"rpc", "fs", "aria2"}
  MaxFaults = 1
  Handlers = {h1, h2}
SYMMETRY HandlerSymmetry
INVARIANTS
  TypeOK
  SlotBound
  SessionsInv
  OrphansCounted
PROPERTIES
  NeverBackwards
CHECK_DEADLOCK FALSE
