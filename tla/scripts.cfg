SPECIFICATION ScriptSpec
CONSTANTS
  u1 = u1
  u2 = u2
  Calls <- MCCalls
  ByHand = {"aria2"}
  Pids = {1, 2, 3}
  Users = {u1, u2}
SYMMETRY UserSymmetry
INVARIANTS
  ScriptInv
  OnlyServiceSignalled
  NodeStopsFirst
PROPERTIES
  LaunchIsSingle
  StopStops
  StartOwnsPort
