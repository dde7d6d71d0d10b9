SPECIFICATION ScriptSpec
CONSTANTS
  u1 = u1
  u2 = u2
  Calls <- MCCalls
  ByHand = {}
  Pids = {1}
  Users = {u1}
PROPERTIES
  FindsOnlyService
