SPECIFICATION Spec
CONSTANTS
  core = core
  edge = edge
  window = window
  tray = tray
  Sessions = {core, edge}
  Callers = {window}
  Ops = {"start", "stop", "update", "remove", "quit"}
  MaxClocks = 3
  MaxVersions = 1
  MaxCalls = 5
  MaxFaults = 1
INVARIANTS
  NoFalseOutage
  NothingStoredAfterClose
CHECK_DEADLOCK FALSE
