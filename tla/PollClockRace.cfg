SPECIFICATION FairSpec
CONSTANTS
  core = core
  edge = edge
  window = window
  tray = tray
  Sessions = {core}
  Callers = {window, tray}
  Ops = {"start", "stop", "update", "quit"}
  MaxClocks = 4
  MaxVersions = 1
  MaxCalls = 4
  MaxFaults = 0
INVARIANTS
  NobodyLeftBehind
PROPERTIES
  EveryCallReturns
CHECK_DEADLOCK FALSE
