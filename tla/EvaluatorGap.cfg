SPECIFICATION Spec
CONSTANTS
  ifIn = ifIn
  ifOut = ifOut
  Oids = {ifIn}
  Order <- OneOrder
  Readings = {"above", "in", "error"}
  Dwell = 0
  Second = 2
  MaxStep = 2
  MaxTime = 9
  MaxCorr = 3
  MaxFaults = 0
  MaxCrashes = 0
  MaxExits = 1
INVARIANTS
  EveryIncidentCloses
CHECK_DEADLOCK FALSE
