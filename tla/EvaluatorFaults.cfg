SPECIFICATION Spec
CONSTANTS
  ifIn = ifIn
  ifOut = ifOut
  Oids = {ifIn, ifOut}
  Order <- TwoOrder
  Readings = {"below", "above", "in", "error"}
  Dwell = 2
  Second = 2
  MaxStep = 3
  MaxTime = 5
  MaxCorr = 4
  MaxFaults = 1
  MaxCrashes = 1
  MaxExits = 1
INVARIANTS
  ClosedWhenBack
  EpisodesSaved
  AlertHasHeld
CHECK_DEADLOCK FALSE
