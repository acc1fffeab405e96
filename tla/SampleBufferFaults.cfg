SPECIFICATION FairSpec
CONSTANTS
  Sessions = {core, edge}
  Cap = 2
  MaxSamples = 4
  MaxFaults = 2
  MaxDeletes = 1
  MaxCleanups = 1
INVARIANTS
  KeptOnce
  OldestDropped
PROPERTIES
  EverySampleStored
CHECK_DEADLOCK FALSE
