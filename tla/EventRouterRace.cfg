SPECIFICATION Spec
CONSTANTS
  trap = trap
  poll = poll
  dead = dead
  pool = pool
  mail = mail
  syslog = syslog
  Producers = {trap, dead}
  Early = {dead}
  Late = {dead}
  PoolWatch = pool
  PoolCongested = TRUE
  Sinks = {mail, syslog}
  MaxSeq = 3
  Wanted <- MCWanted
  QueueDepth = 1
  BatchSize = 2
  MaxCrashes = 1
  MaxFaults = 1
  MaxReplayFaults = 1
  MaxDeletes = 0
INVARIANTS
  OnlyExposedLost
  InFlightPinsWatermark
  AcceptedStaysOwed
PROPERTIES
  WatermarkMonotone
