SPECIFICATION Spec
CONSTANTS
  trap = trap
  poll = poll
  dead = dead
  pool = pool
  mail = mail
  syslog = syslog
  Producers = {trap}
  Early = {}
  Late = {}
  PoolWatch = pool
  PoolCongested = FALSE
  Sinks = {mail, syslog}
  MaxSeq = 3
  Wanted <- MCWanted
  QueueDepth = 3
  BatchSize = 2
  MaxCrashes = 2
  MaxFaults = 0
  MaxReplayFaults = 1
  MaxDeletes = 0
INVARIANT NothingLostAtRestart
