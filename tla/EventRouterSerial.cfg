SPECIFICATION FairSpec
CONSTANTS
  trap = trap
  poll = poll
  dead = dead
  pool = pool
  mail = mail
  syslog = syslog
  Producers = {trap}
  Early = {}
  Late = {}
  PoolWatch = pool
  PoolCongested = FALSE
  Sinks = {mail, syslog}
  MaxSeq = 3
  Wanted <- MCWanted
  QueueDepth = 3
  BatchSize = 2
  MaxCrashes = 2
  MaxFaults = 2
  MaxReplayFaults = 0
  MaxDeletes = 1
INVARIANTS
  HeldOnce
PROPERTIES
  ImplementsLedger
