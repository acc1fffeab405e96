SPECIFICATION FairSpec
CONSTANTS
  Sinks = {mail, syslog}
  NoSink = none
  Selected = {mail, syslog}
  Originals = 1
  MaxEvents = 2
  Limit = 2
  MaxAttempts = 2
  Mishaps = {"write", "read", "answer", "crash", "retry", "edit"}
  MaxMishaps = 1
INVARIANTS
  OnceUnlessInterrupted
PROPERTIES
  ImplementsContract
