SPECIFICATION FairSpec
CONSTANTS
  panel = panel
  settings = settings
  alice = alice
  bob = bob
  inform = inform
  NoCaller = NoCaller
  NoMessage = NoMessage
  Callers = {panel, settings}
  Users = {alice, bob}
  Usable = {alice}
  Remembered = {alice}
  Messages = {inform}
  Informs = {inform}
  From <- MCFrom
  MaxCalls = 3
  MaxArrivals = 1
  Mishaps = {"bind", "journal", "panic", "grace", "store"}
  MaxMishaps = 2
INVARIANTS
  NeverStranded
  TakenAwayIsRefused
  AcknowledgedIsJournalled
PROPERTIES
  EveryCommandReturns
CHECK_DEADLOCK FALSE
