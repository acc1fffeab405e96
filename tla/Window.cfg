SPECIFICATION SpecWindow
CONSTANTS
  Interval = 4
  Rounds <- SmallRounds
  None = None
  Null = None
  Missing = None
  InOrder = TRUE
  SessionIds = {1, 2}
  Cap = 2
  MaxSamples = 2
  MaxCommands = 1
  PollFaults = 1
  Oids = {"o1"}
  Bands = {"b"}
  Polled = {"t1"}
  Started = {1, 2}
  Hole = hole
  MaxRows = 3
  PanelClicks = 3
  Sessions = {"s1", "s2"}
  Facets = {"f", "g"}
  Companion = "g"
  Timebases = {0, 1}
  Standard = 1
  Ranges <- SmallRanges
  MaxTime = 2
  ChartClicks = 3
  Kinds <- SmallKinds
  Filters <- SmallFilters
  Incidents = {"threshold"}
  Limit = 2
  MaxLive = 2
  MaxEvents = 3
  MaxBehind = 2
  MaxCalls = 2
  EventClicks = 1
  Gates = {"toast", "native"}
  Width <- SmallWidths
  TrapKinds = {"k"}
  Recent = 1
  MaxTraps = 1
  MaxArrivals = 3
  MaxWall = 3
  TailClicks = 2
  OldLog <- SmallLegacy
  PAGE_SIZE = 1
  MAX_HISTORY_ENTRIES = 3
  Targets <- SmallTargets
  Content <- SmallContent
  MaxEntries = 4
  HistoryClicks = 2
  HistoryFaults = 0
  HistoryRestarts = 1
  Scalar = Scalar
  Column = Column
  Table = Table
  Writable = {Scalar}
  Agents = {t1, t2}
  OwnSettings = {t2}
  ByHand = typed
  Settings <- SmallSettings
  MaxAsks = 2
  AskClicks = 3
  Fixed = {community}
  Keyed = {override}
  Credentials = {s1}
  Public = s1
  InClear = InClear
  MaxKeys = 2
  MaxSaves = 2
  MaxFlips = 1
  VaultRestarts = 1
  Addresses = {loopback, other}
  Loopback = loopback
  NamedPort = {other}
  Profiles = {p1, p2}
  Passwords = {s1, s2}
  MaxTargets = 2
  MaxEdits = 2
  Users = {"u", "w"}
  Unusable = {"w"}
  Editions = {"a", "b"}
  LeftOut = blank
  Unopened = sealed
  UserCalls = 1
  UserClicks = 3
  MaxMishaps = 1
  Sinks = {"s1", "s2"}
  Routes = {"r1", "r2"}
  SinksAt <- SmallGiven
  Places = {"here", "there"}
  Lists <- SmallLists
  Priorities <- SmallPriorities
  Box <- SmallBox
  Silent = TRUE
  PageClicks = 3
  MaxUnderWay = 2
  MaxNews = 1
  Files = {"a", "b"}
  Module = "c"
  External = "x"
  Waits = TRUE
  MaxVersion = 1
  EditClicks = 4
  Letters = {"x"}
  Boundary = "_"
  Snippets <- SmallSnippets
  Refuses = FALSE
  HintWindow = 1
  MAX_DEPTH = 2
  MaxLength = 4
  TextClicks = 4
  Devices = {d1, d2, d3}
  Present = {d1, d2}
  Catalogue <- SmallCatalogue
  Category <- SmallCategory
  Custom = "custom"
  FaultForms <- SmallFaults
  ListsInOrder = TRUE
  MAX_LATENCY_MS = 10000
  COUNTER_SPEEDS = {1, 10, 100, 1000}
  BenchClicks = 2
  BenchCalls = 2
  BenchUnderWay = 2
  community = community
  override = override
  loopback = loopback
  other = other
  p1 = p1
  p2 = p2
  s1 = s1
  s2 = s2
  t1 = t1
  t2 = t2
  ta = ta
  tb = tb
  d1 = d1
  d2 = d2
  d3 = d3
  Letter = Letter
  Dash = Dash
  Quote = Quote
  Tab = Tab
  Newline = Newline
  Dot = Dot
  Comma = Comma
  Sign = Sign
  Apostrophe = Apostrophe
  Agent = Agent
  Home = Home
  Shelf = Elsewhere
INVARIANTS
  
  DashboardAgrees
  NewsIsToldOnce
  SecretsAreKept
  
  AnswersStayTheirs
  ResultsAreTheAnswers
  HistoryIsTheTable
  TreeShowsItsNodes
  
  
  ViewIsTheFile
  FormIsTheDevice
  BenchIsTold
  WidenedOnlyIfReported
PROPERTIES
  EdgesEarned
  ChoicesStand
  EditsDisturbNothing
CHECK_DEADLOCK FALSE
