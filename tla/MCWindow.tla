------------------------------ MODULE MCWindow ------------------------------
(***************************************************************************)
(* The window on small instances: every part of the front end, and the     *)
(* guard that slows a session down, whose announcements it shows.          *)
(*                                                                         *)
(* The parts keep stores of their own, so a behaviour is of one of them,   *)
(* its scenario.  Those that show and those that keep are parts of         *)
(* WindowShows and WindowKeeps; the variables of another part are the      *)
(* first of v1 to v14, in the order its module declares them.  All that is *)
(* left is None.                                                           *)
(***************************************************************************)
EXTENDS WindowShows, WindowKeeps

CONSTANTS
  community, override, loopback, other, p1, p2, s1, s2,         \* Vault, Identities
  t1, t2, ta, tb, d1, d2, d3,                                   \* Operations, ResultTables, SimulatorDesk
  Letter, Dash, Quote, Tab, Newline, Dot, Comma, Sign, Apostrophe,  \* SmiView, ResultExports
  Agent, Home, Shelf                                            \* SimulatorEditor, MibFiles

SmallRounds ==
  [dur : {1, 2, 3, 4, 5, 7, 20}, readings : {3}, failed : {0, 1, 2}]
    \cup [dur : {1, 5}, readings : {2}, failed : {1}]
    \cup [dur : {0}, readings : {0}, failed : {0}]

SmallSettings ==
  {[autoGet |-> TRUE, autoFillSet |-> TRUE, skipSetConfirm |-> FALSE, v1 |-> FALSE],
   [autoGet |-> FALSE, autoFillSet |-> TRUE, skipSetConfirm |-> TRUE, v1 |-> TRUE]}

User(n, p, w) == [user |-> n, level |-> "AuthPriv", auth |-> p, priv |-> p, write |-> w]
SavedDevice ==
  [id |-> "device", name |-> "given", model |-> "router", port |-> 1161, versions |-> {"v2c", "v3"},
   community |-> "public", write |-> None,
   users |-> <<User("simulator", 8, FALSE), User("user2", 9, TRUE)>>,
   dests |-> <<[id |-> 1, host |-> "here", version |-> "v3", inform |-> TRUE, community |-> None,
                user |-> "user2", engine |-> None]>>,
   schedules |-> <<[sends |-> "linkDown", every |-> 60]>>,
   params |-> [p \in {"ports"} |-> 1], overrides |-> <<>>]
SmallModels == [router |-> [params |-> [p \in {"ports"} |-> 1..4], sends |-> {"linkDown"}],
                server |-> [params |-> [p \in {} |-> {}], sends |-> {}]]
SmallFaults == {[latency |-> -5, loss |-> 200, error |-> "genErr", percent |-> 0, speed |-> 7],
                [latency |-> 20000, loss |-> 10, error |-> None, percent |-> 40, speed |-> 10]}

Loaded   == {<<1>>, <<1, 1>>, <<1, 1, 1>>, <<1, 1, 2>>, <<1, 1, 1, 1>>}
Unloaded == {<<1>>, <<1, 1>>, <<1, 1, 1>>}
SmallImports == [a |-> <<"r", "b">>, b |-> <<"r", "x">>, c |-> <<"d">>, d |-> <<>>,
                 p |-> <<"q">>, q |-> <<"p">>, r |-> <<>>]

SmallKinds    == {[cat |-> "threshold", sev |-> 1], [cat |-> "threshold", sev |-> 2]}
SmallFilters  == {[cats |-> {}, sev |-> 0, unacked |-> FALSE], [cats |-> {}, sev |-> 2, unacked |-> FALSE]}
SmallRanges   == {[min |-> 0, max |-> 1]}
SmallWidths   == [toast |-> 1, native |-> 2]
SmallLegacy   == <<1>>
SmallTargets  == <<"t1", "t2">>
SmallContent  == [t1 |-> <<1, 2, 3, 4, 5>>, t2 |-> <<1, 1, 1, 1, 1>>]
SmallGiven    == [s \in {"s1"} |-> "here"]
SmallLists    == {<<"noc">>}
SmallPriorities == {None, 0, 5}
SmallBox      == [d \in {1} |-> [sink |-> "s1", state |-> "dead"]]
SmallSnippets == {<<"x">>, <<"x", "x">>}
SmallCatalogue == <<"linux", "custom">>
SmallCategory == [linux |-> "server", custom |-> "other"]

VARIABLES scenario, v1, v2, v3, v4, v5, v6, v7, v8, v9, v10, v11, v12, v13, v14

Tiles == INSTANCE Dashboard WITH
  Targets <- {"t1", "t2"}, Oids <- {"o1", "o2"}, Readings <- {-1, 5}, Files <- {"f", "g"},
  Palette <- 3, Cap <- 1, MaxRounds <- 2, MaxClicks <- 1,
  sessions <- v1, selection <- v2, hidden <- v3, layout <- v4, clock <- v5, left <- v6

View == INSTANCE SmiView WITH
  TAB_SIZE <- 2, VIEW_MARGIN <- 0, GutterStep <- 2, Height <- 1, MaxLength <- 5,
  text <- v1, scroll <- v2, gutter <- v3

Tables == INSTANCE ResultTables WITH
  Tables <- {ta, tb}, Targets <- {t1, t2}, RowStatus <- {ta}, Columns <- <<<<1>>, <<1, 0>>>>,
  Shapes <- {{<<1, 2>>, <<1, 10>>}, {}}, MaxWalks <- 1, MaxLoads <- 2, MaxClicks <- 3,
  op <- v1, node <- v2, results <- v3, view <- v4, index <- v5, loads <- v6, newRow <- v7,
  destroyRow <- v8, encoding <- v9, sent <- v10, walks <- v11, loaded <- v12, clicks <- v13

Exports == INSTANCE ResultExports WITH
  Targets <- <<"t1", "t2">>, Digits <- {d1}, Of <- [d \in {d1, d2} |-> IF d = d1 THEN 1 ELSE 2],
  MaxLength <- 2,
  got <- v1, view <- v2, file <- v3

Device == INSTANCE SimulatorEditor WITH
  Names <- {None, "simulator", "user2"}, Passes <- {7, 8},
  Communities <- {None, "public", "private"}, Oids <- {None, "oid1", "oid2", Agent},
  Values <- {"number", "text"}, Models <- SmallModels, Saved <- {SavedDevice},
  MIN_PASSPHRASE <- 8, MAX_EVERY <- 60, MaxRows <- 2, MaxClicks <- 3,
  form <- v1, tab <- v2, device <- v3, creds <- v4, payload <- v5, target <- v6, clicks <- v7

Tree == INSTANCE MibTree WITH
  Loads <- {Loaded, Unloaded},
  Type <- [o \in Loaded |-> IF o = <<1, 1, 1, 1>> THEN "Column" ELSE IF o = <<1, 1, 2>> THEN "Scalar" ELSE "Node"],
  Access <- [o \in Loaded |-> IF o = <<1, 1, 2>> THEN "read-write" ELSE "read-only"],
  Seen <- [leaf |-> {<<1, 1, 1, 1>>}, mid |-> {<<1, 1, 1>>}],
  Hidden <- [leaf |-> {<<1, 1, 2>>}, mid |-> {}],
  Chips <- [types |-> {"Scalar"}, access |-> {"read-write"}],
  Polled <- {<<1, 1, 1, 1, 0, 5>>, <<1, 1, 1, 1, 5>>, <<1, 1, 2, 0>>}, MaxClicks <- 4,
  heaps <- v1, store <- v2, view <- v3, filter <- v4, selected <- v5, compact <- v6,
  favorites <- v7, cache <- v8, found <- v9, clicks <- v10

Library == INSTANCE MibFiles WITH
  Files <- {"a", "b", "c", "d", "p", "q", "r"}, Sorted <- <<"a", "b", "c", "d", "p", "q", "r">>,
  Imports <- SmallImports, Broken <- {"r"}, Disk <- {"b", "d", "p", "q", "r"},
  Drops <- {{"a", "c"}}, Extra <- [d \in {Shelf} |-> {"c"}], Default <- Home, InOrder <- TRUE,
  MaxClicks <- 3, MaxFaults <- 0,
  disk <- v1, gosmi <- v2, paths <- v3, store <- v4, tasks <- v5, panel <- v6, report <- v7,
  book <- v8

-----------------------------------------------------------------------------
\* The variables a part leaves alone.
from14 == v14 = None
from13 == v13 = None /\ from14
from12 == v12 = None /\ from13
from11 == v11 = None /\ from12
from10 == v10 = None /\ from11
from9 == v9 = None /\ from10
from8 == v8 = None /\ from9
from7 == v7 = None /\ from8
from6 == v6 = None /\ from7
from5 == v5 = None /\ from6
from4 == v4 = None /\ from5
from3 == v3 = None /\ from4
from2 == v2 = None /\ from3
from1 == v1 = None /\ from2

rest14 == <<v14>>
rest13 == <<v13, rest14>>
rest12 == <<v12, rest13>>
rest11 == <<v11, rest12>>
rest10 == <<v10, rest11>>
rest9 == <<v9, rest10>>
rest8 == <<v8, rest9>>
rest7 == <<v7, rest8>>
rest6 == <<v6, rest7>>
rest5 == <<v5, rest6>>
rest4 == <<v4, rest5>>
rest3 == <<v3, rest4>>
rest2 == <<v2, rest3>>
rest1 == <<v1, rest2>>

\* A part of WindowShows or WindowKeeps starts, or is left out.
Starts(name, init, idle) == IF scenario = name THEN init ELSE idle

NoPoll ==
  /\ rows = None /\ phase = None /\ loading = None /\ secret = None /\ calls = None /\ chan = None
  /\ go = None /\ purse = None
NoPanel ==
  /\ store = None /\ blob = None /\ mounted = None /\ sessions = None /\ starting = None /\ history = None
  /\ presses = None
NoCharts ==
  /\ tab = None /\ companions = None /\ chart = None /\ chartOpts = None /\ chartSync = None /\ newest = None
  /\ gestures = None
NoEvents ==
  /\ journal = None /\ announced = None /\ stored = None /\ pending = None /\ view = None /\ chips = None
  /\ badge = None /\ timeline = None /\ clicks = None
NoArrivals ==
  /\ gate = None /\ said = None /\ eligible = None /\ wall = None /\ traps = None /\ tailed = None
  /\ filter = None /\ visible = None /\ focused = None /\ confirm = None /\ seen = None /\ moves = None
NoHistory ==
  /\ table = None /\ local = None /\ requests = None /\ stage = None /\ mirror = None /\ numbered = None
  /\ panel = None /\ highlight = None /\ gone = None /\ allowance = None
NoAsks ==
  /\ node = None /\ form = None /\ settings = None /\ waiting = None /\ results = None /\ asking = None
  /\ timers = None /\ tasks = None /\ log = None /\ queries = None /\ written = None /\ begun = None
  /\ taps = None
NoSafe ==
  /\ disk = None /\ oldKey = None /\ keychain = None /\ osKey = None /\ made = None /\ cached = None
  /\ mem = None /\ state = None /\ boot = None /\ loaded = None /\ usable = None /\ saving = None
  /\ forgetting = None /\ cleared = None /\ chances = None
NoWho ==
  /\ book = None /\ work = None /\ editing = None /\ touched = None /\ saved = None /\ edits = None
NoTrusted ==
  /\ trusted = None /\ chain = None /\ ready = None /\ ui = None /\ updates = None /\ listener = None
  /\ picks = None /\ mishaps = None
NoNotify ==
  /\ desk = None /\ screen = None /\ editor = None /\ rule = None /\ posts = None /\ kept = None
  /\ count = None
NoEditor ==
  /\ files = None /\ drafts = None /\ ed = None /\ timer = None /\ check = None /\ token = None
  /\ asked = None /\ writing = None /\ owed = None /\ refused = None /\ crossed = None /\ clicked = None
NoText ==
  /\ typing = None /\ caret = None /\ prev = None /\ hist = None /\ atomicEdit = None /\ popup = None
  /\ find = None /\ keys = None
NoBench ==
  /\ bench = None /\ listed = None /\ modal = None /\ orders = None /\ declined = None /\ tally = None

pollVars == <<rows, phase, loading, secret, calls, chan, go, purse>>
panelVars == <<store, blob, mounted, sessions, starting, history, presses>>
chartsVars == <<tab, companions, chart, chartOpts, chartSync, newest, gestures>>
eventsVars == <<journal, announced, stored, pending, view, chips, badge, timeline, clicks>>
arrivalsVars == <<gate, said, eligible, wall, traps, tailed, filter, visible, focused, confirm, seen, moves>>
historyVars == <<table, local, requests, stage, mirror, numbered, panel, highlight, gone, allowance>>
asksVars == <<node, form, settings, waiting, results, asking, timers, tasks, log, queries, written, begun, taps>>
safeVars == <<disk, oldKey, keychain, osKey, made, cached, mem, state, boot, loaded, usable, saving, forgetting,
    cleared, chances>>
whoVars == <<book, work, editing, touched, saved, edits>>
trustedVars == <<trusted, chain, ready, ui, updates, listener, picks, mishaps>>
notifyVars == <<desk, screen, editor, rule, posts, kept, count>>
editorVars == <<files, drafts, ed, timer, check, token, asked, writing, owed, refused, crossed, clicked>>
textVars == <<typing, caret, prev, hist, atomicEdit, popup, find, keys>>
benchVars == <<bench, listed, modal, orders, declined, tally>>

Others == {"tiles", "view", "tables", "exports", "device", "tree", "files"}

InitWindow ==
  /\ scenario \in {"guard", "poll", "panel", "charts", "events", "tail", "history", "operations",
                   "vault", "identities", "users", "notify", "editor", "text", "bench"} \cup Others
  /\ Init /\ (scenario # "guard" => ~accepted)
  /\ Starts("poll", Poll!Init, NoPoll)
  /\ Starts("panel", Panel!Init, NoPanel)
  /\ Starts("charts", Charts!Init, NoCharts)
  /\ Starts("events", Events!Init, NoEvents)
  /\ Starts("tail", Arrivals!Init, NoArrivals)
  /\ Starts("history", History!Init, NoHistory)
  /\ Starts("operations", Asks!Init, NoAsks)
  /\ Starts("vault", Safe!Init, NoSafe)
  /\ Starts("identities", Who!Init, NoWho)
  /\ Starts("users", Trusted!Init, NoTrusted)
  /\ Starts("notify", Notify!Init, NoNotify)
  /\ Starts("editor", Editor!Init, NoEditor)
  /\ Starts("text", Text!Init, NoText)
  /\ Starts("bench", Bench!Init, NoBench)
  /\ \/ scenario = "tiles" /\ Tiles!Init /\ from7
     \/ scenario = "view" /\ View!Init /\ from4
     \/ scenario = "tables" /\ Tables!Init /\ from14
     \/ scenario = "exports" /\ Exports!Init /\ from4
     \/ scenario = "device" /\ Device!Init /\ from8
     \/ scenario = "tree" /\ Tree!Init /\ from11
     \/ scenario = "files" /\ Library!Init /\ from9
     \/ scenario \notin Others /\ from1

\* The parts the behaviour is not of do nothing.
Rest ==
  /\ UNCHANGED scenario
  /\ scenario # "guard" => UNCHANGED vars
  /\ scenario # "poll" => UNCHANGED pollVars
  /\ scenario # "panel" => UNCHANGED panelVars
  /\ scenario # "charts" => UNCHANGED chartsVars
  /\ scenario # "events" => UNCHANGED eventsVars
  /\ scenario # "tail" => UNCHANGED arrivalsVars
  /\ scenario # "history" => UNCHANGED historyVars
  /\ scenario # "operations" => UNCHANGED asksVars
  /\ scenario # "vault" => UNCHANGED safeVars
  /\ scenario # "identities" => UNCHANGED whoVars
  /\ scenario # "users" => UNCHANGED trustedVars
  /\ scenario # "notify" => UNCHANGED notifyVars
  /\ scenario # "editor" => UNCHANGED editorVars
  /\ scenario # "text" => UNCHANGED textVars
  /\ scenario # "bench" => UNCHANGED benchVars
  /\ scenario \notin Others => UNCHANGED rest1

NextWindow ==
  \/ scenario = "guard" /\ Next /\ Rest
  \/ scenario = "poll" /\ Poll!Next /\ Rest
  \/ scenario = "panel" /\ Panel!Next /\ Rest
  \/ scenario = "charts" /\ Charts!Next /\ Rest
  \/ scenario = "events" /\ Events!Next /\ Rest
  \/ scenario = "tail" /\ Arrivals!Next /\ Rest
  \/ scenario = "history" /\ History!Next /\ Rest
  \/ scenario = "operations" /\ Asks!Next /\ Rest
  \/ scenario = "vault" /\ Safe!Next /\ Rest
  \/ scenario = "identities" /\ Who!Next /\ Rest
  \/ scenario = "users" /\ Trusted!Next /\ Rest
  \/ scenario = "notify" /\ Notify!Next /\ Rest
  \/ scenario = "editor" /\ Editor!Next /\ Rest
  \/ scenario = "text" /\ Text!Next /\ Rest
  \/ scenario = "bench" /\ Bench!Next /\ Rest
  \/ scenario = "tiles" /\ Tiles!Next /\ Rest /\ UNCHANGED rest7
  \/ scenario = "view" /\ View!Next /\ Rest /\ UNCHANGED rest4
  \/ scenario = "tables" /\ Tables!Next /\ Rest /\ UNCHANGED rest14
  \/ scenario = "exports" /\ Exports!Next /\ Rest /\ UNCHANGED rest4
  \/ scenario = "device" /\ Device!Next /\ Rest /\ UNCHANGED rest8
  \/ scenario = "tree" /\ Tree!Next /\ Rest /\ UNCHANGED rest11
  \/ scenario = "files" /\ Library!Next /\ Rest /\ UNCHANGED rest9

all ==
  <<scenario, vars, pollVars, panelVars, chartsVars, eventsVars, arrivalsVars, historyVars, asksVars,
    safeVars, whoVars, trustedVars, notifyVars, editorVars, textVars, benchVars, rest1>>

SpecWindow == InitWindow /\ [][NextWindow]_all

-----------------------------------------------------------------------------
\* A tile, the channel picker and the chart give a series one colour, and a
\* cell says what its own equipment answered last (chartPalette.js,
\* dashboardGroup.js, MapTile.svelte).
DashboardAgrees == scenario = "tiles" => Tiles!SwatchIsTheLine /\ Tiles!CellIsItsEquipment

\* A table and its index are of the walk they show, two devices are compared on
\* the same column, and a cell is read back as it was exported
\* (ResultsDisplay.svelte, ResultsComparison.svelte, exportUtils.js).
ResultsAreTheAnswers ==
  /\ scenario = "tables" => Tables!IndexIsOfTheTable /\ Tables!TableIsTheWalk
  /\ scenario = "exports" => Exports!ComparedFairly /\ Exports!CellsReadBack

\* The tree shows what is filtered for and found, named by the tree there is
\* (MibPanel.svelte, utils/mibTree.js, oidDisplay.js).
TreeShowsItsNodes ==
  scenario = "tree" => Tree!FilterKeepsMatches /\ Tree!FoundIsShown /\ Tree!NamedByItsTree

\* The tree is of the files that are on, a failure is told and nothing is told
\* of a file that was since diagnosed anew (mibStore.js, MibManager, pkg/mib).
FilesAreWhatIsOn ==
  scenario = "files" =>
    /\ Library!TreeIsWhatIsOn /\ Library!FailureIsReported /\ Library!DiagnosisIsTheLastAsked
    /\ Library!TreeShowsEachOnce /\ Library!RollSaysTheWorst

\* The lines painted are the file's, and a place is the same for whoever counts
\* it, over tabs, strings and comments (tokenize.js, MibEditorPanel.svelte).
ViewIsTheFile == scenario = "view" => View!PaintedAsTheFile /\ View!PlacesAgree

\* The form of a simulated device says what would go wrong, opens as it was
\* saved, and makes a target that reaches the device (simulator.js).
FormIsTheDevice ==
  scenario = "device" => Device!FormSaysWhatGoWould /\ Device!ReopensAsSaved /\ Device!TargetIsTheDevice
=============================================================================
