# SnmpLens: the core in TLA+

SnmpLens is a desktop SNMP tool: a Go back end (`src/internal/app`, `src/pkg`) under a
Svelte window, joined by Wails.  Left to run, it polls devices, turns samples into
incidents, receives traps, journals both as events, and forwards events to mail, webhook
and syslog destinations.  That unattended path is what this project models: what is
measured is stored, what is wrong is announced once, what is announced is delivered, and
a stop, a crash or a failing database in the middle does not change that.

File names below are relative to `src/`.  `router.go`, `app.go` and `monitor.go` are in
`internal/app`; `dispatcher.go` and `backoff.go` in `pkg/notify`; `scheduler.go`,
`breach.go` and `overrun.go` in `pkg/monitor`; `storage.go`, `notify_store.go`,
`events.go` and `watermark.go` in `pkg/storage`; `trap.go` and `usm.go` in `pkg/snmp`;
`trapusers.go` in `internal/app`.

## 1. The system

```
 window ──commands──> session commands ──start/stop──> poll clocks ──SNMP──> devices
                      (monitor.go)                     (scheduler.go, overrun.go)
                                                         │ samples        │ readings
                                                         v                v
                                                    sample buffer    breach evaluator
                                                    (storage.go)     (breach.go)
                                                         │                │ events
 traps ──> trap listener (trap.go) ──events──┐           v                v
                                             └──> journal (events.go) <───┘<──────┐
                                                         │ accept                 │
                                                         v                        │ dead
                                                    event router (router.go)      │ letters
                                                         │ rows + watermark       │
                                                         v                        │
                                                    outbox (notify_store.go) ──> dispatcher ──> sinks
```

| component | state | operations | what is hard | what makes it correct |
|---|---|---|---|---|
| Event router | the events in flight, the highest accepted, the watermark written, the channel, the deferred list; in the database the journal, the watermark, the outbox rows | record, accept, flush, defer and retry, replay at startup, route inline, stop | several producers, a bounded channel, a write that fails, a crash between any two steps, a replay while live routing runs | no alert below the watermark without its rows; nothing in flight twice; the watermark never goes back; what is owed is routed in the end |
| Outbox and dispatcher | rows with state, attempts and next try; one goroutine per sink | list due, resolve, send, mark sent or failed, announce a dead letter, retry by hand, bounded stop | send and mark are two steps; a pass during a stop; sinks edited meanwhile; a dead letter is an event too | at least once, and once unless interrupted; sent is final; every delivery ends |
| Breach evaluator | open episodes in memory and in a table, the reachability latch | ingest a round, reload at startup | memory, table and journal are written one after the other | opened once, closed when the value is back, not before the dwell |
| Sample buffer | buffered samples, the batch being written | queue, flush, put back, close | writes that fail, a cap, sessions deleted meanwhile | kept once, in order, only the oldest dropped, all written at close |
| Poll scheduler and session commands | the table of handles, the goroutines, the rows' active flag and connection | start, stop, update, delete, resume, stop all | commands overlap; a stop waits for a goroutine in the middle of a fetch | one clock per session; stopped means silent; no write after close; nobody waits for ever |
| Overrun guard | two streaks, the widened interval, the operator's answer | observe, report, accept | edges at the boundary | reported before widened; half of the time idle; restored; no flapping |
| Trap listener | the listener, its two channels, the users it hears, those remembered for the next login | start, stop, change users, handle a notification | the library's one-shot close; a stop and a start back to back; journalling before acknowledging | never out of reach; nobody is heard whose access was taken away; an INFORM is acknowledged only when journalled |
| Routes, sinks, templates | configuration rows | select, render, send | I/O | – |
| SNMP client, presets, simulated agents, updater, tray, autostart, network tools | see `PROJECT.json` | | parsing and I/O, beside the unattended path | – |
| Window: monitoring (`pollingStore.js`, `MonitorPanel.svelte`, `MonitorChart.svelte`, `DashboardPanel.svelte`) | its own copy of the sessions and samples, the form, the views, the windows of the charts | every command above, loads, gestures, tabs | commands are not serialised; the history is loaded beside samples that go on arriving; four components draw one series | one row per session, each sample once and in order; history and live apart; one colour and one window |
| Window: events and traps (`eventsStore.js`, `EventsPanel.svelte`, `AlertTimeline.svelte`, `trapStore.js`, `TrapPanel.svelte`, `burst.js`) | pages, a cursor, a badge, a timeline, the notifications, two gates before a toast | load, page, acknowledge, remove; listen, start, stop, update users | answers and announcements cross; a cap moves the cursor; two clocks | one row per event; what is cut can be paged back; the users follow the settings; nothing passes in silence |
| Window: settings (`crypto.js`, `settingsStore.js`, `TargetManager.svelte`, `CredentialProfiles.svelte`) | the settings in memory and stored, the key, targets, overrides, profiles | seal, open, adopt, reset; every edit of a target or profile | a keychain that does not answer, at the start or half way; one object replaced whole | never in the clear, never blanked behind the operator; an edit is about its own target |
| Window: notifications (`NotifySettings.svelte`, `TemplateEditor.svelte`, with `NotifySaveSink` and its neighbours in `app.go`) | destinations, credentials bound to them, rules, the delivery log, the two editors, a preview | save, delete, test, retry, filter, preview | the destination is saved before its credential; answers come after the page has moved on | a credential does not follow its destination; page, log and preview are of what is stored, chosen and typed |
| Window: operations (`OperationsPanel.svelte`, `operations/`) | the form, the node, the results, their table and its index, what is recorded | get, next, bulk, walk, set, to one or several targets; rows of a table; compare, export | handlers read the form after the answer; the index of a table is two calls | an answer is recorded as what was asked, of its device; a table is of its walk; what is compared is comparable |
| Window: request history (`historyStore.js`, `HistoryPanel.svelte`, `DiffModal.svelte`) | a mirror of a table, pages, a selection | add, delete, clear, migrate, reveal, compare | entries are added and deleted during the load and the migration | the list is the table; what is deleted stays deleted; an entry is revealed where it is |
| Window: MIB editor (`mibEditorStore.js`, `MibEditorPanel.svelte`, `mibeditor/`) | file, buffer, draft, diagnostics; undo history, popup, search; what is painted | open, type, save, discard, undo, complete, replace, scroll | three timers and awaited calls across a switch of file; programmatic edits; several scanners of one text | work is on disk, in a draft or in the editor; undo returns; a place is the same for every scanner |
| Window: simulator (`SimulatorModal.svelte`, `simulator.js`, `simulatorStore.js`) | the form of a device, its problems, the list, previews, faults | edit, save, preview, start, stop, set faults, add as target | the form judges what Go would refuse; calls of several devices cross | the form says what would go wrong; it opens as it was saved; the list is Go's |
| Window: MIB browser and files (`MibPanel.svelte`, `MibSettings.svelte`, `mibStore.js`, `mibPathsStore.js`, `pkg/mib`) | the tree, filter, selection, names; files, directories, switches, diagnosis, graph | load, filter, navigate, collapse; scan, switch, drop, reload, diagnose | filtered copies beside originals; names cached by tree; loads and diagnoses crossing | matches are kept and shown; the tree is of the files that are on; a failure is told |

The components meet in four ways: calls (`recordEvent` runs on the producer's goroutine
down to the channel), channels (queue, wake-up, done), one SQLite database (a write of one
may be refused because of another), and the order of `startup` and `shutdown` in `app.go`.

## 2. The modules

Each module is one component, with the database tables it writes, the process's memory,
and a section of bookkeeping that no guard of the code's actions reads except to spend a bound.  `map` in
`PROJECT.json` gives the lines of each definition.  Definitions marked "Mutant" are wrong
on purpose: each replaces a neighbour to show that a property notices.

**EventRouter** (`router.go`, `recordEvent` and `shutdown` in `app.go`, `watermark.go`,
`events.go`).  An event is its sequence number; `Wanted` says which sinks the rules select
for it.  A producer goes through `Record` (insert), `Register` (in flight, highest),
`Enqueue` or `Refuse` and then `RouteInline`.  The router's goroutine goes through
`Receive`, `Tick`, `WriteBatch` or `WriteFails`, `SettleBatch`, the pool watch, `SeeDone`
and `Drained`; `SafeMark` is the watermark of `markIfSettled`.  `ReplayRead/Write/Done/
Stops` is `replayUnrouted`, with the phase telling whether startup is still in it.
`Early` are the producers that run during the replay (the dispatcher), `Late` those
that run after the router was stopped (the poll clock, the dispatcher), as the order of
`startup` and `shutdown` has it.  `Crash` loses the memory, `Start` reads the watermark or
seeds it.

**AlertLedger** is the promise of journal, router and replay together: an event is unborn, owed,
queued or deleted, and there is no way to be lost.  `EventRouter` implements it by
`Status`.

**Dispatcher** (`dispatcher.go`, `notify_store.go`, `initDispatcher` and
`routedGroupsFor` in `app.go`).  `Drain` lists a batch (`Due`) and hands each sink its `Share`; each
sink's goroutine goes `Resolve`, `SendAccepted` or `SendFails`, `MarkSent` or
`MarkFailed`, `Announce`.  `line` is what is due, by next try; `BackoffElapses` lets a row
become due again at any time.  A lost answer (the destination has it, the sender sees an
error), a failed write, an unreadable sink table, a crash, a retry by hand and an edit of a
sink are `Mishaps`, bounded all together by `MaxMishaps`.

**DeliveryContract** is the promise of the outbox: pending until it arrived and is
confirmed, or is given up; sent and given up last until the operator presses Retry; while
the application runs nothing is pending for ever.

**Evaluator** (`breach.go`, episodes in `events.go`, `initEvaluator` in `app.go`).  One
session and device, some metrics.  A round is taken apart: `Poll`, `Reachability`,
`EvaluateSample` per metric, and `Write` or `WriteFails` for each statement the code
executes, so that a crash can fall between any two.  Time is counted in units shorter than
a second, because `FirstSeen` is kept to the second and the present is not.

**SampleBuffer** (`storage.go`).  Samples are numbered; `Take`, `Commit`, `Refuse`,
`RestoreBatch` are a flush, `Shutdown`, `Joined`, `Close` the end.  A batch with a sample
of a deleted session is refused by the foreign key, whatever else it holds (`Orphans`).
What a deletion leaves of the table is any of its order-preserving remainders (`Without`:
there is exactly one, named by what it keeps and not by how it is computed).

**PollClock** (`scheduler.go`, `monitor.go`).  Each command of the window is a call of its own
goroutine, and goes through the steps of the Go function: the read of the row, the table
of handles, cancel, wait, the write of the row, each database step with a failing
alternative.  Each clock goes through `Tick`, `Check`, `FetchReturns`, `CheckAgain`,
`Stored`, and leaves at `SeeCancelled`.  A clock remembers the version of the connection
it was started with.  Deleting is stop and delete, as the window does it
(`pollingStore.js:256-270`).

**OverrunGuard** (`overrun.go`, and the loop of `scheduler.go`).  A round has a
duration, a number of readings and a number of failed ones; the ghosts record what the
rounds really were, the guard's own counters what the code makes of them.

**TrapListener** (`trap.go`, `trapusers.go`, `usm.go`).  A listener is the number of its
start; its goroutine goes through `Bind` or `BindFails`, `ListenReturns`, `Clear`, `Done`,
beside the `Helper` that takes the one value of `Listening()`.  A command of the window
goes through `Begin`, the lock of the life cycle, `StopListener`, `AwaitBound`,
`CloseReturns`, `AwaitDone`, `Restart` and `Save`; the start at login is a command too.
What the library does (`Bind`, `Close`, the acknowledgement in `Reply`) is modelled from
how the code uses it and marked external in the map.  A notification is in `handling` from
`Receive` to `Reply`; `Declined` is the change of its type that keeps the library quiet.

**PollWindow** (`stores/pollingStore.js`; from here on, below `frontend/src/`).  Each call
of the page is served by Go at any time (`Serve`), and answers and samples come through
one channel in the order they were sent (`Hear`).  `initFromBackend` is the load at the
start, one call for each session; `rows` is what the page shows, `go` what is true.  Go
lists sessions in any order, and a call of the page may fail.

**MonitorView** (`MonitorPanel.svelte`, `monitorViewStore.js`): the form of a session, the
view of each session with the panel's one automatic change of it, the history with its two
kinds of answer, and the blob kept across restarts.  **ChartWindows** (`MonitorChart.svelte`,
`chartSync.js`): which stretch of time each chart shows, as gestures are published and
heard, charts are built, rebuilt and torn down.  **Dashboard** (`DashboardPanel.svelte`,
`dashboardGroup.js`, `chartPalette.js`, the tiles): mostly functions of the samples; rounds
arrive target by target, and what the wall, the map, the tiles and the plot say is compared.

**EventsWindow** (`eventsStore.js`, `EventsPanel.svelte`, `AlertTimeline.svelte`): a call
is asked, performed by Go and answered in three steps, events are stored before they are
announced.  What a filter leaves of a list is `Only`, of **Places**, here, in PollWindow and in RequestHistory.  **TrapUsers** (`trapStore.js`, `credentialProfiles.js`): who the listener is
told to accept, with a keychain that is locked or opens.  **TrapTail** (`burst.js`,
`TrapPanel.svelte`): a gate has a wall clock and a timer of its own.

**Vault** (`crypto.js`, `settingsStore.js`): a credential is a secret and the key it is
sealed under.  A save seals first and stores after; the start opens, adopts the legacy key
and migrates.  **Identities** (`TargetManager.svelte`, `targets.js`,
`credentialProfiles.js`, the dialogs): who each target is asked as.

**NotifyDesk** (`NotifySettings.svelte`, `TemplateEditor.svelte`, `app.go`): every call is
asked, served by Go and answered; a save is the row first and the credential after, in a
secret store that may refuse (`Silent` says that it does not).

**Operations** (`OperationsPanel.svelte`): an operation is the request, the answers and what
its handler then reads of a form that has moved on; the automatic GET is a timer.
**ResultTables** (`ResultsDisplay.svelte`, `tableRows.js`): a walk, the table view it turns
on, the two calls for its index and the forms of a row; an OID component is a sequence of
digits, because the code compares prefixes of text.  **ResultExports**
(`ResultsComparison.svelte`, `csv.js`): the comparison and the quoting of cells.
**RequestHistory** (`historyStore.js`, `HistoryPanel.svelte`, `DiffModal.svelte`, `storage.go`); an
order by date is `Rising`, of Places.

**MibEditor** (`mibEditorStore.js`): each awaiting function is taken apart at the await; a
text is a file and a version.  **EditorText** (`history.js`, `search.js`): the text as
characters, its undo entries, popup and search.  **SmiView** (`tokenize.js`, `render.js`,
`metrics.js`): mostly functions of a text over five kinds of character, against definitions
that read the whole file.

**SimulatorEditor** (`simulator.js`, `SimulatorModal.svelte`, `pkg/simulator`): the form, the
payload made of it and what `Validate` says of that.  **SimulatorDesk**
(`SimulatorModal.svelte`, `simulatorStore.js`): the calls of the dialog and their answers.

**MibTree** (`MibPanel.svelte`, `TreeNode.svelte`, `oidDisplay.js`): trees are heaps of nodes,
because a filtered tree is of copies and the names are cached by identity.  **MibFiles**
(`MibSettings.svelte`, `mibStore.js`, `mibPathsStore.js`, `pkg/mib`): which files are read, in
which order, with cycles and missing imports.

`MC…` modules instantiate for TLC what needs more than model values.  The parts of the window keep
stores of their own, and are put side by side: **WindowShows** has those that watch (PollWindow,
MonitorView, ChartWindows, EventsWindow, TrapTail, RequestHistory) and extends `OverrunGuard`,
whose announcements they show; **WindowKeeps** has those that configure, edit and ask (Vault,
Identities, TrapUsers, NotifyDesk, MibEditor, EditorText, SimulatorDesk, Operations).  Each states
what its parts promise together, as conjunctions by what the operator is promised.  `MCWindow`
extends both and adds the remaining parts: a behaviour is of one part, its `scenario`; a remaining
part uses the first of the variables `v1` to `v14`.

`EventRouterProofs`, `DispatcherProofs`, `EvaluatorProofs`, `PollClockProofs` and
`TrapListenerProofs` hold the proofs, each about the module it is named for.  `ShowsProofs` holds
those about the parts of WindowShows and the overrun guard, and `KeepsProofs` those about the parts
of WindowKeeps but for the two pages that have most calls under way, the notification page and the
dialog of the simulator: `OnTheWayProofs` has these and the samples that are between a poll and the
table, as they all rest on lemmas about lists that are taken from, appended to and put back.

## 3. The runs

| run | shows | instance |
|---|---|---|
| EventRouterSerial | nothing is lost, nothing held twice, the ledger is implemented, liveness included | one producer outside replay and shutdown, 3 events, 2 crashes, 2 faults, 1 deletion |
| EventRouterRace | what can be lost at most, and the invariants the proofs use | dispatcher and pool watch beside a producer, a queue of 1, batches of 2, 3 events, 1 crash, 1 fault, 1 replay fault |
| EventRouterReplayStops | *violated*: a replay that stops does not protect what it left | one producer, 3 events, 2 crashes, 1 replay fault |
| DispatcherFaults | once unless interrupted, and the contract: at least once or given up, sent until retried, nothing pending for ever | 2 sinks, 2 events (a dead letter is the second), batches of 2, 2 attempts, any 1 mishap |
| EvaluatorFaults | episodes, dwell, reachability | 2 metrics, 4 readings, 5 units of half a second, 1 fault, 1 crash, 1 exit |
| EvaluatorGap | *violated*: an incident closes when the value is back | 1 metric, no fault |
| SampleBufferFaults | samples kept, ordered, bounded, complete, eventually stored | 2 sessions, cap of 2, 4 samples, 2 faults, 1 deletion, 1 cleanup |
| PollClockSerial | what one window may rely on | 2 sessions, 5 calls, 3 clocks, 1 failing database call |
| PollClockRace | no clock out of reach, no call stuck | 2 callers, 1 session, 4 calls, 4 clocks |
| TrapListenerRace | no listener out of reach, no command stuck, nobody heard whose access was taken away, no INFORM acknowledged and not journalled | 2 callers, 3 commands, 3 listeners, a usable user and one that is refused, 1 INFORM, any 2 mishaps |
| Window | what each part of the window shows, keeps, records and does not lose, and the guard's promises | the table below |
| MibEditorDiscard | *violated*: edits that were given up are not kept | 2 files and a module, 1 version, 4 clicks |

The instances of Window, by scenario:

| scenario | module | instance |
|---|---|---|
| guard | OverrunGuard | interval of 4, durations on both sides of half of it, of it and of the cap |
| poll, panel | PollWindow, MonitorView | 2 sessions, 2 samples, 1 command, 1 failing call or overrun; 3 rows of a form, 3 clicks |
| tiles, charts | Dashboard, ChartWindows | 2 equipments and 2 OIDs, 2 rounds; 2 sessions of 2 charts, 3 gestures |
| events, users, tail | EventsWindow, TrapUsers, TrapTail | 3 events of 2 severities, pages of 2, a cap of 2, 2 announcements behind, 2 calls; 2 users, 3 clicks, 1 mishap; 3 notifications, windows of 1 and 2 |
| vault, identities | Vault, Identities | 2 slots, 2 keys, 2 saves, 1 change of the keychain, 1 restart; 2 addresses, 2 profiles, 2 edits |
| notify | NotifyDesk | 2 destinations, 2 rules, 1 dead letter, 2 calls under way, 3 clicks |
| operations | Operations | a scalar, a column, a table and an OID typed by hand, 2 targets, 2 settings, 2 operations, 3 clicks |
| tables, exports | ResultTables, ResultExports | 2 tables, 2 targets, 1 walk, 2 loads; 2 digits, values of 2 characters |
| history | RequestHistory | 4 entries, a cap of 3, pages of 1, 1 legacy entry, 1 restart |
| editor, text, view | MibEditor, EditorText, SmiView | 2 files and an external one, 4 clicks; texts of 4 characters, a history of 2; texts of 5 characters of 5 kinds |
| device, bench | SimulatorEditor, SimulatorDesk | 3 names, 3 communities, 2 models, 2 rows of each list; 3 devices, 2 calls under way |
| tree, files | MibTree, MibFiles | 2 trees of 5 nodes, 2 searches, 4 clicks; 7 files with a cycle, a broken one and missing ones, 3 clicks |

*Why the bounds are enough.*  Every bound is a constant with `Max` in its name, or a budget spent by the
fault it bounds.  Three events are the least in which one is written, one is overtaken and
one overtakes; a queue of one is full after the first, a batch of two can be both partial
and full.  Two sinks and two attempts tell a first failure from the last one and one
sink's goroutine from another's.  A cap of two with four samples overflows by a full
batch.  Three rounds are the streaks of the guard, and its state space is finite without a
bound.  Each fault is allowed at least once; a second of the same kind is allowed where recovery from the first
is what could break (crashes of the router, refused batches).  Three commands are a
listener, what is done to it, and one that waits for the lock or finds what is left; the
two mishaps let a grace that elapses meet a listener that is still there.  Of the window, two
of each thing show one taken for the other, two calls under way cross, and the clicks
suffice to ask, to change what was asked about, and to look; five characters hold a quote
that opens, one that closes, and a comment between.

*Deadlock.*  EventRouter and Dispatcher are checked for deadlock.  Evaluator,
SampleBuffer, PollClock, TrapListener, the window and MibEditor say `CHECK_DEADLOCK FALSE`: their clocks, samples,
notifications and commands are bounded, and when the bound is spent (or the application
has closed) nothing remains to be done.  That no call is stuck is `EveryCallReturns` and
`EveryCommandReturns`, and that no flush is, `EverySampleStored`.

*Fairness.*  Weak fairness of each goroutine: Go schedules it, and every blocking call has
a timeout or a cancelled context.  Where a `select` has several ready cases Go picks one
at random, hence strong fairness of the router's three cases and of a clock's seeing its
cancellation.  A `sync.Mutex` hands itself over to one that has waited for it too long,
hence strong fairness of taking the lock of the listener.  No fairness is assumed of crashes, faults, the operator, or the next launch: `AlertLedger` and
`DeliveryContract` promise progress only while the application stays up.

*Conditions in the properties.*  `NothingLost` and `ImplementsLedger` are about an instance with one
producer; with several, `OnlyExposedLost` holds instead, and says exactly what is at risk.  Properties of the
evaluator that begin with `NoFault` or `NoCrash` say what holds until the first failed
read or write, or the first crash; `ReachabilityAlternates` is about one run of the process.
`AcknowledgedIsJournalled` excuses a handler that panicked (section 5).

## 4. What is proved

TLC checks the instances above; TLAPS proves the following for all values of the
constants that satisfy the assumptions of the modules (bounds are naturals, the batch and
the interval are positive, `Wanted` maps events to sets of sinks).

*EventRouterProofs*: `TypeCorrect`, `WatermarkSafe` (`OnlyExposedLost`),
`NothingForgotten` (`AcceptedStaysOwed`) and `InFlightPins` (`InFlightPinsWatermark`).
`OnlyExposedLost` alone is not inductive: that the mark about to be written is safe was
decided when the flush began, and events were registered since.  `IInv` adds what carries
it over: sequence numbers are handed out before use (`SeqsAllocated`); marks stay below
the highest accepted (`MarksBelowHighest`); an event in flight is above both the watermark
and the mark under way (`Pinned`); what is being settled was written
(`SettlingWritten`); what the replay has passed is covered (`ReplayPrefix`); every place
an event may wait in is accounted for (`HeldAccounted`); and the memory is empty while the
process is down (`NobodyWhenDown`).  `IInv` is preserved by one lemma per action or group
of actions that touch the same part of the state, on the lemmas `SafeMarkBelowOwed`
(what `markIfSettled` returns is below all that is in flight) and `FlushStarts`.

The same module goes on to where an event *is*.  `InOnePlace` (`HeldOnce`) counts places,
and a count is not inductive; `Apart` says instead that producers hold different events
(`HandsApart`), that channel, batch, deferred list and flush have nothing in common and the
channel nothing twice (`PlacesApart`), that only a flush has something to settle
(`RouterWaits`), and that what is in flight is in one of them (`Placed`).  `Placed` begins with
`QueueDepth >= MaxSeq`, as `HeldOnce` does: a deferred list that is full leaves events to
the next start (router.go:293-305).  `WatermarkRises` (`WatermarkMonotone`) is an action
property, for which types are enough.

`KeepsTheLedger` is the safety part of `ImplementsLedger`: the initial states map to initial
states, and every step to a step of `AlertLedger` or none.  It holds under `OneAtATime`, which
is what the instance EventRouterSerial has too: one producer, none during the replay, a pool
with nothing to report, room in the channel and the list, a replay that does not fail.  With two
producers it is false, as section 5 says (journalled first, registered last).  `Serial` is the
invariant that turns the assumption into what the steps need: only that producer is at
work, a journalled event is in somebody's hands or written (`Owned`), and nothing that is
journalled was ever exposed (`Unexposed`).  `RoomLeft` is the counting argument: the channel
and the producer hold different events, so that it is not full.  `SerialLosesNothing`
follows (`NothingLost`).

*DispatcherProofs*: `TypeCorrect`, `DeliveredOnce` (`OnceUnlessInterrupted`),
`KeepsTheContract` (the safety part of `ImplementsContract`, with no assumption) and
`SentStaysSent` (`SentIsFinal`, where nobody presses Retry: with Retry it is false, section
5).  The hazard is a row listed by a pass and changed before its goroutine gets to it.
`IInv` says what the goroutine may rely on: what is due is pending and there once
(`LineTyped`); shares have nothing in common and go to their own sink (`Shares`); what is
left to send still waits, with the attempts it was listed with (`Waiting`); what waits has
an attempt left (`Spare`); and what arrived uninterrupted is sent, or about to be
(`Answered`).

*EvaluatorProofs*: `TypeCorrect`, `Resumes` (`EpisodesSaved`), `AnnouncedOnceEver`
(`OpenedOnce`), `NothingElseOpen` (`ClosedWhenBack`) and `AlertsHaveHeld`
(`AlertHasHeld`).  Memory, table and journal differ in the middle of a round, whichever
write comes next, and a crash may keep any prefix of the writes.  `Pending` describes every list of
writes that is left and what the three hold meanwhile, one disjunct for each way
a reading is evaluated (breach.go:115-210); `SavedFirst` and
`FreshIdentifiers` make the second announcement impossible, and `Held` relates
`FirstSeen` to the readings.  `Sound`, the part about the three stores, is under `NoFault`, and
`Timely`, the part about the dwell, under `NoFault` and `NoCrash`, as the properties are.

*OnTheWayProofs*, of SampleBuffer: `TypeCorrect`, `SamplesAreKept` (`KeptOnce`), `TheOldestGo`
(`OldestDropped`), `StoredInOrder` (`InOrder`) and `CloseLeavesNothing` (`ClosedComplete`).
The samples are one rising line in three runs, the table, the flush and the buffer (`Rises`);
what the cap took is older than the last two (`Aged`); each sample is somewhere, or gone for a
reason (`Held`).  A refused flush goes back to the front of the buffer, a cap cuts the front
off, and both keep the line; the lemmas are about rising sequences, their concatenation
and their tails.

The same module, of NotifyDesk: `CredentialsStay` (`CredentialStays`, `UnboundIsSaid`) and `PageIsAsSet`
(all of `NotificationsAsSet`), for any destinations, rules, deliveries, places, clicks and calls under way.
`DeskInv` says what a call under way will do: a list that is not what is stored is read again, by a call
there is or by what follows one that was served (`RowsFresh`, `RoutesFresh`); the last read of the
log asks for the filter there is, the last preview for what the form holds (`LogFresh`, `PreviewFresh`,
which need reads answered in the order they were made); and a credential there is belongs to
a destination there is, for where it points (`Bound`, lemma `SaveSinkGo`).  The invariant found the
first statement of `UnboundIsSaid` false: two saves of one form that cross (section 5,
`EveryUnboundIsSaid`) take six clicks, more than the run has.

The same module, of SimulatorDesk: `BenchIsRight` (all of `BenchIsTold`), for any devices, models,
faults, dialogs, clicks and calls under way.  Closing the dialog leaves its calls on the way, and
the next one opens with a busy set and a preview of its own; so `BenchInv` gives each call the dialog
that made it.  A call of this dialog keeps its device busy, a busy device has one, and no device
two (`BusyOf`); the preview with the last number is of the form there is, and the
one that is shown is that one once it is answered (`PreviewOf`); a list that is not Go's is read
again by a call there is (`ListFine`).  The list of models is read by another call, so a new
device may be of one that was deleted: as long as nothing crossed a deletion, a model that is gone is
listed, or given to a new device, only while the deletion is under way (`DeletionOf`).  `Passed` is the lemma all of it rests on: after an
answer the calls are those there were, in their order, but for one, and perhaps one more.
Two things are supposed: lists are answered in the order asked, and the catalogue begins with a
model that cannot be deleted.  The induction found `ModelIsThere` too strong as it had been checked
on 3 clicks: a model imported or recorded while another deletion of it is under way is shown, chosen, and
gone (section 5, `EveryModelIsThere`; `crossed` remembers that it happened).

*PollClockProofs*: `TypeCorrect`, `NoStrayClock` (`NobodyLeftBehind`), `StopIsNoOutage`
(`NoFalseOutage`), and `NoFinalWrite` (`NothingStoredAfterClose`) where one caller gives the
commands, as the instance PollClockSerial has it; section 5 shows what two can do.  The argument
follows a handle: in the map it is live and of its session (`MapIsLive`), a call that took it out has
it alone (`HeldIsOut`), and who is cancelled is waited for (`CancelledIsAwaited`).

*TrapListenerProofs*: `TypeCorrect`, `CanBeStopped` (`NeverStranded`), `NobodyElseIsHeard`
(`TakenAwayIsRefused`) and `OnlyJournalledAcknowledged` (`AcknowledgedIsJournalled`).  Who is past the
lock holds it (`Holder`), hence field, goroutine and users agree whenever a command looks
(`FieldIsTheListener`, `Heard`).  That no more listeners are made than there are commands is
a count over the commands that may start one (`OneEach`).

*ShowsProofs*, of OverrunGuard: `PeriodInRange` (`TypeOK`), `WidenedIsReported`, `IdleHalfTheTime`,
`CadenceRestored`, `NoFlapping`.  The properties speak of the rounds, the guard keeps
counters; `GuardInv` says that the two agree (`Episode`, `Counts`, `Longest`) and that the interval is
what the longest round of the episode asks for (`Widened`).

The same module, of PollWindow: `OneRowEach` (`OneRowPerSession`) and `SamplesOnceInOrder`
(`EachSampleOnceInOrder`), for any sessions, cap, number of commands, samples and failing calls.
The history read at the start and the samples that keep arriving are two ways into a row,
and answers wait in one channel with them.  `PollInv` therefore speaks of the channel as much as of
the rows: samples of a session rise along it, an answer that carries a history holds
nothing later than the samples behind it, and a list names no session made after it
(`InTurn`); a row shows nothing of what is still to be heard (`RowFine`); a session that was made and is not yet
heard of is on no row and in no load (`Unseen`); the load asks one thing at a time, of the first
session that is left (`OneAt`, `NextLoad`), and no session is both left and loaded (`LoadFine`).

What is left of a list (`Only`, of the module Places) is where these proofs would need
induction over data.  Instead, that the places that stay, counted in order, are all counted
(`Counted`) rests on finite sets, and what follows is stated once, as `OnlyIs`: each place of
what is left is a place of the list, and no two are the same.

The same module, of EventsWindow: `OneRowPerEvent` (`KeyedRows`) and `CutComesBack`
(`CutIsReachable`), for any kinds, filters, pages and number of events, calls and announcements under
way, in or out of order.  `EventsInv` is about what an answer carries: a page falls, and so has
no number twice (`PageFine`, lemma `PagesFine`); a call stays the record it was made as until it is
answered (`Asked`); and the four ways into the list, a page that replaces it, one appended
and deduplicated, an announcement put on top, a row marked or removed, each keep one row of a
number.  The second theorem needs that the list falls, as a hypothesis of the property: without it
the statement is false (`EveryCutReachable`, section 5), which a run with one announcement behind could not show.

The same module, of RequestHistory: `DeletedIsGone` (`DeletedStaysDeleted`) and `RevealedIsShown`
(`Reveals`), for any older entries, page size, cap, and number of entries, clicks, faults and restarts.
The writes of the mirror are sent and not waited for, so what was deleted may still
be in the table, or in calls that write it there.  `HistoryInv` says, while no call fails, that the last
call about a deleted entry drops it, or that it is in neither (`Leaves`); that the load is asked
before anything made since the start is saved (`ReadFirst`), so that what it reads has nothing
the mirror holds or the operator deleted (`ReadIsOld`); and that the older entries, until they are
imported, once (`ImportOnce`), are nowhere else (`LegacyIsNew`), which is why deleting during
the load brings nothing back.  The first theorem takes for granted that Go serves the calls in
the order they are sent (`InOrder`), as the run does: section 5 has what happens otherwise.  The
second holds in any order, and whatever fails.

The same module, of the mirror and the table: `MirrorIsTheTable` (`HistoryIsTheTable`, both halves).
Writes are not waited for, a read crosses them, the older entries come in by another way, and
each list is cut where it is full, table and mirror at different times.  `Owed` says what the mirror
owes: an entry a call under way still saves, or one of the table, that no later call drops; before the
table is read, only what this start has saved.  `MirrorInv` says that what is owed is
shown, or `OnTheWay` in an answer that was not read yet, unless the mirror is `Full` but
for what was deleted since; and that no list holds an entry twice (`NoneTwice`), so that its length
says how full it is.  An older version left no entry twice (`Distinct(Legacy)`).

The same module, of TrapTail: `HeldBackIsSaid` (`TailReported`), for any gates and widths: what was
offered to a gate led a window, was summed up, or is held back with a timer running (`Told`, `Timed`).
Of MonitorView: `OneKindIsDrawn` (`HistoryIsOneKind`) and `ChosenStands` (`FightsNoChoice`): one load of
a history at a time, which empties the lists (`OneKind`), and a view that was chosen is one the panel
has settled before (`Settled`), here and in the blob a restart reads.  Of ChartWindows:
`GestureGathers` (`GathersGroup`): a gesture puts every chart of its group, drawn or not, on the
window of the chart it was made on, whatever the others showed.

What they promise together, which is what the run Window checks: `RowsAreRight` (`RowsAreTheSessions`),
`NewsIsTold` (`NewsIsToldOnce`) and `ChoicesAreKept` (`ChoicesStand`), from the theorems about the parts.

*KeepsProofs*, of Vault: `StoredSealed` (`NeverStoredInClear`), `UsedOpen`
(`NothingSealedInUse`) and `BlankedByTheOperator` (`NeverBlankedBehindYou`), for any set of
slots and secrets and any number of keys, saves, failures and restarts.  A locked start blanks
its copy in memory, and what may be written later must not carry those blanks to storage.
`VaultInv` says why it does not: what is blank in a copy that may still be sealed (the
memory of a start that is not locked, what was read, what a save under way took) is blank by
the operator's hand (`BlanksAreMeant`); a start whose keychain did not answer is locked
(`UnusableIsLocked`), and saves made then carry the stored strings forward; where nothing is stored,
nothing sealed is in memory (`FreshIsClear`).

The same module, of MibEditor: `WorkStays` (`WorkIsSomewhere`) and `DraftsAreTheirs`
(`DraftOfItsFile`), for any files and any number of clicks.  A text that was typed is looked for
in the editor, the draft and the file, while drafts are kept and dropped by calls that may be
answered in any order.  `EditorInv` says when the draft may be relied on: for a file that is not open
the draft, and whatever is on its way there, is what was typed, or nothing where the file holds it as
well (`Kept`, `Good`); for the one that is open this may fail, but then the buffer is
dirty, its timer was set and nothing is being opened (`Fresh`), so that no step replaces the
buffer without asking.  A save under way may overwrite a file with an older text only then (`CallKeeps`).
`TextsOwn` says whose text is where, in files, drafts, the buffer and every call, for the files that
are not `crossed`, and `OneOpening` that the steps of opening do not overlap.  The induction
showed both properties too strong as they had been stated and checked on 4 clicks: a
draft of another file is possible from the sixth click on (section 5), and a text that is in the
file anyway may be nowhere else.

The same module, of Operations: `AnswersKept` (`AnswersStayTheirs`), `PanelIsFreed` (`NothingIsBusy`)
and `TypedIsKept` (`KeepsTyped`), with no assumption, for any nodes, settings, devices and operations under
way.  An operation reads the form again when its answers are there, and the form is the operator's
meanwhile.  `AskInv` follows each operation from the click to the record: while it is not `crossed`, the
form still holds what it was asked with (`StillTyped`) and the results are its own (`StillShown`); of
two that are under way, one at most is not crossed, but for a setting that is being saved
(`Undisturbed`); and the write of a row carries its device along and reads no form.

The same module, of Identities: `OthersKept` (`OthersKeepTheirIdentity`) and `FollowsChanges`
(`FollowedIffChanged`), for any addresses, profiles, passwords and number of edits.  Who a target is asked as
is read through three layers, its own override, a profile and the defaults, and the dialog edits
a copy that replaces the settings when it is saved.  `BookInv` says that the copy asks every target
that was not `touched` as the settings do (`CopyOfStored`), that no two profiles have one id (`Sound`),
and that a profile being made has an id that is in neither (`DraftIsNew`), without which saving it
would ask another's targets as itself.  What is assigned to some targets leaves the others (`AssignedIs`).

The same module, of TrapUsers: `UsersFollow` (`UsersFollowSettings`), for any users and editions of a
passphrase, as long as nothing fails and one call at a time is under way (with two, section 5).  What
the listener was last told may have been read before the keychain was opened, while it was locked or
after, and a push is skipped when it says what the last one said; `TrustInv` has one description of what
may have been told for each (`BeforeOpened`, `WhileLocked`, `OnceOpened`), and the argument is that a
list with passphrases nobody could open is never equal to one that has them (`Shut`, `Fits`), unless
nobody is accepted at all.

The same module, of EditorText: `UndoWorks` (`UndoReturns`), for any alphabet, texts, pasted strings,
window and depth of the history, as long as the webview inserts what it is told to (`~Refuses`; section 5 has
what happens otherwise).  What an edit was is found by comparing two texts, and may be found to be another edit
than the one made; all that undo needs is that it `Turns` the one text into the other.  `TextInv` says that
the history is a `Walk`: there are texts, one more than entries, each entry turns one into the next, and the one
at the cursor is shown.  `ExactDiff` and `DiffIs` give the turn an edit is recorded with, the search
around the caret included; `TypedOn` and `ErasedOn`, that a run of typing or erasing is again one turn
(two ways to cut one text at one place are the same, `OneCut`); `HistoryGrows`, that recording cuts off what
was undone, merges, or folds the oldest entry into the base, and is still a walk; `ReplayIs`, that what walks
is what `Replay` computes.  The carets that undo sets lie within their texts for the same reason, and the
match that is replaced is one of the text (`FindFits`).  `Replay`, the search and the replacement
of every match are recursions over a number: that they are defined, and what holds along them, is
argued without an induction theorem, from a least counterexample (`LeastIs`, `AllOf`).

What they promise together: `SecretsStay` (`SecretsAreKept`), `EditsAreLocal` (`EditsDisturbNothing`) and
`NothingTypedIsLost` (`WorkIsKept`).

Assumptions on constants beyond types: `PoolWatch` is none of the producers, the sinks of the
Dispatcher are finite, there is a session to poll, the values that stand for "nobody" are
nobody's.  Each is named where it is declared, and TLC evaluates it in the module's runs.
`VaultAssumption`, that the slots that come and go are not those that stay and that the values that
stand for nothing are no others, is a hypothesis of its theorems, and so is `EditorAssumption`: the
operator opens and fixes one thing at a time (`Waits`; section 5 has what happens otherwise),
and the key of an external file is no file's; and `PollAssumption`: sessions are numbered from 1,
where an earlier window may have left one; and `EventsAssumption`: a page holds at least one row,
the list at least two (2000 in the code); and `HistoryAssumption`: entries are numbered
from 1, those of an older version first, and a page and the table hold at least one; and
`DeskAssumption`: the secret store accepts what it is given (`Silent`), what there is at first points
to a place, and what stands for nothing is no place; and `TailAssumption` and `RangesAssumption`: windows
are not negative, and a timer, a range and a gesture are told from none; and `BookAssumption`: the
id of a profile is none of the words a reference may be; and `TrustAssumption`: one call at a time, and a
passphrase left out or not opened is no passphrase; and `BenchAssumption`: what is typed as a fault is
a number, and the two suppositions above; and `TextAssumption`: the webview inserts, the strings that are
pasted are texts, window and depth are naturals.  The run Window meets all of them, and `Distinct(Legacy)` and
`InOrder`.

Only model-checked: what TLC refutes (section 5); the ledger with several producers, where
`OnlyExposedLost` is proved instead; all liveness, with the fairness of `ImplementsLedger`
and `ImplementsContract`, `EverySampleStored` and the returns of commands, which are beyond the proof
system; and, of the window, Dashboard, SmiView, ResultTables, ResultExports, SimulatorEditor,
MibTree and MibFiles.  What these promise is what a function makes of a text, a tree, a table or a list, by a
fold, a selection or recursion over it (`FlattenSeq`, `SelectSeq`, the recursive operators of MibTree and
MibFiles).  The recursive operators are out of the reach of the proof system, and folds and selections
are opaque to it: what they return for every input is left to TLC.  A recursive function of a number is not, as
EditorText shows.  Where a part only selects from a list and the argument needs no more
than that each place of the result is a place of the list, it is proved (`OnlyIs`, `OverriddenIs`).

## 5. Where the code and its comments disagree

Three runs above end in a violation on purpose.

* **A replay that stops** (`EventRouterReplayStops`, router.go:504-507).  "Stop rather than
  skip" protects nothing: the router is already live, and the next event it flushes moves
  the watermark past everything the replay left.
* **An incident that never closes** (`EvaluatorGap`, breach.go:164).  One unreadable poll
  ends the episode of an opened incident silently; when the value is back there is nothing
  left to close.
* **Refused edits come back** (`MibEditorDiscard`, mibEditorStore.js:249).  Saying yes to
  "discard your changes?" clears the timer of the draft but leaves its handle set, and the
  buffer dirty: the opening of the next file flushes the draft again after the discard.

The other disagreements met while modelling can each be seen with the module's
configuration, changed as the table says (Spec instead of FairSpec, and the property
instead of the run's own); TLC finds each property violated.  For the window the table names the
instance, of `WindowShows`, `WindowKeeps` or `MCWindow`, and the constants to change, in `Window.cfg` or, for those of
`MCWindow`, where it is made; the property is the part's.

| run, and what to change | property | what happens |
|---|---|---|
| SampleBufferFaults: no faults, no cleanups | DroppedOnlyIfUnwritable | samples of a session deleted since fail the foreign key, and every later flush of every session with them, until the cap drops them all (storage.go:638, against 606-608) |
| EventRouterRace: producers `trap` and late `poll`, a queue of 3, no faults, no congestion | NothingLostAtRestart | journalled first, registered last: the watermark passes the event, then a crash (router.go:156, against 476-478) |
| EventRouterRace: producer `trap`, 4 events, no faults, no congestion | NothingLostAtRestart | refused by a full queue, the event is out of flight before it is routed (router.go:169, against 153-154) |
| EventRouterRace: a queue of 3, no faults, no congestion | ReplayOwnsWatermark | the dispatcher runs before the replay does (app.go:119, against 127-128) |
| EventRouterRace: producers `trap` and late `poll`, a queue of 3, no faults | NothingAcceptedAfterStop | the poll clock stops after the router (app.go:674, against 664-666) |
| DispatcherFaults: 3 events, 1 attempt, no mishap | DeadLettersNeverReturn | two dead sinks announce each other's dead letters (app.go:995, against 986) |
| DispatcherFaults: sink `mail`, 1 event, 2 mishaps, all `retry` | SentIsFinal | Retry pressed on a row sent meanwhile (notify_store.go:331, against 323) |
| DispatcherFaults: sink `mail`, 1 event, mishap `read` | GivenUpForCause | a sink table that cannot be read once is a dead letter (app.go:1246, against dispatcher.go:31-32) |
| DispatcherFaults: sink `mail`, mishap `crash` | GivenUpIsTold | a crash between the dead letter and its announcement (dispatcher.go:235, against app.go:1266-1267) |
| EvaluatorFaults: 1 metric, `above`, `below`, `in`, no dwell, no faults, no crash, 9 units | EveryIncidentCloses | a flip across the band replaces an opened episode silently (breach.go:180, against 7-8) |
| EvaluatorFaults: 1 metric, `above`, `in`, dwell of 4, no faults, no crash, 9 units | AlertHasHeldInFull | up to a second early (breach.go:187, against 5-6) |
| EvaluatorFaults: 1 metric, `above`, `in`, no dwell, no faults, 9 units | NoResolutionWithoutOpening | a crash between saving and announcing; resolved later (breach.go:208, against breach_test.go:101) |
| EvaluatorFaults: 1 metric, `in`, `error`, no dwell, no faults, 9 units | OutageSaidOnce | an outage reported again after a restart (breach.go:142, against events.go:446, 458-459) |
| EvaluatorFaults: 1 metric, `text`, `error`, no dwell, no faults, no crash | DownMeansSilent | a device that answers text is unreachable (breach.go:134, against 127) |
| PollClockRace: `start`, `stop`, `update`, 3 clocks, 3 calls | StoppedStaysStopped | an update under way restarts what the user stopped (monitor.go:461, against 418) |
| PollClockRace: `start`, `stop`, `quit`, 2 clocks, 3 calls | NothingStoredAfterClose | a stop under way hides its clock from the shutdown (scheduler.go:413, against 409-410) |
| PollClockRace: `start`, `stop`, 2 clocks, 2 calls | ActiveIsRunning | overlapping start and stop (monitor.go:415, against 483) |
| PollClockRace: 1 caller, `start`, `stop`, `update`, 3 clocks, 3 calls, 1 fault | RestartedByUpdate | a failed read leaves the session stopped, and the call succeeds (monitor.go:463, against 459-460) |
| TrapListenerRace: no mishap | RememberedIsRunning | the users are remembered after the lock is released, in another order than they were applied (trapusers.go:33, against 11-12, 24-27) |
| TrapListenerRace: mishap `panic`, once | NeverAcknowledgedUnjournalled | an INFORM whose handler panics is acknowledged all the same (trap.go:310-334, against 454-455) |
| Window (as are all below), Events: 3 clicks | TimelineKeyed | the timeline of a session reads a page that holds an event and then hears it: two rows of one key, which Svelte throws on (AlertTimeline.svelte:44-57, against eventsStore.js:120-122) |
| Events: 3 clicks, two severities | RowsMatchFilter | a live event is listed whatever severity and text the page filters by |
| Events: 3 clicks | ShowsItsChips | two filters chosen in a row are answered in the other order |
| Events: 3 clicks | BadgeIsJournal, NothingSkipped, EmptyMeansNone | a count asked before a change is answered after it; a page asked before a cut; an answer of another filter |
| Events | EveryCutReachable | with two announcements behind, a page may hold the later event and not the earlier, which is then put on top: the list is out of order, and the cursor moved with the cut skips what was cut (eventsStore.js:239-251, "continues exactly where the visible list ends") |
| Charts | OthersNotDriven | a gesture on one session applies the last gesture of every other again (MonitorChart.svelte:482, against 481) |
| Charts | SameWindow | a chart that is built later starts at its own width (against chartSync.js:7-8) |
| Tiles | ColoursKept | a series changes its colour when data for another OID arrives (against chartPalette.js:75-77) |
| Panel | BandsFollowTheirOid | a removed row takes the band of the next (MonitorPanel.svelte, against 44-45) |
| Panel | HistoryShowsHistory, RemovedIsForgotten, CounterShowsRate | an empty answer shows live samples under a header of history; a removed session keeps its view; a counter typed before its first sample stays raw |
| Poll | RunningIsTheClock, ShowsWhatIsStored, LatestCredentials | commands that overlap leave the rows unlike what Go does |
| Trusted: 2 calls | UsersFollowSettings | two updates of the users are served in the other order |
| Trusted | WorkingUsersStay | a start with a locked keychain pushes blank passphrases (against trapStore.js:219-222) |
| Trusted | ShowsTheListener | a listener started at login is shown as stopped |
| Arrivals | OneLeadInAWindow, ShowsTheLastMinutes | a timer that is late lets two toasts lead; the time filter is not looked at again as time passes |
| Editor: `Module` is "a", nobody `Waits` | DiagnosticsOfTheText, OutlineOfTheText, SourceIsItsFile | an answer about a text that is gone; a save answered after another file was opened gives that file the saved text (mibEditorStore.js markSaved) |
| Editor: 6 clicks | DraftOfAnyFile | a file opened while another is being saved is shown with the saved text (mibEditorStore.js:267-273); reverted and edited, that text becomes its draft (against 183-186).  `crossed` remembers such files |
| Text: a browser that `Refuses` | UndoReturns | what the fallback inserts is not in the undo history (MibEditorPanel.svelte:431-438, 520-521) |
| Text | PopupOnItsWord | the popup keeps the range of a word that was edited since (MibEditorPanel.svelte:692-697, 748) |
| View: 6 characters | ScannersAgree | a word takes the dashes that follow it and the other scanner does not know words, so they disagree whether a comment begins (against MibEditorPanel.svelte:672-674) |
| Asks | RecordedWhateverCrosses, ValueOfItsNode, BusyWhileAsked | an operation is recorded with the form of the next one; a value fetched for one node fills the field of another; the first answer ends the waiting of all (OperationsPanel.svelte:588) |
| Tables: 2 walks, 3 loads, two shapes of one size | RowOfItsTable, DecodedAsWalked | the form of a row reads the table when it is sent, which may be another; as many variables are taken for the same variables, and keep the index of the walk before (ResultsDisplay.svelte:546) |
| Exports | DriftIsSeen, ErrorsReadBack | two different values that parse to the same number are the same; the line of an error is quoted twice (ResultsComparison.svelte:81, against docs/documentation.html:343-347) |
| History: 1 fault; calls served in any order | NewestFirst, AddedIsShown, DiffSeesEveryTarget, MirrorsTheTable | the legacy entries are stored newest first and read back reversed (storage.go:914); a table that cannot be read replaces what was added meanwhile; a difference of any target but the last is not seen; served in another order, an entry deleted comes back |
| Device: values with "huge" | FlaggedIsSaid, NewUserIsNew, TargetIsOfTheDevice, FormSaysAll | a tab flagged without a message (SimulatorModal.svelte:741-770, against simulator.js:73-77); a user added after one was removed takes a name there is; a device saved again leaves its target as it was; a value Go refuses is let through |
| Bench: lists in any order | ListIsTheBench, EditorIsKept, OneCallADevice, StopIsSaid | a save that ends closes the editor of another device (SimulatorModal.svelte:292-300, 367-379); a dialog opened again has two calls of a device under way; a recording stopped is said to have failed (240-268) |
| Bench: 4 clicks, 4 calls, 4 under way | EveryModelIsThere | a model imported or recorded is deleted before the list of models is read again, and is then given to the new device (SimulatorModal.svelte:232, 257, against 286) |
| Tree | FoundIsShownFiltered, KeysFollowRows, TwoNames, MatchIsExplained | with a filter on, navigation expands the originals while the rows are copies (MibPanel.svelte:143-152, 366-370); the keys step over nodes inside a chain drawn as one row (397-412); an index that begins with 0 loses it, and two OIDs get one name (mibTree.js:15, oidDisplay.js:57); of a chain only the first node says why it matched (TreeNode.svelte:108) |
| Library: 4 clicks, 1 fault, `c` imports `p` | EveryModuleIsShown, RootIsOffered, BrokenIsSaid, DroppedIsLoaded, CustomIsLoaded, NothingHangs, LoadingEnds | modules only a cycle reaches are in no root (mibGraph.js:32-37); the root chosen is kept when something imports it; a broken file looked at below another is only called not loaded (diagnose.go:401); a dropped file that is switched off is counted as loaded (App.svelte:279-291); the parser is never told of a custom directory (service.go:97); a file that imports into a cycle hangs the load (service.go:299-306, against cycle.go:11-23); a start that fails leaves the list loading, its button disabled |
| Notify | SavedAsShown, RowIsWhatIsStored, RulesNameLive, OneFormOneSink | recipients typed and abandoned are saved by the next edit, as the nested object is shared (NotifySettings.svelte:326, 634, 102); a cancelled edit stays in the list; a rule names a destination deleted meanwhile; a double save makes two |
| Notify: 6 clicks | EveryUnboundIsSaid | a form that does not know of the credential, as two saves of it cross or its row is read again late, unbinds it without a word (NotifySettings.svelte:111, against 106-110) |
| Notify: 2 `MaxNews` | SentOnce | Retry on a delivery sent meanwhile (notify_store.go:331) |
| Notify: not `Silent` | CredentialStays | the store refuses while the destination moves, and the old credential follows it (app.go:1446, against 1441) |

## 6. What is not modelled

Grouping several sinks in one outbox row, rendering, and the choice of sinks by rules
(a constant here).  Trims of the journal and of the outbox: with a watermark or an outbox
older than their horizons, events may be gone before a replay or be delivered again.  The
tray hook of the scheduler and the settings: `AutoResumeMonitors` is on and every session has
a connection.  The value arithmetic (rates, counter repair).  Of the traps: sending
them, the port and the read buffer of the socket, what a notification is turned into, and commands after
the stop of the shutdown.  Of the window: drawing,
wording, shortcuts, the shell (`App.svelte`), presets, discovery, the updater's banner, the
form that sends a trap, and the markup around what is modelled.
The parser of MIB files is a library: which modules a file gives is a constant.
Everything else listed as not modelled in `PROJECT.json`.

## 7. The plan

Done, in this order: EventRouter with AlertLedger and its proofs, Dispatcher with
DeliveryContract, Evaluator, SampleBuffer, PollClock, OverrunGuard with its proofs,
TrapListener; of the window PollWindow, MonitorView, Dashboard, ChartWindows,
EventsWindow, TrapUsers, TrapTail, Vault, Identities, NotifyDesk, MibEditor, EditorText,
SmiView, Operations, ResultTables, ResultExports, RequestHistory, SimulatorEditor,
SimulatorDesk, MibTree and MibFiles.

Next:

1. **Monitoring**: PollClock, SampleBuffer and Evaluator composed, for what only shows
   between them: a cleanup during a start (`storage.go:776`), episodes of a session that
   was stopped (`breach.go:178`), the order of the shutdown.
2. **Retention**: the trims (`events.go:159`, `notify_store.go:399`) beside router and
   replay.
3. **Routes** (`route.go`) and **Counters** (`counters.go`) as pure operators, against
   reference definitions over bounded inputs.
4. The window's shell, presets and discovery.
5. The parts of the window composed where they call each other: the tab a request is
   revealed in, the node an operation follows, the MIB a diagnosis opens.

Proofs: the modules outside the window are done, but for what no theorem can say (section
4), and of the window PollWindow, MonitorView, ChartWindows, EventsWindow, TrapTail,
RequestHistory, Vault, Identities, TrapUsers, NotifyDesk, MibEditor, EditorText, SimulatorDesk and Operations.
What
is next above comes with proofs of its own.
