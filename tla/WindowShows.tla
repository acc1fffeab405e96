----------------------------- MODULE WindowShows -----------------------------
(***************************************************************************)
(* The parts of the window that show something and ask for it, side by     *)
(* side: the sessions, their rows and charts, the events and traps, what   *)
(* was asked, and the guard whose announcements are shown.  They share no  *)
(* state: each keeps stores of its own, which are Null while a behaviour   *)
(* is not about it.  Here is what they promise together.                   *)
(***************************************************************************)
EXTENDS OverrunGuard

CONSTANTS
  Null,        \* no value, and a part that is left out
  InOrder,     \* does Go answer in the order it is asked?
  SessionIds, Cap, MaxSamples, MaxCommands, PollFaults,                       \* PollWindow
  Oids, Bands, Polled, Started, Hole, MaxRows, PanelClicks,                   \* MonitorView
  Sessions, Facets, Companion, Timebases, Standard, Ranges, MaxTime, ChartClicks,  \* ChartWindows
  Kinds, Filters, Incidents, Limit, MaxLive, MaxEvents, MaxBehind, MaxCalls, EventClicks,  \* EventsWindow
  Gates, Width, TrapKinds, Recent, MaxTraps, MaxArrivals, MaxWall, TailClicks,  \* TrapTail
  OldLog, PAGE_SIZE, MAX_HISTORY_ENTRIES, Targets, Content, MaxEntries, HistoryClicks,
  HistoryFaults, HistoryRestarts                                              \* RequestHistory

VARIABLES
  rows, phase, loading, secret, calls, chan, go, purse,
  store, blob, mounted, sessions, starting, history, presses,
  tab, companions, chart, chartOpts, chartSync, newest, gestures,
  journal, announced, stored, pending, view, chips, badge, timeline, clicks,
  gate, said, eligible, wall, traps, tailed, filter, visible, focused, confirm, seen, moves,
  table, local, requests, stage, mirror, numbered, panel, highlight, gone, allowance

Poll == INSTANCE PollWindow WITH Ids <- SessionIds, MaxFaults <- PollFaults, boot <- phase, budget <- purse

Panel == INSTANCE MonitorView WITH
  Targets <- Polled, Ids <- Started, None <- Null, MaxClicks <- PanelClicks, clicks <- presses

Charts == INSTANCE ChartWindows WITH Default <- Standard, None <- Null, MaxClicks <- ChartClicks, clicks <- gestures

Events == INSTANCE EventsWindow WITH None <- Null, MaxClicks <- EventClicks, calls <- pending

Arrivals == INSTANCE TrapTail WITH
  Kinds <- TrapKinds, None <- Null, MaxClicks <- TailClicks, shown <- tailed, clicks <- moves

History == INSTANCE RequestHistory WITH
  Legacy <- OldLog, None <- Null,
  MaxClicks <- HistoryClicks, MaxFaults <- HistoryFaults, MaxRestarts <- HistoryRestarts,
  calls <- requests, boot <- stage, made <- numbered, budget <- allowance

-----------------------------------------------------------------------------
\* A row never shows a sample twice nor out of order, one monitoring has one
\* row, and a history is of one kind, whatever is loaded, started and answered
\* around them (pollingStore.js, MonitorPanel.svelte).
RowsAreTheSessions ==
  /\ rows # Null => Poll!EachSampleOnceInOrder /\ Poll!OneRowPerSession
  /\ store # Null => Panel!HistoryIsOneKind

\* One row for each event, and no notification is passed over in silence, with
\* pages, announcements and timers crossing (eventsStore.js, burst.js).
NewsIsToldOnce ==
  /\ journal # Null => Events!KeyedRows
  /\ gate # Null => Arrivals!TailReported

\* The list of requests is the part of the table it has read, and what is
\* deleted stays deleted, whatever was being read (historyStore.js, storage.go).
HistoryIsTheTable == table # Null => History!MirrorsTheTable /\ History!DeletedStaysDeleted

\* What somebody chose stands: a view, the window a group of charts is on, the
\* rows the cap takes away (they can be paged back in), the page an entry is
\* looked for on (MonitorPanel.svelte, MonitorChart.svelte, eventsStore.js,
\* HistoryPanel.svelte).
ChoicesStand ==
  [][/\ store # Null => [Panel!FightsNoChoice]_Panel!vars
     /\ chart # Null => [Charts!GathersGroup]_Charts!vars
     /\ journal # Null => [Events!CutsReachably]_Events!vars
     /\ table # Null => [History!Reveals]_History!vars
    ]_<<Panel!vars, Charts!vars, Events!vars, History!vars>>
=============================================================================
