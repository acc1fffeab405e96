---------------------------- MODULE ChartWindows ----------------------------
(***************************************************************************)
(* The time windows of the charts of the Monitor tab                       *)
(* (frontend/src/monitor/MonitorChart.svelte, frontend/src/monitor/        *)
(* chartSync.js).                                                          *)
(*                                                                         *)
(* A session is drawn as several charts, one above the other.  Each follows*)
(* the newest sample or is browsed, and a gesture on one reaches the others*)
(* of its session through a store every chart of the window listens to.    *)
(* Charts come and go with the tab, with a latency chart that can be put   *)
(* beside the others, and with the theme.                                  *)
(***************************************************************************)
EXTENDS Integers, FiniteSets

CONSTANTS
  Sessions, Facets,
  Companion,    \* the facet of the latency chart, whose options nothing keeps
  Timebases,    \* widths of a live window; 0 is the whole buffer
  Default,      \* the width of a chart without options
  Ranges,       \* what a zoom or a pan ends on
  None,
  MaxTime,      \* bound: samples
  MaxClicks     \* bound: gestures

Charts   == Sessions \X Facets
group(c) == c[1]

VARIABLES
  tab,         \* whether the Monitor tab is the active one
  companions,  \* the sessions whose latency chart is shown
  chart,       \* by chart: None, or [built, follow, windowMs, pin]
  chartOpts,   \* by chart: the width the panel keeps for it, None before the first
  chartSync,   \* by session: the last gesture, or None
  newest,      \* by session: the time of its last sample
  clicks

vars == <<tab, companions, chart, chartOpts, chartSync, newest, clicks>>

Click == clicks < MaxClicks /\ clicks' = clicks + 1

\* What the panel puts on the screen.
Placed(t, comp) == {c \in Charts : t /\ (c[2] = Companion => c[1] \in comp)}

\* A chart that is not pinned shows all it has.
Shown(c, x, t) == IF x.pin = None THEN [min |-> 0, max |-> t[group(c)]] ELSE x.pin
Built(f) == {c \in Charts : f[c] # None /\ f[c].built}

-----------------------------------------------------------------------------
\* Pinned to the leading edge while it follows, and untouched otherwise.
applyWindow(x, last) ==
  IF ~x.follow THEN x
  ELSE [x EXCEPT !.pin = IF x.windowMs = 0 THEN None ELSE [min |-> last - x.windowMs, max |-> last]]

\* What the zoom plugin's reset reports is not taken for a gesture.  A
\* plausible bug, that takes it for one: the button can never re-arm.
Rearmed(x, last) == [applyWindow([x EXCEPT !.follow = TRUE], last) EXCEPT !.follow = FALSE]
goLive(x, last) ==
  IF x.built THEN applyWindow([x EXCEPT !.follow = TRUE, !.pin = None], last) ELSE [x EXCEPT !.follow = TRUE]

\* What a chart does of an entry of its own group that it did not make.
Followed(c, x, entry, t) ==
  IF entry.live THEN goLive([x EXCEPT !.windowMs = entry.windowMs], t[group(c)])
  ELSE IF Shown(c, x, t) = entry.range THEN [x EXCEPT !.follow = FALSE]
  ELSE [x EXCEPT !.follow = FALSE, !.pin = entry.range]

\* Every chart hears of every change of the store.
Heard(f, sync) ==
  [c \in Charts |->
     IF c \notin Built(f) \/ sync[group(c)] = None \/ sync[group(c)].source = c THEN f[c]
     ELSE Followed(c, f[c], sync[group(c)], newest)]

Broadcast(c, entry, f) ==
  /\ chartSync' = [chartSync EXCEPT ![group(c)] = entry]
  /\ chart' = Heard(f, chartSync')

\* The panel keeps the width of every chart but the companion's.
KeepOptions ==
  chartOpts' = [c \in Charts |->
    IF c[2] # Companion /\ chart'[c] # None THEN chart'[c].windowMs ELSE chartOpts[c]]

-----------------------------------------------------------------------------
publishRange ==
  \E c \in Built(chart), r \in Ranges :
    /\ Click
    /\ Broadcast(c, [source |-> c, live |-> FALSE, range |-> r],
                 [chart EXCEPT ![c].follow = FALSE, ![c].pin = r])
    /\ UNCHANGED <<tab, companions, chartOpts, newest>>

\* LIVE and the reset of the zoom.
resetZoom ==
  \E c \in {d \in Charts : chart[d] # None} :
    /\ Click
    /\ Broadcast(c, [source |-> c, live |-> TRUE, windowMs |-> chart[c].windowMs],
                 [chart EXCEPT ![c] = goLive(@, newest[group(c)])])
    /\ KeepOptions
    /\ UNCHANGED <<tab, companions, newest>>

setTimebase ==
  \E c \in {d \in Charts : chart[d] # None}, ms \in Timebases :
    /\ Click
    /\ Broadcast(c, [source |-> c, live |-> TRUE, windowMs |-> ms],
                 [chart EXCEPT ![c] = goLive([@ EXCEPT !.windowMs = ms], newest[group(c)])])
    /\ KeepOptions
    /\ UNCHANGED <<tab, companions, newest>>

\* A sample redraws the charts of its session.
refresh ==
  \E s \in Sessions :
    /\ newest[s] < MaxTime
    /\ newest' = [newest EXCEPT ![s] = @ + 1]
    /\ chart' = [c \in Charts |-> IF c \in Built(chart) /\ group(c) = s
                                    THEN applyWindow(chart[c], newest'[s]) ELSE chart[c]]
    /\ UNCHANGED <<tab, companions, chartOpts, chartSync, clicks>>

\* A canvas is only drawn on a frame after its chart was put on the screen.
create ==
  \E c \in Charts :
    /\ chart[c] # None /\ ~chart[c].built
    /\ chart' = [chart EXCEPT ![c] = applyWindow([@ EXCEPT !.built = TRUE], newest[group(c)])]
    /\ UNCHANGED <<tab, companions, chartOpts, chartSync, newest, clicks>>

\* The colours or the axes change: every chart is built again, on no zoom.
rebuild ==
  /\ Click
  /\ Built(chart) # {}
  /\ chart' = [c \in Charts |-> IF c \in Built(chart)
                                  THEN applyWindow([chart[c] EXCEPT !.pin = None], newest[group(c)]) ELSE chart[c]]
  /\ UNCHANGED <<tab, companions, chartOpts, chartSync, newest>>

Mounted(c) ==
  [built |-> FALSE, follow |-> TRUE, pin |-> None,
   windowMs |-> IF chartOpts[c] = None THEN Default ELSE chartOpts[c]]

\* Going in or out of the tab, and putting a latency chart on or off.
Place(t, comp) ==
  /\ Click
  /\ tab' = t /\ companions' = comp
  /\ chart' = [c \in Charts |-> IF c \notin Placed(t, comp) THEN None
                                ELSE IF chart[c] = None THEN Mounted(c) ELSE chart[c]]
  /\ KeepOptions
  /\ UNCHANGED <<chartSync, newest>>

switchTab == Place(~tab, companions)
toggleLatency ==
  \E s \in Sessions :
    tab /\ Place(tab, IF s \in companions THEN companions \ {s} ELSE companions \cup {s})

Init ==
  /\ tab = FALSE /\ clicks = 0
  /\ companions \in SUBSET Sessions
  /\ chart = [c \in Charts |-> None]
  /\ chartOpts \in [Charts -> {None, CHOOSE b \in Timebases : b # Default}]
  /\ \A c \in Charts : c[2] = Companion => chartOpts[c] = None
  /\ chartSync = [s \in Sessions |-> None]
  /\ newest = [s \in Sessions |-> 1]

Next ==
  \/ publishRange \/ resetZoom \/ setTimebase
  \/ refresh \/ create \/ rebuild \/ switchTab \/ toggleLatency

Spec == Init /\ [][Next]_vars

-----------------------------------------------------------------------------
\* Two charts of a session show one stretch of time, live or not.
Agree(c, d) ==
  /\ chart[c].follow = chart[d].follow
  /\ Shown(c, chart[c], newest) = Shown(d, chart[d], newest)

\* A gesture leaves the charts of its session together: whatever they showed
\* before, all that are drawn take the window of the one it was made on, and
\* LIVE re-arms every one of them (MonitorChart.svelte:466-508, 611-634).
GestureOn(s) == chartSync'[s] # chartSync[s]
GathersGroup ==
  \A s \in Sessions : GestureOn(s) =>
    \A c, d \in Charts : c = chartSync'[s].source =>
      /\ chart'[c].follow = chartSync'[s].live
      /\ c \in Built(chart) /\ d \in Built(chart) /\ group(d) = s => Agree(c, d)'
GroupTogether == [][GathersGroup]_vars

\* "Follow the group's window when a sibling chart drives it"
\* (MonitorChart.svelte:481): a gesture on a session moves no other session.
SparesOthers ==
  \A s \in Sessions : GestureOn(s) => \A c \in Charts : group(c) # s => chart'[c] = chart[c]
OthersNotDriven == [][SparesOthers]_vars

\* By hand: "they stay on the SAME time window" (chartSync.js:7-8).
SameWindow == \A c, d \in Built(chart) : group(c) = group(d) => Agree(c, d)
=============================================================================
