----------------------------- MODULE Dashboard -----------------------------
(***************************************************************************)
(* What the Monitor tab and the dashboard draw of the samples kept in      *)
(* memory (frontend/src/monitor/MonitorChart.svelte, MetricTiles.svelte,   *)
(* StatusTile.svelte, MapTile.svelte, ChannelsModal.svelte,                *)
(* DashboardPanel.svelte, utils/chartPalette.js, dashboardGroup.js,        *)
(* seriesStats.js, stateColour.js, thresholdAlerts.js).                    *)
(*                                                                         *)
(* Samples arrive one at a time and the oldest fall out of the buffer; the *)
(* charts, the tiles, the wall, the map and the channel picker each work   *)
(* out what they show from what is left.                                   *)
(***************************************************************************)
EXTENDS Integers, FiniteSets, SequencesExt

CONSTANTS
  Targets, Oids, Readings,
  Files,       \* presets, as they were when they were bound
  Palette,     \* MAX_SERIES
  Cap,         \* rounds a session keeps
  MaxRounds,   \* bound: rounds
  MaxClicks    \* bound: clicks

Failed == -1                 \* a poll without an answer
Band   == [min |-> 0, max |-> 1]

VARIABLES
  sessions,   \* a sequence of [id, file, targets, oids, results]
  selection,  \* dashboardStore: a session id or a group
  hidden,     \* the series taken off the plot
  layout,     \* "separate" or "stacked"
  clock,
  left        \* bound

vars == <<sessions, selection, hidden, layout, clock, left>>

Distinct(seq) == SelectSeq([i \in DOMAIN seq |-> [at |-> i, x |-> seq[i]]],
                   LAMBDA e : \A j \in 1..(e.at - 1) : seq[j] # e.x)
Firsts(seq)   == LET d == Distinct(seq) IN [i \in DOMAIN d |-> d[i].x]
OrNone(seq)   == IF seq = <<>> THEN {} ELSE {Last(seq)}

-----------------------------------------------------------------------------
(* The plan every view draws from (chartPalette.js). *)

Key(target, oid) == <<target, oid>>
PointsOf(results, oid) == SelectSeq(results, LAMBDA r : r.oid = oid)
Series(results, target, oid) == SelectSeq(results, LAMBDA r : r.oid = oid /\ r.target = target)

\* In the order the targets answered; the configured ones before any has.
targetsFor(s, oid) ==
  LET mine == PointsOf(s.results, oid)
      seen == Firsts([i \in DOMAIN mine |-> mine[i].target])
  IN IF seen # <<>> THEN seen ELSE Firsts(s.targets)

seriesPlan(s, lay, oids) ==
  LET rows == [i \in DOMAIN oids |->
                [j \in DOMAIN targetsFor(s, oids[i]) |->
                  [oid |-> oids[i], target |-> targetsFor(s, oids[i])[j], slot |-> j - 1]]]
      flat == FlattenSeq(rows)
      slot(k) == IF lay = "stacked" THEN k - 1 ELSE flat[k].slot
  IN [k \in DOMAIN flat |-> [key |-> Key(flat[k].target, flat[k].oid), color |-> slot(k),
                             capped |-> slot(k) >= Palette]]

-----------------------------------------------------------------------------
(* MonitorChart.svelte.  Stacked, one plot of all; separate, one for each. *)

Data(s, key) == LET mine == Series(s.results, key[1], key[2])
                IN [i \in DOMAIN mine |-> [x |-> mine[i].at, y |-> mine[i].value]]

Lines(s, plan) ==
  {[key |-> it.key, color |-> it.color, data |-> Data(s, it.key)] :
     it \in {p \in ToSet(plan) : ~p.capped /\ p.key \notin hidden}}

buildStacked(s)       == Lines(s, seriesPlan(s, "stacked", s.oids))
buildDatasets(s, oid) == Lines(s, seriesPlan(s, "separate", <<oid>>))

Drawn(s) ==
  IF layout = "stacked" /\ Len(s.oids) > 1 THEN buildStacked(s)
  ELSE UNION {buildDatasets(s, o) : o \in ToSet(s.oids)}

\* The stretches of time in which every answer failed.
outageRanges(results) ==
  LET at(t)   == {r \in ToSet(results) : r.at = t}
      stamps  == {r.at : r \in ToSet(results)}
      down(t) == \A r \in at(t) : r.value = Failed
      before(t) == {u \in stamps : u < t}
      after(t)  == {u \in stamps : u > t}
      starts == {t \in stamps : down(t) /\ (before(t) = {} \/ ~down(CHOOSE u \in before(t) : \A v \in before(t) : v <= u))}
      ends   == {t \in stamps : down(t) /\ (after(t) = {} \/ ~down(CHOOSE u \in after(t) : \A v \in after(t) : v >= u))}
  IN {[from |-> f, to |-> CHOOSE e \in ends : e >= f /\ \A d \in ends : d >= f => d >= e] : f \in starts}

-----------------------------------------------------------------------------
(* MetricTiles.svelte, seriesStats.js and thresholdAlerts.js. *)

Answers(points) == SelectSeq(points, LAMBDA r : r.value # Failed)

computeStats(points) ==
  LET vals == {r.value : r \in ToSet(Answers(points))}
  IN [count  |-> Len(Answers(points)),
      errors |-> Len(points) - Len(Answers(points)),
      last   |-> {r.value : r \in OrNone(Answers(points))},
      min    |-> {v \in vals : \A w \in vals : v <= w},
      max    |-> {v \in vals : \A w \in vals : v >= w}]

\* A bound of 0 is a bound; a value on it is inside.
classify(value, band) ==
  CASE value < band.min -> "below" [] value > band.max -> "above" [] OTHER -> "inside"

\* A plausible bug, and what it used to be: the slot worked out from sizes.
SlotBySizes(s, lay, oids) ==
  LET all == Firsts([i \in DOMAIN s.results |-> s.results[i].target])
      flat == FlattenSeq([i \in DOMAIN oids |->
                [j \in DOMAIN all |-> [key |-> Key(all[j], oids[i]), capped |-> FALSE,
                                       color |-> IF lay = "stacked" THEN (i - 1) * Len(all) + j - 1 ELSE j - 1]]])
  IN flat
TilePlan(s, lay, oids) == seriesPlan(s, lay, oids)

buildTiles(s) ==
  {[key    |-> it.key,
    color  |-> it.color,
    stats  |-> computeStats(Series(s.results, it.key[1], it.key[2])),
    red    |-> \E r \in OrNone(Answers(Series(s.results, it.key[1], it.key[2]))) : classify(r.value, Band) # "inside",
    failing |-> Last(Series(s.results, it.key[1], it.key[2])).value = Failed] :
     it \in {p \in ToSet(TilePlan(s, IF Len(s.oids) > 1 THEN layout ELSE "separate", s.oids)) :
               ~p.capped /\ p.key \notin hidden /\ Series(s.results, p.key[1], p.key[2]) # <<>>}}

\* ChannelsModal.svelte: every series, drawn or not, and its swatch.
buildChannels(s) ==
  LET plan == seriesPlan(s, layout, Firsts(s.oids))
  IN {[key |-> it.key, color |-> it.color, capped |-> it.capped] : it \in ToSet(plan)}

-----------------------------------------------------------------------------
(* Several equipments on one dashboard (dashboardGroup.js). *)

\* Two sessions are one dashboard when their presets draw the same.
groupKey(s) == s.file
Group(file) == <<"group", file>>
Members(file) == SelectSeq(sessions, LAMBDA s : groupKey(s) = file)
dashboardGroups == {f \in Files : Len(Members(f)) > 1}

Union(seqs) == Firsts(FlattenSeq(seqs))
mergeGroup(list) ==
  [id      |-> Group(list[1].file),
   file    |-> list[1].file,
   targets |-> Union([i \in DOMAIN list |-> list[i].targets]),
   oids    |-> Union([i \in DOMAIN list |-> list[i].oids]),
   results |-> FlattenSeq([i \in DOMAIN list |-> list[i].results])]

\* The selection, while it exists, or the first session with a preset.
dashboardView ==
  LET named == SelectSeq(sessions, LAMBDA s : s.id = selection)
      groups == {f \in dashboardGroups : selection = Group(f)}
  IN IF groups # {} THEN {mergeGroup(Members(CHOOSE f \in groups : TRUE))}
     ELSE IF named # <<>> THEN {named[1]}
     ELSE IF sessions # <<>> THEN {sessions[1]} ELSE {}

\* A wall of states, one block for each equipment.
OneBlock(points, targets, oids) == {[targets |-> ToSet(targets), oids |-> ToSet(oids), points |-> points]}
statusBlocks(points, targets, oids) ==
  IF Len(targets) < 2 THEN OneBlock(points, targets, oids)
  ELSE {LET mine == SelectSeq(points, LAMBDA r : r.target = t /\ r.oid \in ToSet(oids))
        IN [targets |-> {t}, points |-> mine,
            oids |-> {o \in ToSet(oids) : mine = <<>> \/ PointsOf(mine, o) # <<>>}] : t \in ToSet(targets)}

\* The newest by its time; of two at one time, the first.
latestFor(oid, points) ==
  LET mine == PointsOf(points, oid)
  IN {mine[i] : i \in {k \in DOMAIN mine : \A j \in DOMAIN mine :
        mine[j].at < mine[k].at \/ (mine[j].at = mine[k].at /\ j >= k)}}

\* stateColour.js: what a cell or a shape says.
stateKind(points) ==
  IF points = {} THEN "unknown"
  ELSE LET r == CHOOSE p \in points : TRUE
       IN CASE r.value = Failed -> "failed" [] r.value = 0 -> "good" [] OTHER -> "bad"

wall(s) == {[target |-> b.targets, oid |-> o, says |-> stateKind(latestFor(o, b.points))] :
              <<b, o>> \in {<<b, o>> \in statusBlocks(s.results, s.targets, s.oids) \X Oids : o \in b.oids}}

\* A drawing is of one equipment: of a group, the first.
forFirst(s) == IF Len(s.targets) < 2 THEN s.results
               ELSE SelectSeq(s.results, LAMBDA r : r.target = s.targets[1])
map(s) == {[target |-> {s.targets[1]}, oid |-> o, says |-> stateKind(latestFor(o, forFirst(s)))] : o \in ToSet(s.oids)}

-----------------------------------------------------------------------------
keepLast(seq, n) == IF Len(seq) > n THEN SubSeq(seq, Len(seq) - n + 1, Len(seq)) ELSE seq

\* The answers of one round, target by target in the order they came.
Answered(order, oids, at, values) ==
  FlattenSeq([j \in DOMAIN order |->
    [i \in DOMAIN oids |-> [target |-> order[j], oid |-> oids[i], at |-> at, value |-> values[<<order[j], oids[i]>>]]]])
Orders(s)  == {o \in [DOMAIN s.targets -> ToSet(s.targets)] : ToSet(o) = ToSet(s.targets)}
Outcomes(s) == [ToSet(s.targets) \X ToSet(s.oids) -> Readings]

\* A round of a session arrives whole; the buffer is cut by samples.
Round ==
  \E i \in DOMAIN sessions : \E order \in Orders(sessions[i]), values \in Outcomes(sessions[i]) :
    /\ left.round > 0 /\ left' = [left EXCEPT !.round = @ - 1]
    /\ clock' = clock + 1
    /\ LET s == sessions[i]
       IN sessions' = [sessions EXCEPT ![i].results =
            keepLast(@ \o Answered(order, s.oids, clock', values), Cap * Len(s.targets) * Len(s.oids))]
    /\ UNCHANGED <<selection, hidden, layout>>

Click == left.click > 0 /\ left' = [left EXCEPT !.click = @ - 1]

select ==
  /\ Click
  /\ selection' \in {s.id : s \in ToSet(sessions)} \cup {Group(f) : f \in dashboardGroups}
  /\ UNCHANGED <<sessions, hidden, layout, clock>>

toggle ==
  \E s \in ToSet(sessions) : \E c \in buildChannels(s) :
    /\ Click
    /\ hidden' = IF c.key \in hidden THEN hidden \ {c.key} ELSE hidden \cup {c.key}
    /\ UNCHANGED <<sessions, selection, layout, clock>>

setLayout ==
  /\ Click
  /\ layout' = IF layout = "stacked" THEN "separate" ELSE "stacked"
  /\ UNCHANGED <<sessions, selection, hidden, clock>>

removeSession ==
  \E i \in DOMAIN sessions :
    /\ Click
    /\ sessions' = RemoveAt(sessions, i)
    /\ UNCHANGED <<selection, hidden, layout, clock>>

\* A session of two targets, and two bound from one preset to a target each,
\* or from a preset that was edited between the two.  What a session read back
\* at the start may begin within a round.
Row(n, f, ts) == [id |-> <<"session", n>>, file |-> f, targets |-> ts, oids |-> SetToSeq(Oids), results |-> <<>>]
ReadBack(s) ==
  {[s EXCEPT !.results = keepLast(Answered(s.targets, s.oids, 0, v), n)] :
     v \in {[k \in Targets \X Oids |-> r] : r \in Readings}, n \in 0..(Len(s.targets) * Len(s.oids))}
Init ==
  /\ LET ts == SetToSeq(Targets)
         f  == CHOOSE x \in Files : TRUE
     IN \/ \E s \in ReadBack(Row("1", f, ts)) : sessions = <<s>>
        \/ \E g \in Files : sessions = <<Row("1", f, <<ts[1]>>), Row("2", g, Tail(ts))>>
  /\ selection = Group(CHOOSE f \in Files : TRUE)
  /\ hidden = {} /\ layout \in {"separate", "stacked"} /\ clock = 0
  /\ left = [round |-> MaxRounds, click |-> MaxClicks]

Next == Round \/ select \/ toggle \/ setLayout \/ removeSession

Spec == Init /\ [][Next]_vars

-----------------------------------------------------------------------------
Views == ToSet(sessions) \cup dashboardView

\* The swatch of a tile, of the channel picker and the line of the chart are
\* one colour: three components place the series by themselves, around targets
\* that answered for one OID and not for another (chartPalette.js:52-73).
SwatchIsTheLine ==
  \A s \in ToSet(sessions) :
    /\ \A tile \in buildTiles(s) :
         \E line \in Drawn(s) : line.key = tile.key /\ line.color = tile.color
    /\ \A line \in Drawn(s) : line.data # <<>> =>
         \E tile \in buildTiles(s) : tile.key = line.key
    /\ \A line \in Drawn(s) :
         \E c \in buildChannels(s) : c.key = line.key /\ c.color = line.color

\* A cell of the wall says what its own equipment answered last, and the map
\* says the same of the equipment it draws, however the sessions of the group
\* answer around each other (dashboardGroup.js:164-206, MapTile.svelte:59-71).
CellIsItsEquipment ==
  \A s \in dashboardView :
    /\ \A cell \in wall(s) : \A t \in cell.target :
         Len(s.targets) > 1 =>
           cell.says = stateKind(latestFor(cell.oid, SelectSeq(s.results, LAMBDA r : r.target = t)))
    /\ \A shape \in map(s), cell \in wall(s) :
         shape.oid = cell.oid /\ shape.target = cell.target => shape.says = cell.says

\* An outage is shaded where nothing answered and nowhere else, and a line has
\* a hole where a poll failed (MonitorChart.svelte:225-310).
OutagesAreShaded ==
  \A s \in ToSet(sessions) : \A r \in ToSet(s.results) :
    (\E o \in outageRanges(s.results) : o.from <= r.at /\ r.at <= o.to)
      <=> \A q \in ToSet(s.results) : q.at = r.at => q.value = Failed

\* By hand: "a series keeps its colour when data for another OID starts
\* arriving" (chartPalette.js:75-77).
KeepsColours ==
  \A i \in DOMAIN sessions : clock' # clock =>
    \A a \in ToSet(seriesPlan(sessions[i], layout, sessions[i].oids)),
       b \in ToSet(seriesPlan(sessions'[i], layout, sessions[i].oids)) : a.key = b.key => a.color = b.color
ColoursKept == [][KeepsColours]_vars
=============================================================================
