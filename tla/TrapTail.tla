------------------------------- MODULE TrapTail -------------------------------
(***************************************************************************)
(* The notifications as the window shows them: the list of the Traps tab   *)
(* (frontend/src/stores/trapStore.js, frontend/src/TrapPanel.svelte) and   *)
(* the two gates that stand before a toast and before a notification of    *)
(* the desktop (frontend/src/utils/burst.js).                              *)
(*                                                                         *)
(* A gate reads the wall clock and its timer does not: either may be ahead *)
(* of the other, and a timer may be late behind other work.                *)
(***************************************************************************)
EXTENDS Integers, FiniteSets, SequencesExt

CONSTANTS
  Gates,      \* "toast" and "native"
  Width,      \* by gate: windowMs
  Kinds,      \* what a notification may be filtered by
  Recent,     \* how far back the time filter looks
  None,
  MaxTraps,   \* the cap of the list
  MaxArrivals, MaxWall, MaxClicks   \* bounds: notifications, clock, clicks

VARIABLES
  gate,      \* by gate: [ends, suppressed, timer]; the timer is what is left to run, or None
  said,      \* by gate: [led, summed]
  eligible,  \* by gate: what was offered to it
  wall,
  traps,     \* [id, kind, at], newest first
  shown,     \* filteredTraps, as it was last worked out
  filter,    \* [kind, recent]
  visible,   \* the Traps tab is the one on the screen
  focused,   \* the window has the focus
  confirm,   \* the button says that a second click clears
  seen, clicks

vars == <<gate, said, eligible, wall, traps, shown, filter, visible, focused, confirm, seen, clicks>>

Click == clicks < MaxClicks /\ clicks' = clicks + 1

-----------------------------------------------------------------------------
(* burst.js. *)

Offered(g, width) ==
  IF wall >= g.ends
  THEN [g EXCEPT !.ends = wall + width, !.timer = IF @ = None THEN width ELSE @]
  ELSE [g EXCEPT !.suppressed = @ + 1]
Leads(g) == wall >= g.ends

\* The window is over: the next event leads a new one.
\* A plausible bug: the window left open, with no timer to close it.
FlushKeepsWindow(g) == [g EXCEPT !.timer = None, !.suppressed = 0]
flush(g) == [g EXCEPT !.timer = None, !.suppressed = 0, !.ends = 0]

offer(asked) ==
  /\ gate' = [g \in Gates |-> IF g \in asked THEN Offered(gate[g], Width[g]) ELSE gate[g]]
  /\ said' = [g \in Gates |-> IF g \in asked /\ Leads(gate[g]) THEN [said[g] EXCEPT !.led = @ + 1] ELSE said[g]]
  /\ eligible' = [g \in Gates |-> IF g \in asked THEN eligible[g] + 1 ELSE eligible[g]]

onSummary ==
  \E g \in Gates :
    /\ gate[g].timer # None /\ gate[g].timer = 0
    /\ gate' = [gate EXCEPT ![g] = flush(@)]
    /\ said' = [said EXCEPT ![g].summed = @ + gate[g].suppressed]
    /\ UNCHANGED <<eligible, wall, traps, shown, filter, visible, focused, confirm, seen, clicks>>

\* Time passes, and the wall clock with it, or less, or more.
Tick ==
  \E d \in 0..2 :
    /\ wall + d <= MaxWall /\ wall' = wall + d
    /\ gate' = [g \in Gates |-> IF gate[g].timer \in {None, 0} THEN gate[g] ELSE [gate[g] EXCEPT !.timer = @ - 1]]
    /\ d = 0 => gate' # gate
    /\ UNCHANGED <<said, eligible, traps, shown, filter, visible, focused, confirm, seen, clicks>>

-----------------------------------------------------------------------------
Filtered(list, f) ==
  SelectSeq(list, LAMBDA t : (f.kind = None \/ t.kind = f.kind) /\ (f.recent => t.at >= wall - Recent))

\* A plausible bug: the gate of the desktop asked before it is known that
\* the window has no focus.
AskedAnyway  == {"native"} \cup (IF visible THEN {} ELSE {"toast"})
Asked == (IF focused THEN {} ELSE {"native"}) \cup (IF visible THEN {} ELSE {"toast"})

newTrap ==
  \E k \in Kinds :
    /\ seen < MaxArrivals /\ seen' = seen + 1
    /\ offer(Asked \cap Gates)
    /\ LET all == <<[id |-> seen', kind |-> k, at |-> wall]>> \o traps
       IN traps' = SubSeq(all, 1, IF Len(all) > MaxTraps THEN MaxTraps ELSE Len(all))
    /\ shown' = Filtered(traps', filter)
    /\ UNCHANGED <<wall, filter, visible, focused, confirm, clicks>>

setFilter ==
  \E k \in Kinds \cup {None}, r \in BOOLEAN :
    /\ visible /\ Click
    /\ filter' = [kind |-> k, recent |-> r]
    /\ shown' = Filtered(traps, filter')
    /\ UNCHANGED <<gate, said, eligible, wall, traps, visible, focused, confirm, seen>>

\* The first click asks, the second clears; a timer takes the question back.
handleClear ==
  /\ visible /\ traps # <<>> /\ Click
  /\ confirm' = ~confirm
  /\ IF confirm THEN traps' = <<>> /\ shown' = <<>> ELSE UNCHANGED <<traps, shown>>
  /\ UNCHANGED <<gate, said, eligible, wall, filter, visible, focused, seen>>
ConfirmEnds ==
  /\ confirm /\ confirm' = FALSE
  /\ UNCHANGED <<gate, said, eligible, wall, traps, shown, filter, visible, focused, seen, clicks>>

\* A panel that comes back has no filter; what it shows is worked out again.
setPanelVisibility ==
  /\ Click
  /\ visible' = ~visible
  /\ filter' = [kind |-> None, recent |-> FALSE]
  /\ shown' = Filtered(traps, filter') /\ confirm' = FALSE
  /\ UNCHANGED <<gate, said, eligible, wall, traps, focused, seen>>
setWindowFocus ==
  /\ Click /\ focused' = ~focused
  /\ UNCHANGED <<gate, said, eligible, wall, traps, shown, filter, visible, confirm, seen>>

Init ==
  /\ gate = [g \in Gates |-> [ends |-> 0, suppressed |-> 0, timer |-> None]]
  /\ said = [g \in Gates |-> [led |-> 0, summed |-> 0]]
  /\ eligible = [g \in Gates |-> 0] /\ wall = 0
  /\ traps = <<>> /\ shown = <<>> /\ filter = [kind |-> None, recent |-> FALSE]
  /\ visible = FALSE /\ focused \in BOOLEAN /\ confirm = FALSE /\ seen = 0 /\ clicks = 0

Next ==
  \/ onSummary \/ Tick \/ newTrap \/ setFilter \/ handleClear \/ ConfirmEnds
  \/ setPanelVisibility \/ setWindowFocus

Spec == Init /\ [][Next]_vars

-----------------------------------------------------------------------------
\* No notification is passed over in silence: what a gate held back is in a
\* summary, or a timer that will say it is running, wherever the two clocks
\* stand (burst.js:14-18, :56-65).
TailReported ==
  \A g \in Gates :
    /\ gate[g].suppressed > 0 => gate[g].timer # None
    /\ said[g].led + said[g].summed + gate[g].suppressed = eligible[g]

\* By hand: one toast in a window of time, however many notifications come.
OneLeadInAWindow == [][\A g \in Gates : said'[g].led > said[g].led => gate[g].timer = None]_vars
\* By hand: the list shows the last minutes, as time passes.
ShowsTheLastMinutes == shown = Filtered(traps, filter)
=============================================================================
