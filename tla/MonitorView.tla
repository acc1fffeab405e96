---------------------------- MODULE MonitorView ----------------------------
(***************************************************************************)
(* The Monitor tab (frontend/src/MonitorPanel.svelte) and the preferences  *)
(* it leaves behind (frontend/src/stores/monitorViewStore.js).             *)
(*                                                                         *)
(* Leaving the tab destroys the panel, so everything an operator set is    *)
(* mirrored into a store at once and into localStorage 300 ms later.  Loads*)
(* of stored history, the samples and the answer to a start arrive while   *)
(* the operator goes on clicking.                                          *)
(***************************************************************************)
EXTENDS Integers, FiniteSets, SequencesExt

CONSTANTS
  Oids, Bands,   \* what is typed into a row: an OID, the bounds of its band
  Targets,
  Ids,           \* session ids, in the order Go gives them out
  Hole,          \* a place of the list of bands nothing was ever put in
  None,
  MaxRows,       \* MAX_OIDS
  MaxClicks      \* bound: clicks of the operator

Modes == {"raw", "delta", "rate"}

VARIABLES
  store,     \* monitorViewStore: the form and, by session, the view
  blob,      \* what localStorage holds of it
  mounted,   \* whether the tab is the active one
  sessions,  \* pollingStore: the type of each session's samples, None before the first
  starting,  \* a start that was not answered: sessions to come, sessions made; or None
  history,   \* by session: the loads, the points and buckets kept, what the header says
  clicks

vars == <<store, blob, mounted, sessions, starting, history, clicks>>

Click   == clicks < MaxClicks /\ clicks' = clicks + 1
form    == store.form
view    == store.view
NoBand  == ""
NoLoad  == [loading |-> {}, raw |-> FALSE, buckets |-> FALSE, info |-> None]
Fresh   == [mode |-> "raw", auto |-> FALSE, chosen |-> FALSE, extra |-> FALSE]

-----------------------------------------------------------------------------
(* The form: one row for each OID, and a band for a row by its position.   *)

thresholdAt(list, i) == IF i \in DOMAIN list /\ list[i] # Hole THEN list[i] ELSE NoBand
hasThreshold(list, i) == thresholdAt(list, i) # NoBand

\* A copy of the list has no holes; writing past its end leaves new ones.
Copied(list) == [j \in DOMAIN list |-> thresholdAt(list, j)]
patchThreshold(list, i, band) ==
  [j \in 1..(IF i > Len(list) THEN i ELSE Len(list)) |->
     IF j = i THEN band ELSE IF j \in DOMAIN list THEN Copied(list)[j] ELSE Hole]

\* filter() skips the holes: the bands behind one move up by more than a row.
withoutRow(list, i) ==
  LET kept == SelectSeq([j \in DOMAIN list |-> j], LAMBDA j : j # i /\ list[j] # Hole)
  IN [j \in DOMAIN kept |-> list[kept[j]]]

\* By OID; a row without an OID or without a band has no entry.
buildThresholdMap(oids, list) ==
  LET rows == {i \in DOMAIN oids : oids[i] # "" /\ hasThreshold(list, i)}
  IN [o \in {oids[i] : i \in rows} |->
        thresholdAt(list, CHOOSE i \in rows : oids[i] = o /\ \A j \in rows : oids[j] = o => j <= i)]

SetForm(f) == store' = [store EXCEPT !.form = f] /\ UNCHANGED <<blob, mounted, sessions, starting, history>>

typeOid ==
  \E i \in DOMAIN form.oids, o \in Oids :
    mounted /\ Click /\ SetForm([form EXCEPT !.oids[i] = o])

typeBand ==
  \E i \in DOMAIN form.oids, b \in Bands \cup {NoBand} :
    mounted /\ Click
    /\ SetForm([form EXCEPT !.bands = patchThreshold(@, i, b), !.of[i] = b])

addOid ==
  /\ mounted /\ Len(form.oids) < MaxRows /\ Click
  /\ SetForm([form EXCEPT !.oids = Append(@, ""), !.of = Append(@, NoBand)])

removeOid ==
  \E i \in DOMAIN form.oids :
    /\ mounted /\ Len(form.oids) > 1 /\ Click
    /\ SetForm([form EXCEPT !.oids = RemoveAt(@, i), !.of = RemoveAt(@, i), !.bands = withoutRow(@, i)])

toggleTarget ==
  \E t \in Targets :
    /\ mounted /\ Click
    /\ SetForm([form EXCEPT !.excluded = IF t \in @ THEN @ \ {t} ELSE @ \cup {t}])

setAllTargets ==
  /\ mounted /\ Click
  /\ SetForm([form EXCEPT !.excluded = IF @ # {} THEN {} ELSE Targets])

-----------------------------------------------------------------------------
(* Starting.  The sessions are made one after the other, and each is polled*)
(* from then on; the panel sets their view when all are made.              *)

ViewOf(v, id) == IF id \in DOMAIN v THEN v[id] ELSE Fresh
With(v, id, x) == [i \in DOMAIN v \cup {id} |-> IF i = id THEN x ELSE v[i]]

handleStartPolling ==
  /\ mounted /\ starting = None
  /\ \E i \in DOMAIN form.oids : form.oids[i] # ""
  /\ Targets \ form.excluded # {}
  /\ Click
  /\ \E groups \in 1..2 : starting' = [left |-> groups, made |-> {}]
  /\ UNCHANGED <<store, blob, mounted, sessions, history>>

FreeIds == {id \in Ids : id \notin DOMAIN sessions \cup DOMAIN view \cup DOMAIN history}

SessionCreated ==
  /\ starting # None /\ starting.left > 0 /\ FreeIds # {}
  /\ LET id == CHOOSE x \in FreeIds : \A y \in FreeIds : x <= y
     IN /\ sessions' = With(sessions, id, None)
        /\ history' = With(history, id, NoLoad)
        /\ starting' = [left |-> starting.left - 1, made |-> starting.made \cup {id}]
  /\ UNCHANGED <<store, blob, mounted, clicks>>

\* The defaults of a new session, over whatever it has by now.
StartAnswered ==
  /\ starting # None /\ (starting.left = 0 \/ FreeIds = {})
  /\ starting' = None
  /\ store' = IF mounted
       THEN [store EXCEPT !.view =
              [id \in DOMAIN view \cup starting.made |->
                 IF id \in starting.made
                   THEN [ViewOf(view, id) EXCEPT !.mode = "raw"] ELSE view[id]]]
       ELSE store
  /\ UNCHANGED <<blob, mounted, sessions, history, clicks>>

\* A counter is shown as its rate, once, when its type is first known.
AutoForgetful(v, typed) ==
  [id \in DOMAIN v \cup DOMAIN typed |->
     LET x == ViewOf(v, id)
     IN IF id \in DOMAIN typed /\ typed[id] = "counter" /\ x.mode = "raw"
          THEN [x EXCEPT !.auto = TRUE, !.mode = "rate"] ELSE x]
AutoModes(v, typed) ==
  LET first == {id \in DOMAIN typed : typed[id] # None /\ ~ViewOf(v, id).auto}
  IN [id \in DOMAIN v \cup first |->
        LET x == ViewOf(v, id)
        IN IF id \notin first THEN x
           ELSE [x EXCEPT !.auto = TRUE,
                          !.mode = IF typed[id] = "counter" /\ x.mode = "raw" THEN "rate" ELSE @]]

Sample ==
  \E id \in DOMAIN sessions, type \in {"counter", "gauge"} :
    /\ sessions[id] = None
    /\ sessions' = [sessions EXCEPT ![id] = type]
    /\ store' = IF mounted THEN [store EXCEPT !.view = AutoModes(view, sessions')] ELSE store
    /\ UNCHANGED <<blob, mounted, starting, history, clicks>>

-----------------------------------------------------------------------------
(* The cards of the sessions. *)

setViewMode ==
  \E id \in DOMAIN sessions, m \in Modes :
    /\ mounted /\ Click
    /\ LET x == ViewOf(view, id)
       IN store' = [store EXCEPT !.view = With(view, id, [x EXCEPT !.mode = m, !.chosen = x.auto])]
    /\ UNCHANGED <<blob, mounted, sessions, starting, history>>

\* Latency curve, statistics, history range: preferences a removal forgets.
toggleLatency ==
  \E id \in DOMAIN sessions :
    /\ mounted /\ Click
    /\ store' = [store EXCEPT !.view = With(view, id, [ViewOf(view, id) EXCEPT !.extra = ~@])]
    /\ UNCHANGED <<blob, mounted, sessions, starting, history>>

\* The store forgets the session; the panel, which keeps what it does not
\* name, writes the rest back.
handleRemove ==
  \E id \in DOMAIN sessions :
    /\ mounted /\ Click
    /\ LET x == ViewOf(view, id)
       IN store' = [store EXCEPT !.view =
            IF x.extra \/ x.auto THEN With(view, id, [x EXCEPT !.mode = "raw", !.chosen = FALSE])
            ELSE [i \in DOMAIN view \ {id} |-> view[i]]]
    /\ sessions' = [i \in DOMAIN sessions \ {id} |-> sessions[i]]
    /\ UNCHANGED <<blob, mounted, starting, history>>

\* A long range is read as buckets, a short one as points.  The button waits
\* for the load before.
AlwaysEnabled(h) == Cardinality(h.loading) < 2
LoadButton(h) == h.loading = {}

loadHistorical ==
  \E id \in DOMAIN sessions, kind \in {"raw", "buckets"} :
    /\ mounted /\ LoadButton(history[id]) /\ Click
    /\ history' = [history EXCEPT ![id].loading = @ \cup {kind}, ![id].raw = FALSE, ![id].buckets = FALSE]
    /\ UNCHANGED <<store, blob, mounted, sessions, starting>>

\* Nothing found, or the call refused: the header stays as it was.
HistoryAnswered ==
  \E id \in DOMAIN history : \E kind \in history[id].loading, found \in BOOLEAN :
    /\ LET h == [history[id] EXCEPT !.loading = @ \ {kind}]
       IN history' = [history EXCEPT ![id] =
            IF ~found THEN h
            ELSE IF kind = "raw" THEN [h EXCEPT !.raw = TRUE, !.info = kind]
            ELSE [h EXCEPT !.buckets = TRUE, !.info = kind]]
    /\ UNCHANGED <<store, blob, mounted, sessions, starting, clicks>>

clearHistorical ==
  \E id \in DOMAIN sessions :
    /\ mounted /\ history[id].info # None /\ Click
    /\ history' = [history EXCEPT ![id] = [NoLoad EXCEPT !.loading = history[id].loading]]
    /\ UNCHANGED <<store, blob, mounted, sessions, starting>>

\* What the chart under the header draws: without either, the live samples.
Drawn(h) == IF h.buckets THEN "buckets" ELSE IF h.raw THEN "raw" ELSE "live"

-----------------------------------------------------------------------------
(* The tab and the window.  A load belongs to the panel that began it.     *)

LeaveTab ==
  /\ mounted /\ Click
  /\ mounted' = FALSE
  /\ history' = [id \in DOMAIN history |-> NoLoad]
  /\ UNCHANGED <<store, blob, sessions, starting>>

EnterTab ==
  /\ ~mounted
  /\ mounted' = TRUE
  /\ store' = [form |-> [form EXCEPT !.bands = Copied(@)], view |-> AutoModes(view, sessions)]
  /\ UNCHANGED <<blob, sessions, starting, history, clicks>>

\* 300 ms without another change.
Persist ==
  /\ blob # store
  /\ blob' = store
  /\ UNCHANGED <<store, mounted, sessions, starting, history, clicks>>

Restart ==
  /\ Click
  /\ store' = blob
  /\ mounted' = FALSE
  /\ starting' = None
  /\ history' = [id \in DOMAIN history |-> NoLoad]
  /\ UNCHANGED <<blob, sessions>>

Init ==
  /\ store = [form |-> [oids |-> <<"">>, bands |-> <<>>, of |-> <<NoBand>>, excluded |-> {}], view |-> <<>>]
  /\ blob = store
  /\ mounted = TRUE
  /\ \E old \in {{}, {1}} :
       /\ sessions = [id \in old |-> None]
       /\ history = [id \in old |-> NoLoad]
  /\ starting = None
  /\ clicks = 0

Next ==
  \/ typeOid \/ typeBand \/ addOid \/ removeOid \/ toggleTarget \/ setAllTargets
  \/ handleStartPolling \/ SessionCreated \/ StartAnswered \/ Sample
  \/ setViewMode \/ toggleLatency \/ handleRemove
  \/ loadHistorical \/ HistoryAnswered \/ clearHistorical
  \/ LeaveTab \/ EnterTab \/ Persist \/ Restart

Spec == Init /\ [][Next]_vars

-----------------------------------------------------------------------------
\* The history shown is of one kind and the header says which: the two lists
\* are separate states written by separate answers, and only the button that
\* waits keeps them apart (MonitorPanel.svelte:326-381 and 695).
HistoryIsOneKind ==
  \A id \in DOMAIN history :
    LET h == history[id] IN ~(h.raw /\ h.buckets) /\ (h.raw \/ h.buckets => h.info = Drawn(h))

\* The panel changes a session to its rate once and "never fights a manual
\* choice afterwards" (MonitorPanel.svelte:218-220): leaving the tab, and a
\* restart that lost the last changes, do not make it try again.
FightsNoChoice ==
  \A id \in DOMAIN view \cap DOMAIN store'.view :
    view[id].chosen /\ clicks' = clicks /\ id \notin (IF starting = None THEN {} ELSE starting.made)
      => store'.view[id].mode = view[id].mode
ManualChoiceStands == [][FightsNoChoice]_vars

\* By hand: the bands are "aligned with pollOids by index" (line 44).
BandsFollowTheirOid ==
  \A i \in DOMAIN form.oids : thresholdAt(form.bands, i) = form.of[i]
\* By hand: under a header of history the chart draws history.
HistoryShowsHistory ==
  \A id \in DOMAIN history : history[id].info # None /\ history[id].loading = {} => Drawn(history[id]) # "live"
\* By hand: a session that is gone is forgotten (monitorViewStore.js dropSession).
RemovedIsForgotten == \A id \in DOMAIN view : id \in DOMAIN sessions
\* By hand: a counter that was typed while the start was answered shows its rate.
CounterShowsRate ==
  \A id \in DOMAIN sessions :
    sessions[id] = "counter" /\ mounted /\ starting = None /\ ~ViewOf(view, id).chosen /\ clicks <= 2
      => ViewOf(view, id).mode # "raw"
=============================================================================
