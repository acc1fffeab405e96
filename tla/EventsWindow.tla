---------------------------- MODULE EventsWindow ----------------------------
(***************************************************************************)
(* The journal as the window shows it: the list of the Events tab          *)
(* (frontend/src/stores/eventsStore.js, frontend/src/EventsPanel.svelte),  *)
(* the badge, and the incidents under a chart                              *)
(* (frontend/src/monitor/AlertTimeline.svelte).                            *)
(*                                                                         *)
(* An event is stored, and then announced to the window.  The window also  *)
(* asks for pages, and answers and announcements reach it in any order.    *)
(***************************************************************************)
EXTENDS Integers, FiniteSets, SequencesExt, Places

CONSTANTS
  Kinds,       \* records [cat, sev]
  Filters,     \* records [cats, sev, unacked] the panel can be set to; no cats is all
  Incidents,   \* the categories a timeline shows
  InOrder,     \* whether events are announced in the order they were stored
  None,
  Limit,       \* rows of a page
  MaxLive,     \* MAX_LIVE_ITEMS
  MaxEvents, MaxBehind, MaxCalls, MaxClicks   \* bounds: events, announcements and calls under way, clicks

VARIABLES
  journal,     \* the stored events
  announced,   \* those the window has not heard of yet, oldest first
  stored,      \* how many were ever stored
  calls,       \* under way: [n, op, arg, reply]; no reply before Go did it
  view,        \* eventsStore: items, cursor, loading, error, filter
  chips,       \* the filter the panel is set to
  badge,       \* what was counted as not acknowledged
  timeline,    \* the incidents of the session on the screen, or None
  clicks

go   == <<journal, announced, stored>>
vars == <<journal, announced, stored, calls, view, chips, badge, timeline, clicks>>

Click == clicks < MaxClicks /\ clicks' = clicks + 1
Seqs(items) == {items[i].seq : i \in DOMAIN items}
Unacked(rows) == Cardinality({e \in rows : ~e.acked})

-----------------------------------------------------------------------------
(* The query (the storage answers it by falling sequence number). *)

Matches(e, f) ==
  /\ f.cats = {} \/ e.kind.cat \in f.cats
  /\ e.kind.sev >= f.sev
  /\ f.unacked => ~e.acked

\* What the live tail makes of a filter: the severity is not asked.
matchesFilter(e, f) == (f.cats = {} \/ e.kind.cat \in f.cats) /\ (f.unacked => ~e.acked)

Falls(rows)  == \A i, j \in DOMAIN rows : i < j => rows[i].seq > rows[j].seq
Newest(rows) == {s \in SetToSeqs(rows) : Falls(s)}
First(rows, n) == SubSeq(rows, 1, IF Len(rows) < n THEN Len(rows) ELSE n)

\* There is one.
PagesOf(f, before) ==
  {[items |-> page, cursor |-> IF Len(page) = Limit THEN page[Limit].seq ELSE 0] :
     page \in {First(rows, Limit) : rows \in Newest({e \in journal : Matches(e, f) /\ (before = 0 \/ e.seq < before)})}}

\* Two calls of one kind are two calls: each has a slot of its own.
Call(op, arg) == [op |-> op, arg |-> arg, n |-> 0, reply |-> None]
Slots(cs) == {c.n : c \in cs}
Make(c, rest) == calls' = rest \cup {[c EXCEPT !.n = CHOOSE n \in 1..MaxCalls : n \notin Slots(rest)]}

\* The journal after a call, and what it answers.
Did(c) ==
  CASE c.op = "ack"    -> {[e EXCEPT !.acked = @ \/ e.seq \in c.arg] : e \in journal}
    [] c.op = "ackAll" -> {[e EXCEPT !.acked = @ \/ Matches(e, c.arg)] : e \in journal}
    [] c.op = "delete" -> {e \in journal : e.seq \notin c.arg}
    [] c.op = "clear"  -> {}
    [] OTHER           -> journal
Replies(c) ==
  CASE c.op = "load" -> PagesOf(c.arg, 0)
    [] c.op = "more" -> PagesOf(c.arg.filter, c.arg.before)
    [] c.op = "counts" -> {Unacked(journal)}
    [] c.op = "incidents" -> PagesOf([cats |-> Incidents, sev |-> 0, unacked |-> FALSE], 0)
    [] OTHER -> {"done"}

-----------------------------------------------------------------------------
(* The process. *)

Store ==
  \E k \in Kinds :
    /\ stored < MaxEvents /\ stored' = stored + 1
    /\ Len(announced) < MaxBehind
    /\ LET e == [seq |-> stored', kind |-> k, acked |-> FALSE]
       IN journal' = journal \cup {e} /\ announced' = Append(announced, e)
    /\ UNCHANGED <<calls, view, chips, badge, timeline, clicks>>

Perform ==
  \E c \in {x \in calls : x.reply = None} :
    /\ journal' = Did(c)
    /\ \E reply \in Replies(c) : calls' = (calls \ {c}) \cup {[c EXCEPT !.reply = reply]}
    /\ UNCHANGED <<announced, stored, view, chips, badge, timeline, clicks>>

-----------------------------------------------------------------------------
(* The live tail. *)

\* The list is cut at its cap, and the cursor moved to its end.
\* A plausible bug: the tail cut, and the cursor left where it was.
CutOnly(v, items) == [v EXCEPT !.items = First(items, MaxLive)]
Cut(v, items) ==
  IF Len(items) <= MaxLive THEN [v EXCEPT !.items = items]
  ELSE [v EXCEPT !.items = SubSeq(items, 1, MaxLive), !.cursor = items[MaxLive].seq]

\* A plausible bug, and what it used to be: the row a page already brought.
PrependTwice(v, e) == IF matchesFilter(e, v.filter) THEN Cut(v, <<e>> \o v.items) ELSE v
Prepend(v, e) ==
  IF \/ v.cursor # 0 /\ v.items = <<>>
     \/ ~matchesFilter(e, v.filter)
     \/ e.seq \in Seqs(v.items)
  THEN v
  ELSE Cut(v, <<e>> \o v.items)

capNewestFirst(list, max) == First(list, max)

\* An incident on top of the timeline, which asks nothing of the ones below.
Incident(list, e) ==
  IF list = None \/ e.kind.cat \notin Incidents THEN list ELSE capNewestFirst(<<e>> \o list, MaxLive)

listen ==
  \E i \in DOMAIN announced :
    /\ InOrder => i = 1
    /\ announced' = RemoveAt(announced, i)
    /\ view' = Prepend(view, announced[i])
    /\ badge' = badge + 1
    /\ timeline' = Incident(timeline, announced[i])
    /\ UNCHANGED <<journal, stored, calls, chips, clicks>>

-----------------------------------------------------------------------------
(* The panel.  The list is asked again on every change of the filter. *)

Ask(c) == Cardinality(calls) < MaxCalls /\ Make(c, calls)

reload ==
  \E f \in Filters :
    /\ Click /\ Ask(Call("load", f))
    /\ chips' = f
    /\ view' = [view EXCEPT !.loading = TRUE, !.error = FALSE, !.filter = f]
    /\ UNCHANGED <<go, badge, timeline>>

loadMore ==
  /\ view.cursor # 0 /\ view.items # <<>> /\ ~view.loading
  /\ Click /\ Ask(Call("more", [filter |-> view.filter, before |-> view.cursor]))
  /\ view' = [view EXCEPT !.loading = TRUE]
  /\ UNCHANGED <<go, chips, badge, timeline>>

ack ==
  \E s \in Seqs(view.items) :
    /\ Click /\ Ask(Call("ack", {s}))
    /\ view' = [view EXCEPT !.items = [i \in DOMAIN @ |-> IF @[i].seq = s THEN [@[i] EXCEPT !.acked = TRUE] ELSE @[i]]]
    /\ UNCHANGED <<go, chips, badge, timeline>>

remove ==
  \E s \in Seqs(view.items) :
    /\ Click /\ Ask(Call("delete", {s}))
    /\ view' = [view EXCEPT !.items = Only(@, {i \in DOMAIN @ : @[i].seq # s})]
    /\ UNCHANGED <<go, chips, badge, timeline>>

ackAll == badge > 0 /\ Click /\ Ask(Call("ackAll", chips)) /\ UNCHANGED <<go, view, chips, badge, timeline>>
clear  == Click /\ Ask(Call("clear", None)) /\ UNCHANGED <<go, view, chips, badge, timeline>>

\* A sample of its session, or the Monitor tab opened on it.
AskIncidents ==
  /\ Click /\ Ask(Call("incidents", None))
  /\ timeline' = IF timeline = None THEN <<>> ELSE timeline
  /\ UNCHANGED <<go, view, chips, badge>>

LeaveMonitor ==
  /\ Click /\ timeline # None /\ timeline' = None
  /\ UNCHANGED <<go, calls, view, chips, badge>>

-----------------------------------------------------------------------------
(* An answer, or the failure of the call, in whatever order. *)

Counts == Call("counts", None)
Others(c) == calls \ {c}

dedupeById(items) ==
  Only(items, {i \in DOMAIN items : \A j \in 1..(i - 1) : items[j].seq # items[i].seq})

Answered(op) == {c \in calls : c.op = op /\ c.reply # None}

LoadAnswered ==
  \E c \in Answered("load") :
    /\ view' \in {[items |-> c.reply.items, cursor |-> c.reply.cursor, loading |-> FALSE, error |-> FALSE, filter |-> c.arg],
                  [view EXCEPT !.loading = FALSE, !.error = TRUE]}
    /\ Make(Counts, Others(c))
    /\ UNCHANGED <<go, chips, badge, timeline, clicks>>

MoreAnswered ==
  \E c \in Answered("more") :
    /\ view' \in {[view EXCEPT !.items = dedupeById(@ \o c.reply.items), !.cursor = c.reply.cursor, !.loading = FALSE],
                  [view EXCEPT !.loading = FALSE, !.error = TRUE]}
    /\ calls' = Others(c)
    /\ UNCHANGED <<go, chips, badge, timeline, clicks>>

ChangeAnswered ==
  \E c \in Answered("ack") \cup Answered("delete") :
    Make(Counts, Others(c)) /\ UNCHANGED <<go, view, chips, badge, timeline, clicks>>

AllAnswered ==
  \E c \in Answered("ackAll") \cup Answered("clear") :
    /\ Make(Call("load", view.filter), Others(c))
    /\ view' = [view EXCEPT !.loading = TRUE, !.error = FALSE]
    /\ UNCHANGED <<go, chips, badge, timeline, clicks>>

refreshCounts ==
  \E c \in Answered("counts") :
    /\ badge' = c.reply /\ calls' = Others(c)
    /\ UNCHANGED <<go, view, chips, timeline, clicks>>

IncidentsAnswered ==
  \E c \in Answered("incidents") :
    /\ timeline' = IF timeline = None THEN None ELSE c.reply.items
    /\ calls' = Others(c)
    /\ UNCHANGED <<go, view, chips, badge, clicks>>

Answer == LoadAnswered \/ MoreAnswered \/ ChangeAnswered \/ AllAnswered \/ refreshCounts \/ IncidentsAnswered

\* The tab was opened on a journal that may already hold events.
Init ==
  /\ \E n \in 0..1 : \E k \in [1..n -> Kinds] :
       /\ stored = n
       /\ journal = {[seq |-> i, kind |-> k[i], acked |-> FALSE] : i \in 1..n}
  /\ announced = <<>> /\ clicks = 0 /\ timeline = None
  /\ chips \in Filters
  /\ view = [items |-> <<>>, cursor |-> 0, loading |-> TRUE, error |-> FALSE, filter |-> chips]
  /\ badge = Unacked(journal)
  /\ calls = {[op |-> "load", arg |-> chips, n |-> 1, reply |-> None]}

Next ==
  \/ Store \/ Perform \/ listen
  \/ reload \/ loadMore \/ ack \/ remove \/ ackAll \/ clear \/ AskIncidents \/ LeaveMonitor
  \/ Answer

Spec == Init /\ [][Next]_vars

-----------------------------------------------------------------------------
\* One row for each event: a page fetched while an announcement is on its way
\* may hold the event already, and the keyed list does not stand the tie
\* (eventsStore.js:117-133, :251-257).
KeyedRows == \A i, j \in DOMAIN view.items : view.items[i].seq = view.items[j].seq => i = j

\* What the cap takes off the list can be paged back in: the cursor moves with
\* the cut, through pages and deletions around it (eventsStore.js:239-251), as
\* long as the list falls as pages do.
CutsReachably ==
  Len(announced') < Len(announced) /\ Falls(view.items) =>
    \A s \in Seqs(view.items) \ Seqs(view'.items) : s < view'.cursor
CutIsReachable == [][CutsReachably]_vars

\* "Svelte throws on a duplicate key rather than rendering something odd"
\* (eventsStore.js:120-122), said of the list and true of the timeline.
TimelineKeyed ==
  timeline # None => \A i, j \in DOMAIN timeline : timeline[i].seq = timeline[j].seq => i = j

\* By hand.
Quiet == calls = {} /\ ~view.error /\ announced = <<>>
RowsMatchFilter == Quiet => \A i \in DOMAIN view.items : \E e \in journal : e.seq = view.items[i].seq => e.kind.sev >= view.filter.sev
ShowsItsChips   == Quiet => view.filter = chips
BadgeIsJournal  == Quiet => badge = Unacked(journal)
EveryCutReachable == [][Len(announced') < Len(announced) =>
  \A s \in Seqs(view.items) \ Seqs(view'.items) : s < view'.cursor]_vars
NothingSkipped  == Quiet => \A e \in journal :
  Matches(e, view.filter) /\ ~view.filter.unacked => e.seq \in Seqs(view.items) \/ (view.cursor # 0 /\ e.seq < view.cursor)
EmptyMeansNone  == Quiet /\ view.items = <<>> => \A e \in journal : ~Matches(e, view.filter)
=============================================================================
