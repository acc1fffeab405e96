------------------------------- MODULE Operations -------------------------------
(***************************************************************************)
(* The panel that asks agents on demand (frontend/src/OperationsPanel      *)
(* .svelte, operations/SavedQueries.svelte): its form, which follows the   *)
(* MIB node that is selected, the operations it sends, each of whose       *)
(* handlers goes on when the answer is there, and what they record.        *)
(*                                                                         *)
(* An OID is a node and an instance, or Typed.  Answers come in any order  *)
(* and a handler reads the form as it then is.                             *)
(***************************************************************************)
EXTENDS Integers, FiniteSets

CONSTANTS
  Scalar, Column, Table,  \* nodes of the MIB, one of each kind
  Writable,               \* those that may be written
  Targets,
  OwnSettings,            \* the targets with settings of their own: a request each
  Typed,                  \* what the operator types
  Settings,               \* what may be set: autoGet, autoFillSet, skipSetConfirm, v1
  None,
  MaxAsks, MaxClicks      \* bounds: operations begun, what the operator does

Nodes == {Scalar, Column, Table}
Ops   == {"GET", "SET", "GETNEXT", "GETBULK", "WALK"}

VARIABLES
  node,      \* selectedNode
  form,      \* activeOperation, the OIDs, which were typed in, the value to set
  settings,
  loading,
  results,   \* bulkResults: the operation they answer, and the targets heard
  asking,    \* showSetConfirm
  timers,    \* automatic GETs that are due
  calls,     \* operations under way
  log,       \* what was recorded
  queries,   \* saved
  written,   \* bookkeeping: the rows written, of which device, on which
  asked, clicks

vars == <<node, form, settings, loading, results, asking, timers, calls, log, queries, written, asked, clicks>>

\* The confirmation covers the window.
Click == ~asking /\ clicks < MaxClicks /\ clicks' = clicks + 1

Oid(n, i) == <<n, i>>
NoResults == [id |-> 0, from |-> {}, op |-> None]

-----------------------------------------------------------------------------
(* The form. *)

WithInstance(n) == IF n = Table THEN Oid(n, "") ELSE Oid(n, "0")

\* A plausible bug: the node that is selected goes over what was typed.
OverTyped(op, n) == IF op \in {"GETBULK", "WALK"} THEN Oid(n, "") ELSE WithInstance(n)

\* What a field shows of the node: what was typed stays, once.
Filled(op, n) ==
  IF form.typed[op] THEN form.oid[op]
  ELSE IF op \in {"GETBULK", "WALK"} THEN Oid(n, "") ELSE WithInstance(n)

Crossed(cs) == {[c EXCEPT !.crossed = TRUE] : c \in cs}

\* Another node is selected: the form follows, and a GET may be due.
selectNode ==
  \E n \in Nodes :
    /\ Click /\ n # node
    /\ node' = n
    /\ form' = [form EXCEPT
         !.op    = IF n = Table THEN "WALK" ELSE @,
         !.oid   = [op \in Ops |-> Filled(op, n)],
         !.typed = [op \in Ops |-> FALSE],
         !.value = "default"]
    /\ timers' = IF settings.autoGet /\ ~loading /\ n # Table THEN timers + 1 ELSE timers
    /\ calls' = Crossed(calls)
    /\ UNCHANGED <<settings, loading, results, asking, log, queries, written, asked>>

\* The context menu of the tree names the operation and its OID.
pendingAction ==
  \E op \in Ops, n \in Nodes :
    /\ Click
    /\ form' = [form EXCEPT !.op = op, !.oid[op] = WithInstance(n)]
    /\ calls' = Crossed(calls)
    /\ UNCHANGED <<node, settings, loading, results, asking, timers, log, queries, written, asked>>

handleOidInput ==
  /\ Click /\ form.oid[form.op] # Typed
  /\ form' = [form EXCEPT !.oid[form.op] = Typed, !.typed[form.op] = TRUE]
  /\ calls' = Crossed(calls)
  /\ UNCHANGED <<node, settings, loading, results, asking, timers, log, queries, written, asked>>

handleInstanceChange ==
  /\ Click /\ node = Column
  /\ form' = [form EXCEPT !.oid["GET"] = Oid(Column, "9"), !.oid["SET"] = Oid(Column, "9")]
  /\ calls' = Crossed(calls)
  /\ UNCHANGED <<node, settings, loading, results, asking, timers, log, queries, written, asked>>

setValue ==
  /\ Click /\ form.op = "SET" /\ node \in Writable
  /\ form' = [form EXCEPT !.value = "typed"]
  /\ UNCHANGED <<node, settings, loading, results, asking, timers, calls, log, queries, written, asked>>

\* A line of the results is taken into the form.
handleWalkResultClick ==
  /\ Click /\ results.op = "WALK" /\ results.from # {}
  /\ form' = [form EXCEPT
       !.op = "GET", !.oid["GET"] = Oid(Column, "9"), !.oid["SET"] = Oid(Column, "9"),
       !.typed["GET"] = TRUE, !.typed["SET"] = TRUE]
  /\ calls' = Crossed(calls)
  /\ UNCHANGED <<node, settings, loading, results, asking, timers, log, queries, written, asked>>

OperationTabs ==
  \E op \in Ops :
    /\ Click /\ op # form.op /\ ~(op = "GETBULK" /\ settings.v1)
    /\ form' = [form EXCEPT !.op = op]
    /\ UNCHANGED <<node, settings, loading, results, asking, timers, calls, log, queries, written, asked>>

saveCurrentQuery ==
  /\ Click
  /\ queries' = {[op |-> form.op, oid |-> form.oid[form.op],
                  value |-> IF form.op = "SET" THEN form.value ELSE None]}
  /\ UNCHANGED <<node, form, settings, loading, results, asking, timers, calls, log, written, asked>>

handleLoadQuery ==
  \E q \in queries :
    /\ Click
    /\ form' = [form EXCEPT !.op = q.op, !.oid[q.op] = q.oid, !.value = IF q.value # None THEN q.value ELSE @]
    /\ calls' = Crossed(calls)
    /\ UNCHANGED <<node, settings, loading, results, asking, timers, log, queries, written, asked>>

-----------------------------------------------------------------------------
(* The operations. *)

\* A plausible bug: only the targets without settings of their own are asked.
FirstGroupOnly(oid) == [t \in Targets \ OwnSettings |-> oid]

\* A request for each group of targets that are asked alike, all awaited; an
\* agent that does not answer is an answer of its own.
executeGrouped(oid) ==
  LET groups == {{t} : t \in Targets \cap OwnSettings} \cup ({Targets \ OwnSettings} \ {{}})
  IN [t \in UNION groups |-> oid]

\* What an operation sends is what the form then holds; its answer is awaited.
Begin(op) ==
  LET n == asked + 1
  IN /\ asked < MaxAsks /\ asked' = n
     /\ results' = NoResults /\ loading' = TRUE
     /\ calls' = Crossed(calls) \cup
          {[id |-> n, op |-> op, oid |-> form.oid[op], stage |-> "answer", crossed |-> calls # {}]}

Execute ==
  /\ Click /\ form.op # "SET"
  /\ ~loading /\ ~(form.op = "GETBULK" /\ settings.v1)
  /\ Begin(form.op)
  /\ UNCHANGED <<node, form, settings, asking, timers, log, queries, written>>

\* 100 ms after a node was selected, whatever else is under way by then.
AutoGet ==
  /\ timers > 0 /\ timers' = timers - 1
  /\ Begin("GET")
  /\ UNCHANGED <<node, form, settings, asking, log, queries, written, clicks>>

handleSnmpSet ==
  /\ Click /\ form.op = "SET" /\ ~loading /\ node \in Writable
  /\ IF settings.skipSetConfirm
       THEN Begin("SET") /\ UNCHANGED asking
       ELSE asking' = TRUE /\ UNCHANGED <<results, loading, calls, asked>>
  /\ UNCHANGED <<node, form, settings, timers, log, queries, written>>

\* "Do not ask again" is saved before the SET is begun, which then reads the form.
confirmSetAndExecute ==
  /\ asking /\ asking' = FALSE
  /\ \/ Begin("SET") /\ UNCHANGED settings
     \/ /\ settings' = [settings EXCEPT !.skipSetConfirm = TRUE]
        /\ calls' = calls \cup {[id |-> 0, op |-> "SET", oid |-> form.oid["SET"], stage |-> "save", crossed |-> calls # {}]}
        /\ UNCHANGED <<loading, results, asked>>
  /\ UNCHANGED <<node, form, timers, log, queries, written, clicks>>

SettingSaved ==
  \E c \in calls :
    /\ c.stage = "save" /\ asked < MaxAsks /\ asked' = asked + 1
    /\ results' = NoResults /\ loading' = TRUE
    /\ calls' = Crossed(calls \ {c}) \cup
         {[c EXCEPT !.id = asked + 1, !.oid = form.oid["SET"], !.stage = "answer"]}
    /\ UNCHANGED <<node, form, settings, asking, timers, log, queries, written, clicks>>

CancelSet ==
  /\ asking /\ asking' = FALSE
  /\ UNCHANGED <<node, form, settings, loading, results, timers, calls, log, queries, written, asked, clicks>>

\* A plausible bug: an operation is recorded under the OID of the tab in front.
OidOfTheTab(op) == form.oid[form.op]

recordedOid(op) == form.oid[op]

\* What historyStore.add is given: of the results, whose they are.
Entry(c, r, failed) == [c |-> c, oid |-> recordedOid(c.op), of |-> r, failed |-> failed]

\* The answers replace what is shown; all but a SET have their OIDs resolved
\* before they are recorded.
Answered ==
  \E c \in calls :
    /\ c.stage = "answer" /\ c.op # "ROW"
    /\ results' = [id |-> c.id, from |-> DOMAIN executeGrouped(c.oid), op |-> c.op]
    /\ IF c.op = "SET"
         THEN /\ calls' = calls \ {c} /\ loading' = FALSE
              /\ log' = log \cup {Entry(c, results', FALSE)}
         ELSE /\ calls' = (calls \ {c}) \cup {[c EXCEPT !.stage = "resolve"]}
              /\ UNCHANGED <<loading, log>>
    /\ UNCHANGED <<node, form, settings, asking, timers, queries, written, asked, clicks>>

\* The rest of the handler: the record, and the value for a SET.
Resolved ==
  \E c \in calls :
    /\ c.stage = "resolve"
    /\ calls' = calls \ {c} /\ loading' = FALSE
    /\ log' = log \cup {Entry(c, results, FALSE)}
    /\ form' = IF c.op = "GET" /\ settings.autoFillSet /\ node \in Writable /\ results.from # {}
                 THEN [form EXCEPT !.value = <<"of", c.oid>>] ELSE form
    /\ UNCHANGED <<node, settings, results, asking, timers, queries, written, asked, clicks>>

Failed ==
  \E c \in calls :
    /\ c.stage = "answer" /\ c.op # "ROW"
    /\ calls' = calls \ {c} /\ loading' = FALSE
    /\ log' = log \cup {Entry(c, results, TRUE)}
    /\ UNCHANGED <<node, form, settings, results, asking, timers, queries, written, asked, clicks>>

\* A plausible bug: a row is written like any other operation, on every target.
OnEveryTarget(target) == Targets

rowTargets(target) == {target}

\* A row of a table is created or destroyed, on the device that holds it.
handleTableRowWrite ==
  \E t \in results.from :
    /\ Click /\ results.op \in {"WALK", "GETBULK"} /\ asked < MaxAsks
    /\ asked' = asked + 1 /\ loading' = TRUE
    /\ written' = written \cup {<<t, rowTargets(t)>>}
    /\ calls' = Crossed(calls) \cup
         {[id |-> asked + 1, op |-> "ROW", oid |-> None, stage |-> "answer", crossed |-> calls # {}]}
    /\ UNCHANGED <<node, form, settings, results, asking, timers, log, queries>>

\* It is read back with the tab that is open; the flag goes whatever else runs.
RowWritten ==
  \E c \in calls :
    /\ c.op = "ROW"
    /\ \/ calls' = calls \ {c} /\ loading' = FALSE /\ UNCHANGED <<results, asked>>
       \/ /\ form.op \in {"WALK", "GETBULK"} /\ asked < MaxAsks
          /\ asked' = asked + 1 /\ results' = NoResults /\ loading' = TRUE
          /\ calls' = Crossed(calls \ {c}) \cup
               {[c EXCEPT !.id = asked + 1, !.op = form.op, !.oid = form.oid[form.op],
                          !.crossed = Cardinality(calls) > 1]}
    /\ UNCHANGED <<node, form, settings, asking, timers, log, queries, written, clicks>>

-----------------------------------------------------------------------------
Init ==
  /\ node = None
  /\ form = [op |-> "GET", oid |-> [op \in Ops |-> <<>>], typed |-> [op \in Ops |-> FALSE], value |-> "default"]
  /\ settings \in Settings
  /\ loading = FALSE /\ results = NoResults /\ asking = FALSE /\ timers = 0
  /\ calls = {} /\ log = {} /\ queries = {} /\ written = {} /\ asked = 0 /\ clicks = 0

Next ==
  \/ selectNode \/ pendingAction \/ handleOidInput \/ handleInstanceChange \/ setValue
  \/ handleWalkResultClick \/ OperationTabs \/ saveCurrentQuery \/ handleLoadQuery
  \/ Execute \/ AutoGet \/ handleSnmpSet \/ confirmSetAndExecute \/ SettingSaved \/ CancelSet
  \/ Answered \/ Resolved \/ Failed \/ handleTableRowWrite \/ RowWritten

Spec == Init /\ [][Next]_vars

-----------------------------------------------------------------------------
\* The history says what was asked, of whom, and what came back: of every
\* operation during which nothing else was begun or chosen (OperationsPanel
\* .svelte: the record reads the form and the results after two awaits).
RecordedAsAsked ==
  \A e \in log : ~e.c.crossed =>
    /\ e.oid = e.c.oid
    /\ ~e.failed => e.of.id = e.c.id /\ e.of.from = Targets

\* "ONE device: the one whose table the row was clicked in" (line 376).
RowOnItsDevice == \A w \in written : w[2] = {w[1]}

\* An answer is recorded as what was asked, for the device it came from.
AnswersStayTheirs == RecordedAsAsked /\ RowOnItsDevice

\* What was typed survives the next node that is selected (lines 76, 115).
KeepsTyped == \A op \in Ops : node' # node /\ form.typed[op] => form'.oid[op] = form.oid[op]

\* The flag goes with the last operation, if they were one at a time.
NothingIsBusy == calls = {} => ~loading

\* By hand, with what crosses: the record, the results and the value that is
\* filled in may be another operation's or another node's.
RecordedWhateverCrosses == \A e \in log : e.oid = e.c.oid /\ (~e.failed => e.of.id = e.c.id)
ValueOfItsNode ==
  \A n \in Nodes, i \in {"0", "9", ""} : form.value = <<"of", Oid(n, i)>> => node = n
BusyWhileAsked == loading \/ calls = {}
=============================================================================
