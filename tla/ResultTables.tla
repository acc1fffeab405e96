------------------------------ MODULE ResultTables ------------------------------
(***************************************************************************)
(* Walked variables shown as a conceptual table, and the rows written from *)
(* it (frontend/src/operations/ResultsDisplay.svelte, tableRows.js): the   *)
(* view, which is chosen once for each set of results, the INDEX of the    *)
(* table, which two calls to the backend bring, and the forms of a row,    *)
(* which read it when they are sent.                                       *)
(*                                                                         *)
(* A component of an OID is a sequence of digits, and an OID a sequence of *)
(* components, so that a column is a prefix of its variables and of no     *)
(* others.                                                                 *)
(***************************************************************************)
EXTENDS Integers, Sequences, FiniteSets, SequencesExt

CONSTANTS
  Tables, Targets,
  RowStatus,     \* the tables with a column of that type
  Columns,       \* a sequence of strings of digits, as columns are numbered
  Shapes,        \* sets of instances, sequences of numbers, that a walk may find
  Dot, None,
  MaxWalks, MaxLoads, MaxClicks   \* bounds

VARIABLES
  op,        \* activeOperation: "WALK", or another
  node,      \* selectedNode, a table or none
  results,   \* bulkResults: of which walk, of which table, and who found what
  view,      \* tableViewEnabled, and autoViewApplied
  index,     \* tableInfo, decodedIndexes, indexesFor
  loads,     \* calls of loadIndexes that are waiting
  newRow, destroyRow,   \* the forms of a row; for which table is bookkeeping
  encoding,  \* the table an index is being encoded for
  sent,      \* rows written, and for which table they were meant
  walks,     \* walks under way, and how many were begun
  loaded, clicks

vars == <<op, node, results, view, index, loads, newRow, destroyRow, encoding, sent, walks, loaded, clicks>>

NoResults == [id |-> 0, table |-> None, rows |-> None]
NoIndex   == [info |-> None, decoded |-> {}, for |-> None]

-----------------------------------------------------------------------------
(* From a walk to a table. *)

Digits(n) == IF n < 10 THEN <<n>> ELSE <<n \div 10, n % 10>>
Text(inst) == FlattenSeq([i \in 1..Len(inst) |-> IF i = 1 THEN Digits(inst[i]) ELSE <<Dot>> \o Digits(inst[i])])
OidText(col, inst) == col \o <<Dot>> \o Text(inst)

\* A plausible bug: column 1 is taken for a prefix of column 10.
AnyPrefix(oid) ==
  LET hits == {c \in DOMAIN Columns : IsPrefix(Columns[c], oid)}
      c    == CHOOSE k \in hits : \A j \in hits : k <= j
  IN <<c, SubSeq(oid, Len(Columns[c]) + 2, Len(oid))>>

\* The first column the OID is under, and what is left of it.
matchColumn(oid) ==
  LET hits == {c \in DOMAIN Columns : IsPrefix(Columns[c] \o <<Dot>>, oid)}
      c    == CHOOSE k \in hits : \A j \in hits : k <= j
  IN <<c, SubSeq(oid, Len(Columns[c]) + 2, Len(oid))>>

\* The rows by their instance, each with the columns that answered.
buildTableData(found) ==
  LET hits == {matchColumn(OidText(Columns[c], i)) : c \in DOMAIN Columns, i \in found}
  IN [inst \in {h[2] : h \in hits} |-> {h[1] : h \in {g \in hits : g[2] = inst}}]

\* A plausible bug: an instance of two parts is read as a decimal fraction.
AsFraction(a, b) ==
  LET num(i) == IF Len(i) = 1 THEN i[1] * 100
                ELSE i[1] * 100 + (IF i[2] < 10 THEN i[2] * 10 ELSE i[2])
  IN num(a) < num(b)

\* partNumber, and for several parts the comparison that knows numbers.
Before(a, b) ==
  \E k \in 1..Len(a) :
    /\ k <= Len(b) /\ a[k] < b[k]
    /\ \A j \in 1..(k - 1) : a[j] = b[j]

sortRows(found) == SetToSortSeq(found, Before)

-----------------------------------------------------------------------------
(* What follows from a change, before anything is painted. *)

\* The table node that is selected, or the table of the first result.
effectiveTableNode(o, n, r) ==
  IF r.rows = None THEN None
  ELSE IF n # None THEN n
  ELSE IF o = "WALK" /\ \E t \in Targets : r.rows[t] \notin {None, {}} THEN r.table
  ELSE None

\* How many variables each target found, and of which table: that is all.
Token(n, r) == <<n, [t \in Targets |-> IF r.rows[t] = None THEN -1 ELSE Cardinality(r.rows[t])]>>

Instances(n, r) == IF n # r.table THEN {} ELSE UNION {r.rows[t] : t \in {u \in Targets : r.rows[u] # None}}

loadIndexes(n, r) ==
  IF n = None THEN index' = NoIndex /\ UNCHANGED <<loads, loaded>>
  ELSE IF index.for = Token(n, r) THEN UNCHANGED <<index, loads, loaded>>
  ELSE /\ loaded < MaxLoads /\ loaded' = loaded + 1
       /\ index' = [index EXCEPT !.for = Token(n, r)]
       /\ loads' = loads \cup {[n |-> loaded', token |-> Token(n, r), node |-> n,
                                inst |-> Instances(n, r), stage |-> "table"]}

\* The reactive statements: the view is decided once for each set of results,
\* and a table that is shown has its index loaded.
Settle(o, n, r, v) ==
  LET eff     == effectiveTableNode(o, n, r)
      applied == r = results /\ v.applied
      decide  == ~applied /\ r.rows # None /\ o = "WALK"
      show    == IF decide THEN eff # None ELSE v.on /\ o = "WALK"
  IN /\ op' = o /\ node' = n /\ results' = r
     /\ view' = [on |-> show, applied |-> applied \/ decide]
     /\ IF show THEN loadIndexes(eff, r) ELSE UNCHANGED <<index, loads, loaded>>

-----------------------------------------------------------------------------
(* What is done, and what answers. *)

ModalOpen == results.rows # None /\ index.info # None /\ (newRow # None \/ destroyRow # None)
Click == ~ModalOpen /\ clicks < MaxClicks /\ clicks' = clicks + 1
Shown == view.on /\ effectiveTableNode(op, node, results) # None
Forms == <<newRow, destroyRow, encoding, sent>>

selectedNode ==
  \E n \in Tables \cup {None} :
    /\ Click /\ n # node
    /\ Settle(IF n # None THEN "WALK" ELSE op, n, results, view)
    /\ UNCHANGED <<Forms, walks>>

activeOperation ==
  \E o \in {"WALK", "GET"} :
    /\ Click /\ o # op
    /\ Settle(o, node, results, view)
    /\ UNCHANGED <<Forms, walks>>

\* The button of the panel; the results go before they are asked for.
Walk ==
  /\ Click /\ op = "WALK" /\ walks.now = 0 /\ walks.begun < MaxWalks
  /\ walks' = [now |-> 1, begun |-> walks.begun + 1]
  /\ Settle(op, node, NoResults, view)
  /\ UNCHANGED Forms

Walked ==
  \E tb \in Tables : \E rows \in [Targets -> Shapes \cup {None}] :
    /\ walks.now > 0 /\ walks' = [walks EXCEPT !.now = @ - 1]
    /\ node # None => tb = node
    /\ Settle(op, node, [id |-> walks.begun, table |-> tb, rows |-> rows], view)
    /\ UNCHANGED <<Forms, clicks>>

viewToggle ==
  /\ Click /\ effectiveTableNode(op, node, results) # None
  /\ Settle(op, node, results, [view EXCEPT !.on = ~view.on])
  /\ UNCHANGED <<Forms, walks>>

Drop(l) == loads' = loads \ {l} /\ UNCHANGED index

\* A plausible bug: an answer is applied though another table is shown by now.
TakenAnyway(l) == TRUE

StillShown(l) == index.for = l.token

\* MibTable answers, or not; the instances it was asked about are known then.
MibTableAnswered ==
  \E l \in loads :
    /\ l.stage = "table"
    /\ IF StillShown(l)
         THEN \/ loads' = loads \ {l} /\ index' = [index EXCEPT !.info = None, !.decoded = {}]
              \/ /\ l.inst = {} /\ loads' = loads \ {l}
                 /\ index' = [index EXCEPT !.info = l.node, !.decoded = {}]
              \/ /\ l.inst # {} /\ loads' = (loads \ {l}) \cup {[l EXCEPT !.stage = "decode"]}
                 /\ UNCHANGED index
         ELSE Drop(l)
    /\ UNCHANGED <<op, node, results, view, Forms, walks, loaded, clicks>>

MibIndexesDecoded ==
  \E l \in loads :
    /\ l.stage = "decode"
    /\ IF StillShown(l)
         THEN /\ loads' = loads \ {l}
              /\ \E d \in {l.inst, {}} : index' = [index EXCEPT !.info = l.node, !.decoded = d]
         ELSE Drop(l)
    /\ UNCHANGED <<op, node, results, view, Forms, walks, loaded, clicks>>

-----------------------------------------------------------------------------
(* Rows. *)

OnScreen == effectiveTableNode(op, node, results)

startNewRow ==
  \E t \in Targets :
    /\ Click /\ Shown /\ index.info \in RowStatus /\ results.rows[t] # None
    /\ newRow' = [target |-> t, for |-> OnScreen, busy |-> FALSE]
    /\ UNCHANGED <<op, node, results, view, index, loads, destroyRow, encoding, sent, walks, loaded>>

\* The menu of a cell, and its last entry.
openCellMenu ==
  \E t \in Targets :
    /\ Click /\ Shown /\ index.info \in RowStatus /\ results.rows[t] # None /\ OnScreen = results.table
    /\ \E i \in results.rows[t] : destroyRow' = [target |-> t, for |-> OnScreen, inst |-> i]
    /\ UNCHANGED <<op, node, results, view, index, loads, newRow, encoding, sent, walks, loaded>>

submitNewRow ==
  /\ ModalOpen /\ newRow # None /\ ~newRow.busy
  /\ newRow' = [newRow EXCEPT !.busy = TRUE] /\ encoding' = encoding \cup {index.info}
  /\ UNCHANGED <<op, node, results, view, index, loads, destroyRow, sent, walks, loaded, clicks>>

\* A form that is gone, or an index that is, stops the handler where it is.
Write(kind, row) ==
  sent' = sent \cup {[kind |-> kind, meant |-> row.for, oid |-> index.info]}

IndexEncoded ==
  \E tb \in encoding :
    /\ encoding' = encoding \ {tb}
    /\ \/ /\ newRow' = IF newRow = None THEN None ELSE [newRow EXCEPT !.busy = FALSE]   \* refused
          /\ UNCHANGED <<sent, walks>>
       \/ /\ newRow # None /\ index.info # None
          /\ Write("create", newRow) /\ newRow' = None
          /\ walks' = [walks EXCEPT !.now = @ + 1]
       \/ (newRow = None \/ index.info = None) /\ UNCHANGED <<newRow, sent, walks>>
    /\ UNCHANGED <<op, node, results, view, index, loads, destroyRow, loaded, clicks>>

confirmDestroy ==
  /\ ModalOpen /\ destroyRow # None /\ index.info \in RowStatus
  /\ Write("destroy", destroyRow) /\ destroyRow' = None
  /\ walks' = [walks EXCEPT !.now = @ + 1]
  /\ UNCHANGED <<op, node, results, view, index, loads, newRow, encoding, loaded, clicks>>

closeOnEscape ==
  /\ newRow # None \/ destroyRow # None
  /\ IF destroyRow # None THEN destroyRow' = None /\ UNCHANGED newRow
                          ELSE newRow' = None /\ UNCHANGED destroyRow
  /\ UNCHANGED <<op, node, results, view, index, loads, encoding, sent, walks, loaded, clicks>>

-----------------------------------------------------------------------------
Init ==
  /\ op = "WALK" /\ node = None /\ results = NoResults
  /\ view = [on |-> FALSE, applied |-> FALSE] /\ index = NoIndex /\ loads = {}
  /\ newRow = None /\ destroyRow = None /\ encoding = {} /\ sent = {}
  /\ walks = [now |-> 0, begun |-> 0] /\ loaded = 0 /\ clicks = 0

Next ==
  \/ selectedNode \/ activeOperation \/ Walk \/ Walked \/ viewToggle
  \/ MibTableAnswered \/ MibIndexesDecoded
  \/ startNewRow \/ openCellMenu \/ submitNewRow \/ IndexEncoded \/ confirmDestroy \/ closeOnEscape

Spec == Init /\ [][Next]_vars

-----------------------------------------------------------------------------
\* "The answer is applied only if it still describes what is on screen": once
\* nothing is waited for, the INDEX shown is of the table shown, whichever of
\* two loads answered last (ResultsDisplay.svelte:516-519, loadIndexes).
IndexIsOfTheTable == Shown /\ loads = {} => index.info \in {None, OnScreen}

\* Each variable that was walked is one cell of one row, and the rows are in
\* the order of their index, 10 after 9 (tableRows.js:4-13, 138-146).
TableIsTheWalk ==
  results.rows # None =>
    \A t \in {u \in Targets : results.rows[u] # None} :
      LET found  == results.rows[t]
          sorted == sortRows(found)
      IN /\ buildTableData(found) = [inst \in {Text(i) : i \in found} |-> DOMAIN Columns]
         /\ \A j, k \in 1..Len(sorted) :
              j < k /\ Front(sorted[j]) = Front(sorted[k]) => Last(sorted[j]) < Last(sorted[k])

\* By hand: the forms read the table when they are sent, and the same number
\* of variables is taken for the same variables.
RowOfItsTable == \A s \in sent : s.oid = s.meant
DecodedAsWalked ==
  Shown /\ loads = {} /\ index.decoded # {} => index.decoded = Instances(OnScreen, results)
=============================================================================
