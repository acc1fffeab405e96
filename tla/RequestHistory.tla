------------------------------ MODULE RequestHistory ------------------------------
(***************************************************************************)
(* The history of the requests (frontend/src/stores/historyStore.js,       *)
(* HistoryPanel.svelte, DiffModal.svelte): a mirror of what SQLite holds,  *)
(* newest first, whose writes nobody waits for, the load it is merged with *)
(* and the migration of what an older version kept in localStorage; and    *)
(* the panel, its pages, its selection and the entry it is asked to show.  *)
(*                                                                         *)
(* Entries are numbered as they are made, and the odd ones are GETs.       *)
(***************************************************************************)
EXTENDS Integers, Sequences, FiniteSets, SequencesExt, Places

CONSTANTS
  Legacy,                \* what localStorage holds, newest first
  PAGE_SIZE, MAX_HISTORY_ENTRIES,
  Targets, Content,      \* Content[target]: what an entry says of it, by entry
  InOrder,               \* the backend serves its calls in the order they are sent
  None,
  MaxEntries, MaxClicks, MaxFaults, MaxRestarts   \* bounds

VARIABLES
  table,    \* query_history, in the order of its rowids
  local,    \* localStorage: the live key, and the backup of it
  calls,    \* calls to the backend that are not served yet
  boot,     \* how far init is, and the answer it has not read
  mirror,   \* the store
  made,     \* entries there were
  panel,    \* open, its filter, page, expanded, selected, diff A and B
  highlight,\* the entry to reveal
  gone,     \* bookkeeping: what the operator deleted
  budget

vars == <<table, local, calls, boot, mirror, made, panel, highlight, gone, budget>>

Closed == [open |-> FALSE, only |-> None, asc |-> FALSE, page |-> 1, expanded |-> {}, selected |-> {}, flash |-> None,
           a |-> None, b |-> None]
Click == budget.clicks > 0 /\ budget' = [budget EXCEPT !.clicks = @ - 1]

\* The entries of s from place m to place n, those there are.
Slice(s, m, n) == SubSeq(s, m, IF n > Len(s) THEN Len(s) ELSE n)

-----------------------------------------------------------------------------
(* The panel. *)

Kind(e) == IF e % 2 = 1 THEN "GET" ELSE "WALK"

\* What the filter lets through, by date: the newest first unless asked otherwise.
filteredHistory(m, p) ==
  LET f == Rising({e \in ToSet(m) : p.only = None \/ p.only = Kind(e)})
  IN IF p.asc THEN f ELSE Reverse(f)

totalPages(f) == IF f = <<>> THEN 1 ELSE (Len(f) + PAGE_SIZE - 1) \div PAGE_SIZE

pagedHistory(f, p) == {f[i] : i \in DOMAIN f \cap ((p - 1) * PAGE_SIZE + 1)..(p * PAGE_SIZE)}

\* A plausible bug: the page is counted from zero, as the index is.
PageFromZero(i) == (i - 1) \div PAGE_SIZE

PageOf(i) == ((i - 1) \div PAGE_SIZE) + 1

\* What the reactive statements make of a change: the page stays within the
\* pages there are, and the entry asked for is revealed once it is there.
Settle(m, p, h) ==
  LET f    == filteredHistory(m, p)
      page == IF p.page > totalPages(f) THEN totalPages(f) ELSE p.page
  IN /\ mirror' = m
     /\ IF p.open /\ h # None /\ f # <<>>
          THEN IF h \in ToSet(f)
                 THEN /\ highlight' = None
                      /\ panel' = [p EXCEPT !.page = PageOf(CHOOSE i \in DOMAIN f : f[i] = h),
                                            !.expanded = @ \cup {h}, !.flash = h]
                 ELSE highlight' = h /\ panel' = [p EXCEPT !.page = page]
          ELSE highlight' = h /\ panel' = IF p.open THEN [p EXCEPT !.page = page] ELSE p

Keeps == UNCHANGED <<mirror, panel, highlight>>

-----------------------------------------------------------------------------
(* The store and the backend. *)

Send(c) == calls' = Append(calls, c)

init ==
  /\ boot.at = "off"
  /\ boot' = [boot EXCEPT !.at = "load"]
  /\ Send([fn |-> "LoadHistory", ids |-> {}])
  /\ Keeps /\ UNCHANGED <<table, local, made, gone, budget>>

Without(s, ids) == Only(s, {i \in DOMAIN s : s[i] \notin ids})

\* The newest rows, which a save leaves now and then.
trimHistory(t) == SubSeq(t, IF Len(t) > MAX_HISTORY_ENTRIES THEN Len(t) - MAX_HISTORY_ENTRIES + 1 ELSE 1, Len(t))

\* The tables a call may leave.
Served(c) ==
  CASE c.fn = "SaveHistoryEntry"     -> LET t == Without(table, c.ids) \o Rising(c.ids)
                                        IN {t, trimHistory(t)}
    [] c.fn = "DeleteHistoryEntries" -> {Without(table, c.ids)}
    [] c.fn = "ClearHistory"         -> {<<>>}
    [] c.fn = "ImportHistoryEntries" -> {trimHistory(Without(table, ToSet(Legacy)) \o Legacy)}
    [] OTHER                         -> {table}

Backend ==
  \E i \in DOMAIN calls :
    /\ InOrder => i = 1
    /\ calls' = RemoveAt(calls, i)
    /\ LET c == calls[i]
       IN \/ /\ table' \in Served(c)
             /\ boot' = IF c.fn = "LoadHistory"
                          THEN [boot EXCEPT !.at = "answer", !.reply = Reverse(table)]
                        ELSE IF c.fn = "ImportHistoryEntries" THEN [boot EXCEPT !.at = "imported"]
                        ELSE boot
             /\ UNCHANGED budget
          \/ /\ budget.faults > 0 /\ budget' = [budget EXCEPT !.faults = @ - 1]
             /\ boot' = IF c.fn = "LoadHistory" THEN [boot EXCEPT !.at = "failed"]
                        ELSE IF c.fn = "ImportHistoryEntries" THEN [boot EXCEPT !.at = "answer", !.reply = <<>>, !.tried = TRUE]
                        ELSE boot
             /\ UNCHANGED table
    /\ Keeps /\ UNCHANGED <<local, made, gone>>

\* A plausible bug: what was added while the table was read is not merged.
AsLoaded(entries) == entries

\* What was added meanwhile comes first, and what was loaded is not repeated.
Merged(entries) == Without(mirror, ToSet(entries)) \o entries

Loaded ==
  /\ boot.at = "answer"
  /\ IF boot.reply = <<>> /\ ~boot.tried /\ local.live # <<>>
       THEN /\ boot' = [boot EXCEPT !.at = "import"]
            /\ Send([fn |-> "ImportHistoryEntries", ids |-> {}])
            /\ Keeps
       ELSE /\ boot' = [boot EXCEPT !.at = "done"]
            /\ Settle(Merged(boot.reply), panel, highlight)
            /\ UNCHANGED calls
  /\ UNCHANGED <<table, local, made, gone, budget>>

\* migrateLegacy goes on: the backup is written and the live key dropped.
Migrated ==
  /\ boot.at = "imported"
  /\ boot' = [boot EXCEPT !.at = "done"]
  /\ local' = [live |-> <<>>, backup |-> local.live]
  /\ Settle(Merged(local.live), panel, highlight)
  /\ UNCHANGED <<table, calls, made, gone, budget>>

\* The table could not be read: what localStorage still has is shown.
Fallback ==
  /\ boot.at = "failed"
  /\ boot' = [boot EXCEPT !.at = "done"]
  /\ Settle(IF local.live # <<>> THEN local.live ELSE local.backup, panel, highlight)
  /\ UNCHANGED <<table, local, calls, made, gone, budget>>

\* An operation that ended is recorded, whatever the panel does.
add ==
  /\ boot.at # "off" /\ made < MaxEntries /\ made' = made + 1
  /\ Settle(Slice(<<made'>> \o mirror, 1, MAX_HISTORY_ENTRIES), panel, highlight)
  /\ Send([fn |-> "SaveHistoryEntry", ids |-> {made'}])
  /\ UNCHANGED <<table, local, boot, gone, budget>>

Deletes(ids) ==
  /\ gone' = gone \cup ids
  /\ UNCHANGED <<table, local, boot, made>>

clear ==
  /\ Click /\ panel.open
  /\ Deletes(ToSet(mirror))
  /\ Settle(<<>>, panel, highlight)
  /\ Send([fn |-> "ClearHistory", ids |-> {}])

\* A plausible bug: the entries go from the screen only.
FromTheScreen(ids) == UNCHANGED calls

DeletedThere(ids) == Send([fn |-> "DeleteHistoryEntries", ids |-> ids])

remove ==
  \E e \in pagedHistory(filteredHistory(mirror, panel), panel.page) :
    /\ Click /\ panel.open
    /\ Deletes({e})
    /\ Settle(Without(mirror, {e}), panel, highlight)
    /\ DeletedThere({e})

\* Selected entries that a filter hides are deleted with the others.
deleteSelected ==
  /\ Click /\ panel.open /\ panel.selected # {}
  /\ Deletes(panel.selected \cap ToSet(mirror))
  /\ Settle(Without(mirror, panel.selected), [panel EXCEPT !.selected = {}], highlight)
  /\ DeletedThere(panel.selected)

-----------------------------------------------------------------------------
(* The gestures of the panel. *)

Rest == UNCHANGED <<table, local, calls, boot, made, gone>>

\* The tab is opened, of itself or to reveal one of the five recent entries.
goToHistory ==
  /\ Click /\ ~panel.open
  /\ \E h \in {None} \cup ToSet(Slice(mirror, 1, 5)) : Settle(mirror, [Closed EXCEPT !.open = TRUE], h)
  /\ Rest

\* 2400 ms later.
flashEnds ==
  /\ panel.flash # None
  /\ panel' = [panel EXCEPT !.flash = None]
  /\ UNCHANGED <<mirror, highlight, budget>> /\ Rest

leave ==
  /\ Click /\ panel.open
  /\ panel' = Closed /\ UNCHANGED <<mirror, highlight>>
  /\ Rest

operationFilter ==
  \E o \in {None, "GET", "WALK"} :
    /\ Click /\ panel.open /\ o # panel.only
    /\ Settle(mirror, [panel EXCEPT !.only = o], highlight)
    /\ Rest

toggleSort ==
  /\ Click /\ panel.open
  /\ Settle(mirror, [panel EXCEPT !.asc = ~@], highlight)
  /\ Rest

turnPage ==
  \E d \in {-1, 1} :
    /\ Click /\ panel.open
    /\ panel.page + d \in 1..totalPages(filteredHistory(mirror, panel))
    /\ Settle(mirror, [panel EXCEPT !.page = @ + d], highlight)
    /\ Rest

toggleSelect ==
  \E ids \in {{e} : e \in pagedHistory(filteredHistory(mirror, panel), panel.page)}
               \cup {ToSet(filteredHistory(mirror, panel))} :
    /\ Click /\ panel.open /\ ids # {}
    /\ Settle(mirror, [panel EXCEPT !.selected = SymDiff(@, ids)], highlight)
    /\ Rest

\* Two walks are chosen to be compared, A first.
toggleDiffSelection ==
  \E e \in pagedHistory(filteredHistory(mirror, panel), panel.page) :
    /\ Click /\ panel.open /\ Kind(e) = "WALK"
    /\ Settle(mirror, CASE panel.a = e    -> [panel EXCEPT !.a = None]
                        [] panel.b = e    -> [panel EXCEPT !.b = None]
                        [] panel.a = None -> [panel EXCEPT !.a = e]
                        [] panel.b = None /\ panel.a # None -> [panel EXCEPT !.b = e]
                        [] OTHER          -> panel, highlight)
    /\ Rest

\* buildOidMap: by variable, so the last target has the last word.
buildOidMap(e) == Content[Targets[Len(Targets)]][e]

diffRows == IF panel.a = None \/ panel.b = None THEN None
            ELSE IF buildOidMap(panel.a) = buildOidMap(panel.b) THEN "identical" ELSE "modified"

\* The application is closed once its calls are served, and started again.
Restart ==
  /\ budget.restarts > 0 /\ calls = <<>> /\ boot.at = "done"
  /\ budget' = [budget EXCEPT !.restarts = @ - 1]
  /\ boot' = [at |-> "off", reply |-> <<>>, tried |-> FALSE]
  /\ mirror' = <<>> /\ panel' = Closed /\ highlight' = None
  /\ UNCHANGED <<table, local, calls, made, gone>>

-----------------------------------------------------------------------------
Init ==
  /\ table = <<>> /\ calls = <<>> /\ mirror = <<>> /\ panel = Closed /\ highlight = None
  /\ local \in {[live |-> Legacy, backup |-> <<>>], [live |-> <<>>, backup |-> <<>>]}
  /\ boot = [at |-> "off", reply |-> <<>>, tried |-> FALSE]
  /\ made = Len(Legacy) /\ gone = {}
  /\ budget = [clicks |-> MaxClicks, faults |-> MaxFaults, restarts |-> MaxRestarts]

Next ==
  \/ init \/ Backend \/ Loaded \/ Migrated \/ Fallback \/ add
  \/ clear \/ remove \/ deleteSelected
  \/ goToHistory \/ flashEnds \/ leave \/ operationFilter \/ toggleSort \/ turnPage \/ toggleSelect \/ toggleDiffSelection
  \/ Restart

Spec == Init /\ [][Next]_vars

-----------------------------------------------------------------------------
Calm == budget.faults = MaxFaults

\* Once every call is served the mirror shows what the table holds, whatever was
\* added while the table was read: it misses an entry only for having been full
\* (historyStore.js:64-71, init).
MirrorsTheTable ==
  calls = <<>> /\ boot.at = "done" /\ Calm =>
    \/ ToSet(table) \subseteq ToSet(mirror)
    \/ Len(mirror) + Cardinality(gone) >= MAX_HISTORY_ENTRIES

\* What was deleted is not there again, in this session or the next.
DeletedStaysDeleted == Calm => gone \cap ToSet(mirror) = {}

\* An entry that begins to flash is expanded and on the page that is shown
\* (HistoryPanel.svelte:64-86, revealEntry).
Reveals ==
  panel'.flash \notin {None, panel.flash} =>
    /\ panel'.flash \in panel'.expanded
    /\ panel'.flash \in pagedHistory(filteredHistory(mirror', panel'), panel'.page)

\* By hand: the migration stores the newest first, which the next load reads as
\* the oldest; a table that cannot be read takes what was added meanwhile; a
\* difference of any target but the last is not seen. DeletedStaysDeleted is
\* lost as well when the backend does not serve its calls in order.
NewestFirst == \A i, j \in DOMAIN mirror : i < j => mirror[i] > mirror[j]
AddedIsShown == [][\A e \in ToSet(mirror) : Len(mirror') < MAX_HISTORY_ENTRIES =>
                     e \in ToSet(mirror') \/ e \in gone' \/ boot'.at = "off"]_vars
DiffSeesEveryTarget ==
  diffRows = "identical" => \A t \in DOMAIN Content : Content[t][panel.a] = Content[t][panel.b]
=============================================================================
