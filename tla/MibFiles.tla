------------------------------- MODULE MibFiles -------------------------------
(***************************************************************************)
(* Which MIBs are loaded, and what is said of it (frontend/src/stores/     *)
(* mibPathsStore.js, mibStore.js, settings/MibSettings.svelte, utils/      *)
(* mibDependencies.js, mibGraph.js, the file drop of App.svelte, and       *)
(* pkg/mib/service.go, diagnose.go, graph.go behind them). A load is two   *)
(* or more calls to Go with an await between them; the files, the switches *)
(* and other loads move meanwhile.                                         *)
(***************************************************************************)
EXTENDS Integers, Sequences, FiniteSets, SequencesExt

CONSTANTS
  Files,        \* the files there may be, each declaring the module of its name
  Imports,      \* of each, the modules in order; a module may have no file
  Broken,       \* the files that do not parse
  Disk,         \* what the MIB directory holds at first
  Drops,        \* the sets of files that may be dropped on the window
  Sorted,       \* Files in alphabetical order
  Extra,        \* custom directories: the files in each
  Default,      \* the MIB directory
  InOrder,      \* are calls answered in the order they were made?
  None,
  MaxClicks, MaxFaults    \* bounds

VARIABLES
  disk,     \* the files of the MIB directory
  gosmi,    \* the modules the parser holds
  paths,    \* [custom, detected, enabled], in localStorage as it is on screen
  store,    \* [tree, loading, diags]: mibStore and mibDiagnostics
  tasks,    \* what awaits an answer of Go, in the order it was asked
  panel,    \* the MIB settings, or None
  report,   \* what was last said of a drop, or None
  book      \* bookkeeping: [clicks, faults, fresh, mounts]

vars == <<disk, gosmi, paths, store, tasks, panel, report, book>>

Dirs == {Default} \cup DOMAIN Extra
FilesOf(d) == IF d = Default THEN disk ELSE Extra[d]
SetOrNone(s) == IF s = None THEN {} ELSE s
InSequence(s) == SelectSeq(Sorted, LAMBDA f : f \in s)

-----------------------------------------------------------------------------
(* What Go says of a load. *)

\* findImportCycles: a file from which its own module is reached is refused.
ReachedIn(f, s) ==
  LET from[n \in 0..Cardinality(s)] ==
        IF n = 0 THEN {}
        ELSE LET r == from[n - 1] IN r \cup UNION {Range(Imports[g]) : g \in ((r \cap s) \cup {f})}
  IN from[Cardinality(s)]
findImportCycles(s) == {f \in s : f \in ReachedIn(f, s)}

\* The parser takes a file whose imports it can take in turn.
Loadable(f) ==
  /\ f \in disk \ (Broken \cup findImportCycles(disk))
  /\ ReachedIn(f, disk) \subseteq disk \ Broken

\* missingImports: <<what a file lacks, what was looked at>>. Each module is
\* looked at once per load, and the files IT lacks are looked at with it.
RECURSIVE missingImports(_, _, _, _)
missingImports(mods, loaded, visiting, out) ==
  IF mods = <<>> THEN [out |-> out, visiting |-> visiting]
  ELSE LET m == Head(mods)
           Row(r) == Append(out, [module |-> m, reason |-> r])
       IN IF m \in loaded THEN missingImports(Tail(mods), loaded, visiting, out)
          ELSE IF m \notin disk THEN missingImports(Tail(mods), loaded, visiting, Row("absent"))
          ELSE IF m \in visiting THEN missingImports(Tail(mods), loaded, visiting, Row("notloaded"))
          ELSE IF m \in Broken THEN missingImports(Tail(mods), loaded, visiting \cup {m}, Row("failed"))
          ELSE LET sub == missingImports(Imports[m], loaded, visiting \cup {m}, <<>>)
               IN missingImports(Tail(mods), loaded, sub.visiting, Row("notloaded"))

\* loadWithDiagnosticsLocked: [diags, loaded], one file after the other.
RECURSIVE Loaded(_, _, _, _)
Loaded(files, loaded, visiting, diags) ==
  IF files = <<>> THEN [diags |-> diags, loaded |-> loaded]
  ELSE LET f == Head(files)
           Say(ok, missing) == Append(diags, [file |-> f, ok |-> ok, missing |-> missing])
       IN IF Loadable(f)
          THEN Loaded(Tail(files), loaded \cup {f} \cup ReachedIn(f, disk), visiting, Say(TRUE, <<>>))
          ELSE IF f \notin disk \ (Broken \cup findImportCycles(disk))
               THEN Loaded(Tail(files), loaded, visiting, Say(FALSE, <<>>))
               ELSE LET m == missingImports(Imports[f], loaded, visiting, <<>>)
                    IN Loaded(Tail(files), loaded, m.visiting, Say(FALSE, m.out))
LoadWithDiagnostics(files) == Loaded(files, gosmi, {}, <<>>)

\* "It recurses until the stack ends": a file that is in no cycle and imports from
\* one is handed over, and the call never returns.
Hangs(files) ==
  LET cyclic == findImportCycles(disk)
  IN \E f \in Range(files) : f \in disk \ (cyclic \cup Broken) /\ ReachedIn(f, disk) \cap cyclic # {}

Successes(diags) == {diags[i].file : i \in {j \in DOMAIN diags : diags[j].ok}}

-----------------------------------------------------------------------------
(* mibPathsStore. *)

Enabled(d, f) == paths.enabled[d][f] # FALSE
Switch(d, s, b) == [paths EXCEPT !.enabled[d] = [f \in Files |-> IF f \in s THEN b ELSE @[f]]]

\* What is new is switched on; what was switched before stays as it was.
setDetectedMibs(d, s) ==
  [paths EXCEPT !.detected[d] = s,
                !.enabled[d] = [f \in Files |-> IF f \in s /\ @[f] = None THEN TRUE ELSE @[f]]]

\* An unknown file becomes on, whatever the box showed.
toggleMib(d, f) == Switch(d, {f}, IF paths.enabled[d][f] = None THEN TRUE ELSE ~paths.enabled[d][f])

addPath(d) == [paths EXCEPT !.custom = @ \cup {d}]
removePath(d) == [paths EXCEPT !.custom = @ \ {d}, !.detected[d] = None]

\* A plausible bug: what nobody has switched is off.
OnlyKnown(listed) == InSequence({f \in listed : paths.enabled[Default][f] = TRUE})

\* What the directory holds and is not switched off, then the custom paths' files.
getEnabledMibFiles(listed) ==
  LET of(d) == {f \in SetOrNone(paths.detected[d]) : Enabled(d, f)}
  IN InSequence({f \in listed : Enabled(Default, f)})
       \o FlattenSeq(SetToSeq({InSequence(of(d)) : d \in paths.custom}))

-----------------------------------------------------------------------------
(* Tasks: a call, and what its answer goes on with. *)

Task(kind, call) == [kind |-> kind, call |-> call, files |-> <<>>, dropped |-> {}, me |-> 0, dir |-> Default]
Without(i) == SubSeq(tasks, 1, i - 1) \o SubSeq(tasks, i + 1, Len(tasks))
Then(i, t) == tasks' = Append(Without(i), t)
Over(i) == tasks' = Without(i)
Answers(i, calls) == i \in DOMAIN tasks /\ (InOrder => i = 1) /\ tasks[i].call \in calls
Mine(i) == panel # None /\ (IF panel = None THEN FALSE ELSE panel.me = tasks[i].me)

Loading(b) == [store EXCEPT !.loading = b]
Touched == book' = [book EXCEPT !.fresh = FALSE]

\* ListMibFiles, asked by the start, a drop or the settings, then setDetectedMibs;
\* the first two go on with a load.
scanPathForMibs(i) ==
  /\ Answers(i, {"scan"})
  /\ LET t == tasks[i] IN
     /\ paths' = setDetectedMibs(t.dir, FilesOf(t.dir))
     /\ IF t.kind = "scan" THEN Over(i) /\ store' = store
        ELSE Then(i, [t EXCEPT !.call = "list"]) /\ store' = Loading(TRUE)
     /\ UNCHANGED <<disk, gosmi, panel, report, book>>

\* ... and when it fails: the start gives up, the settings take the path for empty.
ScanFails(i) ==
  /\ Answers(i, {"scan"}) /\ tasks[i].kind # "drop" /\ book.faults < MaxFaults
  /\ paths' = IF tasks[i].kind = "scan" THEN setDetectedMibs(tasks[i].dir, {}) ELSE paths
  /\ Over(i) /\ book' = [book EXCEPT !.faults = @ + 1]
  /\ UNCHANGED <<disk, gosmi, store, panel, report>>

\* getEnabledMibFiles after its await, then the load of the answer. The directory
\* that cannot be listed is the one last detected.
loadInternal(i) ==
  /\ Answers(i, {"list"})
  /\ \E ok \in {TRUE} \cup {b \in {FALSE} : book.faults < MaxFaults} :
       /\ Then(i, [tasks[i] EXCEPT !.call = IF tasks[i].kind = "editor" THEN "rebuild" ELSE "load",
                                   !.files = getEnabledMibFiles(IF ok THEN disk ELSE SetOrNone(paths.detected[Default]))])
       /\ book' = [book EXCEPT !.faults = IF ok THEN @ ELSE @ + 1,
                               !.fresh  = ok /\ tasks[i].kind # "editor"]
  /\ UNCHANGED <<disk, gosmi, paths, store, panel, report>>

\* A plausible bug: the diagnostics are read before the load they are of.
DiagBefore(ds) == store.diags

\* handleFileDrop, 3: those of the files just copied that did not load.
loadFailed(ds) == ds

\* The tree and the diagnostics are of one answer; a drop goes on to its report.
LoadAnswered(i) ==
  /\ Answers(i, {"load"}) /\ ~Hangs(tasks[i].files)
  /\ LET r == LoadWithDiagnostics(tasks[i].files)
         ds == loadFailed(r.diags)
     IN /\ gosmi' = r.loaded
        /\ store' = [tree |-> Successes(r.diags), loading |-> FALSE, diags |-> r.diags]
        /\ report' = IF tasks[i].kind # "drop" THEN report
                     ELSE [copied |-> tasks[i].dropped, asked |-> Range(tasks[i].files),
                           failed |-> {ds[j].file : j \in {k \in DOMAIN ds : ~ds[k].ok}} \cap tasks[i].dropped]
  /\ Over(i) /\ UNCHANGED <<disk, paths, panel, book>>

\* MibEditorReload: gosmi is torn down and built anew, and mibStore asked to load.
Rebuild(i) ==
  /\ Answers(i, {"rebuild"}) /\ ~Hangs(tasks[i].files)
  /\ gosmi' = Loaded(tasks[i].files, {}, {}, <<>>).loaded
  /\ Then(i, Task("load", "list")) /\ store' = Loading(TRUE)
  /\ UNCHANGED <<disk, paths, panel, report, book>>

-----------------------------------------------------------------------------
(* The graph, and the roll. *)

\* ModuleGraph: a node for each file, and for each module imported with none.
ModuleGraph ==
  [present |-> disk, loaded |-> gosmi \cap disk,
   nodes |-> disk \cup UNION {Range(Imports[f]) : f \in disk}]
ImportsIn(g, m) == IF m \in g.present THEN Imports[m] ELSE <<>>
ImportedBy(g, m) == {f \in g.present : m \in Range(Imports[f])}

\* Those nothing imports, or all there are.
rootsOf(g) ==
  LET roots == {m \in g.present : ImportedBy(g, m) = {}}
  IN IF roots # {} THEN roots ELSE g.present
FirstRoot(g) == IF rootsOf(g) = {} THEN None ELSE InSequence(rootsOf(g))[1]

statusOf(g, m) ==
  IF m \notin g.present THEN "missing" ELSE IF m \in g.loaded THEN "loaded" ELSE "notloaded"

\* A plausible bug: what was drawn below one node is drawn again below another.
Forgotten(expanded, m) == {}

\* A module is descended into once in a tree.
Descended(expanded, m) == expanded \cup {m}

\* treeFrom, flattened: [rows, expanded].
RECURSIVE build(_, _, _, _, _)
build(g, mods, path, expanded, rows) ==
  IF mods = <<>> THEN [rows |-> rows, expanded |-> expanded]
  ELSE LET m     == Head(mods)
           cycle == m \in path
           again == ~cycle /\ m \in expanded
           row   == [module |-> m, depth |-> Cardinality(path), status |-> statusOf(g, m),
                     cycle |-> cycle, repeated |-> again]
           below == IF cycle \/ again THEN [rows |-> Append(rows, row), expanded |-> expanded]
                    ELSE build(g, ImportsIn(g, m), path \cup {m}, Descended(expanded, m), Append(rows, row))
       IN build(g, Tail(mods), path, below.expanded, below.rows)
treeFrom(g, root) == build(g, <<root>>, {}, {}, <<>>).rows

severity(r) == IF r = "absent" THEN 3 ELSE IF r = "failed" THEN 2 ELSE IF r = "notloaded" THEN 1 ELSE 0

\* A plausible bug: a module has the reason the last file gave.
LastSaid(was, said) == said
worst(was, said) == IF severity(said) > severity(was) THEN said ELSE was

\* dependencyRoll: for each module that is missing, why, and which files want it.
dependencyRoll(diags) ==
  LET rows == FlattenSeq([i \in DOMAIN diags |->
                [j \in DOMAIN diags[i].missing |-> [file |-> diags[i].file] @@ diags[i].missing[j]]])
      of(m) == SelectSeq(rows, LAMBDA r : r.module = m)
      Entry(m) == [module |-> m, neededBy |-> [k \in DOMAIN of(m) |-> of(m)[k].file],
                   reason |-> FoldLeft(LAMBDA was, r : worst(was, r.reason), of(m)[1].reason, of(m))]
  IN {Entry(m) : m \in {rows[k].module : k \in DOMAIN rows}}

-----------------------------------------------------------------------------
Blank(me) ==
  [me |-> me, diagnosing |-> None, diagFor |-> None, token |-> 0, last |-> None,
   graph |-> None, open |-> FALSE, root |-> None, loading |-> FALSE]

\* The application starts: MIBs are loaded after the default directory is scanned.
Init ==
  /\ disk = Disk /\ gosmi = {}
  /\ paths = [custom |-> {}, detected |-> [d \in Dirs |-> None], enabled |-> [d \in Dirs |-> [f \in Files |-> None]]]
  /\ store = [tree |-> {}, loading |-> TRUE, diags |-> <<>>]
  /\ tasks = <<Task("boot", "scan")>>
  /\ panel = None /\ report = None
  /\ book = [clicks |-> 0, faults |-> 0, fresh |-> FALSE, mounts |-> 0]

Clicks(fresh) == book.clicks < MaxClicks /\ book' = [book EXCEPT !.clicks = @ + 1, !.fresh = fresh]
Clicked == Clicks(book.fresh)
AsIs == UNCHANGED <<disk, gosmi, store, report>>

\* handleFileDrop, 1 and 2: what is there already is skipped, and if all is
\* nothing more is done.
handleFileDrop ==
  \E s \in Drops :
    /\ Clicks(FALSE) /\ disk' = disk \cup s
    /\ tasks' = IF s \subseteq disk THEN tasks
                ELSE Append(tasks, [Task("drop", "scan") EXCEPT !.dropped = s \ disk])
    /\ UNCHANGED <<gosmi, paths, store, panel, report>>

\* The MIB editor writes a file and reloads.
EditorWrites ==
  \E f \in Files \ disk :
    /\ Clicks(FALSE) /\ disk' = disk \cup {f}
    /\ tasks' = Append(tasks, Task("editor", "list"))
    /\ UNCHANGED <<gosmi, paths, store, panel, report>>

\* The settings are opened: they scan the default directory.
OpenPanel ==
  /\ panel = None /\ Clicked /\ panel' = Blank(book.clicks)
  /\ tasks' = Append(tasks, Task("scan", "scan"))
  /\ AsIs /\ UNCHANGED paths
ClosePanel ==
  /\ panel # None /\ Clicked /\ panel' = None /\ AsIs /\ UNCHANGED <<paths, tasks>>

\* The button is there while nothing loads.
Reload ==
  /\ panel # None /\ ~store.loading /\ Clicked
  /\ store' = Loading(TRUE) /\ tasks' = Append(tasks, Task("load", "list"))
  /\ UNCHANGED <<disk, gosmi, paths, panel, report>>

Toggle ==
  /\ panel # None /\ Clicks(FALSE)
  /\ \E d \in {Default} \cup paths.custom :
       LET s == SetOrNone(paths.detected[d]) IN
       \/ \E f \in s : paths' = toggleMib(d, f)
       \/ s # {} /\ \E b \in BOOLEAN : paths' = Switch(d, s, b)
  /\ AsIs /\ UNCHANGED <<tasks, panel>>

handleAddPath ==
  \E d \in DOMAIN Extra :
    /\ panel # None /\ Clicks(FALSE) /\ paths' = addPath(d)
    /\ tasks' = Append(tasks, [Task("scan", "scan") EXCEPT !.dir = d])
    /\ AsIs /\ UNCHANGED panel
handleRemovePath ==
  \E d \in paths.custom :
    /\ panel # None /\ Clicks(FALSE) /\ paths' = removePath(d) /\ AsIs /\ UNCHANGED <<tasks, panel>>

\* Each file's own button; the one being diagnosed is disabled.
runDiagnosis ==
  /\ panel # None /\ Clicked
  /\ \E i \in DOMAIN store.diags :
       LET f == store.diags[i].file IN
       /\ panel.diagnosing # f
       /\ panel' = [panel EXCEPT !.token = @ + 1, !.diagnosing = f, !.last = f]
       /\ tasks' = Append(tasks, [Task("diagnosis", "diagnose") EXCEPT
                                    !.me = panel.me, !.files = <<f, panel.token + 1>>])
  /\ AsIs /\ UNCHANGED paths

\* A plausible bug: whichever answer comes is shown.
AnyAnswer(token) == TRUE
IsLast(token) == token = panel.token

\* These are answered in any order: nothing holds the second behind the first.
Diagnosed(i) ==
  /\ i \in DOMAIN tasks /\ tasks[i].call = "diagnose" /\ Over(i)
  /\ panel' = IF ~Mine(i) \/ (IF Mine(i) THEN ~IsLast(tasks[i].files[2]) ELSE TRUE) THEN panel
              ELSE [panel EXCEPT !.diagFor = tasks[i].files[1], !.diagnosing = None]
  /\ AsIs /\ UNCHANGED <<paths, book>>

AskGraph(p) == IF p.loading THEN Append(tasks, [Task("graph", "graph") EXCEPT !.me = p.me]) ELSE tasks

\* The graph is asked for when it is first opened, and again by its button.
toggleGraph ==
  /\ panel # None /\ Clicked
  /\ panel' = [panel EXCEPT !.open = ~@, !.loading = @ \/ (~panel.open /\ panel.graph = None)]
  /\ tasks' = IF panel.open THEN tasks ELSE AskGraph([panel EXCEPT !.loading = panel.graph = None])
  /\ AsIs /\ UNCHANGED paths
loadGraph ==
  /\ panel # None /\ panel.open /\ panel.graph # None /\ ~panel.loading /\ Clicked
  /\ panel' = [panel EXCEPT !.loading = TRUE] /\ tasks' = AskGraph(panel')
  /\ AsIs /\ UNCHANGED paths
GraphAnswered(i) ==
  /\ Answers(i, {"graph"}) /\ Over(i)
  /\ panel' = IF ~Mine(i) THEN panel
              ELSE [panel EXCEPT !.graph = ModuleGraph, !.loading = FALSE,
                                 !.root = IF @ \in ModuleGraph.nodes THEN @ ELSE FirstRoot(ModuleGraph)]
  /\ AsIs /\ UNCHANGED <<paths, book>>
ChooseRoot ==
  /\ panel # None /\ panel.open /\ panel.graph # None /\ Clicked
  /\ \E m \in rootsOf(panel.graph) : m # panel.root /\ panel' = [panel EXCEPT !.root = m]
  /\ AsIs /\ UNCHANGED <<paths, tasks>>

Next ==
  \/ \E i \in DOMAIN tasks :
       \/ scanPathForMibs(i) \/ ScanFails(i) \/ loadInternal(i) \/ LoadAnswered(i)
       \/ Rebuild(i) \/ Diagnosed(i) \/ GraphAnswered(i)
  \/ handleFileDrop \/ EditorWrites
  \/ OpenPanel \/ ClosePanel \/ Reload \/ Toggle \/ handleAddPath \/ handleRemovePath
  \/ runDiagnosis \/ loadGraph \/ toggleGraph \/ ChooseRoot

Spec == Init /\ [][Next]_vars

-----------------------------------------------------------------------------
(* What is owed. *)

Loads == {i \in DOMAIN tasks : tasks[i].kind \notin {"scan", "diagnosis", "graph"}}

\* stores/mibStore.js "The DIRECTORY is what is there, not a list detected at
\* start-up", "only for what has been switched OFF": once every load has been
\* answered and nothing was changed since the last one looked, the tree is of the
\* files that are there, are not off and parse, however loads overlapped.
TreeIsWhatIsOn ==
  (book.fresh /\ Loads = {}) =>
    store.tree = {f \in disk : Enabled(Default, f) /\ Loadable(f)}
                   \cup {f \in UNION {SetOrNone(paths.detected[d]) : d \in paths.custom} :
                          Loadable(f) /\ \E d \in paths.custom : f \in SetOrNone(paths.detected[d]) /\ Enabled(d, f)}

\* App.svelte's handleFileDrop: a file that was dropped, was not off and does not
\* load is in the list of what failed.
FailureIsReported ==
  report # None => \A f \in report.copied : (f \in report.asked /\ ~Loadable(f)) => f \in report.failed

\* MibSettings.svelte's diagnosisToken: once nothing is under way the diagnosis on
\* the screen is of the file asked last, whichever answer came last.
DiagnosisIsTheLastAsked ==
  (panel # None /\ ~\E i \in DOMAIN tasks : tasks[i].call = "diagnose" /\ Mine(i)) =>
     panel.diagnosing = None /\ panel.diagFor = panel.last

\* utils/mibGraph.js's treeFrom: below its root the tree shows every module that is
\* reached, each descended into once, and marks the others.
TreeShowsEachOnce ==
  (panel # None /\ panel.root # None) =>
    LET g    == panel.graph
        rows == treeFrom(g, panel.root)
        full == {i \in DOMAIN rows : ~rows[i].cycle /\ ~rows[i].repeated}
    IN /\ {rows[i].module : i \in DOMAIN rows} =
            {panel.root} \cup {m \in g.nodes : m \in ReachedIn(panel.root, g.present)}
       /\ \A i, j \in full : rows[i].module = rows[j].module => i = j
       /\ Cardinality(full) = Cardinality({rows[i].module : i \in DOMAIN rows})

\* utils/mibDependencies.js: each module that is missing has one row, with every
\* file that wants it and "the worst reason" any of them was given.
RollSaysTheWorst ==
  LET said == {<<store.diags[i].file, r>> : i \in DOMAIN store.diags,
               r \in UNION {Range(store.diags[j].missing) : j \in DOMAIN store.diags}}
      Of(m) == {x \in said : x[2].module = m /\ \E i \in DOMAIN store.diags :
                  store.diags[i].file = x[1] /\ x[2] \in Range(store.diags[i].missing)}
      roll == dependencyRoll(store.diags)
  IN /\ \A e \in roll : /\ Range(e.neededBy) = {x[1] : x \in Of(e.module)}
                        /\ \A x \in Of(e.module) : severity(x[2].reason) <= severity(e.reason)
     /\ \A d \in roll, e \in roll : d.module = e.module => d = e

\* By hand: every file of the directory is in the tree of some root. One that is
\* reached only from a cycle nothing else imports is in none, when there is
\* another root.
EveryModuleIsShown ==
  (panel # None /\ panel.graph # None) =>
    LET g == panel.graph
    IN g.present \subseteq UNION {{r} \cup ReachedIn(r, g.present) : r \in rootsOf(g)}

\* By hand: the root that is chosen is one of those on offer. It is kept while it
\* is a node, also once something imports it.
RootIsOffered == (panel # None /\ panel.root # None) => panel.root \in rootsOf(panel.graph)

\* By hand: a module that does not parse is said to have failed. One that was
\* looked at below another is said to be merely not loaded.
BrokenIsSaid ==
  \A e \in dependencyRoll(store.diags) : e.module \in Broken \cap disk => e.reason = "failed"

\* By hand: what is dropped, copied and not reported is in the tree. A file that
\* is switched off is not asked for, and is counted as loaded.
DroppedIsLoaded == report # None => \A f \in report.copied : f \in report.asked

\* By hand: a file of a custom directory that is on and parses is loaded. The
\* parser is never told of the directory.
CustomIsLoaded ==
  (book.fresh /\ Loads = {}) =>
    \A d \in paths.custom : \A f \in SetOrNone(paths.detected[d]) : f \notin Broken => f \in store.tree

\* By hand: what is handed to the parser does not hang it. A file that imports
\* from a cycle without being in it is not refused, and the load holds the lock.
NothingHangs == \A i \in DOMAIN tasks : tasks[i].call \in {"load", "rebuild"} => ~Hangs(tasks[i].files)

\* By hand, with a fault: the list stops loading. The start gives up before mibStore is asked,
\* and the button that would ask is disabled while it "loads".
LoadingEnds == store.loading => Loads # {}
=============================================================================
