----------------------------- MODULE SimulatorDesk -----------------------------
(***************************************************************************)
(* The simulator's dialog around its editor (frontend/src/SimulatorModal   *)
(* .svelte, simulator/*.svelte, stores/simulatorStore.js): the list Go is  *)
(* asked for, the calls a device has on the way, the device being edited   *)
(* and its preview, the models it may be made from. Go answers in its own  *)
(* time (internal/app/simulator.go, simmodels.go, simbench.go), and the    *)
(* dialog may be closed, and opened anew, before it does.                  *)
(***************************************************************************)
EXTENDS Integers, Sequences, FiniteSets, SequencesExt

CONSTANTS
  Devices,        \* the ids a device may have
  Present,        \* those there are at first
  Catalogue,      \* the models in order, the custom one last
  Category,       \* of each model
  Custom,         \* the model that is imported, recorded and deleted
  Forms,          \* what a faults panel may hold
  InOrder,        \* are lists answered in the order asked?
  MAX_LATENCY_MS, COUNTER_SPEEDS,
  None,
  MaxClicks, MaxCalls, MaxUnderWay     \* bounds

VARIABLES
  go,        \* [devs: the devices by id, models: those Go knows]
  list,      \* the same, as the store holds it
  modal,     \* the dialog, or None
  calls,     \* the calls under way, in the order they were made
  refused,   \* bookkeeping: the faults Go refused
  count      \* [calls, clicks, whether devices are still to start with the application,
             \* and bookkeeping: whether a deletion of a model was crossed]

vars == <<go, list, modal, calls, refused, count>>

Ids == ToSet(Catalogue)
blankFaults == [latency |-> 0, loss |-> 0, error |-> None, percent |-> 0, speed |-> 1]
Device(m) == [model |-> m, running |-> FALSE, faults |-> blankFaults, text |-> 0]

Fresh(i) ==
  [me |-> i, editing |-> None, tab |-> "identity", saving |-> FALSE, busy |-> {}, confirm |-> None,
   preview |-> None, failed |-> FALSE, timer |-> FALSE, seq |-> 0, busyPreview |-> FALSE,
   confirmModel |-> None, exports |-> None, stopAsked |-> FALSE]

-----------------------------------------------------------------------------
(* Calls. A call is made, served by Go, and answered. *)

Ask(kind, dev, with) ==
  [n |-> 0, kind |-> kind, dev |-> dev, with |-> with, after |-> None,
   me |-> IF modal = None THEN 0 ELSE modal.me, served |-> FALSE, ok |-> TRUE, answer |-> None]

Counted == count' = [count EXCEPT !.calls = @ + 1]
Deleting == \E c \in ToSet(calls) : c.kind = "deleteModel"
Room(k)  == count.clicks < MaxClicks /\ Len(calls) < MaxUnderWay /\ count.calls + k <= MaxCalls
Clicked(k) == Room(k) /\ count' = [count EXCEPT !.clicks = @ + 1, !.calls = @ + k]
Crossing(k) == Room(k) /\ count' = [count EXCEPT !.clicks = @ + 1, !.calls = @ + k, !.crossed = @ \/ Deleting]
Still == UNCHANGED <<go, list, refused>>

\* A list asked after Go changed, or after an answer that asks for one.
refresh(c, then) == [Ask("list", c.dev, None) EXCEPT !.after = then, !.me = c.me]

\* A plausible bug: nothing is listed again when Go says a device changed.
Unheard(c) == <<>>

simulator_changed(c) == <<refresh(c, None)>>

-----------------------------------------------------------------------------
(* What Go does. *)

Check(f) ==
  /\ f.latency \in 0..MAX_LATENCY_MS /\ f.loss \in 0..100
  /\ IF f.error = None THEN f.percent = 0 ELSE f.percent \in 1..100
  /\ f.speed \in COUNTER_SPEEDS \cup {0}

Put(d, v) == [e \in DOMAIN go.devs \cup {d} |-> IF e = d THEN v ELSE go.devs[e]]
Without(d) == [e \in DOMAIN go.devs \ {d} |-> go.devs[e]]
There(c) == c.dev \in DOMAIN go.devs
NewId == IF Devices \ DOMAIN go.devs = {} THEN None ELSE CHOOSE d \in Devices \ DOMAIN go.devs : TRUE

\* [ok, go]: what becomes of a call, and of what Go holds. A device that is made
\* from a model keeps it: the model is not deleted.
Done(c) ==
  LET Yes(g) == [ok |-> TRUE, go |-> g]
      No     == [ok |-> FALSE, go |-> go]
      Set(d, v) == Yes([go EXCEPT !.devs = Put(d, v)])
      Running(r) == IF There(c) THEN Set(c.dev, [go.devs[c.dev] EXCEPT !.running = r]) ELSE No
  IN CASE c.kind = "save" /\ c.dev = None -> IF NewId # None /\ c.with.model \in go.models THEN Set(NewId, [Device(c.with.model) EXCEPT !.text = c.with.text]) ELSE No
       [] c.kind = "save" /\ c.dev # None -> IF There(c) THEN Set(c.dev, [go.devs[c.dev] EXCEPT !.text = c.with.text]) ELSE No
       [] c.kind = "start"     -> Running(TRUE)
       [] c.kind = "stop"      -> Running(FALSE)
       [] c.kind = "restart"   -> IF There(c) /\ go.devs[c.dev].running THEN Yes(go) ELSE No
       [] c.kind = "duplicate" -> IF There(c) /\ NewId # None THEN Set(NewId, [go.devs[c.dev] EXCEPT !.running = FALSE]) ELSE No
       [] c.kind = "remove"    -> Yes([go EXCEPT !.devs = Without(c.dev)])
       [] c.kind = "faults"    -> IF Check(c.with) /\ There(c) THEN Set(c.dev, [go.devs[c.dev] EXCEPT !.faults = c.with]) ELSE No
       [] c.kind = "deleteModel" -> IF \E d \in DOMAIN go.devs : go.devs[d].model = c.with THEN No
                                    ELSE Yes([go EXCEPT !.models = @ \ {c.with}])
       [] c.kind \in {"importModels", "record"} -> Yes([go EXCEPT !.models = @ \cup {Custom}])
       [] OTHER -> IF c.kind \in {"credentials", "sendTrap"} /\ ~There(c) THEN No ELSE Yes(go)

serve ==
  \E i \in DOMAIN calls :
    LET c == calls[i] IN
    /\ ~c.served /\ (c.kind = "list" => ~InOrder)
    /\ \E ok \in (IF c.kind \in {"record", "preview", "start"} THEN BOOLEAN ELSE {TRUE}) :
         LET r == IF ok THEN Done(c) ELSE [ok |-> FALSE, go |-> go]
             s == [c EXCEPT !.served = TRUE, !.ok = r.ok, !.answer = IF c.kind = "list" THEN go ELSE None]
         IN /\ go' = r.go
            /\ calls' = [calls EXCEPT ![i] = s] \o (IF r.go # go THEN simulator_changed(c) ELSE <<>>)
            /\ refused' = (refused \/ (c.kind = "faults" /\ ~Check(c.with)))
    /\ UNCHANGED <<list, modal, count>>

\* The devices that start with the application, once the credentials are there.
startAutoSimulated ==
  /\ count.auto /\ count' = [count EXCEPT !.auto = FALSE]
  /\ go' = [go EXCEPT !.devs = [d \in DOMAIN @ |-> [@[d] EXCEPT !.running = TRUE]]]
  /\ calls' = calls \o simulator_changed([dev |-> None, me |-> 0])
  /\ UNCHANGED <<list, modal, refused>>

-----------------------------------------------------------------------------
(* What the dialog makes of an answer. *)

Ops == {"start", "stop", "restart", "duplicate", "faults", "sendTrap"}

\* A plausible bug: the call that ends frees every device.
AllFree(m, d) == [m EXCEPT !.busy = {}]

Free(m, d) == [m EXCEPT !.busy = @ \ {d}]

\* The preview is asked again a moment after the editor changed, while it is
\* looked at.
schedulePreview(m) == [m EXCEPT !.timer = @ \/ (m.tab = "data" /\ m.editing # None)]

onModel(m, id) ==
  IF m.editing = None \/ m.editing.id # None THEN m
  ELSE schedulePreview([m EXCEPT !.editing.model = id])

\* A plausible bug: the answer that comes is the one shown.
Whichever(m, c) == TRUE

LastAsked(m, c) == c.n = m.seq

previewed(m, c) ==
  IF ~LastAsked(m, c) THEN m
  ELSE IF c.ok THEN [m EXCEPT !.preview = c.with, !.failed = FALSE, !.busyPreview = FALSE]
               ELSE [m EXCEPT !.failed = TRUE, !.busyPreview = FALSE]

\* A plausible bug: a model that is gone stays the new device's.
StaysTheModel(m, c) == m

\* The new device is given another model than the one deleted.
AnotherModel(m, c) == IF m.editing # None /\ m.editing.model = c.with THEN onModel(m, Catalogue[1]) ELSE m

opened(e) == [id |-> e.id, model |-> e.model, text |-> e.text]

\* What the dialog is after an answer, and the lists it asks for next: a device
\* whose faults were set, or that was copied, is busy until the list is back.
Answered(m, c) ==
  LET again == c.kind \in {"save", "faults", "duplicate", "remove"} /\ c.ok
  IN [asks  |-> IF again THEN <<refresh(c, c.kind)>>
                ELSE IF c.kind \in {"start", "stop", "restart", "sendTrap"} THEN <<refresh(c, None)>> ELSE <<>>,
      modal |->
        IF m = None \/ m.me # c.me THEN m
        ELSE CASE c.kind = "save" -> IF c.ok THEN [m EXCEPT !.editing = None] ELSE [m EXCEPT !.saving = FALSE]
               [] c.kind = "list" -> IF c.after = "save" THEN [m EXCEPT !.saving = FALSE]
                                     ELSE IF c.after \in {"faults", "duplicate"} THEN Free(m, c.dev) ELSE m
               [] c.kind \in Ops -> IF again THEN m ELSE Free(m, c.dev)
               [] c.kind \in {"credentials", "suggest"} ->
                    IF c.ok THEN [m EXCEPT !.editing = c.with, !.tab = "identity"] ELSE m
               [] c.kind = "preview" -> previewed(m, c)
               [] c.kind = "deleteModel" -> IF c.ok THEN AnotherModel(m, c) ELSE m
               [] c.kind \in {"importModels", "record"} -> IF c.ok THEN onModel(m, Custom) ELSE m
               [] OTHER -> m]

\* Lists that are answered in the order they were asked are as good as answered
\* at once. The models are listed again before what is done of them.
answer ==
  \E i \in DOMAIN calls :
    LET c == calls[i] IN
    /\ c.served \/ (c.kind = "list" /\ InOrder)
    /\ (c.kind = "list" /\ InOrder) => \A j \in 1..(i - 1) : calls[j].kind # "list"
    /\ LET a == Answered(modal, c)
       IN /\ modal' = a.modal /\ calls' = RemoveAt(calls, i) \o a.asks
    /\ list' = CASE c.kind = "list" -> IF InOrder THEN go ELSE c.answer
                 [] c.kind \in {"deleteModel", "importModels", "record"} /\ c.ok -> [list EXCEPT !.models = go.models]
                 [] OTHER -> list
    /\ UNCHANGED <<go, refused, count>>

-----------------------------------------------------------------------------
(* The gestures. *)

open ==
  /\ modal = None /\ Clicked(1)
  /\ modal' = Fresh(count.clicks + 1) /\ calls' = Append(calls, [Ask("list", None, None) EXCEPT !.me = count.clicks + 1])
  /\ Still

close == /\ modal # None /\ modal' = None /\ count' = [count EXCEPT !.crossed = @ \/ Deleting]
         /\ UNCHANGED <<go, list, calls, refused>>

\* The list is read again every two seconds while the dialog is open.
poll ==
  /\ modal # None /\ count.calls < MaxCalls /\ Len(calls) < MaxUnderWay /\ ~\E c \in ToSet(calls) : c.kind = "list"
  /\ calls' = Append(calls, Ask("list", None, None)) /\ Counted
  /\ UNCHANGED <<go, list, modal, refused>>

Editing == modal # None /\ modal.editing # None
Listing == modal # None /\ modal.editing = None
Calls(c, m) == calls' = Append(calls, c) /\ modal' = m /\ Still
Shows(m) == modal' = m /\ Still /\ UNCHANGED calls

newDevice == /\ Listing /\ Clicked(1)
             /\ Calls(Ask("suggest", None, [id |-> None, model |-> Catalogue[1], text |-> 0]), modal)

edit == /\ Listing /\ Clicked(1)
        /\ \E d \in DOMAIN list.devs :
             Calls(Ask("credentials", d, [id |-> d, model |-> list.devs[d].model, text |-> list.devs[d].text]), modal)

cancel == Editing /\ Clicked(0) /\ Shows([modal EXCEPT !.editing = None])

typed == Editing /\ Clicked(0) /\ Shows(schedulePreview([modal EXCEPT !.editing.text = 1 - @]))

openTab ==
  /\ Editing /\ Clicked(0)
  /\ Shows(IF modal.tab = "identity" THEN schedulePreview([modal EXCEPT !.tab = "data", !.preview = None])
                                     ELSE [modal EXCEPT !.tab = "identity"])

\* The picker lists the models of the category it is narrowed to.
filterModels(ms, c) == {m \in ms : c = None \/ Category[m] = c}

choose ==
  /\ Editing /\ modal.tab = "identity" /\ modal.editing.id = None /\ Clicked(0)
  /\ \E c \in {None} \cup {Category[x] : x \in list.models} :
     \E m \in filterModels(list.models, c) \ {modal.editing.model} :
       Shows([onModel(modal, m) EXCEPT !.confirmModel = None])

runPreview(m) ==
  /\ count.calls < MaxCalls /\ Len(calls) < MaxUnderWay /\ Counted
  /\ Calls([Ask("preview", m.editing.id, m.editing) EXCEPT !.n = m.seq + 1], [m EXCEPT !.seq = @ + 1, !.busyPreview = TRUE])

timerFires ==
  /\ modal # None /\ modal.timer
  /\ IF modal.editing = None THEN Shows([modal EXCEPT !.timer = FALSE]) /\ UNCHANGED count
     ELSE runPreview([modal EXCEPT !.timer = FALSE])

\* What moves is read again every five seconds.
live == /\ Editing /\ modal.tab = "data" /\ ~modal.busyPreview /\ runPreview(modal)

save == /\ Editing /\ ~modal.saving /\ Clicked(1)
        /\ Calls(Ask("save", modal.editing.id, modal.editing), [modal EXCEPT !.saving = TRUE])

\* A call about a device that has none on the way.
op(k, d, with) == d \notin modal.busy /\ Calls(Ask(k, d, with), [modal EXCEPT !.busy = @ \cup {d}])

OfOne(kinds) == Listing /\ Clicked(1) /\ \E d \in DOMAIN list.devs : \E k \in kinds[list.devs[d].running] : op(k, d, None)

run       == OfOne([r \in BOOLEAN |-> IF r THEN {"stop"} ELSE {"start"}])
restart   == OfOne([r \in BOOLEAN |-> IF r THEN {"restart"} ELSE {}])
sendTrap  == OfOne([r \in BOOLEAN |-> IF r THEN {"sendTrap"} ELSE {}])
duplicate == OfOne([r \in BOOLEAN |-> {"duplicate"}])

Bound(v, lo, hi) == IF v < lo THEN lo ELSE IF v > hi THEN hi ELSE v

\* A plausible bug: a share of none is sent with an error.
FromNothing(f) == Bound(f.percent, 0, 100)

Share(f) == IF f.error = None THEN 0 ELSE Bound(f.percent, 1, 100)

faultsPayload(f) ==
  [latency |-> Bound(f.latency, 0, MAX_LATENCY_MS), loss |-> Bound(f.loss, 0, 100), error |-> f.error,
   percent |-> Share(f), speed |-> IF f.speed \in COUNTER_SPEEDS THEN f.speed ELSE 1]

\* The faults panel, from the list or from the editor of a device that is saved.
applyFaults ==
  /\ modal # None /\ Clicked(1)
  /\ \E f \in Forms, d \in IF modal.editing = None THEN DOMAIN list.devs
                         ELSE {modal.editing.id} \cap DOMAIN list.devs : op("faults", d, faultsPayload(f))

remove ==
  /\ Listing
  /\ \E d \in DOMAIN list.devs :
       IF modal.confirm = d THEN Clicked(1) /\ Calls(Ask("remove", d, None), [modal EXCEPT !.confirm = None])
                            ELSE Clicked(0) /\ Shows([modal EXCEPT !.confirm = d])

Recording == \E c \in ToSet(calls) : c.kind = "record"
Importing == \E c \in ToSet(calls) : c.kind = "importModels" /\ c.me = modal.me
New == Editing /\ modal.tab = "identity" /\ modal.editing.id = None

deleteModel ==
  /\ New /\ modal.editing.model = Custom /\ Custom \in list.models /\ ~Recording /\ ~Importing
  /\ ~\E d \in DOMAIN list.devs : list.devs[d].model = Custom
  /\ IF modal.confirmModel = Custom
       THEN Clicked(1) /\ Calls(Ask("deleteModel", None, Custom), [modal EXCEPT !.confirmModel = None])
       ELSE Clicked(0) /\ Shows([modal EXCEPT !.confirmModel = Custom])

importModels == New /\ ~Recording /\ ~Importing /\ Crossing(1) /\ Calls(Ask("importModels", None, None), modal)

recordDevice == New /\ ~Recording /\ ~Importing /\ Crossing(1)
                /\ Calls(Ask("record", None, None), [modal EXCEPT !.stopAsked = FALSE])

\* What was recorded is given up: the call fails, if it has not ended.
stopRecording ==
  /\ New /\ Clicked(0)
  /\ \E i \in DOMAIN calls : /\ calls[i].kind = "record" /\ ~calls[i].served
                             /\ calls' = [calls EXCEPT ![i].served = TRUE, ![i].ok = FALSE]
  /\ modal' = [modal EXCEPT !.stopAsked = TRUE] /\ Still

Exporting == \E c \in ToSet(calls) : c.kind = "export" /\ c.me = modal.me

\* What an export holds is asked each time.
askExport ==
  /\ Listing /\ modal.exports = None /\ ~Exporting /\ Clicked(0)
  /\ \E ids \in {{}} \cup {{d} : d \in DOMAIN list.devs} : Shows([modal EXCEPT !.exports = ids])

exportDevices ==
  /\ modal # None /\ modal.exports # None
  /\ \/ Clicked(0) /\ Shows([modal EXCEPT !.exports = None])
     \/ Clicked(1) /\ Calls(Ask("export", None, modal.exports), [modal EXCEPT !.exports = None])

-----------------------------------------------------------------------------
Init ==
  /\ go = [devs |-> [d \in Present |-> Device(Catalogue[1])], models |-> Ids]
  /\ list = go /\ calls = <<>> /\ refused = FALSE
  /\ modal \in {None, Fresh(0)} \cup {[Fresh(0) EXCEPT !.editing = [id |-> None, model |-> m, text |-> 0]] : m \in Ids}
  /\ count = [calls |-> 0, clicks |-> 0, auto |-> TRUE, crossed |-> FALSE]

Next ==
  \/ open \/ close \/ poll \/ newDevice \/ edit \/ cancel \/ typed \/ openTab \/ choose
  \/ timerFires \/ live \/ save \/ run \/ restart \/ sendTrap \/ duplicate
  \/ applyFaults \/ remove \/ deleteModel \/ importModels
  \/ recordDevice \/ stopRecording \/ askExport \/ exportDevices \/ startAutoSimulated \/ serve \/ answer

Spec == Init /\ [][Next]_vars

-----------------------------------------------------------------------------
\* A device is busy exactly while the dialog has a call of its under way, so it
\* has never two at once, and none is left unusable (run, applyFaults).
BusyIsUnderWay ==
  modal # None =>
    LET mine == {i \in DOMAIN calls : /\ calls[i].me = modal.me
                                      /\ calls[i].kind \in Ops \/ calls[i].after \in {"faults", "duplicate"}}
    IN /\ modal.busy = {calls[i].dev : i \in mine}
       /\ \A i, j \in mine : calls[i].dev = calls[j].dev => i = j

\* A preview that is not being asked for is of the device as it is edited,
\* however the answers crossed (runPreview).
PreviewIsOfTheDevice ==
  (Editing /\ modal.tab = "data" /\ ~modal.timer /\ ~modal.busyPreview /\ ~modal.failed)
    => modal.preview = modal.editing

\* Once nothing is under way the list is what Go holds, whoever changed it, and
\* the header counts the devices that run.
ListIsTheBench == calls = <<>> => list = go

\* Nobody makes a device from a model that is no longer there, unless the dialog
\* was closed, or another model asked for, while one was being deleted.
ModelIsThere == (New /\ ~Deleting /\ ~count.crossed) => modal.editing.model \in go.models

\* What the panel is typed into, Go takes (faultsPayload).
FaultsAreTaken == ~refused

\* What the dialog shows of the bench is what Go says of it.
BenchIsTold ==
  /\ BusyIsUnderWay /\ PreviewIsOfTheDevice /\ ListIsTheBench /\ ModelIsThere /\ FaultsAreTaken

\* By hand: nobody does, whatever crosses the deletion (deleteModel, importModels
\* and recordDevice do not wait for each other).
EveryModelIsThere == (New /\ ~Deleting) => modal.editing.model \in go.models

\* By hand: a save that ends closes the editor of another device, and late
\* credentials replace a new one; a dialog opened again has two calls of a device
\* under way; a recording stopped from it is said to have failed.
EditorIsKept ==
  [][(Editing /\ modal' # None /\ modal'.editing # modal.editing /\ count' = count)
       => (\/ (modal'.editing # None /\ modal'.editing.id = modal.editing.id)
           \/ \E c \in ToSet(calls) \ ToSet(calls') : c.kind = "save" /\ c.with = modal.editing)]_vars
OneCallADevice ==
  \A i, j \in DOMAIN calls : (calls[i].kind \in Ops /\ calls[j].kind \in Ops /\ calls[i].dev = calls[j].dev) => i = j
StopIsSaid ==
  [][\A c \in ToSet(calls) \ ToSet(calls') : (c.kind = "record" /\ c.served /\ ~c.ok /\ modal # None /\ modal.stopAsked) => c.me = modal.me]_vars
=============================================================================
