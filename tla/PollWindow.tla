----------------------------- MODULE PollWindow -----------------------------
(***************************************************************************)
(* The window onto the poll clocks (frontend/src/stores/pollingStore.js).  *)
(*                                                                         *)
(* The clocks run in Go.  The page calls it, each call served by a         *)
(* goroutine of its own, and hears answers and samples through one channel *)
(* in the order Go sent them.  Between a call and its answer anything else *)
(* may arrive, and the rows the page shows are its own copy.               *)
(***************************************************************************)
EXTENDS Integers, FiniteSets, SequencesExt, Places

CONSTANTS
  Ids,          \* session ids, in the order Go gives them out
  Cap,          \* samples a row keeps (MAX_DATA_POINTS per series)
  MaxSamples,   \* bound: samples of one session
  MaxCommands,  \* bound: commands of the operator
  MaxFaults     \* bound: calls Go refuses

VARIABLES
  rows,      \* pollingStore: a sequence of [id, running, results, slow]
  boot,      \* initFromBackend: "timer", "list", "data", "running" or "done"
  loading,   \* the sessions it still has to load, and the rows it has
  secret,    \* which credentials the settings hold
  calls,     \* the calls Go has not served
  chan,      \* what Go has sent and the page has not heard
  go,        \* sessions stored and polled, their credentials and samples
  budget

vars == <<rows, boot, loading, secret, calls, chan, go, budget>>

Spend(kind) == budget[kind] > 0 /\ budget' = [budget EXCEPT ![kind] = @ - 1]

Call(op, id, arg) == [op |-> op, id |-> id, arg |-> arg]
NoId == 0

-----------------------------------------------------------------------------
(* The rows. *)

sessionFromBackend(id, results) == [id |-> id, running |-> FALSE, results |-> results, slow |-> FALSE]

RowIds     == {r.id : r \in ToSet(rows)}
OnRow(id, f(_)) == [i \in DOMAIN rows |-> IF rows[i].id = id THEN f(rows[i]) ELSE rows[i]]
markRunning(id, on) == OnRow(id, LAMBDA r : [r EXCEPT !.running = on])

Without(id) == Only(rows, {i \in DOMAIN rows : rows[i].id # id})

\* A sample makes its row a running one, whatever the row said.
keepLast(seq) == IF Len(seq) > Cap THEN SubSeq(seq, Len(seq) - Cap + 1, Len(seq)) ELSE seq
withSample(id, n) ==
  OnRow(id, LAMBDA r : [r EXCEPT !.results = keepLast(Append(@, n)), !.running = TRUE])

\* A session Go has created already: a row it has keeps its samples.
adoptSession(id) ==
  IF id \in RowIds
    THEN OnRow(id, LAMBDA r : [sessionFromBackend(id, r.results) EXCEPT !.running = TRUE])
    ELSE Append(rows, [sessionFromBackend(id, <<>>) EXCEPT !.running = TRUE])

-----------------------------------------------------------------------------
(* Go, as the page sees it. *)

FreeIds == {id \in Ids : id \notin go.given}
Answer(c, ok, ids) == [op |-> c.op, id |-> c.id, arg |-> c.arg, ok |-> ok, ids |-> ids]

Create(id, started) ==
  [go EXCEPT !.given = @ \cup {id}, !.stored = @ \cup {id},
             !.polled = IF started THEN @ \cup {id} ELSE @, !.cred[id] = secret]

Serve(c) ==
  /\ calls' = calls \ {c}
  /\ \/ /\ c.op = "list"
        /\ \E ids \in SetToSeqs(go.stored) : chan' = Append(chan, Answer(c, TRUE, ids))
        /\ UNCHANGED <<go, budget>>
     \/ /\ c.op = "data"
        /\ chan' = Append(chan, Answer(c, TRUE, [n \in 1..go.written[c.id] |-> n]))
        /\ UNCHANGED <<go, budget>>
     \/ /\ c.op = "running"
        /\ \E ids \in SetToSeqs(go.polled) : chan' = Append(chan, Answer(c, TRUE, ids))
        /\ UNCHANGED <<go, budget>>
     \/ /\ c.op \in {"create", "bind"} /\ FreeIds # {}
        /\ LET id == CHOOSE x \in FreeIds : \A y \in FreeIds : x <= y
           IN /\ go' = Create(id, c.op = "bind")
              /\ chan' = Append(chan, [Answer(c, TRUE, <<>>) EXCEPT !.id = id])
        /\ UNCHANGED budget
     \/ /\ c.op = "start"
        /\ go' = IF c.id \in go.stored THEN [go EXCEPT !.polled = @ \cup {c.id}] ELSE go
        /\ chan' = Append(chan, Answer(c, c.id \in go.stored, <<>>))
        /\ UNCHANGED budget
     \/ /\ c.op \in {"stop", "unload"}
        /\ go' = [go EXCEPT !.polled = @ \ {c.id}]
        /\ chan' = Append(chan, Answer(c, TRUE, <<>>))
        /\ UNCHANGED budget
     \/ /\ c.op = "delete"
        /\ go' = [go EXCEPT !.polled = @ \ {c.id}, !.stored = @ \ {c.id}]
        /\ UNCHANGED <<chan, budget>>
     \/ /\ c.op = "update"
        /\ go' = [go EXCEPT !.cred[c.id] = c.arg.secret]
        /\ chan' = Append(chan, Answer(c, TRUE, <<>>))
        /\ UNCHANGED budget
     \/ /\ c.op \in {"list", "data", "running", "create", "bind", "start", "update"}
        /\ Spend("fault")
        /\ chan' = Append(chan, Answer(c, FALSE, <<>>))
        /\ UNCHANGED go
  /\ UNCHANGED <<rows, boot, loading, secret>>

\* A round of a clock: the sample is sent, and written with a later flush.
Sample ==
  \E id \in go.polled :
    /\ go.taken[id] < MaxSamples
    /\ go' = [go EXCEPT !.taken[id] = @ + 1]
    /\ chan' = Append(chan, [op |-> "sample", id |-> id, arg |-> go.taken[id] + 1, ok |-> TRUE, ids |-> <<>>])
    /\ UNCHANGED <<rows, boot, loading, secret, calls, budget>>

Flush ==
  /\ go.written # go.taken
  /\ go' = [go EXCEPT !.written = go.taken]
  /\ UNCHANGED <<rows, boot, loading, secret, calls, chan, budget>>

\* The scheduler says that a session cannot keep up, or can again.
Overrun ==
  \E id \in go.polled, slow \in BOOLEAN :
    /\ Spend("fault")
    /\ chan' = Append(chan, [op |-> "overrun", id |-> id, arg |-> slow, ok |-> TRUE, ids |-> <<>>])
    /\ UNCHANGED <<rows, boot, loading, secret, calls, go>>

-----------------------------------------------------------------------------
(* The commands of the operator. *)

Command(new) ==
  /\ Spend("command")
  /\ calls' = calls \cup new
  /\ UNCHANGED <<boot, loading, chan, go>>

\* One session for each way the targets authenticate, one after the other.
startPolling ==
  \E groups \in 1..2 :
    Command({Call("create", NoId, [left |-> groups - 1])}) /\ UNCHANGED <<rows, secret>>

bindPreset == Command({Call("bind", NoId, [left |-> 0])}) /\ UNCHANGED <<rows, secret>>

resumeSession ==
  \E r \in ToSet(rows) :
    /\ ~r.running
    /\ Command({Call("start", r.id, [left |-> 0])})
    /\ rows' = markRunning(r.id, TRUE)
    /\ UNCHANGED secret

stopPolling ==
  \E r \in ToSet(rows) :
    /\ r.running
    /\ Command({Call("stop", r.id, [left |-> 0])})
    /\ rows' = markRunning(r.id, FALSE)
    /\ UNCHANGED secret

stopAll ==
  LET on == {r.id : r \in {x \in ToSet(rows) : x.running}}
  IN /\ on # {}
     /\ Command({Call("stop", id, [left |-> 0]) : id \in on})
     /\ rows' = [i \in DOMAIN rows |-> [rows[i] EXCEPT !.running = FALSE]]
     /\ UNCHANGED secret

\* The clock is stopped first; the row goes when that is answered.
removeSession ==
  \E r \in ToSet(rows) :
    Command({Call("unload", r.id, [left |-> 0])}) /\ UNCHANGED <<rows, secret>>

acceptSlow ==
  \E r \in ToSet(rows) :
    /\ r.slow
    /\ Command({})
    /\ rows' = OnRow(r.id, LAMBDA x : [x EXCEPT !.slow = FALSE])
    /\ UNCHANGED secret

\* The settings are saved with other credentials, and the sessions shown now
\* are told one after the other.
Follow(ids, s) ==
  IF ids = <<>> THEN {} ELSE {Call("update", Head(ids), [left |-> Tail(ids), secret |-> s])}

followCredentials ==
  /\ secret' = secret + 1
  /\ Command(Follow([i \in DOMAIN rows |-> rows[i].id], secret + 1))
  /\ UNCHANGED rows

-----------------------------------------------------------------------------
(* initFromBackend, from its timer on. *)

initFromBackend ==
  /\ boot = "timer"
  /\ boot' = "list"
  /\ calls' = calls \cup {Call("list", NoId, [left |-> 0])}
  /\ UNCHANGED <<rows, loading, secret, chan, go, budget>>

\* One call at a time, and after the last what Go polls.
LoadGoesOn(left, loaded) ==
  IF left = <<>>
    THEN /\ boot' = "running"
         /\ loading' = [left |-> <<>>, loaded |-> <<>>]
         /\ calls' = calls \cup {Call("running", NoId, [left |-> 0])}
    ELSE /\ boot' = "data"
         /\ loading' = [left |-> left, loaded |-> loaded]
         /\ calls' = calls \cup {Call("data", Head(left), [left |-> 0])}

\* A plausible bug: what arrived while a session was read is kept behind it.
LoadMerged(left, loaded) ==
  /\ rows' = IF left # <<>> THEN rows ELSE
       [i \in DOMAIN loaded |->
          [loaded[i] EXCEPT !.results =
             @ \o FlattenSeq([j \in DOMAIN rows |-> IF rows[j].id = loaded[i].id THEN rows[j].results ELSE <<>>])]]
  /\ LoadGoesOn(left, loaded)

\* A plausible bug: the rows made meanwhile stay, beside those that were read.
LoadBeside(left, loaded) ==
  /\ rows' = IF left = <<>> THEN rows \o loaded ELSE rows
  /\ LoadGoesOn(left, loaded)

\* The sessions are read one at a time; with the last, the rows are replaced.
LoadNext(left, loaded) ==
  /\ rows' = IF left = <<>> THEN loaded ELSE rows
  /\ LoadGoesOn(left, loaded)

HearList(m) ==
  /\ m.op = "list"
  /\ IF m.ids = <<>>
       THEN boot' = "done" /\ UNCHANGED <<rows, loading, calls>>
       ELSE LoadNext(m.ids, <<>>)

HearData(m) ==
  /\ m.op = "data"
  /\ LoadNext(Tail(loading.left), Append(loading.loaded, sessionFromBackend(m.id, m.ids)))

\* reconcileWithScheduler: what Go polls is what runs.  With automatic resume
\* the rest is started.
HearRunning(m) ==
  /\ m.op = "running"
  /\ boot' = "done"
  /\ \E autoResume \in BOOLEAN :
       LET idle == {r.id : r \in {x \in ToSet(rows) : x.id \notin ToSet(m.ids) /\ x.results # <<>>}}
           also == IF autoResume THEN idle ELSE {}
       IN /\ rows' = [i \in DOMAIN rows |->
                        [rows[i] EXCEPT !.running = rows[i].id \in ToSet(m.ids) \cup also]]
          /\ calls' = calls \cup {Call("start", id, [left |-> 0]) : id \in also}
  /\ UNCHANGED loading

-----------------------------------------------------------------------------
(* What the page hears. *)

HearSample(m) ==
  /\ m.op = "sample"
  /\ rows' = withSample(m.id, m.arg)
  /\ UNCHANGED <<boot, loading, calls>>

HearOverrun(m) ==
  /\ m.op = "overrun"
  /\ rows' = OnRow(m.id, LAMBDA r : [r EXCEPT !.slow = m.arg])
  /\ UNCHANGED <<boot, loading, calls>>

\* Created: the row is shown as running, and started.  Refused: startPolling
\* gives up, and the groups before keep their sessions.
HearCreate(m) ==
  /\ m.op = "create"
  /\ IF m.ok
       THEN /\ rows' = Append(rows, [sessionFromBackend(m.id, <<>>) EXCEPT !.running = TRUE])
            /\ calls' = calls \cup {Call("start", m.id, m.arg)}
       ELSE UNCHANGED <<rows, calls>>
  /\ UNCHANGED <<boot, loading>>

\* Started or not, the next group follows.
HearStart(m) ==
  /\ m.op = "start"
  /\ rows' = IF m.ok THEN rows ELSE markRunning(m.id, FALSE)
  /\ calls' = IF m.arg.left > 0
                THEN calls \cup {Call("create", NoId, [left |-> m.arg.left - 1])} ELSE calls
  /\ UNCHANGED <<boot, loading>>

HearBind(m) ==
  /\ m.op = "bind"
  /\ rows' = IF m.ok THEN adoptSession(m.id) ELSE rows
  /\ UNCHANGED <<boot, loading, calls>>

HearStop(m) == m.op = "stop" /\ UNCHANGED <<rows, boot, loading, calls>>

HearUnload(m) ==
  /\ m.op = "unload"
  /\ rows' = Without(m.id)
  /\ calls' = calls \cup {Call("delete", m.id, [left |-> 0])}
  /\ UNCHANGED <<boot, loading>>

HearUpdate(m) ==
  /\ m.op = "update"
  /\ calls' = calls \cup Follow(m.arg.left, m.arg.secret)
  /\ UNCHANGED <<rows, boot, loading>>

Hear ==
  /\ chan # <<>>
  /\ chan' = Tail(chan)
  /\ LET m == Head(chan)
     IN \/ HearList(m) \/ HearData(m) \/ HearRunning(m) \/ HearSample(m) \/ HearOverrun(m)
        \/ HearCreate(m) \/ HearStart(m) \/ HearBind(m) \/ HearStop(m) \/ HearUnload(m) \/ HearUpdate(m)
  /\ UNCHANGED <<secret, go, budget>>

-----------------------------------------------------------------------------
\* What an earlier window left: nothing, or a session that polls or does not.
Init ==
  /\ rows = <<>> /\ boot = "timer"
  /\ loading = [left |-> <<>>, loaded |-> <<>>]
  /\ secret = 0
  /\ calls = {} /\ chan = <<>>
  /\ \E kept \in {{}, {1}} : \E polled \in SUBSET kept :
       go = [given |-> kept, stored |-> kept, polled |-> polled, cred |-> [id \in Ids |-> 0],
             taken   |-> [id \in Ids |-> IF id \in kept THEN 1 ELSE 0],
             written |-> [id \in Ids |-> IF id \in kept THEN 1 ELSE 0]]
  /\ budget = [command |-> MaxCommands, fault |-> MaxFaults]

Next ==
  \/ initFromBackend \/ Hear
  \/ startPolling \/ bindPreset \/ resumeSession \/ stopPolling \/ stopAll
  \/ removeSession \/ acceptSlow \/ followCredentials
  \/ (\E c \in calls : Serve(c)) \/ Sample \/ Flush \/ Overrun

Spec == Init /\ [][Next]_vars

-----------------------------------------------------------------------------
Quiet == calls = {} /\ chan = <<>> /\ boot = "done"

\* A row never shows a sample twice, nor an earlier one after a later: the
\* history loaded at the start and the samples that go on arriving are two
\* ways in, and the rows are replaced while they do (initFromBackend).
EachSampleOnceInOrder ==
  \A r \in ToSet(rows) : \A i, j \in DOMAIN r.results : i < j => r.results[i] < r.results[j]

\* One row for one monitoring, however the load, a start and a binding answer
\* around each other (adoptSession, startPolling).
OneRowPerSession ==
  \A i, j \in DOMAIN rows : rows[i].id = rows[j].id => i = j

\* By hand: the window shows what the poll clock is doing.
RunningIsTheClock == Quiet => \A r \in ToSet(rows) : r.running <=> r.id \in go.polled
\* By hand: what Go stores is shown, and nothing else.
ShowsWhatIsStored == Quiet => RowIds = go.stored
\* By hand: a session that follows its identifiers has the last ones.
LatestCredentials == Quiet => \A id \in go.stored : go.cred[id] = secret
=============================================================================
