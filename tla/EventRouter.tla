---------------------------- MODULE EventRouter ----------------------------
(***************************************************************************)
(* The path of an alert from its producer to the outbox                    *)
(* (internal/app/router.go, internal/app/app.go, pkg/storage/watermark.go, *)
(* pkg/storage/events.go).                                                 *)
(*                                                                         *)
(* A producer (the trap listener, the poll clock, the dispatcher reporting *)
(* a dead letter) journals an event on its own goroutine, then hands it to *)
(* the router's goroutine through a bounded channel.  The router routes in *)
(* batches and writes the deliveries of a batch and a watermark in one     *)
(* transaction.  After a crash, the next process replays what the journal  *)
(* holds above the watermark.                                              *)
(*                                                                         *)
(* Events are their seq.  Which destinations the rules select for an event *)
(* depends on the event only (app.go:977), so it is a constant, Wanted.    *)
(* The clock is a choice: a retry delay is over when BackoffElapses says.  *)
(***************************************************************************)
EXTENDS Integers, Sequences, FiniteSets

CONSTANTS
  Producers,       \* goroutines that record events
  Early,           \* those already running while the replay runs
  Late,            \* those still running after the router is told to stop
  PoolWatch,       \* the router's own goroutine, as the producer of watchPool
  PoolCongested,   \* whether the database ever makes callers wait too long
  Sinks,           \* notification destinations
  MaxSeq,          \* bound: events ever journalled
  Wanted,          \* what the routing rules select for each event
  QueueDepth,      \* routeQueueDepth
  BatchSize,       \* routeBatchSize
  MaxCrashes,      \* bound: crashes
  MaxFaults,       \* bound: failed reads or writes outside the replay
  MaxReplayFaults, \* bound: failed reads or writes of the replay
  MaxDeletes       \* bound: deletions from the journal

Seqs   == 1..MaxSeq
Actors == Producers \cup {PoolWatch}

ASSUME BoundsAssumption ==
  /\ MaxSeq \in Nat
  /\ QueueDepth \in Nat
  /\ BatchSize \in Nat \ {0}
  /\ MaxCrashes \in Nat
  /\ MaxFaults \in Nat
  /\ MaxReplayFaults \in Nat
  /\ MaxDeletes \in Nat

ASSUME RoutesAssumption ==
  /\ Wanted \in [Seqs -> SUBSET Sinks]
  /\ PoolCongested \in BOOLEAN

ASSUME ActorsAssumption == PoolWatch \notin Producers

VARIABLES
  \* what the database holds
  journal,      \* the seqs of the rows of events
  nextSeq,      \* the AUTOINCREMENT counter of events.seq
  watermark,    \* notify_watermark.routed_through_seq
  outbox,       \* <<seq, sink>> of every row notify_outbox was given
  \* the process
  phase,        \* "down", "replay", "live" or "stopping"
  pc,           \* where each producer is in recordEvent
  held,         \* the seq each producer holds, 0 when none
  queue,        \* the channel
  inflight,     \* eventRouter.inflight
  highest,      \* eventRouter.highest
  confirmed,    \* eventRouter.confirmed
  batch,        \* events read from the channel and not yet flushed
  deferred,     \* eventRouter.deferred
  backingOff,   \* retryAt lies in the future
  poolReported, \* eventRouter.poolReported
  rpc,          \* where the router's goroutine is
  then,         \* where it goes on after the flush under way
  draining,     \* the router has seen done closed
  settling,     \* the events of the flush under way that were routed
  mark,         \* the watermark that flush is about to write
  rpos,         \* the replay's own position
  chunk,        \* the events the replay has read and not yet written
  \* bookkeeping of the model
  exposed,      \* events that were neither owed nor queued when a later one was accepted
  budget        \* faults, crashes and deletions still allowed

database == <<journal, nextSeq, watermark, outbox>>
producer == <<pc, held>>
owed     == <<inflight, highest, confirmed>>
router   == <<batch, deferred, backingOff, poolReported, rpc, then, draining, settling, mark>>
replay   == <<rpos, chunk>>
vars     == <<database, phase, producer, queue, owed, router, replay, exposed, budget>>

Rows(S)    == {row \in S \X Sinks : row[2] \in Wanted[row[1]]}
Covered(s) == Rows({s}) \subseteq outbox

Higher(a, b) == IF a > b THEN a ELSE b

\* Whether x is the lowest member of S.
IsLowest(x, S) == x \in S /\ \A y \in S : x <= y

Spend(kind) == /\ budget[kind] > 0
               /\ budget' = [budget EXCEPT ![kind] = @ - 1]

-----------------------------------------------------------------------------
(* The watermark: what is safe is the lowest seq still in flight, minus one. *)

\* Mutants: the mark one past what is settled, and the mark of the lowest itself.
SafeMarkOnePast(owing) ==
  IF owing = {} THEN Higher(highest, confirmed) + 1
  ELSE Higher((CHOOSE x \in owing : IsLowest(x, owing)) - 1, confirmed)

SafeMarkAtLowest(owing) ==
  IF owing = {} THEN Higher(highest, confirmed)
  ELSE Higher(CHOOSE x \in owing : IsLowest(x, owing), confirmed)

SafeMark(owing) ==
  IF owing = {} THEN Higher(highest, confirmed)
  ELSE Higher((CHOOSE x \in owing : IsLowest(x, owing)) - 1, confirmed)

\* Mutant: the mark computed from what was accepted, not from what is owed.
MarkIgnoringInflight(S) == Higher(highest, confirmed)

\* The watermark that would be safe to record if S were settled.
MarkIfSettled(S) == SafeMark(inflight \ S)

\* Mutant: the events that were deferred are settled with the others.
SettleDeferredToo(S) ==
  /\ inflight' = inflight \ (S \cup deferred)
  /\ confirmed' = SafeMark(inflight \ (S \cup deferred))
  /\ UNCHANGED highest

Settle(S) ==
  /\ inflight' = inflight \ S
  /\ confirmed' = SafeMark(inflight \ S)
  /\ UNCHANGED highest

\* Mutant: the watermark is overwritten, as if one writer only ever moved it.
EnqueueOverwriting(S, m) ==
  /\ outbox' = outbox \cup Rows(S)
  /\ watermark' = m
  /\ UNCHANGED <<journal, nextSeq>>

\* EnqueueRouted: the deliveries and the watermark in one transaction; the
\* watermark never goes backwards.
EnqueueRouted(S, m) ==
  /\ outbox' = outbox \cup Rows(S)
  /\ watermark' = Higher(watermark, m)
  /\ UNCHANGED <<journal, nextSeq>>

-----------------------------------------------------------------------------
(* recordEvent, step by step, on the producer's goroutine. *)

MayRecord(p) ==
  /\ pc[p] = "idle"
  /\ \/ phase = "live" /\ p \in Producers
     \/ phase = "replay" /\ p \in Early
     \/ phase = "stopping" /\ p \in Late

InsertEvent(p) ==
  /\ nextSeq <= MaxSeq
  /\ journal' = journal \cup {nextSeq}
  /\ nextSeq' = nextSeq + 1
  /\ pc' = [pc EXCEPT ![p] = "journalled"]
  /\ held' = [held EXCEPT ![p] = nextSeq]
  /\ UNCHANGED <<watermark, outbox, phase, queue, owed, replay, exposed, budget>>

\* The row is committed; the router does not know of it yet.
Record(p) == MayRecord(p) /\ InsertEvent(p) /\ UNCHANGED router

\* accept, its critical section.
Register(p) ==
  /\ pc[p] = "journalled"
  /\ pc' = [pc EXCEPT ![p] = "registered"]
  /\ highest' = Higher(highest, held[p])
  /\ inflight' = inflight \cup {held[p]}
  /\ exposed' = exposed \cup
       {s \in 1..(held[p] - 1) : s \notin inflight /\ ~Covered(s)}
  /\ UNCHANGED <<database, phase, held, queue, confirmed, router, replay, budget>>

\* accept, the channel has room.
Enqueue(p) ==
  /\ pc[p] = "registered"
  /\ Len(queue) < QueueDepth
  /\ queue' = Append(queue, held[p])
  /\ pc' = [pc EXCEPT ![p] = "idle"]
  /\ held' = [held EXCEPT ![p] = 0]
  /\ UNCHANGED <<database, phase, owed, router, replay, exposed, budget>>

\* accept, the channel is full: out of flight again, before it is routed.
Refuse(p) ==
  /\ pc[p] = "registered"
  /\ Len(queue) >= QueueDepth
  /\ Settle({held[p]})
  /\ pc' = [pc EXCEPT ![p] = "refused"]
  /\ exposed' = IF Covered(held[p]) THEN exposed ELSE exposed \cup {held[p]}
  /\ UNCHANGED <<database, phase, held, queue, router, replay, budget>>

\* routeEvent: one transaction per group, and an error is only logged.
RouteInline(p) ==
  /\ pc[p] = "refused"
  /\ \E written \in SUBSET Rows({held[p]}) :
       /\ outbox' = outbox \cup written
       /\ IF written = Rows({held[p]}) THEN UNCHANGED budget ELSE Spend("faults")
  /\ pc' = [pc EXCEPT ![p] = "idle"]
  /\ held' = [held EXCEPT ![p] = 0]
  /\ UNCHANGED <<journal, nextSeq, watermark, phase, queue, owed, router, replay, exposed>>

-----------------------------------------------------------------------------
(* The router's goroutine. *)

Running == phase # "down"

\* Mutant: a failed event is logged and forgotten.
DeferNothing(waiting, S) == {waiting}

\* defer1, for each event of S: the list is bounded, what does not fit is dropped
\* from the list only.
Defer(waiting, S) ==
  {waiting \cup kept : kept \in
     {k \in SUBSET S : \/ k = S /\ Cardinality(waiting) + Cardinality(S) <= QueueDepth
                       \/ Cardinality(waiting) + Cardinality(k) = QueueDepth}}

\* The rest of a flush whose events have been chosen: `bad` of them could not
\* be routed and are deferred, the others have their watermark computed.
BeginFlush(pending, bad, waiting, goOn) ==
  /\ IF bad = {} THEN UNCHANGED budget ELSE Spend("faults")
  /\ deferred' \in Defer(waiting, bad)
  /\ batch' = {}
  /\ settling' = pending \ bad
  /\ mark' = MarkIfSettled(pending \ bad)
  /\ rpc' = "write"
  /\ then' = goOn

\* Mutant: the events taken back for a retry stay on the deferred list.
FlushKeepingDeferred(pending, waiting, goOn) ==
  \E bad \in SUBSET pending : BeginFlush(pending, bad, deferred, goOn)

Flush(pending, waiting, goOn) ==
  \E bad \in SUBSET pending : BeginFlush(pending, bad, waiting, goOn)

\* case e := <-r.queue, in the loop and in drain.
Receive ==
  /\ Running /\ rpc = "select"
  /\ queue # <<>>
  /\ queue' = Tail(queue)
  /\ LET filled == batch \cup {Head(queue)} IN
       IF Cardinality(filled) < BatchSize
       THEN /\ batch' = filled
            /\ UNCHANGED <<deferred, rpc, then, settling, mark, budget>>
       ELSE Flush(filled, deferred, "select")
  /\ UNCHANGED <<database, phase, producer, owed, backingOff, poolReported, draining,
                 replay, exposed>>

\* The deferred events a tick moves back into the batch.
Due(taken) ==
  LET room == BatchSize - Cardinality(batch) IN
    IF backingOff THEN taken = {}
    ELSE /\ Cardinality(taken) <= room
         /\ taken = deferred \/ Cardinality(taken) = room

\* case <-ticker.C: takeDeferred, flush; watchPool follows.
Tick ==
  /\ Running /\ rpc = "select" /\ ~draining
  /\ \E taken \in SUBSET deferred :
       /\ Due(taken)
       /\ IF batch \cup taken = {}
          THEN /\ rpc' = "watch"
               /\ UNCHANGED <<batch, deferred, then, settling, mark, budget>>
          ELSE Flush(batch \cup taken, deferred \ taken, "watch")
  /\ UNCHANGED <<database, phase, producer, queue, owed, backingOff, poolReported, draining,
                 replay, exposed>>

\* The transaction commits.
WriteBatch ==
  /\ Running /\ rpc = "write"
  /\ EnqueueRouted(settling, mark)
  /\ rpc' = "settle"
  /\ UNCHANGED <<phase, producer, queue, owed, batch, deferred, backingOff, poolReported, then,
                 draining, settling, mark, replay, exposed, budget>>

\* The transaction fails: nothing is settled, the batch waits for a retry.
WriteFails ==
  /\ Running /\ rpc = "write"
  /\ Spend("faults")
  /\ deferred' \in Defer(deferred, settling)
  /\ backingOff' = TRUE
  /\ rpc' = then
  /\ settling' = {}
  /\ mark' = 0
  /\ UNCHANGED <<database, phase, producer, queue, owed, batch, poolReported, then, draining,
                 replay, exposed>>

SettleBatch ==
  /\ Running /\ rpc = "settle"
  /\ Settle(settling)
  /\ backingOff' = FALSE
  /\ rpc' = then
  /\ settling' = {}
  /\ mark' = 0
  /\ UNCHANGED <<database, phase, producer, queue, batch, deferred, poolReported, then, draining,
                 replay, exposed, budget>>

BackoffElapses ==
  /\ backingOff
  /\ backingOff' = FALSE
  /\ UNCHANGED <<database, phase, producer, queue, owed, batch, deferred, poolReported, rpc, then,
                 draining, settling, mark, replay, exposed, budget>>

\* watchPool, nothing to say: too soon, a clean window, or already reported.
PoolQuiet ==
  /\ Running /\ rpc = "watch"
  /\ poolReported' \in {poolReported, FALSE}
  /\ rpc' = "select"
  /\ UNCHANGED <<database, phase, producer, queue, owed, batch, deferred, backingOff, then,
                 draining, settling, mark, replay, exposed, budget>>

\* watchPool records an event on the router's own goroutine.
PoolReport ==
  /\ Running /\ rpc = "watch"
  /\ PoolCongested /\ ~poolReported
  /\ InsertEvent(PoolWatch)
  /\ poolReported' = TRUE
  /\ rpc' = "record"
  /\ UNCHANGED <<batch, deferred, backingOff, then, draining, settling, mark>>

PoolReported ==
  /\ Running /\ rpc = "record" /\ pc[PoolWatch] = "idle"
  /\ rpc' = "select"
  /\ UNCHANGED <<database, phase, producer, queue, owed, batch, deferred, backingOff, poolReported,
                 then, draining, settling, mark, replay, exposed, budget>>

\* case <-r.done.
SeeDone ==
  /\ phase = "stopping" /\ rpc = "select" /\ ~draining
  /\ draining' = TRUE
  /\ UNCHANGED <<database, phase, producer, queue, owed, batch, deferred, backingOff, poolReported,
                 rpc, then, settling, mark, replay, exposed, budget>>

\* drain finds the channel empty: flush what is left, then return.
Drained ==
  /\ Running /\ rpc = "select" /\ draining
  /\ queue = <<>>
  /\ IF batch = {}
     THEN /\ rpc' = "stopped"
          /\ UNCHANGED <<batch, deferred, then, settling, mark, budget>>
     ELSE Flush(batch, deferred, "stopped")
  /\ UNCHANGED <<database, phase, producer, queue, owed, backingOff, poolReported, draining,
                 replay, exposed>>

-----------------------------------------------------------------------------
(* The process: startup, replay, shutdown, crash. *)

Newest == IF journal = {} THEN 0 ELSE CHOOSE s \in journal : \A t \in journal : t <= s

\* newEventRouter, start, and replayUnrouted reading the watermark, which is
\* trusted no further than the newest event.
Start ==
  /\ phase = "down"
  /\ phase' = "replay"
  /\ rpc' = "select"
  /\ watermark' = IF watermark > Newest THEN Newest ELSE watermark
  /\ rpos' = watermark'
  /\ UNCHANGED <<journal, nextSeq, outbox, producer, queue, owed, batch, deferred, backingOff,
                 poolReported, then, draining, settling, mark, chunk, exposed, budget>>

\* EventsAfter(mark, routeBatchSize).
ReplayRead ==
  /\ phase = "replay" /\ chunk = {}
  /\ LET above == {s \in journal : s > rpos} IN
       /\ above # {}
       /\ chunk' = {s \in above : Cardinality({t \in above : t <= s}) <= BatchSize}
  /\ UNCHANGED <<database, phase, producer, queue, owed, router, rpos, exposed, budget>>

ReplayWrite ==
  /\ phase = "replay"
  /\ \E last \in chunk :
       /\ \A s \in chunk : s <= last
       /\ EnqueueRouted(chunk, last)
       /\ rpos' = last
  /\ chunk' = {}
  /\ UNCHANGED <<phase, producer, queue, owed, router, exposed, budget>>

\* Nothing is left above the replay's position.
ReplayDone ==
  /\ phase = "replay" /\ chunk = {}
  /\ \A s \in journal : s <= rpos
  /\ phase' = "live"
  /\ UNCHANGED <<database, producer, queue, owed, router, replay, exposed, budget>>

\* A read, a routing decision or the transaction fails: the replay returns, and
\* startup goes on.
ReplayStops ==
  /\ phase = "replay"
  /\ Spend("replayFaults")
  /\ phase' = "live"
  /\ chunk' = {}
  /\ UNCHANGED <<database, producer, queue, owed, router, rpos, exposed>>

\* shutdown: the trap listener is stopped, then the router is told to stop.
Shutdown ==
  /\ phase = "live"
  /\ \A p \in Producers \ Late : pc[p] = "idle"
  /\ phase' = "stopping"
  /\ UNCHANGED <<database, producer, queue, owed, router, replay, exposed, budget>>

\* What dies with the process.
Vanish ==
  /\ phase' = "down"
  /\ pc' = [p \in Actors |-> "idle"]
  /\ held' = [p \in Actors |-> 0]
  /\ queue' = <<>>
  /\ inflight' = {} /\ highest' = 0 /\ confirmed' = 0
  /\ batch' = {} /\ deferred' = {}
  /\ backingOff' = FALSE /\ poolReported' = FALSE /\ draining' = FALSE
  /\ rpc' = "stopped" /\ then' = "select"
  /\ settling' = {} /\ mark' = 0
  /\ rpos' = 0 /\ chunk' = {}
  /\ UNCHANGED <<database, exposed>>

\* The router returned, the other producers stopped, the database is closed.
Exit ==
  /\ phase = "stopping" /\ rpc = "stopped"
  /\ \A p \in Actors : pc[p] = "idle"
  /\ Vanish
  /\ UNCHANGED budget

Crash ==
  /\ Running
  /\ Spend("crashes")
  /\ Vanish

\* The operator deletes an event or clears the journal, or retention trims it.
DeleteEvents ==
  /\ phase \in {"live", "stopping"} /\ journal # {}
  /\ Spend("deletes")
  /\ \E gone \in {{s} : s \in journal} \cup {journal} : journal' = journal \ gone
  /\ UNCHANGED <<nextSeq, watermark, outbox, phase, producer, queue, owed, router, replay, exposed>>

-----------------------------------------------------------------------------
Init ==
  /\ journal = {} /\ nextSeq = 1 /\ watermark = 0 /\ outbox = {}
  /\ phase = "down"
  /\ pc = [p \in Actors |-> "idle"]
  /\ held = [p \in Actors |-> 0]
  /\ queue = <<>>
  /\ inflight = {} /\ highest = 0 /\ confirmed = 0
  /\ batch = {} /\ deferred = {}
  /\ backingOff = FALSE /\ poolReported = FALSE /\ draining = FALSE
  /\ rpc = "stopped" /\ then = "select"
  /\ settling = {} /\ mark = 0
  /\ rpos = 0 /\ chunk = {}
  /\ exposed = {}
  /\ budget = [faults |-> MaxFaults, replayFaults |-> MaxReplayFaults,
               crashes |-> MaxCrashes, deletes |-> MaxDeletes]

Accept(p) == Register(p) \/ Enqueue(p) \/ Refuse(p) \/ RouteInline(p)

RouterStep ==
  \/ Receive \/ Tick \/ WriteBatch \/ WriteFails \/ SettleBatch
  \/ PoolQuiet \/ PoolReport \/ PoolReported \/ SeeDone \/ Drained

ReplayStep == ReplayRead \/ ReplayWrite \/ ReplayDone \/ ReplayStops

Next ==
  \/ \E p \in Producers : Record(p)
  \/ \E p \in Actors : Accept(p)
  \/ RouterStep \/ BackoffElapses
  \/ Start \/ ReplayStep
  \/ Shutdown \/ Exit \/ Crash
  \/ DeleteEvents

Spec == Init /\ [][Next]_vars

(***************************************************************************)
(* The goroutines run: every step of a producer inside recordEvent, of the *)
(* router's loop, of the replay and of the shutdown is eventually taken.   *)
(* The loop's select picks at random among the ready cases, so that none   *)
(* of them is passed over for ever: hence SF for its three cases.  The     *)
(* next launch is the operator's, and is not assumed.                      *)
(***************************************************************************)
Fairness ==
  /\ \A p \in Actors : WF_vars(Accept(p))
  /\ WF_vars(RouterStep) /\ WF_vars(BackoffElapses)
  /\ SF_vars(Receive) /\ SF_vars(Tick) /\ SF_vars(SeeDone)
  /\ WF_vars(ReplayStep)
  /\ WF_vars(Exit)

FairSpec == Spec /\ Fairness

-----------------------------------------------------------------------------
(* Properties. *)

TypeOK ==
  /\ journal \subseteq Seqs /\ nextSeq \in 1..(MaxSeq + 1)
  /\ watermark \in 0..MaxSeq /\ outbox \subseteq Seqs \X Sinks
  /\ phase \in {"down", "replay", "live", "stopping"}
  /\ pc \in [Actors -> {"idle", "journalled", "registered", "refused"}]
  /\ held \in [Actors -> 0..MaxSeq]
  /\ queue \in Seq(Seqs)
  /\ inflight \subseteq Seqs /\ highest \in 0..MaxSeq /\ confirmed \in 0..MaxSeq
  /\ batch \subseteq Seqs /\ deferred \subseteq Seqs /\ settling \subseteq Seqs
  /\ backingOff \in BOOLEAN /\ poolReported \in BOOLEAN /\ draining \in BOOLEAN
  /\ rpc \in {"select", "write", "settle", "watch", "record", "stopped"}
  /\ then \in {"select", "watch", "stopped"}
  /\ mark \in 0..MaxSeq
  /\ rpos \in 0..MaxSeq /\ chunk \subseteq Seqs
  /\ exposed \subseteq Seqs
  /\ budget \in [{"faults", "replayFaults", "crashes", "deletes"} -> Nat]

\* No alert is lost (router.go:474-478): whatever the watermark has passed has
\* its deliveries in the outbox, so that a restart may forget about it.
NothingLost == \A s \in journal : s <= watermark => Covered(s)

\* The same, of every execution: an alert the watermark has passed without its
\* deliveries was, when a later event was accepted, neither in flight nor
\* queued - between its insert and its accept, being routed inline, or waiting
\* for the replay.  Nothing else loses an alert: no failed read, no failed
\* write, no full deferred list, no crash.
OnlyExposedLost == \A s \in journal : s <= watermark => Covered(s) \/ s \in exposed

\* An event in flight pins the watermark below it until its deliveries are
\* written (router.go:109, 177-187), the flush under way included.
InFlightPinsWatermark ==
  \A s \in inflight \ exposed : Covered(s) \/ (s > watermark /\ s > confirmed)

\* An accepted event is owed until it is written: nothing below the highest seq
\* accepted is forgotten by the process, whatever fails (router.go:88).
AcceptedStaysOwed ==
  \A s \in 1..highest : s \in inflight \/ Covered(s) \/ s \in exposed

\* An event in flight is in one place, and never flushed twice; only a deferred
\* list with no room may let go of it (router.go:293-305).
Places(s) ==
  Cardinality({p \in Actors : pc[p] = "registered" /\ held[p] = s})
    + Cardinality({i \in DOMAIN queue : queue[i] = s})
    + Cardinality({part \in {<<"batch", batch>>, <<"settling", settling>>,
                             <<"deferred", deferred>>} : s \in part[2]})

HeldOnce ==
  \A s \in inflight : /\ Places(s) <= 1
                      /\ QueueDepth >= MaxSeq => Places(s) = 1

\* The watermark never goes backwards while a process runs, though the replay
\* and the router both write it (watermark.go:120-122).
WatermarkMonotone == [][phase # "down" => watermark' >= watermark]_vars

\* The status of an event in the ledger the pipeline keeps.
Status(s) ==
  IF s >= nextSeq THEN "unborn"
  ELSE IF Covered(s) THEN "queued"
  ELSE IF s \notin journal THEN "deleted"
  ELSE IF s > watermark THEN "owed" ELSE "lost"

Ledger == INSTANCE AlertLedger WITH
  Selected <- {s \in Seqs : Wanted[s] # {}},
  status <- [s \in Seqs |-> Status(s)],
  up <- phase # "down"

\* Journal, router and replay together keep the ledger: an alert is owed until
\* it is queued, over crashes, restarts and failed writes; and while the
\* application stays up it is queued in the end.
ImplementsLedger == Ledger!Spec

\* A crash between the insert and the flush loses nothing (router.go:476-478):
\* what the watermark leaves out of the next replay has its deliveries.
NothingLostAtRestart == phase = "down" => NothingLost

\* Replay and live routing cannot interleave on the watermark (app.go:127-128):
\* while the replay runs, only the replay moves it.
ReplayOwnsWatermark ==
  [][phase = "replay" /\ watermark' # watermark => rpos' # rpos]_vars

\* "Every producer is stopped, so what it has queued is all there will ever be"
\* (app.go:664-666): nothing is handed to a router told to stop.
NothingAcceptedAfterStop ==
  [][phase = "stopping" => inflight' \subseteq inflight]_vars
=============================================================================
