----------------------------- MODULE Dispatcher -----------------------------
(***************************************************************************)
(* The outbox and the goroutines that empty it (pkg/notify/dispatcher.go,  *)
(* pkg/storage/notify_store.go, internal/app/app.go).                      *)
(*                                                                         *)
(* A pass of the dispatcher reads the deliveries that are due, oldest      *)
(* first and at most a batch of them, and hands each destination's share   *)
(* to a goroutine of its own, which sends them one after the other.  The   *)
(* passes, the operator's buttons and the deaths of the process interleave *)
(* at every write of the database.  A dead letter becomes an event, which  *)
(* is routed in turn.                                                      *)
(*                                                                         *)
(* A row of notify_outbox is its <<event, sink>>, which is UNIQUE.  The    *)
(* order of next_try_at is the order of a sequence, and time is a choice.  *)
(* The ticker makes a pass possible whenever something is due, so that the *)
(* wake-ups, which only make it come sooner, are left out.                 *)
(***************************************************************************)
EXTENDS Integers, SequencesExt

CONSTANTS
  Sinks,
  NoSink,
  Originals,    \* events that are not about a dead letter: 1..Originals
  MaxEvents,    \* bound: events recorded, the dead letters included
  Selected,     \* the sinks the routing rules select for every event
  Limit,        \* the batch of DueDeliveries
  MaxAttempts,
  Mishaps,      \* what may happen, of the kinds below
  MaxMishaps    \* bound: how often, all together

Events == 1..MaxEvents
Rows   == Events \X Sinks

ASSUME DispatcherBounds ==
  /\ Originals \in Nat /\ MaxEvents \in Nat /\ Originals <= MaxEvents
  /\ Limit \in Nat \ {0} /\ MaxAttempts \in Nat \ {0}
  /\ MaxMishaps \in Nat
  \* a write that fails, a read of the sinks that fails, an answer that is lost, a
  \* crash (or a stop that outlasts its grace), a click on Retry, an edit of a sink
  /\ Mishaps \subseteq {"write", "read", "answer", "crash", "retry", "edit"}
  /\ IsFiniteSet(Sinks) /\ Selected \subseteq Sinks
  /\ NoSink \notin Sinks

VARIABLES
  \* the database
  events,    \* how many events have been journalled
  about,     \* the sink a dead-letter event is about
  owed,      \* the events the router has still to route
  state,     \* notify_outbox.state, "none" when there is no such row
  attempts,  \* notify_outbox.attempts
  line,      \* the pending rows whose next_try_at has come, by next_try_at
  config,    \* of each sink: "on", "off" or "gone"
  \* the process
  phase,     \* "down", "up" or "stopping" (done is closed)
  work,      \* what each sink's goroutine has left: <<row, attempts read>>
  at,        \* where that goroutine is
  verdict,   \* what becomes of the delivery that just failed
  listed,    \* the rows the delivery log shows as dead
  \* bookkeeping of the model
  arrivals,  \* how often the destination has had a delivery, up to twice
  excused,   \* the rows something interrupted: a failed write, a lost answer...
  told,      \* the dead rows whose event has been recorded
  deserved,  \* the rows that died of their destination
  blames,    \* the sinks whose failures led to an event
  budget

outbox == <<state, attempts, line>>
passes == <<work, at, verdict>>
ghosts == <<arrivals, excused, told, deserved, blames>>
vars   == <<events, about, owed, outbox, config, phase, passes, listed, ghosts, budget>>

Spend(kind) ==
  /\ kind \in Mishaps /\ budget > 0
  /\ budget' = budget - 1

Busy    == \E s \in Sinks : work[s] # <<>>
Row(s)  == Head(work[s])[1]
Read(s) == Head(work[s])[2]

\* Where the goroutine of s goes once it is done with a delivery.
NextDelivery(s) ==
  /\ work' = [work EXCEPT ![s] = Tail(@)]
  /\ at' = [at EXCEPT ![s] = "next"]
  /\ verdict' = [verdict EXCEPT ![s] = "none"]

Goto(s, place, v) ==
  /\ at' = [at EXCEPT ![s] = place]
  /\ verdict' = [verdict EXCEPT ![s] = v]
  /\ UNCHANGED work

-----------------------------------------------------------------------------
(* The router and the operator, as far as the outbox is concerned. *)

\* routedGroupsFor and EnqueueRouted: never the sink the event is about, and
\* only sinks that are on.  INSERT OR IGNORE: a row is queued once.
Targets(e) == {s \in Selected : s # about[e] /\ config[s] = "on"}

RouteEvent(e) ==
  /\ phase # "down" /\ e \in owed
  /\ LET new == {r \in {e} \X Targets(e) : state[r] = "none"} IN
       /\ state' = [r \in Rows |-> IF r \in new THEN "pending" ELSE state[r]]
       /\ \E order \in SetToSeqs(new) : line' = line \o order
  /\ owed' = owed \ {e}
  /\ UNCHANGED <<events, about, attempts, config, phase, passes, listed, ghosts, budget>>

JournalOriginal ==
  /\ phase = "up" /\ events < Originals
  /\ events' = events + 1
  /\ owed' = owed \cup {events + 1}
  /\ UNCHANGED <<about, outbox, config, phase, passes, listed, ghosts, budget>>

\* The operator edits a destination.
Configure(s) ==
  /\ phase = "up" /\ Spend("edit")
  /\ config[s] # "gone"
  /\ \E new \in {"on", "off", "gone"} \ {config[s]} : config' = [config EXCEPT ![s] = new]
  /\ UNCHANGED <<events, about, owed, outbox, phase, passes, listed, ghosts>>

\* The delivery log is loaded, which offers Retry on the rows that are dead.
ListDeliveries ==
  /\ phase = "up"
  /\ listed' = {r \in Rows : state[r] = "dead"}
  /\ UNCHANGED <<events, about, owed, outbox, config, phase, passes, ghosts, budget>>

\* RetryDelivery: whatever the state of the row is by now.
RetryDelivery(r) ==
  /\ phase = "up" /\ r \in listed
  /\ Spend("retry")
  /\ state' = [state EXCEPT ![r] = "pending"]
  /\ attempts' = [attempts EXCEPT ![r] = 0]
  /\ line' = Append(RemoveFirst(line, r), r)
  /\ excused' = IF arrivals[r] > 0 THEN excused \cup {r} ELSE excused
  /\ told' = told \ {r}
  /\ deserved' = deserved \ {r}
  /\ UNCHANGED <<events, about, owed, config, phase, passes, listed, arrivals, blames>>

\* next_try_at comes.
BackoffElapses(r) ==
  /\ state[r] = "pending" /\ r \notin ToSet(line)
  /\ line' = Append(line, r)
  /\ UNCHANGED <<events, about, owed, state, attempts, config, phase, passes, listed, ghosts,
                 budget>>

-----------------------------------------------------------------------------
(* The dispatcher. *)

\* Mutant: every pass hands the batch to every destination's goroutine.
DrainUngrouped ==
  /\ phase = "up" /\ ~Busy /\ line # <<>>
  /\ LET batch == SubSeq(line, 1, IF Len(line) < Limit THEN Len(line) ELSE Limit)
     IN work' = [s \in Sinks |-> [i \in DOMAIN batch |-> <<batch[i], attempts[batch[i]]>>]]
  /\ UNCHANGED <<events, about, owed, outbox, config, phase, at, verdict, listed, ghosts, budget>>

\* DueDeliveries: the first of those that are due, at most a batch of them.
Due == {i \in DOMAIN line : i <= Limit}

\* A destination's share of them, in their order.
Share(s) ==
  {q \in SetToSeqs({line[i] : i \in {j \in Due : line[j][2] = s}}) :
     \A i, j \in DOMAIN q : i < j => \E k, l \in Due : k < l /\ line[k] = q[i] /\ line[l] = q[j]}

\* Drain: DueDeliveries, then one goroutine per destination.  One pass at a
\* time: the next one starts when every goroutine of this one has returned.
Drain ==
  /\ phase = "up" /\ ~Busy /\ line # <<>>
  /\ \E share \in [Sinks -> UNION {Share(s) : s \in Sinks}] :
       /\ \A s \in Sinks : share[s] \in Share(s)
       /\ work' = [s \in Sinks |-> [i \in DOMAIN share[s] |-> <<share[s][i], attempts[share[s][i]]>>]]
  /\ UNCHANGED <<events, about, owed, outbox, config, phase, at, verdict, listed, ghosts, budget>>

\* done is closed: start nothing new.
Return(s) ==
  /\ phase = "stopping" /\ at[s] = "next" /\ work[s] # <<>>
  /\ work' = [work EXCEPT ![s] = <<>>]
  /\ UNCHANGED <<events, about, owed, outbox, config, phase, at, verdict, listed, ghosts, budget>>

\* deliver, up to the send.  A destination that is off, gone, or that could
\* not be read is a dead letter at once.
Resolve(s) ==
  /\ phase = "up" /\ at[s] = "next" /\ work[s] # <<>>
  /\ \/ config[s] = "on" /\ Goto(s, "sending", "none") /\ UNCHANGED <<deserved, budget>>
     \/ /\ config[s] # "on" /\ Goto(s, "failed", "dead")
        /\ deserved' = deserved \cup {Row(s)}
        /\ UNCHANGED budget
     \/ Spend("read") /\ Goto(s, "failed", "dead") /\ UNCHANGED deserved
  /\ UNCHANGED <<events, about, owed, outbox, config, phase, listed, arrivals, excused, told,
                 blames>>

Arrives(S) ==
  arrivals' = [r \in Rows |-> IF r \in S /\ arrivals[r] < 2 THEN arrivals[r] + 1 ELSE arrivals[r]]

\* Send returns nil.
SendAccepted(s) ==
  /\ at[s] = "sending"
  /\ Arrives({Row(s)})
  /\ Goto(s, "accepted", "none")
  /\ UNCHANGED <<events, about, owed, outbox, config, phase, listed, excused, told, deserved,
                 blames, budget>>

\* Send returns an error, which is worth another try or is not.  The answer of
\* a destination that has had the delivery may be lost.
SendFails(s) ==
  /\ at[s] = "sending"
  /\ \E permanent \in BOOLEAN :
       LET dead == permanent \/ Read(s) + 1 >= MaxAttempts IN
         /\ Goto(s, "failed", IF dead THEN "dead" ELSE "pending")
         /\ deserved' = IF dead THEN deserved \cup {Row(s)} ELSE deserved
  /\ \/ UNCHANGED <<arrivals, excused, budget>>
     \/ /\ Spend("answer")
        /\ Arrives({Row(s)})
        /\ excused' = excused \cup {Row(s)}
  /\ UNCHANGED <<events, about, owed, outbox, config, phase, listed, told, blames>>

\* MarkSent, whose error is only logged.
MarkSent(s) ==
  /\ at[s] = "accepted"
  /\ \/ /\ state' = [state EXCEPT ![Row(s)] = "sent"]
        /\ attempts' = [attempts EXCEPT ![Row(s)] = @ + 1]
        /\ line' = RemoveFirst(line, Row(s))
        /\ UNCHANGED <<excused, budget>>
     \/ /\ Spend("write")
        /\ excused' = excused \cup {Row(s)}
        /\ UNCHANGED outbox
  /\ NextDelivery(s)
  /\ UNCHANGED <<events, about, owed, config, phase, listed, arrivals, told, deserved, blames>>

\* Mutant: the failed attempt is not counted.
MarkFailedUncounted(s) ==
  /\ at[s] = "failed"
  /\ state' = [state EXCEPT ![Row(s)] = verdict[s]]
  /\ line' = RemoveFirst(line, Row(s))
  /\ IF verdict[s] = "dead" THEN Goto(s, "announce", "dead") ELSE NextDelivery(s)
  /\ UNCHANGED <<events, about, owed, attempts, config, phase, listed, ghosts, budget>>

\* Mutant: a failure leaves next_try_at where it was, among the rows that are due.
MarkFailedAtOnce(s) ==
  /\ at[s] = "failed"
  /\ state' = [state EXCEPT ![Row(s)] = verdict[s]]
  /\ attempts' = [attempts EXCEPT ![Row(s)] = @ + 1]
  /\ IF verdict[s] = "dead" THEN Goto(s, "announce", "dead") ELSE NextDelivery(s)
  /\ UNCHANGED <<events, about, owed, line, config, phase, listed, ghosts, budget>>

\* MarkFailed, whose error is only logged.
MarkFailed(s) ==
  /\ at[s] = "failed"
  /\ \/ /\ state' = [state EXCEPT ![Row(s)] = verdict[s]]
        /\ attempts' = [attempts EXCEPT ![Row(s)] = @ + 1]
        /\ line' = RemoveFirst(line, Row(s))
        /\ UNCHANGED budget
     \/ Spend("write") /\ UNCHANGED outbox
  /\ IF verdict[s] = "dead" THEN Goto(s, "announce", "dead") ELSE NextDelivery(s)
  /\ UNCHANGED <<events, about, owed, config, phase, listed, ghosts>>

\* OnResult: recordEvent journals the dead letter, and its error is dropped.
Announce(s) ==
  /\ at[s] = "announce"
  /\ \/ /\ events < MaxEvents
        /\ events' = events + 1
        /\ about' = [about EXCEPT ![events + 1] = s]
        /\ blames' = [blames EXCEPT ![events + 1] = blames[Row(s)[1]] \cup {s}]
        /\ owed' = owed \cup {events + 1}
        /\ told' = told \cup {Row(s)}
        /\ UNCHANGED budget
     \/ /\ events = MaxEvents
        /\ told' = told \cup {Row(s)}
        /\ UNCHANGED <<events, about, blames, owed, budget>>
     \/ Spend("write") /\ UNCHANGED <<events, about, blames, owed, told>>
  /\ NextDelivery(s)
  /\ UNCHANGED <<outbox, config, phase, listed, arrivals, excused, deserved>>

-----------------------------------------------------------------------------
(* The process. *)

\* Whatever was not routed, or was routed inline, is replayed.
Launch ==
  /\ phase = "down"
  /\ phase' = "up"
  /\ \E again \in SUBSET (1..events) : owed' = owed \cup again
  /\ UNCHANGED <<events, about, outbox, config, passes, listed, ghosts, budget>>

Stop ==
  /\ phase = "up"
  /\ phase' = "stopping"
  /\ UNCHANGED <<events, about, owed, outbox, config, passes, listed, ghosts, budget>>

\* What dies with the process; of what is on the wire, any part may arrive.
Vanish ==
  /\ phase' = "down"
  /\ work' = [s \in Sinks |-> <<>>]
  /\ at' = [s \in Sinks |-> "next"]
  /\ verdict' = [s \in Sinks |-> "none"]
  /\ listed' = {}
  /\ LET on(places) == {Row(s) : s \in {t \in Sinks : at[t] \in places}} IN
       \E S \in SUBSET on({"sending"}) :
         /\ Arrives(S)
         /\ excused' = excused \cup S \cup on({"accepted"})
  /\ UNCHANGED <<events, about, owed, outbox, config, told, deserved, blames>>

\* Every goroutine returned within the grace of Stop.
Exit == phase = "stopping" /\ ~Busy /\ Vanish /\ UNCHANGED budget

\* A crash; or a send that outlasts the grace of Stop, and is abandoned.
Crash == phase # "down" /\ Spend("crash") /\ Vanish

-----------------------------------------------------------------------------
Init ==
  /\ events = 0 /\ owed = {}
  /\ about = [e \in Events |-> NoSink]
  /\ state = [r \in Rows |-> "none"]
  /\ attempts = [r \in Rows |-> 0]
  /\ line = <<>>
  /\ config = [s \in Sinks |-> "on"]
  /\ phase = "down"
  /\ work = [s \in Sinks |-> <<>>]
  /\ at = [s \in Sinks |-> "next"]
  /\ verdict = [s \in Sinks |-> "none"]
  /\ listed = {}
  /\ arrivals = [r \in Rows |-> 0]
  /\ excused = {} /\ told = {} /\ deserved = {}
  /\ blames = [e \in Events |-> {}]
  /\ budget = MaxMishaps

Deliver(s) ==
  \/ Resolve(s) \/ SendAccepted(s) \/ SendFails(s)
  \/ MarkSent(s) \/ MarkFailed(s) \/ Announce(s) \/ Return(s)

Next ==
  \/ \E e \in Events : RouteEvent(e)
  \/ \E r \in Rows : RetryDelivery(r) \/ BackoffElapses(r)
  \/ \E s \in Sinks : Deliver(s) \/ Configure(s)
  \/ JournalOriginal \/ ListDeliveries \/ Drain
  \/ Launch \/ Stop \/ Exit \/ Crash

Spec == Init /\ [][Next]_vars

(***************************************************************************)
(* The loop of the dispatcher keeps waking up, every goroutine of a pass   *)
(* goes on (a send ends: every transport has a timeout), what is owed is   *)
(* routed and every retry delay elapses.  Nobody has to launch the         *)
(* application, to stop it or to click.                                    *)
(***************************************************************************)
Fairness ==
  /\ \A s \in Sinks : WF_vars(Deliver(s))
  /\ \A r \in Rows : WF_vars(BackoffElapses(r))
  /\ \A e \in Events : WF_vars(RouteEvent(e))
  /\ WF_vars(Drain)

FairSpec == Spec /\ Fairness

-----------------------------------------------------------------------------
(* Properties. *)

TypeOK ==
  /\ events \in 0..MaxEvents /\ owed \subseteq 1..events
  /\ about \in [Events -> Sinks \cup {NoSink}]
  /\ state \in [Rows -> {"none", "pending", "sent", "dead"}]
  /\ attempts \in [Rows -> 0..MaxAttempts]
  /\ line \in Seq({r \in Rows : state[r] = "pending"}) /\ Len(line) = Cardinality(ToSet(line))
  /\ config \in [Sinks -> {"on", "off", "gone"}]
  /\ phase \in {"down", "up", "stopping"}
  /\ work \in [Sinks -> Seq(Rows \X (0..MaxAttempts))]
  /\ at \in [Sinks -> {"next", "sending", "accepted", "failed", "announce"}]
  /\ verdict \in [Sinks -> {"none", "pending", "dead"}]
  /\ listed \subseteq Rows

\* The outbox as DeliveryContract sees it.
Contract == INSTANCE DeliveryContract WITH
  Deliveries <- Rows,
  status <- state,
  arrived <- {r \in Rows : arrivals[r] > 0},
  running <- phase = "up"

\* The outbox delivers at least once or gives up, and never waits for ever
\* (dispatcher.go:132-134, 197-233).
ImplementsContract == Contract!Spec

\* ... and no more than once, unless something stood between the destination's
\* answer and its record: a lost answer, a failed write, the death of the
\* process, or the operator asking for it.  A stop that waits for its goroutines
\* is none of these (dispatcher.go:92-106).
OnceUnlessInterrupted == \A r \in Rows : arrivals[r] > 1 => r \in excused

\* "RetryDelivery puts a dead letter back in the queue" (notify_store.go:323):
\* what has been sent stays so.
SentIsFinal == [][\A r \in Rows : state[r] = "sent" => state'[r] = "sent"]_vars

\* A delivery is given up on when its sink "no longer exists or is disabled"
\* (dispatcher.go:31-32), or for a permanent failure or too many attempts
\* (dispatcher.go:132-134).
GivenUpForCause == \A r \in Rows : state[r] = "dead" => r \in deserved

\* "A dead letter is the only signal an operator gets that a notification never
\* arrived, so it becomes an event of its own" (app.go:1266-1267).
GivenUpIsTold == phase = "down" => \A r \in Rows : state[r] = "dead" => r \in told

\* "A dead letter must never go back to the sink that produced it" (app.go:986):
\* no sink is sent what its own failures led to.
DeadLettersNeverReturn == \A r \in Rows : state[r] # "none" => r[2] \notin blames[r[1]]
=============================================================================
