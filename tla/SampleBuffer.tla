--------------------------- MODULE SampleBuffer ---------------------------
(***************************************************************************)
(* From a poll round to data_points (pkg/storage/storage.go).              *)
(*                                                                         *)
(* The rounds of every session append to one buffer.  A goroutine takes    *)
(* the whole buffer every five seconds and writes it in one transaction,   *)
(* while the rounds go on appending; what could not be written goes back   *)
(* to the front.  data_points references sessions with ON DELETE CASCADE   *)
(* and foreign keys are on, so that a batch with a sample of a session     *)
(* that is gone is refused as a whole.                                     *)
(*                                                                         *)
(* Samples are numbered in the order they are queued, which is the order   *)
(* of their timestamps.                                                    *)
(***************************************************************************)
EXTENDS Integers, SequencesExt

CONSTANTS
  Sessions,
  Cap,          \* maxBufferedPoints
  MaxSamples,   \* bound: samples
  MaxFaults,    \* bound: writes that SQLite refuses (SQLITE_BUSY)
  MaxDeletes,   \* bound: sessions deleted
  MaxCleanups   \* bound: cleanups

Samples == 1..MaxSamples

ASSUME SampleBufferBounds ==
  /\ Cap \in Nat \ {0} /\ Sessions # {}
  /\ \A n \in {MaxSamples, MaxFaults, MaxDeletes, MaxCleanups} : n \in Nat

VARIABLES
  \* the database
  sessions,  \* the rows of sessions
  table,     \* the samples of data_points, in the order they were written
  \* the process
  polling,   \* the sessions whose clock runs
  batch,     \* Storage.batch
  taken,     \* what the flush under way has taken from it
  flush,     \* "idle", "writing" or "refused"
  phase,     \* "open", "joining" (Close waits), "final" (Close flushes) or "closed"
  cleaning,  \* a cleanup has deleted the samples and not yet the sessions
  \* bookkeeping of the model
  queued,    \* how many samples have been queued
  owner,     \* the session of each
  dropped,   \* what the cap has cost
  deleted,   \* what the operator deleted, with its session or by age
  budget

buffer == <<batch, taken, flush>>
ghosts == <<queued, owner, dropped, deleted>>
vars   == <<sessions, table, polling, buffer, phase, cleaning, ghosts, budget>>

Spend(kind) == budget[kind] > 0 /\ budget' = [budget EXCEPT ![kind] = @ - 1]

\* What is left of a sequence without the samples of S, in its order.
Without(seq, S) ==
  {rest \in SetToSeqs(ToSet(seq) \ S) :
     \A i, j \in DOMAIN rest :
       i < j => \E k, l \in DOMAIN seq : k < l /\ seq[k] = rest[i] /\ seq[l] = rest[j]}

-----------------------------------------------------------------------------
(* The poll rounds. *)

QueueDataPoints(s) ==
  /\ phase = "open" /\ s \in polling
  /\ queued < MaxSamples
  /\ batch' = Append(batch, queued + 1)
  /\ queued' = queued + 1
  /\ owner' = [owner EXCEPT ![queued + 1] = s]
  /\ UNCHANGED <<sessions, table, polling, taken, flush, phase, cleaning, dropped, deleted, budget>>

-----------------------------------------------------------------------------
(* flushBatch, of the ticker and of Close. *)

Take ==
  /\ flush = "idle" /\ batch # <<>>
  /\ phase \in {"open", "final"}
  /\ taken' = batch
  /\ batch' = <<>>
  /\ flush' = "writing"
  /\ UNCHANGED <<sessions, table, polling, phase, cleaning, ghosts, budget>>

Orphans(seq) == {p \in ToSet(seq) : owner[p] \notin sessions}

\* writePoints, one transaction.
Commit ==
  /\ flush = "writing" /\ Orphans(taken) = {}
  /\ table' = table \o taken
  /\ taken' = <<>>
  /\ flush' = "idle"
  /\ UNCHANGED <<sessions, polling, batch, phase, cleaning, ghosts, budget>>

\* Mutant: the rows that go through are committed.
RefusePartially ==
  /\ flush = "writing"
  /\ IF Orphans(taken) # {} THEN UNCHANGED budget ELSE Spend("faults")
  /\ \E rest \in Without(taken, Orphans(taken)) : table' = table \o rest
  /\ flush' = "refused"
  /\ UNCHANGED <<sessions, polling, batch, taken, phase, cleaning, ghosts>>

Refuse ==
  /\ flush = "writing"
  /\ IF Orphans(taken) # {} THEN UNCHANGED budget ELSE Spend("faults")
  /\ flush' = "refused"
  /\ UNCHANGED <<sessions, table, polling, batch, taken, phase, cleaning, ghosts>>

\* Mutants: unwritten samples put back at the end; the cap keeps the oldest.
RestoreBehind ==
  /\ flush = "refused"
  /\ LET all == batch \o taken
         over == IF Len(all) > Cap THEN Len(all) - Cap ELSE 0
     IN /\ batch' = SubSeq(all, over + 1, Len(all))
        /\ dropped' = dropped \cup ToSet(SubSeq(all, 1, over))
  /\ taken' = <<>>
  /\ flush' = "idle"
  /\ UNCHANGED <<sessions, table, polling, phase, cleaning, queued, owner, deleted, budget>>

RestoreKeepingOldest ==
  /\ flush = "refused"
  /\ LET all == taken \o batch
         kept == IF Len(all) > Cap THEN Cap ELSE Len(all)
     IN /\ batch' = SubSeq(all, 1, kept)
        /\ dropped' = dropped \cup ToSet(SubSeq(all, kept + 1, Len(all)))
  /\ taken' = <<>>
  /\ flush' = "idle"
  /\ UNCHANGED <<sessions, table, polling, phase, cleaning, queued, owner, deleted, budget>>

\* Mutant: what could not be written is logged and gone.
RestoreNothing ==
  /\ flush = "refused"
  /\ taken' = <<>>
  /\ flush' = "idle"
  /\ UNCHANGED <<sessions, table, polling, batch, phase, cleaning, ghosts, budget>>

\* restoreBatch: at the front, and the oldest go when there are too many.
RestoreBatch ==
  /\ flush = "refused"
  /\ LET all == taken \o batch
         over == IF Len(all) > Cap THEN Len(all) - Cap ELSE 0
     IN /\ batch' = SubSeq(all, over + 1, Len(all))
        /\ dropped' = dropped \cup ToSet(SubSeq(all, 1, over))
  /\ taken' = <<>>
  /\ flush' = "idle"
  /\ UNCHANGED <<sessions, table, polling, phase, cleaning, queued, owner, deleted, budget>>

-----------------------------------------------------------------------------
(* The operator. *)

\* MonitorStop waits for the round under way.
MonitorStop(s) ==
  /\ phase = "open" /\ s \in polling
  /\ polling' = polling \ {s}
  /\ UNCHANGED <<sessions, table, buffer, phase, cleaning, ghosts, budget>>

MonitorStart(s) ==
  /\ phase = "open" /\ s \in sessions \ polling
  /\ polling' = polling \cup {s}
  /\ UNCHANGED <<sessions, table, buffer, phase, cleaning, ghosts, budget>>

\* The samples of the table that go are deleted; those of the buffer stay there.
Forget(S, gone) ==
  /\ table' \in Without(table, gone)
  /\ deleted' = deleted \cup gone
  /\ sessions' = sessions \ S

Of(S) == {p \in ToSet(table) : owner[p] \in S}

\* Mutant: deleted while its clock runs.
DeleteRunning(s) ==
  /\ phase = "open" /\ s \in sessions
  /\ Spend("deletes")
  /\ Forget({s}, Of({s}))
  /\ UNCHANGED <<polling, buffer, phase, cleaning, queued, owner, dropped>>

\* MonitorDeleteSession, after the MonitorStop that the interface sends first.
DeleteSession(s) ==
  /\ phase = "open" /\ s \in sessions \ polling
  /\ Spend("deletes")
  /\ Forget({s}, Of({s}))
  /\ UNCHANGED <<polling, buffer, phase, cleaning, queued, owner, dropped>>

\* Cleanup: the samples older than a day; then, in another transaction, the
\* stopped sessions that have none.
Cleanup ==
  /\ phase = "open" /\ ~cleaning /\ Spend("cleanups")
  /\ \E day \in 1..MaxSamples : Forget({}, {p \in ToSet(table) : p < day})
  /\ cleaning' = TRUE
  /\ UNCHANGED <<polling, buffer, phase, queued, owner, dropped>>

DeleteEmptyInactiveSessions ==
  /\ cleaning
  /\ sessions' = sessions \cap (polling \cup {owner[p] : p \in ToSet(table)})
  /\ cleaning' = FALSE
  /\ UNCHANGED <<table, polling, buffer, phase, ghosts, budget>>

-----------------------------------------------------------------------------
(* shutdown: StopAll, then Close. *)

Shutdown ==
  /\ phase = "open" /\ ~cleaning
  /\ polling' = {}
  /\ phase' = "joining"
  /\ UNCHANGED <<sessions, table, buffer, cleaning, ghosts, budget>>

\* The goroutine of the ticker has returned.
Joined ==
  /\ phase = "joining" /\ flush = "idle"
  /\ phase' = "final"
  /\ UNCHANGED <<sessions, table, polling, buffer, cleaning, ghosts, budget>>

\* Mutant: Close waits for the goroutine and forgets the last flush.
CloseUnflushed ==
  /\ phase = "final" /\ flush = "idle"
  /\ phase' = "closed"
  /\ UNCHANGED <<sessions, table, polling, buffer, cleaning, ghosts, budget>>

\* After one flush, whether it went through or not.
Close ==
  /\ phase = "final"
  /\ \/ flush = "idle" /\ batch = <<>>
     \/ flush = "refused"
  /\ phase' = "closed"
  /\ UNCHANGED <<sessions, table, polling, buffer, cleaning, ghosts, budget>>

Init ==
  /\ sessions = Sessions /\ polling = Sessions
  /\ table = <<>> /\ batch = <<>> /\ taken = <<>>
  /\ flush = "idle" /\ phase = "open" /\ cleaning = FALSE
  /\ queued = 0
  /\ owner = [p \in Samples |-> CHOOSE s \in Sessions : TRUE]
  /\ dropped = {} /\ deleted = {}
  /\ budget = [faults |-> MaxFaults, deletes |-> MaxDeletes, cleanups |-> MaxCleanups]

FlushStep == Take \/ Commit \/ Refuse \/ (phase # "final" /\ RestoreBatch)

Next ==
  \/ \E s \in Sessions : QueueDataPoints(s) \/ MonitorStop(s) \/ MonitorStart(s) \/ DeleteSession(s)
  \/ FlushStep
  \/ Cleanup \/ DeleteEmptyInactiveSessions
  \/ Shutdown \/ Joined \/ Close

Spec == Init /\ [][Next]_vars

\* The ticker comes back, a transaction ends one way or the other, and a Close
\* that has begun goes on: every wait of it is for one of the former.
FairSpec == Spec /\ WF_vars(FlushStep) /\ WF_vars(Joined) /\ WF_vars(Close)

-----------------------------------------------------------------------------
(* Properties. *)

TypeOK ==
  /\ sessions \subseteq Sessions /\ polling \subseteq sessions
  /\ \A seq \in {table, batch, taken} : ToSet(seq) \subseteq 1..queued
  /\ flush \in {"idle", "writing", "refused"} /\ (flush = "idle" <=> taken = <<>>)
  /\ phase \in {"open", "joining", "final", "closed"} /\ cleaning \in BOOLEAN
  /\ queued \in 0..MaxSamples /\ owner \in [Samples -> Sessions]
  /\ dropped \subseteq Samples /\ deleted \subseteq Samples

\* A sample is in one place, once: the table, a flush, the buffer, or gone for a
\* reason (storage.go:581-586, 621-624; TestAFailedFlushKeepsTheDataPoints,
\* TestAWriteIsAllOrNothing).
KeptOnce ==
  LET all == table \o taken \o batch IN
    /\ \A i, j \in DOMAIN all : all[i] = all[j] => i = j
    /\ ToSet(all) = (1..queued) \ (dropped \cup deleted)

\* Whatever fails and whatever is queued meanwhile, the table receives the
\* samples in the order they were taken ("back at the front", storage.go:604).
InOrder ==
  LET all == table \o taken \o batch IN \A i, j \in DOMAIN all : i < j => all[i] < all[j]

\* What the cap costs is "the oldest samples" (storage.go:606-608).
OldestDropped ==
  \A d \in dropped, p \in ToSet(taken \o batch) : d < p

\* Close joins the flush goroutine and flushes what is left (storage.go:411-425):
\* with no write refused, every sample is in the table or was deleted.
ClosedComplete ==
  phase = "closed" /\ budget.faults = MaxFaults /\ sessions = Sessions =>
    ToSet(table) = (1..queued) \ deleted

\* A refused write is tried again (storage.go:597-600): as long as no session is
\* deleted, a sample reaches the table, unless the cap or Close takes it first.
EverySampleStored ==
  \A p \in Samples :
    (queued >= p) ~> \/ p \in ToSet(table) \cup dropped \cup deleted
                     \/ phase = "closed" \/ sessions # Sessions

\* "A database that is permanently unwritable" is what may cost samples
\* (storage.go:606-608): no sample of a session that exists is dropped by a
\* database that never refused a write for its own reasons.
DroppedOnlyIfUnwritable ==
  budget.faults = MaxFaults => \A p \in dropped : owner[p] \notin sessions
=============================================================================
