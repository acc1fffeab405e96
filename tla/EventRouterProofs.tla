------------------------- MODULE EventRouterProofs -------------------------
(***************************************************************************)
(* What holds of EventRouter for every set of producers and destinations   *)
(* and every bound:                                                        *)
(*  1. the watermark never passes an alert whose deliveries are not        *)
(*     written, save the alerts that were exposed when a later one was     *)
(*     accepted;                                                           *)
(*  2. an event on its way to the outbox is in one place, there once, and  *)
(*     the watermark of a running process never falls;                     *)
(*  3. where events are recorded one at a time no alert is exposed, and    *)
(*     every step is a step of AlertLedger.                                *)
(***************************************************************************)
EXTENDS EventRouter, FiniteSetTheorems, SequenceTheorems, WellFoundedInduction, TLAPS

(***************************************************************************)
(* The inductive invariant.                                                *)
(***************************************************************************)

\* Either the deliveries of s are written, or s was exposed.
Accounted(s) == Covered(s) \/ s \in exposed

\* Sequence numbers, and everything derived from them, lie below the counter.
SeqsAllocated ==
  /\ journal \subseteq 1..(nextSeq - 1)
  /\ watermark < nextSeq /\ highest < nextSeq /\ rpos < nextSeq
  /\ chunk \subseteq 1..(nextSeq - 1)
  /\ \A p \in Actors : pc[p] # "idle" => held[p] \in 1..(nextSeq - 1)

\* No watermark is computed above the highest seq accepted.
MarksBelowHighest ==
  /\ inflight \subseteq 1..highest
  /\ confirmed <= highest /\ mark <= highest

\* An event in flight pins every watermark there is: the stored one, the
\* confirmed one, and the one a flush under way is about to store, unless that
\* flush writes the event.
Pinned ==
  \A s \in inflight :
    Accounted(s) \/ /\ s > watermark /\ s > confirmed
                    /\ rpc = "write" => s > mark \/ s \in settling

\* A flush settles only what it has written.
SettlingWritten == rpc = "settle" => \A s \in settling : Covered(s)

\* What the replay has behind it is accounted for, and what it has read is all
\* there is up to its last event.
ReplayPrefix ==
  phase = "replay" =>
    /\ \A s \in journal : s <= rpos => Accounted(s)
    /\ \A c \in chunk, s \in journal : rpos < s /\ s <= c => s \in chunk
    /\ \A p \in Actors : pc[p] = "journalled" => held[p] \in journal
    /\ inflight \subseteq journal

\* An event not yet accepted is no more lost than one in the journal.
HeldAccounted ==
  \A p \in Actors : pc[p] = "journalled" => (held[p] <= watermark => Accounted(held[p]))

\* No process, no goroutine, nothing in memory.
NobodyWhenDown ==
  phase = "down" => inflight = {} /\ chunk = {} /\ \A p \in Actors : pc[p] = "idle"

Safe ==
  /\ SeqsAllocated
  /\ MarksBelowHighest
  /\ AcceptedStaysOwed
  /\ Pinned
  /\ SettlingWritten
  /\ ReplayPrefix
  /\ HeldAccounted
  /\ NobodyWhenDown
  /\ OnlyExposedLost

IInv == TypeOK /\ Safe

(***************************************************************************)
(* Lemmas on the operators.                                                *)
(***************************************************************************)

\* A non-empty set of naturals has a lowest member.
LEMMA LowestExists ==
  ASSUME NEW S \in SUBSET Nat, S # {}
  PROVE  \E x \in S : IsLowest(x, S)
<1> DEFINE Less == {p \in Nat \X Nat : p[1] < p[2]}
<1>1. IsWellFoundedOn(Less, Nat)
  BY NatLessThanWellFounded DEF OpToRel
<1>2. PICK x \in S : \A y \in S : ~(<<y, x>> \in Less)
  <2> HIDE DEF Less
  <2> QED BY <1>1, WFMin
<1>3. ASSUME NEW y \in S PROVE x <= y
  <2>1. x \in Nat /\ y \in Nat
    OBVIOUS
  <2>2. ~(y < x)
    BY <1>2, <2>1
  <2> QED BY <2>1, <2>2
<1> QED BY <1>3 DEF IsLowest

\* A non-empty set of naturals with an upper bound has a highest member.
LEMMA HighestExists ==
  ASSUME NEW n \in Nat, NEW S \in SUBSET (0..n), S # {}
  PROVE  \E x \in S : \A y \in S : y <= x
<1> DEFINE Bounds == {b \in Nat : \A y \in S : y <= b}
<1>1. n \in Bounds
  OBVIOUS
<1>2. PICK b \in Bounds : IsLowest(b, Bounds)
  <2>1. Bounds \in SUBSET Nat /\ Bounds # {}
    BY <1>1
  <2> HIDE DEF Bounds
  <2> QED BY <2>1, LowestExists
<1>3. b \in Nat /\ \A y \in S : y <= b
  OBVIOUS
<1>4. CASE b \in S
  BY <1>3, <1>4
<1>5. CASE b \notin S
  <2>1. ASSUME NEW y \in S PROVE y <= b - 1
    <3>1. y \in Nat /\ y <= b /\ y # b
      BY <1>3, <1>5
    <3> QED BY <1>3, <3>1
  <2>2. PICK z : z \in S
    BY S # {}
  <2>3. z \in Nat /\ z <= b - 1
    BY <2>1, <2>2
  <2>4. b - 1 \in Bounds
    BY <1>3, <2>1, <2>3
  <2> QED BY <1>2, <1>3, <2>4 DEF IsLowest
<1> QED BY <1>4, <1>5

\* The newest event, when the journal holds one, is its highest seq.
LEMMA NewestType ==
  ASSUME TypeOK
  PROVE  Newest \in 0..MaxSeq
<1>1. CASE journal = {}
  BY <1>1, BoundsAssumption DEF Newest
<1>2. CASE journal # {}
  <2>0. journal \in SUBSET (0..MaxSeq) /\ MaxSeq \in Nat
    BY BoundsAssumption DEF TypeOK, Seqs
  <2>1. \E x \in journal : \A y \in journal : y <= x
    BY <1>2, <2>0, HighestExists
  <2>2. Newest \in journal
    BY <1>2, <2>1 DEF Newest
  <2> QED BY <2>2 DEF TypeOK, Seqs
<1> QED BY <1>1, <1>2

\* What SafeMark returns: a watermark no higher than the highest seq accepted,
\* and below every event still owed that the confirmed one is below.
LEMMA SafeMarkBelowOwed ==
  ASSUME TypeOK, MarksBelowHighest, NEW owing \in SUBSET inflight
  PROVE  /\ SafeMark(owing) \in 0..highest
         /\ \A s \in owing : s > confirmed => s > SafeMark(owing)
<1>1. /\ highest \in Nat /\ confirmed \in Nat /\ confirmed <= highest
      /\ owing \subseteq 1..highest
  BY BoundsAssumption DEF TypeOK, MarksBelowHighest
<1>2. CASE owing = {}
  BY <1>1, <1>2 DEF SafeMark, Higher
<1>3. CASE owing # {}
  <2> DEFINE low == CHOOSE x \in owing : IsLowest(x, owing)
  <2>1. \E x \in owing : IsLowest(x, owing)
    BY <1>1, <1>3, LowestExists
  <2>2. low \in owing /\ IsLowest(low, owing)
    BY <2>1
  <2>3. SafeMark(owing) = Higher(low - 1, confirmed)
    BY <1>3 DEF SafeMark
  <2> HIDE DEF low
  <2> QED BY <1>1, <2>2, <2>3 DEF Higher, IsLowest
<1> QED BY <1>2, <1>3

\* Writing the deliveries of S covers its members and uncovers nothing.
LEMMA RowsCover ==
  ASSUME NEW S, NEW s \in S
  PROVE  Rows({s}) \subseteq Rows(S)
BY DEF Rows

\* Deferring keeps to the events at hand.
LEMMA DeferKeeps ==
  ASSUME NEW waiting, NEW S, NEW d \in Defer(waiting, S)
  PROVE  d \subseteq waiting \cup S
BY DEF Defer

\* What a flush that is starting does to the variables of the router.
Started(goOn) ==
  /\ rpc' = "write" /\ then' = goOn /\ batch' = {}
  /\ deferred' \subseteq Seqs /\ settling' \subseteq Seqs
  /\ mark' \in 0..MaxSeq /\ mark' <= highest
  /\ \A s \in inflight \ settling' : s > confirmed => s > mark'
  /\ budget' \in [{"faults", "replayFaults", "crashes", "deletes"} -> Nat]

LEMMA FlushStarts ==
  ASSUME TypeOK, MarksBelowHighest,
         NEW pending \in SUBSET Seqs, NEW waiting \in SUBSET Seqs, NEW goOn,
         Flush(pending, waiting, goOn)
  PROVE  Started(goOn)
<1>1. PICK bad \in SUBSET pending : BeginFlush(pending, bad, waiting, goOn)
  BY DEF Flush
<1>2. deferred' \subseteq Seqs
  BY <1>1, DeferKeeps DEF BeginFlush
<1>3. settling' = pending \ bad /\ mark' = SafeMark(inflight \ settling')
  BY <1>1 DEF BeginFlush, MarkIfSettled
<1>4. /\ mark' \in 0..highest
      /\ \A s \in inflight \ settling' : s > confirmed => s > mark'
  BY <1>3, SafeMarkBelowOwed
<1>5. mark' \in 0..MaxSeq /\ mark' <= highest
  BY <1>4, BoundsAssumption DEF TypeOK
<1>6. budget' \in [{"faults", "replayFaults", "crashes", "deletes"} -> Nat]
  BY <1>1 DEF BeginFlush, Spend, TypeOK
<1> QED BY <1>1, <1>2, <1>3, <1>4, <1>5, <1>6 DEF BeginFlush, Started

(***************************************************************************)
(* Type correctness.                                                       *)
(***************************************************************************)

\* Nothing of a process is left, or not yet there.
LEMMA EmptyQueue == <<>> \in Seq(Seqs)
OBVIOUS

LEMMA InitType == Init => TypeOK
<1> SUFFICES ASSUME Init PROVE TypeOK
  OBVIOUS
<1> USE BoundsAssumption
<1>1. /\ pc \in [Actors -> {"idle", "journalled", "registered", "refused"}]
      /\ held \in [Actors -> 0..MaxSeq]
  BY DEF Init
<1>2. budget \in [{"faults", "replayFaults", "crashes", "deletes"} -> Nat]
  BY DEF Init
<1>3. queue \in Seq(Seqs)
  BY EmptyQueue DEF Init
<1>4. /\ nextSeq \in 1..(MaxSeq + 1) /\ watermark \in 0..MaxSeq /\ highest \in 0..MaxSeq
      /\ confirmed \in 0..MaxSeq /\ mark \in 0..MaxSeq /\ rpos \in 0..MaxSeq
  BY DEF Init
<1>5. /\ journal \subseteq Seqs /\ inflight \subseteq Seqs /\ batch \subseteq Seqs
      /\ deferred \subseteq Seqs /\ settling \subseteq Seqs /\ chunk \subseteq Seqs
      /\ exposed \subseteq Seqs /\ outbox \subseteq Seqs \X Sinks
  BY DEF Init
<1>6. /\ phase \in {"down", "replay", "live", "stopping"}
      /\ backingOff \in BOOLEAN /\ poolReported \in BOOLEAN /\ draining \in BOOLEAN
      /\ rpc \in {"select", "write", "settle", "watch", "record", "stopped"}
      /\ then \in {"select", "watch", "stopped"}
  BY DEF Init
<1> QED BY <1>1, <1>2, <1>3, <1>4, <1>5, <1>6 DEF TypeOK

LEMMA ProducerType ==
  ASSUME IInv, NEW p \in Actors, Record(p) \/ Accept(p)
  PROVE  TypeOK'
<1> USE BoundsAssumption DEF database, producer, owed, router, replay
<1>0. TypeOK /\ SeqsAllocated /\ MarksBelowHighest
  BY DEF IInv, Safe
<1>1. CASE Record(p)
  BY <1>0, <1>1 DEF Record, InsertEvent, TypeOK, Seqs
<1>2. CASE Register(p)
  <2>1. held[p] \in Seqs /\ held[p] \in 0..MaxSeq
    BY <1>0, <1>2 DEF Register, SeqsAllocated, TypeOK, Seqs
  <2>2. highest' \in 0..MaxSeq /\ inflight' \subseteq Seqs
    BY <1>0, <1>2, <2>1 DEF Register, TypeOK, Higher
  <2>3. exposed' \subseteq Seqs
    <3>1. 1..(held[p] - 1) \subseteq Seqs
      BY <2>1 DEF Seqs
    <3> QED BY <1>0, <1>2, <3>1 DEF Register, TypeOK
  <2> QED BY <1>0, <1>2, <2>2, <2>3 DEF Register, TypeOK
<1>3. CASE Enqueue(p)
  <2>1. held[p] \in Seqs
    BY <1>0, <1>3 DEF Enqueue, SeqsAllocated, TypeOK, Seqs
  <2>2. queue' \in Seq(Seqs)
    BY <1>0, <1>3, <2>1 DEF Enqueue, TypeOK
  <2> QED BY <1>0, <1>3, <2>2 DEF Enqueue, TypeOK
<1>4. CASE Refuse(p)
  <2>1. held[p] \in Seqs
    BY <1>0, <1>4 DEF Refuse, SeqsAllocated, TypeOK, Seqs
  <2>2. confirmed' \in 0..MaxSeq
    BY <1>0, <1>4, SafeMarkBelowOwed DEF Refuse, Settle, TypeOK
  <2> QED BY <1>0, <1>4, <2>1, <2>2 DEF Refuse, Settle, TypeOK
<1>5. CASE RouteInline(p)
  <2>1. held[p] \in Seqs
    BY <1>0, <1>5 DEF RouteInline, SeqsAllocated, TypeOK, Seqs
  <2>2. outbox' \subseteq Seqs \X Sinks
    BY <1>0, <1>5, <2>1 DEF RouteInline, TypeOK, Rows
  <2> QED BY <1>0, <1>5, <2>2 DEF RouteInline, TypeOK, Spend
<1> QED BY <1>1, <1>2, <1>3, <1>4, <1>5 DEF Accept

LEMMA RouterType ==
  ASSUME IInv, RouterStep \/ BackoffElapses
  PROVE  TypeOK'
<1> USE BoundsAssumption DEF database, producer, owed, router, replay
<1>0. TypeOK /\ SeqsAllocated /\ MarksBelowHighest /\ Seqs = 1..MaxSeq
  BY DEF IInv, Safe, Seqs
<1>1. CASE Receive
  <2>1. queue' \in Seq(Seqs) /\ Head(queue) \in Seqs
    BY <1>0, <1>1 DEF Receive, TypeOK
  <2>2. CASE Cardinality(batch \cup {Head(queue)}) < BatchSize
    BY <1>0, <1>1, <2>1, <2>2 DEF Receive, TypeOK
  <2>3. CASE ~(Cardinality(batch \cup {Head(queue)}) < BatchSize)
    <3>1. Flush(batch \cup {Head(queue)}, deferred, "select")
      BY <1>1, <2>3 DEF Receive
    <3>2. batch \cup {Head(queue)} \in SUBSET Seqs /\ deferred \in SUBSET Seqs
      BY <1>0, <2>1 DEF TypeOK
    <3>3. Started("select")
      BY <1>0, <3>1, <3>2, FlushStarts
    <3> QED BY <1>0, <1>1, <2>1, <3>3 DEF Receive, Started, TypeOK
  <2> QED BY <2>2, <2>3
<1>2. CASE Tick
  <2>1. PICK taken \in SUBSET deferred :
          IF batch \cup taken = {}
          THEN /\ rpc' = "watch"
               /\ UNCHANGED <<batch, deferred, then, settling, mark, budget>>
          ELSE Flush(batch \cup taken, deferred \ taken, "watch")
    BY <1>2 DEF Tick
  <2>2. batch \cup taken \in SUBSET Seqs /\ deferred \ taken \in SUBSET Seqs
    BY <1>0 DEF TypeOK
  <2>3. CASE batch \cup taken = {}
    BY <1>0, <1>2, <2>1, <2>3 DEF Tick, TypeOK
  <2>4. CASE batch \cup taken # {}
    <3>1. Flush(batch \cup taken, deferred \ taken, "watch")
      BY <2>1, <2>4
    <3>2. Started("watch")
      BY <1>0, <2>2, <3>1, FlushStarts
    <3> QED BY <1>0, <1>2, <3>2 DEF Tick, Started, TypeOK
  <2> QED BY <2>3, <2>4
<1>3. CASE WriteBatch
  <2>1. outbox' \subseteq Seqs \X Sinks /\ watermark' \in 0..MaxSeq
    BY <1>0, <1>3 DEF WriteBatch, EnqueueRouted, TypeOK, Rows, Higher
  <2> QED BY <1>0, <1>3, <2>1 DEF WriteBatch, EnqueueRouted, TypeOK
<1>4. CASE WriteFails
  <2>1. deferred' \subseteq Seqs
    BY <1>0, <1>4, DeferKeeps DEF WriteFails, TypeOK
  <2> QED BY <1>0, <1>4, <2>1 DEF WriteFails, TypeOK, Spend
<1>5. CASE SettleBatch
  <2>1. confirmed' \in 0..MaxSeq
    BY <1>0, <1>5, SafeMarkBelowOwed DEF SettleBatch, Settle, TypeOK
  <2>2. inflight' \subseteq Seqs /\ highest' = highest
    BY <1>0, <1>5 DEF SettleBatch, Settle, TypeOK
  <2>3. rpc' \in {"select", "write", "settle", "watch", "record", "stopped"}
    BY <1>0, <1>5 DEF SettleBatch, TypeOK
  <2>4. settling' \subseteq Seqs /\ backingOff' \in BOOLEAN
    BY <1>5 DEF SettleBatch
  <2>5. mark' \in 0..MaxSeq
    BY <1>5 DEF SettleBatch
  <2>6. UNCHANGED <<database, phase, producer, queue, batch, deferred, poolReported, then,
                    draining, replay, exposed, budget>>
    BY <1>5 DEF SettleBatch
  <2> QED BY <1>0, <2>1, <2>2, <2>3, <2>4, <2>5, <2>6 DEF TypeOK
<1>6. CASE PoolQuiet
  BY <1>0, <1>6 DEF PoolQuiet, TypeOK
<1>7. CASE PoolReport
  <2>1. PoolWatch \in Actors
    BY DEF Actors
  <2> QED BY <1>0, <1>7, <2>1 DEF PoolReport, InsertEvent, TypeOK
<1>8. CASE PoolReported
  BY <1>0, <1>8 DEF PoolReported, TypeOK
<1>9. CASE SeeDone
  BY <1>0, <1>9 DEF SeeDone, TypeOK
<1>10. CASE Drained
  <2>1. CASE batch = {}
    BY <1>0, <1>10, <2>1 DEF Drained, TypeOK
  <2>2. CASE batch # {}
    <3>1. batch \in SUBSET Seqs /\ deferred \in SUBSET Seqs
      BY <1>0 DEF TypeOK
    <3>2. Flush(batch, deferred, "stopped")
      BY <1>10, <2>2 DEF Drained
    <3>3. Started("stopped")
      BY <1>0, <3>1, <3>2, FlushStarts
    <3> QED BY <1>0, <1>10, <3>3 DEF Drained, Started, TypeOK
  <2> QED BY <2>1, <2>2
<1>11. CASE BackoffElapses
  BY <1>0, <1>11 DEF BackoffElapses, TypeOK
<1> QED
  BY <1>1, <1>2, <1>3, <1>4, <1>5, <1>6, <1>7, <1>8, <1>9, <1>10, <1>11 DEF RouterStep

LEMMA VanishType ==
  ASSUME TypeOK, Vanish,
         budget' \in [{"faults", "replayFaults", "crashes", "deletes"} -> Nat]
  PROVE  TypeOK'
<1> USE BoundsAssumption DEF database, Vanish
<1>1. /\ pc' \in [Actors -> {"idle", "journalled", "registered", "refused"}]
      /\ held' \in [Actors -> 0..MaxSeq]
  OBVIOUS
<1>2. queue' \in Seq(Seqs)
  BY EmptyQueue
<1>3. /\ highest' \in 0..MaxSeq /\ confirmed' \in 0..MaxSeq /\ mark' \in 0..MaxSeq
      /\ rpos' \in 0..MaxSeq
  OBVIOUS
<1>4. /\ inflight' \subseteq Seqs /\ batch' \subseteq Seqs /\ deferred' \subseteq Seqs
      /\ settling' \subseteq Seqs /\ chunk' \subseteq Seqs
  OBVIOUS
<1>5. /\ phase' \in {"down", "replay", "live", "stopping"}
      /\ backingOff' \in BOOLEAN /\ poolReported' \in BOOLEAN /\ draining' \in BOOLEAN
      /\ rpc' \in {"select", "write", "settle", "watch", "record", "stopped"}
      /\ then' \in {"select", "watch", "stopped"}
  OBVIOUS
<1>6. UNCHANGED <<journal, nextSeq, watermark, outbox, exposed>>
  OBVIOUS
<1> HIDE DEF Vanish
<1> QED BY <1>1, <1>2, <1>3, <1>4, <1>5, <1>6 DEF TypeOK

LEMMA ProcessType ==
  ASSUME IInv, Start \/ ReplayStep \/ Shutdown \/ Exit \/ Crash \/ DeleteEvents
  PROVE  TypeOK'
<1> USE BoundsAssumption DEF database, producer, owed, router, replay
<1>0. TypeOK /\ Seqs = 1..MaxSeq
  BY DEF IInv, Safe, Seqs
<1>1. CASE Start
  BY <1>0, <1>1, NewestType DEF Start, TypeOK
<1>2. CASE ReplayRead
  BY <1>0, <1>2 DEF ReplayRead, TypeOK
<1>3. CASE ReplayWrite
  <2>1. outbox' \subseteq Seqs \X Sinks /\ watermark' \in 0..MaxSeq /\ rpos' \in 0..MaxSeq
    <3>1. PICK last \in chunk : EnqueueRouted(chunk, last) /\ rpos' = last
      BY <1>3 DEF ReplayWrite
    <3>2. last \in 0..MaxSeq /\ rpos' \in 0..MaxSeq
      BY <1>0, <3>1 DEF TypeOK
    <3>3. Rows(chunk) \subseteq Seqs \X Sinks
      BY <1>0 DEF Rows, TypeOK
    <3> QED BY <1>0, <3>1, <3>2, <3>3 DEF EnqueueRouted, TypeOK, Higher
  <2> QED BY <1>0, <1>3, <2>1 DEF ReplayWrite, EnqueueRouted, TypeOK
<1>4. CASE ReplayDone
  BY <1>0, <1>4 DEF ReplayDone, TypeOK
<1>5. CASE ReplayStops
  BY <1>0, <1>5 DEF ReplayStops, TypeOK, Spend
<1>6. CASE Shutdown
  BY <1>0, <1>6 DEF Shutdown, TypeOK
<1>7. CASE Exit
  BY <1>0, <1>7, VanishType DEF Exit, TypeOK
<1>8. CASE Crash
  <2>1. budget' \in [{"faults", "replayFaults", "crashes", "deletes"} -> Nat]
    BY <1>0, <1>8 DEF Crash, Spend, TypeOK
  <2> QED BY <1>0, <1>8, <2>1, VanishType DEF Crash
<1>9. CASE DeleteEvents
  <2>1. journal' \subseteq journal
    BY <1>9 DEF DeleteEvents
  <2>2. budget' \in [{"faults", "replayFaults", "crashes", "deletes"} -> Nat]
    BY <1>0, <1>9 DEF DeleteEvents, Spend, TypeOK
  <2>3. UNCHANGED <<nextSeq, watermark, outbox, phase, producer, queue, owed, router, replay,
                    exposed>>
    BY <1>9 DEF DeleteEvents
  <2> QED BY <1>0, <2>1, <2>2, <2>3 DEF TypeOK
<1> QED
  BY <1>1, <1>2, <1>3, <1>4, <1>5, <1>6, <1>7, <1>8, <1>9 DEF ReplayStep

(***************************************************************************)
(* Safety: one lemma per kind of step.                                     *)
(***************************************************************************)

\* What the router may do between two transactions: nothing but its own
\* bookkeeping changes, and a flush it starts computes a safe watermark.
LocalStep ==
  /\ UNCHANGED <<database, phase, producer, owed, replay, exposed>>
  /\ \/ \E goOn \in {"select", "watch", "stopped"} : Started(goOn)
     \/ rpc' \notin {"write", "settle"} /\ mark' \in {mark, 0}
     \/ UNCHANGED <<rpc, settling, mark>>

LEMMA LocalSafe ==
  ASSUME IInv, LocalStep
  PROVE  Safe'
<1> USE BoundsAssumption DEF database, producer, owed, replay
<1>0. /\ TypeOK /\ SeqsAllocated /\ MarksBelowHighest /\ AcceptedStaysOwed /\ Pinned
      /\ SettlingWritten /\ ReplayPrefix /\ HeldAccounted /\ NobodyWhenDown /\ OnlyExposedLost
  BY DEF IInv, Safe
<1>1. UNCHANGED <<journal, nextSeq, watermark, outbox, phase, pc, held, inflight, highest,
                  confirmed, rpos, chunk, exposed>>
  BY DEF LocalStep
<1>2. SeqsAllocated'
  BY <1>0, <1>1 DEF SeqsAllocated
<1>3. MarksBelowHighest'
  BY <1>0, <1>1 DEF MarksBelowHighest, LocalStep, Started, TypeOK
<1>4. AcceptedStaysOwed' /\ OnlyExposedLost'
  BY <1>0, <1>1 DEF AcceptedStaysOwed, OnlyExposedLost, Covered
<1>5. Pinned'
  BY <1>0, <1>1 DEF Pinned, Accounted, Covered, LocalStep, Started
<1>6. SettlingWritten'
  BY <1>0, <1>1 DEF SettlingWritten, Covered, LocalStep, Started
<1>7. ReplayPrefix' /\ HeldAccounted' /\ NobodyWhenDown'
  BY <1>0, <1>1 DEF ReplayPrefix, HeldAccounted, NobodyWhenDown, Accounted, Covered
<1> QED BY <1>2, <1>3, <1>4, <1>5, <1>6, <1>7 DEF Safe

\* A new seq is above every watermark there is.
LEMMA InsertSafe ==
  ASSUME IInv, NEW p \in Actors, InsertEvent(p), phase # "down",
         settling' = settling, mark' = mark, rpc' \notin {"write", "settle"} \/ rpc' = rpc
  PROVE  Safe'
<1> USE BoundsAssumption DEF owed, replay
<1>0. /\ TypeOK /\ SeqsAllocated /\ MarksBelowHighest /\ AcceptedStaysOwed /\ Pinned
      /\ SettlingWritten /\ ReplayPrefix /\ HeldAccounted /\ NobodyWhenDown /\ OnlyExposedLost
  BY DEF IInv, Safe
<1>1. /\ journal' = journal \cup {nextSeq} /\ nextSeq' = nextSeq + 1 /\ nextSeq \in 1..MaxSeq
      /\ pc' = [pc EXCEPT ![p] = "journalled"] /\ held' = [held EXCEPT ![p] = nextSeq]
      /\ UNCHANGED <<watermark, outbox, phase, inflight, highest, confirmed, rpos, chunk,
                     exposed>>
  BY <1>0 DEF InsertEvent, TypeOK
<1>2. /\ watermark \in Nat /\ rpos \in Nat /\ highest \in Nat /\ chunk \subseteq Nat
      /\ \A q \in Actors : q # p => pc'[q] = pc[q] /\ held'[q] = held[q]
      /\ pc'[p] = "journalled" /\ held'[p] = nextSeq
  BY <1>0, <1>1 DEF TypeOK, Seqs
<1>3. SeqsAllocated'
  BY <1>0, <1>1, <1>2 DEF SeqsAllocated
<1>4. MarksBelowHighest'
  BY <1>0, <1>1 DEF MarksBelowHighest
<1>5. AcceptedStaysOwed'
  BY <1>0, <1>1 DEF AcceptedStaysOwed, Covered
<1>6. Pinned'
  BY <1>0, <1>1 DEF Pinned, Accounted, Covered
<1>7. SettlingWritten'
  BY <1>0, <1>1 DEF SettlingWritten, Covered
<1>8. ReplayPrefix'
  BY <1>0, <1>1, <1>2 DEF ReplayPrefix, SeqsAllocated, Accounted, Covered
<1>9. HeldAccounted'
  <2>1. ~(held'[p] <= watermark')
    BY <1>0, <1>1, <1>2 DEF SeqsAllocated
  <2>2. \A q \in Actors : q # p /\ pc'[q] = "journalled" =>
          (held[q]' <= watermark' => Accounted(held[q])')
    BY <1>0, <1>1, <1>2 DEF HeldAccounted, Accounted, Covered
  <2> QED BY <2>1, <2>2 DEF HeldAccounted
<1>10. NobodyWhenDown'
  BY <1>1 DEF NobodyWhenDown
<1>11. OnlyExposedLost'
  BY <1>0, <1>1, <1>2 DEF OnlyExposedLost, SeqsAllocated, Covered
<1> QED
  BY <1>3, <1>4, <1>5, <1>6, <1>7, <1>8, <1>9, <1>10, <1>11 DEF Safe

\* accept's critical section: whatever is neither owed nor queued below the seq
\* it registers becomes exposed.
LEMMA RegisterSafe ==
  ASSUME IInv, NEW p \in Actors, Register(p)
  PROVE  Safe'
<1> USE BoundsAssumption DEF database, router, replay
<1>0. /\ TypeOK /\ SeqsAllocated /\ MarksBelowHighest /\ AcceptedStaysOwed /\ Pinned
      /\ SettlingWritten /\ ReplayPrefix /\ HeldAccounted /\ NobodyWhenDown /\ OnlyExposedLost
  BY DEF IInv, Safe
<1> DEFINE t == held[p]
<1>1. /\ pc[p] = "journalled" /\ t \in 1..(nextSeq - 1) /\ t \in Nat
      /\ pc' = [pc EXCEPT ![p] = "registered"]
      /\ highest' = Higher(highest, t) /\ inflight' = inflight \cup {t}
      /\ UNCHANGED <<journal, nextSeq, watermark, outbox, phase, held, confirmed, rpc, settling,
                     mark, rpos, chunk>>
  BY <1>0 DEF Register, SeqsAllocated
<1>2. /\ exposed \subseteq exposed'
      /\ \A s \in 1..(t - 1) : s \in inflight \/ Covered(s) \/ s \in exposed'
  BY DEF Register
<1>3. /\ highest \in Nat /\ watermark \in Nat /\ confirmed \in Nat /\ mark \in Nat
      /\ nextSeq \in Nat
  BY <1>0 DEF TypeOK
<1>m. ASSUME NEW s, Accounted(s) PROVE Accounted(s)'
  BY <1>1, <1>2, <1>m DEF Accounted, Covered
<1>4. /\ pc'[p] = "registered"
      /\ \A q \in Actors : q # p => pc'[q] = pc[q]
  BY <1>0, <1>1 DEF TypeOK
<1> HIDE DEF t
<1>5. SeqsAllocated'
  BY <1>0, <1>1, <1>3, <1>4 DEF SeqsAllocated, Higher, t
<1>6. MarksBelowHighest'
  BY <1>0, <1>1, <1>3 DEF MarksBelowHighest, Higher
<1>7. AcceptedStaysOwed'
  <2> SUFFICES ASSUME NEW s \in 1..highest' PROVE s \in inflight' \/ Covered(s)' \/ s \in exposed'
    BY DEF AcceptedStaysOwed
  <2>1. CASE s < t
    BY <1>1, <1>2, <1>3, <2>1 DEF Covered
  <2>2. CASE s = t
    BY <1>1, <2>2
  <2>3. CASE s > t
    <3>1. s \in 1..highest
      BY <1>1, <1>3, <2>3 DEF Higher
    <3> QED BY <1>0, <1>1, <1>2, <3>1 DEF AcceptedStaysOwed, Covered
  <2> QED BY <1>1, <1>3, <2>1, <2>2, <2>3 DEF Higher
<1>8. Pinned'
  <2> SUFFICES ASSUME NEW s \in inflight', ~Accounted(s)'
               PROVE  /\ s > watermark' /\ s > confirmed'
                      /\ rpc' = "write" => s > mark' \/ s \in settling'
    BY DEF Pinned
  <2>1. ~Accounted(s)
    BY <1>m
  <2>2. CASE s \in inflight
    BY <1>0, <1>1, <2>1, <2>2 DEF Pinned
  <2>3. CASE s \notin inflight
    <3>1. s = t /\ s \notin 1..highest
      BY <1>0, <1>1, <2>1, <2>3 DEF AcceptedStaysOwed, Accounted
    <3>2. s > highest
      BY <1>1, <1>3, <3>1
    <3>3. s > confirmed /\ s > mark
      BY <1>0, <1>1, <1>3, <3>1, <3>2 DEF MarksBelowHighest
    <3>4. s > watermark
      BY <1>0, <1>1, <1>3, <2>1, <3>1 DEF HeldAccounted, t
    <3> QED BY <1>1, <3>3, <3>4
  <2> QED BY <2>2, <2>3
<1>9. SettlingWritten'
  BY <1>0, <1>1 DEF SettlingWritten, Covered
<1>10. ReplayPrefix' /\ HeldAccounted' /\ NobodyWhenDown'
  <2>1. ReplayPrefix'
    BY <1>0, <1>1, <1>m, <1>4 DEF ReplayPrefix, t
  <2>2. HeldAccounted' /\ NobodyWhenDown'
    BY <1>0, <1>1, <1>m, <1>4 DEF HeldAccounted, NobodyWhenDown
  <2> QED BY <2>1, <2>2
<1>11. OnlyExposedLost'
  BY <1>0, <1>1, <1>2 DEF OnlyExposedLost, Covered
<1> QED
  BY <1>5, <1>6, <1>7, <1>8, <1>9, <1>10, <1>11 DEF Safe

\* The channel takes the event: it stays in flight.
LEMMA EnqueueSafe ==
  ASSUME IInv, NEW p \in Actors, Enqueue(p)
  PROVE  Safe'
<1> USE DEF database, owed, router, replay
<1>0. /\ TypeOK /\ SeqsAllocated /\ MarksBelowHighest /\ AcceptedStaysOwed /\ Pinned
      /\ SettlingWritten /\ ReplayPrefix /\ HeldAccounted /\ NobodyWhenDown /\ OnlyExposedLost
  BY DEF IInv, Safe
<1>1. /\ UNCHANGED <<journal, nextSeq, watermark, outbox, phase, inflight, highest, confirmed,
                     rpc, settling, mark, rpos, chunk, exposed>>
      /\ pc'[p] = "idle"
      /\ \A q \in Actors : q # p => pc'[q] = pc[q] /\ held'[q] = held[q]
  BY <1>0 DEF Enqueue, TypeOK
<1>2. SeqsAllocated'
  BY <1>0, <1>1 DEF SeqsAllocated
<1>3. MarksBelowHighest' /\ AcceptedStaysOwed' /\ OnlyExposedLost'
  BY <1>0, <1>1 DEF MarksBelowHighest, AcceptedStaysOwed, OnlyExposedLost, Covered
<1>4. Pinned' /\ SettlingWritten'
  BY <1>0, <1>1 DEF Pinned, SettlingWritten, Accounted, Covered
<1>5. ReplayPrefix' /\ HeldAccounted' /\ NobodyWhenDown'
  BY <1>0, <1>1 DEF ReplayPrefix, HeldAccounted, NobodyWhenDown, Accounted, Covered
<1> QED BY <1>2, <1>3, <1>4, <1>5 DEF Safe

\* Settling events that are accounted for, whether a batch or a refused one,
\* leaves what is still in flight above the confirmed watermark.
LEMMA SettleSafe ==
  ASSUME TypeOK, MarksBelowHighest, AcceptedStaysOwed, Pinned,
         NEW S \in SUBSET Nat, Settle(S),
         UNCHANGED <<watermark, outbox>>, exposed \subseteq exposed',
         \A s \in S : Accounted(s)',
         mark' \in {mark, 0}, rpc' # "write" \/ UNCHANGED <<rpc, mark, settling>>
  PROVE  MarksBelowHighest' /\ AcceptedStaysOwed' /\ Pinned'
<1> USE BoundsAssumption
<1>1. /\ inflight' = inflight \ S /\ highest' = highest
      /\ confirmed' = SafeMark(inflight \ S)
      /\ highest \in Nat /\ confirmed \in Nat /\ mark \in Nat
  BY DEF Settle, TypeOK
<1>m. ASSUME NEW s, Accounted(s) PROVE Accounted(s)'
  BY <1>m DEF Accounted, Covered
<1>2. /\ confirmed' \in 0..highest
      /\ \A s \in inflight \ S : s > confirmed => s > confirmed'
  BY <1>1, SafeMarkBelowOwed
<1>3. MarksBelowHighest'
  BY <1>1, <1>2 DEF MarksBelowHighest
<1>4. AcceptedStaysOwed'
  BY <1>1, <1>m DEF AcceptedStaysOwed, Accounted
<1>5. Pinned'
  BY <1>1, <1>m, <1>2 DEF Pinned
<1> QED BY <1>3, <1>4, <1>5

\* The channel is full: the event is settled, and exposed.
LEMMA RefuseSafe ==
  ASSUME IInv, NEW p \in Actors, Refuse(p)
  PROVE  Safe'
<1> USE DEF database, router, replay
<1>0. /\ TypeOK /\ SeqsAllocated /\ MarksBelowHighest /\ AcceptedStaysOwed /\ Pinned
      /\ SettlingWritten /\ ReplayPrefix /\ HeldAccounted /\ NobodyWhenDown /\ OnlyExposedLost
  BY DEF IInv, Safe
<1>1. /\ UNCHANGED <<journal, nextSeq, watermark, outbox, phase, held, rpc, settling, mark, rpos,
                     chunk>>
      /\ pc[p] = "registered" /\ pc'[p] = "refused" /\ highest' = highest
      /\ inflight' \subseteq inflight
      /\ \A q \in Actors : q # p => pc'[q] = pc[q]
  BY <1>0 DEF Refuse, Settle, TypeOK
<1>2. /\ exposed \subseteq exposed' /\ (Covered(held[p]) \/ held[p] \in exposed')
      /\ Settle({held[p]}) /\ held[p] \in Nat
  BY <1>0 DEF Refuse, TypeOK
<1>3. Accounted(held[p])'
  BY <1>1, <1>2 DEF Accounted, Covered
<1>m. ASSUME NEW s, Accounted(s) PROVE Accounted(s)'
  BY <1>1, <1>2, <1>m DEF Accounted, Covered
<1>4. MarksBelowHighest' /\ AcceptedStaysOwed' /\ Pinned'
  <2>1. {held[p]} \in SUBSET Nat /\ \A s \in {held[p]} : Accounted(s)'
    BY <1>1, <1>2, <1>3
  <2> QED BY <1>0, <1>1, <1>2, <2>1, SettleSafe
<1>5. SeqsAllocated'
  BY <1>0, <1>1 DEF SeqsAllocated
<1>6. SettlingWritten'
  BY <1>0, <1>1 DEF SettlingWritten, Covered
<1>7. ReplayPrefix' /\ HeldAccounted' /\ NobodyWhenDown'
  BY <1>0, <1>1, <1>m DEF ReplayPrefix, HeldAccounted, NobodyWhenDown
<1>8. OnlyExposedLost'
  BY <1>0, <1>1, <1>2 DEF OnlyExposedLost, Covered
<1> QED BY <1>4, <1>5, <1>6, <1>7, <1>8 DEF Safe

\* Routing inline writes rows, all of them or some.
LEMMA RouteInlineSafe ==
  ASSUME IInv, NEW p \in Actors, RouteInline(p)
  PROVE  Safe'
<1> USE DEF owed, router, replay
<1>0. /\ TypeOK /\ SeqsAllocated /\ MarksBelowHighest /\ AcceptedStaysOwed /\ Pinned
      /\ SettlingWritten /\ ReplayPrefix /\ HeldAccounted /\ NobodyWhenDown /\ OnlyExposedLost
  BY DEF IInv, Safe
<1>1. /\ UNCHANGED <<journal, nextSeq, watermark, phase, inflight, highest, confirmed, rpc,
                     settling, mark, rpos, chunk, exposed>>
      /\ outbox \subseteq outbox' /\ pc'[p] = "idle"
      /\ \A q \in Actors : q # p => pc'[q] = pc[q] /\ held'[q] = held[q]
  BY <1>0 DEF RouteInline, TypeOK
<1>2. ASSUME NEW s, Covered(s) PROVE Covered(s)'
  BY <1>1, <1>2 DEF Covered
<1>m. ASSUME NEW s, Accounted(s) PROVE Accounted(s)'
  BY <1>1, <1>2, <1>m DEF Accounted
<1>3. SeqsAllocated'
  BY <1>0, <1>1 DEF SeqsAllocated
<1>4. MarksBelowHighest' /\ AcceptedStaysOwed' /\ OnlyExposedLost'
  BY <1>0, <1>1, <1>2 DEF MarksBelowHighest, AcceptedStaysOwed, OnlyExposedLost
<1>5. Pinned' /\ SettlingWritten'
  BY <1>0, <1>1, <1>2, <1>m DEF Pinned, SettlingWritten
<1>6. ReplayPrefix'
  BY <1>0, <1>1, <1>m DEF ReplayPrefix
<1>7. HeldAccounted' /\ NobodyWhenDown'
  BY <1>0, <1>1, <1>m DEF HeldAccounted, NobodyWhenDown
<1> QED BY <1>3, <1>4, <1>5, <1>6, <1>7 DEF Safe

\* The transaction of a batch: what its watermark passes was either in the
\* batch, and is written by the same transaction, or was accounted for before.
LEMMA WriteBatchSafe ==
  ASSUME IInv, WriteBatch
  PROVE  Safe'
<1> USE BoundsAssumption DEF producer, owed, replay
<1>0. /\ TypeOK /\ SeqsAllocated /\ MarksBelowHighest /\ AcceptedStaysOwed /\ Pinned
      /\ SettlingWritten /\ ReplayPrefix /\ HeldAccounted /\ NobodyWhenDown /\ OnlyExposedLost
  BY DEF IInv, Safe
<1>1. /\ UNCHANGED <<journal, nextSeq, phase, pc, held, inflight, highest, confirmed, settling,
                     mark, rpos, chunk, exposed>>
      /\ outbox' = outbox \cup Rows(settling)
      /\ watermark' = Higher(watermark, mark)
      /\ rpc = "write" /\ rpc' = "settle"
  BY DEF WriteBatch, EnqueueRouted
<1>2. /\ watermark \in Nat /\ mark \in Nat /\ highest \in Nat /\ nextSeq \in Nat
      /\ inflight \subseteq Nat /\ journal \subseteq Nat \ {0}
  BY <1>0 DEF TypeOK, Seqs
<1>3. ASSUME NEW s \in settling PROVE Covered(s)'
  BY <1>1, RowsCover DEF Covered
<1>m. ASSUME NEW s, Covered(s) PROVE Covered(s)'
  BY <1>1, <1>m DEF Covered
<1>n. ASSUME NEW s, Accounted(s) PROVE Accounted(s)'
  BY <1>1, <1>m, <1>n DEF Accounted
\* The heart of the matter.
<1>4. ASSUME NEW s \in Nat \ {0}, s <= mark PROVE Accounted(s)'
  <2>1. s \in 1..highest
    BY <1>0, <1>2, <1>4 DEF MarksBelowHighest
  <2>2. s \in inflight \/ Accounted(s)
    BY <1>0, <2>1 DEF AcceptedStaysOwed, Accounted
  <2>3. CASE s \in inflight /\ ~Accounted(s)
    <3>1. s \in settling
      BY <1>0, <1>1, <1>2, <1>4, <2>3 DEF Pinned
    <3> QED BY <1>3, <3>1 DEF Accounted
  <2> QED BY <1>n, <2>2, <2>3
<1>5. SeqsAllocated'
  BY <1>0, <1>1, <1>2 DEF SeqsAllocated, MarksBelowHighest, Higher
<1>6. MarksBelowHighest' /\ AcceptedStaysOwed'
  BY <1>0, <1>1, <1>m DEF MarksBelowHighest, AcceptedStaysOwed
<1>7. Pinned'
  <2> SUFFICES ASSUME NEW s \in inflight', ~Accounted(s)'
               PROVE  s > watermark' /\ s > confirmed'
    BY <1>1 DEF Pinned
  <2>1. s \in Nat \ {0} /\ ~Accounted(s) /\ ~(s <= mark)
    BY <1>0, <1>1, <1>4, <1>n DEF TypeOK, Seqs
  <2>2. s > watermark /\ s > confirmed
    BY <1>0, <1>1, <2>1 DEF Pinned
  <2> QED BY <1>1, <1>2, <2>1, <2>2 DEF Higher
<1>8. SettlingWritten'
  BY <1>1, <1>3 DEF SettlingWritten
<1>9. ReplayPrefix' /\ NobodyWhenDown'
  BY <1>0, <1>1, <1>n DEF ReplayPrefix, NobodyWhenDown
<1>10. HeldAccounted'
  <2> SUFFICES ASSUME NEW p \in Actors, NEW h, h = held[p],
                      pc[p] = "journalled", h <= watermark'
               PROVE  Accounted(h)'
    BY <1>1 DEF HeldAccounted, Accounted, Covered
  <2>1. h \in Nat \ {0}
    BY <1>0 DEF SeqsAllocated
  <2>2. CASE h <= watermark
    BY <1>0, <1>n, <2>2 DEF HeldAccounted
  <2>3. CASE h <= mark
    BY <1>4, <2>1, <2>3
  <2> QED BY <1>1, <1>2, <2>1, <2>2, <2>3 DEF Higher
<1>11. OnlyExposedLost'
  <2> SUFFICES ASSUME NEW s \in journal, s <= watermark' PROVE Accounted(s)'
    BY <1>1 DEF OnlyExposedLost, Accounted
  <2>1. s <= watermark \/ s <= mark
    BY <1>1, <1>2 DEF Higher
  <2> QED BY <1>0, <1>2, <1>4, <1>n, <2>1 DEF OnlyExposedLost, Accounted
<1> QED
  BY <1>5, <1>6, <1>7, <1>8, <1>9, <1>10, <1>11 DEF Safe

\* What a flush settles, it has written.
LEMMA SettleBatchSafe ==
  ASSUME IInv, SettleBatch
  PROVE  Safe'
<1> USE DEF database, producer, replay
<1>0. /\ TypeOK /\ SeqsAllocated /\ MarksBelowHighest /\ AcceptedStaysOwed /\ Pinned
      /\ SettlingWritten /\ ReplayPrefix /\ HeldAccounted /\ NobodyWhenDown /\ OnlyExposedLost
  BY DEF IInv, Safe
<1>1. /\ UNCHANGED <<journal, nextSeq, watermark, outbox, phase, pc, held, rpos, chunk, exposed>>
      /\ rpc = "settle" /\ rpc' = then /\ then \in {"select", "watch", "stopped"}
      /\ mark' = 0 /\ Settle(settling) /\ highest' = highest /\ inflight' \subseteq inflight
  BY <1>0 DEF SettleBatch, Settle, TypeOK
<1>2. settling \in SUBSET Nat /\ \A s \in settling : Accounted(s)'
  BY <1>0, <1>1 DEF SettlingWritten, Accounted, Covered, TypeOK, Seqs
<1>3. MarksBelowHighest' /\ AcceptedStaysOwed' /\ Pinned'
  <2>1. rpc' # "write"
    BY <1>1
  <2> QED BY <1>0, <1>1, <1>2, <2>1, SettleSafe
<1>4. SeqsAllocated'
  BY <1>0, <1>1 DEF SeqsAllocated
<1>5. SettlingWritten'
  BY <1>1 DEF SettlingWritten
<1>6. ReplayPrefix' /\ HeldAccounted' /\ NobodyWhenDown'
  BY <1>0, <1>1 DEF ReplayPrefix, HeldAccounted, NobodyWhenDown, Accounted, Covered
<1>7. OnlyExposedLost'
  BY <1>0, <1>1 DEF OnlyExposedLost, Covered
<1> QED BY <1>3, <1>4, <1>5, <1>6, <1>7 DEF Safe

\* A launch trusts the watermark, and replays above it.
LEMMA StartSafe ==
  ASSUME IInv, Start
  PROVE  Safe'
<1> USE BoundsAssumption DEF producer, owed
<1>0. /\ TypeOK /\ SeqsAllocated /\ MarksBelowHighest /\ AcceptedStaysOwed /\ Pinned
      /\ SettlingWritten /\ ReplayPrefix /\ HeldAccounted /\ NobodyWhenDown /\ OnlyExposedLost
  BY DEF IInv, Safe
<1>1. /\ UNCHANGED <<journal, nextSeq, outbox, pc, held, inflight, highest, confirmed, settling,
                     mark, chunk, exposed>>
      /\ phase = "down" /\ phase' = "replay" /\ rpc' = "select" /\ rpos' = watermark'
  BY DEF Start
<1>2. watermark' <= watermark /\ watermark' \in Nat /\ watermark \in Nat /\ nextSeq \in Nat
  BY <1>0, NewestType DEF Start, TypeOK
<1>3. /\ journal \subseteq Nat /\ inflight \subseteq Nat /\ highest \in Nat /\ confirmed \in Nat
      /\ chunk \subseteq Nat
  BY <1>0 DEF TypeOK, Seqs
<1>4. SeqsAllocated'
  BY <1>0, <1>1, <1>2 DEF SeqsAllocated
<1>5. MarksBelowHighest' /\ AcceptedStaysOwed' /\ SettlingWritten'
  BY <1>0, <1>1 DEF MarksBelowHighest, AcceptedStaysOwed, SettlingWritten, Covered
<1>6. Pinned'
  BY <1>0, <1>1, <1>2, <1>3 DEF Pinned, Accounted, Covered
<1>7. OnlyExposedLost'
  BY <1>0, <1>1, <1>2, <1>3 DEF OnlyExposedLost, Covered
<1>8. chunk' = {} /\ inflight' = {}
  BY <1>0, <1>1 DEF NobodyWhenDown
<1>9. ReplayPrefix'
  <2>1. \A s \in journal' : s <= rpos' => Accounted(s)'
    BY <1>1, <1>7 DEF OnlyExposedLost, Accounted
  <2>2. \A p \in Actors : pc'[p] = "idle"
    BY <1>0, <1>1 DEF NobodyWhenDown
  <2> QED BY <1>8, <2>1, <2>2 DEF ReplayPrefix
<1>10. HeldAccounted' /\ NobodyWhenDown'
  BY <1>0, <1>1 DEF HeldAccounted, NobodyWhenDown
<1> QED BY <1>4, <1>5, <1>6, <1>7, <1>9, <1>10 DEF Safe

\* The replay reads the lowest events above its position, without a gap.
LEMMA ReplayReadSafe ==
  ASSUME IInv, ReplayRead
  PROVE  Safe'
<1> USE BoundsAssumption DEF database, producer, owed, router
<1>0. /\ TypeOK /\ SeqsAllocated /\ MarksBelowHighest /\ AcceptedStaysOwed /\ Pinned
      /\ SettlingWritten /\ ReplayPrefix /\ HeldAccounted /\ NobodyWhenDown /\ OnlyExposedLost
  BY DEF IInv, Safe
<1> DEFINE above == {s \in journal : s > rpos}
           upTo(s) == {t \in above : t <= s}
<1>1. /\ UNCHANGED <<journal, nextSeq, watermark, outbox, phase, pc, held, inflight, highest,
                     confirmed, rpc, settling, mark, rpos, exposed>>
      /\ chunk' = {s \in above : Cardinality(upTo(s)) <= BatchSize}
  BY DEF ReplayRead
<1>2. IsFiniteSet(above) /\ above \subseteq Nat
  <2>1. IsFiniteSet(1..MaxSeq)
    BY FS_Interval
  <2>2. above \in SUBSET (1..MaxSeq)
    BY <1>0 DEF TypeOK, Seqs
  <2> QED BY <2>1, <2>2, FS_Subset
<1>3. ASSUME NEW c \in chunk', NEW s \in above, s <= c
      PROVE  s \in chunk'
  <2>1. c \in above /\ Cardinality(upTo(c)) <= BatchSize
    BY <1>1
  <2>2. IsFiniteSet(upTo(c)) /\ upTo(c) \in SUBSET above
    BY <1>2, FS_Subset
  <2>3. upTo(s) \in SUBSET upTo(c)
    BY <1>2, <1>3, <2>1
  <2>4. /\ Cardinality(upTo(s)) <= Cardinality(upTo(c)) /\ Cardinality(upTo(c)) \in Nat
        /\ Cardinality(upTo(s)) \in Nat
    BY <2>2, <2>3, FS_Subset, FS_CardinalityType
  <2> HIDE DEF upTo
  <2>5. Cardinality(upTo(s)) <= BatchSize
    BY <2>1, <2>4
  <2> QED BY <1>1, <2>5
<1>4. chunk' \subseteq journal
  BY <1>1
<1>5. SeqsAllocated'
  BY <1>0, <1>1, <1>4 DEF SeqsAllocated
<1>6. MarksBelowHighest' /\ AcceptedStaysOwed' /\ OnlyExposedLost' /\ NobodyWhenDown'
  <2>1. phase = "replay"
    BY DEF ReplayRead
  <2> QED
    BY <1>0, <1>1, <2>1
    DEF MarksBelowHighest, AcceptedStaysOwed, OnlyExposedLost, NobodyWhenDown, Covered
<1>7. Pinned' /\ SettlingWritten' /\ HeldAccounted'
  BY <1>0, <1>1 DEF Pinned, SettlingWritten, HeldAccounted, Accounted, Covered
<1>8. ReplayPrefix'
  <2> SUFFICES ASSUME phase' = "replay"
               PROVE  /\ \A s \in journal' : s <= rpos' => Accounted(s)'
                      /\ \A c \in chunk', s \in journal' : rpos' < s /\ s <= c => s \in chunk'
                      /\ \A p \in Actors : pc'[p] = "journalled" => held'[p] \in journal'
                      /\ inflight' \subseteq journal'
    BY DEF ReplayPrefix
  <2>1. \A c \in chunk', s \in journal' : rpos' < s /\ s <= c => s \in chunk'
    <3>1. rpos \in Int /\ journal \subseteq Int
      BY <1>0 DEF TypeOK, Seqs
    <3>2. \A s \in journal : rpos < s => s \in above
      BY <3>1
    <3> HIDE DEF above
    <3> QED BY <1>1, <1>3, <3>2
  <2> QED BY <1>0, <1>1, <2>1 DEF ReplayPrefix, Accounted, Covered
<1> QED BY <1>5, <1>6, <1>7, <1>8 DEF Safe

\* The replay's transaction: everything up to its last event was read by it, or
\* lies behind it.
LEMMA ReplayWriteSafe ==
  ASSUME IInv, ReplayWrite
  PROVE  Safe'
<1> USE BoundsAssumption DEF producer, owed, router
<1>0. /\ TypeOK /\ SeqsAllocated /\ MarksBelowHighest /\ AcceptedStaysOwed /\ Pinned
      /\ SettlingWritten /\ ReplayPrefix /\ HeldAccounted /\ NobodyWhenDown /\ OnlyExposedLost
  BY DEF IInv, Safe
<1>1. PICK last \in chunk : EnqueueRouted(chunk, last) /\ rpos' = last
  BY DEF ReplayWrite
<1>2. /\ UNCHANGED <<journal, nextSeq, phase, pc, held, inflight, highest, confirmed, rpc,
                     settling, mark, exposed>>
      /\ outbox' = outbox \cup Rows(chunk)
      /\ watermark' = Higher(watermark, last) /\ rpos' = last
      /\ phase = "replay" /\ chunk' = {}
  BY <1>1 DEF ReplayWrite, EnqueueRouted
<1>3. /\ watermark \in Nat /\ last \in Nat /\ rpos \in Nat /\ nextSeq \in Nat
      /\ journal \subseteq Nat \ {0} /\ inflight \subseteq Nat \ {0}
  BY <1>0 DEF TypeOK, Seqs
<1>m. ASSUME NEW s, Covered(s) PROVE Covered(s)'
  BY <1>2, <1>m DEF Covered
<1>n. ASSUME NEW s, Accounted(s) PROVE Accounted(s)'
  BY <1>2, <1>m, <1>n DEF Accounted
<1>4. ASSUME NEW s \in journal, s <= last PROVE Accounted(s)'
  <2>1. CASE s <= rpos
    BY <1>0, <1>2, <1>n, <2>1 DEF ReplayPrefix
  <2>2. CASE s > rpos
    <3>1. s \in chunk
      BY <1>0, <1>2, <1>3, <1>4, <2>2 DEF ReplayPrefix
    <3>2. Covered(s)'
      BY <1>2, <3>1, RowsCover DEF Covered
    <3> QED BY <3>2 DEF Accounted
  <2> QED BY <1>3, <2>1, <2>2
<1>5. SeqsAllocated'
  BY <1>0, <1>1, <1>2, <1>3 DEF SeqsAllocated, Higher
<1>6. MarksBelowHighest' /\ AcceptedStaysOwed' /\ SettlingWritten' /\ NobodyWhenDown'
  BY <1>0, <1>2, <1>m DEF MarksBelowHighest, AcceptedStaysOwed, SettlingWritten, NobodyWhenDown
<1>7. ReplayPrefix'
  BY <1>0, <1>2, <1>4 DEF ReplayPrefix
<1>8. Pinned'
  <2> SUFFICES ASSUME NEW s \in inflight', ~Accounted(s)'
               PROVE  /\ s > watermark' /\ s > confirmed'
                      /\ rpc' = "write" => s > mark' \/ s \in settling'
    BY DEF Pinned
  <2>1. s \in journal /\ ~Accounted(s) /\ ~(s <= last)
    BY <1>0, <1>2, <1>4, <1>n DEF ReplayPrefix
  <2>2. /\ s > watermark /\ s > confirmed
        /\ rpc = "write" => s > mark \/ s \in settling
    BY <1>0, <1>2, <2>1 DEF Pinned
  <2> QED BY <1>2, <1>3, <2>1, <2>2 DEF Higher
<1>9. HeldAccounted'
  <2> SUFFICES ASSUME NEW p \in Actors, NEW h, h = held[p],
                      pc[p] = "journalled", h <= watermark'
               PROVE  Accounted(h)'
    BY <1>2 DEF HeldAccounted, Accounted, Covered
  <2>1. h \in journal
    BY <1>0, <1>2 DEF ReplayPrefix
  <2>2. CASE h <= watermark
    BY <1>0, <1>n, <2>2 DEF HeldAccounted
  <2>3. CASE h <= last
    BY <1>4, <2>1, <2>3
  <2> QED BY <1>2, <1>3, <2>1, <2>2, <2>3 DEF Higher
<1>10. OnlyExposedLost'
  <2> SUFFICES ASSUME NEW s \in journal, s <= watermark' PROVE Accounted(s)'
    BY <1>2 DEF OnlyExposedLost, Accounted
  <2>1. s <= watermark \/ s <= last
    BY <1>2, <1>3 DEF Higher
  <2> QED BY <1>0, <1>4, <1>n, <2>1 DEF OnlyExposedLost, Accounted
<1> QED BY <1>5, <1>6, <1>7, <1>8, <1>9, <1>10 DEF Safe

\* The replay returns, early or not; or the shutdown begins; or rows of the
\* journal are deleted.
PhaseStep ==
  /\ phase' \in {"live", "stopping"}
  /\ journal' \subseteq journal /\ chunk' \subseteq chunk
  /\ UNCHANGED <<nextSeq, watermark, outbox, pc, held, inflight, highest, confirmed, rpc,
                 settling, mark, rpos, exposed>>

LEMMA PhaseSafe ==
  ASSUME IInv, PhaseStep
  PROVE  Safe'
<1>0. /\ TypeOK /\ SeqsAllocated /\ MarksBelowHighest /\ AcceptedStaysOwed /\ Pinned
      /\ SettlingWritten /\ ReplayPrefix /\ HeldAccounted /\ NobodyWhenDown /\ OnlyExposedLost
  BY DEF IInv, Safe
<1>1. SeqsAllocated'
  BY <1>0 DEF PhaseStep, SeqsAllocated
<1>2. MarksBelowHighest' /\ AcceptedStaysOwed' /\ OnlyExposedLost'
  BY <1>0 DEF PhaseStep, MarksBelowHighest, AcceptedStaysOwed, OnlyExposedLost, Covered
<1>3. Pinned' /\ SettlingWritten' /\ HeldAccounted'
  BY <1>0 DEF PhaseStep, Pinned, SettlingWritten, HeldAccounted, Accounted, Covered
<1>4. ReplayPrefix' /\ NobodyWhenDown'
  BY DEF PhaseStep, ReplayPrefix, NobodyWhenDown
<1> QED BY <1>1, <1>2, <1>3, <1>4 DEF Safe

\* A crash forgets what is owed, never what is written.
LEMMA VanishSafe ==
  ASSUME IInv, Vanish
  PROVE  Safe'
<1> USE BoundsAssumption DEF database
<1>0. /\ TypeOK /\ SeqsAllocated /\ MarksBelowHighest /\ AcceptedStaysOwed /\ Pinned
      /\ SettlingWritten /\ ReplayPrefix /\ HeldAccounted /\ NobodyWhenDown /\ OnlyExposedLost
  BY DEF IInv, Safe
<1>1. /\ UNCHANGED <<journal, nextSeq, watermark, outbox, exposed>>
      /\ phase' = "down" /\ inflight' = {} /\ highest' = 0 /\ confirmed' = 0 /\ mark' = 0
      /\ settling' = {} /\ rpos' = 0 /\ chunk' = {} /\ rpc' = "stopped"
      /\ \A p \in Actors : pc'[p] = "idle"
  BY DEF Vanish
<1>2. nextSeq \in Nat \ {0}
  BY <1>0 DEF TypeOK
<1>3. SeqsAllocated'
  BY <1>0, <1>1, <1>2 DEF SeqsAllocated
<1>4. MarksBelowHighest' /\ AcceptedStaysOwed'
  BY <1>1 DEF MarksBelowHighest, AcceptedStaysOwed
<1>5. Pinned' /\ SettlingWritten' /\ ReplayPrefix' /\ HeldAccounted' /\ NobodyWhenDown'
  BY <1>1 DEF Pinned, SettlingWritten, ReplayPrefix, HeldAccounted, NobodyWhenDown
<1>6. OnlyExposedLost'
  BY <1>0, <1>1 DEF OnlyExposedLost, Covered
<1> QED BY <1>3, <1>4, <1>5, <1>6 DEF Safe

(***************************************************************************)
(* The invariant is inductive.                                             *)
(***************************************************************************)

LEMMA InitInv == Init => IInv
<1> SUFFICES ASSUME Init PROVE IInv
  OBVIOUS
<1>1. TypeOK
  BY InitType
<1>2. /\ SeqsAllocated /\ MarksBelowHighest /\ AcceptedStaysOwed
  BY DEF Init, SeqsAllocated, MarksBelowHighest, AcceptedStaysOwed
<1>3. Pinned /\ SettlingWritten /\ ReplayPrefix /\ HeldAccounted /\ NobodyWhenDown
      /\ OnlyExposedLost
  BY DEF Init, Pinned, SettlingWritten, ReplayPrefix, HeldAccounted, NobodyWhenDown, OnlyExposedLost
<1> QED BY <1>1, <1>2, <1>3 DEF IInv, Safe

LEMMA ProducerInv ==
  ASSUME IInv, NEW p \in Actors, Record(p) \/ Accept(p)
  PROVE  IInv'
<1>1. TypeOK'
  BY ProducerType
<1>2. CASE Record(p)
  <2>1. InsertEvent(p) /\ phase # "down"
    BY <1>2 DEF Record, MayRecord
  <2>2. settling' = settling /\ mark' = mark /\ rpc' = rpc
    BY <1>2 DEF Record, router
  <2> QED BY <1>1, <2>1, <2>2, InsertSafe DEF IInv
<1>3. CASE Accept(p)
  BY <1>1, <1>3, RegisterSafe, EnqueueSafe, RefuseSafe, RouteInlineSafe DEF Accept, IInv
<1> QED BY <1>2, <1>3

LEMMA RouterInv ==
  ASSUME IInv, RouterStep \/ BackoffElapses
  PROVE  IInv'
<1>1. TypeOK'
  BY RouterType
<1>0. TypeOK /\ MarksBelowHighest
  BY DEF IInv, Safe
<1>2. CASE Receive \/ Tick \/ Drained
  <2>1. UNCHANGED <<database, phase, producer, owed, replay, exposed>>
    BY <1>2 DEF Receive, Tick, Drained
  <2>2. ASSUME \E goOn \in {"select", "watch", "stopped"} : Started(goOn)
        PROVE  LocalStep
    BY <2>1, <2>2 DEF LocalStep
  <2>3. ASSUME \/ UNCHANGED <<rpc, settling, mark>>
               \/ rpc' \in {"watch", "stopped"} /\ mark' = mark
        PROVE  LocalStep
    BY <2>1, <2>3 DEF LocalStep
  <2>4. batch \in SUBSET Seqs /\ deferred \in SUBSET Seqs
    BY <1>0 DEF TypeOK
  <2>5. ASSUME Receive PROVE LocalStep
    <3>1. batch \cup {Head(queue)} \in SUBSET Seqs
      BY <1>0, <2>4, <2>5 DEF Receive, TypeOK
    <3>2. \/ UNCHANGED <<rpc, settling, mark>>
          \/ Flush(batch \cup {Head(queue)}, deferred, "select")
      BY <2>5 DEF Receive
    <3>3. CASE Flush(batch \cup {Head(queue)}, deferred, "select")
      <4>1. Started("select")
        BY <1>0, <2>4, <3>1, <3>3, FlushStarts
      <4> QED BY <2>2, <4>1
    <3> QED BY <2>3, <3>2, <3>3
  <2>6. ASSUME Tick PROVE LocalStep
    <3>1. PICK taken \in SUBSET deferred :
            \/ rpc' = "watch" /\ mark' = mark
            \/ Flush(batch \cup taken, deferred \ taken, "watch")
      BY <2>6 DEF Tick
    <3>2. batch \cup taken \in SUBSET Seqs /\ deferred \ taken \in SUBSET Seqs
      BY <2>4
    <3>3. CASE Flush(batch \cup taken, deferred \ taken, "watch")
      <4>1. Started("watch")
        BY <1>0, <3>2, <3>3, FlushStarts
      <4> QED BY <2>2, <4>1
    <3> QED BY <2>3, <3>1, <3>3
  <2>7. ASSUME Drained PROVE LocalStep
    <3>1. \/ rpc' = "stopped" /\ mark' = mark
          \/ Flush(batch, deferred, "stopped")
      BY <2>7 DEF Drained
    <3>2. CASE Flush(batch, deferred, "stopped")
      <4>1. Started("stopped")
        BY <1>0, <2>4, <3>2, FlushStarts
      <4> QED BY <2>2, <4>1
    <3> QED BY <2>3, <3>1, <3>2
  <2>8. LocalStep
    BY <1>2, <2>5, <2>6, <2>7
  <2> QED BY <1>1, <2>8, LocalSafe DEF IInv
<1>3. CASE WriteBatch
  BY <1>1, <1>3, WriteBatchSafe DEF IInv
<1>4. CASE SettleBatch
  BY <1>1, <1>4, SettleBatchSafe DEF IInv
<1>5. CASE WriteFails \/ PoolQuiet \/ PoolReported \/ SeeDone \/ BackoffElapses
  <2>1. UNCHANGED <<database, phase, producer, owed, replay, exposed>>
    BY <1>5 DEF WriteFails, PoolQuiet, PoolReported, SeeDone, BackoffElapses
  <2>2. \/ rpc' \notin {"write", "settle"} /\ mark' \in {mark, 0}
        \/ UNCHANGED <<rpc, settling, mark>>
    BY <1>0, <1>5 DEF WriteFails, PoolQuiet, PoolReported, SeeDone, BackoffElapses, TypeOK
  <2>3. LocalStep
    BY <2>1, <2>2 DEF LocalStep
  <2> QED BY <1>1, <2>3, LocalSafe DEF IInv
<1>6. CASE PoolReport
  <2>1. /\ InsertEvent(PoolWatch) /\ PoolWatch \in Actors /\ phase # "down"
        /\ settling' = settling /\ mark' = mark /\ rpc' \notin {"write", "settle"}
    BY <1>6 DEF PoolReport, Running, Actors
  <2> QED BY <1>1, <2>1, InsertSafe DEF IInv
<1> QED BY <1>2, <1>3, <1>4, <1>5, <1>6 DEF RouterStep

LEMMA ProcessInv ==
  ASSUME IInv, Start \/ ReplayStep \/ Shutdown \/ Exit \/ Crash \/ DeleteEvents
  PROVE  IInv'
<1>1. TypeOK'
  BY ProcessType
<1>2. CASE Start
  BY <1>1, <1>2, StartSafe DEF IInv
<1>3. CASE ReplayRead
  BY <1>1, <1>3, ReplayReadSafe DEF IInv
<1>4. CASE ReplayWrite
  BY <1>1, <1>4, ReplayWriteSafe DEF IInv
<1>5. CASE ReplayDone \/ ReplayStops \/ Shutdown \/ DeleteEvents
  <2>1. PhaseStep
    BY <1>5 DEF ReplayDone, ReplayStops, Shutdown, DeleteEvents, PhaseStep, database, producer,
                owed, router, replay
  <2> QED BY <1>1, <2>1, PhaseSafe DEF IInv
<1>6. CASE Exit \/ Crash
  BY <1>1, <1>6, VanishSafe DEF Exit, Crash, IInv
<1> QED BY <1>2, <1>3, <1>4, <1>5, <1>6 DEF ReplayStep

LEMMA StutterInv ==
  ASSUME IInv, UNCHANGED vars
  PROVE  IInv'
<1>1. TypeOK'
  BY DEF IInv, TypeOK, vars, database, producer, owed, router, replay
<1>2. LocalStep
  BY DEF LocalStep, vars, router
<1> QED BY <1>1, <1>2, LocalSafe DEF IInv

LEMMA NextInv == IInv /\ [Next]_vars => IInv'
<1> SUFFICES ASSUME IInv, [Next]_vars PROVE IInv'
  OBVIOUS
<1>1. ASSUME NEW p \in Producers, Record(p) PROVE IInv'
  BY <1>1, ProducerInv DEF Actors
<1>2. ASSUME NEW p \in Actors, Accept(p) PROVE IInv'
  BY <1>2, ProducerInv
<1>3. CASE RouterStep \/ BackoffElapses
  BY <1>3, RouterInv
<1>4. CASE Start \/ ReplayStep \/ Shutdown \/ Exit \/ Crash \/ DeleteEvents
  BY <1>4, ProcessInv
<1>5. CASE UNCHANGED vars
  BY <1>5, StutterInv
<1> QED BY <1>1, <1>2, <1>3, <1>4, <1>5 DEF Next

(***************************************************************************)
(* The theorems.                                                           *)
(***************************************************************************)

LEMMA Invariance == Spec => []IInv
<1>1. Init => IInv
  BY InitInv
<1>2. IInv /\ [Next]_vars => IInv'
  BY NextInv
<1> QED BY <1>1, <1>2, PTL DEF Spec

\* The state of the pipeline keeps its types (router.go:94-125).
THEOREM TypeCorrect == Spec => []TypeOK
<1>1. IInv => TypeOK
  BY DEF IInv
<1> QED BY <1>1, Invariance, PTL

\* Whatever is journalled at or below the watermark has its deliveries written,
\* or was exposed when a later event was accepted (router.go:187, 474-478).
THEOREM WatermarkSafe == Spec => []OnlyExposedLost
<1>1. IInv => OnlyExposedLost
  BY DEF IInv, Safe
<1> QED BY <1>1, Invariance, PTL

\* An accepted event stays owed until its deliveries are written (router.go:88).
THEOREM NothingForgotten == Spec => []AcceptedStaysOwed
<1>1. IInv => AcceptedStaysOwed
  BY DEF IInv, Safe
<1> QED BY <1>1, Invariance, PTL

\* An event in flight pins the watermark below it (router.go:109, 177-187).
THEOREM InFlightPins == Spec => []InFlightPinsWatermark
<1>1. IInv => InFlightPinsWatermark
  BY DEF IInv, Safe, Pinned, Accounted, InFlightPinsWatermark
<1> QED BY <1>1, Invariance, PTL

(***************************************************************************)
(* Where an event is.                                                      *)
(***************************************************************************)

InHand   == {held[p] : p \in {q \in Actors : pc[q] = "registered"}}
InQueue  == {queue[i] : i \in DOMAIN queue}
InRouter == batch \cup deferred \cup settling

\* The producers hold different events, and none that was handed over.
HandsApart ==
  /\ \A p, q \in Actors : pc[p] # "idle" /\ pc[q] # "idle" /\ held[p] = held[q] => p = q
  /\ \A p \in Actors : pc[p] # "idle" => held[p] \notin InQueue \cup InRouter
  /\ \A p \in Actors : pc[p] = "refused" => held[p] \notin inflight

\* What was handed over is in one place, and there once.
PlacesApart ==
  /\ InQueue \cup InRouter \subseteq 1..(nextSeq - 1)
  /\ \A i, j \in DOMAIN queue : queue[i] = queue[j] => i = j
  /\ InQueue \cap InRouter = {}
  /\ batch \cap deferred = {} /\ batch \cap settling = {} /\ deferred \cap settling = {}

\* The router records an event of its own only where it waits for it, and settles
\* only what a flush took.
RouterWaits ==
  /\ rpc # "record" => pc[PoolWatch] = "idle"
  /\ rpc \notin {"write", "settle"} => settling = {}

\* Nothing in flight is forgotten, as long as the deferred list has room.
Placed == QueueDepth >= MaxSeq => inflight \subseteq InHand \cup InQueue \cup InRouter

Apart == HandsApart /\ PlacesApart /\ RouterWaits /\ Placed

\* No process, no goroutine of the router.
Stopped == phase = "down" => rpc = "stopped"

-----------------------------------------------------------------------------
(* The steps. *)

\* What Defer leaves out it had no room for.
LEMMA DeferAll ==
  ASSUME NEW waiting \in SUBSET Seqs, NEW S \in SUBSET Seqs, waiting \cap S = {},
         QueueDepth >= MaxSeq, NEW d \in Defer(waiting, S)
  PROVE  d = waiting \cup S
<1>1. PICK k \in SUBSET S :
        /\ d = waiting \cup k
        /\ \/ k = S
           \/ Cardinality(waiting) + Cardinality(k) = QueueDepth
  BY DEF Defer
<1>2. IsFiniteSet(Seqs) /\ Cardinality(Seqs) = MaxSeq
  <2>1. MaxSeq \in Nat
    BY BoundsAssumption
  <2>2. /\ IsFiniteSet(1..MaxSeq)
        /\ Cardinality(1..MaxSeq) = IF 1 > MaxSeq THEN 0 ELSE MaxSeq - 1 + 1
    BY <2>1, FS_Interval
  <2> QED BY <2>1, <2>2 DEF Seqs
<1>3. IsFiniteSet(waiting) /\ IsFiniteSet(S) /\ IsFiniteSet(k)
  <2>1. k \in SUBSET Seqs
    OBVIOUS
  <2> QED BY <1>2, <2>1, FS_Subset
<1>4. /\ Cardinality(waiting) \in Nat /\ Cardinality(S) \in Nat /\ Cardinality(k) \in Nat
      /\ Cardinality(k) <= Cardinality(S) /\ (Cardinality(S) = Cardinality(k) => S = k)
  BY <1>3, FS_CardinalityType, FS_Subset
<1>5. Cardinality(waiting) + Cardinality(S) <= MaxSeq
  <2>1. Cardinality(waiting \cup S) = Cardinality(waiting) + Cardinality(S) - Cardinality({})
    BY <1>3, FS_Union
  <2>2. Cardinality(waiting \cup S) <= MaxSeq
    <3>1. waiting \cup S \in SUBSET Seqs
      OBVIOUS
    <3> QED BY <1>2, <3>1, FS_Subset
  <2> QED BY <1>4, <2>1, <2>2, FS_EmptySet
<1>6. k = S
  BY <1>1, <1>4, <1>5, BoundsAssumption
<1> QED BY <1>1, <1>6

\* What a flush takes, it settles or defers.
LEMMA FlushPlaces ==
  ASSUME NEW pending \in SUBSET Seqs, NEW waiting \in SUBSET Seqs, pending \cap waiting = {}, NEW goOn,
         Flush(pending, waiting, goOn)
  PROVE  /\ batch' = {} /\ deferred' \cap settling' = {} /\ rpc' = "write"
         /\ deferred' \cup settling' \subseteq pending \cup waiting
         /\ QueueDepth >= MaxSeq => deferred' \cup settling' = pending \cup waiting
<1>1. PICK bad \in SUBSET pending : BeginFlush(pending, bad, waiting, goOn)
  BY DEF Flush
<1>2. /\ batch' = {} /\ settling' = pending \ bad /\ deferred' \in Defer(waiting, bad)
      /\ rpc' = "write"
  BY <1>1 DEF BeginFlush
<1>3. deferred' \subseteq waiting \cup bad
  BY <1>2, DeferKeeps
<1>4. QueueDepth >= MaxSeq => deferred' = waiting \cup bad
  <2> SUFFICES ASSUME QueueDepth >= MaxSeq PROVE deferred' = waiting \cup bad
    OBVIOUS
  <2>1. bad \in SUBSET Seqs /\ waiting \cap bad = {}
    OBVIOUS
  <2> QED BY <1>2, <2>1, DeferAll
<1> QED BY <1>2, <1>3, <1>4

\* Where nobody hands anything over.
LEMMA RestApart ==
  ASSUME Apart, UNCHANGED <<producer, queue, inflight, batch, deferred, settling, nextSeq>>,
         rpc' \in {"write", "settle"} <=> rpc \in {"write", "settle"}, rpc' # "record" => rpc # "record"
  PROVE  Apart'
<1>1. HandsApart'
  BY DEF Apart, HandsApart, InQueue, InRouter, producer
<1>2. PlacesApart'
  BY DEF Apart, PlacesApart, InQueue, InRouter
<1>3. RouterWaits'
  BY DEF Apart, RouterWaits, producer
<1>4. Placed'
  BY DEF Apart, Placed, InHand, InQueue, InRouter, producer
<1> QED BY <1>1, <1>2, <1>3, <1>4 DEF Apart

\* A new event is nowhere yet.
LEMMA InsertApart ==
  ASSUME IInv, Apart, NEW p \in Actors, pc[p] = "idle", InsertEvent(p),
         UNCHANGED <<batch, deferred, settling>>, rpc' = rpc \/ (p = PoolWatch /\ rpc' = "record"),
         rpc \notin {"write", "settle"} \/ rpc' = rpc, p = PoolWatch => rpc' = "record"
  PROVE  Apart'
<1>0. /\ nextSeq' = nextSeq + 1 /\ nextSeq \in Nat /\ pc' = [pc EXCEPT ![p] = "journalled"]
      /\ held' = [held EXCEPT ![p] = nextSeq] /\ UNCHANGED <<queue, inflight>>
      /\ pc \in [Actors -> {"idle", "journalled", "registered", "refused"}]
      /\ held \in [Actors -> 0..MaxSeq]
  BY DEF InsertEvent, owed, IInv, TypeOK
<1>1. /\ pc'[p] = "journalled" /\ held'[p] = nextSeq
      /\ \A q \in Actors \ {p} : pc'[q] = pc[q] /\ held'[q] = held[q]
  BY <1>0
<1>2. nextSeq \notin 1..(nextSeq - 1) /\ 1..(nextSeq - 1) \subseteq 1..(nextSeq' - 1)
  BY <1>0
<1>3. \A q \in Actors : pc[q] # "idle" => held[q] # nextSeq
  BY <1>2 DEF IInv, Safe, SeqsAllocated
<1>4. InQueue' = InQueue /\ InRouter' = InRouter
  BY <1>0 DEF InQueue, InRouter
<1>5. HandsApart'
  <2>1. nextSeq \notin InQueue \cup InRouter
    BY <1>2 DEF Apart, PlacesApart
  <2> QED BY <1>0, <1>1, <1>3, <1>4, <2>1 DEF Apart, HandsApart
<1>6. PlacesApart'
  BY <1>0, <1>2, <1>4 DEF Apart, PlacesApart
<1>7. RouterWaits'
  <2>1. rpc' # "record" => p # PoolWatch /\ rpc # "record"
    OBVIOUS
  <2>2. PoolWatch \in Actors
    BY DEF Actors
  <2> QED BY <1>1, <2>1, <2>2 DEF Apart, RouterWaits
<1>8. Placed'
  <2>1. InHand \subseteq InHand'
    BY <1>1 DEF InHand
  <2> QED BY <1>0, <1>4, <2>1 DEF Apart, Placed
<1> QED BY <1>5, <1>6, <1>7, <1>8 DEF Apart

LEMMA RegisterApart ==
  ASSUME IInv, Apart, NEW p \in Actors, Register(p) PROVE Apart'
<1>0. /\ pc[p] = "journalled" /\ pc' = [pc EXCEPT ![p] = "registered"] /\ held' = held
      /\ inflight' = inflight \cup {held[p]}
      /\ UNCHANGED <<queue, batch, deferred, settling, nextSeq, rpc>>
      /\ pc \in [Actors -> {"idle", "journalled", "registered", "refused"}]
  BY DEF Register, database, router, IInv, TypeOK
<1>1. pc'[p] = "registered" /\ \A q \in Actors \ {p} : pc'[q] = pc[q]
  BY <1>0
<1>2. InQueue' = InQueue /\ InRouter' = InRouter
  BY <1>0 DEF InQueue, InRouter
<1>3. HandsApart'
  BY <1>0, <1>1, <1>2 DEF Apart, HandsApart
<1>4. PlacesApart' /\ RouterWaits'
  <2>1. PoolWatch \in Actors
    BY DEF Actors
  <2> QED BY <1>0, <1>1, <1>2, <2>1 DEF Apart, PlacesApart, RouterWaits
<1>5. Placed'
  <2>1. InHand' = InHand \cup {held[p]}
    BY <1>0, <1>1 DEF InHand
  <2> QED BY <1>0, <1>2, <2>1 DEF Apart, Placed
<1> QED BY <1>3, <1>4, <1>5 DEF Apart

LEMMA EnqueueApart ==
  ASSUME IInv, Apart, NEW p \in Actors, Enqueue(p) PROVE Apart'
<1>0. /\ pc[p] = "registered" /\ queue' = Append(queue, held[p])
      /\ pc' = [pc EXCEPT ![p] = "idle"] /\ held' = [held EXCEPT ![p] = 0]
      /\ UNCHANGED <<inflight, batch, deferred, settling, nextSeq, rpc>>
      /\ pc \in [Actors -> {"idle", "journalled", "registered", "refused"}]
      /\ held \in [Actors -> 0..MaxSeq] /\ queue \in Seq(Seqs)
  BY DEF Enqueue, database, router, owed, IInv, TypeOK
<1>1. pc'[p] = "idle" /\ \A q \in Actors \ {p} : pc'[q] = pc[q] /\ held'[q] = held[q]
  BY <1>0
<1>2. held[p] \in 1..(nextSeq - 1) /\ held[p] \in Seqs
  BY <1>0 DEF IInv, Safe, SeqsAllocated, TypeOK, Seqs
<1>3. /\ DOMAIN queue = 1..Len(queue) /\ Len(queue) \in Nat
      /\ DOMAIN queue' = 1..(Len(queue) + 1)
      /\ \A i \in 1..Len(queue) : queue'[i] = queue[i]
      /\ queue'[Len(queue) + 1] = held[p]
  BY <1>0, <1>2, AppendProperties, LenProperties
<1>4. \A i \in DOMAIN queue' : i \in DOMAIN queue \/ i = Len(queue) + 1
  BY <1>3
<1>5. InQueue' = InQueue \cup {held[p]} /\ InRouter' = InRouter
  <2>1. \A i \in DOMAIN queue : i \in DOMAIN queue'
    BY <1>3
  <2>2. Len(queue) + 1 \in DOMAIN queue'
    BY <1>3
  <2> QED BY <1>0, <1>3, <1>4, <2>1, <2>2 DEF InQueue, InRouter
<1>6. held[p] \notin InQueue \cup InRouter
  BY <1>0 DEF Apart, HandsApart
<1>7. HandsApart'
  BY <1>0, <1>1, <1>5 DEF Apart, HandsApart
<1>8. PlacesApart'
  <2>1. \A i, j \in DOMAIN queue' : queue'[i] = queue'[j] => i = j
    BY <1>3, <1>4, <1>6 DEF InQueue, Apart, PlacesApart
  <2> QED BY <1>0, <1>2, <1>5, <1>6, <2>1 DEF Apart, PlacesApart
<1>9. RouterWaits'
  <2>1. PoolWatch \in Actors
    BY DEF Actors
  <2> QED BY <1>0, <1>1, <2>1 DEF Apart, RouterWaits
<1>10. Placed'
  <2>1. InHand \subseteq InHand' \cup {held[p]}
    BY <1>0, <1>1 DEF InHand
  <2> QED BY <1>0, <1>5, <2>1 DEF Apart, Placed
<1> QED BY <1>7, <1>8, <1>9, <1>10 DEF Apart

LEMMA InlineApart ==
  ASSUME IInv, Apart, NEW p \in Actors, Refuse(p) \/ RouteInline(p) PROVE Apart'
<1>0. /\ UNCHANGED <<queue, batch, deferred, settling, nextSeq, rpc>>
      /\ \/ /\ pc[p] = "registered" /\ pc' = [pc EXCEPT ![p] = "refused"] /\ held' = held
            /\ inflight' = inflight \ {held[p]}
         \/ /\ pc[p] = "refused" /\ pc' = [pc EXCEPT ![p] = "idle"]
            /\ held' = [held EXCEPT ![p] = 0] /\ inflight' = inflight
      /\ pc \in [Actors -> {"idle", "journalled", "registered", "refused"}]
      /\ held \in [Actors -> 0..MaxSeq]
  BY DEF Refuse, RouteInline, Settle, database, router, owed, IInv, TypeOK
<1>1. /\ pc'[p] \in {"idle", "refused"} /\ (pc'[p] = "refused" => held'[p] = held[p])
      /\ pc[p] # "idle" /\ (pc'[p] = "refused" => held[p] \notin inflight')
      /\ \A q \in Actors \ {p} : pc'[q] = pc[q] /\ held'[q] = held[q]
  BY <1>0
<1>2. InQueue' = InQueue /\ InRouter' = InRouter /\ inflight' \subseteq inflight
  BY <1>0 DEF InQueue, InRouter
<1>3. HandsApart'
  BY <1>0, <1>1, <1>2 DEF Apart, HandsApart
<1>4. PlacesApart'
  BY <1>0, <1>2 DEF Apart, PlacesApart
<1>5. RouterWaits'
  <2>1. PoolWatch \in Actors
    BY DEF Actors
  <2> QED BY <1>0, <1>1, <2>1 DEF Apart, RouterWaits
<1>6. Placed'
  <2>1. InHand \subseteq InHand' \cup {held[p]}
    BY <1>0, <1>1 DEF InHand
  <2>2. held[p] \notin inflight'
    BY <1>0 DEF Apart, HandsApart
  <2> QED BY <1>2, <2>1, <2>2 DEF Apart, Placed
<1> QED BY <1>3, <1>4, <1>5, <1>6 DEF Apart

\* The router moves what it was handed from one place to another.
LEMMA MoveApart ==
  ASSUME Apart, UNCHANGED <<producer, inflight, nextSeq>>,
         InQueue' \cup InRouter' \subseteq InQueue \cup InRouter,
         QueueDepth >= MaxSeq => InQueue \cup InRouter \subseteq InQueue' \cup InRouter',
         \A i, j \in DOMAIN queue' : queue'[i] = queue'[j] => i = j,
         InQueue' \cap InRouter' = {},
         batch' \cap deferred' = {}, batch' \cap settling' = {}, deferred' \cap settling' = {},
         rpc' # "record", rpc # "record", rpc' \notin {"write", "settle"} => settling' = {}
  PROVE  Apart'
<1>1. HandsApart'
  BY DEF Apart, HandsApart, producer
<1>2. PlacesApart'
  BY DEF Apart, PlacesApart
<1>3. RouterWaits'
  BY DEF Apart, RouterWaits, producer
<1>4. Placed'
  BY DEF Apart, Placed, InHand, producer
<1> QED BY <1>1, <1>2, <1>3, <1>4 DEF Apart

LEMMA QueueHead ==
  ASSUME IInv, Apart, queue # <<>>, queue' = Tail(queue)
  PROVE  /\ Head(queue) \in InQueue /\ InQueue' = InQueue \ {Head(queue)}
         /\ \A i, j \in DOMAIN queue' : queue'[i] = queue'[j] => i = j
<1>1. queue \in Seq(Seqs)
  BY DEF IInv, TypeOK
<1>2. /\ DOMAIN queue = 1..Len(queue) /\ Len(queue) \in Nat /\ Len(queue) # 0
      /\ Head(queue) = queue[1]
      /\ DOMAIN queue' = 1..(Len(queue) - 1)
      /\ \A i \in 1..(Len(queue) - 1) : queue'[i] = queue[i + 1]
  <2>1. /\ Tail(queue) \in Seq(Seqs) /\ Len(Tail(queue)) = Len(queue) - 1
        /\ \A i \in 1..Len(Tail(queue)) : Tail(queue)[i] = queue[i + 1]
    BY <1>1, HeadTailProperties
  <2>2. DOMAIN queue = 1..Len(queue) /\ Len(queue) \in Nat /\ Len(queue) # 0 /\ Head(queue) = queue[1]
    BY <1>1, LenProperties, EmptySeq
  <2>3. DOMAIN Tail(queue) = 1..Len(Tail(queue))
    BY <2>1, LenProperties
  <2> QED BY <2>1, <2>2, <2>3
<1>3. \A i \in 1..(Len(queue) - 1) : i + 1 \in DOMAIN queue /\ i + 1 # 1
  BY <1>2
<1>4. \A i \in DOMAIN queue : i = 1 \/ (i - 1 \in 1..(Len(queue) - 1) /\ (i - 1) + 1 = i)
  BY <1>2
<1>5. 1 \in DOMAIN queue
  BY <1>2
<1>6. \A i, j \in DOMAIN queue : queue[i] = queue[j] => i = j
  BY DEF Apart, PlacesApart
<1>7. InQueue' \subseteq InQueue \ {Head(queue)}
  BY <1>2, <1>3, <1>5, <1>6 DEF InQueue
<1>8. InQueue \ {Head(queue)} \subseteq InQueue'
  BY <1>2, <1>4 DEF InQueue
<1>9. \A i, j \in DOMAIN queue' : queue'[i] = queue'[j] => i = j
  <2> SUFFICES ASSUME NEW i \in 1..(Len(queue) - 1), NEW j \in 1..(Len(queue) - 1),
                      queue'[i] = queue'[j]
               PROVE  i = j
    BY <1>2
  <2>1. i + 1 = j + 1
    BY <1>2, <1>3, <1>6
  <2> QED BY <2>1
<1> QED BY <1>2, <1>5, <1>7, <1>8, <1>9 DEF InQueue

\* Of the router's goroutine while it waits: nothing is being settled.
LEMMA ReceiveApart == ASSUME IInv, Apart, Receive PROVE Apart'
<1> DEFINE filled == batch \cup {Head(queue)}
<1>0. /\ rpc = "select" /\ settling = {} /\ queue # <<>> /\ queue' = Tail(queue)
      /\ UNCHANGED <<producer, inflight, nextSeq>>
      /\ batch \subseteq Seqs /\ deferred \subseteq Seqs /\ queue \in Seq(Seqs)
  BY DEF Receive, database, owed, Apart, RouterWaits, IInv, TypeOK
<1>1. /\ Head(queue) \in InQueue /\ InQueue' = InQueue \ {Head(queue)}
      /\ \A i, j \in DOMAIN queue' : queue'[i] = queue'[j] => i = j
  BY <1>0, QueueHead
<1>2. filled \in SUBSET Seqs /\ filled \cap deferred = {} /\ InQueue' \cap (filled \cup deferred) = {}
  <2>1. Head(queue) \in Seqs
    BY <1>0
  <2> QED BY <1>0, <1>1, <2>1 DEF Apart, PlacesApart, InRouter
<1>3. CASE Flush(filled, deferred, "select")
  <2>1. /\ batch' = {} /\ deferred' \cap settling' = {} /\ rpc' = "write"
        /\ deferred' \cup settling' \subseteq filled \cup deferred
        /\ QueueDepth >= MaxSeq => deferred' \cup settling' = filled \cup deferred
    <3> HIDE DEF filled
    <3> QED BY <1>0, <1>2, <1>3, FlushPlaces
  <2>2. /\ InQueue' \cup InRouter' \subseteq InQueue \cup InRouter
        /\ QueueDepth >= MaxSeq => InQueue \cup InRouter \subseteq InQueue' \cup InRouter'
        /\ InQueue' \cap InRouter' = {}
    BY <1>0, <1>1, <1>2, <2>1 DEF InRouter
  <2> QED BY <1>0, <1>1, <2>1, <2>2, MoveApart
<1>4. CASE batch' = filled /\ UNCHANGED <<deferred, rpc, then, settling, mark, budget>>
  <2>1. /\ InQueue' \cup InRouter' = InQueue \cup InRouter /\ InQueue' \cap InRouter' = {}
    BY <1>0, <1>1, <1>2, <1>4 DEF InRouter
  <2> QED BY <1>0, <1>1, <1>2, <1>4, <2>1, MoveApart
<1> QED BY <1>3, <1>4 DEF Receive

LEMMA TickApart == ASSUME IInv, Apart, Tick \/ Drained PROVE Apart'
<1>0. /\ rpc = "select" /\ settling = {} /\ UNCHANGED <<producer, inflight, nextSeq, queue>>
      /\ batch \subseteq Seqs /\ deferred \subseteq Seqs
  BY DEF Tick, Drained, database, owed, Apart, RouterWaits, IInv, TypeOK
<1>1. /\ InQueue' = InQueue /\ InQueue \cap InRouter = {} /\ batch \cap deferred = {}
      /\ \A i, j \in DOMAIN queue' : queue'[i] = queue'[j] => i = j
  BY <1>0 DEF InQueue, Apart, PlacesApart
<1>2. CASE rpc' \in {"watch", "stopped"} /\ UNCHANGED <<batch, deferred, settling>>
  BY <1>0, <1>2, RestApart
<1>3. ASSUME NEW taken \in SUBSET deferred, NEW goOn,
             Flush(batch \cup taken, deferred \ taken, goOn)
      PROVE  Apart'
  <2>1. /\ batch' = {} /\ deferred' \cap settling' = {} /\ rpc' = "write"
        /\ deferred' \cup settling' \subseteq batch \cup deferred
        /\ QueueDepth >= MaxSeq => deferred' \cup settling' = batch \cup deferred
    <3> DEFINE pending == batch \cup taken
               waiting == deferred \ taken
    <3>1. /\ pending \in SUBSET Seqs /\ waiting \in SUBSET Seqs /\ pending \cap waiting = {}
          /\ pending \cup waiting = batch \cup deferred
      BY <1>0, <1>1
    <3>2. Flush(pending, waiting, goOn)
      BY <1>3
    <3> HIDE DEF pending, waiting
    <3>3. /\ batch' = {} /\ deferred' \cap settling' = {} /\ rpc' = "write"
          /\ deferred' \cup settling' \subseteq pending \cup waiting
          /\ QueueDepth >= MaxSeq => deferred' \cup settling' = pending \cup waiting
      BY <3>1, <3>2, FlushPlaces
    <3> QED BY <3>1, <3>3
  <2>2. /\ InQueue' \cup InRouter' \subseteq InQueue \cup InRouter
        /\ QueueDepth >= MaxSeq => InQueue \cup InRouter \subseteq InQueue' \cup InRouter'
        /\ InQueue' \cap InRouter' = {}
    BY <1>0, <1>1, <2>1 DEF InRouter
  <2> QED BY <1>0, <1>1, <2>1, <2>2, MoveApart
<1>4. CASE Tick
  <2>1. PICK taken \in SUBSET deferred :
          \/ rpc' = "watch" /\ UNCHANGED <<batch, deferred, then, settling, mark, budget>>
          \/ Flush(batch \cup taken, deferred \ taken, "watch")
    BY <1>4 DEF Tick
  <2> QED BY <1>2, <1>3, <2>1
<1>5. CASE Drained
  <2>1. CASE rpc' = "stopped" /\ UNCHANGED <<batch, deferred, then, settling, mark, budget>>
    BY <1>2, <2>1
  <2>2. CASE Flush(batch, deferred, "stopped")
    <3>1. batch \cup {} = batch /\ deferred \ {} = deferred /\ {} \in SUBSET deferred
      OBVIOUS
    <3>2. Flush(batch \cup {}, deferred \ {}, "stopped")
      BY <2>2, <3>1
    <3> QED BY <1>3, <3>1, <3>2
  <2> QED BY <1>5, <2>1, <2>2 DEF Drained
<1> QED BY <1>4, <1>5

LEMMA WriteApart == ASSUME IInv, Apart, WriteBatch \/ WriteFails \/ SettleBatch PROVE Apart'
<1>0. /\ UNCHANGED <<producer, nextSeq, queue, batch>> /\ rpc \in {"write", "settle"}
      /\ settling \in SUBSET Seqs /\ deferred \in SUBSET Seqs
      /\ then \in {"select", "watch", "stopped"}
  BY DEF WriteBatch, WriteFails, SettleBatch, EnqueueRouted, database, IInv, TypeOK
<1>1. /\ InQueue' = InQueue /\ InQueue \cap InRouter = {}
      /\ batch \cap deferred = {} /\ batch \cap settling = {} /\ deferred \cap settling = {}
      /\ \A i, j \in DOMAIN queue' : queue'[i] = queue'[j] => i = j
  BY <1>0 DEF InQueue, Apart, PlacesApart
<1>2. CASE WriteBatch
  <2>1. /\ rpc = "write" /\ rpc' = "settle" /\ UNCHANGED <<inflight, deferred, settling>>
    BY <1>2 DEF WriteBatch, owed
  <2> QED BY <1>0, <2>1, RestApart
<1>3. CASE WriteFails
  <2>1. /\ rpc' = then /\ inflight' = inflight /\ settling' = {}
        /\ deferred' \in Defer(deferred, settling)
    BY <1>3 DEF WriteFails, owed
  <2>2. deferred' \subseteq deferred \cup settling
    BY <2>1, DeferKeeps
  <2>3. QueueDepth >= MaxSeq => deferred' = deferred \cup settling
    BY <1>0, <1>1, <2>1, DeferAll
  <2>4. /\ InQueue' \cup InRouter' \subseteq InQueue \cup InRouter
        /\ QueueDepth >= MaxSeq => InQueue \cup InRouter \subseteq InQueue' \cup InRouter'
        /\ InQueue' \cap InRouter' = {}
    BY <1>0, <1>1, <2>1, <2>2, <2>3 DEF InRouter
  <2>5. batch' \cap deferred' = {}
    BY <1>0, <1>1, <2>2
  <2> QED BY <1>0, <1>1, <2>1, <2>4, <2>5, MoveApart
<1>4. CASE SettleBatch
  <2>1. /\ rpc' = then /\ inflight' = inflight \ settling /\ settling' = {} /\ deferred' = deferred
    BY <1>4 DEF SettleBatch, Settle
  <2>2. InRouter' \subseteq InRouter /\ InRouter \subseteq InRouter' \cup settling
    BY <1>0, <2>1 DEF InRouter
  <2>3. HandsApart'
    BY <1>0, <1>1, <2>1, <2>2 DEF Apart, HandsApart, producer
  <2>4. PlacesApart'
    BY <1>0, <1>1, <2>1, <2>2 DEF Apart, PlacesApart
  <2>5. RouterWaits'
    BY <1>0, <2>1 DEF Apart, RouterWaits, producer
  <2>6. Placed'
    <3>1. InHand' = InHand
      BY <1>0 DEF InHand, producer
    <3> QED BY <1>1, <2>1, <2>2, <3>1 DEF Apart, Placed
  <2> QED BY <2>3, <2>4, <2>5, <2>6 DEF Apart
<1> QED BY <1>2, <1>3, <1>4

LEMMA EmptyApart ==
  ASSUME \A p \in Actors : pc[p] = "idle", queue = <<>>, inflight = {}, batch = {}, deferred = {},
         settling = {}
  PROVE  Apart
<1>1. InQueue = {} /\ InRouter = {} /\ DOMAIN queue = {}
  BY DEF InQueue, InRouter
<1>2. PoolWatch \in Actors
  BY DEF Actors
<1> QED BY <1>1, <1>2 DEF Apart, HandsApart, PlacesApart, RouterWaits, Placed

LEMMA VanishApart == ASSUME Vanish PROVE Apart'
<1>1. InQueue' = {} /\ InRouter' = {} /\ DOMAIN queue' = {}
  BY DEF Vanish, InQueue, InRouter
<1>2. /\ \A p \in Actors : pc'[p] = "idle"
      /\ PoolWatch \in Actors
  BY DEF Vanish, Actors
<1> QED BY <1>1, <1>2 DEF Vanish, Apart, HandsApart, PlacesApart, RouterWaits, Placed

LEMMA StepStopped == ASSUME Stopped, [Next]_vars PROVE Stopped'
<1>1. CASE \E p \in Producers : Record(p)
  BY <1>1 DEF Record, InsertEvent, router, Stopped
<1>2. CASE \E p \in Actors : Accept(p)
  BY <1>2 DEF Accept, Register, Enqueue, Refuse, RouteInline, router, Stopped
<1>3. CASE RouterStep
  BY <1>3 DEF RouterStep, Running, Receive, Tick, WriteBatch, WriteFails, SettleBatch, PoolQuiet,
     PoolReport, InsertEvent, PoolReported, SeeDone, Drained, Stopped
<1>4. CASE BackoffElapses \/ DeleteEvents \/ ReplayStep \/ Shutdown \/ Start \/ UNCHANGED vars
  BY <1>4 DEF BackoffElapses, DeleteEvents, ReplayStep, ReplayRead, ReplayWrite, ReplayDone, ReplayStops,
     Shutdown, Start, vars, router, Stopped
<1>5. CASE Exit \/ Crash
  BY <1>5 DEF Exit, Crash, Vanish, Stopped
<1> QED BY <1>1, <1>2, <1>3, <1>4, <1>5 DEF Next

LEMMA StepApart == ASSUME IInv, Apart, Stopped, [Next]_vars PROVE Apart'
<1> USE DEF database, owed, router, replay
<1>1. ASSUME NEW p \in Producers, Record(p) PROVE Apart'
  <2>1. p \in Actors /\ p # PoolWatch /\ pc[p] = "idle" /\ InsertEvent(p)
        /\ UNCHANGED <<batch, deferred, settling, rpc>>
    BY <1>1, ActorsAssumption DEF Record, MayRecord, Actors
  <2> QED BY <2>1, InsertApart
<1>2. ASSUME NEW p \in Actors, Accept(p) PROVE Apart'
  BY <1>2, RegisterApart, EnqueueApart, InlineApart DEF Accept
<1>3. CASE PoolReport
  <2>1. PoolWatch \in Actors /\ pc[PoolWatch] = "idle" /\ InsertEvent(PoolWatch)
        /\ UNCHANGED <<batch, deferred, settling>> /\ rpc = "watch" /\ rpc' = "record"
    BY <1>3 DEF PoolReport, Actors, Apart, RouterWaits
  <2> QED BY <2>1, InsertApart
<1>4. CASE Receive \/ Tick \/ Drained \/ WriteBatch \/ WriteFails \/ SettleBatch
  BY <1>4, ReceiveApart, TickApart, WriteApart
<1>5. CASE PoolReported
  <2>1. /\ UNCHANGED <<producer, queue, inflight, batch, deferred, settling, nextSeq>>
        /\ rpc = "record" /\ rpc' = "select" /\ pc[PoolWatch] = "idle"
    BY <1>5 DEF PoolReported
  <2>2. InQueue' = InQueue /\ InRouter' = InRouter
    BY <2>1 DEF InQueue, InRouter
  <2> QED BY <2>1, <2>2 DEF Apart, HandsApart, PlacesApart, RouterWaits, Placed, InHand, producer
<1>6. CASE PoolQuiet \/ SeeDone \/ BackoffElapses \/ Start \/ ReplayStep \/ Shutdown \/ DeleteEvents
           \/ UNCHANGED vars
  <2>1. /\ UNCHANGED <<producer, queue, inflight, batch, deferred, settling, nextSeq>>
        /\ rpc' = rpc \/ (rpc' = "select" /\ rpc \notin {"write", "settle", "record"})
    <3>1. CASE Start
      <4>1. rpc' = "select" /\ rpc \notin {"write", "settle", "record"}
        BY <3>1 DEF Start, Stopped
      <4> QED BY <3>1, <4>1 DEF Start
    <3> QED BY <1>6, <3>1 DEF PoolQuiet, SeeDone, BackoffElapses, ReplayStep, ReplayRead, ReplayWrite,
              EnqueueRouted, ReplayDone, ReplayStops, Shutdown, DeleteEvents, vars
  <2> QED BY <2>1, RestApart
<1>7. CASE Exit \/ Crash
  BY <1>7, VanishApart DEF Exit, Crash
<1> QED BY <1>1, <1>2, <1>3, <1>4, <1>5, <1>6, <1>7 DEF Next, RouterStep

LEMMA ApartAlways == Spec => [](Apart /\ Stopped)
<1>1. Init => Apart /\ Stopped
  BY EmptyApart DEF Init, Stopped
<1>2. IInv /\ Apart /\ Stopped /\ [Next]_vars => (Apart /\ Stopped)'
  BY StepApart, StepStopped
<1> QED BY <1>1, <1>2, Invariance, PTL DEF Spec

\* A set with at most one member has a cardinality of at most one.
LEMMA AtMostOne ==
  ASSUME NEW S, \A x, y \in S : x = y
  PROVE  Cardinality(S) = IF S = {} THEN 0 ELSE 1
<1>1. CASE S = {}
  BY <1>1, FS_EmptySet
<1>2. CASE S # {}
  <2>1. PICK x \in S : TRUE
    BY <1>2
  <2>2. S = {x}
    BY <2>1
  <2> QED BY <1>2, <2>2, FS_Singleton
<1> QED BY <1>1, <1>2

\* Wherever an event in flight is - on its way into the channel, in it, in the
\* batch being filled, in the one being settled or on the deferred list - it is
\* there once and nowhere else; and it is somewhere, unless the deferred list had
\* no room for it (router.go:293-305).
THEOREM InOnePlace == Spec => []HeldOnce
<1>1. ASSUME Apart PROVE HeldOnce
  <2> SUFFICES ASSUME NEW s \in inflight
               PROVE  Places(s) <= 1 /\ (QueueDepth >= MaxSeq => Places(s) = 1)
    BY DEF HeldOnce
  <2> DEFINE H == {p \in Actors : pc[p] = "registered" /\ held[p] = s}
             Q == {i \in DOMAIN queue : queue[i] = s}
             R == {part \in {<<"batch", batch>>, <<"settling", settling>>,
                             <<"deferred", deferred>>} : s \in part[2]}
  <2>0. Places(s) = Cardinality(H) + Cardinality(Q) + Cardinality(R)
    BY DEF Places
  <2>1. Cardinality(H) = IF H = {} THEN 0 ELSE 1
    <3>1. \A x, y \in H : x = y
      BY <1>1 DEF Apart, HandsApart
    <3> HIDE DEF H
    <3> QED BY <3>1, AtMostOne
  <2>2. Cardinality(Q) = IF Q = {} THEN 0 ELSE 1
    <3>1. \A x, y \in Q : x = y
      BY <1>1 DEF Apart, PlacesApart
    <3> HIDE DEF Q
    <3> QED BY <3>1, AtMostOne
  <2>3. Cardinality(R) = IF R = {} THEN 0 ELSE 1
    <3>1. \A x, y \in R : x = y
      BY <1>1 DEF Apart, PlacesApart
    <3> HIDE DEF R
    <3> QED BY <3>1, AtMostOne
  <2>4. /\ H # {} <=> s \in InHand
        /\ Q # {} <=> s \in InQueue
        /\ R # {} <=> s \in InRouter
    <3>1. H # {} <=> s \in InHand
      BY DEF InHand
    <3>2. Q # {} <=> s \in InQueue
      BY DEF InQueue
    <3>3. R # {} <=> s \in InRouter
      <4>1. R # {} <=> \E part \in {<<"batch", batch>>, <<"settling", settling>>,
                                   <<"deferred", deferred>>} : s \in part[2]
        OBVIOUS
      <4>2. R # {} <=> s \in batch \/ s \in settling \/ s \in deferred
        BY <4>1
      <4> QED BY <4>2 DEF InRouter
    <3> QED BY <3>1, <3>2, <3>3
  <2> HIDE DEF H, Q, R
  <2>5. /\ H # {} => Q = {} /\ R = {}
        /\ Q # {} => R = {}
    <3>1. s \in InHand => s \notin InQueue \cup InRouter
      BY <1>1 DEF InHand, Apart, HandsApart
    <3>2. s \in InQueue => s \notin InRouter
      BY <1>1 DEF Apart, PlacesApart
    <3> QED BY <2>4, <3>1, <3>2
  <2>6. QueueDepth >= MaxSeq => H # {} \/ Q # {} \/ R # {}
    BY <1>1, <2>4 DEF Apart, Placed
  <2>7. CASE H # {}
    BY <2>0, <2>1, <2>2, <2>3, <2>5, <2>7
  <2>8. CASE Q # {}
    BY <2>0, <2>1, <2>2, <2>3, <2>5, <2>8
  <2>9. CASE H = {} /\ Q = {}
    BY <2>0, <2>1, <2>2, <2>3, <2>6, <2>9
  <2> QED BY <2>7, <2>8, <2>9
<1>2. Apart /\ Stopped => HeldOnce
  BY <1>1
<1> QED BY <1>2, ApartAlways, PTL

\* The replay and the router both write the watermark, and while a process runs it
\* never goes backwards (watermark.go:120-122).
THEOREM WatermarkRises == Spec => WatermarkMonotone
<1>1. IInv /\ [Next]_vars => [phase # "down" => watermark' >= watermark]_vars
  <2> SUFFICES ASSUME IInv, Next, phase # "down" PROVE watermark' >= watermark
    OBVIOUS
  <2>1. watermark \in Int /\ \A m \in Int : Higher(watermark, m) >= watermark
    BY BoundsAssumption DEF IInv, TypeOK, Higher
  <2>2. mark \in Int /\ chunk \subseteq Int
    BY BoundsAssumption DEF IInv, TypeOK, Seqs
  <2>3. CASE WriteBatch \/ ReplayWrite
    BY <2>1, <2>2, <2>3 DEF WriteBatch, ReplayWrite, EnqueueRouted
  <2>4. CASE ~(WriteBatch \/ ReplayWrite)
    <3>1. watermark' = watermark
      <4>1. CASE (\E p \in Producers : Record(p)) \/ (\E p \in Actors : Accept(p))
        BY <4>1 DEF Record, InsertEvent, Accept, Register, Enqueue, Refuse, RouteInline, database
      <4>2. CASE RouterStep \/ BackoffElapses
        BY <2>4, <4>2 DEF RouterStep, Receive, Tick, WriteFails, SettleBatch, PoolQuiet, PoolReport,
           InsertEvent, PoolReported, SeeDone, Drained, BackoffElapses, database
      <4>3. CASE Start \/ ReplayStep \/ Shutdown \/ Exit \/ Crash \/ DeleteEvents
        BY <2>4, <4>3 DEF Start, ReplayStep, ReplayRead, ReplayDone, ReplayStops, Shutdown, Exit, Crash,
           Vanish, DeleteEvents, database
      <4> QED BY <4>1, <4>2, <4>3 DEF Next
    <3> QED BY <2>1, <3>1
  <2> QED BY <2>3, <2>4
<1> QED BY <1>1, Invariance, PTL DEF Spec, WatermarkMonotone

(***************************************************************************)
(* The refinement of the ledger, where events are recorded one at a time.  *)
(***************************************************************************)

\* One producer, which waits for the end of the replay; a pool that has nothing to
\* report; a channel and a list with room; and a replay that reads and writes.
OneAtATime ==
  /\ \A p, q \in Producers : p = q
  /\ Early = {} /\ PoolCongested = FALSE
  /\ QueueDepth >= MaxSeq /\ MaxReplayFaults = 0

\* Nobody but the one producer is at work, and only once the replay is over.
Alone ==
  /\ pc[PoolWatch] = "idle"
  /\ \A p \in Actors : pc[p] # "refused" /\ (phase = "replay" => pc[p] = "idle")
  /\ budget.replayFaults = 0

\* What is journalled is in the router's hands, or its deliveries are written, or its
\* producer is about to hand it over.
Owned ==
  phase \in {"live", "stopping"} =>
    \A s \in journal : \/ s \in inflight \/ Covered(s)
                       \/ \E p \in Actors : pc[p] = "journalled" /\ held[p] = s

\* Nothing that is journalled was ever exposed, and no row is ahead of its event.
Unexposed ==
  /\ exposed \subseteq (1..(nextSeq - 1)) \ journal
  /\ outbox \subseteq (1..(nextSeq - 1)) \X Sinks

Serial == Alone /\ Owned /\ Unexposed

\* The channel is never full: what it holds and what a producer holds are different
\* events.
LEMMA RoomLeft ==
  ASSUME IInv, Apart, OneAtATime, NEW p \in Actors, pc[p] = "registered"
  PROVE  Len(queue) < QueueDepth
<1>1. queue \in Seq(Seqs) /\ Len(queue) \in Nat /\ DOMAIN queue = 1..Len(queue)
  BY LenProperties DEF IInv, TypeOK
<1>2. held[p] \in Seqs
  BY BoundsAssumption DEF IInv, TypeOK, Safe, SeqsAllocated, Seqs
<1>3. held[p] \notin InQueue /\ InQueue \subseteq Seqs
  <2>1. \A i \in DOMAIN queue : queue[i] \in Seqs
    BY <1>1, ElementOfSeq
  <2> QED BY <2>1 DEF InQueue, Apart, HandsApart
<1>4. IsFiniteSet(Seqs) /\ Cardinality(Seqs) = MaxSeq /\ MaxSeq \in Nat
  <2>1. MaxSeq \in Nat
    BY BoundsAssumption
  <2>2. /\ IsFiniteSet(1..MaxSeq)
        /\ Cardinality(1..MaxSeq) = IF 1 > MaxSeq THEN 0 ELSE MaxSeq - 1 + 1
    BY <2>1, FS_Interval
  <2> QED BY <2>1, <2>2 DEF Seqs
<1>5. IsFiniteSet(InQueue) /\ Cardinality(InQueue) = Len(queue)
  <2>1. \A i, j \in 1..Len(queue) : queue[i] = queue[j] => i = j
    BY <1>1 DEF Apart, PlacesApart
  <2>2. queue \in [1..Len(queue) -> InQueue]
    <3>1. InQueue = {queue[i] : i \in 1..Len(queue)}
      BY <1>1 DEF InQueue
    <3>2. queue \in [1..Len(queue) -> Seqs]
      BY <1>1, LenProperties
    <3> QED BY <3>1, <3>2
  <2>3. \A v \in InQueue : \E i \in 1..Len(queue) : queue[i] = v
    BY <1>1 DEF InQueue
  <2>4. queue \in Bijection(1..Len(queue), InQueue)
    BY <2>1, <2>2, <2>3 DEF Bijection, Injection, Surjection, IsInjective
  <2>5. Cardinality(InQueue) = Len(queue)
    BY <1>1, <2>4, FS_CountingElements DEF ExistsBijection
  <2> QED BY <1>3, <1>4, <2>5, FS_Subset
<1>6. InQueue \cup {held[p]} \in SUBSET Seqs
  BY <1>2, <1>3
<1>7. Cardinality(InQueue \cup {held[p]}) = Len(queue) + 1
  BY <1>3, <1>5, FS_AddElement
<1>8. Len(queue) + 1 <= MaxSeq
  BY <1>4, <1>6, <1>7, FS_Subset
<1> QED BY <1>1, <1>4, <1>8, BoundsAssumption DEF OneAtATime

LEMMA SpendsElse ==
  ASSUME IInv, NEW kind \in {"faults", "crashes", "deletes"}, Spend(kind)
  PROVE  budget'.replayFaults = budget.replayFaults
BY DEF IInv, TypeOK, Spend

\* Where no producer moves and nothing leaves the router's hands.
LEMMA RestSerial ==
  ASSUME Serial, UNCHANGED <<pc, held, inflight, exposed, nextSeq>>, journal' \subseteq journal,
         outbox \subseteq outbox', outbox' \subseteq (1..(nextSeq - 1)) \X Sinks,
         budget'.replayFaults = budget.replayFaults, phase' = "replay" => phase = "replay",
         phase' \in {"live", "stopping"} => phase \in {"live", "stopping"}
  PROVE  Serial'
<1>1. Alone'
  BY DEF Serial, Alone
<1>2. Owned'
  <2>1. \A s \in journal' : Covered(s) => Covered(s)'
    BY DEF Covered, Rows
  <2> QED BY <2>1 DEF Serial, Owned
<1>3. Unexposed'
  BY DEF Serial, Unexposed
<1> QED BY <1>1, <1>2, <1>3 DEF Serial

LEMMA RecordSerial ==
  ASSUME IInv, Serial, OneAtATime, NEW p \in Producers, Record(p) PROVE Serial'
<1>0. /\ p \in Actors /\ p # PoolWatch /\ pc[p] = "idle" /\ phase \in {"live", "stopping"}
      /\ nextSeq' = nextSeq + 1 /\ nextSeq \in Nat /\ journal' = journal \cup {nextSeq}
      /\ pc' = [pc EXCEPT ![p] = "journalled"] /\ held' = [held EXCEPT ![p] = nextSeq]
      /\ UNCHANGED <<outbox, phase, inflight, exposed, budget>>
      /\ pc \in [Actors -> {"idle", "journalled", "registered", "refused"}]
      /\ held \in [Actors -> 0..MaxSeq]
  BY ActorsAssumption DEF Record, MayRecord, InsertEvent, OneAtATime, Actors, owed, IInv, TypeOK
<1>1. /\ pc'[p] = "journalled" /\ held'[p] = nextSeq
      /\ \A q \in Actors \ {p} : pc'[q] = pc[q] /\ held'[q] = held[q]
  BY <1>0
<1>2. nextSeq \notin 1..(nextSeq - 1) /\ 1..(nextSeq - 1) \subseteq 1..(nextSeq' - 1)
  BY <1>0
<1>3. Alone'
  BY <1>0, <1>1 DEF Serial, Alone, Actors
<1>4. Owned'
  BY <1>0, <1>1 DEF Serial, Owned, Covered
<1>5. Unexposed'
  BY <1>0, <1>2 DEF Serial, Unexposed
<1> QED BY <1>3, <1>4, <1>5 DEF Serial

LEMMA AcceptSerial ==
  ASSUME IInv, Apart, Serial, OneAtATime, NEW p \in Actors, Accept(p) PROVE Serial'
<1>1. ~Refuse(p) /\ ~RouteInline(p)
  <2>1. ~RouteInline(p)
    BY DEF RouteInline, Serial, Alone
  <2>2. ASSUME Refuse(p) PROVE FALSE
    <3>1. Len(queue) < QueueDepth /\ Len(queue) >= QueueDepth
      BY <2>2, RoomLeft DEF Refuse
    <3>2. Len(queue) \in Int /\ QueueDepth \in Int
      BY BoundsAssumption, LenProperties DEF IInv, TypeOK
    <3> QED BY <3>1, <3>2
  <2> QED BY <2>1, <2>2
<1>2. /\ phase' = phase /\ UNCHANGED <<journal, nextSeq, outbox, budget>> /\ pc[p] # "idle"
      /\ pc \in [Actors -> {"idle", "journalled", "registered", "refused"}]
      /\ held \in [Actors -> 0..MaxSeq]
  BY <1>1 DEF Accept, Register, Enqueue, database, IInv, TypeOK
<1>3. p # PoolWatch /\ phase # "replay" /\ phase # "down"
  BY <1>2 DEF Serial, Alone, IInv, Safe, NobodyWhenDown
<1>4. Alone'
  <2>1. pc' \in [Actors -> {"idle", "journalled", "registered", "refused"}] /\ pc'[p] # "refused"
        /\ \A q \in Actors \ {p} : pc'[q] = pc[q]
    BY <1>1, <1>2 DEF Accept, Register, Enqueue
  <2>2. PoolWatch \in Actors
    BY DEF Actors
  <2> QED BY <1>2, <1>3, <2>1, <2>2 DEF Serial, Alone
<1>5. CASE Register(p)
  <2>1. /\ pc[p] = "journalled" /\ pc' = [pc EXCEPT ![p] = "registered"] /\ held' = held
        /\ inflight' = inflight \cup {held[p]}
        /\ exposed' = exposed \cup {s \in 1..(held[p] - 1) : s \notin inflight /\ ~Covered(s)}
    BY <1>5 DEF Register
  <2>2. /\ pc'[p] = "registered" /\ \A q \in Actors \ {p} : pc'[q] = pc[q]
        /\ held[p] \in 1..(nextSeq - 1) /\ nextSeq \in Nat
    BY <1>2, <2>1 DEF IInv, Safe, SeqsAllocated, TypeOK
  <2>3. Owned'
    BY <1>2, <2>1, <2>2 DEF Serial, Owned, Covered
  <2>4. \A q \in Actors : pc[q] = "journalled" => q = p
    BY <1>3, <2>1 DEF Actors, OneAtATime, Serial, Alone
  <2>5. \A s \in 1..(held[p] - 1) : s # held[p] /\ s \in 1..(nextSeq - 1)
    BY <2>2
  <2>6. phase \in {"live", "stopping"}
    BY <1>3 DEF IInv, TypeOK
  <2>7. \A s \in 1..(held[p] - 1) : s \in journal => s \in inflight \/ Covered(s)
    BY <2>4, <2>5, <2>6 DEF Serial, Owned
  <2>8. Unexposed'
    BY <1>2, <2>1, <2>5, <2>7 DEF Serial, Unexposed
  <2> QED BY <1>4, <2>3, <2>8 DEF Serial
<1>6. CASE Enqueue(p)
  <2>1. /\ pc[p] = "registered" /\ pc' = [pc EXCEPT ![p] = "idle"] /\ held' = [held EXCEPT ![p] = 0]
        /\ UNCHANGED <<inflight, exposed>>
    BY <1>6 DEF Enqueue, owed
  <2>2. \A q \in Actors \ {p} : pc'[q] = pc[q] /\ held'[q] = held[q]
    BY <1>2, <2>1
  <2>3. Owned'
    BY <1>2, <2>1, <2>2 DEF Serial, Owned, Covered
  <2> QED BY <1>2, <1>4, <2>1, <2>3 DEF Serial, Unexposed
<1> QED BY <1>1, <1>5, <1>6 DEF Accept

\* Deliveries are written only for events that exist.
LEMMA WritesBehind ==
  ASSUME IInv, Apart, Serial, NEW S \in SUBSET (1..(nextSeq - 1)), NEW m, EnqueueRouted(S, m)
  PROVE  outbox \subseteq outbox' /\ outbox' \subseteq (1..(nextSeq - 1)) \X Sinks
BY DEF EnqueueRouted, Rows, Serial, Unexposed

LEMMA RouterSerial ==
  ASSUME IInv, Apart, Serial, OneAtATime, RouterStep \/ BackoffElapses PROVE Serial'
<1>0. outbox \subseteq (1..(nextSeq - 1)) \X Sinks
  BY DEF Serial, Unexposed
<1>1. CASE Receive \/ Tick \/ Drained \/ WriteFails
  <2>1. budget'.replayFaults = budget.replayFaults
    BY <1>1, SpendsElse DEF Receive, Tick, Drained, WriteFails, Flush, BeginFlush
  <2>2. UNCHANGED <<pc, held, inflight, exposed, nextSeq, journal, outbox, phase>>
    BY <1>1 DEF Receive, Tick, Drained, WriteFails, producer, owed, database
  <2> QED BY <1>0, <2>1, <2>2, RestSerial
<1>2. CASE PoolQuiet \/ PoolReported \/ SeeDone \/ BackoffElapses
  <2>1. UNCHANGED <<pc, held, inflight, exposed, nextSeq, journal, outbox, phase, budget>>
    BY <1>2 DEF PoolQuiet, PoolReported, SeeDone, BackoffElapses, producer, owed, database
  <2> QED BY <1>0, <2>1, RestSerial
<1>3. CASE PoolReport
  BY <1>3 DEF PoolReport, OneAtATime
<1>4. CASE WriteBatch
  <2>1. settling \in SUBSET (1..(nextSeq - 1)) /\ EnqueueRouted(settling, mark)
        /\ UNCHANGED <<pc, held, inflight, exposed, nextSeq, journal, phase, budget>>
    BY <1>4 DEF WriteBatch, EnqueueRouted, Apart, PlacesApart, InRouter, producer, owed
  <2>2. outbox \subseteq outbox' /\ outbox' \subseteq (1..(nextSeq - 1)) \X Sinks
    BY <2>1, WritesBehind
  <2> QED BY <2>1, <2>2, RestSerial
<1>5. CASE SettleBatch
  <2>1. /\ rpc = "settle" /\ inflight' = inflight \ settling
        /\ UNCHANGED <<pc, held, exposed, nextSeq, journal, outbox, phase, budget>>
    BY <1>5 DEF SettleBatch, Settle, producer, database
  <2>2. \A s \in settling : Covered(s)
    BY <2>1 DEF IInv, Safe, SettlingWritten
  <2>3. Owned'
    BY <2>1, <2>2 DEF Serial, Owned, Covered
  <2> QED BY <2>1, <2>3 DEF Serial, Alone, Unexposed
<1> QED BY <1>1, <1>2, <1>3, <1>4, <1>5 DEF RouterStep

LEMMA ProcessSerial ==
  ASSUME IInv, Apart, Serial, OneAtATime,
         \/ Start \/ ReplayStep \/ Shutdown \/ Exit \/ Crash \/ DeleteEvents \/ UNCHANGED vars
  PROVE  Serial'
<1>0. outbox \subseteq (1..(nextSeq - 1)) \X Sinks
  BY DEF Serial, Unexposed
<1>1. CASE Start
  <2>1. /\ phase = "down" /\ phase' = "replay"
        /\ UNCHANGED <<pc, held, exposed, nextSeq, journal, outbox, budget>>
    BY <1>1 DEF Start, producer
  <2> QED BY <2>1 DEF Serial, Alone, Owned, Unexposed, IInv, Safe, NobodyWhenDown
<1>2. CASE ReplayRead \/ Shutdown \/ UNCHANGED vars
  <2>1. /\ UNCHANGED <<pc, held, inflight, exposed, nextSeq, journal, outbox, budget>>
        /\ phase' = phase \/ (phase = "live" /\ phase' = "stopping")
    BY <1>2 DEF ReplayRead, Shutdown, vars, producer, owed, database
  <2> QED BY <1>0, <2>1, RestSerial
<1>3. CASE ReplayWrite
  <2>1. PICK last \in chunk : EnqueueRouted(chunk, last)
    BY <1>3 DEF ReplayWrite
  <2>2. chunk \in SUBSET (1..(nextSeq - 1))
    BY DEF IInv, Safe, SeqsAllocated
  <2>3. UNCHANGED <<pc, held, inflight, exposed, nextSeq, journal, phase, budget>>
    BY <1>3 DEF ReplayWrite, EnqueueRouted, producer, owed
  <2>4. outbox \subseteq outbox' /\ outbox' \subseteq (1..(nextSeq - 1)) \X Sinks
    BY <2>1, <2>2, WritesBehind
  <2> QED BY <2>3, <2>4, RestSerial
<1>4. CASE ReplayDone
  <2>1. /\ phase = "replay" /\ phase' = "live" /\ \A s \in journal : s <= rpos
        /\ UNCHANGED <<pc, held, inflight, exposed, nextSeq, journal, outbox, budget>>
    BY <1>4 DEF ReplayDone, producer, owed, database
  <2>2. \A s \in journal : Covered(s)
    BY <2>1 DEF IInv, Safe, ReplayPrefix, Accounted, Serial, Unexposed
  <2>3. Owned'
    BY <2>1, <2>2 DEF Owned, Covered
  <2> QED BY <2>1, <2>3 DEF Serial, Alone, Unexposed
<1>5. ~ReplayStops
  BY DEF ReplayStops, Spend, Serial, Alone
<1>6. CASE Exit \/ Crash
  <2>1. /\ phase' = "down" /\ \A p \in Actors : pc'[p] = "idle"
        /\ UNCHANGED <<exposed, nextSeq, journal, outbox>>
    BY <1>6 DEF Exit, Crash, Vanish, database
  <2>2. budget'.replayFaults = budget.replayFaults
    BY <1>6, SpendsElse DEF Exit, Crash
  <2>3. PoolWatch \in Actors
    BY DEF Actors
  <2> QED BY <2>1, <2>2, <2>3 DEF Serial, Alone, Owned, Unexposed
<1>7. CASE DeleteEvents
  <2>1. /\ UNCHANGED <<pc, held, inflight, exposed, nextSeq, outbox, phase>> /\ journal' \subseteq journal
    BY <1>7 DEF DeleteEvents, producer, owed
  <2>2. budget'.replayFaults = budget.replayFaults
    BY <1>7, SpendsElse DEF DeleteEvents
  <2> QED BY <1>0, <2>1, <2>2, RestSerial
<1> QED BY <1>1, <1>2, <1>3, <1>4, <1>5, <1>6, <1>7 DEF ReplayStep

LEMMA SerialAlways == ASSUME OneAtATime PROVE Spec => []Serial
<1>1. Init => Serial
  <2>1. PoolWatch \in Actors
    BY DEF Actors
  <2> QED BY <2>1 DEF Init, Serial, Alone, Owned, Unexposed, OneAtATime
<1>2. IInv /\ Apart /\ Stopped /\ Serial /\ [Next]_vars => Serial'
  BY RecordSerial, AcceptSerial, RouterSerial, ProcessSerial DEF Next
<1> QED BY <1>1, <1>2, Invariance, ApartAlways, PTL DEF Spec

(* The steps of the ledger. *)

\* Nothing is lost, so the watermark does not matter to the status of an event.
Known(s) == s < nextSeq

Plain ==
  \A s \in Seqs : Status(s) = IF ~Known(s) THEN "unborn"
                              ELSE IF Covered(s) THEN "queued"
                              ELSE IF s \notin journal THEN "deleted" ELSE "owed"

LEMMA StatusIsPlain == IInv /\ Serial => Plain
<1> SUFFICES ASSUME IInv, Serial, NEW s \in Seqs
             PROVE  Status(s) = IF ~Known(s) THEN "unborn"
                                ELSE IF Covered(s) THEN "queued"
                                ELSE IF s \notin journal THEN "deleted" ELSE "owed"
  BY DEF Plain
<1>1. s \in Nat /\ nextSeq \in Nat /\ watermark \in Nat
  BY BoundsAssumption DEF Seqs, IInv, TypeOK
<1>2. s >= nextSeq <=> ~Known(s)
  BY <1>1 DEF Known
<1>3. s \in journal /\ ~Covered(s) => s > watermark
  <2>1. s \in journal /\ s <= watermark => Covered(s)
    BY DEF IInv, Safe, OnlyExposedLost, Serial, Unexposed
  <2> QED BY <1>1, <2>1
<1> QED BY <1>2, <1>3 DEF Status

\* The steps, in terms of the statuses.
LEMMA LedgerStays ==
  ASSUME \A s \in Seqs : Status(s)' = Status(s), phase' # "down" <=> phase # "down"
  PROVE  UNCHANGED Ledger!vars
BY DEF Ledger!vars

LEMMA LedgerLaunches ==
  ASSUME \A s \in Seqs : Status(s)' = Status(s), phase = "down", phase' # "down"
  PROVE  Ledger!Next
BY DEF Ledger!Next, Ledger!Launch

LEMMA LedgerLeaves ==
  ASSUME \A s \in Seqs : Status(s)' = Status(s), phase # "down", phase' = "down"
  PROVE  Ledger!Next
BY DEF Ledger!Next, Ledger!Leave

LEMMA LedgerJournals ==
  ASSUME NEW n \in Seqs, phase # "down", phase' # "down", Status(n) = "unborn",
         Status(n)' = IF Wanted[n] # {} THEN "owed" ELSE "queued",
         \A s \in Seqs \ {n} : Status(s)' = Status(s)
  PROVE  Ledger!Next
<1>1. Ledger!Journal(n)
  BY DEF Ledger!Journal, Ledger!Become
<1> QED BY <1>1 DEF Ledger!Next

LEMMA LedgerQueues ==
  ASSUME NEW S \in SUBSET Seqs, S # {}, phase # "down", phase' # "down",
         \A s \in S : Status(s) \in {"owed", "deleted"} /\ Status(s)' = "queued",
         \A s \in Seqs \ S : Status(s)' = Status(s)
  PROVE  Ledger!Next
<1>1. Ledger!Queue(S)
  BY DEF Ledger!Queue, Ledger!Become
<1> QED BY <1>1 DEF Ledger!Next

LEMMA LedgerDeletes ==
  ASSUME NEW S \in SUBSET Seqs, S # {}, phase # "down", phase' # "down",
         \A s \in S : Status(s) = "owed" /\ Status(s)' = "deleted",
         \A s \in Seqs \ S : Status(s)' = Status(s)
  PROVE  Ledger!Next
<1>1. Ledger!Delete(S)
  BY DEF Ledger!Delete, Ledger!Become
<1> QED BY <1>1 DEF Ledger!Next

LEMMA NoMoreKnown ==
  ASSUME Plain, Plain', UNCHANGED <<journal, nextSeq>>, outbox \subseteq outbox',
         phase # "down", phase' # "down"
  PROVE  [Ledger!Next]_(Ledger!vars)
<1> DEFINE S == {s \in Seqs : Known(s) /\ ~Covered(s) /\ Covered(s)'}
<1>1. \A s \in Seqs : (Covered(s) => Covered(s)') /\ (Known(s)' <=> Known(s))
  BY DEF Covered, Rows, Known
<1>2. \A s \in S : Status(s) \in {"owed", "deleted"} /\ Status(s)' = "queued"
  BY <1>1 DEF Plain
<1>3. \A s \in Seqs \ S : Status(s)' = Status(s)
  BY <1>1 DEF Plain
<1>4. CASE S = {}
  BY <1>3, <1>4, LedgerStays
<1>5. CASE S # {}
  <2>1. S \in SUBSET Seqs
    OBVIOUS
  <2> HIDE DEF S
  <2> QED BY <1>2, <1>3, <1>5, <2>1, LedgerQueues
<1> QED BY <1>4, <1>5

LEMMA CoveredMeans ==
  ASSUME NEW s \in Seqs
  PROVE  Covered(s) <=> \A sink \in Wanted[s] : <<s, sink>> \in outbox
<1>1. Wanted[s] \subseteq Sinks
  BY RoutesAssumption
<1>2. ASSUME Covered(s), NEW sink \in Wanted[s]
      PROVE  <<s, sink>> \in outbox
  <2>1. <<s, sink>> \in Rows({s})
    BY <1>1, <1>2 DEF Rows
  <2> QED BY <1>2, <2>1 DEF Covered
<1>3. ASSUME \A sink \in Wanted[s] : <<s, sink>> \in outbox
      PROVE  Covered(s)
  BY <1>3 DEF Covered, Rows
<1> QED BY <1>2, <1>3

LEMMA OneMoreKnown ==
  ASSUME IInv, Serial, Plain, Plain', NEW p \in Producers, Record(p)
  PROVE  [Ledger!Next]_(Ledger!vars)
<1>0. /\ nextSeq \in Seqs /\ nextSeq \in Nat /\ nextSeq' = nextSeq + 1
      /\ journal' = journal \cup {nextSeq}
      /\ phase # "down" /\ phase' # "down" /\ outbox' = outbox
  BY BoundsAssumption DEF Record, MayRecord, InsertEvent, IInv, TypeOK, Seqs
<1>1. \A s \in Seqs : s \in Nat
  BY DEF Seqs
<1>2. PICK n \in Seqs : n = nextSeq
  BY <1>0
<1>3. /\ n \in Nat /\ nextSeq' = n + 1 /\ journal' = journal \cup {n}
  BY <1>0, <1>2
<1>4. ~Known(n) /\ Known(n)' /\ \A s \in Seqs \ {n} : Known(s)' <=> Known(s)
  BY <1>1, <1>2, <1>3 DEF Known
<1>5. Covered(n)' <=> Wanted[n] = {}
  <2>1. \A row \in outbox : row[1] # n
    BY <1>2 DEF Serial, Unexposed
  <2>2. \A sink \in Wanted[n] : <<n, sink>> \notin outbox
    BY <2>1
  <2>3. Covered(n) <=> Wanted[n] = {}
    BY <2>2, CoveredMeans
  <2> QED BY <1>0, <2>3 DEF Covered
<1>6. \A s \in Seqs \ {n} : (Covered(s)' <=> Covered(s)) /\ (s \in journal' <=> s \in journal)
  BY <1>0, <1>3 DEF Covered
<1>7. Status(n) = "unborn" /\ Status(n)' = IF Wanted[n] # {} THEN "owed" ELSE "queued"
  BY <1>3, <1>4, <1>5 DEF Plain
<1>8. \A s \in Seqs \ {n} : Status(s)' = Status(s)
  BY <1>4, <1>6 DEF Plain
<1> QED BY <1>0, <1>7, <1>8, LedgerJournals

LEMMA SomeDeleted ==
  ASSUME Plain, Plain', IInv, DeleteEvents
  PROVE  [Ledger!Next]_(Ledger!vars)
<1>0. /\ journal' \subseteq journal /\ UNCHANGED <<nextSeq, outbox, phase>> /\ phase # "down"
  BY DEF DeleteEvents
<1> DEFINE S == {s \in Seqs : Known(s) /\ ~Covered(s) /\ s \in journal /\ s \notin journal'}
<1>1. \A s \in Seqs : (Covered(s)' <=> Covered(s)) /\ (Known(s)' <=> Known(s))
  BY <1>0 DEF Covered, Known
<1>2. \A s \in S : Status(s) = "owed" /\ Status(s)' = "deleted"
  BY <1>1 DEF Plain
<1>3. \A s \in Seqs \ S : Status(s)' = Status(s)
  BY <1>0, <1>1 DEF Plain
<1>4. CASE S = {}
  BY <1>0, <1>3, <1>4, LedgerStays
<1>5. CASE S # {}
  <2>1. S \in SUBSET Seqs
    OBVIOUS
  <2> HIDE DEF S
  <2> QED BY <1>0, <1>2, <1>3, <1>5, <2>1, LedgerDeletes
<1> QED BY <1>4, <1>5

LEMMA StepKeepsLedger ==
  ASSUME IInv, Serial, OneAtATime, Plain, Plain', [Next]_vars
  PROVE  [Ledger!Next]_(Ledger!vars)
<1> USE DEF database
<1>0. ASSUME UNCHANGED <<journal, nextSeq, outbox>> PROVE \A s \in Seqs : Status(s)' = Status(s)
  BY <1>0 DEF Plain, Known, Covered
<1>1. CASE \E p \in Producers : Record(p)
  BY <1>1, OneMoreKnown
<1>2. CASE \E p \in Actors : Accept(p)
  <2>1. PICK p \in Actors : Accept(p)
    BY <1>2
  <2>2. UNCHANGED <<journal, nextSeq, phase>> /\ outbox \subseteq outbox' /\ pc[p] # "idle"
    BY <2>1 DEF Accept, Register, Enqueue, Refuse, RouteInline
  <2>3. phase # "down"
    BY <2>2 DEF IInv, Safe, NobodyWhenDown
  <2> QED BY <2>2, <2>3, NoMoreKnown
<1>3. CASE RouterStep
  <2>1. ~PoolReport
    BY DEF PoolReport, OneAtATime
  <2>2. /\ UNCHANGED <<journal, nextSeq, phase>> /\ outbox \subseteq outbox' /\ phase # "down"
    BY <1>3, <2>1 DEF RouterStep, Running, Receive, Tick, WriteBatch, EnqueueRouted, WriteFails, SettleBatch,
       PoolQuiet, PoolReported, SeeDone, Drained
  <2> QED BY <2>2, NoMoreKnown
<1>4. CASE BackoffElapses \/ UNCHANGED vars
  BY <1>0, <1>4, LedgerStays DEF BackoffElapses, vars
<1>5. CASE Start
  BY <1>0, <1>5, LedgerLaunches DEF Start
<1>6. CASE ReplayStep \/ Shutdown
  <2>1. /\ UNCHANGED <<journal, nextSeq>> /\ outbox \subseteq outbox' /\ phase # "down" /\ phase' # "down"
    BY <1>6 DEF ReplayStep, ReplayRead, ReplayWrite, EnqueueRouted, ReplayDone, ReplayStops, Shutdown
  <2> QED BY <2>1, NoMoreKnown
<1>7. CASE Exit \/ Crash
  BY <1>0, <1>7, LedgerLeaves DEF Exit, Crash, Vanish, Running
<1>8. CASE DeleteEvents
  BY <1>8, SomeDeleted
<1> QED BY <1>1, <1>2, <1>3, <1>4, <1>5, <1>6, <1>7, <1>8 DEF Next

LEMMA PlainAlways == ASSUME OneAtATime PROVE Spec => []Plain
BY StatusIsPlain, Invariance, SerialAlways, PTL

\* The journal, the router and the replay together keep the ledger, as long as one
\* event at a time is recorded: an alert is owed until its deliveries are queued or
\* its row is deleted, over crashes, restarts, failed writes and full batches
\* (router.go:283-383, app.go:127-128, watermark.go:96-140).  This is the safety part
\* of ImplementsLedger.
THEOREM KeepsTheLedger ==
  ASSUME OneAtATime PROVE Spec => Ledger!Init /\ [][Ledger!Next]_(Ledger!vars)
<1>1. Init => Ledger!Init
  BY DEF Init, Ledger!Init, Status, Seqs
<1>2. IInv /\ Serial /\ Plain /\ Plain' /\ [Next]_vars => [Ledger!Next]_(Ledger!vars)
  BY StepKeepsLedger
<1> QED BY <1>1, <1>2, Invariance, SerialAlways, PlainAlways, PTL DEF Spec

\* And then nothing is lost: whatever the watermark has passed has its deliveries in
\* the outbox, so that a restart may forget about it (router.go:474-478).
THEOREM SerialLosesNothing == ASSUME OneAtATime PROVE Spec => []NothingLost
<1>1. IInv /\ Serial => NothingLost
  BY DEF IInv, Safe, OnlyExposedLost, Serial, Unexposed, NothingLost
<1> QED BY <1>1, Invariance, SerialAlways, PTL
=============================================================================
