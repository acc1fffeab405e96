--------------------------- MODULE OnTheWayProofs ---------------------------
(***************************************************************************)
(* What is on the way: the samples between a poll and the table, and the   *)
(* calls of the two pages of the window that have most of them under way,  *)
(* the notification page and the dialog of the simulator; for any number   *)
(* of them, any order of answers and any failures.                         *)
(***************************************************************************)
EXTENDS SampleBuffer, WindowKeeps, FiniteSetTheorems, SequenceTheorems, TLAPS

(***************************************************************************)
(* SampleBuffer: the samples of the table, of the flush and of the buffer  *)
(* are three runs of one rising line, and what was dropped is older than   *)
(* the last two.                                                           *)
(***************************************************************************)
Rising(q)    == \A i, j \in DOMAIN q : i < j => q[i] < q[j]
Before(A, B) == \A a \in A, b \in B : a < b

Stored  == ToSet(table)
Flushed == ToSet(taken)
StillWaits   == ToSet(batch)

Typed ==
  /\ sessions \subseteq Sessions /\ polling \subseteq sessions
  /\ flush \in {"idle", "writing", "refused"} /\ (flush = "idle" <=> taken = <<>>)
  /\ phase \in {"open", "joining", "final", "closed"} /\ cleaning \in BOOLEAN
  /\ queued \in 0..MaxSamples /\ owner \in [Samples -> Sessions]
  /\ table \in Seq(Nat) /\ taken \in Seq(Nat) /\ batch \in Seq(Nat)
  /\ budget \in [{"faults", "deletes", "cleanups"} -> Nat] /\ budget.faults <= MaxFaults

\* Every sample is somewhere, or gone for a reason.
Held ==
  /\ Stored \cup Flushed \cup StillWaits = (1..queued) \ (dropped \cup deleted)
  /\ dropped \subseteq 1..queued /\ deleted \subseteq 1..queued

\* The table, the flush and the buffer, one after the other, rise.
Rises ==
  /\ Rising(table) /\ Rising(taken) /\ Rising(batch)
  /\ Before(Stored, Flushed) /\ Before(Stored, StillWaits) /\ Before(Flushed, StillWaits)

Aged == Before(dropped, Flushed) /\ Before(dropped, StillWaits)

\* No write is refused for no reason, and a Close leaves nothing behind.
Quiet ==
  budget.faults = MaxFaults /\ sessions = Sessions =>
    /\ flush # "refused" /\ dropped = {}
    /\ phase = "closed" => taken = <<>> /\ batch = <<>>

IInv == Typed /\ Held /\ Rises /\ Aged /\ Quiet

-----------------------------------------------------------------------------
(* Rising sequences of numbers. *)

LEMMA Bounds ==
  /\ Cap \in Nat \ {0} /\ Sessions # {}
  /\ MaxSamples \in Nat /\ MaxFaults \in Nat /\ MaxDeletes \in Nat /\ MaxCleanups \in Nat
BY SampleBufferBounds

LEMMA Elements ==
  ASSUME NEW q \in Seq(Nat)
  PROVE  /\ Len(q) \in Nat /\ DOMAIN q = 1..Len(q)
         /\ ToSet(q) \subseteq Nat /\ ToSet(q) = {q[i] : i \in 1..Len(q)}
         /\ q = <<>> => ToSet(q) = {}
         /\ \A i \in 1..Len(q) : q[i] \in ToSet(q) /\ q[i] \in Nat
<1>1. Len(q) \in Nat /\ DOMAIN q = 1..Len(q) /\ \A i \in 1..Len(q) : q[i] \in Nat
  BY LenProperties, ElementOfSeq
<1>2. ToSet(q) = {q[i] : i \in 1..Len(q)}
  BY <1>1 DEF ToSet
<1>3. ASSUME q = <<>> PROVE ToSet(q) = {}
  <2>1. Len(q) = 0
    BY <1>3
  <2> QED BY <1>1, <1>2, <2>1
<1> QED BY <1>1, <1>2, <1>3

LEMMA Nothing == <<>> \in Seq(Nat) /\ ToSet(<<>>) = {} /\ DOMAIN <<>> = {}
<1>1. <<>> \in Seq(Nat) /\ DOMAIN <<>> = {}
  OBVIOUS
<1> QED BY <1>1 DEF ToSet

LEMMA InARow ==
  ASSUME NEW a \in Seq(Nat), NEW b \in Seq(Nat)
  PROVE  /\ a \o b \in Seq(Nat) /\ ToSet(a \o b) = ToSet(a) \cup ToSet(b)
         /\ Rising(a) /\ Rising(b) /\ Before(ToSet(a), ToSet(b)) => Rising(a \o b)
<1> DEFINE t == a \o b
<1>1. /\ t \in Seq(Nat) /\ Len(t) = Len(a) + Len(b)
      /\ \A i \in 1..(Len(a) + Len(b)) : t[i] = IF i <= Len(a) THEN a[i] ELSE b[i - Len(a)]
  BY ConcatProperties
<1>2. Len(a) \in Nat /\ Len(b) \in Nat /\ DOMAIN a = 1..Len(a) /\ DOMAIN b = 1..Len(b)
  BY Elements
<1> HIDE DEF t
<1>3. DOMAIN t = 1..(Len(a) + Len(b))
  BY <1>1, Elements
<1>4. /\ \A i \in 1..Len(a) : i \in 1..(Len(a) + Len(b)) /\ t[i] = a[i]
      /\ \A i \in 1..Len(b) : i + Len(a) \in 1..(Len(a) + Len(b)) /\ t[i + Len(a)] = b[i]
  <2>1. ASSUME NEW i \in 1..Len(a) PROVE i \in 1..(Len(a) + Len(b)) /\ t[i] = a[i]
    <3>1. i \in 1..(Len(a) + Len(b)) /\ i <= Len(a)
      BY <1>2
    <3> QED BY <1>1, <3>1
  <2>2. ASSUME NEW i \in 1..Len(b)
        PROVE  i + Len(a) \in 1..(Len(a) + Len(b)) /\ t[i + Len(a)] = b[i]
    <3>1. /\ i + Len(a) \in 1..(Len(a) + Len(b)) /\ ~(i + Len(a) <= Len(a))
          /\ i + Len(a) - Len(a) = i
      BY <1>2
    <3> QED BY <1>1, <3>1
  <2> QED BY <2>1, <2>2
<1>5. \A i \in 1..(Len(a) + Len(b)) :
        \/ i \in 1..Len(a) /\ t[i] = a[i]
        \/ i - Len(a) \in 1..Len(b) /\ t[i] = b[i - Len(a)] /\ i > Len(a)
  BY <1>1, <1>2
<1>6. ToSet(t) = ToSet(a) \cup ToSet(b)
  <2>1. \A i \in DOMAIN t : t[i] \in ToSet(a) \cup ToSet(b)
    BY <1>2, <1>3, <1>5 DEF ToSet
  <2>2. \A i \in 1..Len(a) : a[i] \in ToSet(t)
    BY <1>3, <1>4 DEF ToSet
  <2>3. \A i \in 1..Len(b) : b[i] \in ToSet(t)
    BY <1>3, <1>4 DEF ToSet
  <2>4. ToSet(t) \subseteq ToSet(a) \cup ToSet(b)
    BY <2>1 DEF ToSet
  <2>5. ToSet(a) \subseteq ToSet(t) /\ ToSet(b) \subseteq ToSet(t)
    BY <1>2, <2>2, <2>3 DEF ToSet
  <2> QED BY <2>4, <2>5
<1>7. ASSUME Rising(a), Rising(b), Before(ToSet(a), ToSet(b)) PROVE Rising(t)
  <2> SUFFICES ASSUME NEW i \in 1..(Len(a) + Len(b)), NEW j \in 1..(Len(a) + Len(b)), i < j
               PROVE  t[i] < t[j]
    BY <1>3 DEF Rising
  <2>1. CASE j \in 1..Len(a) /\ t[j] = a[j]
    <3>0. i \in 1..Len(a)
      BY <1>2, <2>1
    <3>1. i \in 1..Len(a) /\ t[i] = a[i]
      BY <1>4, <3>0
    <3> QED BY <1>2, <1>7, <2>1, <3>1 DEF Rising
  <2>2. CASE j - Len(a) \in 1..Len(b) /\ t[j] = b[j - Len(a)] /\ j > Len(a)
    <3>1. CASE i \in 1..Len(a) /\ t[i] = a[i]
      <4>1. a[i] \in ToSet(a) /\ b[j - Len(a)] \in ToSet(b)
        BY <2>2, <3>1, Elements
      <4> QED BY <1>7, <2>2, <3>1, <4>1 DEF Before
    <3>2. CASE i - Len(a) \in 1..Len(b) /\ t[i] = b[i - Len(a)] /\ i > Len(a)
      <4>1. i - Len(a) < j - Len(a)
        BY <1>2
      <4> QED BY <1>2, <1>7, <2>2, <3>2, <4>1 DEF Rising
    <3> QED BY <1>5, <3>1, <3>2
  <2> QED BY <1>5, <2>1, <2>2
<1> QED BY <1>1, <1>6, <1>7 DEF t

LEMMA Added ==
  ASSUME NEW q \in Seq(Nat), NEW n \in Nat
  PROVE  /\ Append(q, n) \in Seq(Nat) /\ ToSet(Append(q, n)) = ToSet(q) \cup {n}
         /\ Rising(q) /\ Before(ToSet(q), {n}) => Rising(Append(q, n))
<1>1. /\ Append(q, n) \in Seq(Nat) /\ Len(Append(q, n)) = Len(q) + 1
      /\ \A i \in 1..Len(q) : Append(q, n)[i] = q[i]
      /\ Append(q, n)[Len(q) + 1] = n
  BY AppendProperties
<1> DEFINE t == Append(q, n)
<1>2. DOMAIN q = 1..Len(q) /\ Len(q) \in Nat /\ DOMAIN t = 1..(Len(q) + 1)
  BY <1>1, LenProperties
<1>3. \A i \in DOMAIN t : (i \in 1..Len(q) /\ t[i] = q[i]) \/ (i = Len(q) + 1 /\ t[i] = n)
  BY <1>1, <1>2
<1>4. Len(q) + 1 \in DOMAIN t /\ \A i \in 1..Len(q) : i \in DOMAIN t
  BY <1>2
<1>5. ToSet(t) = ToSet(q) \cup {n}
  BY <1>1, <1>2, <1>3, <1>4 DEF ToSet
<1>6. ASSUME Rising(q), Before(ToSet(q), {n}) PROVE Rising(t)
  <2> HIDE DEF t
  <2> SUFFICES ASSUME NEW i \in DOMAIN t, NEW j \in DOMAIN t, i < j PROVE t[i] < t[j]
    BY DEF Rising
  <2>1. i \in 1..Len(q) /\ t[i] = q[i]
    BY <1>2, <1>3
  <2>2. q[i] \in ToSet(q)
    BY <2>1, Elements
  <2> QED BY <1>2, <1>3, <1>6, <2>1, <2>2 DEF Rising, Before
<1> QED BY <1>1, <1>5, <1>6

\* What the cap cuts off is below what it leaves.
LEMMA Cut ==
  ASSUME NEW q \in Seq(Nat), Rising(q), NEW n \in 0..Len(q)
  PROVE  LET old == SubSeq(q, 1, n)
             new == SubSeq(q, n + 1, Len(q))
         IN /\ new \in Seq(Nat) /\ Rising(new)
            /\ ToSet(old) \cup ToSet(new) = ToSet(q) /\ Before(ToSet(old), ToSet(new))
<1> DEFINE old == SubSeq(q, 1, n)
           new == SubSeq(q, n + 1, Len(q))
<1>0. Len(q) \in Nat /\ DOMAIN q = 1..Len(q) /\ n \in Nat /\ n <= Len(q) /\ \A i \in 1..Len(q) : q[i] \in Nat
  BY Elements
<1>1. old \in Seq(Nat) /\ DOMAIN old = 1..n /\ \A i \in 1..n : old[i] = q[i]
  <2>1. 1 \in Int /\ n \in Int /\ \A i \in 1..n : q[i] \in Nat
    BY <1>0
  <2>2. /\ old \in Seq(Nat) /\ Len(old) = IF 1 <= n THEN n - 1 + 1 ELSE 0
        /\ \A i \in 1..(n - 1 + 1) : old[i] = q[1 + i - 1]
    BY <2>1, SubSeqProperties
  <2> HIDE DEF old
  <2>3. Len(old) = n /\ DOMAIN old = 1..Len(old)
    BY <1>0, <2>2, LenProperties
  <2> QED BY <1>0, <2>2, <2>3
<1>2. /\ new \in Seq(Nat) /\ DOMAIN new = 1..(Len(q) - n)
      /\ \A i \in 1..(Len(q) - n) : n + i \in 1..Len(q) /\ new[i] = q[n + i]
  <2>1. n + 1 \in Int /\ Len(q) \in Int /\ \A i \in (n + 1)..Len(q) : q[i] \in Nat
    BY <1>0
  <2>2. /\ new \in Seq(Nat) /\ Len(new) = IF n + 1 <= Len(q) THEN Len(q) - (n + 1) + 1 ELSE 0
        /\ \A i \in 1..(Len(q) - (n + 1) + 1) : new[i] = q[n + 1 + i - 1]
    BY <2>1, SubSeqProperties
  <2> HIDE DEF new
  <2>3. DOMAIN new = 1..Len(new)
    BY <2>2, LenProperties
  <2>4. Len(new) = Len(q) - n
    <3>1. \A k, l \in Nat : k <= l => l - k = IF k + 1 <= l THEN l - (k + 1) + 1 ELSE 0
      OBVIOUS
    <3> QED BY <1>0, <2>2, <3>1
  <2>5. \A i \in 1..(Len(q) - n) : /\ i \in 1..(Len(q) - (n + 1) + 1)
                                  /\ n + i \in 1..Len(q) /\ n + 1 + i - 1 = n + i
    BY <1>0
  <2> QED BY <2>2, <2>3, <2>4, <2>5
<1> HIDE DEF old, new
<1>3. Rising(new)
  <2> SUFFICES ASSUME NEW i \in 1..(Len(q) - n), NEW j \in 1..(Len(q) - n), i < j PROVE new[i] < new[j]
    BY <1>2 DEF Rising
  <2>1. n + i < n + j
    BY <1>0
  <2> QED BY <1>0, <1>2, <2>1 DEF Rising
<1>4. ToSet(old) \cup ToSet(new) = ToSet(q)
  <2>1. \A i \in 1..Len(q) : i \in 1..n \/ (i - n \in 1..(Len(q) - n) /\ n + (i - n) = i)
    BY <1>0
  <2>2. \A i \in 1..n : i \in 1..Len(q)
    BY <1>0
  <2>3. \A i \in 1..Len(q) : q[i] \in ToSet(old) \cup ToSet(new)
    BY <1>1, <1>2, <2>1 DEF ToSet
  <2>4. ToSet(q) \subseteq ToSet(old) \cup ToSet(new)
    BY <1>0, <2>3 DEF ToSet
  <2>5. ToSet(old) \cup ToSet(new) \subseteq ToSet(q)
    BY <1>0, <1>1, <1>2, <2>2 DEF ToSet
  <2> QED BY <2>4, <2>5
<1>5. Before(ToSet(old), ToSet(new))
  <2> SUFFICES ASSUME NEW i \in 1..n, NEW j \in 1..(Len(q) - n) PROVE old[i] < new[j]
    BY <1>1, <1>2 DEF Before, ToSet
  <2>1. i \in 1..Len(q) /\ n + j \in 1..Len(q) /\ i < n + j
    BY <1>0
  <2> QED BY <1>0, <1>1, <1>2, <2>1 DEF Rising
<1> QED BY <1>2, <1>3, <1>4, <1>5 DEF old, new

LEMMA WhatIsLeft ==
  ASSUME NEW n \in Nat, NEW q \in Seq(Nat), ToSet(q) \subseteq 1..n, Rising(q),
         NEW S, NEW rest \in Without(q, S)
  PROVE  rest \in Seq(Nat) /\ ToSet(rest) = ToSet(q) \ S /\ Rising(rest)
<1> DEFINE R == ToSet(q) \ S
<1>1. IsFiniteSet(R) /\ R \subseteq Nat
  <2>1. IsFiniteSet(1..n)
    BY FS_Interval
  <2> QED BY <2>1, FS_Subset
<1>2. /\ rest \in SetToSeqs(R)
      /\ \A i, j \in DOMAIN rest :
           i < j => \E k, l \in DOMAIN q : k < l /\ q[k] = rest[i] /\ q[l] = rest[j]
  BY DEF Without
<1> HIDE DEF R
<1>3. Cardinality(R) \in Nat
  BY <1>1, FS_CardinalityType
<1>4. /\ rest \in [1..Cardinality(R) -> R]
      /\ \A i, j \in 1..Cardinality(R) : i # j => rest[i] # rest[j]
  BY <1>2 DEF SetToSeqs
<1>5. rest \in Seq(Nat)
  <2>1. \A i \in 1..Cardinality(R) : rest[i] \in Nat
    BY <1>1, <1>4
  <2>2. rest \in [1..Cardinality(R) -> Nat]
    BY <1>4, <2>1
  <2> QED BY <1>3, <2>2
<1>6. ToSet(rest) = R
  <2> DEFINE T == ToSet(rest)
  <2>1. T = {rest[i] : i \in 1..Cardinality(R)} /\ T \subseteq R
    BY <1>4 DEF ToSet
  <2>2. rest \in Bijection(1..Cardinality(R), T)
    BY <1>4, <2>1 DEF Bijection, Injection, Surjection, IsInjective
  <2> HIDE DEF T
  <2>3. Cardinality(T) = Cardinality(R)
    BY <1>3, <2>2, FS_CountingElements DEF ExistsBijection
  <2>4. T = R
    BY <1>1, <2>1, <2>3, FS_Subset
  <2> QED BY <2>4 DEF T
<1>7. Rising(rest)
  BY <1>2 DEF Rising
<1> QED BY <1>5, <1>6, <1>7 DEF R

-----------------------------------------------------------------------------
(* The steps. *)

\* Where nothing happens to a sample.
LEMMA SamplesStay ==
  ASSUME IInv, UNCHANGED <<table, taken, batch, queued, dropped, deleted>>
  PROVE  Held' /\ Rises' /\ Aged'
BY DEF IInv, Held, Rises, Aged, Stored, Flushed, StillWaits, Rising, Before, ToSet

LEMMA QueueDataPointsKeeps ==
  ASSUME IInv, NEW s \in Sessions, QueueDataPoints(s) PROVE IInv'
<1> DEFINE n == queued + 1
<1>0. /\ phase = "open" /\ n \in Samples /\ n \in Nat /\ queued \in Nat /\ batch \in Seq(Nat)
      /\ batch' = Append(batch, n) /\ queued' = n /\ owner' = [owner EXCEPT ![n] = s]
      /\ UNCHANGED <<sessions, table, polling, taken, flush, phase, cleaning, dropped, deleted, budget>>
  BY Bounds DEF QueueDataPoints, IInv, Typed, Samples
<1> HIDE DEF n
<1>1. 1..n = (1..queued) \cup {n} /\ n \notin 1..queued /\ \A i \in 1..queued : i < n
  BY <1>0 DEF n
<1>2. Stored \cup Flushed \cup StillWaits \subseteq 1..queued /\ dropped \subseteq 1..queued
  BY DEF IInv, Held
<1>3. /\ batch' \in Seq(Nat) /\ StillWaits' = StillWaits \cup {n} /\ Stored' = Stored /\ Flushed' = Flushed
      /\ Rising(batch')
  <2>1. Before(StillWaits, {n})
    BY <1>1, <1>2 DEF Before
  <2>2. /\ batch' \in Seq(Nat) /\ ToSet(batch') = ToSet(batch) \cup {n}
        /\ Rising(batch) /\ Before(ToSet(batch), {n}) => Rising(batch')
    BY <1>0, Added
  <2> QED BY <1>0, <2>1, <2>2 DEF IInv, Rises, Stored, Flushed, StillWaits
<1>4. Typed'
  BY <1>0, <1>3 DEF IInv, Typed, Samples
<1>5. Held'
  BY <1>0, <1>1, <1>3 DEF IInv, Held
<1>6. Rises' /\ Aged'
  <2>1. Before(Stored, {n}) /\ Before(Flushed, {n}) /\ Before(dropped, {n})
    BY <1>1, <1>2 DEF Before
  <2>2. Rising(table)' /\ Rising(taken)' /\ Rising(batch)'
    BY <1>0, <1>3 DEF IInv, Rises, Rising
  <2>3. /\ Before(Stored', Flushed') /\ Before(Stored', StillWaits') /\ Before(Flushed', StillWaits')
        /\ Before(dropped', Flushed') /\ Before(dropped', StillWaits')
    BY <1>0, <1>3, <2>1 DEF IInv, Rises, Aged, Before
  <2> QED BY <2>2, <2>3 DEF Rises, Aged, Before
<1>7. Quiet'
  BY <1>0 DEF IInv, Quiet
<1> QED BY <1>4, <1>5, <1>6, <1>7 DEF IInv

LEMMA TakeKeeps == ASSUME IInv, Take PROVE IInv'
<1>0. /\ taken = <<>> /\ batch # <<>> /\ taken' = batch /\ batch' = <<>> /\ flush' = "writing"
      /\ phase # "closed"
      /\ UNCHANGED <<sessions, table, polling, phase, cleaning, queued, owner, dropped, deleted, budget>>
  BY DEF Take, ghosts, IInv, Typed
<1>1. <<>> \in Seq(Nat) /\ ToSet(<<>>) = {} /\ DOMAIN <<>> = {}
  BY Nothing
<1>2. Flushed = {} /\ Stored' = Stored /\ Flushed' = StillWaits /\ StillWaits' = {}
  BY <1>0, <1>1 DEF Stored, Flushed, StillWaits
<1>3. Typed'
  BY <1>0, <1>1 DEF IInv, Typed
<1>4. Held'
  BY <1>0, <1>2 DEF IInv, Held
<1>5. Rises' /\ Aged'
  <2>1. Rising(table)' /\ Rising(taken)' /\ Rising(batch)'
    BY <1>0, <1>1 DEF IInv, Rises, Rising
  <2>2. /\ Before(Stored', Flushed') /\ Before(Stored', StillWaits') /\ Before(Flushed', StillWaits')
        /\ Before(dropped', Flushed') /\ Before(dropped', StillWaits')
    BY <1>0, <1>2 DEF IInv, Rises, Aged, Before
  <2> QED BY <2>1, <2>2 DEF Rises, Aged, Before
<1>6. Quiet'
  BY <1>0 DEF IInv, Quiet
<1> QED BY <1>3, <1>4, <1>5, <1>6 DEF IInv

LEMMA CommitKeeps == ASSUME IInv, Commit PROVE IInv'
<1>0. /\ taken # <<>> /\ table' = table \o taken /\ taken' = <<>> /\ flush' = "idle"
      /\ UNCHANGED <<sessions, polling, batch, phase, cleaning, queued, owner, dropped, deleted, budget>>
  BY DEF Commit, ghosts, IInv, Typed
<1>1. <<>> \in Seq(Nat) /\ ToSet(<<>>) = {} /\ DOMAIN <<>> = {}
  BY Nothing
<1>2. /\ table' \in Seq(Nat) /\ Stored' = Stored \cup Flushed /\ Flushed' = {} /\ StillWaits' = StillWaits
      /\ Rising(table')
  <2>1. /\ table \in Seq(Nat) /\ taken \in Seq(Nat) /\ Rising(table) /\ Rising(taken)
        /\ Before(ToSet(table), ToSet(taken))
    BY DEF IInv, Typed, Rises, Stored, Flushed
  <2>2. table' \in Seq(Nat) /\ ToSet(table') = ToSet(table) \cup ToSet(taken) /\ Rising(table')
    BY <1>0, <2>1, InARow
  <2> QED BY <1>0, <1>1, <2>2 DEF Stored, Flushed, StillWaits
<1>3. Typed'
  BY <1>0, <1>1, <1>2 DEF IInv, Typed
<1>4. Held'
  BY <1>0, <1>2 DEF IInv, Held
<1>5. Rises' /\ Aged'
  <2>1. Rising(table)' /\ Rising(taken)' /\ Rising(batch)'
    BY <1>0, <1>1, <1>2 DEF IInv, Rises, Rising
  <2>2. /\ Before(Stored', Flushed') /\ Before(Stored', StillWaits') /\ Before(Flushed', StillWaits')
        /\ Before(dropped', Flushed') /\ Before(dropped', StillWaits')
    BY <1>0, <1>2 DEF IInv, Rises, Aged, Before
  <2> QED BY <2>1, <2>2 DEF Rises, Aged, Before
<1>6. Quiet'
  BY <1>0 DEF IInv, Quiet
<1> QED BY <1>3, <1>4, <1>5, <1>6 DEF IInv

\* A write is refused for a sample whose session is gone, or by SQLite.
LEMMA RefuseKeeps == ASSUME IInv, Refuse PROVE IInv'
<1>0. /\ flush = "writing" /\ flush' = "refused"
      /\ UNCHANGED <<sessions, table, polling, batch, taken, phase, cleaning, queued, owner, dropped,
                     deleted>>
  BY DEF Refuse, ghosts
<1>1. budget \in [{"faults", "deletes", "cleanups"} -> Nat] /\ budget.faults <= MaxFaults
  BY DEF IInv, Typed
<1>2. /\ budget' \in [{"faults", "deletes", "cleanups"} -> Nat] /\ budget'.faults <= MaxFaults
      /\ sessions = Sessions => budget'.faults # MaxFaults
  <2>1. CASE Orphans(taken) # {}
    <3>1. budget' = budget
      BY <2>1 DEF Refuse
    <3>2. Flushed \subseteq Samples /\ owner \in [Samples -> Sessions]
      <4>1. queued \in 0..MaxSamples /\ Flushed \subseteq 1..queued
        BY DEF IInv, Typed, Held
      <4> QED BY <4>1, Bounds DEF IInv, Typed, Samples
    <3>3. sessions # Sessions
      BY <2>1, <3>2 DEF Orphans, Flushed
    <3> QED BY <1>1, <3>1, <3>3
  <2>2. CASE ~(Orphans(taken) # {})
    <3>1. budget.faults > 0 /\ budget' = [budget EXCEPT !.faults = @ - 1]
      BY <2>2 DEF Refuse, Spend
    <3> QED BY <1>1, <3>1, Bounds
  <2> QED BY <2>1, <2>2
<1>3. Typed'
  BY <1>0, <1>2 DEF IInv, Typed
<1>4. Held' /\ Rises' /\ Aged'
  BY <1>0, SamplesStay
<1>5. Quiet'
  BY <1>0, <1>2 DEF Quiet
<1> QED BY <1>3, <1>4, <1>5 DEF IInv

\* What the cap costs is what a refused flush and the buffer had longest.
LEMMA RestoreBatchKeeps == ASSUME IInv, RestoreBatch PROVE IInv'
<1> DEFINE all == taken \o batch
           over == IF Len(all) > Cap THEN Len(all) - Cap ELSE 0
<1>0. /\ flush = "refused" /\ taken' = <<>> /\ flush' = "idle"
      /\ batch' = SubSeq(all, over + 1, Len(all)) /\ dropped' = dropped \cup ToSet(SubSeq(all, 1, over))
      /\ UNCHANGED <<sessions, table, polling, phase, cleaning, queued, owner, deleted, budget>>
  BY DEF RestoreBatch
<1>1. all \in Seq(Nat) /\ Rising(all) /\ ToSet(all) = Flushed \cup StillWaits
  <2>1. /\ taken \in Seq(Nat) /\ batch \in Seq(Nat) /\ Rising(taken) /\ Rising(batch)
        /\ Before(ToSet(taken), ToSet(batch))
    BY DEF IInv, Typed, Rises, Flushed, StillWaits
  <2> QED BY <2>1, InARow DEF Flushed, StillWaits
<1> HIDE DEF all
<1>2. over \in 0..Len(all)
  <2>1. Len(all) \in Nat
    BY <1>1, Elements
  <2> QED BY <2>1, Bounds
<1> HIDE DEF over
<1>3. PICK old : /\ dropped' = dropped \cup old /\ old \cup StillWaits' = Flushed \cup StillWaits
                 /\ Before(old, StillWaits') /\ batch' \in Seq(Nat) /\ Rising(batch')
  <2> WITNESS ToSet(SubSeq(all, 1, over))
  <2> QED BY <1>0, <1>1, <1>2, Cut DEF StillWaits
<1>4. <<>> \in Seq(Nat) /\ ToSet(<<>>) = {} /\ DOMAIN <<>> = {}
  BY Nothing
<1>5. Flushed' = {} /\ Stored' = Stored
  BY <1>0, <1>4 DEF Stored, Flushed
<1>6. Typed'
  BY <1>0, <1>3, <1>4 DEF IInv, Typed
<1>7. Held'
  <2>1. \A x \in Stored, y \in Flushed \cup StillWaits : x # y
    <3>1. Stored \subseteq Nat /\ Flushed \subseteq Nat /\ StillWaits \subseteq Nat
      BY Elements DEF IInv, Typed, Stored, Flushed, StillWaits
    <3> QED BY <3>1 DEF IInv, Rises, Before
  <2>2. \A x \in old, y \in StillWaits' : x # y
    <3>1. \A x \in Flushed \cup StillWaits : x \in Nat
      BY Elements DEF IInv, Typed, Flushed, StillWaits
    <3> QED BY <1>3, <3>1 DEF Before
  <2> QED BY <1>0, <1>3, <1>5, <2>1, <2>2 DEF IInv, Held
<1>8. Rises' /\ Aged'
  <2>1. Rising(table)' /\ Rising(taken)' /\ Rising(batch)'
    BY <1>0, <1>3, <1>4 DEF IInv, Rises, Rising
  <2>2. /\ Before(Stored', Flushed') /\ Before(Stored', StillWaits') /\ Before(Flushed', StillWaits')
        /\ Before(dropped', Flushed') /\ Before(dropped', StillWaits')
    BY <1>3, <1>5 DEF IInv, Rises, Aged, Before
  <2> QED BY <2>1, <2>2 DEF Rises, Aged, Before
<1>9. Quiet'
  BY <1>0 DEF IInv, Quiet
<1> QED BY <1>6, <1>7, <1>8, <1>9 DEF IInv

LEMMA ForgetKeeps ==
  ASSUME IInv, NEW S, NEW gone \in SUBSET Stored, Forget(S, gone), polling \cap S = {},
         UNCHANGED <<polling, buffer, phase, queued, owner, dropped>>, cleaning' \in BOOLEAN,
         budget' \in [{"faults", "deletes", "cleanups"} -> Nat], budget'.faults = budget.faults
  PROVE  IInv'
<1>0. /\ table' \in Without(table, gone) /\ deleted' = deleted \cup gone /\ sessions' = sessions \ S
      /\ UNCHANGED <<polling, batch, taken, flush, phase, queued, owner, dropped>>
  BY DEF Forget, buffer
<1>1. Stored \cup Flushed \cup StillWaits = (1..queued) \ (dropped \cup deleted) /\ queued \in Nat
  BY Bounds DEF IInv, Typed, Held
<1>2. table' \in Seq(Nat) /\ Stored' = Stored \ gone /\ Rising(table')
  <2>1. table \in Seq(Nat) /\ ToSet(table) \subseteq 1..queued /\ Rising(table)
    BY <1>1 DEF IInv, Typed, Rises, Stored
  <2>2. table' \in Seq(Nat) /\ ToSet(table') = ToSet(table) \ gone /\ Rising(table')
    BY <1>0, <1>1, <2>1, WhatIsLeft
  <2> QED BY <2>2 DEF Stored
<1>3. Flushed' = Flushed /\ StillWaits' = StillWaits
  BY <1>0 DEF Flushed, StillWaits
<1>4. Typed'
  BY <1>0, <1>2 DEF IInv, Typed
<1>5. Held'
  <2>1. \A x \in gone : x \notin Flushed \cup StillWaits
    <3>1. \A x \in Stored : x \in Nat
      BY <1>1
    <3> QED BY <3>1 DEF IInv, Rises, Before
  <2>2. gone \subseteq 1..queued
    BY <1>1
  <2> QED BY <1>0, <1>1, <1>2, <1>3, <2>1, <2>2 DEF IInv, Held
<1>6. Rises' /\ Aged'
  <2>1. Rising(table)' /\ Rising(taken)' /\ Rising(batch)'
    BY <1>0, <1>2 DEF IInv, Rises, Rising
  <2>2. /\ Before(Stored', Flushed') /\ Before(Stored', StillWaits') /\ Before(Flushed', StillWaits')
        /\ Before(dropped', Flushed') /\ Before(dropped', StillWaits')
    BY <1>0, <1>2, <1>3 DEF IInv, Rises, Aged, Before
  <2> QED BY <2>1, <2>2 DEF Rises, Aged, Before
<1>7. Quiet'
  <2>1. sessions' = Sessions => sessions = Sessions
    BY <1>0 DEF IInv, Typed
  <2> QED BY <1>0, <2>1 DEF IInv, Quiet
<1> QED BY <1>4, <1>5, <1>6, <1>7 DEF IInv

LEMMA OperatorKeeps ==
  ASSUME IInv, NEW s \in Sessions, DeleteSession(s) \/ Cleanup PROVE IInv'
<1>1. /\ budget \in [{"faults", "deletes", "cleanups"} -> Nat] /\ budget.faults <= MaxFaults
      /\ cleaning \in BOOLEAN
  BY DEF IInv, Typed
<1>2. \A kind \in {"deletes", "cleanups"} :
        Spend(kind) => /\ budget' \in [{"faults", "deletes", "cleanups"} -> Nat]
                       /\ budget'.faults = budget.faults
  <2> SUFFICES ASSUME NEW kind \in {"deletes", "cleanups"}, Spend(kind)
               PROVE  /\ budget' \in [{"faults", "deletes", "cleanups"} -> Nat]
                      /\ budget'.faults = budget.faults
    OBVIOUS
  <2>1. budget[kind] \in Nat /\ budget[kind] > 0 /\ budget' = [budget EXCEPT ![kind] = budget[kind] - 1]
    BY <1>1 DEF Spend
  <2> QED BY <1>1, <2>1
<1>3. CASE DeleteSession(s)
  <2>1. Of({s}) \in SUBSET Stored
    BY DEF Of, Stored
  <2>2. /\ Forget({s}, Of({s})) /\ polling \cap {s} = {} /\ Spend("deletes") /\ cleaning' = cleaning
        /\ UNCHANGED <<polling, buffer, phase, queued, owner, dropped>>
    BY <1>3 DEF DeleteSession
  <2> QED BY <1>1, <1>2, <2>1, <2>2, ForgetKeeps
<1>4. CASE Cleanup
  <2>1. PICK day \in 1..MaxSamples : Forget({}, {p \in ToSet(table) : p < day})
    BY <1>4 DEF Cleanup
  <2> DEFINE gone == {p \in ToSet(table) : p < day}
  <2>2. gone \in SUBSET Stored
    BY DEF Stored
  <2>3. /\ Forget({}, gone) /\ Spend("cleanups") /\ cleaning' = TRUE
        /\ UNCHANGED <<polling, buffer, phase, queued, owner, dropped>>
    BY <1>4, <2>1 DEF Cleanup
  <2> HIDE DEF gone
  <2> QED BY <1>1, <1>2, <2>2, <2>3, ForgetKeeps
<1> QED BY <1>3, <1>4

\* What the clocks, the second half of a cleanup and the ends of a Close change.
LEMMA RestKeeps ==
  ASSUME IInv, \/ \E s \in Sessions : MonitorStop(s) \/ MonitorStart(s)
               \/ DeleteEmptyInactiveSessions \/ Shutdown \/ Joined \/ Close
  PROVE  IInv'
<1>0. UNCHANGED <<table, batch, taken, flush, queued, owner, dropped, deleted, budget>>
  BY DEF MonitorStop, MonitorStart, DeleteEmptyInactiveSessions, Shutdown, Joined, Close, buffer, ghosts
<1>1. Held' /\ Rises' /\ Aged'
  BY <1>0, SamplesStay
<1>2. /\ sessions' \subseteq sessions /\ polling' \subseteq sessions' /\ cleaning' \in BOOLEAN
      /\ phase' \in {"open", "joining", "final", "closed"}
  BY DEF IInv, Typed, MonitorStop, MonitorStart, DeleteEmptyInactiveSessions, Shutdown, Joined, Close,
     buffer, ghosts
<1>3. Typed'
  BY <1>0, <1>2 DEF IInv, Typed
<1>4. Quiet'
  <2>1. sessions' = Sessions => sessions = Sessions
    BY <1>2 DEF IInv, Typed
  <2>2. CASE Close
    <3>1. (flush = "idle" /\ batch = <<>>) \/ flush = "refused"
      BY <2>2 DEF Close
    <3> QED BY <1>0, <2>1, <3>1 DEF IInv, Typed, Quiet
  <2>3. CASE ~Close
    <3>1. phase' = "closed" => phase = "closed"
      BY <2>3 DEF MonitorStop, MonitorStart, DeleteEmptyInactiveSessions, Shutdown, Joined
    <3> QED BY <1>0, <2>1, <3>1 DEF IInv, Quiet
  <2> QED BY <2>2, <2>3
<1> QED BY <1>1, <1>3, <1>4 DEF IInv

LEMMA InitKeeps == ASSUME Init PROVE IInv
<1>1. Stored = {} /\ Flushed = {} /\ StillWaits = {}
  BY Nothing DEF Init, Stored, Flushed, StillWaits
<1>2. Held
  BY <1>1 DEF Init, Held
<1>3. Rises /\ Aged
  BY <1>1, Nothing DEF Init, Rises, Aged, Rising, Before
<1>4. (CHOOSE s \in Sessions : TRUE) \in Sessions
  BY Bounds
<1>5. owner \in [Samples -> Sessions]
  BY <1>4 DEF Init
<1>6. budget \in [{"faults", "deletes", "cleanups"} -> Nat] /\ budget.faults <= MaxFaults
  <2>1. /\ budget.faults = MaxFaults /\ budget.deletes = MaxDeletes /\ budget.cleanups = MaxCleanups
        /\ budget = [k \in {"faults", "deletes", "cleanups"} |-> budget[k]]
    BY DEF Init
  <2> QED BY <2>1, Bounds
<1>7. Typed
  <2>1. queued \in 0..MaxSamples
    BY Bounds DEF Init
  <2>2. table \in Seq(Nat) /\ taken \in Seq(Nat) /\ batch \in Seq(Nat)
    BY Nothing DEF Init
  <2>3. flush \in {"idle", "writing", "refused"} /\ (flush = "idle" <=> taken = <<>>)
    BY DEF Init
  <2>4. /\ sessions \subseteq Sessions /\ polling \subseteq sessions
        /\ phase \in {"open", "joining", "final", "closed"} /\ cleaning \in BOOLEAN
    BY DEF Init
  <2> QED BY <1>5, <1>6, <2>1, <2>2, <2>3, <2>4 DEF Typed
<1>8. Quiet
  BY DEF Init, Quiet
<1> QED BY <1>2, <1>3, <1>7, <1>8 DEF IInv

LEMMA StepKeeps == ASSUME IInv, [Next]_vars PROVE IInv'
<1>1. CASE UNCHANGED vars
  <2>1. UNCHANGED <<sessions, table, polling, batch, taken, flush, phase, cleaning, queued, owner, dropped,
                    deleted, budget>>
    BY <1>1 DEF vars, buffer, ghosts
  <2>2. Held' /\ Rises' /\ Aged'
    BY <2>1, SamplesStay
  <2>3. Typed' /\ Quiet'
    BY <2>1 DEF IInv, Typed, Quiet
  <2> QED BY <2>2, <2>3 DEF IInv
<1>2. CASE \E s \in Sessions : QueueDataPoints(s)
  BY <1>2, QueueDataPointsKeeps
<1>3. CASE FlushStep
  BY <1>3, TakeKeeps, CommitKeeps, RefuseKeeps, RestoreBatchKeeps DEF FlushStep
<1>4. CASE (\E s \in Sessions : DeleteSession(s)) \/ Cleanup
  BY <1>4, OperatorKeeps, Bounds
<1>5. CASE \/ \E s \in Sessions : MonitorStop(s) \/ MonitorStart(s)
           \/ DeleteEmptyInactiveSessions \/ Shutdown \/ Joined \/ Close
  BY <1>5, RestKeeps
<1> QED BY <1>1, <1>2, <1>3, <1>4, <1>5 DEF Next

LEMMA Inductive == Spec => []IInv
<1>1. Init => IInv
  BY InitKeeps
<1>2. IInv /\ [Next]_vars => IInv'
  BY StepKeeps
<1> QED BY <1>1, <1>2, PTL DEF Spec

-----------------------------------------------------------------------------
(* The theorems. *)

\* Whatever lies in the table, in a flush or in the buffer is a sample that was
\* queued, a clock runs only for a session that exists, and nothing is under way
\* that took no sample (storage.go:569-602, app.go:741-751).
THEOREM TypeCorrect == Spec => []TypeOK
<1>1. IInv => TypeOK
  <2> SUFFICES ASSUME IInv PROVE TypeOK
    OBVIOUS
  <2>1. \A seq \in {table, batch, taken} : ToSet(seq) \subseteq 1..queued
    BY DEF IInv, Held, Stored, Flushed, StillWaits
  <2>2. 1..queued \subseteq Samples
    BY Bounds DEF IInv, Typed, Samples
  <2>3. dropped \subseteq Samples /\ deleted \subseteq Samples
    BY <2>2 DEF IInv, Held
  <2> QED BY <2>1, <2>3 DEF IInv, Typed, TypeOK
<1> QED BY <1>1, Inductive, PTL

\* The table, the flush and the buffer, read one after the other, are in the order
\* in which the samples were queued: a refused batch goes back to the front
\* (storage.go:597-619).
LEMMA LineRises ==
  ASSUME IInv
  PROVE  LET all == table \o taken \o batch
         IN all \in Seq(Nat) /\ Rising(all) /\ ToSet(all) = Stored \cup Flushed \cup StillWaits
<1>1. /\ table \in Seq(Nat) /\ taken \in Seq(Nat) /\ batch \in Seq(Nat)
      /\ Rising(table) /\ Rising(taken) /\ Rising(batch)
      /\ Before(ToSet(table), ToSet(taken)) /\ Before(ToSet(table), ToSet(batch))
      /\ Before(ToSet(taken), ToSet(batch))
  BY DEF IInv, Typed, Rises, Stored, Flushed, StillWaits
<1> DEFINE wrote == table \o taken
<1>2. wrote \in Seq(Nat) /\ Rising(wrote) /\ ToSet(wrote) = ToSet(table) \cup ToSet(taken)
  BY <1>1, InARow
<1> HIDE DEF wrote
<1>3. Before(ToSet(wrote), ToSet(batch))
  BY <1>1, <1>2 DEF Before
<1>4. /\ wrote \o batch \in Seq(Nat) /\ Rising(wrote \o batch)
      /\ ToSet(wrote \o batch) = ToSet(wrote) \cup ToSet(batch)
  BY <1>1, <1>2, <1>3, InARow
<1> QED BY <1>2, <1>4 DEF wrote, Stored, Flushed, StillWaits

\* A sample is in one place and there once - the table, a flush, the buffer - or
\* gone because the cap or the operator took it: a refused write loses nothing and
\* stores nothing twice (storage.go:581-586, 597-602, 621-646).
THEOREM SamplesAreKept == Spec => []KeptOnce
<1>1. IInv => KeptOnce
  <2> SUFFICES ASSUME IInv PROVE KeptOnce
    OBVIOUS
  <2> DEFINE all == table \o taken \o batch
  <2>1. all \in Seq(Nat) /\ Rising(all) /\ ToSet(all) = Stored \cup Flushed \cup StillWaits
    BY LineRises
  <2> HIDE DEF all
  <2>2. ToSet(all) = (1..queued) \ (dropped \cup deleted)
    BY <2>1 DEF IInv, Held
  <2>3. ASSUME NEW i \in DOMAIN all, NEW j \in DOMAIN all, all[i] = all[j] PROVE i = j
    <3>1. i \in Nat /\ j \in Nat /\ all[i] \in Nat /\ all[j] \in Nat
      BY <2>1, <2>3, Elements
    <3>2. ~(i < j) /\ ~(j < i)
      BY <2>1, <2>3, <3>1 DEF Rising
    <3> QED BY <3>1, <3>2
  <2> QED BY <2>2, <2>3 DEF KeptOnce, all
<1> QED BY <1>1, Inductive, PTL

\* Whatever fails and whatever is queued meanwhile, the samples reach data_points
\* in the order they were queued (storage.go:597-619).
THEOREM StoredInOrder == Spec => []InOrder
<1>1. IInv => InOrder
  BY LineRises DEF InOrder, Rising
<1> QED BY <1>1, Inductive, PTL

\* What the cap costs is older than everything that is still to be wrote
\* (storage.go:604-619).
THEOREM TheOldestGo == Spec => []OldestDropped
<1>1. IInv => OldestDropped
  <2> SUFFICES ASSUME IInv PROVE OldestDropped
    OBVIOUS
  <2>1. ToSet(taken \o batch) = Flushed \cup StillWaits
    BY InARow DEF IInv, Typed, Flushed, StillWaits
  <2> QED BY <2>1 DEF IInv, Aged, Before, OldestDropped
<1> QED BY <1>1, Inductive, PTL

\* Close joins the goroutine of the ticker and flushes once more: where SQLite
\* refused nothing and no session was deleted, every sample that was queued is in
\* the table, unless the operator deleted it by age (storage.go:409-429).
THEOREM CloseLeavesNothing == Spec => []ClosedComplete
<1>1. IInv => ClosedComplete
  <2> SUFFICES ASSUME IInv, phase = "closed", budget.faults = MaxFaults, sessions = Sessions
               PROVE  ToSet(table) = (1..queued) \ deleted
    BY DEF ClosedComplete
  <2>1. taken = <<>> /\ batch = <<>> /\ dropped = {}
    BY DEF IInv, Quiet
  <2>2. Flushed = {} /\ StillWaits = {}
    BY <2>1, Nothing DEF Flushed, StillWaits
  <2> QED BY <2>1, <2>2 DEF IInv, Held, Stored
<1> QED BY <1>1, Inductive, PTL

(***************************************************************************)
(* NotifyDesk: the notification page of the settings.                      *)
(***************************************************************************)
\* The secret store accepts what it is given; what there is at first points
\* somewhere; what stands for nothing is no place and no destination.
DeskAssumption ==
  /\ Silent /\ Places # {} /\ \A id \in DOMAIN SinksAt : SinksAt[id] \in Places
  /\ None \notin Places /\ \A p, t, b : None # [place |-> p, to |-> t, body |-> b]

FormFields == {"id", "place", "to", "body", "raw", "text", "secret", "had", "shares", "named", "timer", "preview"}
RowFields  == {"place", "to", "body", "raw", "had"}
RuleForm   == {"id", "priority", "sinks"}
RuleFields == {"priority", "typed", "sinks", "on"}
CallFields == {"kind", "id", "with", "mine", "served", "ok", "had", "lost"}

\* A record of these fields, whatever they hold.
Has(fields, r) == r = [k \in fields |-> r[k]]

DeskShape ==
  /\ Has({"sinks", "secret", "routes", "box"}, desk) /\ Has({"rows", "routes", "log", "filter", "testing"}, screen)
  /\ Has({"strayed", "silent", "sent"}, kept)
  /\ Has(DOMAIN screen.rows, screen.rows)
  /\ \A id \in DOMAIN screen.rows : Has(RowFields, screen.rows[id]) /\ screen.rows[id].place \in Places
  /\ \A id \in DOMAIN desk.sinks : Has({"place", "to", "body"}, desk.sinks[id]) /\ desk.sinks[id].place \in Places
  /\ \A r \in DOMAIN desk.routes : Has(RuleFields, desk.routes[r])
  /\ editor # None => Has(FormFields, editor) /\ editor.place \in Places
  /\ rule # None => Has(RuleForm, rule)
  /\ \E S : posts \in Seq(S)

\* A credential is that of a destination there is, for the place it points to.
Bound ==
  \A id \in DOMAIN desk.secret : desk.secret[id] # None =>
    id \in DOMAIN desk.sinks /\ desk.secret[id] = desk.sinks[id].place

\* What a call may be that is under way.
CallFine(c) ==
  /\ Has(CallFields, c)
  /\ c.lost => c.ok /\ ~c.had /\ ~c.with.secret
  /\ c.kind = "save" => c.with.place \in Places
  /\ c.kind = "saveRoute" => c.with.priority = Notify!PriorityOf(c.with.typed)

\* A list that is not what is stored is read again.
RowsFresh ==
  \/ DOMAIN screen.rows = DOMAIN desk.sinks
  \/ \E i \in DOMAIN posts : \/ posts[i].kind = "sinks"
                             \/ posts[i].kind \in {"save", "delete"} /\ posts[i].served /\ posts[i].ok
RoutesFresh ==
  \/ screen.routes = desk.routes
  \/ \E i \in DOMAIN posts :
       \/ posts[i].kind \in {"sinks", "routes"}
       \/ posts[i].kind \in {"save", "delete", "saveRoute", "deleteRoute"} /\ posts[i].served /\ posts[i].ok

\* The last call of a kind.
Newest(cs, kind, i) == /\ i \in DOMAIN cs /\ cs[i].kind = kind
                       /\ \A j \in DOMAIN cs : j > i => cs[j].kind # kind

\* The log is of the filter, or the last one asked for is.
LogFresh ==
  \/ \E i : Newest(posts, "deliveries", i) /\ posts[i].with = screen.filter
  \/ /\ \A i \in DOMAIN posts : posts[i].kind # "deliveries"
     /\ \A d \in DOMAIN screen.log : screen.filter \in {"", screen.log[d]}

\* The preview is of the form, or the last one asked for is.
PreviewFresh ==
  editor # None /\ ~editor.timer =>
    \/ \E i : Newest(posts, "preview", i) /\ posts[i].mine /\ posts[i].with = Notify!Config(editor)
    \/ /\ \A i \in DOMAIN posts : posts[i].kind # "preview"
       /\ editor.preview = Notify!Config(editor)

DeskInv ==
  /\ DeskShape /\ Bound /\ ~kept.strayed /\ Notify!UnboundIsSaid /\ Notify!PriorityAsTyped
  /\ \A i \in DOMAIN posts : CallFine(posts[i])
  /\ RowsFresh /\ RoutesFresh /\ LogFresh /\ PreviewFresh

-----------------------------------------------------------------------------
(* Records and calls. *)

\* What has these fields is a function on them.
LEMMA HasDomain == ASSUME NEW fields, NEW r, Has(fields, r) PROVE DOMAIN r = fields
<1>1. DOMAIN [k \in fields |-> r[k]] = fields
  OBVIOUS
<1> QED BY <1>1 DEF Has

\* One field changed, the others as they were.
Changed(r, u, f, v) == u = [r EXCEPT ![f] = v]

LEMMA FieldIs ==
  ASSUME NEW fields, NEW r, Has(fields, r), NEW f \in fields, NEW v, NEW u, Changed(r, u, f, v)
  PROVE  Has(fields, u) /\ u[f] = v /\ \A k \in fields : k # f => u[k] = r[k]
<1>1. DOMAIN r = fields
  BY HasDomain
<1>2. u = [k \in fields |-> IF k = f THEN v ELSE r[k]]
  BY <1>1 DEF Changed
<1>3. Has(fields, u)
  BY <1>2 DEF Has
<1> QED BY <1>2, <1>3

LEMMA AskIs ==
  ASSUME NEW kind, NEW id, NEW with
  PROVE  LET c == Notify!Ask(kind, id, with)
         IN /\ Has(CallFields, c) /\ c.kind = kind /\ c.id = id /\ c.with = with /\ c.mine /\ ~c.served /\ ~c.lost
BY DEF Notify!Ask, Has, CallFields

\* A call is made: it is the last.
LEMMA CallAsked ==
  ASSUME NEW S, NEW cs \in Seq(S), NEW c
  PROVE  LET u == Append(cs, c)
             n == Len(cs) + 1
         IN /\ \E T : u \in Seq(T)
            /\ n \in DOMAIN u /\ u[n] = c /\ n \in Nat
            /\ \A i \in DOMAIN cs : i \in DOMAIN u /\ u[i] = cs[i] /\ i < n
            /\ \A i \in DOMAIN u : i \in Nat /\ i <= n /\ (i = n \/ (i \in DOMAIN cs /\ u[i] = cs[i]))
<1>1. cs \in Seq(S \cup {c}) /\ c \in S \cup {c}
  BY SeqMonotonic
<1>2. Append(cs, c) \in Seq(S \cup {c})
  BY <1>1
<1> QED BY <1>2

\* The place of a call once the one at k is gone.
Moved(i, k) == IF i < k THEN i ELSE i - 1

\* Calls that may only differ in whom they are for.
Alike(a, b) ==
  /\ Has(CallFields, a)
  /\ a.kind = b.kind /\ a.with = b.with /\ a.served = b.served /\ a.ok = b.ok /\ a.had = b.had /\ a.lost = b.lost

LEMMA OneGone ==
  ASSUME NEW S, NEW cs \in Seq(S), NEW k \in DOMAIN cs
  PROVE  LET u == Notify!RemoveAt(cs, k)
         IN /\ u \in Seq(S) /\ DOMAIN u = 1..(Len(cs) - 1) /\ Len(u) = Len(cs) - 1
            /\ \A i \in 1..(Len(cs) - 1) : u[i] = IF i < k THEN cs[i] ELSE cs[i + 1]
<1> DEFINE a == SubSeq(cs, 1, k - 1)
           b == SubSeq(cs, k + 1, Len(cs))
<1>1. k \in 1..Len(cs) /\ Len(cs) \in Nat
  OBVIOUS
<1>2. a \in Seq(S) /\ Len(a) = k - 1 /\ \A i \in 1..(k - 1) : a[i] = cs[i]
  BY <1>1
<1>3. b \in Seq(S) /\ Len(b) = Len(cs) - k /\ \A i \in 1..(Len(cs) - k) : b[i] = cs[i + k]
  BY <1>1
<1>4. Notify!RemoveAt(cs, k) = a \o b
  BY DEF Notify!RemoveAt
<1> HIDE DEF a, b
<1>5. a \o b \in Seq(S) /\ Len(a \o b) = Len(cs) - 1
  BY <1>1, <1>2, <1>3
<1>6. ASSUME NEW i \in 1..(Len(cs) - 1) PROVE (a \o b)[i] = IF i < k THEN cs[i] ELSE cs[i + 1]
  <2>1. (a \o b)[i] = IF i <= Len(a) THEN a[i] ELSE b[i - Len(a)]
    BY <1>1, <1>2, <1>3, <1>6
  <2>2. CASE i < k
    <3>1. i \in 1..(k - 1) /\ i <= Len(a)
      BY <1>1, <1>2, <1>6, <2>2
    <3> QED BY <1>2, <2>1, <2>2, <3>1
  <2>3. CASE ~(i < k)
    <3>1. i - Len(a) \in 1..(Len(cs) - k) /\ ~(i <= Len(a)) /\ (i - Len(a)) + k = i + 1
      BY <1>1, <1>2, <1>6, <2>3
    <3>2. b[i - Len(a)] = cs[(i - Len(a)) + k]
      BY <1>3, <3>1
    <3> QED BY <2>1, <2>3, <3>1, <3>2
  <2> QED BY <2>2, <2>3
<1>7. DOMAIN (a \o b) = 1..(Len(cs) - 1)
  BY <1>5
<1> QED BY <1>4, <1>5, <1>6, <1>7

\* What an answer leaves of the calls: the others, in their order, and what it asks.
Answered(old, new, k, more) ==
  /\ \E T : new \in Seq(T)
  /\ \A i \in DOMAIN old : i \in Nat /\ (i # k => Moved(i, k) \in DOMAIN new /\ Alike(new[Moved(i, k)], old[i]))
  /\ \A i \in DOMAIN new :
       \/ \E j \in DOMAIN old : j # k /\ i = Moved(j, k) /\ Alike(new[i], old[j])
       \/ /\ \A j \in DOMAIN old : i > Moved(j, k)
          /\ more # <<>> /\ new[i] = more[1]
  /\ more # <<>> => \E i \in DOMAIN new : new[i] = more[1] /\ \A j \in DOMAIN new : j <= i

\* The others are as they were, unless the editor that asked was closed.
AnsweredBy(cs, w, k, more) ==
  /\ Answered(cs, w \o more, k, more)
  /\ w = Notify!RemoveAt(cs, k) => \A i \in DOMAIN cs : i # k => (w \o more)[Moved(i, k)] = cs[i]

LEMMA OrphanIs == ASSUME NEW c, Has(CallFields, c) PROVE Alike([c EXCEPT !.mine = FALSE], c)
<1> DEFINE t == [c EXCEPT !.mine = FALSE]
<1>1. DOMAIN c = CallFields
  <2>1. DOMAIN [k \in CallFields |-> c[k]] = CallFields
    OBVIOUS
  <2> QED BY <2>1 DEF Has
<1>2. t = [k \in CallFields |-> IF k = "mine" THEN FALSE ELSE c[k]]
  BY <1>1
<1> HIDE DEF t
<1>3. Has(CallFields, t)
  BY <1>2 DEF Has
<1>4. \A k \in CallFields : k # "mine" => t[k] = c[k]
  BY <1>2
<1>5. t.kind = c.kind /\ t.with = c.with /\ t.served = c.served /\ t.ok = c.ok /\ t.had = c.had /\ t.lost = c.lost
  BY <1>4 DEF CallFields
<1> QED BY <1>3, <1>5 DEF Alike, t

LEMMA JoinedAt ==
  ASSUME NEW S, NEW a \in Seq(S), NEW b \in Seq(S)
  PROVE  /\ a \o b \in Seq(S) /\ Len(a \o b) = Len(a) + Len(b) /\ DOMAIN (a \o b) = 1..(Len(a) + Len(b))
         /\ \A i \in 1..(Len(a) + Len(b)) : (a \o b)[i] = IF i <= Len(a) THEN a[i] ELSE b[i - Len(a)]
OBVIOUS

LEMMA OrphansAre ==
  ASSUME NEW S, NEW cs \in Seq(S), \A i \in DOMAIN cs : Has(CallFields, cs[i])
  PROVE  LET u == Notify!Orphaned(cs)
         IN /\ \E T : u \in Seq(T)
            /\ DOMAIN u = DOMAIN cs /\ Len(u) = Len(cs) /\ \A i \in DOMAIN cs : Alike(u[i], cs[i])
<1> DEFINE u == Notify!Orphaned(cs)
           O(c) == [c EXCEPT !.mine = FALSE]
           T == {O(cs[i]) : i \in DOMAIN cs}
<1>1. u = [i \in DOMAIN cs |-> O(cs[i])] /\ DOMAIN cs = 1..Len(cs) /\ Len(cs) \in Nat
  BY DEF Notify!Orphaned
<1>2. \A i \in DOMAIN cs : Alike(O(cs[i]), cs[i])
  BY OrphanIs
<1> HIDE DEF O, u
<1>3. u \in [1..Len(cs) -> T]
  BY <1>1
<1>4. u \in Seq(T)
  BY <1>1, <1>3, SeqDef
<1>5. DOMAIN u = DOMAIN cs /\ Len(u) = Len(cs) /\ \A i \in DOMAIN cs : Alike(u[i], cs[i])
  BY <1>1, <1>2, <1>4
<1> QED BY <1>4, <1>5 DEF u

LEMMA AnsweredIs ==
  ASSUME NEW S, NEW cs \in Seq(S), NEW k \in DOMAIN cs, \A i \in DOMAIN cs : Has(CallFields, cs[i]),
         NEW more, more = <<>> \/ \E t : more = <<t>>,
         NEW w, w \in {Notify!RemoveAt(cs, k), Notify!Orphaned(Notify!RemoveAt(cs, k))}
  PROVE  AnsweredBy(cs, w, k, more)
<1> DEFINE u == Notify!RemoveAt(cs, k)
           n == Len(cs) - 1
           new == w \o more
<1>1. /\ u \in Seq(S) /\ DOMAIN u = 1..n /\ Len(u) = n
      /\ \A i \in 1..n : u[i] = IF i < k THEN cs[i] ELSE cs[i + 1]
  BY OneGone
<1>2. k \in 1..Len(cs) /\ Len(cs) \in Nat /\ DOMAIN cs = 1..Len(cs) /\ n \in Nat
  OBVIOUS
<1> HIDE DEF u
<1>3. \A i \in 1..n : Has(CallFields, u[i])
  <2> SUFFICES ASSUME NEW i \in 1..n PROVE Has(CallFields, u[i])
    OBVIOUS
  <2>1. i \in DOMAIN cs /\ i + 1 \in DOMAIN cs
    BY <1>2
  <2> QED BY <1>1, <2>1
<1>4. (\E T : w \in Seq(T)) /\ DOMAIN w = 1..n /\ Len(w) = n /\ \A i \in 1..n : Alike(w[i], u[i])
  <2>1. CASE w = u
    BY <1>1, <1>3, <2>1 DEF Alike
  <2>2. CASE w = Notify!Orphaned(u)
    BY <1>1, <1>3, <2>2, OrphansAre
  <2> QED BY <2>1, <2>2 DEF u
<1>5. PICK T : w \in Seq(T)
  BY <1>4
<1>6. /\ \E X : new \in Seq(X)
      /\ \A i \in 1..n : i \in DOMAIN new /\ new[i] = w[i]
      /\ more = <<>> => DOMAIN new = 1..n
      /\ more # <<>> => DOMAIN new = 1..(n + 1) /\ new[n + 1] = more[1]
  <2>1. CASE more = <<>>
    <3>1. new = w
      BY <1>5, <2>1
    <3> QED BY <1>4, <1>5, <2>1, <3>1
  <2>2. CASE \E t : more = <<t>>
    <3>1. PICK t : more = <<t>>
      BY <2>2
    <3>2. w \in Seq(T \cup {t}) /\ <<t>> \in Seq(T \cup {t})
      BY <1>5, SeqMonotonic
    <3>3. more # <<>> /\ more[1] = t /\ Len(more) = 1
      BY <3>1
    <3>4. new \in Seq(T \cup {t})
      BY <3>1, <3>2
    <3>5. Len(more) = 1 /\ Len(w) = n
      BY <1>4, <3>1
    <3>6. DOMAIN new = 1..(n + 1) /\ \A i \in 1..(n + 1) : new[i] = IF i <= n THEN w[i] ELSE more[i - n]
      BY <3>1, <3>2, <3>5, JoinedAt
    <3> HIDE DEF new, n
    <3>7. n + 1 \in 1..(n + 1) /\ ~(n + 1 <= n) /\ (n + 1) - n = 1 /\ \A i \in 1..n : i \in 1..(n + 1) /\ i <= n
      BY <1>2
    <3> QED BY <3>3, <3>4, <3>6, <3>7
  <2> QED BY <2>1, <2>2
<1> HIDE DEF new
<1>7. ASSUME NEW i \in DOMAIN cs, i # k 
       PROVE  Moved(i, k) \in 1..n /\ Alike(w[Moved(i, k)], cs[i]) /\ (w = u => w[Moved(i, k)] = cs[i])
  <2>1. Moved(i, k) \in 1..n /\ i = IF Moved(i, k) < k THEN Moved(i, k) ELSE Moved(i, k) + 1
    BY <1>2, <1>7 DEF Moved
  <2>2. u[Moved(i, k)] = cs[i]
    BY <1>1, <2>1
  <2> QED BY <1>4, <2>1, <2>2
<1>8. ASSUME NEW i \in 1..n PROVE \E j \in DOMAIN cs : j # k /\ i = Moved(j, k) /\ Alike(w[i], cs[j])
  <2> DEFINE j == IF i < k THEN i ELSE i + 1
  <2>1. j \in DOMAIN cs /\ j # k /\ i = Moved(j, k)
    BY <1>2 DEF Moved
  <2> QED BY <1>7, <2>1
<1>9. \A j \in DOMAIN cs : n + 1 > Moved(j, k)
  BY <1>2 DEF Moved
<1>10. \A i \in DOMAIN cs : i \in Nat /\ (i # k => Moved(i, k) \in DOMAIN new /\ Alike(new[Moved(i, k)], cs[i]))
  BY <1>2, <1>6, <1>7
<1>11. ASSUME NEW i \in DOMAIN new
       PROVE  \/ \E j \in DOMAIN cs : j # k /\ i = Moved(j, k) /\ Alike(new[i], cs[j])
              \/ /\ \A j \in DOMAIN cs : i > Moved(j, k)
                 /\ more # <<>> /\ new[i] = more[1]
  <2>1. i \in 1..n \/ (i = n + 1 /\ more # <<>>)
    BY <1>2, <1>6
  <2> QED BY <1>6, <1>8, <1>9, <2>1
<1>12. more # <<>> => \E i \in DOMAIN new : new[i] = more[1] /\ \A j \in DOMAIN new : j <= i
  <2>1. more # <<>> => n + 1 \in DOMAIN new /\ new[n + 1] = more[1] /\ \A j \in DOMAIN new : j <= n + 1
    <3> SUFFICES ASSUME more # <<>>
                 PROVE  n + 1 \in DOMAIN new /\ new[n + 1] = more[1] /\ \A j \in DOMAIN new : j <= n + 1
      OBVIOUS
    <3>1. DOMAIN new = 1..(n + 1) /\ new[n + 1] = more[1]
      BY <1>6
    <3> HIDE DEF n
    <3> QED BY <1>2, <3>1
  <2> QED BY <2>1
<1>13. w = u => \A i \in DOMAIN cs : i # k => new[Moved(i, k)] = cs[i]
  BY <1>6, <1>7
<1>14. Answered(cs, new, k, more)
  BY <1>6, <1>10, <1>11, <1>12 DEF Answered
<1> QED BY <1>13, <1>14 DEF AnsweredBy, new, u

-----------------------------------------------------------------------------
(* The gestures. *)

ScreenFields == {"rows", "routes", "log", "filter", "testing"}

\* The page as it is shown: what of it the gestures must leave in shape.
PageShape ==
  /\ Has(ScreenFields, screen) /\ Has(DOMAIN screen.rows, screen.rows)
  /\ \A id \in DOMAIN screen.rows : Has(RowFields, screen.rows[id]) /\ screen.rows[id].place \in Places
  /\ editor # None => Has(FormFields, editor) /\ editor.place \in Places
  /\ rule # None => Has(RuleForm, rule)

LEMMA PageStep ==
  ASSUME DeskInv, UNCHANGED <<desk, kept>>, PageShape', LogFresh', PreviewFresh',
         screen'.routes = screen.routes, DOMAIN screen'.rows = DOMAIN screen.rows,
         posts' = posts \/ \E c : CallFine(c) /\ posts' = Append(posts, c)
  PROVE  DeskInv'
<1>1. PICK S : posts \in Seq(S)
  BY DEF DeskInv, DeskShape
<1>2. /\ \E T : posts' \in Seq(T)
      /\ \A i \in DOMAIN posts : i \in DOMAIN posts' /\ posts'[i] = posts[i]
      /\ \A i \in DOMAIN posts' : CallFine(posts'[i])
  <2>1. CASE posts' = posts
    BY <1>1, <2>1 DEF DeskInv
  <2>2. CASE \E c : CallFine(c) /\ posts' = Append(posts, c)
    <3>1. PICK c : CallFine(c) /\ posts' = Append(posts, c)
      BY <2>2
    <3>2. \A i \in DOMAIN posts : CallFine(posts[i])
      BY DEF DeskInv
    <3>3. /\ \E T : posts' \in Seq(T)
          /\ \A i \in DOMAIN posts : i \in DOMAIN posts' /\ posts'[i] = posts[i]
          /\ \A i \in DOMAIN posts' : posts'[i] = c \/ (i \in DOMAIN posts /\ posts'[i] = posts[i])
      BY <1>1, <3>1, CallAsked
    <3> QED BY <3>1, <3>2, <3>3
  <2> QED BY <2>1, <2>2
<1>3. DeskShape'
  BY <1>2 DEF DeskInv, DeskShape, PageShape, ScreenFields
<1>4. Bound' /\ ~kept'.strayed /\ Notify!UnboundIsSaid' /\ Notify!PriorityAsTyped'
  BY DEF DeskInv, Bound, Notify!UnboundIsSaid, Notify!PriorityAsTyped
<1>5. RowsFresh' /\ RoutesFresh'
  BY <1>2 DEF DeskInv, RowsFresh, RoutesFresh
<1> QED BY <1>2, <1>3, <1>4, <1>5 DEF DeskInv

\* A call of another kind leaves the last of a kind the last.
LEMMA NewestKept ==
  ASSUME DeskInv, NEW kind, posts' = posts \/ \E c : c.kind # kind /\ posts' = Append(posts, c)
  PROVE  /\ \A i : Newest(posts, kind, i) => Newest(posts', kind, i) /\ posts'[i] = posts[i]
         /\ (\A i \in DOMAIN posts : posts[i].kind # kind) => \A i \in DOMAIN posts' : posts'[i].kind # kind
<1>1. PICK S : posts \in Seq(S)
  BY DEF DeskInv, DeskShape
<1>2. CASE posts' = posts
  BY <1>2
<1>3. CASE \E c : c.kind # kind /\ posts' = Append(posts, c)
  <2>1. PICK c : c.kind # kind /\ posts' = Append(posts, c)
    BY <1>3
  <2>2. /\ \A i \in DOMAIN posts : i \in DOMAIN posts' /\ posts'[i] = posts[i]
        /\ \A i \in DOMAIN posts' : posts'[i] = c \/ (i \in DOMAIN posts /\ posts'[i] = posts[i])
    BY <1>1, <2>1, CallAsked
  <2> QED BY <2>1, <2>2 DEF Newest
<1> QED BY <1>2, <1>3

LEMMA LogKept ==
  ASSUME DeskInv, posts' = posts \/ \E c : c.kind # "deliveries" /\ posts' = Append(posts, c),
         screen'.log = screen.log, screen'.filter = screen.filter
  PROVE  LogFresh'
<1>1. CASE \E i : Newest(posts, "deliveries", i) /\ posts[i].with = screen.filter
  <2>1. PICK i : Newest(posts, "deliveries", i) /\ posts[i].with = screen.filter
    BY <1>1
  <2>2. Newest(posts', "deliveries", i) /\ posts'[i] = posts[i]
    BY <2>1, NewestKept
  <2> QED BY <2>1, <2>2 DEF LogFresh
<1>2. CASE /\ \A i \in DOMAIN posts : posts[i].kind # "deliveries"
           /\ \A d \in DOMAIN screen.log : screen.filter \in {"", screen.log[d]}
  <2>1. \A i \in DOMAIN posts' : posts'[i].kind # "deliveries"
    BY <1>2, NewestKept
  <2> QED BY <1>2, <2>1 DEF LogFresh
<1> QED BY <1>1, <1>2 DEF DeskInv, LogFresh

LEMMA PreviewKept ==
  ASSUME DeskInv, posts' = posts \/ \E c : c.kind # "preview" /\ posts' = Append(posts, c),
         editor' = editor \/ editor' = None \/ editor'.timer
  PROVE  PreviewFresh'
<1> SUFFICES ASSUME editor' = editor, editor # None, ~editor.timer PROVE PreviewFresh'
  BY DEF PreviewFresh
<1>1. CASE \E i : Newest(posts, "preview", i) /\ posts[i].mine /\ posts[i].with = Notify!Config(editor)
  <2>1. PICK i : Newest(posts, "preview", i) /\ posts[i].mine /\ posts[i].with = Notify!Config(editor)
    BY <1>1
  <2>2. Newest(posts', "preview", i) /\ posts'[i] = posts[i]
    BY <2>1, NewestKept
  <2>3. Notify!Config(editor') = Notify!Config(editor)
    OBVIOUS
  <2> QED BY <2>1, <2>2, <2>3 DEF PreviewFresh
<1>2. CASE /\ \A i \in DOMAIN posts : posts[i].kind # "preview"
           /\ editor.preview = Notify!Config(editor)
  <2>1. \A i \in DOMAIN posts' : posts'[i].kind # "preview"
    BY <1>2, NewestKept
  <2> QED BY <1>2, <2>1 DEF PreviewFresh
<1> QED BY <1>1, <1>2 DEF DeskInv, PreviewFresh

\* A gesture that changes the form, its row, or makes a call of another kind.
LEMMA DeskGesture ==
  ASSUME DeskInv, UNCHANGED <<desk, kept>>, PageShape',
         editor' = editor \/ editor' = None \/ editor'.timer,
         screen'.routes = screen.routes, screen'.log = screen.log, screen'.filter = screen.filter,
         DOMAIN screen'.rows = DOMAIN screen.rows,
         posts' = posts \/ \E c : CallFine(c) /\ c.kind \notin {"deliveries", "preview"} /\ posts' = Append(posts, c)
  PROVE  DeskInv'
<1>1. posts' = posts \/ \E c : c.kind \notin {"deliveries", "preview"} /\ posts' = Append(posts, c)
  OBVIOUS
<1>2. posts' = posts \/ \E c : c.kind # "deliveries" /\ posts' = Append(posts, c)
  BY <1>1
<1>3. posts' = posts \/ \E c : c.kind # "preview" /\ posts' = Append(posts, c)
  BY <1>1
<1>4. LogFresh' /\ PreviewFresh'
  BY <1>2, <1>3, LogKept, PreviewKept
<1> QED BY <1>4, PageStep

LEMMA ShapeNow == ASSUME DeskInv PROVE PageShape
BY DEF DeskInv, DeskShape, PageShape, ScreenFields

\* A form that is filled in: it has its fields, one of them new, and the timer runs.
LEMMA FormIs ==
  ASSUME Has(FormFields, editor), editor.place \in Places, NEW f \in {"named", "place", "raw", "secret", "body"},
         NEW v,
         f = "place" => v \in Places,
         editor' = [editor EXCEPT ![f] = v, !.timer = @ \/ TRUE, !.text = IF f = "raw" THEN v ELSE @]
  PROVE  Has(FormFields, editor') /\ editor'.place \in Places /\ editor'.timer
<1>1. DOMAIN editor = FormFields
  BY HasDomain
<1>2. PICK t : editor' = [k \in FormFields |-> IF k = "text" THEN t ELSE IF k = "timer" THEN TRUE
                                               ELSE IF k = f THEN v ELSE editor[k]]
  <2> DEFINE t == IF f = "raw" THEN v ELSE editor.text
  <2>1. editor' = [k \in FormFields |-> IF k = "text" THEN t ELSE IF k = "timer" THEN TRUE
                                        ELSE IF k = f THEN v ELSE editor[k]]
    BY <1>1
  <2> QED BY <2>1
<1>3. {"place", "timer", "text"} \subseteq FormFields
  BY DEF FormFields
<1>4. Has(FormFields, editor')
  BY <1>2 DEF Has
<1>5. editor'["place"] = (IF f = "place" THEN v ELSE editor["place"]) /\ editor'["timer"] = TRUE
  BY <1>2, <1>3
<1> QED BY <1>4, <1>5

ScreenShape(s) ==
  /\ Has(ScreenFields, s) /\ Has(DOMAIN s.rows, s.rows)
  /\ \A id \in DOMAIN s.rows : Has(RowFields, s.rows[id]) /\ s.rows[id].place \in Places

RowChanged(s, u, id, f, v) == u = [s EXCEPT !.rows[id][f] = v]

\* A row of the list that is changed, and what is left alone.
LEMMA RowIs ==
  ASSUME NEW s, ScreenShape(s), NEW id \in DOMAIN s.rows, NEW f \in {"place", "raw", "to"}, NEW v,
         f = "place" => v \in Places,
         NEW u, RowChanged(s, u, id, f, v)
  PROVE  /\ ScreenShape(u) /\ DOMAIN u.rows = DOMAIN s.rows
         /\ u.routes = s.routes /\ u.log = s.log /\ u.filter = s.filter
<1> DEFINE t == [k \in RowFields |-> IF k = f THEN v ELSE s.rows[id][k]]
           m == [x \in DOMAIN s.rows |-> IF x = id THEN t ELSE s.rows[x]]
<1>1. DOMAIN s = ScreenFields /\ DOMAIN s.rows[id] = RowFields
  BY HasDomain DEF ScreenShape
<1>2. [s.rows[id] EXCEPT ![f] = v] = t
  BY <1>1 DEF RowFields
<1>3. u = [s EXCEPT !.rows = [s.rows EXCEPT ![id] = [s.rows[id] EXCEPT ![f] = v]]]
  BY DEF RowChanged
<1>4. [s.rows EXCEPT ![id] = t] = m
  BY DEF ScreenShape
<1>5. {"rows", "routes", "log", "filter"} \subseteq ScreenFields
  BY DEF ScreenFields
<1>6. Has(RowFields, t)
  BY DEF Has
<1>7. t["place"] = IF f = "place" THEN v ELSE s.rows[id]["place"]
  BY DEF RowFields
<1>8. t.place \in Places
  BY <1>7 DEF ScreenShape
<1> HIDE DEF t
<1>9. DOMAIN m = DOMAIN s.rows /\ Has(DOMAIN m, m) /\ \A x \in DOMAIN m : Has(RowFields, m[x]) /\ m[x].place \in Places
  <2>1. Has(DOMAIN m, m)
    BY DEF Has
  <2> QED BY <1>6, <1>8, <2>1 DEF ScreenShape
<1>10. u = [s EXCEPT !.rows = m]
  BY <1>2, <1>3, <1>4
<1> HIDE DEF m
<1>11. u = [k \in ScreenFields |-> IF k = "rows" THEN m ELSE s[k]]
  BY <1>1, <1>10
<1>12. Has(ScreenFields, u)
  BY <1>11 DEF Has
<1>13. u["rows"] = m /\ u["routes"] = s["routes"] /\ u["log"] = s["log"] /\ u["filter"] = s["filter"]
  BY <1>5, <1>11
<1> QED BY <1>9, <1>12, <1>13 DEF ScreenShape

\* A field of the form that is filled in, with the row it shares.
LEMMA TypeStep ==
  ASSUME DeskInv, NEW f \in {"named", "place", "raw", "secret", "body"}, NEW v, f = "place" => v \in Places,
         Notify!Type(f, v)
  PROVE  DeskInv'
<1> USE DEF Notify!Type, Notify!refreshPreview
<1>1. PageShape
  BY ShapeNow
<1>2. Has(FormFields, editor') /\ editor'.place \in Places /\ editor'.timer
  <2>1. Has(FormFields, editor) /\ editor.place \in Places
    BY <1>1 DEF PageShape
  <2>2. editor' = [editor EXCEPT ![f] = v, !.timer = @ \/ TRUE, !.text = IF f = "raw" THEN v ELSE @]
    OBVIOUS
  <2> QED BY <2>1, <2>2, FormIs
<1>3. /\ ScreenShape(screen') /\ DOMAIN screen'.rows = DOMAIN screen.rows
      /\ screen'.routes = screen.routes /\ screen'.log = screen.log /\ screen'.filter = screen.filter
  <2>1. ScreenShape(screen)
    BY <1>1 DEF PageShape, ScreenShape
  <2>2. CASE screen' = screen
    BY <2>1, <2>2
  <2>3. CASE /\ f \in {"place", "raw"} /\ editor.id \in DOMAIN screen.rows
             /\ screen' = [screen EXCEPT !.rows[editor.id][f] = v]
    <3>1. RowChanged(screen, screen', editor.id, f, v)
      BY <2>3 DEF RowChanged
    <3>2. editor.id \in DOMAIN screen.rows /\ f \in {"place", "raw", "to"} /\ (f = "place" => v \in Places)
      BY <2>3
    <3> HIDE DEF Notify!Type
    <3> QED BY ONLY <2>1, <3>1, <3>2, RowIs
  <2> QED BY <2>2, <2>3
<1>4. PageShape'
  BY <1>1, <1>2, <1>3 DEF PageShape, ScreenShape
<1> QED BY <1>2, <1>3, <1>4, DeskGesture

LEMMA FieldsStep == ASSUME DeskInv, Notify!Fields PROVE DeskInv'
<1>1. CASE Notify!name
  BY <1>1, TypeStep DEF Notify!name
<1>2. CASE Notify!place
  BY <1>2, TypeStep DEF Notify!place
<1>3. CASE Notify!recipients
  BY <1>3, TypeStep DEF Notify!recipients
<1>4. CASE Notify!credential
  BY <1>4, TypeStep DEF Notify!credential
<1>5. CASE Notify!template
  BY <1>5, TypeStep DEF Notify!template
<1> QED BY <1>1, <1>2, <1>3, <1>4, <1>5 DEF Notify!Fields

\* A step that leaves the page as it is, or makes a call of another kind.
LEMMA AskStep ==
  ASSUME DeskInv, NEW kind, kind \notin {"deliveries", "preview", "save", "saveRoute"}, NEW id, NEW with,
         UNCHANGED <<desk, kept, editor, rule>>, Notify!Call(Notify!Ask(kind, id, with)),
         \/ screen' = screen
         \/ \E v : screen' = [screen EXCEPT !.testing = v]
  PROVE  DeskInv'
<1>1. PageShape
  BY ShapeNow
<1> DEFINE c == Notify!Ask(kind, id, with)
<1>2. CallFine(c) /\ c.kind = kind
  <2>1. Has(CallFields, c) /\ c.kind = kind /\ ~c.lost
    BY AskIs
  <2> HIDE DEF c
  <2> QED BY <2>1 DEF CallFine
<1>3. posts' = Append(posts, c)
  BY DEF Notify!Call
<1> HIDE DEF c
<1>4. /\ Has(ScreenFields, screen') /\ screen'.rows = screen.rows
      /\ screen'.routes = screen.routes /\ screen'.log = screen.log /\ screen'.filter = screen.filter
  <2>1. CASE screen' = screen
    BY <1>1, <2>1 DEF PageShape
  <2>2. CASE \E v : screen' = [screen EXCEPT !.testing = v]
    <3>1. PICK v : screen' = [screen EXCEPT !.testing = v]
      BY <2>2
    <3>2. DOMAIN screen = ScreenFields
      BY <1>1, HasDomain DEF PageShape
    <3>3. screen' = [k \in ScreenFields |-> IF k = "testing" THEN v ELSE screen[k]]
      BY <3>1, <3>2
    <3>4. Has(ScreenFields, screen')
      BY <3>3 DEF Has
    <3>5. {"rows", "routes", "log", "filter"} \subseteq ScreenFields
      BY DEF ScreenFields
    <3> QED BY <3>3, <3>4, <3>5
  <2> QED BY <2>1, <2>2
<1>5. PageShape'
  BY <1>1, <1>4 DEF PageShape
<1>6. posts' = posts \/ \E x : CallFine(x) /\ x.kind \notin {"deliveries", "preview"} /\ posts' = Append(posts, x)
  BY <1>2, <1>3
<1>7. DOMAIN screen'.rows = DOMAIN screen.rows
  BY <1>4
<1> QED BY <1>4, <1>5, <1>6, <1>7, DeskGesture

\* A call that is not a list, a preview or a save is only what it asks.
LEMMA NewForm ==
  ASSUME DeskAssumption
  PROVE  Has(FormFields, Notify!newSink) /\ Notify!newSink.place \in Places /\ Notify!newSink.timer
<1>1. (CHOOSE p \in Places : TRUE) \in Places
  BY DEF DeskAssumption
<1> QED BY <1>1 DEF Notify!newSink, Has, FormFields

\* The form of another destination.
LEMMA FormStep ==
  ASSUME DeskInv, UNCHANGED <<desk, kept, screen, rule, posts>>,
         Has(FormFields, editor'), editor'.place \in Places, editor'.timer
  PROVE  DeskInv'
<1>1. PageShape
  BY ShapeNow
<1>2. PageShape'
  BY <1>1 DEF PageShape
<1> QED BY <1>2, DeskGesture

LEMMA AddStep == ASSUME DeskAssumption, DeskInv, Notify!add PROVE DeskInv'
<1>1. Has(FormFields, editor') /\ editor'.place \in Places /\ editor'.timer
  BY NewForm DEF Notify!add
<1> QED BY <1>1, FormStep DEF Notify!add

LEMMA EditStep == ASSUME DeskAssumption, DeskInv, Notify!edit PROVE DeskInv'
<1>1. PageShape
  BY ShapeNow
<1>2. PICK id \in DOMAIN screen.rows :
        editor' = [Notify!newSink EXCEPT !.id = id, !.place = screen.rows[id].place, !.to = screen.rows[id].to,
                     !.body = screen.rows[id].body, !.raw = screen.rows[id].raw, !.text = screen.rows[id].to,
                     !.had = screen.rows[id].had, !.shares = TRUE, !.named = TRUE]
  BY DEF Notify!edit
<1>3. screen.rows[id].place \in Places
  BY <1>1 DEF PageShape
<1>4. Has(FormFields, editor') /\ editor'.place = screen.rows[id].place /\ editor'.timer
  <2> DEFINE n == Notify!newSink
             t == [k \in FormFields |->
                     CASE k = "id" -> id [] k \in {"place", "body", "raw", "had"} -> screen.rows[id][k]
                       [] k \in {"to", "text"} -> screen.rows[id]["to"] [] k \in {"shares", "named"} -> TRUE
                       [] OTHER -> n[k]]
  <2>1. DOMAIN n = FormFields /\ n.timer
    BY DEF Notify!newSink, FormFields
  <2> HIDE DEF n
  <2>2. editor' = t
    BY <1>2, <2>1 DEF FormFields, n
  <2>3. Has(FormFields, t)
    BY DEF Has
  <2>4. {"place", "timer"} \subseteq FormFields
    BY DEF FormFields
  <2>5. t["place"] = screen.rows[id]["place"] /\ t["timer"] = n["timer"]
    BY <2>4
  <2> QED BY <2>1, <2>2, <2>3, <2>5
<1>5. UNCHANGED <<desk, kept, screen, rule, posts>>
  BY DEF Notify!edit
<1> QED BY <1>3, <1>4, <1>5, FormStep

\* A step of the page that touches neither the form nor what is listed.
LEMMA RuleStep ==
  ASSUME DeskInv, UNCHANGED <<desk, screen, editor, posts, kept>>, Has(RuleForm, rule')
  PROVE  DeskInv'
<1>1. PageShape
  BY ShapeNow
<1>2. PageShape'
  BY <1>1 DEF PageShape
<1> QED BY <1>2, DeskGesture

\* The recipients typed as one line become the list that is saved.
LEMMA TakenApartIs ==
  ASSUME Has(FormFields, editor), editor.place \in Places, NEW s, s = Notify!TakenApart(editor)
  PROVE  Has(FormFields, s) /\ s.place \in Places /\ (s = editor \/ s.timer)
<1>1. CASE s = editor
  BY <1>1
<1>2. CASE s = [editor EXCEPT !.to = editor.raw, !.raw = None, !.timer = TRUE]
  <2>1. DOMAIN editor = FormFields
    BY HasDomain
  <2>2. s = [k \in FormFields |-> IF k = "to" THEN editor.raw ELSE IF k = "raw" THEN None ELSE IF k = "timer" THEN TRUE
                                  ELSE editor[k]]
    BY <1>2, <2>1
  <2>3. Has(FormFields, s)
    BY <2>2 DEF Has
  <2>4. {"place", "timer"} \subseteq FormFields
    BY DEF FormFields
  <2>5. s["place"] = editor["place"] /\ s["timer"] = TRUE
    BY <2>2, <2>4
  <2> QED BY <2>3, <2>5
<1> QED BY <1>1, <1>2 DEF Notify!TakenApart

LEMMA SaveSinkStep == ASSUME DeskInv, Notify!saveSink PROVE DeskInv'
<1> DEFINE s == Notify!TakenApart(editor)
           c == Notify!Ask("save", s.id, s)
<1>1. PageShape
  BY ShapeNow
<1>2. /\ editor # None /\ posts' = Append(posts, c) /\ editor' = s
      /\ screen' = IF s.shares /\ s.id \in DOMAIN screen.rows
                   THEN [screen EXCEPT !.rows[s.id].to = s.to, !.rows[s.id].raw = None] ELSE screen
      /\ UNCHANGED <<desk, kept, rule>>
  BY DEF Notify!saveSink, Notify!Call
<1>3. Has(FormFields, s) /\ s.place \in Places /\ (s = editor \/ s.timer)
  BY <1>1, <1>2, TakenApartIs DEF PageShape
<1> HIDE DEF s
<1>4. Has(CallFields, c) /\ c.kind = "save" /\ c.with = s /\ ~c.lost
  BY AskIs
<1> HIDE DEF c
<1>5. CallFine(c)
  BY <1>3, <1>4 DEF CallFine
<1>6. ScreenShape(screen)
  BY <1>1 DEF PageShape, ScreenShape
<1>7. /\ ScreenShape(screen') /\ DOMAIN screen'.rows = DOMAIN screen.rows
      /\ screen'.routes = screen.routes /\ screen'.log = screen.log /\ screen'.filter = screen.filter
  <2>1. CASE screen' = screen
    BY <1>6, <2>1
  <2>2. CASE s.id \in DOMAIN screen.rows /\ screen' = [screen EXCEPT !.rows[s.id].to = s.to, !.rows[s.id].raw = None]
    <3> DEFINE m == [screen EXCEPT !.rows[s.id]["to"] = s.to]
    <3>1. RowChanged(screen, m, s.id, "to", s.to)
      BY DEF RowChanged
    <3>2. RowChanged(m, screen', s.id, "raw", None)
      BY <2>2 DEF RowChanged
    <3> HIDE DEF m
    <3>3. /\ ScreenShape(m) /\ DOMAIN m.rows = DOMAIN screen.rows
          /\ m.routes = screen.routes /\ m.log = screen.log /\ m.filter = screen.filter
      BY ONLY <1>6, <2>2, <3>1, RowIs
    <3>4. s.id \in DOMAIN m.rows
      BY <2>2, <3>3
    <3>5. /\ ScreenShape(screen') /\ DOMAIN screen'.rows = DOMAIN m.rows
          /\ screen'.routes = m.routes /\ screen'.log = m.log /\ screen'.filter = m.filter
      BY ONLY <3>2, <3>3, <3>4, RowIs
    <3> QED BY <3>3, <3>5
  <2> QED BY <1>2, <2>1, <2>2
<1>8. PageShape'
  BY <1>1, <1>2, <1>3, <1>7 DEF PageShape, ScreenShape
<1>9. posts' = posts \/ \E x : CallFine(x) /\ x.kind \notin {"deliveries", "preview"} /\ posts' = Append(posts, x)
  BY <1>2, <1>4, <1>5
<1>10. editor' = editor \/ editor' = None \/ editor'.timer
  BY <1>2, <1>3
<1> QED BY <1>2, <1>7, <1>8, <1>9, <1>10, DeskGesture

\* A rule that is filled in has its fields, one of them new.
LEMMA RuleIs ==
  ASSUME Has(RuleForm, rule)
  PROVE  /\ \A p : Has(RuleForm, [rule EXCEPT !.priority = p]) /\ [rule EXCEPT !.priority = p].priority = p
         /\ \A s : Has(RuleForm, [rule EXCEPT !.sinks = s])
<1>1. DOMAIN rule = RuleForm /\ {"priority", "sinks"} \subseteq RuleForm
  BY HasDomain DEF RuleForm
<1>2. ASSUME NEW p PROVE Has(RuleForm, [rule EXCEPT !.priority = p]) /\ [rule EXCEPT !.priority = p].priority = p
  <2> DEFINE t == [rule EXCEPT !.priority = p]
  <2>1. t = [k \in RuleForm |-> IF k = "priority" THEN p ELSE rule[k]]
    BY <1>1
  <2> HIDE DEF t
  <2>2. Has(RuleForm, t) /\ t["priority"] = p
    BY <1>1, <2>1 DEF Has
  <2> QED BY <2>2 DEF t
<1>3. ASSUME NEW s PROVE Has(RuleForm, [rule EXCEPT !.sinks = s])
  <2> DEFINE t == [rule EXCEPT !.sinks = s]
  <2>1. t = [k \in RuleForm |-> IF k = "sinks" THEN s ELSE rule[k]]
    BY <1>1
  <2> HIDE DEF t
  <2>2. Has(RuleForm, t)
    BY <2>1 DEF Has
  <2> QED BY <2>2 DEF t
<1> QED BY <1>2, <1>3

LEMMA SaveRouteStep == ASSUME DeskInv, Notify!saveRoute PROVE DeskInv'
<1> DEFINE v == [rule EXCEPT !.priority = Notify!PriorityOf(@)]
           w == [priority |-> v.priority, sinks |-> v.sinks, typed |-> rule.priority]
           c == Notify!Ask("saveRoute", rule.id, w)
<1>1. posts' = Append(posts, c) /\ UNCHANGED <<desk, screen, editor, kept>> /\ rule' = v /\ rule # None
  BY DEF Notify!saveRoute, Notify!Call
<1>2. w.typed = rule.priority /\ w.priority = v.priority
  OBVIOUS
<1>3. Has(RuleForm, v) /\ v.priority = Notify!PriorityOf(rule.priority)
  BY <1>1, ShapeNow, RuleIs DEF PageShape
<1>4. Has(CallFields, c) /\ c.kind = "saveRoute" /\ c.with = w /\ ~c.lost
  BY AskIs
<1> HIDE DEF c, w, v
<1>5. CallFine(c)
  BY <1>2, <1>3, <1>4 DEF CallFine
<1>6. PageShape'
  BY <1>1, <1>3, ShapeNow DEF PageShape
<1>7. posts' = posts \/ \E x : CallFine(x) /\ x.kind \notin {"deliveries", "preview"} /\ posts' = Append(posts, x)
  BY <1>1, <1>4, <1>5
<1> QED BY <1>1, <1>6, <1>7, DeskGesture

\* The gestures that only ask, and those of the rule.
LEMMA AskingStep ==
  ASSUME DeskInv, \/ Notify!useDefaultPayload \/ Notify!clearSecret \/ Notify!testSink \/ Notify!removeSink
                  \/ Notify!addRoute \/ Notify!editRoute \/ Notify!fillRoute \/ Notify!removeRoute \/ Notify!retryDelivery
  PROVE  DeskInv'
<1>1. CASE Notify!useDefaultPayload
  BY <1>1, AskStep DEF Notify!useDefaultPayload
<1>2. CASE Notify!clearSecret
  BY <1>2, AskStep DEF Notify!clearSecret
<1>3. CASE Notify!testSink
  <2>1. PICK id, s : Notify!Test(id, s)
    BY <1>3 DEF Notify!testSink
  <2> QED BY <2>1, AskStep DEF Notify!Test
<1>4. CASE Notify!removeSink
  BY <1>4, AskStep DEF Notify!removeSink
<1>5. CASE Notify!addRoute
  <2>1. Has(RuleForm, rule')
    BY <1>5 DEF Notify!addRoute, Notify!newRoute, Has, RuleForm
  <2> QED BY <1>5, <2>1, RuleStep DEF Notify!addRoute
<1>6. CASE Notify!editRoute
  <2>1. Has(RuleForm, rule')
    BY <1>6 DEF Notify!editRoute, Has, RuleForm
  <2> QED BY <1>6, <2>1, RuleStep DEF Notify!editRoute
<1>7. CASE Notify!fillRoute
  <2>1. Has(RuleForm, rule) /\ \E x : rule' \in {[rule EXCEPT !.priority = x], [rule EXCEPT !.sinks = x]}
    BY <1>7, ShapeNow DEF PageShape, Notify!fillRoute
  <2>2. Has(RuleForm, rule')
    BY <2>1, RuleIs
  <2> QED BY <1>7, <2>2, RuleStep DEF Notify!fillRoute
<1>8. CASE Notify!removeRoute
  BY <1>8, AskStep DEF Notify!removeRoute
<1>9. CASE Notify!retryDelivery
  BY <1>9, AskStep DEF Notify!retryDelivery
<1> QED BY <1>1, <1>2, <1>3, <1>4, <1>5, <1>6, <1>7, <1>8, <1>9

LEMMA AlikeFine == ASSUME NEW a, NEW b, Alike(a, b), CallFine(b) PROVE CallFine(a)
BY DEF Alike, CallFine

LEMMA CloseEditorStep == ASSUME DeskInv, Notify!closeEditor PROVE DeskInv'
<1>1. /\ editor' = None /\ posts' = Notify!Orphaned(posts) /\ UNCHANGED <<desk, screen, kept>>
      /\ rule' = None \/ rule' = rule
  BY DEF Notify!closeEditor
<1>2. PICK S : posts \in Seq(S)
  BY DEF DeskInv, DeskShape
<1>3. \A i \in DOMAIN posts : CallFine(posts[i])
  BY DEF DeskInv
<1>4. (\E T : posts' \in Seq(T)) /\ DOMAIN posts' = DOMAIN posts /\ \A i \in DOMAIN posts : Alike(posts'[i], posts[i])
  BY <1>1, <1>2, <1>3, OrphansAre DEF CallFine
<1>5. \A i \in DOMAIN posts' : CallFine(posts'[i])
  BY <1>3, <1>4, AlikeFine
<1>6. DeskShape'
  BY <1>1, <1>4 DEF DeskInv, DeskShape
<1>7. Bound' /\ ~kept'.strayed /\ Notify!UnboundIsSaid' /\ Notify!PriorityAsTyped'
  BY <1>1 DEF DeskInv, Bound, Notify!UnboundIsSaid, Notify!PriorityAsTyped
<1>8. \A i \in DOMAIN posts :
        /\ posts'[i].kind = posts[i].kind /\ posts'[i].served = posts[i].served /\ posts'[i].ok = posts[i].ok
        /\ posts'[i].with = posts[i].with
  BY <1>4 DEF Alike
<1>9. RowsFresh' /\ RoutesFresh'
  BY <1>1, <1>4, <1>8 DEF DeskInv, RowsFresh, RoutesFresh
<1>10. LogFresh'
  <2>1. CASE \E i : Newest(posts, "deliveries", i) /\ posts[i].with = screen.filter
    <3>1. PICK i : Newest(posts, "deliveries", i) /\ posts[i].with = screen.filter
      BY <2>1
    <3>2. Newest(posts', "deliveries", i) /\ posts'[i].with = screen'.filter
      BY <1>1, <1>4, <1>8, <3>1 DEF Newest
    <3> QED BY <3>2 DEF LogFresh
  <2>2. CASE /\ \A i \in DOMAIN posts : posts[i].kind # "deliveries"
             /\ \A d \in DOMAIN screen.log : screen.filter \in {"", screen.log[d]}
    BY <1>1, <1>4, <1>8, <2>2 DEF LogFresh
  <2> QED BY <2>1, <2>2 DEF DeskInv, LogFresh
<1>11. PreviewFresh'
  BY <1>1 DEF PreviewFresh
<1> QED BY <1>5, <1>6, <1>7, <1>9, <1>10, <1>11 DEF DeskInv

LEMMA PreviewDueStep == ASSUME DeskInv, Notify!previewDue PROVE DeskInv'
<1> DEFINE c == Notify!Ask("preview", None, Notify!Config(editor))
<1>1. /\ editor # None /\ posts' = Append(posts, c) /\ editor' = [editor EXCEPT !.timer = FALSE]
      /\ UNCHANGED <<desk, screen, rule, kept>>
  BY DEF Notify!previewDue, Notify!Call
<1>2. Has(CallFields, c) /\ c.kind = "preview" /\ c.with = Notify!Config(editor) /\ c.mine /\ ~c.lost
  BY AskIs
<1> HIDE DEF c
<1>3. CallFine(c)
  BY <1>2 DEF CallFine
<1>4. PageShape
  BY ShapeNow
<1>5. Has(FormFields, editor') /\ editor'.place = editor.place /\ Notify!Config(editor') = Notify!Config(editor)
  <2>1. DOMAIN editor = FormFields
    BY <1>1, <1>4, HasDomain DEF PageShape
  <2>2. editor' = [k \in FormFields |-> IF k = "timer" THEN FALSE ELSE editor[k]]
    BY <1>1, <2>1
  <2>3. Has(FormFields, editor')
    BY <2>2 DEF Has
  <2>4. {"place", "to", "body"} \subseteq FormFields
    BY DEF FormFields
  <2>5. editor'["place"] = editor["place"] /\ editor'["to"] = editor["to"] /\ editor'["body"] = editor["body"]
    BY <2>2, <2>4
  <2> QED BY <2>3, <2>5 DEF Notify!Config
<1>6. PageShape'
  BY <1>1, <1>4, <1>5 DEF PageShape
<1>7. PICK S : posts \in Seq(S)
  BY DEF DeskInv, DeskShape
<1>8. \E i : Newest(posts', "preview", i) /\ posts'[i] = c
  <2>1. PICK n : n \in DOMAIN posts' /\ posts'[n] = c /\ \A i \in DOMAIN posts' : i <= n /\ i \in Nat
    BY <1>1, <1>7, CallAsked
  <2>2. n \in Nat
    BY <2>1
  <2> QED BY <1>2, <2>1, <2>2 DEF Newest
<1>9. PreviewFresh'
  BY <1>2, <1>5, <1>8 DEF PreviewFresh
<1>10. LogFresh'
  <2>1. posts' = posts \/ \E x : x.kind # "deliveries" /\ posts' = Append(posts, x)
    BY <1>1, <1>2
  <2> QED BY <1>1, <2>1, LogKept
<1>11. posts' = posts \/ \E x : CallFine(x) /\ posts' = Append(posts, x)
  BY <1>1, <1>3
<1> QED BY <1>1, <1>6, <1>9, <1>10, <1>11, PageStep

LEMMA LoadDeliveriesStep == ASSUME DeskInv, Notify!loadDeliveries PROVE DeskInv'
<1>1. PICK f : posts' = Append(posts, Notify!Ask("deliveries", None, f)) /\ screen' = [screen EXCEPT !.filter = f]
  BY DEF Notify!loadDeliveries, Notify!Call
<1>2. editor = None /\ UNCHANGED <<desk, editor, rule, kept>>
  BY DEF Notify!loadDeliveries, Notify!NoEditor
<1> DEFINE c == Notify!Ask("deliveries", None, f)
<1>3. Has(CallFields, c) /\ c.kind = "deliveries" /\ c.with = f /\ ~c.lost
  BY AskIs
<1>4. posts' = Append(posts, c)
  BY <1>1
<1> HIDE DEF c
<1>5. CallFine(c)
  BY <1>3 DEF CallFine
<1>6. PageShape
  BY ShapeNow
<1>7. /\ Has(ScreenFields, screen') /\ screen'.rows = screen.rows /\ screen'.routes = screen.routes
      /\ screen'.log = screen.log /\ screen'.filter = f
  <2>1. DOMAIN screen = ScreenFields
    BY <1>6, HasDomain DEF PageShape
  <2>2. screen' = [k \in ScreenFields |-> IF k = "filter" THEN f ELSE screen[k]]
    BY <1>1, <2>1
  <2>3. Has(ScreenFields, screen')
    BY <2>2 DEF Has
  <2>4. {"rows", "routes", "log", "filter"} \subseteq ScreenFields
    BY DEF ScreenFields
  <2> QED BY <2>2, <2>3, <2>4
<1>8. PageShape'
  BY <1>2, <1>6, <1>7 DEF PageShape
<1>9. PICK S : posts \in Seq(S)
  BY DEF DeskInv, DeskShape
<1>10. \E i : Newest(posts', "deliveries", i) /\ posts'[i] = c
  <2>1. PICK n : n \in DOMAIN posts' /\ posts'[n] = c /\ \A i \in DOMAIN posts' : i <= n /\ i \in Nat
    BY <1>4, <1>9, CallAsked
  <2>2. n \in Nat
    BY <2>1
  <2> QED BY <1>3, <2>1, <2>2 DEF Newest
<1>11. LogFresh'
  BY <1>3, <1>7, <1>10 DEF LogFresh
<1>12. PreviewFresh'
  BY <1>2 DEF PreviewFresh
<1>13. posts' = posts \/ \E x : CallFine(x) /\ posts' = Append(posts, x)
  BY <1>4, <1>5
<1>14. screen'.routes = screen.routes /\ DOMAIN screen'.rows = DOMAIN screen.rows
  BY <1>7
<1> QED BY <1>2, <1>8, <1>11, <1>12, <1>13, <1>14, PageStep

-----------------------------------------------------------------------------
(* What Go does. *)

DeskFields == {"sinks", "secret", "routes", "box"}

\* What is stored, in its shape: a credential is for where its destination
\* points, and a rule has the priority typed.
GoFine(g) ==
  /\ Has(DeskFields, g)
  /\ \A id \in DOMAIN g.sinks : Has({"place", "to", "body"}, g.sinks[id]) /\ g.sinks[id].place \in Places
  /\ \A r \in DOMAIN g.routes : /\ Has(RuleFields, g.routes[r])
                                /\ g.routes[r].priority = Notify!PriorityOf(g.routes[r].typed)
  /\ \A id \in DOMAIN g.secret : g.secret[id] # None => id \in DOMAIN g.sinks /\ g.secret[id] = g.sinks[id].place

LEMMA GoFineNow == ASSUME DeskInv PROVE GoFine(desk)
BY DEF DeskInv, DeskShape, Bound, Notify!PriorityAsTyped, Notify!PriorityOf, GoFine, DeskFields

\* Three of the parts of what is stored, and what they must be.
LEMMA GoIs ==
  ASSUME NEW g, Has(DeskFields, g), NEW sinks, NEW creds, NEW routes,
         g.sinks = sinks, g.secret = creds, g.routes = routes,
         \A id \in DOMAIN sinks : Has({"place", "to", "body"}, sinks[id]) /\ sinks[id].place \in Places,
         \A r \in DOMAIN routes : Has(RuleFields, routes[r]) /\ routes[r].priority = Notify!PriorityOf(routes[r].typed),
         \A id \in DOMAIN creds : creds[id] # None => id \in DOMAIN sinks /\ creds[id] = sinks[id].place
  PROVE  GoFine(g)
BY DEF GoFine

\* What is stored, with these parts.
DeskOf(sinks, creds, routes, box) ==
  [k \in DeskFields |-> CASE k = "sinks" -> sinks [] k = "secret" -> creds [] k = "routes" -> routes [] OTHER -> box]

LEMMA DeskIs ==
  ASSUME NEW sinks, NEW creds, NEW routes, NEW box
  PROVE  LET g == DeskOf(sinks, creds, routes, box)
         IN Has(DeskFields, g) /\ g.sinks = sinks /\ g.secret = creds /\ g.routes = routes
<1> DEFINE g == DeskOf(sinks, creds, routes, box)
<1>1. Has(DeskFields, g)
  BY DEF Has, DeskOf
<1>2. {"sinks", "secret", "routes", "box"} \subseteq DeskFields
  BY DEF DeskFields
<1>3. g["sinks"] = sinks /\ g["secret"] = creds /\ g["routes"] = routes
  BY <1>2 DEF DeskOf
<1> QED BY <1>1, <1>3

LEMMA DeskDomain == ASSUME DeskInv PROVE DOMAIN desk = DeskFields
BY GoFineNow, HasDomain DEF GoFine

LEMMA SaveSinkGo ==
  ASSUME DeskAssumption, DeskInv, NEW c, CallFine(c), c.kind = "save",
         ~(c.id = None /\ Notify!Spare(Sinks, desk.sinks) = None)
  PROVE  LET r == Notify!NotifySaveSink(c, TRUE)
         IN /\ GoFine(r.go) /\ r.go.routes = desk.routes /\ r.ok /\ (r.lost => ~r.had /\ ~c.with.secret)
<1> DEFINE id == IF c.id = None THEN Notify!Spare(Sinks, desk.sinks) ELSE c.id
           held == IF id \in DOMAIN desk.secret THEN desk.secret[id] ELSE None
           then == IF c.with.secret THEN c.with.place ELSE IF Notify!rebound(c) THEN None ELSE held
           sinks == Notify!Put(desk.sinks, id, Notify!Config(c.with))
           creds == Notify!Put(desk.secret, id, then)
           r == Notify!NotifySaveSink(c, TRUE)
<1>1. GoFine(desk) /\ DOMAIN desk = DeskFields
  BY GoFineNow, DeskDomain
<1>2. c.with.place \in Places /\ c.with.place # None
  BY DEF CallFine, DeskAssumption
<1>3. held # None => id \in DOMAIN desk.sinks /\ held = desk.sinks[id].place
  BY <1>1 DEF GoFine
<1>4. c.id = None => id \notin DOMAIN desk.sinks
  BY DEF Notify!Spare
<1>5. \A x \in DOMAIN desk.sinks : desk.sinks[x] # None
  <2> SUFFICES ASSUME NEW x \in DOMAIN desk.sinks PROVE desk.sinks[x] # None
    OBVIOUS
  <2> DEFINE s == desk.sinks[x]
  <2>1. s = [k \in {"place", "to", "body"} |-> s[k]]
    BY <1>1 DEF GoFine, Has
  <2>2. s = [place |-> s.place, to |-> s.to, body |-> s.body]
    BY <2>1
  <2> QED BY <2>2 DEF DeskAssumption
<1>6. then # None => then = c.with.place
  <2>1. CASE c.with.secret
    BY <2>1
  <2>2. CASE ~c.with.secret
    <3> SUFFICES ASSUME ~Notify!rebound(c), held # None PROVE held = c.with.place
      BY <2>2
    <3>1. c.id # None /\ id = c.id
      BY <1>3, <1>4
    <3>2. Notify!storedSink(c.id) = desk.sinks[id] /\ desk.sinks[id] # None
      BY <1>3, <1>5, <3>1 DEF Notify!storedSink
    <3>3. desk.sinks[id].place = c.with.place
      BY <3>2 DEF Notify!rebound, Notify!SameDestination
    <3> QED BY <1>3, <3>3
  <2> QED BY <2>1, <2>2
<1>7. /\ r.go = [desk EXCEPT !.sinks = sinks, !.secret = creds] /\ r.ok = TRUE /\ r.had = (then # None)
      /\ r.lost = (held # None /\ then = None)
  BY DEF Notify!NotifySaveSink
<1>8. r.lost => ~r.had /\ ~c.with.secret
  BY <1>2, <1>7
<1> HIDE DEF then, held, id, r
<1>9. /\ DOMAIN sinks = DOMAIN desk.sinks \cup {id} /\ sinks[id] = Notify!Config(c.with)
      /\ \A x \in DOMAIN desk.sinks : x # id => sinks[x] = desk.sinks[x]
  BY DEF Notify!Put
<1>10. /\ DOMAIN creds = DOMAIN desk.secret \cup {id} /\ creds[id] = then
       /\ \A x \in DOMAIN desk.secret : x # id => creds[x] = desk.secret[x]
  BY DEF Notify!Put
<1> HIDE DEF sinks, creds
<1>11. Has({"place", "to", "body"}, Notify!Config(c.with)) /\ Notify!Config(c.with).place = c.with.place
  BY DEF Notify!Config, Has
<1>12. \A x \in DOMAIN sinks : Has({"place", "to", "body"}, sinks[x]) /\ sinks[x].place \in Places
  BY <1>1, <1>2, <1>9, <1>11 DEF GoFine
<1>13. \A x \in DOMAIN creds : creds[x] # None => x \in DOMAIN sinks /\ creds[x] = sinks[x].place
  BY <1>1, <1>6, <1>9, <1>10, <1>11 DEF GoFine
<1> DEFINE g == DeskOf(sinks, creds, desk.routes, desk.box)
<1>14. r.go = g
  BY <1>1, <1>7 DEF DeskFields, DeskOf
<1>15. Has(DeskFields, g) /\ g.sinks = sinks /\ g.secret = creds /\ g.routes = desk.routes
  BY DeskIs
<1> HIDE DEF g
<1>16. \A x \in DOMAIN desk.routes : /\ Has(RuleFields, desk.routes[x])
                                     /\ desk.routes[x].priority = Notify!PriorityOf(desk.routes[x].typed)
  BY <1>1 DEF GoFine
<1>17. GoFine(g)
  BY <1>12, <1>13, <1>15, <1>16, GoIs
<1> QED BY <1>7, <1>8, <1>14, <1>15, <1>17 DEF r

\* A destination that is gone is gone from the rules, with its credential.
LEMMA DeleteGo ==
  ASSUME DeskInv, NEW id
  PROVE  GoFine(Notify!NotifyDeleteSink(id))
<1> DEFINE sinks == Notify!Without(desk.sinks, id)
           creds == Notify!Without(desk.secret, id)
           routes == Notify!unbindSinkFromRoutes(id)
           g == DeskOf(sinks, creds, routes, desk.box)
<1>1. GoFine(desk) /\ DOMAIN desk = DeskFields
  BY GoFineNow, DeskDomain
<1>2. Notify!NotifyDeleteSink(id) = g
  BY <1>1 DEF Notify!NotifyDeleteSink, DeskFields, DeskOf
<1>3. DOMAIN sinks = DOMAIN desk.sinks \ {id} /\ \A x \in DOMAIN sinks : sinks[x] = desk.sinks[x]
  BY DEF Notify!Without
<1>4. DOMAIN creds = DOMAIN desk.secret \ {id} /\ \A x \in DOMAIN creds : creds[x] = desk.secret[x]
  BY DEF Notify!Without
<1>5. \A x \in DOMAIN routes : Has(RuleFields, routes[x]) /\ routes[x].priority = Notify!PriorityOf(routes[x].typed)
  <2> SUFFICES ASSUME NEW x \in DOMAIN routes
               PROVE  Has(RuleFields, routes[x]) /\ routes[x].priority = Notify!PriorityOf(routes[x].typed)
    OBVIOUS
  <2> DEFINE v == desk.routes[x]
  <2>1. x \in DOMAIN desk.routes
    BY DEF Notify!unbindSinkFromRoutes
  <2>2. Has(RuleFields, v) /\ v.priority = Notify!PriorityOf(v.typed)
    BY <1>1, <2>1 DEF GoFine
  <2>3. routes[x] = IF id \notin v.sinks THEN v ELSE [v EXCEPT !.sinks = @ \ {id}, !.on = @ /\ v.sinks # {id}]
    BY <2>1 DEF Notify!unbindSinkFromRoutes
  <2> HIDE DEF v, routes
  <2>4. CASE routes[x] = v
    BY <2>2, <2>4
  <2>5. CASE routes[x] = [v EXCEPT !.sinks = @ \ {id}, !.on = @ /\ v.sinks # {id}]
    <3> DEFINE w == [k \in RuleFields |-> IF k = "sinks" THEN v.sinks \ {id}
                                    ELSE IF k = "on" THEN v.on /\ v.sinks # {id} ELSE v[k]]
    <3>1. DOMAIN v = RuleFields
      BY <2>2, HasDomain
    <3>2. routes[x] = w
      BY <2>5, <3>1
    <3>3. Has(RuleFields, w)
      BY DEF Has
    <3>4. {"priority", "typed"} \subseteq RuleFields
      BY DEF RuleFields
    <3>5. w["priority"] = v["priority"] /\ w["typed"] = v["typed"]
      BY <3>4
    <3> HIDE DEF w
    <3> QED BY <2>2, <3>2, <3>3, <3>5
  <2> QED BY <2>3, <2>4, <2>5
<1> HIDE DEF sinks, creds, routes
<1>6. Has(DeskFields, g) /\ g.sinks = sinks /\ g.secret = creds /\ g.routes = routes
  BY DeskIs
<1> HIDE DEF g
<1>7. \A x \in DOMAIN sinks : Has({"place", "to", "body"}, sinks[x]) /\ sinks[x].place \in Places
  BY <1>1, <1>3 DEF GoFine
<1>8. \A x \in DOMAIN creds : creds[x] # None => x \in DOMAIN sinks /\ creds[x] = sinks[x].place
  BY <1>1, <1>3, <1>4 DEF GoFine
<1> QED BY <1>2, <1>5, <1>6, <1>7, <1>8, GoIs

LEMMA ClearGo ==
  ASSUME DeskInv, NEW id
  PROVE  LET g == [desk EXCEPT !.secret = Notify!Put(@, id, None)]
         IN GoFine(g) /\ g.sinks = desk.sinks /\ g.routes = desk.routes
<1> DEFINE creds == Notify!Put(desk.secret, id, None)
           g == DeskOf(desk.sinks, creds, desk.routes, desk.box)
<1>1. GoFine(desk) /\ DOMAIN desk = DeskFields
  BY GoFineNow, DeskDomain
<1>2. [desk EXCEPT !.secret = creds] = g
  BY <1>1 DEF DeskFields, DeskOf
<1>3. \A x \in DOMAIN creds : creds[x] # None => x \in DOMAIN desk.secret /\ creds[x] = desk.secret[x]
  BY DEF Notify!Put
<1> HIDE DEF creds
<1>4. Has(DeskFields, g) /\ g.sinks = desk.sinks /\ g.secret = creds /\ g.routes = desk.routes
  BY DeskIs
<1> HIDE DEF g
<1>5. GoFine(g)
  BY <1>1, <1>3, <1>4 DEF GoFine
<1> QED BY <1>2, <1>4, <1>5 DEF creds

\* What only changes the rules, or the deliveries.
LEMMA RoutesGo ==
  ASSUME DeskInv, NEW routes,
         \A r \in DOMAIN routes : Has(RuleFields, routes[r]) /\ routes[r].priority = Notify!PriorityOf(routes[r].typed),
         NEW g, g = [desk EXCEPT !.routes = routes]
  PROVE  GoFine(g) /\ g.sinks = desk.sinks
<1> DEFINE m == DeskOf(desk.sinks, desk.secret, routes, desk.box)
<1>1. GoFine(desk) /\ DOMAIN desk = DeskFields
  BY GoFineNow, DeskDomain
<1>2. g = m
  BY <1>1 DEF DeskFields, DeskOf
<1>3. Has(DeskFields, m) /\ m.sinks = desk.sinks /\ m.secret = desk.secret /\ m.routes = routes
  BY DeskIs
<1> HIDE DEF m
<1>4. GoFine(m)
  BY <1>1, <1>3 DEF GoFine
<1> QED BY <1>2, <1>3, <1>4

LEMMA BoxGo ==
  ASSUME DeskInv, NEW box, NEW g, Changed(desk, g, "box", box)
  PROVE  GoFine(g) /\ g.sinks = desk.sinks /\ g.routes = desk.routes
<1> DEFINE m == DeskOf(desk.sinks, desk.secret, desk.routes, box)
<1>1. GoFine(desk) /\ DOMAIN desk = DeskFields
  BY GoFineNow, DeskDomain
<1>2. g = [desk EXCEPT !.box = box]
  BY DEF Changed
<1>3. g = m
  BY <1>1, <1>2 DEF DeskFields, DeskOf
<1>4. Has(DeskFields, m) /\ m.sinks = desk.sinks /\ m.secret = desk.secret /\ m.routes = desk.routes
  BY DeskIs
<1> HIDE DEF m
<1>5. GoFine(m)
  BY <1>1, <1>4 DEF GoFine
<1> QED BY <1>3, <1>4, <1>5

\* What Go does of a call that is not a read.
LEMMA DoneIs ==
  ASSUME DeskAssumption, DeskInv, NEW c, CallFine(c)
  PROVE  LET r == Notify!Done(c, TRUE)
         IN /\ GoFine(r.go)
            /\ r.lost => r.ok /\ ~r.had /\ ~c.with.secret
            /\ DOMAIN r.go.sinks = DOMAIN desk.sinks \/ (c.kind \in {"save", "delete"} /\ r.ok)
            /\ r.go.routes = desk.routes \/ (c.kind \in {"delete", "saveRoute", "deleteRoute"} /\ r.ok)
<1> DEFINE r == Notify!Done(c, TRUE)
           Yes(g) == [ok |-> TRUE, go |-> g, had |-> FALSE, lost |-> FALSE]
           No == [ok |-> FALSE, go |-> desk, had |-> FALSE, lost |-> FALSE]
           Out(x) == /\ GoFine(x.go)
                     /\ x.lost => x.ok /\ ~x.had /\ ~c.with.secret
                     /\ DOMAIN x.go.sinks = DOMAIN desk.sinks \/ (c.kind \in {"save", "delete"} /\ x.ok)
                     /\ x.go.routes = desk.routes \/ (c.kind \in {"delete", "saveRoute", "deleteRoute"} /\ x.ok)
<1>1. GoFine(desk)
  BY GoFineNow
<1>2. Out(Yes(desk)) /\ Out(No)
  BY <1>1
<1>3. CASE c.kind = "save"
  <2>1. CASE c.id = None /\ Notify!Spare(Sinks, desk.sinks) = None
    BY <1>2, <1>3, <2>1 DEF Notify!Done
  <2>2. CASE ~(c.id = None /\ Notify!Spare(Sinks, desk.sinks) = None)
    <3>1. r = Notify!NotifySaveSink(c, TRUE)
      BY <1>3, <2>2 DEF Notify!Done
    <3> HIDE DEF r
    <3>2. GoFine(r.go) /\ r.go.routes = desk.routes /\ r.ok /\ (r.lost => ~r.had /\ ~c.with.secret)
      BY <1>3, <2>2, <3>1, SaveSinkGo
    <3> QED BY <1>3, <3>2 DEF r
  <2> QED BY <2>1, <2>2
<1>4. CASE c.kind = "delete"
  <2>1. r = Yes(Notify!NotifyDeleteSink(c.id))
    BY <1>4 DEF Notify!Done
  <2>2. GoFine(Notify!NotifyDeleteSink(c.id))
    BY DeleteGo
  <2> HIDE DEF r
  <2>3. r.go = Notify!NotifyDeleteSink(c.id) /\ r.ok /\ ~r.lost
    BY <2>1
  <2> QED BY <1>4, <2>2, <2>3 DEF r
<1>5. CASE c.kind = "clear"
  <2> DEFINE g == [desk EXCEPT !.secret = Notify!Put(@, c.id, None)]
  <2>1. r = Yes(g)
    BY <1>5 DEF Notify!Done
  <2>2. GoFine(g) /\ g.sinks = desk.sinks /\ g.routes = desk.routes
    BY ClearGo
  <2> HIDE DEF g, r
  <2>3. r.go = g /\ r.ok /\ ~r.lost
    BY <2>1
  <2> QED BY <2>2, <2>3 DEF r
<1>6. CASE c.kind = "test"
  BY <1>2, <1>6 DEF Notify!Done
<1>7. CASE c.kind = "saveRoute"
  <2> DEFINE rid == IF c.id = None THEN Notify!Spare(Routes, desk.routes) ELSE c.id
             v == [priority |-> c.with.priority, typed |-> c.with.typed, sinks |-> c.with.sinks, on |-> TRUE]
             routes == Notify!Put(desk.routes, rid, v)
             g == [desk EXCEPT !.routes = routes]
  <2>1. CASE rid = None
    BY <1>2, <1>7, <2>1 DEF Notify!Done
  <2>2. CASE rid # None
    <3>1. r = Yes(g)
      BY <1>7, <2>2 DEF Notify!Done
    <3>2. Has(RuleFields, v) /\ v.priority = Notify!PriorityOf(v.typed)
      BY <1>7 DEF CallFine, Has, RuleFields
    <3> HIDE DEF v, rid
    <3>3. \A x \in DOMAIN routes : Has(RuleFields, routes[x]) /\ routes[x].priority = Notify!PriorityOf(routes[x].typed)
      BY <1>1, <3>2 DEF GoFine, Notify!Put
    <3> HIDE DEF routes
    <3>4. GoFine(g) /\ g.sinks = desk.sinks
      BY <3>3, RoutesGo
    <3> HIDE DEF g, r
    <3>5. r.go = g /\ r.ok /\ ~r.lost
      BY <3>1
    <3> QED BY <1>7, <3>4, <3>5 DEF r
  <2> QED BY <2>1, <2>2
<1>8. CASE c.kind = "deleteRoute"
  <2> DEFINE routes == Notify!Without(desk.routes, c.id)
             g == [desk EXCEPT !.routes = routes]
  <2>1. r = Yes(g)
    BY <1>8 DEF Notify!Done
  <2>2. \A x \in DOMAIN routes : Has(RuleFields, routes[x]) /\ routes[x].priority = Notify!PriorityOf(routes[x].typed)
    BY <1>1 DEF GoFine, Notify!Without
  <2> HIDE DEF routes
  <2>3. GoFine(g) /\ g.sinks = desk.sinks
    BY <2>2, RoutesGo
  <2> HIDE DEF g, r
  <2>4. r.go = g /\ r.ok /\ ~r.lost
    BY <2>1
  <2> QED BY <1>8, <2>3, <2>4 DEF r
<1>9. CASE c.kind = "retry"
  <2> DEFINE g == [desk EXCEPT !.box[c.id].state = "pending"]
  <2>1. r = Yes(g)
    BY <1>9 DEF Notify!Done, Notify!RetryDelivery
  <2>2. GoFine(g) /\ g.sinks = desk.sinks /\ g.routes = desk.routes
    <3>1. Changed(desk, g, "box", [desk.box EXCEPT ![c.id].state = "pending"])
      BY DEF Changed
    <3> QED BY <3>1, BoxGo
  <2> HIDE DEF g, r
  <2>3. r.go = g /\ r.ok /\ ~r.lost
    BY <2>1
  <2> QED BY <2>2, <2>3 DEF r
<1>10. CASE c.kind \notin {"save", "delete", "clear", "test", "saveRoute", "deleteRoute", "retry"}
  BY <1>2, <1>10 DEF Notify!Done
<1> QED BY <1>3, <1>4, <1>5, <1>6, <1>7, <1>8, <1>9, <1>10

\* A credential is not used for another place than its own.
LEMMA NotStrayed ==
  ASSUME DeskAssumption, DeskInv, NEW c
  PROVE  ~Notify!NotifyTestSink(c).strayed
<1> DEFINE held == IF c.id \in DOMAIN desk.secret THEN desk.secret[c.id] ELSE None
<1> SUFFICES ASSUME ~Notify!rebound(c), held # None PROVE held = c.with.place
  BY DEF Notify!NotifyTestSink
<1>1. GoFine(desk)
  BY GoFineNow
<1>2. c.id \in DOMAIN desk.sinks /\ held = desk.sinks[c.id].place
  BY <1>1 DEF GoFine
<1> HIDE DEF held
<1> DEFINE s == desk.sinks[c.id]
<1>3. s = [k \in {"place", "to", "body"} |-> s[k]]
  BY <1>1, <1>2 DEF GoFine, Has
<1>4. s = [place |-> s.place, to |-> s.to, body |-> s.body]
  BY <1>3
<1>5. s # None
  BY <1>4 DEF DeskAssumption
<1>6. Notify!storedSink(c.id) = s
  BY <1>2 DEF Notify!storedSink
<1> HIDE DEF s
<1>7. s.place = c.with.place
  BY <1>5, <1>6 DEF Notify!rebound, Notify!SameDestination
<1> QED BY <1>2, <1>7 DEF s

Served(cs, u, i, r) ==
  u = [cs EXCEPT ![i].served = TRUE, ![i].ok = r.ok, ![i].had = r.had, ![i].lost = r.lost]

\* A call that is served: what came of it is noted on it.
LEMMA CallServed ==
  ASSUME NEW S, NEW cs \in Seq(S), NEW i \in DOMAIN cs, Has(CallFields, cs[i]), NEW r,
         NEW u, Served(cs, u, i, r)
  PROVE  /\ \E T : u \in Seq(T)
         /\ DOMAIN u = DOMAIN cs /\ (\A j \in DOMAIN cs : j # i => u[j] = cs[j])
         /\ Has(CallFields, u[i]) /\ u[i].served /\ u[i].ok = r.ok /\ u[i].had = r.had /\ u[i].lost = r.lost
         /\ u[i].kind = cs[i].kind /\ u[i].with = cs[i].with /\ u[i].mine = cs[i].mine
<1> DEFINE c == cs[i]
           t == [k \in CallFields |-> CASE k = "served" -> TRUE [] k = "ok" -> r.ok [] k = "had" -> r.had
                                        [] k = "lost" -> r.lost [] OTHER -> c[k]]
           a == [c EXCEPT !.served = TRUE]
           b == [a EXCEPT !.ok = r.ok]
           d == [b EXCEPT !.had = r.had]
           e == [d EXCEPT !.lost = r.lost]
<1>1. DOMAIN c = CallFields
  BY HasDomain
<1>2. u = [cs EXCEPT ![i] = e]
  BY DEF Served
<1>3. e = t
  <2>1. a = [k \in CallFields |-> IF k = "served" THEN TRUE ELSE c[k]]
    BY <1>1
  <2> HIDE DEF a
  <2>2. b = [k \in CallFields |-> IF k = "ok" THEN r.ok ELSE a[k]]
    BY <2>1
  <2> HIDE DEF b
  <2>3. d = [k \in CallFields |-> IF k = "had" THEN r.had ELSE b[k]]
    BY <2>2
  <2> HIDE DEF d
  <2>4. e = [k \in CallFields |-> IF k = "lost" THEN r.lost ELSE d[k]]
    BY <2>3
  <2> HIDE DEF e, c
  <2>5. \A k \in CallFields : e[k] = t[k]
    BY <2>1, <2>2, <2>3, <2>4
  <2> QED BY <2>4, <2>5
<1> HIDE DEF e
<1>4. Has(CallFields, t)
  BY DEF Has
<1>5. CallFields = {"kind", "id", "with", "mine", "served", "ok", "had", "lost"}
  BY DEF CallFields
<1>6. /\ t["served"] = TRUE /\ t["ok"] = r.ok /\ t["had"] = r.had /\ t["lost"] = r.lost
      /\ t["kind"] = c["kind"] /\ t["with"] = c["with"] /\ t["mine"] = c["mine"]
  BY <1>5
<1> HIDE DEF t
<1>7. u = [cs EXCEPT ![i] = t]
  BY <1>2, <1>3
<1>8. cs \in Seq(S \cup {t}) /\ t \in S \cup {t}
  BY SeqMonotonic
<1>9. u \in Seq(S \cup {t}) /\ DOMAIN u = DOMAIN cs /\ u[i] = t /\ \A j \in DOMAIN cs : j # i => u[j] = cs[j]
  BY <1>7, <1>8
<1> QED BY <1>4, <1>6, <1>9

LEMMA ServeStep == ASSUME DeskAssumption, DeskInv, Notify!serve PROVE DeskInv'
<1>1. PICK i \in DOMAIN posts, stores \in (IF Silent THEN {TRUE} ELSE BOOLEAN) :
        LET c == posts[i]
            r == Notify!Done(c, stores)
        IN /\ ~c.served /\ c.kind \notin Notify!Reads
           /\ desk' = r.go
           /\ posts' = [posts EXCEPT ![i].served = TRUE, ![i].ok = r.ok, ![i].had = r.had, ![i].lost = r.lost]
           /\ kept' = [kept EXCEPT !.strayed = @ \/ (c.kind = "test" /\ Notify!NotifyTestSink(c).strayed)]
           /\ UNCHANGED <<screen, editor, rule, count>>
  BY DEF Notify!serve
<1>2. stores = TRUE
  BY <1>1 DEF DeskAssumption
<1>3. PICK S : posts \in Seq(S)
  BY DEF DeskInv, DeskShape
<1>4. PICK c : c = posts[i]
  OBVIOUS
<1>5. PICK r : r = Notify!Done(c, TRUE)
  OBVIOUS
<1>6. /\ ~c.served /\ c.kind \notin Notify!Reads /\ desk' = r.go
      /\ posts' = [posts EXCEPT ![i].served = TRUE, ![i].ok = r.ok, ![i].had = r.had, ![i].lost = r.lost]
      /\ kept' = [kept EXCEPT !.strayed = @ \/ (c.kind = "test" /\ Notify!NotifyTestSink(c).strayed)]
      /\ UNCHANGED <<screen, editor, rule, count>>
  BY <1>1, <1>2, <1>4, <1>5
<1>7. CallFine(c) /\ Has(CallFields, posts[i]) /\ \A j \in DOMAIN posts : CallFine(posts[j])
  BY <1>4 DEF DeskInv, CallFine
<1>8. /\ GoFine(r.go)
      /\ r.lost => r.ok /\ ~r.had /\ ~c.with.secret
      /\ DOMAIN r.go.sinks = DOMAIN desk.sinks \/ (c.kind \in {"save", "delete"} /\ r.ok)
      /\ r.go.routes = desk.routes \/ (c.kind \in {"delete", "saveRoute", "deleteRoute"} /\ r.ok)
  BY <1>5, <1>7, DoneIs
<1>9. /\ \E T : posts' \in Seq(T)
      /\ DOMAIN posts' = DOMAIN posts /\ (\A j \in DOMAIN posts : j # i => posts'[j] = posts[j])
      /\ Has(CallFields, posts'[i]) /\ posts'[i].served /\ posts'[i].ok = r.ok
      /\ posts'[i].had = r.had /\ posts'[i].lost = r.lost
      /\ posts'[i].kind = c.kind /\ posts'[i].with = c.with /\ posts'[i].mine = c.mine
  <2>1. Served(posts, posts', i, r)
    BY <1>6 DEF Served
  <2>2. i \in DOMAIN posts
    BY <1>1
  <2>3. /\ \E T : posts' \in Seq(T)
        /\ DOMAIN posts' = DOMAIN posts /\ (\A j \in DOMAIN posts : j # i => posts'[j] = posts[j])
        /\ Has(CallFields, posts'[i]) /\ posts'[i].served /\ posts'[i].ok = r.ok
        /\ posts'[i].had = r.had /\ posts'[i].lost = r.lost
        /\ posts'[i].kind = posts[i].kind /\ posts'[i].with = posts[i].with /\ posts'[i].mine = posts[i].mine
    BY ONLY <1>3, <1>7, <2>1, <2>2, CallServed
  <2> QED BY <1>4, <2>3
<1>10. \A j \in DOMAIN posts' : CallFine(posts'[j])
  <2>1. CallFine(posts'[i])
    BY <1>7, <1>8, <1>9 DEF CallFine
  <2> QED BY <1>7, <1>9, <2>1
<1>11. Has({"strayed", "silent", "sent"}, kept') /\ ~kept'.strayed /\ kept'.silent = kept.silent
  <2>1. DOMAIN kept = {"strayed", "silent", "sent"}
    BY HasDomain DEF DeskInv, DeskShape
  <2>2. ~kept.strayed /\ ~Notify!NotifyTestSink(c).strayed
    BY NotStrayed DEF DeskInv
  <2> DEFINE s == kept.strayed \/ (c.kind = "test" /\ Notify!NotifyTestSink(c).strayed)
  <2>3. kept' = [k \in {"strayed", "silent", "sent"} |-> IF k = "strayed" THEN s ELSE kept[k]]
    BY <1>6, <2>1
  <2> HIDE DEF s
  <2>4. Has({"strayed", "silent", "sent"}, kept') /\ kept'["strayed"] = s /\ kept'["silent"] = kept["silent"]
    BY <2>3 DEF Has
  <2> QED BY <2>2, <2>4 DEF s
<1>12. PageShape'
  BY <1>6, ShapeNow DEF PageShape
<1>13. DeskShape'
  <2>1. GoFine(desk')
    BY <1>6, <1>8
  <2> QED BY <1>9, <1>11, <1>12, <2>1 DEF DeskShape, PageShape, GoFine, ScreenFields, DeskFields
<1>14. Bound' /\ Notify!PriorityAsTyped'
  BY <1>6, <1>8 DEF Bound, Notify!PriorityAsTyped, Notify!PriorityOf, GoFine
<1>15. ~kept'.strayed /\ Notify!UnboundIsSaid'
  BY <1>11 DEF DeskInv, Notify!UnboundIsSaid
<1>16. \A j \in DOMAIN posts :
         posts'[j].kind = posts[j].kind /\ posts'[j].with = posts[j].with /\ posts'[j].mine = posts[j].mine
  BY <1>4, <1>9
<1>17. RowsFresh'
  <2>1. CASE DOMAIN screen.rows = DOMAIN desk.sinks
    BY <1>1, <1>6, <1>8, <1>9, <2>1 DEF RowsFresh
  <2>2. CASE \E j \in DOMAIN posts : \/ posts[j].kind = "sinks"
                                     \/ posts[j].kind \in {"save", "delete"} /\ posts[j].served /\ posts[j].ok
    BY <1>4, <1>6, <1>9, <2>2 DEF RowsFresh, Notify!Reads
  <2> QED BY <2>1, <2>2 DEF DeskInv, RowsFresh
<1>18. RoutesFresh'
  <2>1. CASE screen.routes = desk.routes
    BY <1>1, <1>6, <1>8, <1>9, <2>1 DEF RoutesFresh
  <2>2. CASE \E j \in DOMAIN posts :
               \/ posts[j].kind \in {"sinks", "routes"}
               \/ posts[j].kind \in {"save", "delete", "saveRoute", "deleteRoute"} /\ posts[j].served /\ posts[j].ok
    BY <1>4, <1>6, <1>9, <2>2 DEF RoutesFresh, Notify!Reads
  <2> QED BY <2>1, <2>2 DEF DeskInv, RoutesFresh
<1>19. \A kind, j : Newest(posts, kind, j) => Newest(posts', kind, j)
  BY <1>9, <1>16 DEF Newest
<1>20. LogFresh'
  <2>1. CASE \E j : Newest(posts, "deliveries", j) /\ posts[j].with = screen.filter
    <3>1. PICK j : Newest(posts, "deliveries", j) /\ posts[j].with = screen.filter
      BY <2>1
    <3>2. Newest(posts', "deliveries", j) /\ posts'[j].with = screen'.filter
      BY <1>6, <1>16, <1>19, <3>1 DEF Newest
    <3> QED BY <3>2 DEF LogFresh
  <2>2. CASE /\ \A j \in DOMAIN posts : posts[j].kind # "deliveries"
             /\ \A d \in DOMAIN screen.log : screen.filter \in {"", screen.log[d]}
    <3>1. \A j \in DOMAIN posts' : posts'[j].kind # "deliveries"
      BY <1>9, <1>16, <2>2
    <3>2. \A d \in DOMAIN screen'.log : screen'.filter \in {"", screen'.log[d]}
      BY <1>6, <2>2
    <3> QED BY <3>1, <3>2 DEF LogFresh
  <2> QED BY <2>1, <2>2 DEF DeskInv, LogFresh
<1>21. PreviewFresh'
  <2> SUFFICES ASSUME editor # None, ~editor.timer
               PROVE  \/ \E j : Newest(posts', "preview", j) /\ posts'[j].mine /\ posts'[j].with = Notify!Config(editor)
                      \/ /\ \A j \in DOMAIN posts' : posts'[j].kind # "preview"
                         /\ editor.preview = Notify!Config(editor)
    BY <1>6 DEF PreviewFresh
  <2>1. CASE \E j : Newest(posts, "preview", j) /\ posts[j].mine /\ posts[j].with = Notify!Config(editor)
    <3>1. PICK j : Newest(posts, "preview", j) /\ posts[j].mine /\ posts[j].with = Notify!Config(editor)
      BY <2>1
    <3>2. Newest(posts', "preview", j) /\ posts'[j].mine /\ posts'[j].with = Notify!Config(editor)
      BY <1>16, <1>19, <3>1 DEF Newest
    <3> QED BY <3>2
  <2>2. CASE /\ \A j \in DOMAIN posts : posts[j].kind # "preview"
             /\ editor.preview = Notify!Config(editor)
    BY <1>9, <1>16, <2>2
  <2> QED BY <2>1, <2>2 DEF DeskInv, PreviewFresh
<1> QED BY <1>10, <1>13, <1>14, <1>15, <1>17, <1>18, <1>20, <1>21 DEF DeskInv

LEMMA DispatchedStep == ASSUME DeskAssumption, DeskInv, Notify!dispatched PROVE DeskInv'
<1>1. PICK d \in DOMAIN desk.box, to \in {"sent", "dead"} :
        /\ desk' = [desk EXCEPT !.box[d].state = to]
        /\ kept' = [kept EXCEPT !.sent = IF to = "sent" THEN Append(@, d) ELSE @]
        /\ UNCHANGED <<screen, editor, rule, posts>>
  BY DEF Notify!dispatched
<1>2. GoFine(desk') /\ desk'.sinks = desk.sinks /\ desk'.routes = desk.routes
  <2>1. Changed(desk, desk', "box", [desk.box EXCEPT ![d].state = to])
    BY <1>1 DEF Changed
  <2> QED BY <2>1, BoxGo
<1>3. Has({"strayed", "silent", "sent"}, kept') /\ kept'.strayed = kept.strayed /\ kept'.silent = kept.silent
  <2>1. DOMAIN kept = {"strayed", "silent", "sent"}
    BY HasDomain DEF DeskInv, DeskShape
  <2> DEFINE s == IF to = "sent" THEN Append(kept.sent, d) ELSE kept.sent
  <2>2. kept' = [k \in {"strayed", "silent", "sent"} |-> IF k = "sent" THEN s ELSE kept[k]]
    BY <1>1, <2>1
  <2> HIDE DEF s
  <2>3. Has({"strayed", "silent", "sent"}, kept') /\ kept'["strayed"] = kept["strayed"] /\ kept'["silent"] = kept["silent"]
    BY <2>2 DEF Has
  <2> QED BY <2>3
<1>4. PageShape'
  BY <1>1, ShapeNow DEF PageShape
<1>5. DeskShape'
  BY <1>1, <1>2, <1>3, <1>4 DEF DeskInv, DeskShape, PageShape, GoFine, ScreenFields, DeskFields
<1>6. Bound' /\ Notify!PriorityAsTyped'
  BY <1>2 DEF Bound, Notify!PriorityAsTyped, Notify!PriorityOf, GoFine
<1>7. ~kept'.strayed /\ Notify!UnboundIsSaid' /\ \A i \in DOMAIN posts' : CallFine(posts'[i])
  BY <1>1, <1>3 DEF DeskInv, Notify!UnboundIsSaid
<1>8. RowsFresh' /\ RoutesFresh'
  BY <1>1, <1>2 DEF DeskInv, RowsFresh, RoutesFresh
<1>9. LogFresh' /\ PreviewFresh'
  BY <1>1 DEF DeskInv, LogFresh, PreviewFresh, Newest, Notify!Config
<1> QED BY <1>5, <1>6, <1>7, <1>8, <1>9 DEF DeskInv

-----------------------------------------------------------------------------
(* What the page makes of an answer. *)

\* The last call of a kind stays the last, unless what is asked is of the kind.
LEMMA NewestMoved ==
  ASSUME NEW old, NEW new, NEW k, NEW more, Answered(old, new, k, more), k \in DOMAIN old, NEW kind,
         NEW n, Newest(old, kind, n), n # k,
         more # <<>> => more[1].kind # kind
  PROVE  Newest(new, kind, Moved(n, k)) /\ Alike(new[Moved(n, k)], old[n])
<1>1. n \in DOMAIN old /\ n \in Nat /\ k \in Nat /\ Moved(n, k) \in DOMAIN new /\ Alike(new[Moved(n, k)], old[n])
  BY DEF Newest, Answered
<1>2. new[Moved(n, k)].kind = kind
  BY <1>1 DEF Newest, Alike
<1>3. ASSUME NEW j \in DOMAIN new, j > Moved(n, k) PROVE new[j].kind # kind
  <2>1. CASE \E m \in DOMAIN old : m # k /\ j = Moved(m, k) /\ Alike(new[j], old[m])
    <3>1. PICK m \in DOMAIN old : m # k /\ j = Moved(m, k) /\ Alike(new[j], old[m])
      BY <2>1
    <3>2. m \in Nat
      BY <3>1 DEF Answered
    <3>3. m > n
      BY <1>1, <1>3, <3>1, <3>2 DEF Moved
    <3> QED BY <3>1, <3>3 DEF Newest, Alike
  <2>2. CASE more # <<>> /\ new[j] = more[1]
    BY <2>2
  <2> QED BY <2>1, <2>2 DEF Answered
<1> QED BY <1>1, <1>2, <1>3 DEF Newest

LEMMA NoneOfIt ==
  ASSUME NEW old, NEW new, NEW k, NEW more, Answered(old, new, k, more), NEW kind,
         \A j \in DOMAIN old : j # k => old[j].kind # kind, more # <<>> => more[1].kind # kind
  PROVE  \A j \in DOMAIN new : new[j].kind # kind
BY DEF Answered, Alike

\* The last call there is is the one asked for.
LEMMA NewestAsked ==
  ASSUME NEW old, NEW new, NEW k, NEW more, Answered(old, new, k, more), more # <<>>
  PROVE  \E i : Newest(new, more[1].kind, i) /\ new[i] = more[1]
<1>1. PICK T : new \in Seq(T)
  BY DEF Answered
<1>2. PICK i \in DOMAIN new : new[i] = more[1] /\ \A j \in DOMAIN new : j <= i
  BY DEF Answered
<1>3. DOMAIN new = 1..Len(new) /\ Len(new) \in Nat
  BY <1>1
<1>4. \A j \in DOMAIN new : ~(j > i)
  BY <1>2, <1>3
<1> QED BY <1>2, <1>4 DEF Newest

\* What is asked when a call is answered.
LEMMA FollowsIs ==
  ASSUME NEW c
  PROVE  LET more == Notify!Follows(c)
         IN /\ more = <<>> \/ \E t : more = <<t>>
            /\ more # <<>> => CallFine(more[1]) /\ more[1].kind \in {"sinks", "routes", "deliveries"}
            /\ c.kind = "sinks" => more # <<>> /\ more[1].kind = "routes"
            /\ c.kind = "routes" => more # <<>> /\ more[1].kind = "deliveries"
            /\ c.kind \in {"save", "delete", "saveRoute", "deleteRoute"} /\ c.ok => more # <<>> /\ more[1].kind = "sinks"
            /\ c.kind = "deliveries" => more = <<>>
            /\ more # <<>> /\ more[1].kind = "deliveries" => more[1].with = screen.filter
<1> DEFINE more == Notify!Follows(c)
           Fit(t, kind) == CallFine(t) /\ t.kind = kind
<1>1. \A kind, id, with :
        kind \in {"sinks", "routes", "deliveries"} => /\ Fit(Notify!Ask(kind, id, with), kind)
                                                      /\ Notify!Ask(kind, id, with).with = with
  <2> SUFFICES ASSUME NEW kind, NEW id, NEW with, kind \in {"sinks", "routes", "deliveries"}
               PROVE  /\ Fit(Notify!Ask(kind, id, with), kind)
                      /\ Notify!Ask(kind, id, with).with = with
    OBVIOUS
  <2> DEFINE t == Notify!Ask(kind, id, with)
  <2>1. Has(CallFields, t) /\ t.kind = kind /\ t.with = with /\ ~t.lost
    BY AskIs
  <2> HIDE DEF t
  <2>2. CallFine(t)
    BY <2>1 DEF CallFine
  <2> QED BY <2>1, <2>2 DEF t
<1> HIDE DEF Fit
<1>2. CASE c.kind \in {"sinks", "routes"}
  <2> DEFINE kind == IF c.kind = "sinks" THEN "routes" ELSE "deliveries"
             t == Notify!Ask(kind, None, screen.filter)
  <2>1. more = <<t>>
    BY <1>2 DEF Notify!Follows, Notify!NextList
  <2>2. /\ kind \in {"sinks", "routes", "deliveries"} /\ (c.kind = "sinks" => kind = "routes")
        /\ (c.kind = "routes" => kind = "deliveries")
    BY <1>2
  <2>3. Fit(t, kind) /\ t.with = screen.filter
    BY <1>1, <2>2
  <2> HIDE DEF t, kind
  <2>4. more # <<>> /\ more[1] = t
    BY <2>1
  <2> HIDE DEF more
  <2> QED BY <1>2, <2>1, <2>2, <2>3, <2>4 DEF Fit, more
<1>3. CASE c.kind \in {"save", "delete", "saveRoute", "deleteRoute"} /\ c.ok
  <2> DEFINE t == Notify!Ask("sinks", None, None)
  <2>1. more = <<t>>
    BY <1>3 DEF Notify!Follows, Notify!AfterChange, Notify!reload
  <2>2. Fit(t, "sinks")
    BY <1>1
  <2> HIDE DEF t
  <2>3. more # <<>> /\ more[1] = t
    BY <2>1
  <2> HIDE DEF more
  <2> QED BY <1>3, <2>1, <2>2, <2>3 DEF Fit, more
<1>4. CASE c.kind = "retry"
  <2> DEFINE t == Notify!Ask("deliveries", None, screen.filter)
  <2>1. more = <<t>>
    BY <1>4 DEF Notify!Follows
  <2>2. Fit(t, "deliveries") /\ t.with = screen.filter
    BY <1>1
  <2> HIDE DEF t
  <2>3. more # <<>> /\ more[1] = t
    BY <2>1
  <2> HIDE DEF more
  <2> QED BY <1>4, <2>1, <2>2, <2>3 DEF Fit, more
<1>5. CASE /\ c.kind \notin {"sinks", "routes", "retry"}
           /\ ~(c.kind \in {"save", "delete", "saveRoute", "deleteRoute"} /\ c.ok)
  <2>1. more = <<>>
    BY <1>5 DEF Notify!Follows
  <2> HIDE DEF more
  <2> QED BY <1>5, <2>1 DEF more
<1> QED BY <1>2, <1>3, <1>4, <1>5

\* The rows as they are listed.
LEMMA ListedIs ==
  ASSUME DeskInv
  PROVE  LET list == Notify!Listed
         IN /\ DOMAIN list = DOMAIN desk.sinks /\ Has(DOMAIN list, list)
            /\ \A id \in DOMAIN list : Has(RowFields, list[id]) /\ list[id].place \in Places
<1> DEFINE list == Notify!Listed
           RowOf(id) == [place |-> desk.sinks[id].place, to |-> desk.sinks[id].to, body |-> desk.sinks[id].body, raw |-> None,
                       had |-> IF id \in DOMAIN desk.secret THEN desk.secret[id] # None ELSE FALSE]
<1>1. list = [id \in DOMAIN desk.sinks |-> RowOf(id)]
  BY DEF Notify!Listed
<1>2. ASSUME NEW id \in DOMAIN desk.sinks PROVE Has(RowFields, RowOf(id)) /\ RowOf(id).place \in Places
  <2>1. Has(RowFields, RowOf(id))
    BY DEF Has, RowFields
  <2>2. RowOf(id).place = desk.sinks[id].place
    OBVIOUS
  <2>3. desk.sinks[id].place \in Places
    BY GoFineNow DEF GoFine
  <2> QED BY <2>1, <2>2, <2>3
<1> HIDE DEF RowOf
<1>3. DOMAIN list = DOMAIN desk.sinks /\ Has(DOMAIN list, list) /\ \A id \in DOMAIN list : list[id] = RowOf(id)
  BY <1>1 DEF Has
<1> HIDE DEF list
<1>4. \A id \in DOMAIN list : Has(RowFields, list[id]) /\ list[id].place \in Places
  BY <1>2, <1>3
<1> QED BY <1>3, <1>4 DEF list

LEMMA ScreenAfterIs ==
  ASSUME DeskInv, NEW c, NEW u, u = Notify!ScreenAfter(c)
  PROVE  /\ Has(ScreenFields, u) /\ u.filter = screen.filter
         /\ u.rows = IF c.kind = "sinks" THEN Notify!Listed ELSE screen.rows
         /\ u.routes = IF c.kind = "routes" THEN desk.routes ELSE screen.routes
         /\ u.log = IF c.kind = "deliveries" THEN Notify!OfState(c.with) ELSE screen.log
<1>1. Has(ScreenFields, screen)
  BY ShapeNow DEF PageShape
<1>2. ScreenFields = {"rows", "routes", "log", "filter", "testing"}
  BY DEF ScreenFields
<1>3. CASE c.kind = "sinks"
  <2>1. Changed(screen, u, "rows", Notify!Listed)
    BY <1>3 DEF Changed, Notify!ScreenAfter
  <2>2. Has(ScreenFields, u) /\ u["rows"] = Notify!Listed /\ \A k \in ScreenFields : k # "rows" => u[k] = screen[k]
    BY <1>1, <1>2, <2>1, FieldIs
  <2> QED BY <1>2, <1>3, <2>2
<1>4. CASE c.kind = "routes"
  <2>1. Changed(screen, u, "routes", desk.routes)
    BY <1>4 DEF Changed, Notify!ScreenAfter
  <2>2. Has(ScreenFields, u) /\ u["routes"] = desk.routes /\ \A k \in ScreenFields : k # "routes" => u[k] = screen[k]
    BY <1>1, <1>2, <2>1, FieldIs
  <2> QED BY <1>2, <1>4, <2>2
<1>5. CASE c.kind = "deliveries"
  <2>1. Changed(screen, u, "log", Notify!OfState(c.with))
    BY <1>5 DEF Changed, Notify!ScreenAfter
  <2>2. Has(ScreenFields, u) /\ u["log"] = Notify!OfState(c.with) /\ \A k \in ScreenFields : k # "log" => u[k] = screen[k]
    BY <1>1, <1>2, <2>1, FieldIs
  <2> QED BY <1>2, <1>5, <2>2
<1>6. CASE c.kind = "test"
  <2>1. Changed(screen, u, "testing", None)
    BY <1>6 DEF Changed, Notify!ScreenAfter
  <2>2. Has(ScreenFields, u) /\ \A k \in ScreenFields : k # "testing" => u[k] = screen[k]
    BY <1>1, <1>2, <2>1, FieldIs
  <2> QED BY <1>2, <1>6, <2>2
<1>7. CASE c.kind \notin {"sinks", "routes", "deliveries", "test"}
  BY <1>1, <1>7 DEF Notify!ScreenAfter
<1> QED BY <1>3, <1>4, <1>5, <1>6, <1>7

\* What an answer does to the editor: closed, its timer running, or holding what it held.
LEMMA EditorAfterIs ==
  ASSUME DeskInv, NEW c, NEW u, u = Notify!EditorAfter(c), u # None
  PROVE  /\ editor # None /\ Has(FormFields, u) /\ u.place \in Places
         /\ ~(c.kind = "save" /\ c.ok)
         /\ \/ u.timer
            \/ /\ u.timer = editor.timer /\ Notify!Config(u) = Notify!Config(editor)
               /\ u.preview = IF c.kind = "preview" /\ c.mine THEN c.with ELSE editor.preview
<1>1. editor # None
  BY DEF Notify!EditorAfter
<1>2. Has(FormFields, editor) /\ editor.place \in Places /\ DOMAIN editor = FormFields
  BY <1>1, ShapeNow, HasDomain DEF PageShape
<1>3. {"place", "to", "body", "timer", "preview", "shares", "had", "secret"} \subseteq FormFields
  BY DEF FormFields
<1>4. ~(c.kind = "save" /\ c.ok)
  BY DEF Notify!EditorAfter
<1>5. CASE c.kind = "sinks"
  <2>1. PICK v : Changed(editor, u, "shares", v)
    BY <1>1, <1>5 DEF Changed, Notify!EditorAfter
  <2>2. Has(FormFields, u) /\ \A k \in FormFields : k # "shares" => u[k] = editor[k]
    BY <1>2, <1>3, <2>1, FieldIs
  <2>3. /\ u.place = editor.place /\ u.to = editor.to /\ u.body = editor.body /\ u.timer = editor.timer
        /\ u.preview = editor.preview
    BY <1>3, <2>2
  <2> QED BY <1>1, <1>2, <1>4, <1>5, <2>2, <2>3 DEF Notify!Config
<1>6. CASE c.kind = "clear"
  <2>1. u = [editor EXCEPT !.had = FALSE, !.secret = FALSE, !.timer = TRUE]
    BY <1>1, <1>6 DEF Notify!EditorAfter
  <2>2. u = [k \in FormFields |-> IF k \in {"had", "secret"} THEN FALSE ELSE IF k = "timer" THEN TRUE ELSE editor[k]]
    BY <1>2, <2>1
  <2>3. Has(FormFields, u)
    BY <2>2 DEF Has
  <2>4. u["place"] = editor["place"] /\ u["timer"] = TRUE
    BY <1>3, <2>2
  <2> QED BY <1>1, <1>2, <1>4, <2>3, <2>4
<1>7. CASE c.kind = "preview" /\ c.mine
  <2>1. Changed(editor, u, "preview", c.with)
    BY <1>1, <1>7 DEF Changed, Notify!EditorAfter
  <2>2. Has(FormFields, u) /\ u["preview"] = c.with /\ \A k \in FormFields : k # "preview" => u[k] = editor[k]
    BY <1>2, <1>3, <2>1, FieldIs
  <2>3. /\ u.place = editor.place /\ u.to = editor.to /\ u.body = editor.body /\ u.timer = editor.timer
        /\ u.preview = c.with
    BY <1>3, <2>2
  <2> QED BY <1>1, <1>2, <1>4, <1>7, <2>2, <2>3 DEF Notify!Config
<1>8. CASE c.kind = "body" /\ c.mine
  <2>1. u = [editor EXCEPT !.body = "default", !.timer = TRUE]
    BY <1>1, <1>8 DEF Notify!EditorAfter
  <2>2. u = [k \in FormFields |-> IF k = "body" THEN "default" ELSE IF k = "timer" THEN TRUE ELSE editor[k]]
    BY <1>2, <2>1
  <2>3. Has(FormFields, u)
    BY <2>2 DEF Has
  <2>4. u["place"] = editor["place"] /\ u["timer"] = TRUE
    BY <1>3, <2>2
  <2> QED BY <1>1, <1>2, <1>4, <2>3, <2>4
<1>9. CASE c.kind \notin {"sinks", "clear"} /\ ~(c.kind = "preview" /\ c.mine) /\ ~(c.kind = "body" /\ c.mine)
  <2>1. u = editor
    BY <1>1, <1>4, <1>9 DEF Notify!EditorAfter
  <2> QED BY <1>1, <1>2, <1>4, <1>9, <2>1
<1> QED BY <1>5, <1>6, <1>7, <1>8, <1>9

LEMMA AnswerStep == ASSUME DeskAssumption, DeskInv, Notify!answer PROVE DeskInv'
<1>1. PICK i \in DOMAIN posts :
        LET c == posts[i] IN
        /\ c.served \/ c.kind \in Notify!Reads
        /\ c.kind \in Notify!Reads => \A j \in 1..(i - 1) : posts[j].kind \notin Notify!Reads
        /\ screen' = Notify!ScreenAfter(c) /\ editor' = Notify!EditorAfter(c)
        /\ rule' = IF c.kind = "saveRoute" /\ c.ok THEN None ELSE rule
        /\ posts' = (IF c.kind = "save" /\ c.ok THEN Notify!Orphaned(Notify!RemoveAt(posts, i))
                      ELSE Notify!RemoveAt(posts, i))
                      \o Notify!Follows(c)
        /\ kept' = IF c.kind = "save" /\ c.lost /\ ~Notify!SaidUnbound(c)
                   THEN [kept EXCEPT !.silent = @ \cup {c.with.had}] ELSE kept
        /\ UNCHANGED <<desk, count>>
  BY DEF Notify!answer
<1>2. PICK c : c = posts[i]
  OBVIOUS
<1>3. PICK more : more = Notify!Follows(c)
  OBVIOUS
<1>4. PICK w : w = IF c.kind = "save" /\ c.ok THEN Notify!Orphaned(Notify!RemoveAt(posts, i)) ELSE Notify!RemoveAt(posts, i)
  OBVIOUS
<1>5. PICK S : posts \in Seq(S)
  BY DEF DeskInv, DeskShape
<1>6. /\ i \in DOMAIN posts /\ (c.served \/ c.kind \in Notify!Reads)
      /\ c.kind \in Notify!Reads => \A j \in 1..(i - 1) : posts[j].kind \notin Notify!Reads
      /\ screen' = Notify!ScreenAfter(c) /\ editor' = Notify!EditorAfter(c)
      /\ rule' = IF c.kind = "saveRoute" /\ c.ok THEN None ELSE rule
      /\ posts' = w \o more
      /\ kept' = IF c.kind = "save" /\ c.lost /\ ~Notify!SaidUnbound(c)
                 THEN [kept EXCEPT !.silent = @ \cup {c.with.had}] ELSE kept
      /\ UNCHANGED desk
  BY <1>1, <1>2, <1>3, <1>4
<1>7. (\A j \in DOMAIN posts : CallFine(posts[j]) /\ Has(CallFields, posts[j])) /\ CallFine(c)
  BY <1>2, <1>6 DEF DeskInv, CallFine
<1>8. /\ more = <<>> \/ \E t : more = <<t>>
      /\ more # <<>> => CallFine(more[1]) /\ more[1].kind \in {"sinks", "routes", "deliveries"}
      /\ c.kind = "sinks" => more # <<>> /\ more[1].kind = "routes"
      /\ c.kind = "routes" => more # <<>> /\ more[1].kind = "deliveries"
      /\ c.kind \in {"save", "delete", "saveRoute", "deleteRoute"} /\ c.ok => more # <<>> /\ more[1].kind = "sinks"
      /\ c.kind = "deliveries" => more = <<>>
      /\ more # <<>> /\ more[1].kind = "deliveries" => more[1].with = screen.filter
  BY <1>3, FollowsIs
<1>9. /\ Answered(posts, posts', i, more)
      /\ ~(c.kind = "save" /\ c.ok) => \A j \in DOMAIN posts : j # i => posts'[Moved(j, i)] = posts[j]
  <2>1. w \in {Notify!RemoveAt(posts, i), Notify!Orphaned(Notify!RemoveAt(posts, i))}
    BY <1>4
  <2>2. \A j \in DOMAIN posts : Has(CallFields, posts[j])
    BY <1>7
  <2>3. more = <<>> \/ \E t : more = <<t>>
    BY <1>8
  <2>4. i \in DOMAIN posts
    BY <1>6
  <2>5. AnsweredBy(posts, w, i, more)
    BY ONLY <1>5, <2>1, <2>2, <2>3, <2>4, AnsweredIs
  <2> QED BY <1>4, <1>6, <2>5 DEF AnsweredBy
<1>10. \A j \in DOMAIN posts' : CallFine(posts'[j])
  BY <1>7, <1>8, <1>9, AlikeFine DEF Answered
<1>11. /\ Has(ScreenFields, screen') /\ screen'.filter = screen.filter
       /\ screen'.rows = IF c.kind = "sinks" THEN Notify!Listed ELSE screen.rows
       /\ screen'.routes = IF c.kind = "routes" THEN desk.routes ELSE screen.routes
       /\ screen'.log = IF c.kind = "deliveries" THEN Notify!OfState(c.with) ELSE screen.log
  BY <1>6, ScreenAfterIs
<1>12. editor' # None =>
         /\ editor # None /\ Has(FormFields, editor') /\ editor'.place \in Places
         /\ ~(c.kind = "save" /\ c.ok)
         /\ \/ editor'.timer
            \/ /\ editor'.timer = editor.timer /\ Notify!Config(editor') = Notify!Config(editor)
               /\ editor'.preview = IF c.kind = "preview" /\ c.mine THEN c.with ELSE editor.preview
  BY <1>6, EditorAfterIs
<1>13. PageShape'
  <2>1. PageShape
    BY ShapeNow
  <2>2. /\ Has(DOMAIN screen'.rows, screen'.rows)
        /\ \A id \in DOMAIN screen'.rows : Has(RowFields, screen'.rows[id]) /\ screen'.rows[id].place \in Places
    <3>1. CASE c.kind = "sinks"
      BY <1>11, <3>1, ListedIs
    <3>2. CASE c.kind # "sinks"
      BY <1>11, <2>1, <3>2 DEF PageShape
    <3> QED BY <3>1, <3>2
  <2>3. rule' # None => Has(RuleForm, rule')
    BY <1>6, <2>1 DEF PageShape
  <2> QED BY <1>11, <1>12, <2>2, <2>3 DEF PageShape
<1>14. /\ Has({"strayed", "silent", "sent"}, kept') /\ kept'.strayed = kept.strayed
       /\ TRUE \notin kept'.silent
  <2>1. Has({"strayed", "silent", "sent"}, kept) /\ TRUE \notin kept.silent
    BY DEF DeskInv, DeskShape, Notify!UnboundIsSaid
  <2>2. CASE kept' = kept
    BY <2>1, <2>2
  <2>3. CASE c.kind = "save" /\ c.lost /\ ~Notify!SaidUnbound(c) /\ kept' = [kept EXCEPT !.silent = @ \cup {c.with.had}]
    <3>1. c.ok /\ ~c.had /\ ~c.with.secret
      BY <1>7, <2>3 DEF CallFine
    <3>2. ~c.with.had
      BY <2>3, <3>1 DEF Notify!SaidUnbound
    <3>3. c.with.had # TRUE
      BY <3>2
    <3> DEFINE s == kept.silent \cup {c.with.had}
    <3>4. DOMAIN kept = {"strayed", "silent", "sent"}
      BY <2>1, HasDomain
    <3>5. kept' = [k \in {"strayed", "silent", "sent"} |-> IF k = "silent" THEN s ELSE kept[k]]
      BY <2>3, <3>4
    <3>6. TRUE \notin s
      BY <2>1, <3>3
    <3> HIDE DEF s
    <3>7. Has({"strayed", "silent", "sent"}, kept') /\ kept'["strayed"] = kept["strayed"] /\ kept'["silent"] = s
      BY <3>5 DEF Has
    <3> QED BY <3>6, <3>7
  <2> QED BY <1>6, <2>2, <2>3
<1>15. DeskShape'
  <2>1. \E T : posts' \in Seq(T)
    BY <1>9 DEF Answered
  <2> QED BY <1>6, <1>13, <1>14, <2>1 DEF DeskInv, DeskShape, PageShape, ScreenFields
<1>16. Bound' /\ Notify!PriorityAsTyped' /\ ~kept'.strayed /\ Notify!UnboundIsSaid'
  BY <1>6, <1>14 DEF DeskInv, Bound, Notify!PriorityAsTyped, Notify!UnboundIsSaid
<1>17. \A j \in DOMAIN posts : j # i =>
         /\ Moved(j, i) \in DOMAIN posts'
         /\ posts'[Moved(j, i)].kind = posts[j].kind /\ posts'[Moved(j, i)].served = posts[j].served
         /\ posts'[Moved(j, i)].ok = posts[j].ok /\ posts'[Moved(j, i)].with = posts[j].with
  BY <1>9 DEF Answered, Alike
<1>18. more # <<>> => \E j \in DOMAIN posts' : posts'[j] = more[1]
  BY <1>9 DEF Answered
<1>19. RowsFresh'
  <2>1. CASE c.kind = "sinks"
    BY <1>6, <1>11, <2>1, ListedIs DEF RowsFresh
  <2>2. CASE c.kind # "sinks" /\ DOMAIN screen.rows = DOMAIN desk.sinks
    BY <1>6, <1>11, <2>2 DEF RowsFresh
  <2>3. CASE c.kind # "sinks" /\ DOMAIN screen.rows # DOMAIN desk.sinks
    <3>1. PICK j \in DOMAIN posts :
            \/ posts[j].kind = "sinks"
            \/ posts[j].kind \in {"save", "delete"} /\ posts[j].served /\ posts[j].ok
      <4>1. RowsFresh
        BY DEF DeskInv
      <4> QED BY <2>3, <4>1 DEF RowsFresh
    <3> QED BY <1>2, <1>8, <1>17, <1>18, <2>3, <3>1 DEF RowsFresh
  <2> QED BY <2>1, <2>2, <2>3
<1>20. RoutesFresh'
  <2>1. CASE c.kind = "routes"
    BY <1>6, <1>11, <2>1 DEF RoutesFresh
  <2>2. CASE c.kind # "routes" /\ screen.routes = desk.routes
    BY <1>6, <1>11, <2>2 DEF RoutesFresh
  <2>3. CASE c.kind # "routes" /\ \E j \in DOMAIN posts :
               \/ posts[j].kind \in {"sinks", "routes"}
               \/ posts[j].kind \in {"save", "delete", "saveRoute", "deleteRoute"} /\ posts[j].served /\ posts[j].ok
    BY <1>2, <1>8, <1>17, <1>18, <2>3 DEF RoutesFresh
  <2> QED BY <2>1, <2>2, <2>3 DEF DeskInv, RoutesFresh
\* A read that is answered is the first of them: the last of its kind only when it is the only one.
<1>21. \A n : c.kind \in Notify!Reads /\ Newest(posts, c.kind, n) /\ n = i =>
         \A j \in DOMAIN posts : j # i => posts[j].kind # c.kind
  <2> SUFFICES ASSUME c.kind \in Notify!Reads, Newest(posts, c.kind, i), NEW j \in DOMAIN posts, j # i
               PROVE  posts[j].kind # c.kind
    OBVIOUS
  <2>1. i \in Nat /\ j \in Nat /\ j >= 1
    BY <1>5, <1>6
  <2>2. CASE j > i
    BY <2>2 DEF Newest
  <2>3. CASE j < i
    <3>1. j \in 1..(i - 1)
      BY <2>1, <2>3
    <3> QED BY <1>6, <3>1
  <2> QED BY <2>1, <2>2, <2>3
<1>22. LogFresh'
  <2>1. CASE more # <<>> /\ more[1].kind = "deliveries"
    <3>1. \E n : Newest(posts', "deliveries", n) /\ posts'[n] = more[1]
      BY <1>9, <2>1, NewestAsked
    <3> QED BY <1>8, <1>11, <2>1, <3>1 DEF LogFresh
  <2>2. CASE more # <<>> => more[1].kind # "deliveries"
    <3>1. CASE \E n : Newest(posts, "deliveries", n) /\ n # i /\ posts[n].with = screen.filter
      <4>1. PICK n : Newest(posts, "deliveries", n) /\ n # i /\ posts[n].with = screen.filter
        BY <3>1
      <4>2. Newest(posts', "deliveries", Moved(n, i)) /\ Alike(posts'[Moved(n, i)], posts[n])
        <5>1. i \in DOMAIN posts /\ Answered(posts, posts', i, more)
          BY <1>6, <1>9
        <5> QED BY ONLY <2>2, <4>1, <5>1, NewestMoved
      <4>3. posts'[Moved(n, i)].with = screen'.filter
        BY <1>11, <4>1, <4>2 DEF Alike
      <4> QED BY <4>2, <4>3 DEF LogFresh
    <3>2. CASE Newest(posts, "deliveries", i) /\ posts[i].with = screen.filter
      <4>1. c.kind = "deliveries" /\ c.kind \in Notify!Reads /\ c.with = screen.filter
        BY <1>2, <3>2 DEF Newest, Notify!Reads
      <4>2. \A j \in DOMAIN posts' : posts'[j].kind # "deliveries"
        <5>1. \A j \in DOMAIN posts : j # i => posts[j].kind # "deliveries"
          BY <1>21, <3>2, <4>1
        <5> QED BY <1>9, <2>2, <5>1, NoneOfIt
      <4>3. \A d \in DOMAIN Notify!OfState(c.with) : c.with \in {"", Notify!OfState(c.with)[d]}
        BY DEF Notify!OfState
      <4>4. screen'.log = Notify!OfState(c.with) /\ screen'.filter = c.with
        BY <1>11, <4>1
      <4> QED BY <4>2, <4>3, <4>4 DEF LogFresh
    <3>3. CASE /\ \A j \in DOMAIN posts : posts[j].kind # "deliveries"
               /\ \A d \in DOMAIN screen.log : screen.filter \in {"", screen.log[d]}
      <4>1. c.kind # "deliveries"
        BY <1>2, <1>6, <3>3
      <4>2. \A j \in DOMAIN posts' : posts'[j].kind # "deliveries"
        <5>1. \A j \in DOMAIN posts : j # i => posts[j].kind # "deliveries"
          BY <3>3
        <5> QED BY <1>9, <2>2, <5>1, NoneOfIt
      <4> QED BY <1>11, <3>3, <4>1, <4>2 DEF LogFresh
    <3> QED BY <3>1, <3>2, <3>3 DEF DeskInv, LogFresh
  <2> QED BY <2>1, <2>2
<1>23. PreviewFresh'
  <2> SUFFICES ASSUME editor' # None, ~editor'.timer
               PROVE  \/ \E n : Newest(posts', "preview", n) /\ posts'[n].mine /\ posts'[n].with = Notify!Config(editor')
                      \/ /\ \A j \in DOMAIN posts' : posts'[j].kind # "preview"
                         /\ editor'.preview = Notify!Config(editor')
    BY DEF PreviewFresh
  <2>1. /\ editor # None /\ ~editor.timer /\ Notify!Config(editor') = Notify!Config(editor) /\ ~(c.kind = "save" /\ c.ok)
        /\ editor'.preview = IF c.kind = "preview" /\ c.mine THEN c.with ELSE editor.preview
    BY <1>12
  <2>2. more # <<>> => more[1].kind # "preview"
    BY <1>8
  <2>3. CASE \E n : Newest(posts, "preview", n) /\ n # i /\ posts[n].mine /\ posts[n].with = Notify!Config(editor)
    <3>1. PICK n : Newest(posts, "preview", n) /\ n # i /\ posts[n].mine /\ posts[n].with = Notify!Config(editor)
      BY <2>3
    <3>2. Newest(posts', "preview", Moved(n, i))
      <4>1. i \in DOMAIN posts /\ Answered(posts, posts', i, more)
        BY <1>6, <1>9
      <4> QED BY ONLY <2>2, <3>1, <4>1, NewestMoved
    <3>3. posts'[Moved(n, i)] = posts[n]
      BY <1>9, <2>1, <3>1 DEF Newest
    <3> QED BY <2>1, <3>1, <3>2, <3>3
  <2>4. CASE Newest(posts, "preview", i) /\ posts[i].mine /\ posts[i].with = Notify!Config(editor)
    <3>1. c.kind = "preview" /\ c.kind \in Notify!Reads /\ c.mine /\ c.with = Notify!Config(editor)
      BY <1>2, <2>4 DEF Newest, Notify!Reads
    <3>2. \A j \in DOMAIN posts : j # i => posts[j].kind # "preview"
      BY <1>21, <2>4, <3>1
    <3>3. \A j \in DOMAIN posts' : posts'[j].kind # "preview"
      BY <1>9, <2>2, <3>2, NoneOfIt
    <3> QED BY <2>1, <3>1, <3>3
  <2>5. CASE /\ \A j \in DOMAIN posts : posts[j].kind # "preview"
             /\ editor.preview = Notify!Config(editor)
    <3>1. c.kind # "preview"
      BY <1>2, <1>6, <2>5
    <3>2. \A j \in DOMAIN posts' : posts'[j].kind # "preview"
      BY <1>9, <2>2, <2>5, NoneOfIt
    <3> QED BY <2>1, <2>5, <3>1, <3>2
  <2> QED BY <2>1, <2>3, <2>4, <2>5 DEF DeskInv, PreviewFresh
<1> QED BY <1>10, <1>15, <1>16, <1>19, <1>20, <1>22, <1>23 DEF DeskInv

-----------------------------------------------------------------------------
LEMMA DeskInit == ASSUME DeskAssumption, Notify!Init PROVE DeskInv
<1> DEFINE c == Notify!Ask("sinks", None, None)
<1>1. posts = <<c>> /\ editor = None /\ rule = None /\ desk = Notify!Stored
  BY DEF Notify!Init, Notify!reload
<1>2. Has(CallFields, c) /\ c.kind = "sinks" /\ ~c.lost
  BY AskIs
<1> HIDE DEF c
<1>3. posts \in Seq({c}) /\ DOMAIN posts = {1} /\ posts[1] = c
  BY <1>1
<1>4. CallFine(c)
  BY <1>2 DEF CallFine
<1> DEFINE R == {CHOOSE r \in Routes : TRUE}
           Sink(id) == [place |-> SinksAt[id], to |-> <<>>, body |-> "none"]
           v == [priority |-> 100, typed |-> 100, sinks |-> DOMAIN SinksAt, on |-> TRUE]
<1>5. /\ Has(DeskFields, desk) /\ desk.sinks = [id \in DOMAIN SinksAt |-> Sink(id)] /\ desk.secret = SinksAt
      /\ desk.routes = [r \in R |-> v]
  <2>1. desk = [sinks |-> [id \in DOMAIN SinksAt |-> Sink(id)], secret |-> SinksAt, routes |-> [r \in R |-> v], box |-> Box]
    BY <1>1 DEF Notify!Stored
  <2> HIDE DEF Sink, R, v
  <2> QED BY <2>1 DEF Has, DeskFields
<1>6. /\ Has({"rows", "routes", "log", "filter", "testing"}, screen) /\ screen.rows = [id \in {} |-> {}]
      /\ screen.log = [d \in {} |-> {}]
  BY DEF Notify!Init, Has
<1>7. Has({"strayed", "silent", "sent"}, kept) /\ ~kept.strayed /\ kept.silent = {}
  BY DEF Notify!Init, Has
<1>8. /\ DOMAIN desk.sinks = DOMAIN SinksAt
      /\ \A id \in DOMAIN desk.sinks : /\ Has({"place", "to", "body"}, desk.sinks[id]) /\ desk.sinks[id].place = SinksAt[id]
                                       /\ desk.sinks[id].place \in Places
  <2>1. \A id : Has({"place", "to", "body"}, Sink(id)) /\ Sink(id).place = SinksAt[id]
    BY DEF Has
  <2> HIDE DEF Sink
  <2> QED BY <1>5, <2>1 DEF DeskAssumption
<1>9. \A r \in DOMAIN desk.routes : /\ Has(RuleFields, desk.routes[r]) /\ desk.routes[r].typed = 100
                                    /\ desk.routes[r].priority = 100
  <2>1. Has(RuleFields, v) /\ v.typed = 100 /\ v.priority = 100
    BY DEF Has, RuleFields
  <2> HIDE DEF v, R
  <2> QED BY <1>5, <2>1
<1>10. DOMAIN screen.rows = {} /\ Has(DOMAIN screen.rows, screen.rows) /\ DOMAIN screen.log = {}
  BY <1>6 DEF Has
<1>11. DeskShape
  BY <1>1, <1>3, <1>5, <1>6, <1>7, <1>8, <1>9, <1>10 DEF DeskShape, DeskFields
<1>12. Bound
  BY <1>5, <1>8 DEF Bound
<1>13. Notify!PriorityAsTyped
  <2> SUFFICES ASSUME NEW r \in DOMAIN desk.routes
               PROVE  desk.routes[r].priority = IF desk.routes[r].typed = None THEN 100 ELSE desk.routes[r].typed
    BY DEF Notify!PriorityAsTyped
  <2> QED BY <1>9
<1>14. RowsFresh /\ RoutesFresh
  BY <1>2, <1>3 DEF RowsFresh, RoutesFresh
<1>15. LogFresh
  BY <1>2, <1>3, <1>10 DEF LogFresh
<1>16. PreviewFresh
  BY <1>1 DEF PreviewFresh
<1> QED BY <1>3, <1>4, <1>7, <1>11, <1>12, <1>13, <1>14, <1>15, <1>16 DEF DeskInv, Notify!UnboundIsSaid

LEMMA StepDesk == ASSUME DeskAssumption, DeskInv, [Notify!Next]_Notify!vars PROVE DeskInv'
<1>1. CASE Notify!serve
  BY <1>1, ServeStep
<1>2. CASE Notify!dispatched
  BY <1>2, DispatchedStep
<1>3. CASE Notify!answer
  BY <1>3, AnswerStep
<1>4. CASE Notify!add
  BY <1>4, AddStep
<1>5. CASE Notify!edit
  BY <1>5, EditStep
<1>6. CASE Notify!Fields
  BY <1>6, FieldsStep
<1>7. CASE Notify!closeEditor
  BY <1>7, CloseEditorStep
<1>8. CASE Notify!previewDue
  BY <1>8, PreviewDueStep
<1>9. CASE Notify!saveSink
  BY <1>9, SaveSinkStep
<1>10. CASE Notify!saveRoute
  BY <1>10, SaveRouteStep
<1>11. CASE Notify!loadDeliveries
  BY <1>11, LoadDeliveriesStep
<1>12. CASE \/ Notify!useDefaultPayload \/ Notify!clearSecret \/ Notify!testSink \/ Notify!removeSink
            \/ Notify!addRoute \/ Notify!editRoute \/ Notify!fillRoute \/ Notify!removeRoute \/ Notify!retryDelivery
  BY <1>12, AskingStep
<1>13. CASE UNCHANGED Notify!vars
  <2>1. UNCHANGED <<desk, screen, editor, rule, posts, kept>>
    BY <1>13 DEF Notify!vars
  <2>2. PageShape'
    BY <2>1, ShapeNow DEF PageShape
  <2> QED BY <2>1, <2>2, DeskGesture
<1> QED BY <1>1, <1>2, <1>3, <1>4, <1>5, <1>6, <1>7, <1>8, <1>9, <1>10, <1>11, <1>12, <1>13 DEF Notify!Next

LEMMA DeskAlways == ASSUME DeskAssumption PROVE Notify!Spec => []DeskInv
<1>1. Notify!Init => DeskInv
  BY DeskInit
<1>2. DeskInv /\ [Notify!Next]_Notify!vars => DeskInv'
  BY StepDesk
<1> QED BY <1>1, <1>2, PTL DEF Notify!Spec

\* The notification page: a credential never serves another place than its own
\* (NotifySaveSink, boundSinkSecret), and its loss is said to whoever knew of
\* it (saveSink).
THEOREM CredentialsStay == ASSUME DeskAssumption PROVE Notify!Spec => [](Notify!CredentialStays /\ Notify!UnboundIsSaid)
<1>1. DeskInv => Notify!CredentialStays /\ Notify!UnboundIsSaid
  BY DEF DeskInv, Bound, Notify!CredentialStays
<1> QED BY <1>1, DeskAlways, PTL

\* The notification page is as it was set: beside the credentials, it lists what
\* is stored once nothing is under way, its log is of the filter and its preview
\* of the form, and a rule has the priority that was typed (reload,
\* loadDeliveries, refreshPreview, saveRoute).
THEOREM PageIsAsSet == ASSUME DeskAssumption PROVE Notify!Spec => []NotificationsAsSet
<1>1. DeskInv => Notify!PageIsWhatIsStored
  BY DEF DeskInv, RowsFresh, RoutesFresh, Notify!PageIsWhatIsStored
<1>2. DeskInv => Notify!LogIsOfTheFilter
  BY DEF DeskInv, LogFresh, Newest, Notify!LogIsOfTheFilter
<1>3. DeskInv => Notify!PreviewIsOfTheForm
  BY DEF DeskInv, PreviewFresh, Newest, Notify!PreviewIsOfTheForm
<1>4. DeskInv => Notify!PriorityAsTyped
  BY DEF DeskInv
<1>5. DeskInv => Notify!CredentialStays /\ Notify!UnboundIsSaid
  BY DEF DeskInv, Bound, Notify!CredentialStays
<1>6. DeskInv => Notify!NotificationsAsSet
  BY <1>1, <1>2, <1>3, <1>4, <1>5 DEF Notify!NotificationsAsSet
<1>7. DeskInv => NotificationsAsSet
  BY <1>6 DEF NotificationsAsSet
<1> QED BY <1>7, DeskAlways, PTL

(***************************************************************************)
(* SimulatorDesk: what the dialog of the simulator shows of the bench.     *)
(*                                                                         *)
(* Each call carries the dialog that made it, and a dialog has a number of *)
(* its own: so what a closed dialog left on the way is told apart.  What   *)
(* is not as Go has it is on the way: a list, the deletion of a model, the *)
(* preview that was asked last.                                            *)
(***************************************************************************)
\* Lists are answered in the order asked; what is typed in a faults panel is a
\* number; there is a model besides the custom one; and nothing is no record.
BenchAssumption ==
  /\ ListsInOrder /\ MAX_LATENCY_MS \in Nat /\ 1 \in COUNTER_SPEEDS
  /\ \A f \in FaultForms : f.latency \in Int /\ f.loss \in Int /\ f.percent \in Int
  /\ Catalogue[1] \in Bench!Ids \ {Custom} /\ Custom \in Bench!Ids
  /\ Present \subseteq Devices /\ None \notin Devices
  /\ None \notin {"faults", "duplicate"} /\ \A fields : ~Has(fields, None)

OrderFields == {"n", "kind", "dev", "with", "after", "me", "served", "ok", "answer"}
DialogFields == {"me", "editing", "tab", "saving", "busy", "confirm", "preview", "failed", "timer", "seq",
                 "busyPreview", "confirmModel", "exports", "stopAsked"}
DeviceForm == {"id", "model", "text"}
TallyFields == {"calls", "clicks", "auto", "crossed"}
FormFits(e) == Has(DeviceForm, e) /\ (e.id = None => e.model \in Bench!Ids)

DeviceFits(v) == Has({"model", "running", "faults", "text"}, v) /\ v.running \in BOOLEAN

\* What Go holds, and the list of it.
BenchOf(g) == /\ Has({"devs", "models"}, g) /\ DOMAIN g.devs \subseteq Devices
              /\ g.devs = [d \in DOMAIN g.devs |-> g.devs[d]]
              /\ \A d \in DOMAIN g.devs : DeviceFits(g.devs[d])
              /\ Bench!Ids \ {Custom} \subseteq g.models /\ g.models \subseteq Bench!Ids

BenchShape ==
  /\ BenchOf(bench) /\ BenchOf(listed)
  /\ Has(TallyFields, tally) /\ tally.clicks \in Nat /\ tally.crossed \in BOOLEAN
  /\ \E S : orders \in Seq(S)
  /\ modal # None => /\ Has(DialogFields, modal) /\ modal.me \in 0..tally.clicks /\ modal.seq \in Nat
                     /\ modal.editing # None => FormFits(modal.editing)

\* What a call may be that is under way.
OrderFine(c, clicks, m) ==
  /\ Has(OrderFields, c) /\ c.me \in 0..clicks
  /\ c.kind # "list" => c.after = None
  /\ c.kind = "faults" => Bench!Check(c.with)
  /\ c.kind = "deleteModel" => c.with = Custom
  /\ c.kind \in {"suggest", "credentials"} => FormFits(c.with) /\ (c.with.id = None => c.with.model = Catalogue[1])
  /\ c.kind = "preview" /\ m # None /\ c.me = m.me => c.n \in Int /\ c.n <= m.seq

OrdersFine == \A i \in DOMAIN orders : OrderFine(orders[i], tally.clicks, modal)

\* A call of this dialog that keeps a device busy; each has one.
Ours(c, me) == c.me = me /\ (c.kind \in Bench!Ops \/ c.after \in {"faults", "duplicate"})
BusyOf(cs, me, busy) ==
  /\ \A i \in DOMAIN cs : Ours(cs[i], me) => cs[i].dev \in busy
  /\ \A d \in busy : \E i \in DOMAIN cs : Ours(cs[i], me) /\ cs[i].dev = d
  /\ \A i, j \in DOMAIN cs : Ours(cs[i], me) /\ Ours(cs[j], me) /\ cs[i].dev = cs[j].dev => i = j

\* The preview asked last is of the form, and the one shown when it is back.
OfLast(c, m) == c.kind = "preview" /\ c.me = m.me /\ c.n = m.seq
PreviewOf(cs, m) ==
  m.editing # None /\ m.tab = "data" /\ ~m.timer =>
    /\ \A i \in DOMAIN cs : OfLast(cs[i], m) => cs[i].with = m.editing
    /\ ~m.busyPreview /\ ~m.failed => m.preview = m.editing

ListFine == listed = bench \/ \E i \in DOMAIN orders : orders[i].kind = "list"

\* A deletion that Go has made, and the dialog has not heard of.
Deletes(c) == c.kind = "deleteModel"
Deleted(cs) == \E i \in DOMAIN cs : Deletes(cs[i]) /\ cs[i].served /\ cs[i].ok
\* A call of the dialog that has a model come back.
Adds(c, m) == m # None /\ c.me = m.me /\ c.kind \in {"importModels", "record"}
\* A new device of the custom model.
OfCustom(m) == m # None /\ m.editing # None /\ m.editing.id = None /\ m.editing.model = Custom

\* Nothing crossed a deletion: it is of this dialog, and alone.
DeletionOf(cs, m, gone, there) ==
  /\ \A i \in DOMAIN cs : Deletes(cs[i]) => m # None /\ cs[i].me = m.me
  /\ \A i, j \in DOMAIN cs : ~(Adds(cs[i], m) /\ Deletes(cs[j]))
  /\ \A i \in DOMAIN cs : Adds(cs[i], m) /\ cs[i].served /\ cs[i].ok => Custom \in there
  /\ Custom \in gone \/ OfCustom(m) => Custom \in there \/ Deleted(cs)

BenchInv ==
  /\ BenchShape /\ OrdersFine /\ ListFine /\ ~declined
  /\ modal # None => BusyOf(orders, modal.me, modal.busy) /\ PreviewOf(orders, modal)
  /\ ~tally.crossed => DeletionOf(orders, modal, listed.models, bench.models)

-----------------------------------------------------------------------------
(* Calls that are made, answered and served. *)

\* What becomes of the calls: the one at k goes, if there is one, and one more may come.
Passed(old, new, k, more) ==
  /\ \E T : new \in Seq(T)
  /\ \A i \in DOMAIN old : i # k => Moved(i, k) \in DOMAIN new /\ new[Moved(i, k)] = old[i]
  /\ \A i \in DOMAIN new : \/ \E j \in DOMAIN old : j # k /\ i = Moved(j, k) /\ new[i] = old[j]
                           \/ i = Len(new) /\ more # <<>> /\ new[i] = more[1]
  /\ more # <<>> => Len(new) \in DOMAIN new /\ new[Len(new)] = more[1]
  /\ \A i \in DOMAIN old : i \in Int
  /\ \A j \in DOMAIN old : more # <<>> /\ j # k => Len(new) # Moved(j, k)

LEMMA JoinedPasses ==
  ASSUME NEW S, NEW cs \in Seq(S), NEW k \in Int, NEW T, NEW w \in Seq(T),
         \A i \in DOMAIN cs : i # k => Moved(i, k) \in DOMAIN w /\ w[Moved(i, k)] = cs[i],
         \A i \in DOMAIN w : \E j \in DOMAIN cs : j # k /\ i = Moved(j, k) /\ w[i] = cs[j],
         NEW more, more = <<>> \/ \E t : more = <<t>>
  PROVE  Passed(cs, w \o more, k, more)
<1> DEFINE new == w \o more
           n == Len(w)
<1>1. n \in Nat /\ DOMAIN w = 1..n /\ \A i \in DOMAIN cs : i \in Int
  OBVIOUS
<1>2. CASE more = <<>>
  <2>1. new = w
    BY <1>2
  <2> QED BY <1>1, <1>2, <2>1 DEF Passed
<1>3. CASE \E t : more = <<t>>
  <2>1. PICK t : more = <<t>>
    BY <1>3
  <2>2. w \in Seq(T \cup {t}) /\ <<t>> \in Seq(T \cup {t})
    BY SeqMonotonic
  <2>3. more # <<>> /\ more[1] = t /\ Len(more) = 1
    BY <2>1
  <2>4. /\ new \in Seq(T \cup {t}) /\ Len(new) = n + 1 /\ DOMAIN new = 1..(n + 1)
        /\ \A i \in 1..(n + 1) : new[i] = IF i <= n THEN w[i] ELSE more[i - n]
    BY <2>1, <2>2, <2>3, JoinedAt
  <2> HIDE DEF new, n
  <2>5. n + 1 \in 1..(n + 1) /\ ~(n + 1 <= n) /\ (n + 1) - n = 1 /\ \A i \in 1..n : i \in 1..(n + 1) /\ i <= n
    BY <1>1
  <2>6. \A i \in 1..(n + 1) : i \in 1..n \/ i = n + 1
    BY <1>1
  <2>7. new[n + 1] = more[1] /\ \A i \in 1..n : new[i] = w[i]
    BY <2>4, <2>5
  <2>8. \A i \in DOMAIN cs : i # k => Moved(i, k) \in 1..n /\ Moved(i, k) # n + 1
    BY <1>1
  <2>9. \A i \in DOMAIN cs : i # k => Moved(i, k) \in DOMAIN new /\ new[Moved(i, k)] = cs[i]
    BY <1>1, <2>4, <2>5, <2>7, <2>8
  <2>10. \A i \in DOMAIN new : \/ \E j \in DOMAIN cs : j # k /\ i = Moved(j, k) /\ new[i] = cs[j]
                               \/ i = Len(new) /\ more # <<>> /\ new[i] = more[1]
    BY <1>1, <2>3, <2>4, <2>6, <2>7
  <2>11. Len(new) \in DOMAIN new /\ new[Len(new)] = more[1]
    BY <2>4, <2>5, <2>7
  <2> QED BY <1>1, <2>3, <2>4, <2>8, <2>9, <2>10, <2>11 DEF Passed, new
<1> QED BY <1>2, <1>3

LEMMA OneGonePasses ==
  ASSUME NEW S, NEW cs \in Seq(S), NEW k \in DOMAIN cs, NEW more, more = <<>> \/ \E t : more = <<t>>
  PROVE  Passed(cs, Bench!RemoveAt(cs, k) \o more, k, more)
<1> DEFINE w == Bench!RemoveAt(cs, k)
           n == Len(cs) - 1
<1>1. w = Notify!RemoveAt(cs, k)
  BY DEF Bench!RemoveAt, Notify!RemoveAt
<1> HIDE DEF w
<1>2. w \in Seq(S) /\ DOMAIN w = 1..n /\ \A i \in 1..n : w[i] = IF i < k THEN cs[i] ELSE cs[i + 1]
  BY <1>1, OneGone
<1>3. k \in 1..Len(cs) /\ Len(cs) \in Nat /\ DOMAIN cs = 1..Len(cs) /\ n \in Nat /\ k \in Int
  OBVIOUS
<1>4. ASSUME NEW i \in DOMAIN cs, i # k PROVE Moved(i, k) \in DOMAIN w /\ w[Moved(i, k)] = cs[i]
  <2>1. Moved(i, k) \in 1..n /\ i = IF Moved(i, k) < k THEN Moved(i, k) ELSE Moved(i, k) + 1
    BY <1>3, <1>4 DEF Moved
  <2> QED BY <1>2, <2>1
<1>5. ASSUME NEW i \in DOMAIN w PROVE \E j \in DOMAIN cs : j # k /\ i = Moved(j, k) /\ w[i] = cs[j]
  <2> DEFINE j == IF i < k THEN i ELSE i + 1
  <2>1. j \in DOMAIN cs /\ j # k /\ i = Moved(j, k)
    BY <1>2, <1>3 DEF Moved
  <2> QED BY <1>4, <2>1
<1> HIDE DEF n
<1>6. Passed(cs, w \o more, k, more)
  BY <1>2, <1>3, <1>4, <1>5, JoinedPasses
<1> QED BY <1>6 DEF w

\* None goes: k is after the last.
LEMMA NoneGonePasses ==
  ASSUME NEW S, NEW cs \in Seq(S), NEW more, more = <<>> \/ \E t : more = <<t>>
  PROVE  /\ Passed(cs, cs \o more, Len(cs) + 1, more) /\ Len(cs) + 1 \notin DOMAIN cs
         /\ \A c : more = <<c>> => Append(cs, c) = cs \o more
<1> DEFINE k == Len(cs) + 1
<1>1. k \in Int /\ DOMAIN cs = 1..Len(cs) /\ Len(cs) \in Nat /\ k \notin DOMAIN cs
  OBVIOUS
<1>2. \A i \in DOMAIN cs : Moved(i, k) = i
  BY <1>1 DEF Moved
<1>3. Passed(cs, cs \o more, k, more)
  BY <1>1, <1>2, JoinedPasses
<1>4. \A c : more = <<c>> => Append(cs, c) = cs \o more
  OBVIOUS
<1> QED BY <1>1, <1>3, <1>4

\* A call that is added, and one that goes.
LEMMA CallAdded ==
  ASSUME BenchShape, NEW c, orders' = Append(orders, c)
  PROVE  Passed(orders, orders', Len(orders) + 1, <<c>>) /\ Len(orders) + 1 \notin DOMAIN orders
<1>1. PICK S : orders \in Seq(S)
  BY DEF BenchShape
<1>2. <<c>> = <<>> \/ \E t : <<c>> = <<t>>
  OBVIOUS
<1> QED BY <1>1, <1>2, NoneGonePasses

LEMMA OneMore == ASSUME NEW c PROVE <<c>> # <<>> /\ <<c>>[1] = c
OBVIOUS

-----------------------------------------------------------------------------
(* The devices that are busy. *)

LEMMA BusyAround ==
  ASSUME NEW cs, NEW new, NEW k, NEW more, NEW me, NEW busy, BusyOf(cs, me, busy), Passed(cs, new, k, more),
         k \in DOMAIN cs => ~Ours(cs[k], me), more # <<>> => ~Ours(more[1], me)
  PROVE  BusyOf(new, me, busy)
<1>1. \A i \in DOMAIN new : Ours(new[i], me) => \E j \in DOMAIN cs : j # k /\ i = Moved(j, k) /\ new[i] = cs[j]
  BY DEF Passed
<1>2. \A i \in DOMAIN new : Ours(new[i], me) => new[i].dev \in busy
  BY <1>1 DEF BusyOf
<1>3. \A d \in busy : \E i \in DOMAIN new : Ours(new[i], me) /\ new[i].dev = d
  <2> SUFFICES ASSUME NEW d \in busy PROVE \E i \in DOMAIN new : Ours(new[i], me) /\ new[i].dev = d
    OBVIOUS
  <2>1. PICK j \in DOMAIN cs : Ours(cs[j], me) /\ cs[j].dev = d
    BY DEF BusyOf
  <2>2. j # k /\ Moved(j, k) \in DOMAIN new /\ new[Moved(j, k)] = cs[j]
    BY <2>1 DEF Passed
  <2> QED BY <2>1, <2>2
<1>4. ASSUME NEW i \in DOMAIN new, NEW j \in DOMAIN new, Ours(new[i], me), Ours(new[j], me), new[i].dev = new[j].dev
      PROVE  i = j
  <2>1. PICK p \in DOMAIN cs : p # k /\ i = Moved(p, k) /\ new[i] = cs[p]
    BY <1>1, <1>4
  <2>2. PICK q \in DOMAIN cs : q # k /\ j = Moved(q, k) /\ new[j] = cs[q]
    BY <1>1, <1>4
  <2>3. p = q
    BY <1>4, <2>1, <2>2 DEF BusyOf
  <2> QED BY <2>1, <2>2, <2>3
<1> QED BY <1>2, <1>3, <1>4 DEF BusyOf

\* One call of a device begins, for a device that has none.
LEMMA BusyBegins ==
  ASSUME NEW cs, NEW new, NEW k, NEW c, NEW me, NEW busy, BusyOf(cs, me, busy), Passed(cs, new, k, <<c>>),
         k \notin DOMAIN cs, Ours(c, me), c.dev \notin busy
  PROVE  BusyOf(new, me, busy \cup {c.dev})
<1>1. /\ Len(new) \in DOMAIN new /\ new[Len(new)] = c
      /\ \A i \in DOMAIN new : \/ \E j \in DOMAIN cs : i = Moved(j, k) /\ new[i] = cs[j]
                               \/ i = Len(new) /\ new[i] = c
      /\ \A j \in DOMAIN cs : j # k /\ Moved(j, k) \in DOMAIN new /\ new[Moved(j, k)] = cs[j]
  BY OneMore DEF Passed
<1>2. \A i \in DOMAIN new : Ours(new[i], me) => new[i].dev \in busy \cup {c.dev}
  BY <1>1 DEF BusyOf
<1>3. \A d \in busy \cup {c.dev} : \E i \in DOMAIN new : Ours(new[i], me) /\ new[i].dev = d
  <2>1. \E i \in DOMAIN new : Ours(new[i], me) /\ new[i].dev = c.dev
    BY <1>1
  <2>2. ASSUME NEW d \in busy PROVE \E i \in DOMAIN new : Ours(new[i], me) /\ new[i].dev = d
    <3>1. PICK j \in DOMAIN cs : Ours(cs[j], me) /\ cs[j].dev = d
      BY DEF BusyOf
    <3> QED BY <1>1, <3>1
  <2> QED BY <2>1, <2>2
<1>4. ASSUME NEW i \in DOMAIN new, NEW j \in DOMAIN new, Ours(new[i], me), Ours(new[j], me), new[i].dev = new[j].dev
      PROVE  i = j
  <2>1. \A p \in DOMAIN cs : Ours(cs[p], me) => cs[p].dev # c.dev
    BY DEF BusyOf
  <2>2. \A p \in {i, j} : \/ \E q \in DOMAIN cs : p = Moved(q, k) /\ new[p] = cs[q]
                          \/ p = Len(new) /\ new[p] = c
    BY <1>1
  <2>3. CASE new[i] = c /\ i = Len(new)
    BY <1>4, <2>1, <2>2, <2>3
  <2>4. CASE new[j] = c /\ j = Len(new)
    BY <1>4, <2>1, <2>2, <2>4
  <2>5. CASE /\ \E q \in DOMAIN cs : i = Moved(q, k) /\ new[i] = cs[q]
             /\ \E q \in DOMAIN cs : j = Moved(q, k) /\ new[j] = cs[q]
    <3>1. PICK p \in DOMAIN cs : i = Moved(p, k) /\ new[i] = cs[p]
      BY <2>5
    <3>2. PICK q \in DOMAIN cs : j = Moved(q, k) /\ new[j] = cs[q]
      BY <2>5
    <3>3. p = q
      BY <1>4, <3>1, <3>2 DEF BusyOf
    <3> QED BY <3>1, <3>2, <3>3
  <2> QED BY <2>2, <2>3, <2>4, <2>5
<1> QED BY <1>2, <1>3, <1>4 DEF BusyOf

\* A call of a device ends.
LEMMA BusyEnds ==
  ASSUME NEW cs, NEW new, NEW k \in DOMAIN cs, NEW more, NEW me, NEW busy, BusyOf(cs, me, busy),
         Passed(cs, new, k, more), Ours(cs[k], me), more # <<>> => ~Ours(more[1], me)
  PROVE  BusyOf(new, me, busy \ {cs[k].dev})
<1>1. \A i \in DOMAIN new : Ours(new[i], me) => \E j \in DOMAIN cs : j # k /\ i = Moved(j, k) /\ new[i] = cs[j]
  BY DEF Passed
<1>2. \A j \in DOMAIN cs : j # k /\ Ours(cs[j], me) => cs[j].dev # cs[k].dev
  BY DEF BusyOf
<1>3. \A i \in DOMAIN new : Ours(new[i], me) => new[i].dev \in busy \ {cs[k].dev}
  BY <1>1, <1>2 DEF BusyOf
<1>4. \A d \in busy \ {cs[k].dev} : \E i \in DOMAIN new : Ours(new[i], me) /\ new[i].dev = d
  <2> SUFFICES ASSUME NEW d \in busy \ {cs[k].dev} PROVE \E i \in DOMAIN new : Ours(new[i], me) /\ new[i].dev = d
    OBVIOUS
  <2>1. PICK j \in DOMAIN cs : Ours(cs[j], me) /\ cs[j].dev = d
    BY DEF BusyOf
  <2>2. j # k /\ Moved(j, k) \in DOMAIN new /\ new[Moved(j, k)] = cs[j]
    BY <2>1 DEF Passed
  <2> QED BY <2>1, <2>2
<1>5. ASSUME NEW i \in DOMAIN new, NEW j \in DOMAIN new, Ours(new[i], me), Ours(new[j], me), new[i].dev = new[j].dev
      PROVE  i = j
  <2>1. PICK p \in DOMAIN cs : p # k /\ i = Moved(p, k) /\ new[i] = cs[p]
    BY <1>1, <1>5
  <2>2. PICK q \in DOMAIN cs : q # k /\ j = Moved(q, k) /\ new[j] = cs[q]
    BY <1>1, <1>5
  <2>3. p = q
    BY <1>5, <2>1, <2>2 DEF BusyOf
  <2> QED BY <2>1, <2>2, <2>3
<1> QED BY <1>3, <1>4, <1>5 DEF BusyOf

\* A call of a device is answered, and the list that the dialog asks for keeps it busy.
LEMMA BusyGoesOn ==
  ASSUME NEW cs, NEW new, NEW k \in DOMAIN cs, NEW c, NEW me, NEW busy, BusyOf(cs, me, busy),
         Passed(cs, new, k, <<c>>), Ours(cs[k], me), Ours(c, me), c.dev = cs[k].dev
  PROVE  BusyOf(new, me, busy)
<1>1. /\ Len(new) \in DOMAIN new /\ new[Len(new)] = c
      /\ \A i \in DOMAIN new : \/ \E j \in DOMAIN cs : j # k /\ i = Moved(j, k) /\ new[i] = cs[j]
                               \/ i = Len(new) /\ new[i] = c
  BY OneMore DEF Passed
<1>2. \A j \in DOMAIN cs : j # k /\ Ours(cs[j], me) => cs[j].dev # c.dev
  BY DEF BusyOf
<1>3. \A i \in DOMAIN new : Ours(new[i], me) => new[i].dev \in busy
  BY <1>1 DEF BusyOf
<1>4. \A d \in busy : \E i \in DOMAIN new : Ours(new[i], me) /\ new[i].dev = d
  <2> SUFFICES ASSUME NEW d \in busy PROVE \E i \in DOMAIN new : Ours(new[i], me) /\ new[i].dev = d
    OBVIOUS
  <2>1. PICK j \in DOMAIN cs : Ours(cs[j], me) /\ cs[j].dev = d
    BY DEF BusyOf
  <2>2. CASE j # k
    <3>1. Moved(j, k) \in DOMAIN new /\ new[Moved(j, k)] = cs[j]
      BY <2>2 DEF Passed
    <3> QED BY <2>1, <3>1
  <2>3. CASE j = k
    BY <1>1, <2>1, <2>3
  <2> QED BY <2>2, <2>3
<1>5. ASSUME NEW i \in DOMAIN new, NEW j \in DOMAIN new, Ours(new[i], me), Ours(new[j], me), new[i].dev = new[j].dev
      PROVE  i = j
  <2>1. \A p \in {i, j} : \/ \E q \in DOMAIN cs : q # k /\ p = Moved(q, k) /\ new[p] = cs[q]
                          \/ p = Len(new) /\ new[p] = c
    BY <1>1
  <2>2. CASE new[i] = c /\ i = Len(new)
    BY <1>2, <1>5, <2>1, <2>2
  <2>3. CASE new[j] = c /\ j = Len(new)
    BY <1>2, <1>5, <2>1, <2>3
  <2>4. CASE /\ \E q \in DOMAIN cs : q # k /\ i = Moved(q, k) /\ new[i] = cs[q]
             /\ \E q \in DOMAIN cs : q # k /\ j = Moved(q, k) /\ new[j] = cs[q]
    <3>1. PICK p \in DOMAIN cs : i = Moved(p, k) /\ new[i] = cs[p]
      BY <2>4
    <3>2. PICK q \in DOMAIN cs : j = Moved(q, k) /\ new[j] = cs[q]
      BY <2>4
    <3>3. p = q
      BY <1>5, <3>1, <3>2 DEF BusyOf
    <3> QED BY <3>1, <3>2, <3>3
  <2> QED BY <2>1, <2>2, <2>3, <2>4
<1> QED BY <1>3, <1>4, <1>5 DEF BusyOf

\* A call that Go serves is of the same device and dialog.
SameCall(a, b) == a.kind = b.kind /\ a.me = b.me /\ a.dev = b.dev /\ a.after = b.after /\ a.with = b.with /\ a.n = b.n

LEMMA BusyServed ==
  ASSUME NEW cs, NEW new, NEW me, NEW busy, BusyOf(cs, me, busy),
         DOMAIN new = DOMAIN cs, \A i \in DOMAIN cs : SameCall(new[i], cs[i])
  PROVE  BusyOf(new, me, busy)
<1>1. \A i \in DOMAIN cs : (Ours(new[i], me) <=> Ours(cs[i], me)) /\ new[i].dev = cs[i].dev
  BY DEF SameCall, Ours
<1> QED BY <1>1 DEF BusyOf

-----------------------------------------------------------------------------
(* Records. *)

\* A dialog that is changed in these fields only.
Touches(m, u, fields) == Has(DialogFields, u) /\ \A f \in DialogFields \ fields : u[f] = m[f]

\* The same dialog goes on.
Continues(m, u) == u # None => m # None /\ u.me = m.me /\ u.seq \in Int /\ u.seq >= m.seq

\* What is counted goes on, and what was crossed stays so.
TallyOn(u) == /\ Has(TallyFields, u) /\ u.clicks \in Nat /\ u.clicks >= tally.clicks /\ u.crossed \in BOOLEAN
              /\ tally.crossed => u.crossed

LEMMA TallyMoves ==
  ASSUME BenchShape,
         \/ UNCHANGED tally
         \/ \E k \in 0..1 : Bench!Clicked(k) \/ Bench!Crossing(k)
         \/ Bench!Counted
  PROVE  TallyOn(tally')
<1>1. Has(TallyFields, tally) /\ tally.clicks \in Nat /\ tally.crossed \in BOOLEAN
  BY DEF BenchShape
<1>2. DOMAIN tally = TallyFields
  BY <1>1, HasDomain
<1>3. CASE UNCHANGED tally
  BY <1>1, <1>3 DEF TallyOn
<1>4. ASSUME NEW k \in 0..1, Bench!Clicked(k) PROVE TallyOn(tally')
  <2>1. tally' = [tally EXCEPT !.clicks = @ + 1, !.calls = @ + k]
    BY <1>4 DEF Bench!Clicked
  <2>2. Has(TallyFields, tally')
    BY <1>2, <2>1 DEF Has, TallyFields
  <2> QED BY <1>1, <1>2, <2>1, <2>2 DEF TallyOn, TallyFields
<1>5. ASSUME NEW k \in 0..1, Bench!Crossing(k) PROVE TallyOn(tally')
  <2>1. tally' = [tally EXCEPT !.clicks = @ + 1, !.calls = @ + k, !.crossed = @ \/ Bench!Deleting]
    BY <1>5 DEF Bench!Crossing
  <2>2. Has(TallyFields, tally')
    BY <1>2, <2>1 DEF Has, TallyFields
  <2>3. tally'.clicks = tally.clicks + 1
    BY <1>2, <2>1 DEF TallyFields
  <2>4. tally'.crossed = (tally.crossed \/ Bench!Deleting)
    BY <1>2, <2>1 DEF TallyFields
  <2> QED BY <1>1, <2>2, <2>3, <2>4 DEF TallyOn
<1>6. ASSUME Bench!Counted PROVE TallyOn(tally')
  <2>1. tally' = [tally EXCEPT !.calls = @ + 1]
    BY <1>6 DEF Bench!Counted
  <2>2. Has(TallyFields, tally')
    BY <1>2, <2>1 DEF Has, TallyFields
  <2> QED BY <1>1, <1>2, <2>1, <2>2 DEF TallyOn, TallyFields
<1> QED BY <1>3, <1>4, <1>5, <1>6

LEMMA AskedIs ==
  ASSUME NEW kind, NEW dev, NEW with
  PROVE  LET c == Bench!Ask(kind, dev, with)
         IN /\ Has(OrderFields, c) /\ c.kind = kind /\ c.dev = dev /\ c.with = with /\ c.after = None
            /\ c.me = (IF modal = None THEN 0 ELSE modal.me) /\ ~c.served /\ c.n = 0
BY DEF Bench!Ask, Has, OrderFields

\* A list that is asked again, for whom and after what it is.
ListsAgain(c, d, then) ==
  /\ Has(OrderFields, c) /\ c.kind = "list" /\ c.dev = d.dev /\ c.me = d.me /\ c.after = then /\ ~c.served

LEMMA RefreshIs == ASSUME NEW c, NEW then PROVE ListsAgain(Bench!refresh(c, then), c, then)
<1> DEFINE a == Bench!Ask("list", c.dev, None)
           r == Bench!refresh(c, then)
<1>1. Has(OrderFields, a) /\ a.kind = "list" /\ a.dev = c.dev /\ ~a.served
  BY AskedIs
<1>2. DOMAIN a = OrderFields
  BY <1>1, HasDomain
<1>3. r = [a EXCEPT !.after = then, !.me = c.me]
  BY DEF Bench!refresh
<1> HIDE DEF a, r
<1>4. Has(OrderFields, r)
  BY <1>2, <1>3 DEF Has, OrderFields
<1>5. r.kind = "list" /\ r.dev = c.dev /\ r.me = c.me /\ r.after = then /\ ~r.served
  BY <1>1, <1>2, <1>3 DEF OrderFields
<1> QED BY <1>4, <1>5 DEF ListsAgain, r

LEMMA ListIsFine ==
  ASSUME NEW c, NEW d, NEW then, ListsAgain(c, d, then), NEW clicks, d.me \in 0..clicks, NEW m
  PROVE  OrderFine(c, clicks, m)
BY DEF ListsAgain, OrderFine

LEMMA FineStays ==
  ASSUME NEW c, NEW clicks \in Nat, NEW n \in Nat, n >= clicks, NEW m, NEW u, Continues(m, u), m # None => m.seq \in Nat,
         OrderFine(c, clicks, m)
  PROVE  OrderFine(c, n, u)
<1>1. c.me \in 0..n
  BY DEF OrderFine
<1>2. c.kind = "preview" /\ u # None /\ c.me = u.me => c.n \in Int /\ c.n <= u.seq
  BY DEF OrderFine, Continues
<1> QED BY <1>1, <1>2 DEF OrderFine

\* A fine call is as fine while it is served.
LEMMA SameIsFine ==
  ASSUME NEW c, NEW d, SameCall(d, c), Has(OrderFields, d), NEW clicks, NEW m, OrderFine(c, clicks, m)
  PROVE  OrderFine(d, clicks, m)
BY DEF SameCall, OrderFine

\* All calls stay fine as one goes and one comes.
LEMMA OrdersStayFine ==
  ASSUME BenchShape, OrdersFine, TallyOn(tally'), Continues(modal, modal'), NEW k, NEW more,
         Passed(orders, orders', k, more), more # <<>> => OrderFine(more[1], tally'.clicks, modal')
  PROVE  OrdersFine'
<1>1. \A i \in DOMAIN orders : OrderFine(orders[i], tally'.clicks, modal')
  <2> SUFFICES ASSUME NEW i \in DOMAIN orders PROVE OrderFine(orders[i], tally'.clicks, modal')
    OBVIOUS
  <2>1. /\ OrderFine(orders[i], tally.clicks, modal) /\ tally.clicks \in Nat /\ (modal # None => modal.seq \in Nat)
        /\ tally'.clicks \in Nat /\ tally'.clicks >= tally.clicks
    BY DEF OrdersFine, BenchShape, TallyOn
  <2> QED BY <2>1, FineStays
<1>2. \A i \in DOMAIN orders' : OrderFine(orders'[i], tally'.clicks, modal')
  BY <1>1 DEF Passed
<1> QED BY <1>2 DEF OrdersFine

-----------------------------------------------------------------------------
(* The preview. *)

ViewFields == {"me", "editing", "tab", "preview", "failed", "timer", "seq", "busyPreview"}
SameView(m, u) == \A f \in ViewFields : u[f] = m[f]

LEMMA TouchesView ==
  ASSUME NEW m, NEW u, NEW fields, Touches(m, u, fields), fields \cap ViewFields = {}
  PROVE  SameView(m, u)
BY DEF Touches, SameView, ViewFields, DialogFields

\* No preview comes, and the form and what is shown stay.
LEMMA PreviewStays ==
  ASSUME NEW cs, NEW new, NEW k, NEW more, Passed(cs, new, k, more), NEW m, NEW u, SameView(m, u), PreviewOf(cs, m),
         more # <<>> => ~OfLast(more[1], m)
  PROVE  PreviewOf(new, u)
<1>1. /\ u.me = m.me /\ u.editing = m.editing /\ u.tab = m.tab /\ u.preview = m.preview /\ u.failed = m.failed
      /\ u.timer = m.timer /\ u.seq = m.seq /\ u.busyPreview = m.busyPreview
  BY DEF SameView, ViewFields
<1>2. \A i \in DOMAIN new : OfLast(new[i], m) => \E j \in DOMAIN cs : new[i] = cs[j]
  BY DEF Passed
<1>3. \A c : OfLast(c, u) <=> OfLast(c, m)
  BY <1>1 DEF OfLast
<1> QED BY <1>1, <1>2, <1>3 DEF PreviewOf

\* The preview is asked of the form as it is.
LEMMA PreviewAsked ==
  ASSUME NEW cs, NEW new, NEW k, NEW c, Passed(cs, new, k, <<c>>), NEW m, NEW u, m.seq \in Nat,
         \A i \in DOMAIN cs : cs[i].kind = "preview" /\ cs[i].me = m.me => cs[i].n \in Int /\ cs[i].n <= m.seq,
         u.me = m.me, u.seq = m.seq + 1, u.busyPreview, c.with = u.editing
  PROVE  PreviewOf(new, u)
<1>1. \A i \in DOMAIN new : (\E j \in DOMAIN cs : new[i] = cs[j]) \/ new[i] = c
  BY OneMore DEF Passed
<1>2. \A j \in DOMAIN cs : ~OfLast(cs[j], u)
  BY DEF OfLast
<1> QED BY <1>1, <1>2 DEF PreviewOf

\* The preview asked last is back.
LEMMA PreviewIsBack ==
  ASSUME NEW cs, NEW new, NEW k \in DOMAIN cs, Passed(cs, new, k, <<>>), NEW m, NEW u, PreviewOf(cs, m),
         cs[k].kind = "preview", cs[k].me = m.me, cs[k].n = m.seq,
         u.me = m.me, u.editing = m.editing, u.tab = m.tab, u.timer = m.timer, u.seq = m.seq,
         u.failed \/ u.preview = cs[k].with
  PROVE  PreviewOf(new, u)
<1>1. \A i \in DOMAIN new : \E j \in DOMAIN cs : new[i] = cs[j]
  BY DEF Passed
<1>2. OfLast(cs[k], m) /\ \A c : OfLast(c, u) <=> OfLast(c, m)
  BY DEF OfLast
<1> QED BY <1>1, <1>2 DEF PreviewOf

\* Nothing is promised of a form that waits to be previewed, or that is not looked at.
LEMMA PreviewWaits ==
  ASSUME NEW cs, NEW u, u.editing = None \/ u.tab # "data" \/ u.timer
  PROVE  PreviewOf(cs, u)
BY DEF PreviewOf

-----------------------------------------------------------------------------
(* The models that are deleted, and come back. *)

LEMMA DeletionAdds ==
  ASSUME NEW cs, NEW new, NEW k, NEW more, Passed(cs, new, k, more), k \notin DOMAIN cs,
         NEW m, NEW u, NEW gone, NEW there, DeletionOf(cs, m, gone, there),
         m # None => u # None /\ u.me = m.me, u # None => m # None,
         OfCustom(u) => OfCustom(m) \/ Custom \in gone,
         more # <<>> /\ Deletes(more[1]) => m # None /\ more[1].me = m.me /\ \A i \in DOMAIN cs : ~Adds(cs[i], m),
         more # <<>> /\ Adds(more[1], m) => ~more[1].served /\ \A i \in DOMAIN cs : ~Deletes(cs[i])
  PROVE  DeletionOf(new, u, gone, there)
<1>1. \A i \in DOMAIN new : (\E j \in DOMAIN cs : new[i] = cs[j]) \/ (more # <<>> /\ new[i] = more[1])
  BY DEF Passed
<1>2. \A j \in DOMAIN cs : \E i \in DOMAIN new : new[i] = cs[j]
  BY DEF Passed
<1>3. \A c : Adds(c, u) <=> Adds(c, m)
  BY DEF Adds
<1>4. \A c : ~(Adds(c, m) /\ Deletes(c))
  BY DEF Adds, Deletes
<1>5. \A i \in DOMAIN new : Deletes(new[i]) => u # None /\ new[i].me = u.me
  BY <1>1 DEF DeletionOf
<1>6. \A i, j \in DOMAIN new : ~(Adds(new[i], u) /\ Deletes(new[j]))
  BY <1>1, <1>3, <1>4 DEF DeletionOf
<1>7. \A i \in DOMAIN new : Adds(new[i], u) /\ new[i].served /\ new[i].ok => Custom \in there
  BY <1>1, <1>3 DEF DeletionOf
<1>8. Deleted(cs) => Deleted(new)
  BY <1>2 DEF Deleted
<1> QED BY <1>5, <1>6, <1>7, <1>8 DEF DeletionOf

\* An answer that is not of a deletion: the list is of before, or of Go.
LEMMA DeletionAround ==
  ASSUME NEW cs, NEW new, NEW k \in DOMAIN cs, NEW more, Passed(cs, new, k, more), ~Deletes(cs[k]),
         NEW m, NEW u, NEW gone, NEW there, NEW told \in {gone, there}, DeletionOf(cs, m, gone, there),
         m # None => u # None /\ u.me = m.me, u # None => m # None,
         OfCustom(u) => OfCustom(m) \/ Custom \in there,
         more # <<>> => more[1].kind = "list"
  PROVE  DeletionOf(new, u, told, there)
<1>1. \A i \in DOMAIN new : (\E j \in DOMAIN cs : new[i] = cs[j]) \/ (more # <<>> /\ new[i] = more[1])
  BY DEF Passed
<1>2. \A j \in DOMAIN cs : Deletes(cs[j]) => \E i \in DOMAIN new : new[i] = cs[j]
  BY DEF Passed
<1>3. \A c : Adds(c, u) <=> Adds(c, m)
  BY DEF Adds
<1>4. \A c : c.kind = "list" => ~Adds(c, m) /\ ~Deletes(c)
  BY DEF Adds, Deletes
<1>5. \A i \in DOMAIN new : Deletes(new[i]) => u # None /\ new[i].me = u.me
  BY <1>1, <1>4 DEF DeletionOf
<1>6. \A i, j \in DOMAIN new : ~(Adds(new[i], u) /\ Deletes(new[j]))
  BY <1>1, <1>3, <1>4 DEF DeletionOf
<1>7. \A i \in DOMAIN new : Adds(new[i], u) /\ new[i].served /\ new[i].ok => Custom \in there
  BY <1>1, <1>3, <1>4 DEF DeletionOf
<1>8. Deleted(cs) => Deleted(new)
  BY <1>2 DEF Deleted
<1> QED BY <1>5, <1>6, <1>7, <1>8 DEF DeletionOf

\* A deletion is heard of: the list has the models there are, and no new device
\* is of the one deleted; a deletion refused changes nothing.
LEMMA DeletionHeard ==
  ASSUME NEW cs, NEW new, NEW k \in DOMAIN cs, Passed(cs, new, k, <<>>),
         NEW m, NEW u, NEW gone, NEW there, NEW told, DeletionOf(cs, m, gone, there),
         m # None => u # None /\ u.me = m.me, u # None => m # None,
         \/ told = there /\ ~OfCustom(u)
         \/ told = gone /\ u = m /\ ~cs[k].ok
  PROVE  DeletionOf(new, u, told, there)
<1>1. \A i \in DOMAIN new : \E j \in DOMAIN cs : new[i] = cs[j]
  BY DEF Passed
<1>2. \A c : Adds(c, u) <=> Adds(c, m)
  BY DEF Adds
<1>3. \A i \in DOMAIN new : Deletes(new[i]) => u # None /\ new[i].me = u.me
  BY <1>1 DEF DeletionOf
<1>4. \A i, j \in DOMAIN new : ~(Adds(new[i], u) /\ Deletes(new[j]))
  BY <1>1, <1>2 DEF DeletionOf
<1>5. \A i \in DOMAIN new : Adds(new[i], u) /\ new[i].served /\ new[i].ok => Custom \in there
  BY <1>1, <1>2 DEF DeletionOf
<1>6. ~cs[k].ok /\ Deleted(cs) => Deleted(new)
  BY DEF Deleted, Passed
<1> QED BY <1>3, <1>4, <1>5, <1>6 DEF DeletionOf

\* A call that is served, or given up: a model leaves by a deletion only, and one
\* that comes back is there.
LEMMA DeletionServed ==
  ASSUME NEW cs, NEW new, NEW k \in DOMAIN cs, DOMAIN new = DOMAIN cs,
         \A i \in DOMAIN cs : SameCall(new[i], cs[i]), \A i \in DOMAIN cs : i # k => new[i] = cs[i], ~cs[k].served,
         NEW m, NEW gone, NEW there, NEW then, DeletionOf(cs, m, gone, there),
         Custom \in there => Custom \in then \/ (Deletes(new[k]) /\ new[k].served /\ new[k].ok),
         new[k].kind \in {"importModels", "record"} /\ new[k].ok => Custom \in then
  PROVE  DeletionOf(new, m, gone, then)
<1>1. \A i \in DOMAIN cs : (Deletes(new[i]) <=> Deletes(cs[i])) /\ (Adds(new[i], m) <=> Adds(cs[i], m)) /\ new[i].me = cs[i].me
  BY DEF SameCall, Deletes, Adds
<1>2. \A i \in DOMAIN new : Deletes(new[i]) => m # None /\ new[i].me = m.me
  BY <1>1 DEF DeletionOf
<1>3. \A i, j \in DOMAIN new : ~(Adds(new[i], m) /\ Deletes(new[j]))
  BY <1>1 DEF DeletionOf
<1>4. \A i \in DOMAIN new : Adds(new[i], m) /\ new[i].served /\ new[i].ok => Custom \in then
  <2> SUFFICES ASSUME NEW i \in DOMAIN new, Adds(new[i], m), new[i].served, new[i].ok PROVE Custom \in then
    OBVIOUS
  <2>1. CASE i = k
    BY <2>1 DEF Adds
  <2>2. CASE i # k
    <3>1. Custom \in there
      BY <2>2 DEF DeletionOf
    <3>2. ~Deletes(new[k])
      BY <1>3
    <3> QED BY <3>1, <3>2
  <2> QED BY <2>1, <2>2
<1>5. Deleted(cs) => Deleted(new)
  BY DEF Deleted, Deletes
<1>6. Custom \in there => Custom \in then \/ Deleted(new)
  BY DEF Deleted
<1> QED BY <1>2, <1>3, <1>4, <1>5, <1>6 DEF DeletionOf

\* Where nothing is deleted, a dialog that is closed or opened anew crosses nothing.
LEMMA DeletionOpens ==
  ASSUME NEW cs, NEW new, NEW k, NEW more, Passed(cs, new, k, more), more # <<>> => more[1].kind = "list",
         NEW m, NEW u, NEW gone, NEW there, DeletionOf(cs, m, gone, there), \A i \in DOMAIN cs : ~Deletes(cs[i]),
         ~OfCustom(u), \A i \in DOMAIN cs : ~Adds(cs[i], u)
  PROVE  DeletionOf(new, u, gone, there)
<1>1. \A i \in DOMAIN new : (\E j \in DOMAIN cs : new[i] = cs[j]) \/ (more # <<>> /\ new[i] = more[1])
  BY DEF Passed
<1>2. \A i \in DOMAIN new : ~Deletes(new[i]) /\ ~Adds(new[i], u)
  BY <1>1 DEF Deletes, Adds
<1>3. ~Deleted(cs)
  BY DEF Deleted
<1> QED BY <1>2, <1>3 DEF DeletionOf

-----------------------------------------------------------------------------
(* What the dialog does by itself. *)

LEMMA ModalIs ==
  ASSUME BenchShape, modal # None
  PROVE  /\ Has(DialogFields, modal) /\ DOMAIN modal = DialogFields
         /\ modal.editing # None => FormFits(modal.editing) /\ DOMAIN modal.editing = DeviceForm
<1>1. Has(DialogFields, modal) /\ (modal.editing # None => FormFits(modal.editing))
  BY DEF BenchShape
<1> QED BY <1>1, HasDomain DEF FormFits

LEMMA TouchesNot ==
  ASSUME NEW m, Has(DialogFields, m)
  PROVE  Touches(m, m, {})
BY DEF Touches

LEMMA TouchOne ==
  ASSUME NEW m, Has(DialogFields, m), NEW f \in DialogFields, NEW v, NEW u, Changed(m, u, f, v)
  PROVE  Touches(m, u, {f}) /\ u[f] = v
<1>1. Has(DialogFields, u) /\ u[f] = v /\ \A k \in DialogFields : k # f => u[k] = m[k]
  BY FieldIs
<1> QED BY <1>1 DEF Touches

LEMMA TouchTwice ==
  ASSUME NEW m, NEW u, NEW w, NEW A, NEW B, Touches(m, u, A), Touches(u, w, B)
  PROVE  Touches(m, w, A \cup B)
BY DEF Touches

LEMMA ScheduleIs ==
  ASSUME NEW m, Has(DialogFields, m)
  PROVE  LET u == Bench!schedulePreview(m)
         IN Touches(m, u, {"timer"}) /\ (u.editing = None \/ u.tab # "data" \/ u.timer)
<1> DEFINE u == Bench!schedulePreview(m)
           v == m.timer \/ (m.tab = "data" /\ m.editing # None)
<1>1. Changed(m, u, "timer", v)
  BY DEF Bench!schedulePreview, Changed
<1> HIDE DEF u
<1>2. "timer" \in DialogFields /\ "editing" \in DialogFields \ {"timer"} /\ "tab" \in DialogFields \ {"timer"}
  BY DEF DialogFields
<1>3. Touches(m, u, {"timer"}) /\ u["timer"] = v
  BY <1>1, <1>2, TouchOne
<1>4. u.editing = m.editing /\ u.tab = m.tab
  BY <1>2, <1>3 DEF Touches
<1> QED BY <1>3, <1>4 DEF u

\* The form of a new device is given a model, or nothing is done.
LEMMA OnModelIs ==
  ASSUME NEW m, Has(DialogFields, m), NEW id, m.editing # None => Has(DeviceForm, m.editing)
  PROVE  LET u == Bench!onModel(m, id)
         IN /\ Touches(m, u, {"editing", "timer"})
            /\ \/ u = m /\ (m.editing = None \/ m.editing.id # None)
               \/ /\ Has(DeviceForm, u.editing) /\ u.editing.id = None /\ u.editing.model = id
                  /\ (u.editing = None \/ u.tab # "data" \/ u.timer)
<1> DEFINE e == [m.editing EXCEPT !.model = id]
           w == [m EXCEPT !.editing.model = id]
           u == Bench!onModel(m, id)
<1>1. CASE m.editing = None \/ m.editing.id # None
  <2>1. u = m
    BY <1>1 DEF Bench!onModel
  <2> QED BY <1>1, <2>1 DEF Touches
<1>2. CASE m.editing # None /\ m.editing.id = None
  <2>1. Has(DeviceForm, m.editing) /\ Changed(m.editing, e, "model", id) /\ "model" \in DeviceForm /\ "id" \in DeviceForm
    BY <1>2 DEF Changed, DeviceForm
  <2>2. Has(DeviceForm, e) /\ e["model"] = id /\ e["id"] = m.editing["id"]
    BY <2>1, FieldIs
  <2>3. Changed(m, w, "editing", e) /\ "editing" \in DialogFields
    BY DEF Changed, DialogFields
  <2> HIDE DEF e, w
  <2>4. Touches(m, w, {"editing"}) /\ w["editing"] = e
    BY <2>3, TouchOne
  <2>5. u = Bench!schedulePreview(w)
    BY <1>2 DEF Bench!onModel, w
  <2>6. Has(DialogFields, w)
    BY <2>4 DEF Touches
  <2>7. Touches(w, u, {"timer"}) /\ (u.editing = None \/ u.tab # "data" \/ u.timer)
    BY <2>5, <2>6, ScheduleIs
  <2>8. u.editing = e
    BY <2>4, <2>7 DEF Touches, DialogFields
  <2>9. Touches(m, u, {"editing"} \cup {"timer"})
    BY <2>4, <2>7, TouchTwice
  <2>10. {"editing"} \cup {"timer"} = {"editing", "timer"}
    OBVIOUS
  <2> HIDE DEF u
  <2> QED BY <1>2, <2>2, <2>7, <2>8, <2>9, <2>10 DEF u
<1> QED BY <1>1, <1>2

\* A dialog that changes by itself, and leaves what it shows of a device to be
\* previewed.
LEMMA BenchShown ==
  ASSUME BenchAssumption, BenchInv, modal # None, UNCHANGED <<bench, listed, orders, declined>>, TallyOn(tally'),
         NEW fields, Touches(modal, modal', fields), fields \cap {"me", "busy", "seq"} = {},
         modal'.editing # None => FormFits(modal'.editing), PreviewOf(orders, modal'),
         OfCustom(modal') => OfCustom(modal) \/ Custom \in listed.models
  PROVE  BenchInv'
<1>1. BenchShape /\ OrdersFine
  BY DEF BenchInv
<1>2. modal' # None /\ modal'.me = modal.me /\ modal'.busy = modal.busy /\ modal'.seq = modal.seq /\ modal.seq \in Nat
  BY <1>1 DEF Touches, DialogFields, BenchAssumption, BenchShape
<1>3. Continues(modal, modal')
  BY <1>2 DEF Continues
<1>4. Passed(orders, orders', Len(orders) + 1, <<>>) /\ Len(orders) + 1 \notin DOMAIN orders
  <2>1. PICK S : orders \in Seq(S)
    BY <1>1 DEF BenchShape
  <2>2. orders' = orders \o <<>>
    BY <2>1
  <2> QED BY <2>1, <2>2, NoneGonePasses
<1>5. BenchShape'
  BY <1>1, <1>2 DEF BenchShape, TallyOn, Touches, BenchOf
<1>6. OrdersFine'
  BY <1>1, <1>3, <1>4, OrdersStayFine
<1>7. ListFine' /\ ~declined'
  BY DEF BenchInv, ListFine
<1>8. BusyOf(orders', modal'.me, modal'.busy) /\ PreviewOf(orders', modal')
  BY <1>2 DEF BenchInv
<1>9. ~tally'.crossed => DeletionOf(orders', modal', listed'.models, bench'.models)
  <2>1. ~tally'.crossed => DeletionOf(orders, modal, listed.models, bench.models)
    BY DEF BenchInv, TallyOn
  <2> QED BY <1>2, <1>4, <2>1, DeletionAdds
<1> QED BY <1>5, <1>6, <1>7, <1>8, <1>9 DEF BenchInv

\* What is shown and typed, and nothing is asked.
LEMMA EditedStep ==
  ASSUME BenchAssumption, BenchInv, Bench!cancel \/ Bench!typed \/ Bench!openTab \/ Bench!choose PROVE BenchInv'
<1>1. modal # None /\ modal.editing # None /\ UNCHANGED <<bench, listed, orders, declined>>
  BY DEF Bench!cancel, Bench!typed, Bench!openTab, Bench!choose, Bench!Editing, Bench!Shows, Bench!Still
<1>2. BenchShape /\ \E k \in 0..1 : Bench!Clicked(k)
  BY DEF BenchInv, Bench!cancel, Bench!typed, Bench!openTab, Bench!choose
<1>3. TallyOn(tally')
  BY <1>2, TallyMoves
<1>4. Has(DialogFields, modal) /\ FormFits(modal.editing) /\ Has(DeviceForm, modal.editing)
  BY <1>1, <1>2, ModalIs DEF FormFits
<1>5. CASE Bench!cancel
  <2>1. Changed(modal, modal', "editing", None) /\ "editing" \in DialogFields
    BY <1>5 DEF Bench!cancel, Bench!Shows, Changed, DialogFields
  <2>2. Touches(modal, modal', {"editing"}) /\ modal'["editing"] = None
    BY <1>4, <2>1, TouchOne
  <2>3. {"editing"} \cap {"me", "busy", "seq"} = {}
    OBVIOUS
  <2> QED BY <1>1, <1>3, <2>2, <2>3, BenchShown, PreviewWaits DEF OfCustom
<1>6. CASE Bench!typed
  <2> DEFINE e == [modal.editing EXCEPT !.text = 1 - @]
             w == [modal EXCEPT !.editing.text = 1 - @]
  <2>1. Changed(modal.editing, e, "text", 1 - modal.editing.text) /\ {"text", "id", "model"} \subseteq DeviceForm
    BY DEF Changed, DeviceForm
  <2>2. Has(DeviceForm, e) /\ e["id"] = modal.editing["id"] /\ e["model"] = modal.editing["model"]
    BY <1>4, <2>1, FieldIs
  <2>3. Changed(modal, w, "editing", e) /\ "editing" \in DialogFields
    BY DEF Changed, DialogFields
  <2>4. modal' = Bench!schedulePreview(w)
    BY <1>6 DEF Bench!typed, Bench!Shows
  <2> HIDE DEF e, w
  <2>5. Touches(modal, w, {"editing"}) /\ w["editing"] = e
    BY <1>4, <2>3, TouchOne
  <2>6. Touches(w, modal', {"timer"}) /\ (modal'.editing = None \/ modal'.tab # "data" \/ modal'.timer)
    BY <2>4, <2>5, ScheduleIs DEF Touches
  <2>7. Touches(modal, modal', {"editing"} \cup {"timer"})
    BY <2>5, <2>6, TouchTwice
  <2>8. modal'.editing = e
    BY <2>5, <2>6 DEF Touches, DialogFields
  <2>9. FormFits(modal'.editing) /\ (OfCustom(modal') => OfCustom(modal))
    BY <1>1, <1>4, <2>2, <2>8 DEF FormFits, OfCustom
  <2>10. ({"editing"} \cup {"timer"}) \cap {"me", "busy", "seq"} = {}
    OBVIOUS
  <2>11. PreviewOf(orders, modal')
    BY <2>6, PreviewWaits
  <2> QED BY <1>1, <1>3, <2>7, <2>9, <2>10, <2>11, BenchShown
<1>7. CASE Bench!openTab
  <2>1. \/ modal' = Bench!schedulePreview([modal EXCEPT !.tab = "data", !.preview = None])
        \/ modal' = [modal EXCEPT !.tab = "identity"]
    BY <1>7 DEF Bench!openTab, Bench!Shows
  <2>2. ASSUME NEW fields, Touches(modal, modal', fields), fields \cap {"me", "busy", "seq", "editing"} = {},
               modal'.editing = None \/ modal'.tab # "data" \/ modal'.timer
        PROVE  BenchInv'
    <3>1. modal'.editing = modal.editing /\ (OfCustom(modal') => OfCustom(modal))
      BY <1>1, <2>2 DEF Touches, DialogFields, OfCustom
    <3>2. PreviewOf(orders, modal') /\ fields \cap {"me", "busy", "seq"} = {}
      BY <2>2, PreviewWaits
    <3> QED BY <1>1, <1>3, <1>4, <2>2, <3>1, <3>2, BenchShown
  <2>3. CASE modal' = [modal EXCEPT !.tab = "identity"]
    <3>1. Changed(modal, modal', "tab", "identity") /\ "tab" \in DialogFields
      BY <2>3 DEF Changed, DialogFields
    <3>2. Touches(modal, modal', {"tab"}) /\ modal'["tab"] = "identity"
      BY <1>4, <3>1, TouchOne
    <3>3. {"tab"} \cap {"me", "busy", "seq", "editing"} = {}
      OBVIOUS
    <3> QED BY <2>2, <3>2, <3>3
  <2>4. CASE modal' = Bench!schedulePreview([modal EXCEPT !.tab = "data", !.preview = None])
    <3> DEFINE w == [modal EXCEPT !.tab = "data", !.preview = None]
    <3>1. Touches(modal, w, {"tab", "preview"})
      BY <1>4, HasDomain DEF Touches, Has, DialogFields
    <3> HIDE DEF w
    <3>2. Touches(w, modal', {"timer"}) /\ (modal'.editing = None \/ modal'.tab # "data" \/ modal'.timer)
      BY <2>4, <3>1, ScheduleIs DEF Touches, w
    <3>3. Touches(modal, modal', {"tab", "preview"} \cup {"timer"})
      BY <3>1, <3>2, TouchTwice
    <3>4. ({"tab", "preview"} \cup {"timer"}) \cap {"me", "busy", "seq", "editing"} = {}
      OBVIOUS
    <3> QED BY <2>2, <3>2, <3>3, <3>4
  <2> QED BY <2>1, <2>3, <2>4
<1>8. CASE Bench!choose
  <2>1. PICK m \in listed.models : /\ modal' = [Bench!onModel(modal, m) EXCEPT !.confirmModel = None]
                                   /\ modal.editing.id = None
    BY <1>8 DEF Bench!choose, Bench!Shows, Bench!filterModels
  <2> DEFINE w == Bench!onModel(modal, m)
  <2>2. /\ Touches(modal, w, {"editing", "timer"})
        /\ Has(DeviceForm, w.editing) /\ w.editing.id = None /\ w.editing.model = m
        /\ (w.editing = None \/ w.tab # "data" \/ w.timer)
    BY <1>1, <1>4, <2>1, OnModelIs
  <2>3. Changed(w, modal', "confirmModel", None) /\ "confirmModel" \in DialogFields
    BY <2>1 DEF Changed, DialogFields
  <2> HIDE DEF w
  <2>4. Touches(w, modal', {"confirmModel"})
    BY <2>2, <2>3, TouchOne DEF Touches
  <2>5. Touches(modal, modal', {"editing", "timer"} \cup {"confirmModel"})
    BY <2>2, <2>4, TouchTwice
  <2>6. modal'.editing = w.editing /\ modal'.tab = w.tab /\ modal'.timer = w.timer
    BY <2>4 DEF Touches, DialogFields
  <2>7. PreviewOf(orders, modal')
    BY <2>2, <2>6, PreviewWaits
  <2>8. m \in Bench!Ids
    BY <1>2, <2>1 DEF BenchShape, BenchOf
  <2>9. FormFits(modal'.editing) /\ (OfCustom(modal') => Custom \in listed.models)
    BY <2>1, <2>2, <2>6, <2>8 DEF FormFits, OfCustom
  <2>10. ({"editing", "timer"} \cup {"confirmModel"}) \cap {"me", "busy", "seq"} = {}
    OBVIOUS
  <2> QED BY <1>1, <1>3, <2>5, <2>7, <2>9, <2>10, BenchShown
<1> QED BY <1>5, <1>6, <1>7, <1>8

\* A dialog is opened over a list, an export or a deletion, and nothing is asked.
LEMMA AsideStep ==
  ASSUME BenchAssumption, BenchInv, modal # None, UNCHANGED <<bench, listed, orders, declined>>, TallyOn(tally'),
         NEW f \in {"confirm", "confirmModel", "exports", "saving", "stopAsked"}, NEW v, Changed(modal, modal', f, v)
  PROVE  BenchInv'
<1>1. Has(DialogFields, modal) /\ f \in DialogFields /\ (modal.editing # None => FormFits(modal.editing))
  BY ModalIs DEF BenchInv, DialogFields
<1>2. Touches(modal, modal', {f}) /\ {f} \cap {"me", "busy", "seq"} = {} /\ {f} \cap ViewFields = {}
  BY <1>1, TouchOne DEF ViewFields
<1>3. modal'.editing = modal.editing /\ (OfCustom(modal') => OfCustom(modal))
  BY <1>2 DEF Touches, DialogFields, OfCustom
<1>4. SameView(modal, modal') /\ PreviewOf(orders, modal)
  BY <1>2, TouchesView DEF BenchInv
<1>5. PreviewOf(orders, modal')
  BY <1>4 DEF SameView, ViewFields, PreviewOf, OfLast
<1> QED BY <1>1, <1>2, <1>3, <1>5, BenchShown

-----------------------------------------------------------------------------
(* What the dialog asks of Go. *)

LEMMA BenchAsked ==
  ASSUME BenchAssumption, BenchInv, modal # None, UNCHANGED <<bench, listed, declined>>, TallyOn(tally'),
         NEW c, orders' = Append(orders, c), c.me = modal.me, ~c.served,
         NEW fields, Touches(modal, modal', fields), fields \cap {"me", "editing"} = {},
         modal'.seq \in Nat, modal'.seq >= modal.seq, OrderFine(c, tally'.clicks, modal'),
         BusyOf(orders', modal.me, modal'.busy), PreviewOf(orders', modal'),
         Deletes(c) => \A i \in DOMAIN orders : ~Adds(orders[i], modal),
         Adds(c, modal) => tally'.crossed \/ \A i \in DOMAIN orders : ~Deletes(orders[i])
  PROVE  BenchInv'
<1>1. BenchShape /\ OrdersFine
  BY DEF BenchInv
<1>2. modal' # None /\ modal'.me = modal.me /\ modal'.editing = modal.editing
  BY DEF Touches, DialogFields, BenchAssumption
<1>3. Continues(modal, modal')
  BY <1>2 DEF Continues
<1>4. Passed(orders, orders', Len(orders) + 1, <<c>>) /\ Len(orders) + 1 \notin DOMAIN orders /\ <<c>># <<>> /\ <<c>>[1] = c
  BY <1>1, CallAdded, OneMore
<1>5. BenchShape'
  BY <1>1, <1>2, <1>4 DEF BenchShape, TallyOn, Touches, BenchOf, Passed
<1>6. OrdersFine'
  BY <1>1, <1>3, <1>4, OrdersStayFine
<1>7. ListFine' /\ ~declined'
  <2>1. \A i \in DOMAIN orders : \E j \in DOMAIN orders' : orders'[j] = orders[i]
    BY <1>4 DEF Passed
  <2> QED BY <2>1 DEF BenchInv, ListFine
<1>8. ~tally'.crossed => DeletionOf(orders', modal', listed'.models, bench'.models)
  <2> SUFFICES ASSUME ~tally'.crossed PROVE DeletionOf(orders', modal', listed.models, bench.models)
    OBVIOUS
  <2>1. DeletionOf(orders, modal, listed.models, bench.models)
    BY DEF BenchInv, TallyOn
  <2>2. OfCustom(modal') => OfCustom(modal)
    BY <1>2 DEF OfCustom
  <2> QED BY <1>2, <1>4, <2>1, <2>2, DeletionAdds
<1> QED BY <1>2, <1>5, <1>6, <1>7, <1>8 DEF BenchInv

\* A call that keeps no device busy, and is not of a preview.
LEMMA PlainAsked ==
  ASSUME BenchAssumption, BenchInv, modal # None, UNCHANGED <<bench, listed, declined>>, TallyOn(tally'),
         NEW kind, kind \notin Bench!Ops \cup {"preview", "faults"}, NEW dev, NEW with,
         orders' = Append(orders, Bench!Ask(kind, dev, with)),
         NEW fields, Touches(modal, modal', fields), fields \cap (ViewFields \cup {"busy"}) = {},
         kind = "deleteModel" => with = Custom /\ \A i \in DOMAIN orders : ~Adds(orders[i], modal),
         kind \in {"suggest", "credentials"} => FormFits(with) /\ (with.id = None => with.model = Catalogue[1]),
         kind \in {"importModels", "record"} => tally'.crossed \/ \A i \in DOMAIN orders : ~Deletes(orders[i])
  PROVE  BenchInv'
<1> DEFINE c == Bench!Ask(kind, dev, with)
<1>1. BenchShape /\ modal.me \in 0..tally.clicks /\ modal.seq \in Nat /\ BusyOf(orders, modal.me, modal.busy)
      /\ PreviewOf(orders, modal)
  BY DEF BenchInv, BenchShape
<1>2. /\ Has(OrderFields, c) /\ c.kind = kind /\ c.with = with /\ c.after = None /\ c.me = modal.me /\ ~c.served
  BY AskedIs
<1> HIDE DEF c
<1>3. orders' = Append(orders, c)
  BY DEF c
<1>4. Passed(orders, orders', Len(orders) + 1, <<c>>) /\ Len(orders) + 1 \notin DOMAIN orders /\ <<c>># <<>> /\ <<c>>[1] = c
  BY <1>1, <1>3, CallAdded, OneMore
<1>5. modal'.busy = modal.busy /\ modal'.seq = modal.seq /\ fields \cap {"me", "editing"} = {} /\ SameView(modal, modal')
  BY TouchesView DEF Touches, DialogFields, ViewFields
<1>6. OrderFine(c, tally'.clicks, modal')
  <2>1. kind # "faults" /\ kind # "preview"
    OBVIOUS
  <2>2. c.me \in 0..tally'.clicks
    BY <1>1, <1>2 DEF BenchShape, TallyOn
  <2> QED BY <1>2, <2>1, <2>2 DEF OrderFine
<1>7. ~Ours(c, modal.me) /\ ~OfLast(c, modal)
  <2>1. c.after # "faults" /\ c.after # "duplicate"
    BY <1>2 DEF BenchAssumption
  <2> QED BY <1>2, <2>1 DEF Ours, OfLast, Bench!Ops
<1>8. BusyOf(orders', modal.me, modal'.busy)
  BY <1>1, <1>4, <1>5, <1>7, BusyAround
<1>9. PreviewOf(orders', modal')
  BY <1>1, <1>4, <1>5, <1>7, PreviewStays
<1>10. Deletes(c) => \A i \in DOMAIN orders : ~Adds(orders[i], modal)
  BY <1>2 DEF Deletes
<1>11. Adds(c, modal) => tally'.crossed \/ \A i \in DOMAIN orders : ~Deletes(orders[i])
  BY <1>2 DEF Adds
<1> QED BY <1>1, <1>2, <1>3, <1>5, <1>6, <1>8, <1>9, <1>10, <1>11, BenchAsked

\* No call is of a dialog while nobody added one, and nothing is deleted.
LEMMA NoneDeleted == ASSUME ~Bench!Deleting PROVE \A i \in DOMAIN orders : ~Deletes(orders[i])
BY DEF Bench!Deleting, Bench!ToSet, Deletes

LEMMA NoneAdded ==
  ASSUME ~Bench!Recording, ~Bench!Importing PROVE \A i \in DOMAIN orders : ~Adds(orders[i], modal)
BY DEF Bench!Recording, Bench!Importing, Bench!ToSet, Adds

\* Whether something crosses a deletion is remembered.
LEMMA CrossedIs ==
  ASSUME BenchShape, NEW k, Bench!Crossing(k), ~tally'.crossed PROVE ~Bench!Deleting
<1>1. Has(TallyFields, tally) /\ tally' = [tally EXCEPT !.clicks = @ + 1, !.calls = @ + k, !.crossed = @ \/ Bench!Deleting]
  BY DEF BenchShape, Bench!Crossing
<1>2. DOMAIN tally = TallyFields
  BY <1>1, HasDomain
<1>3. tally'.crossed = (tally.crossed \/ Bench!Deleting)
  BY <1>1, <1>2 DEF TallyFields
<1> QED BY <1>3

\* A call of these kinds, and one field of the dialog.
LEMMA DialogAsks ==
  ASSUME BenchAssumption, BenchInv,
         \/ Bench!newDevice \/ Bench!edit \/ Bench!save \/ Bench!poll \/ Bench!remove \/ Bench!deleteModel
         \/ Bench!importModels \/ Bench!recordDevice \/ Bench!askExport \/ Bench!exportDevices
  PROVE  BenchInv'
<1>1. BenchShape /\ modal # None /\ UNCHANGED <<bench, listed, declined>>
  BY DEF BenchInv, Bench!newDevice, Bench!edit, Bench!save, Bench!poll, Bench!remove, Bench!deleteModel,
     Bench!importModels, Bench!recordDevice, Bench!askExport, Bench!exportDevices, Bench!Listing, Bench!Editing,
     Bench!New, Bench!Calls, Bench!Shows, Bench!Still
<1>2. TallyOn(tally')
  <2>1. 0 \in 0..1 /\ 1 \in 0..1
    OBVIOUS
  <2>2. Bench!newDevice \/ Bench!edit \/ Bench!save => Bench!Clicked(1)
    BY DEF Bench!newDevice, Bench!edit, Bench!save
  <2>3. Bench!poll => Bench!Counted
    BY DEF Bench!poll
  <2>4. Bench!remove => Bench!Clicked(1) \/ Bench!Clicked(0)
    BY DEF Bench!remove
  <2>5. Bench!deleteModel => Bench!Clicked(1) \/ Bench!Clicked(0)
    BY DEF Bench!deleteModel
  <2>6. Bench!importModels \/ Bench!recordDevice => Bench!Crossing(1)
    BY DEF Bench!importModels, Bench!recordDevice
  <2>7. Bench!askExport \/ Bench!exportDevices => Bench!Clicked(1) \/ Bench!Clicked(0)
    BY DEF Bench!askExport, Bench!exportDevices
  <2>8. (\E k \in 0..1 : Bench!Clicked(k) \/ Bench!Crossing(k)) \/ Bench!Counted
    BY <2>1, <2>2, <2>3, <2>4, <2>5, <2>6, <2>7
  <2> QED BY <1>1, <2>8, TallyMoves
<1>3. Has(DialogFields, modal)
  BY <1>1, ModalIs
<1>4. ASSUME NEW f \in {"confirm", "confirmModel", "exports", "saving", "stopAsked"}, NEW v,
             modal' = modal \/ Changed(modal, modal', f, v)
      PROVE  \E fields : Touches(modal, modal', fields) /\ fields \cap (ViewFields \cup {"busy"}) = {}
  <2>1. CASE modal' = modal
    BY <1>3, <2>1, TouchesNot
  <2>2. CASE Changed(modal, modal', f, v)
    <3>1. f \in DialogFields /\ {f} \cap (ViewFields \cup {"busy"}) = {}
      BY DEF DialogFields, ViewFields
    <3> QED BY <1>3, <2>2, <3>1, TouchOne
  <2> QED BY <1>4, <2>1, <2>2
<1>5. \E f \in {"confirm", "confirmModel", "exports", "saving", "stopAsked"} : \E v :
        modal' = modal \/ Changed(modal, modal', f, v)
  <2>1. CASE Bench!newDevice \/ Bench!edit \/ Bench!poll \/ Bench!importModels
    <3>1. modal' = modal
      BY <2>1 DEF Bench!newDevice, Bench!edit, Bench!poll, Bench!importModels, Bench!Calls
    <3> QED BY <3>1
  <2>2. CASE Bench!save
    <3>1. Changed(modal, modal', "saving", TRUE)
      BY <2>2 DEF Bench!save, Bench!Calls, Changed
    <3> QED BY <3>1
  <2>3. CASE Bench!remove
    <3>1. PICK d : modal' = [modal EXCEPT !.confirm = None] \/ modal' = [modal EXCEPT !.confirm = d]
      BY <2>3 DEF Bench!remove, Bench!Calls, Bench!Shows
    <3>2. Changed(modal, modal', "confirm", None) \/ Changed(modal, modal', "confirm", d)
      BY <3>1 DEF Changed
    <3> QED BY <3>2
  <2>4. CASE Bench!deleteModel
    <3>1. Changed(modal, modal', "confirmModel", None) \/ Changed(modal, modal', "confirmModel", Custom)
      BY <2>4 DEF Bench!deleteModel, Bench!Calls, Bench!Shows, Changed
    <3> QED BY <3>1
  <2>5. CASE Bench!recordDevice
    <3>1. Changed(modal, modal', "stopAsked", FALSE)
      BY <2>5 DEF Bench!recordDevice, Bench!Calls, Changed
    <3> QED BY <3>1
  <2>6. CASE Bench!askExport
    <3>1. PICK ids : modal' = [modal EXCEPT !.exports = ids]
      BY <2>6 DEF Bench!askExport, Bench!Shows
    <3>2. Changed(modal, modal', "exports", ids)
      BY <3>1 DEF Changed
    <3> QED BY <3>2
  <2>7. CASE Bench!exportDevices
    <3>1. Changed(modal, modal', "exports", None)
      BY <2>7 DEF Bench!exportDevices, Bench!Calls, Bench!Shows, Changed
    <3> QED BY <3>1
  <2> QED BY <2>1, <2>2, <2>3, <2>4, <2>5, <2>6, <2>7
<1>6. PICK fields : Touches(modal, modal', fields) /\ fields \cap (ViewFields \cup {"busy"}) = {}
  BY <1>4, <1>5
<1>7. ASSUME NEW kind, NEW dev, NEW with,
             kind \in {"save", "list", "remove", "export"}
               \/ (kind = "suggest" /\ FormFits(with) /\ with.id = None /\ with.model = Catalogue[1])
               \/ (kind = "credentials" /\ FormFits(with) /\ with.id # None)
               \/ (kind = "deleteModel" /\ with = Custom /\ ~Bench!Recording /\ ~Bench!Importing)
               \/ (kind \in {"importModels", "record"} /\ Bench!Crossing(1)),
             orders' = Append(orders, Bench!Ask(kind, dev, with))
      PROVE  BenchInv'
  <2>1. kind \notin Bench!Ops \cup {"preview", "faults"}
    BY <1>7 DEF Bench!Ops
  <2>2. kind = "deleteModel" => with = Custom /\ \A i \in DOMAIN orders : ~Adds(orders[i], modal)
    BY <1>7, NoneAdded
  <2>3. kind \in {"suggest", "credentials"} => FormFits(with) /\ (with.id = None => with.model = Catalogue[1])
    BY <1>7
  <2>4. kind \in {"importModels", "record"} => tally'.crossed \/ \A i \in DOMAIN orders : ~Deletes(orders[i])
    BY <1>1, <1>7, CrossedIs, NoneDeleted
  <2> QED BY <1>1, <1>2, <1>6, <1>7, <2>1, <2>2, <2>3, <2>4, PlainAsked
<1>8. ASSUME orders' = orders, NEW f \in {"confirm", "confirmModel", "exports"}, NEW v, Changed(modal, modal', f, v)
      PROVE  BenchInv'
  BY <1>1, <1>2, <1>8, AsideStep
<1>9. CASE Bench!newDevice
  <2> DEFINE e == [id |-> None, model |-> Catalogue[1], text |-> 0]
  <2>1. FormFits(e) /\ e.id = None /\ e.model = Catalogue[1]
    BY DEF FormFits, DeviceForm, Has, BenchAssumption
  <2>2. orders' = Append(orders, Bench!Ask("suggest", None, e))
    BY <1>9 DEF Bench!newDevice, Bench!Calls
  <2> HIDE DEF e
  <2> QED BY <1>7, <2>1, <2>2
<1>10. CASE Bench!edit
  <2>1. PICK d \in DOMAIN listed.devs :
          orders' = Append(orders, Bench!Ask("credentials", d, [id |-> d, model |-> listed.devs[d].model, text |-> listed.devs[d].text]))
    BY <1>10 DEF Bench!edit, Bench!Calls
  <2> DEFINE e == [id |-> d, model |-> listed.devs[d].model, text |-> listed.devs[d].text]
  <2>2. d # None
    BY <1>1 DEF BenchShape, BenchOf, BenchAssumption
  <2>3. FormFits(e) /\ e.id # None
    BY <2>2 DEF FormFits, DeviceForm, Has
  <2>4. orders' = Append(orders, Bench!Ask("credentials", d, e))
    BY <2>1
  <2> HIDE DEF e
  <2> QED BY <1>7, <2>3, <2>4
<1>11. CASE Bench!save
  BY <1>7, <1>11 DEF Bench!save, Bench!Calls
<1>12. CASE Bench!poll
  BY <1>7, <1>12 DEF Bench!poll
<1>13. CASE Bench!remove
  <2>1. CASE \E d : orders' = Append(orders, Bench!Ask("remove", d, None))
    BY <1>7, <2>1
  <2>2. CASE \E d : orders' = orders /\ modal' = [modal EXCEPT !.confirm = d]
    <3>1. PICK d : orders' = orders /\ Changed(modal, modal', "confirm", d)
      BY <2>2 DEF Changed
    <3> QED BY <1>8, <3>1
  <2> QED BY <1>13, <2>1, <2>2 DEF Bench!remove, Bench!Calls, Bench!Shows
<1>14. CASE Bench!deleteModel
  <2>1. CASE orders' = Append(orders, Bench!Ask("deleteModel", None, Custom))
    BY <1>7, <1>14, <2>1 DEF Bench!deleteModel
  <2>2. CASE orders' = orders /\ Changed(modal, modal', "confirmModel", Custom)
    BY <1>8, <2>2
  <2> QED BY <1>14, <2>1, <2>2 DEF Bench!deleteModel, Bench!Calls, Bench!Shows, Changed
<1>15. CASE Bench!importModels
  BY <1>7, <1>15 DEF Bench!importModels, Bench!Calls
<1>16. CASE Bench!recordDevice
  BY <1>7, <1>16 DEF Bench!recordDevice, Bench!Calls
<1>17. CASE Bench!askExport
  <2>1. PICK ids : orders' = orders /\ Changed(modal, modal', "exports", ids)
    BY <1>17 DEF Bench!askExport, Bench!Shows, Changed
  <2> QED BY <1>8, <2>1
<1>18. CASE Bench!exportDevices
  <2>1. CASE orders' = orders /\ Changed(modal, modal', "exports", None)
    BY <1>8, <2>1
  <2>2. CASE orders' = Append(orders, Bench!Ask("export", None, modal.exports))
    BY <1>7, <2>2
  <2> QED BY <1>18, <2>1, <2>2 DEF Bench!exportDevices, Bench!Calls, Bench!Shows, Changed
<1> QED BY <1>9, <1>10, <1>11, <1>12, <1>13, <1>14, <1>15, <1>16, <1>17, <1>18

\* A call of a device that has none on the way.
LEMMA OpAsked ==
  ASSUME BenchAssumption, BenchInv, modal # None, TallyOn(tally'), NEW kind \in Bench!Ops, NEW dev, NEW with,
         Bench!op(kind, dev, with), kind = "faults" => Bench!Check(with)
  PROVE  BenchInv'
<1> DEFINE c == Bench!Ask(kind, dev, with)
           b == modal.busy \cup {dev}
<1>1. /\ BenchShape /\ modal.me \in 0..tally.clicks /\ modal.seq \in Nat /\ BusyOf(orders, modal.me, modal.busy)
      /\ PreviewOf(orders, modal) /\ Has(DialogFields, modal)
  BY DEF BenchInv, BenchShape
<1>2. /\ Has(OrderFields, c) /\ c.kind = kind /\ c.dev = dev /\ c.with = with /\ c.after = None /\ c.me = modal.me /\ ~c.served
  BY AskedIs
<1>3. orders' = Append(orders, c) /\ UNCHANGED <<bench, listed, declined>> /\ dev \notin modal.busy
  BY DEF Bench!op, Bench!Calls, Bench!Still
<1>4. Changed(modal, modal', "busy", b) /\ "busy" \in DialogFields
  BY DEF Bench!op, Bench!Calls, Changed, DialogFields
<1> HIDE DEF c, b
<1>5. Touches(modal, modal', {"busy"}) /\ modal'["busy"] = b
  BY <1>1, <1>4, TouchOne
<1>6. SameView(modal, modal') /\ modal'.seq = modal.seq /\ {"busy"} \cap {"me", "editing"} = {}
  <2>1. {"busy"} \cap ViewFields = {}
    BY DEF ViewFields
  <2> QED BY <1>5, <2>1, TouchesView DEF SameView, ViewFields
<1>7. Passed(orders, orders', Len(orders) + 1, <<c>>) /\ Len(orders) + 1 \notin DOMAIN orders /\ <<c>># <<>> /\ <<c>>[1] = c
  BY <1>1, <1>3, CallAdded, OneMore
<1>8. kind \notin {"list", "deleteModel", "suggest", "credentials", "preview", "importModels", "record"}
  BY DEF Bench!Ops
<1>9. OrderFine(c, tally'.clicks, modal')
  <2>1. c.me \in 0..tally'.clicks
    BY <1>1, <1>2 DEF BenchShape, TallyOn
  <2> QED BY <1>2, <1>8, <2>1 DEF OrderFine
<1>10. Ours(c, modal.me) /\ ~OfLast(c, modal) /\ ~Deletes(c) /\ ~Adds(c, modal)
  BY <1>2, <1>8 DEF Ours, OfLast, Deletes, Adds
<1>11. BusyOf(orders', modal.me, modal'.busy)
  BY <1>1, <1>2, <1>3, <1>5, <1>7, <1>10, BusyBegins DEF b
<1>12. PreviewOf(orders', modal')
  BY <1>1, <1>6, <1>7, <1>10, PreviewStays
<1> QED BY <1>1, <1>2, <1>3, <1>5, <1>6, <1>9, <1>10, <1>11, <1>12, BenchAsked

\* What is typed in a faults panel is brought within what Go takes.
LEMMA BoundIs == ASSUME NEW v \in Int, NEW lo \in Int, NEW hi \in Int, lo <= hi PROVE Bench!Bound(v, lo, hi) \in lo..hi
BY DEF Bench!Bound

LEMMA FaultsFit == ASSUME BenchAssumption, NEW f \in FaultForms PROVE Bench!Check(Bench!faultsPayload(f))
<1> DEFINE p == Bench!faultsPayload(f)
<1>1. f.latency \in Int /\ f.loss \in Int /\ f.percent \in Int /\ MAX_LATENCY_MS \in Nat /\ 1 \in COUNTER_SPEEDS
  BY DEF BenchAssumption
<1>2. Bench!Bound(f.latency, 0, MAX_LATENCY_MS) \in 0..MAX_LATENCY_MS /\ Bench!Bound(f.loss, 0, 100) \in 0..100
      /\ Bench!Bound(f.percent, 1, 100) \in 1..100
  <2>1. 0 \in Int /\ 1 \in Int /\ 100 \in Int /\ 0 <= 100 /\ 1 <= 100 /\ MAX_LATENCY_MS \in Int /\ 0 <= MAX_LATENCY_MS
    BY <1>1
  <2>2. Bench!Bound(f.latency, 0, MAX_LATENCY_MS) \in 0..MAX_LATENCY_MS
    BY <1>1, <2>1, BoundIs
  <2>3. Bench!Bound(f.loss, 0, 100) \in 0..100
    BY <1>1, <2>1, BoundIs
  <2>4. Bench!Bound(f.percent, 1, 100) \in 1..100
    BY <1>1, <2>1, BoundIs
  <2> QED BY <2>2, <2>3, <2>4
<1>3. /\ p.latency = Bench!Bound(f.latency, 0, MAX_LATENCY_MS) /\ p.loss = Bench!Bound(f.loss, 0, 100) /\ p.error = f.error
      /\ p.percent = Bench!Share(f) /\ p.speed = IF f.speed \in COUNTER_SPEEDS THEN f.speed ELSE 1
  BY DEF Bench!faultsPayload
<1> HIDE DEF p
<1>4. IF p.error = None THEN p.percent = 0 ELSE p.percent \in 1..100
  BY <1>2, <1>3 DEF Bench!Share
<1>5. p.speed \in COUNTER_SPEEDS \cup {0}
  BY <1>1, <1>3
<1>6. Bench!Check(p)
  BY <1>2, <1>3, <1>4, <1>5 DEF Bench!Check
<1> QED BY <1>6 DEF p

LEMMA OpStep ==
  ASSUME BenchAssumption, BenchInv,
         Bench!run \/ Bench!restart \/ Bench!sendTrap \/ Bench!duplicate \/ Bench!applyFaults
  PROVE  BenchInv'
<1>1. BenchShape /\ modal # None /\ Bench!Clicked(1)
  BY DEF BenchInv, Bench!run, Bench!restart, Bench!sendTrap, Bench!duplicate, Bench!applyFaults, Bench!OfOne, Bench!Listing
<1>2. TallyOn(tally')
  <2>1. 1 \in 0..1
    OBVIOUS
  <2> QED BY <1>1, <2>1, TallyMoves
<1>3. CASE Bench!applyFaults
  <2>1. PICK f \in FaultForms : \E d : Bench!op("faults", d, Bench!faultsPayload(f))
    BY <1>3 DEF Bench!applyFaults
  <2>2. PICK d : Bench!op("faults", d, Bench!faultsPayload(f))
    BY <2>1
  <2>3. "faults" \in Bench!Ops
    BY DEF Bench!Ops
  <2> QED BY <1>1, <1>2, <2>2, <2>3, FaultsFit, OpAsked
<1>4. CASE Bench!run \/ Bench!restart \/ Bench!sendTrap \/ Bench!duplicate
  <2>1. \E k \in Bench!Ops \ {"faults"} : \E d : Bench!op(k, d, None)
    <3>1. ASSUME NEW kinds, Bench!OfOne(kinds), \A r \in BOOLEAN : kinds[r] \subseteq Bench!Ops \ {"faults"},
                 \A d \in DOMAIN listed.devs : listed.devs[d].running \in BOOLEAN
          PROVE  \E k \in Bench!Ops \ {"faults"} : \E d : Bench!op(k, d, None)
      BY <3>1 DEF Bench!OfOne
    <3>2. \A d \in DOMAIN listed.devs : listed.devs[d].running \in BOOLEAN
      BY <1>1 DEF BenchShape, BenchOf, DeviceFits
    <3>3. Bench!run \/ Bench!restart => \E k \in Bench!Ops \ {"faults"} : \E d : Bench!op(k, d, None)
      <4> DEFINE ru == [r \in BOOLEAN |-> IF r THEN {"stop"} ELSE {"start"}]
                 re == [r \in BOOLEAN |-> IF r THEN {"restart"} ELSE {}]
      <4>1. \A r \in BOOLEAN : ru[r] \subseteq Bench!Ops \ {"faults"} /\ re[r] \subseteq Bench!Ops \ {"faults"}
        BY DEF Bench!Ops
      <4>2. Bench!run \/ Bench!restart => Bench!OfOne(ru) \/ Bench!OfOne(re)
        BY DEF Bench!run, Bench!restart
      <4> HIDE DEF ru, re
      <4> QED BY <3>1, <3>2, <4>1, <4>2
    <3>4. Bench!sendTrap \/ Bench!duplicate => \E k \in Bench!Ops \ {"faults"} : \E d : Bench!op(k, d, None)
      <4> DEFINE se == [r \in BOOLEAN |-> IF r THEN {"sendTrap"} ELSE {}]
                 du == [r \in BOOLEAN |-> {"duplicate"}]
      <4>1. \A r \in BOOLEAN : se[r] \subseteq Bench!Ops \ {"faults"} /\ du[r] \subseteq Bench!Ops \ {"faults"}
        BY DEF Bench!Ops
      <4>2. Bench!sendTrap \/ Bench!duplicate => Bench!OfOne(se) \/ Bench!OfOne(du)
        BY DEF Bench!sendTrap, Bench!duplicate
      <4> HIDE DEF se, du
      <4> QED BY <3>1, <3>2, <4>1, <4>2
    <3> QED BY <1>4, <3>3, <3>4
  <2>2. PICK k \in Bench!Ops \ {"faults"} : \E d : Bench!op(k, d, None)
    BY <2>1
  <2>3. PICK d : Bench!op(k, d, None)
    BY <2>2
  <2> QED BY <1>1, <1>2, <2>2, <2>3, OpAsked
<1> QED BY <1>3, <1>4

\* The preview is asked of the form as it is.
LEMMA PreviewStep ==
  ASSUME BenchAssumption, BenchInv, modal # None, NEW m, Touches(modal, m, {"timer"}), m.editing # None,
         Bench!runPreview(m)
  PROVE  BenchInv'
<1> DEFINE a == Bench!Ask("preview", m.editing.id, m.editing)
           c == [Bench!Ask("preview", m.editing.id, m.editing) EXCEPT !.n = m.seq + 1]
<1>1. /\ BenchShape /\ OrdersFine /\ modal.me \in 0..tally.clicks /\ modal.seq \in Nat /\ BusyOf(orders, modal.me, modal.busy)
  BY DEF BenchInv, BenchShape
<1>2. m.me = modal.me /\ m.seq = modal.seq /\ m.editing = modal.editing /\ m.busy = modal.busy /\ Has(DialogFields, m)
  BY DEF Touches, DialogFields
<1>3. /\ Has(OrderFields, a) /\ a.kind = "preview" /\ a.with = m.editing /\ a.after = None /\ a.me = modal.me /\ ~a.served
  BY AskedIs
<1>4. Changed(a, c, "n", m.seq + 1) /\ "n" \in OrderFields
  BY DEF Changed, OrderFields
<1>5. orders' = Append(orders, c) /\ UNCHANGED <<bench, listed, declined>> /\ Bench!Counted
      /\ modal' = [m EXCEPT !.seq = @ + 1, !.busyPreview = TRUE]
  BY DEF Bench!runPreview, Bench!Calls, Bench!Still
<1> HIDE DEF a, c
<1>6. Has(OrderFields, c) /\ c["n"] = m.seq + 1 /\ \A k \in OrderFields : k # "n" => c[k] = a[k]
  BY <1>3, <1>4, FieldIs
<1>7. c.kind = "preview" /\ c.with = m.editing /\ c.after = None /\ c.me = modal.me /\ ~c.served /\ c.n = modal.seq + 1
  BY <1>2, <1>3, <1>6 DEF OrderFields
<1>8. Touches(m, modal', {"seq", "busyPreview"}) /\ modal'.seq = modal.seq + 1 /\ modal'.busyPreview
  <2>1. DOMAIN m = DialogFields
    BY <1>2, HasDomain
  <2>2. Has(DialogFields, modal')
    BY <1>5, <2>1 DEF Has
  <2>3. \A f \in DialogFields \ {"seq", "busyPreview"} : modal'[f] = m[f]
    BY <1>5, <2>1
  <2> QED BY <1>2, <1>5, <2>1, <2>2, <2>3 DEF Touches, DialogFields
<1>9. Touches(modal, modal', {"timer"} \cup {"seq", "busyPreview"})
      /\ ({"timer"} \cup {"seq", "busyPreview"}) \cap {"me", "editing"} = {}
  BY <1>8, TouchTwice
<1>10. modal'.me = modal.me /\ modal'.editing = m.editing /\ modal'.busy = modal.busy
  BY <1>2, <1>8 DEF Touches, DialogFields
<1>11. Passed(orders, orders', Len(orders) + 1, <<c>>) /\ Len(orders) + 1 \notin DOMAIN orders /\ <<c>># <<>> /\ <<c>>[1] = c
  BY <1>1, <1>5, CallAdded, OneMore
<1>12. TallyOn(tally')
  BY <1>1, <1>5, TallyMoves
<1>13. OrderFine(c, tally'.clicks, modal')
  <2>1. c.me \in 0..tally'.clicks
    BY <1>1, <1>7, <1>12 DEF BenchShape, TallyOn
  <2> QED BY <1>1, <1>6, <1>7, <1>8, <2>1 DEF OrderFine
<1>14. ~Ours(c, modal.me) /\ ~Deletes(c) /\ ~Adds(c, modal)
  <2>1. c.after # "faults" /\ c.after # "duplicate"
    BY <1>7 DEF BenchAssumption
  <2> QED BY <1>7, <2>1 DEF Ours, Bench!Ops, Deletes, Adds
<1>15. BusyOf(orders', modal.me, modal'.busy)
  BY <1>1, <1>10, <1>11, <1>14, BusyAround
<1>16. \A i \in DOMAIN orders : orders[i].kind = "preview" /\ orders[i].me = modal.me => orders[i].n \in Int /\ orders[i].n <= modal.seq
  BY <1>1 DEF OrdersFine, OrderFine
<1>17. PreviewOf(orders', modal')
  BY <1>1, <1>7, <1>8, <1>10, <1>11, <1>16, PreviewAsked
<1>18. modal'.seq \in Nat /\ modal'.seq >= modal.seq
  BY <1>1, <1>8
<1> QED BY <1>5, <1>7, <1>9, <1>12, <1>13, <1>14, <1>15, <1>17, <1>18, BenchAsked

LEMMA ViewStep ==
  ASSUME BenchAssumption, BenchInv, Bench!timerFires \/ Bench!live
  PROVE  BenchInv'
<1>1. BenchShape /\ modal # None /\ Has(DialogFields, modal) /\ (modal.editing # None => FormFits(modal.editing))
  BY ModalIs DEF BenchInv, Bench!timerFires, Bench!live, Bench!Editing
<1>2. CASE Bench!live
  <2>1. modal.editing # None /\ Bench!runPreview(modal)
    BY <1>2 DEF Bench!live, Bench!Editing
  <2>2. Touches(modal, modal, {"timer"})
    BY <1>1 DEF Touches
  <2> QED BY <1>1, <2>1, <2>2, PreviewStep
<1>3. CASE Bench!timerFires
  <2> DEFINE m == [modal EXCEPT !.timer = FALSE]
  <2>1. Changed(modal, m, "timer", FALSE) /\ "timer" \in DialogFields
    BY DEF Changed, DialogFields
  <2>2. \/ modal.editing = None /\ modal' = m /\ UNCHANGED <<bench, listed, orders, declined, tally>>
        \/ modal.editing # None /\ Bench!runPreview(m)
    BY <1>3 DEF Bench!timerFires, Bench!Shows, Bench!Still
  <2> HIDE DEF m
  <2>3. Touches(modal, m, {"timer"})
    BY <1>1, <2>1, TouchOne
  <2>4. m.editing = modal.editing
    BY <2>3 DEF Touches, DialogFields
  <2>5. CASE modal.editing # None /\ Bench!runPreview(m)
    BY <1>1, <2>3, <2>4, <2>5, PreviewStep
  <2>6. CASE modal.editing = None /\ modal' = m /\ UNCHANGED <<bench, listed, orders, declined, tally>>
    <3>1. TallyOn(tally')
      BY <1>1, <2>6, TallyMoves
    <3>2. PreviewOf(orders, modal') /\ ~OfCustom(modal') /\ modal'.editing = None
      BY <2>4, <2>6, PreviewWaits DEF OfCustom
    <3>3. {"timer"} \cap {"me", "busy", "seq"} = {}
      OBVIOUS
    <3> QED BY <1>1, <2>3, <2>6, <3>1, <3>2, <3>3, BenchShown
  <2> QED BY <2>2, <2>5, <2>6
<1> QED BY <1>2, <1>3

-----------------------------------------------------------------------------
(* The dialog is opened and closed. *)

LEMMA FreshIs ==
  ASSUME NEW n PROVE LET u == Bench!Fresh(n)
                     IN Has(DialogFields, u) /\ u.me = n /\ u.editing = None /\ u.busy = {} /\ u.seq = 0
BY DEF Bench!Fresh, Has, DialogFields

LEMMA OpenStep == ASSUME BenchAssumption, BenchInv, Bench!open PROVE BenchInv'
<1> DEFINE n == tally.clicks + 1
           a == Bench!Ask("list", None, None)
           c == [Bench!Ask("list", None, None) EXCEPT !.me = tally.clicks + 1]
<1>1. /\ BenchShape /\ OrdersFine /\ tally.clicks \in Nat /\ modal = None /\ Bench!Clicked(1) /\ modal' = Bench!Fresh(n)
      /\ orders' = Append(orders, c) /\ UNCHANGED <<bench, listed, declined>>
  BY DEF BenchInv, BenchShape, Bench!open, Bench!Still
<1>2. /\ Has(OrderFields, a) /\ a.kind = "list" /\ a.after = None /\ ~a.served
  BY AskedIs
<1>3. Changed(a, c, "me", n) /\ "me" \in OrderFields
  BY DEF Changed, OrderFields
<1>4. tally'.clicks = n /\ tally'.crossed = tally.crossed
  <2>1. DOMAIN tally = TallyFields
    BY <1>1, HasDomain DEF BenchShape
  <2> QED BY <1>1, <2>1 DEF Bench!Clicked, TallyFields
<1>5. TallyOn(tally')
  <2>1. 1 \in 0..1
    OBVIOUS
  <2> QED BY <1>1, <2>1, TallyMoves
<1> HIDE DEF a, c
<1>6. Has(OrderFields, c) /\ c["me"] = n /\ \A k \in OrderFields : k # "me" => c[k] = a[k]
  BY <1>2, <1>3, FieldIs
<1>7. c.kind = "list" /\ c.after = None /\ c.me = n
  BY <1>2, <1>6 DEF OrderFields
<1>8. Passed(orders, orders', Len(orders) + 1, <<c>>) /\ Len(orders) + 1 \notin DOMAIN orders /\ <<c>># <<>> /\ <<c>>[1] = c
  BY <1>1, CallAdded, OneMore
<1>9. /\ Has(DialogFields, modal') /\ modal'.me = n /\ modal'.editing = None /\ modal'.busy = {} /\ modal'.seq = 0
      /\ modal' # None
  BY <1>1, FreshIs DEF BenchAssumption
<1> HIDE DEF n
<1>10. n = tally.clicks + 1
  BY DEF n
<1>11. BenchShape'
  BY <1>1, <1>4, <1>5, <1>8, <1>9, <1>10 DEF BenchShape, TallyOn, Passed, BenchOf
<1>12. \A i \in DOMAIN orders : orders[i].me # n /\ OrderFine(orders[i], n, modal')
  <2> SUFFICES ASSUME NEW i \in DOMAIN orders PROVE orders[i].me # n /\ OrderFine(orders[i], n, modal')
    OBVIOUS
  <2>1. OrderFine(orders[i], tally.clicks, modal)
    BY <1>1 DEF OrdersFine
  <2>2. orders[i].me \in 0..tally.clicks
    BY <2>1 DEF OrderFine
  <2>3. orders[i].me \in 0..n /\ orders[i].me # n
    BY <1>1, <1>10, <2>2
  <2> QED BY <1>9, <2>1, <2>3 DEF OrderFine
<1>13. OrdersFine'
  <2>1. OrderFine(c, n, modal')
    <3>1. n \in 0..n
      BY <1>1, <1>10
    <3> QED BY <1>6, <1>7, <3>1 DEF OrderFine
  <2> QED BY <1>4, <1>8, <1>12, <2>1 DEF OrdersFine, Passed
<1>14. ListFine' /\ ~declined'
  BY <1>1, <1>7, <1>8 DEF BenchInv, ListFine, Passed
<1>15. BusyOf(orders', modal'.me, modal'.busy)
  <2>1. ~Ours(c, n)
    BY <1>7 DEF Ours, Bench!Ops, BenchAssumption
  <2>2. \A i \in DOMAIN orders : ~Ours(orders[i], n)
    BY <1>12 DEF Ours
  <2>3. \A i \in DOMAIN orders' : ~Ours(orders'[i], n)
    BY <1>8, <2>1, <2>2 DEF Passed
  <2> QED BY <1>9, <2>3 DEF BusyOf
<1>16. PreviewOf(orders', modal') /\ ~OfCustom(modal')
  BY <1>9, PreviewWaits DEF OfCustom
<1>17. ~tally'.crossed => DeletionOf(orders', modal', listed'.models, bench'.models)
  <2> SUFFICES ASSUME ~tally.crossed PROVE DeletionOf(orders', modal', listed.models, bench.models)
    BY <1>1, <1>4
  <2>1. DeletionOf(orders, modal, listed.models, bench.models)
    BY DEF BenchInv
  <2>2. \A i \in DOMAIN orders : ~Deletes(orders[i]) /\ ~Adds(orders[i], modal')
    BY <1>1, <1>9, <1>12, <2>1 DEF DeletionOf, Adds
  <2> QED BY <1>7, <1>8, <1>16, <2>1, <2>2, DeletionOpens
<1> QED BY <1>11, <1>13, <1>14, <1>15, <1>16, <1>17 DEF BenchInv

LEMMA CloseStep == ASSUME BenchAssumption, BenchInv, Bench!close PROVE BenchInv'
<1>1. /\ BenchShape /\ OrdersFine /\ modal' = None /\ UNCHANGED <<bench, listed, orders, declined>>
      /\ tally' = [tally EXCEPT !.crossed = @ \/ Bench!Deleting]
  BY DEF BenchInv, Bench!close
<1>2. DOMAIN tally = TallyFields /\ tally.clicks \in Nat
  BY <1>1, HasDomain DEF BenchShape
<1>3. tally'.clicks = tally.clicks /\ tally'.crossed = (tally.crossed \/ Bench!Deleting) /\ Has(TallyFields, tally')
  BY <1>1, <1>2 DEF TallyFields, Has
<1>4. TallyOn(tally')
  <2>1. tally.crossed \in BOOLEAN
    BY <1>1 DEF BenchShape
  <2> QED BY <1>2, <1>3, <2>1 DEF TallyOn
<1>5. Passed(orders, orders', Len(orders) + 1, <<>>)
  <2>1. PICK S : orders \in Seq(S)
    BY <1>1 DEF BenchShape
  <2>2. orders' = orders \o <<>>
    BY <1>1, <2>1
  <2> QED BY <2>1, <2>2, NoneGonePasses
<1>6. BenchShape'
  BY <1>1, <1>4 DEF BenchShape, TallyOn, BenchOf
<1>7. OrdersFine'
  <2>1. Continues(modal, modal')
    BY <1>1 DEF Continues
  <2> QED BY <1>1, <1>4, <1>5, <2>1, OrdersStayFine
<1>8. ListFine' /\ ~declined'
  BY <1>1 DEF BenchInv, ListFine
<1>9. ~tally'.crossed => DeletionOf(orders', modal', listed'.models, bench'.models)
  <2> SUFFICES ASSUME ~tally'.crossed PROVE DeletionOf(orders', modal', listed.models, bench.models)
    BY <1>1
  <2>1. DeletionOf(orders, modal, listed.models, bench.models) /\ ~Bench!Deleting
    BY <1>3 DEF BenchInv
  <2>2. \A i \in DOMAIN orders : ~Deletes(orders[i]) /\ ~Adds(orders[i], modal')
    BY <1>1, <2>1, NoneDeleted DEF Adds
  <2>3. ~OfCustom(modal')
    BY <1>1 DEF OfCustom
  <2> QED BY <1>5, <2>1, <2>2, <2>3, DeletionOpens
<1> QED BY <1>1, <1>6, <1>7, <1>8, <1>9 DEF BenchInv

-----------------------------------------------------------------------------
(* Go serves a call, and says what changed. *)

LEMMA PreviewServed ==
  ASSUME NEW cs, NEW new, NEW m, PreviewOf(cs, m), DOMAIN new = DOMAIN cs, \A i \in DOMAIN cs : SameCall(new[i], cs[i])
  PROVE  PreviewOf(new, m)
BY DEF PreviewOf, SameCall, OfLast

\* A call in its place.
LEMMA InPlace ==
  ASSUME NEW S, NEW cs \in Seq(S), NEW k \in DOMAIN cs, NEW s, NEW w, Changed(cs, w, k, s)
  PROVE  /\ \E T : w \in Seq(T)
         /\ DOMAIN w = DOMAIN cs /\ w[k] = s /\ \A i \in DOMAIN cs : i # k => w[i] = cs[i]
<1>1. cs \in Seq(S \cup {s}) /\ s \in S \cup {s}
  BY SeqMonotonic
<1>2. w \in Seq(S \cup {s})
  BY <1>1 DEF Changed
<1> QED BY <1>2 DEF Changed

LEMMA GoMoves ==
  ASSUME BenchAssumption, BenchInv, BenchOf(bench'), UNCHANGED listed, ~declined', TallyOn(tally'),
         NEW w, DOMAIN w = DOMAIN orders, NEW T, w \in Seq(T),
         \A i \in DOMAIN orders : SameCall(w[i], orders[i]) /\ Has(OrderFields, w[i]),
         NEW more, more = <<>> \/ \E t : more = <<t>>, orders' = w \o more,
         more # <<>> => more[1].kind = "list" /\ more[1].after = None /\ OrderFine(more[1], tally.clicks, modal),
         bench' # bench => more # <<>>,
         (modal = None /\ modal' = None) \/ (modal # None /\ Touches(modal, modal', {"stopAsked"})),
         ~tally'.crossed => DeletionOf(w, modal, listed.models, bench'.models)
  PROVE  BenchInv'
<1>1. /\ BenchShape /\ OrdersFine /\ tally.clicks \in Nat /\ tally'.clicks \in Nat /\ tally'.clicks >= tally.clicks
      /\ modal # None => modal.me \in 0..tally.clicks /\ modal.seq \in Nat /\ BusyOf(orders, modal.me, modal.busy)
                         /\ PreviewOf(orders, modal)
  BY DEF BenchInv, BenchShape, TallyOn
<1>2. Passed(w, orders', Len(w) + 1, more) /\ Len(w) + 1 \notin DOMAIN w
  BY NoneGonePasses
<1>3. modal # None => /\ modal' # None /\ modal'.me = modal.me /\ modal'.busy = modal.busy /\ modal'.seq = modal.seq
                      /\ modal'.editing = modal.editing /\ SameView(modal, modal')
  <2>1. {"stopAsked"} \cap ViewFields = {}
    BY DEF ViewFields
  <2> QED BY <2>1, TouchesView DEF Touches, DialogFields, BenchAssumption
<1>4. Continues(modal, modal')
  BY <1>1, <1>3 DEF Continues
<1>5. BenchShape'
  <2>1. BenchOf(bench') /\ BenchOf(listed')
    BY <1>1 DEF BenchShape
  <2>2. \E S : orders' \in Seq(S)
    BY <1>2 DEF Passed
  <2>3. modal' # None => Has(DialogFields, modal')
    BY DEF Touches
  <2> QED BY <1>1, <1>3, <2>1, <2>2, <2>3 DEF BenchShape, TallyOn
<1>6. OrdersFine'
  <2>1. \A i \in DOMAIN w : OrderFine(w[i], tally.clicks, modal)
    BY <1>1, SameIsFine DEF OrdersFine
  <2>2. \A i \in DOMAIN orders' : OrderFine(orders'[i], tally.clicks, modal)
    BY <1>2, <2>1 DEF Passed
  <2>3. modal # None => modal.seq \in Nat
    BY <1>1
  <2>4. \A i \in DOMAIN orders' : OrderFine(orders'[i], tally'.clicks, modal')
    BY <1>1, <1>4, <2>2, <2>3, FineStays
  <2> QED BY <2>4 DEF OrdersFine
<1>7. ListFine'
  <2>1. CASE more # <<>>
    BY <1>2, <2>1 DEF Passed, ListFine
  <2>2. CASE more = <<>>
    <3>1. \A i \in DOMAIN orders : orders[i].kind = "list" => \E j \in DOMAIN orders' : orders'[j].kind = "list"
      <4> SUFFICES ASSUME NEW i \in DOMAIN orders, orders[i].kind = "list"
                   PROVE  \E j \in DOMAIN orders' : orders'[j].kind = "list"
        OBVIOUS
      <4>1. w[i].kind = "list" /\ i \in DOMAIN w /\ i # Len(w) + 1
        BY <1>2 DEF SameCall
      <4>2. Moved(i, Len(w) + 1) \in DOMAIN orders' /\ orders'[Moved(i, Len(w) + 1)] = w[i]
        BY <1>2, <4>1 DEF Passed
      <4> QED BY <4>1, <4>2
    <3> QED BY <2>2, <3>1 DEF BenchInv, ListFine
  <2> QED BY <2>1, <2>2
<1>8. more # <<>> => \A m : m # None => ~Ours(more[1], m.me) /\ ~OfLast(more[1], m) /\ ~Adds(more[1], m) /\ ~Deletes(more[1])
  BY DEF Ours, OfLast, Adds, Deletes, Bench!Ops, BenchAssumption
<1>9. modal' # None => BusyOf(orders', modal'.me, modal'.busy) /\ PreviewOf(orders', modal')
  <2> SUFFICES ASSUME modal # None PROVE BusyOf(orders', modal'.me, modal'.busy) /\ PreviewOf(orders', modal')
    OBVIOUS
  <2>1. BusyOf(w, modal.me, modal.busy) /\ PreviewOf(w, modal)
    BY <1>1, BusyServed, PreviewServed
  <2>2. BusyOf(orders', modal.me, modal.busy)
    BY <1>2, <1>8, <2>1, BusyAround
  <2>3. PreviewOf(orders', modal')
    BY <1>2, <1>3, <1>8, <2>1, PreviewStays
  <2> QED BY <1>3, <2>2, <2>3
<1>10. ~tally'.crossed => DeletionOf(orders', modal', listed'.models, bench'.models)
  <2> SUFFICES ASSUME ~tally'.crossed PROVE DeletionOf(orders', modal', listed.models, bench'.models)
    OBVIOUS
  <2>1. DeletionOf(w, modal, listed.models, bench'.models)
    OBVIOUS
  <2>2. modal # None => modal' # None /\ modal'.me = modal.me
    BY <1>3
  <2>3. modal' # None => modal # None
    OBVIOUS
  <2>4. OfCustom(modal') => OfCustom(modal)
    BY <1>3 DEF OfCustom
  <2>5. more # <<>> => ~Deletes(more[1]) /\ ~Adds(more[1], modal)
    BY DEF Adds, Deletes
  <2> QED BY <1>2, <2>1, <2>2, <2>3, <2>4, <2>5, DeletionAdds
<1> QED BY <1>5, <1>6, <1>7, <1>9, <1>10 DEF BenchInv

LEMMA StopStep == ASSUME BenchAssumption, BenchInv, Bench!stopRecording PROVE BenchInv'
<1>1. /\ BenchShape /\ OrdersFine /\ modal # None /\ Bench!Clicked(0) /\ UNCHANGED <<bench, listed, declined>>
      /\ Changed(modal, modal', "stopAsked", TRUE)
  BY DEF BenchInv, Bench!stopRecording, Bench!New, Bench!Editing, Bench!Still, Changed
<1>2. PICK k \in DOMAIN orders : /\ orders[k].kind = "record" /\ ~orders[k].served
                                 /\ orders' = [orders EXCEPT ![k].served = TRUE, ![k].ok = FALSE]
  BY DEF Bench!stopRecording
<1> DEFINE c == orders[k]
           s == [orders[k] EXCEPT !.served = TRUE, !.ok = FALSE]
<1>3. PICK S : orders \in Seq(S)
  BY <1>1 DEF BenchShape
<1>4. Has(OrderFields, c)
  BY <1>1 DEF OrdersFine, OrderFine
<1>5. Has(OrderFields, s) /\ SameCall(s, c) /\ s.ok = FALSE /\ s.kind = "record"
  <2>1. DOMAIN c = OrderFields
    BY <1>4, HasDomain
  <2>2. Has(OrderFields, s)
    BY <2>1 DEF Has
  <2> QED BY <1>2, <2>1, <2>2 DEF SameCall, OrderFields
<1>6. Changed(orders, orders', k, s)
  BY <1>2, <1>3 DEF Changed
<1> HIDE DEF c, s
<1>7. /\ \E T : orders' \in Seq(T)
      /\ DOMAIN orders' = DOMAIN orders /\ orders'[k] = s /\ \A i \in DOMAIN orders : i # k => orders'[i] = orders[i]
  BY <1>3, <1>6, InPlace
<1>8. \A i \in DOMAIN orders : SameCall(orders'[i], orders[i]) /\ Has(OrderFields, orders'[i])
  BY <1>1, <1>5, <1>7 DEF SameCall, OrdersFine, OrderFine, c
<1>9. TallyOn(tally')
  <2>1. 0 \in 0..1
    OBVIOUS
  <2> QED BY <1>1, <2>1, TallyMoves
<1>10. Touches(modal, modal', {"stopAsked"})
  <2>1. Has(DialogFields, modal) /\ "stopAsked" \in DialogFields
    BY <1>1, ModalIs DEF DialogFields
  <2> QED BY <1>1, <2>1, TouchOne
<1>11. ~tally'.crossed => DeletionOf(orders', modal, listed.models, bench'.models)
  <2> SUFFICES ASSUME ~tally'.crossed PROVE DeletionOf(orders', modal, listed.models, bench.models)
    BY <1>1
  <2>1. DeletionOf(orders, modal, listed.models, bench.models)
    BY <1>9 DEF BenchInv, TallyOn
  <2>2. \A i \in DOMAIN orders : SameCall(orders'[i], orders[i])
    BY <1>8
  <2>3. ~orders'[k].ok
    BY <1>5, <1>7
  <2>4. ~orders[k].served /\ DOMAIN orders' = DOMAIN orders /\ \A i \in DOMAIN orders : i # k => orders'[i] = orders[i]
    BY <1>2, <1>7
  <2> DEFINE w == orders'
  <2> HIDE DEF w
  <2>5. DeletionOf(w, modal, listed.models, bench.models)
    BY <2>1, <2>2, <2>3, <2>4, DeletionServed DEF w
  <2> QED BY <2>5 DEF w
<1>12. PICK T : orders' \in Seq(T)
  BY <1>7
<1>13. orders' = orders' \o <<>>
  BY <1>12
<1>14. BenchOf(bench') /\ ~declined'
  BY <1>1 DEF BenchShape, BenchInv
<1> QED BY <1>1, <1>7, <1>8, <1>9, <1>10, <1>11, <1>12, <1>13, <1>14, GoMoves

\* What Go makes of a call: the devices are as they should be, and a model leaves
\* by a deletion only.
LEMMA PutFits ==
  ASSUME BenchOf(bench), NEW d \in Devices, NEW v, DeviceFits(v)
  PROVE  LET g == [bench EXCEPT !.devs = Bench!Put(d, v)] IN BenchOf(g) /\ g.models = bench.models
<1> DEFINE p == Bench!Put(d, v)
           g == [bench EXCEPT !.devs = Bench!Put(d, v)]
<1>1. Changed(bench, g, "devs", p) /\ Has({"devs", "models"}, bench) /\ "devs" \in {"devs", "models"} /\ "models" \in {"devs", "models"}
  BY DEF Changed, BenchOf
<1>2. p = [e \in DOMAIN bench.devs \cup {d} |-> IF e = d THEN v ELSE bench.devs[e]]
  BY DEF Bench!Put
<1> HIDE DEF p, g
<1>3. Has({"devs", "models"}, g) /\ g["devs"] = p /\ g["models"] = bench["models"]
  BY <1>1, FieldIs
<1>4. DOMAIN p = DOMAIN bench.devs \cup {d} /\ p = [e \in DOMAIN p |-> p[e]]
  BY <1>2
<1>5. \A e \in DOMAIN p : DeviceFits(p[e])
  BY <1>2 DEF BenchOf
<1>6. DOMAIN p \subseteq Devices
  BY <1>4 DEF BenchOf
<1>7. BenchOf(g)
  BY <1>3, <1>4, <1>5, <1>6 DEF BenchOf
<1> QED BY <1>3, <1>7 DEF g

LEMMA ModelsFit ==
  ASSUME NEW b, BenchOf(b), NEW ms, Bench!Ids \ {Custom} \subseteq ms, ms \subseteq Bench!Ids
  PROVE  LET g == [b EXCEPT !.models = ms] IN BenchOf(g) /\ g.models = ms /\ g.devs = b.devs
<1> DEFINE g == [b EXCEPT !.models = ms]
<1>1. Changed(b, g, "models", ms) /\ Has({"devs", "models"}, b) /\ "devs" \in {"devs", "models"} /\ "models" \in {"devs", "models"}
  BY DEF Changed, BenchOf
<1> HIDE DEF g
<1>2. Has({"devs", "models"}, g) /\ g["models"] = ms /\ g["devs"] = b["devs"]
  BY <1>1, FieldIs
<1>3. BenchOf(g)
  BY <1>2 DEF BenchOf
<1> QED BY <1>2, <1>3 DEF g

LEMMA WithoutFits ==
  ASSUME BenchOf(bench), NEW d
  PROVE  LET g == [bench EXCEPT !.devs = Bench!Without(d)] IN BenchOf(g) /\ g.models = bench.models
<1> DEFINE p == Bench!Without(d)
           g == [bench EXCEPT !.devs = Bench!Without(d)]
<1>1. Changed(bench, g, "devs", p) /\ Has({"devs", "models"}, bench) /\ "devs" \in {"devs", "models"} /\ "models" \in {"devs", "models"}
  BY DEF Changed, BenchOf
<1>2. p = [e \in DOMAIN bench.devs \ {d} |-> bench.devs[e]]
  BY DEF Bench!Without
<1> HIDE DEF p, g
<1>3. Has({"devs", "models"}, g) /\ g["devs"] = p /\ g["models"] = bench["models"]
  BY <1>1, FieldIs
<1>4. DOMAIN p = DOMAIN bench.devs \ {d} /\ p = [e \in DOMAIN p |-> p[e]] /\ \A e \in DOMAIN p : p[e] = bench.devs[e]
  BY <1>2
<1>5. BenchOf(g)
  BY <1>3, <1>4 DEF BenchOf
<1> QED BY <1>3, <1>5 DEF g

\* One field of a device, and it fits as well.
LEMMA FieldFits ==
  ASSUME NEW v, DeviceFits(v), NEW f \in {"model", "running", "faults", "text"}, NEW x, f = "running" => x \in BOOLEAN
  PROVE  DeviceFits([v EXCEPT ![f] = x])
<1> DEFINE u == [v EXCEPT ![f] = x]
<1>1. Changed(v, u, f, x) /\ Has({"model", "running", "faults", "text"}, v) /\ v.running \in BOOLEAN
  BY DEF Changed, DeviceFits
<1> HIDE DEF u
<1>2. /\ Has({"model", "running", "faults", "text"}, u) /\ u[f] = x
      /\ \A k \in {"model", "running", "faults", "text"} : k # f => u[k] = v[k]
  BY <1>1, FieldIs
<1>3. u.running \in BOOLEAN
  BY <1>1, <1>2
<1>4. DeviceFits(u)
  BY <1>2, <1>3 DEF DeviceFits
<1> QED BY <1>4 DEF u

LEMMA NewFits == ASSUME NEW m PROVE DeviceFits(Bench!Device(m))
BY DEF Bench!Device, DeviceFits, Has

\* What Go holds after a call.
HeldAfter(r, c) ==
  /\ BenchOf(r.go)
  /\ Custom \in bench.models => Custom \in r.go.models \/ (c.kind = "deleteModel" /\ r.ok)
  /\ c.kind \in {"importModels", "record"} => Custom \in r.go.models

LEMMA DoneFits ==
  ASSUME BenchAssumption, BenchOf(bench), NEW c, c.kind = "deleteModel" => c.with = Custom
  PROVE  HeldAfter(Bench!Done(c), c)
<1> DEFINE r == Bench!Done(c)
<1>1. BenchOf(bench) /\ Custom \in Bench!Ids
  BY DEF BenchAssumption
<1>2. ASSUME NEW d \in Devices, NEW v, DeviceFits(v), r.go = [bench EXCEPT !.devs = Bench!Put(d, v)],
             c.kind \notin {"importModels", "record"}
      PROVE  HeldAfter(r, c)
  <2>1. BenchOf(r.go) /\ r.go.models = bench.models
    BY <1>1, <1>2, PutFits
  <2> QED BY <1>2, <2>1 DEF HeldAfter
<1>3. ASSUME r.go = bench, c.kind \notin {"importModels", "record"} PROVE HeldAfter(r, c)
  BY <1>1, <1>3 DEF HeldAfter
<1>4. Bench!NewId # None => Bench!NewId \in Devices
  <2> DEFINE free == Devices \ DOMAIN bench.devs
  <2>1. CASE free = {}
    BY <2>1 DEF Bench!NewId
  <2>2. CASE free # {}
    BY <2>2 DEF Bench!NewId
  <2> QED BY <2>1, <2>2
<1>5. Bench!There(c) => c.dev \in Devices /\ DeviceFits(bench.devs[c.dev])
  BY <1>1 DEF Bench!There, BenchOf
<1>6. CASE c.kind = "save" /\ c.dev = None
  <2>1. \/ r.go = bench
        \/ /\ Bench!NewId # None
           /\ r.go = [bench EXCEPT !.devs = Bench!Put(Bench!NewId, [Bench!Device(c.with.model) EXCEPT !.text = c.with.text])]
    BY <1>6 DEF Bench!Done
  <2>2. DeviceFits([Bench!Device(c.with.model) EXCEPT !.text = c.with.text])
    BY NewFits, FieldFits
  <2> QED BY <1>2, <1>3, <1>4, <1>6, <2>1, <2>2
<1>7. CASE c.kind = "save" /\ c.dev # None
  <2>1. \/ r.go = bench
        \/ Bench!There(c) /\ r.go = [bench EXCEPT !.devs = Bench!Put(c.dev, [bench.devs[c.dev] EXCEPT !.text = c.with.text])]
    BY <1>7 DEF Bench!Done
  <2>2. Bench!There(c) => DeviceFits([bench.devs[c.dev] EXCEPT !.text = c.with.text])
    BY <1>5, FieldFits
  <2> QED BY <1>2, <1>3, <1>5, <1>7, <2>1, <2>2
<1>8. CASE c.kind \in {"start", "stop"}
  <2>1. \/ r.go = bench
        \/ \E b \in BOOLEAN : Bench!There(c) /\ r.go = [bench EXCEPT !.devs = Bench!Put(c.dev, [bench.devs[c.dev] EXCEPT !.running = b])]
    BY <1>8 DEF Bench!Done
  <2>2. \A b \in BOOLEAN : Bench!There(c) => DeviceFits([bench.devs[c.dev] EXCEPT !.running = b])
    BY <1>5, FieldFits
  <2> QED BY <1>2, <1>3, <1>5, <1>8, <2>1, <2>2
<1>9. CASE c.kind = "restart"
  <2>1. r.go = bench
    BY <1>9 DEF Bench!Done
  <2> QED BY <1>3, <1>9, <2>1
<1>10. CASE c.kind = "duplicate"
  <2>1. \/ r.go = bench
        \/ /\ Bench!There(c) /\ Bench!NewId # None
           /\ r.go = [bench EXCEPT !.devs = Bench!Put(Bench!NewId, [bench.devs[c.dev] EXCEPT !.running = FALSE])]
    BY <1>10 DEF Bench!Done
  <2>2. Bench!There(c) => DeviceFits([bench.devs[c.dev] EXCEPT !.running = FALSE])
    BY <1>5, FieldFits
  <2> QED BY <1>2, <1>3, <1>4, <1>10, <2>1, <2>2
<1>11. CASE c.kind = "remove"
  <2>1. r.go = [bench EXCEPT !.devs = Bench!Without(c.dev)]
    BY <1>11 DEF Bench!Done
  <2>2. BenchOf(r.go) /\ r.go.models = bench.models
    BY <1>1, <2>1, WithoutFits
  <2> QED BY <1>11, <2>2 DEF HeldAfter
<1>12. CASE c.kind = "faults"
  <2>1. \/ r.go = bench
        \/ Bench!There(c) /\ r.go = [bench EXCEPT !.devs = Bench!Put(c.dev, [bench.devs[c.dev] EXCEPT !.faults = c.with])]
    BY <1>12 DEF Bench!Done
  <2>2. Bench!There(c) => DeviceFits([bench.devs[c.dev] EXCEPT !.faults = c.with])
    BY <1>5, FieldFits
  <2> QED BY <1>2, <1>3, <1>5, <1>12, <2>1, <2>2
<1>13. CASE c.kind = "deleteModel"
  <2>1. r.go = bench \/ (r.ok /\ r.go = [bench EXCEPT !.models = bench.models \ {c.with}])
    BY <1>13 DEF Bench!Done
  <2>2. CASE r.ok /\ r.go = [bench EXCEPT !.models = bench.models \ {c.with}]
    <3>1. Bench!Ids \ {Custom} \subseteq bench.models \ {c.with} /\ bench.models \ {c.with} \subseteq Bench!Ids
      BY <1>1, <1>13 DEF BenchOf
    <3>2. BenchOf(r.go)
      BY <1>1, <2>2, <3>1, ModelsFit
    <3> QED BY <1>13, <2>2, <3>2 DEF HeldAfter
  <2> QED BY <1>3, <1>13, <2>1, <2>2
<1>14. CASE c.kind \in {"importModels", "record"}
  <2>1. r.go = [bench EXCEPT !.models = bench.models \cup {Custom}]
    BY <1>14 DEF Bench!Done
  <2>2. Bench!Ids \ {Custom} \subseteq bench.models \cup {Custom} /\ bench.models \cup {Custom} \subseteq Bench!Ids
    BY <1>1 DEF BenchOf
  <2>3. BenchOf(r.go) /\ r.go.models = bench.models \cup {Custom}
    BY <1>1, <2>1, <2>2, ModelsFit
  <2> QED BY <1>14, <2>3 DEF HeldAfter
<1>15. CASE c.kind \notin {"save", "start", "stop", "restart", "duplicate", "remove", "faults", "deleteModel", "importModels", "record"}
  <2>1. r.go = bench
    BY <1>15 DEF Bench!Done
  <2> QED BY <1>3, <1>15, <2>1
<1> QED BY <1>6, <1>7, <1>8, <1>9, <1>10, <1>11, <1>12, <1>13, <1>14, <1>15

LEMMA GoServes == ASSUME BenchAssumption, BenchInv, Bench!serve PROVE BenchInv'
<1>1. /\ BenchShape /\ OrdersFine /\ UNCHANGED <<listed, modal, tally>> /\ BenchOf(bench)
  BY DEF BenchInv, BenchShape, Bench!serve
<1>2. PICK k \in DOMAIN orders :
        LET c == orders[k] IN
        /\ ~c.served
        /\ \E ok \in (IF c.kind \in {"record", "preview", "start"} THEN BOOLEAN ELSE {TRUE}) :
             LET r == IF ok THEN Bench!Done(c) ELSE [ok |-> FALSE, go |-> bench]
                 s == [c EXCEPT !.served = TRUE, !.ok = r.ok, !.answer = IF c.kind = "list" THEN bench ELSE None]
             IN /\ bench' = r.go
                /\ orders' = [orders EXCEPT ![k] = s] \o (IF r.go # bench THEN Bench!simulator_changed(c) ELSE <<>>)
                /\ declined' = (declined \/ (c.kind = "faults" /\ ~Bench!Check(c.with)))
  BY DEF Bench!serve
<1> DEFINE c == orders[k]
<1>3. PICK ok \in BOOLEAN :
             LET r == IF ok THEN Bench!Done(c) ELSE [ok |-> FALSE, go |-> bench]
                 s == [c EXCEPT !.served = TRUE, !.ok = r.ok, !.answer = IF c.kind = "list" THEN bench ELSE None]
             IN /\ bench' = r.go
                /\ orders' = [orders EXCEPT ![k] = s] \o (IF r.go # bench THEN Bench!simulator_changed(c) ELSE <<>>)
                /\ declined' = (declined \/ (c.kind = "faults" /\ ~Bench!Check(c.with)))
  BY <1>2
<1> DEFINE r == IF ok THEN Bench!Done(c) ELSE [ok |-> FALSE, go |-> bench]
           s == [c EXCEPT !.served = TRUE, !.ok = r.ok, !.answer = IF c.kind = "list" THEN bench ELSE None]
           w == [orders EXCEPT ![k] = s]
           more == IF r.go # bench THEN Bench!simulator_changed(c) ELSE <<>>
<1>4. OrderFine(c, tally.clicks, modal) /\ ~c.served
  BY <1>1, <1>2 DEF OrdersFine
<1>5. bench' = r.go /\ orders' = w \o more /\ ~declined'
  BY <1>3, <1>4 DEF BenchInv, OrderFine
<1>6. /\ BenchOf(r.go)
      /\ Custom \in bench.models => Custom \in r.go.models \/ (c.kind = "deleteModel" /\ r.ok)
      /\ c.kind \in {"importModels", "record"} /\ r.ok => Custom \in r.go.models
  <2>1. HeldAfter(Bench!Done(c), c)
    BY <1>1, <1>4, DoneFits DEF OrderFine
  <2>2. CASE ok
    BY <2>1, <2>2 DEF HeldAfter
  <2>3. CASE ~ok
    BY <1>1, <2>3
  <2> QED BY <2>2, <2>3
<1>7. PICK S : orders \in Seq(S)
  BY <1>1 DEF BenchShape
<1> HIDE DEF r
<1>8. Has(OrderFields, s) /\ SameCall(s, c) /\ s.served /\ s.ok = r.ok /\ s.kind = c.kind
  <2>1. DOMAIN c = OrderFields
    BY <1>4, HasDomain DEF OrderFine
  <2>2. Has(OrderFields, s)
    BY <2>1 DEF Has
  <2> QED BY <2>1, <2>2 DEF SameCall, OrderFields
<1>9. Changed(orders, w, k, s)
  BY DEF Changed
<1>10. more = <<>> \/ more = <<Bench!refresh(c, None)>>
  BY DEF Bench!simulator_changed
<1>11. bench' # bench => more # <<>>
  BY <1>5 DEF Bench!simulator_changed
<1> HIDE DEF c, s, w, more
<1>12. /\ \E T : w \in Seq(T)
       /\ DOMAIN w = DOMAIN orders /\ w[k] = s /\ \A i \in DOMAIN orders : i # k => w[i] = orders[i]
  BY <1>7, <1>9, InPlace
<1>13. \A i \in DOMAIN orders : SameCall(w[i], orders[i]) /\ Has(OrderFields, w[i])
  BY <1>1, <1>8, <1>12 DEF SameCall, OrdersFine, OrderFine, c
<1>14. more # <<>> => more[1].kind = "list" /\ more[1].after = None /\ OrderFine(more[1], tally.clicks, modal)
  <2> DEFINE l == Bench!refresh(c, None)
  <2>1. ListsAgain(l, c, None) /\ c.me \in 0..tally.clicks
    BY <1>4, RefreshIs DEF OrderFine
  <2> HIDE DEF l
  <2>2. more # <<>> => more[1] = l
    BY <1>10 DEF l
  <2> QED BY <2>1, <2>2, ListIsFine DEF ListsAgain
<1>15. TallyOn(tally')
  BY <1>1, TallyMoves
<1>16. ~tally'.crossed => DeletionOf(w, modal, listed.models, bench'.models)
  <2> SUFFICES ASSUME ~tally'.crossed PROVE DeletionOf(w, modal, listed.models, bench'.models)
    OBVIOUS
  <2>1. DeletionOf(orders, modal, listed.models, bench.models)
    BY <1>1 DEF BenchInv
  <2>2. \A i \in DOMAIN orders : SameCall(w[i], orders[i])
    BY <1>13
  <2>3. ~orders[k].served
    BY <1>4 DEF c
  <2>4. Custom \in bench.models => Custom \in bench'.models \/ (Deletes(w[k]) /\ w[k].served /\ w[k].ok)
    BY <1>5, <1>6, <1>8, <1>12 DEF Deletes
  <2>5. w[k].kind \in {"importModels", "record"} /\ w[k].ok => Custom \in bench'.models
    BY <1>5, <1>6, <1>8, <1>12
  <2> DEFINE then == bench'.models
  <2> HIDE DEF then
  <2>6. Custom \in bench.models => Custom \in then \/ (Deletes(w[k]) /\ w[k].served /\ w[k].ok)
    BY <2>4 DEF then
  <2>7. w[k].kind \in {"importModels", "record"} /\ w[k].ok => Custom \in then
    BY <2>5 DEF then
  <2>8. DeletionOf(w, modal, listed.models, then)
    BY <1>12, <2>1, <2>2, <2>3, <2>6, <2>7, DeletionServed
  <2> QED BY <2>8 DEF then
<1>17. PICK T : w \in Seq(T)
  BY <1>12
<1>18. (modal = None /\ modal' = None) \/ (modal # None /\ Touches(modal, modal', {"stopAsked"}))
  BY <1>1, ModalIs DEF Touches
<1>19. more = <<>> \/ \E t : more = <<t>>
  BY <1>10
<1> QED BY <1>1, <1>5, <1>6, <1>11, <1>12, <1>13, <1>14, <1>15, <1>16, <1>17, <1>18, <1>19, GoMoves

LEMMA AutoStep == ASSUME BenchAssumption, BenchInv, Bench!startAutoSimulated PROVE BenchInv'
<1> DEFINE d == [dev |-> None, me |-> 0]
           l == Bench!refresh([dev |-> None, me |-> 0], None)
           started == [e \in DOMAIN bench.devs |-> [bench.devs[e] EXCEPT !.running = TRUE]]
<1>1. /\ BenchShape /\ OrdersFine /\ UNCHANGED <<listed, modal, declined>> /\ ~declined /\ BenchOf(bench)
      /\ tally' = [tally EXCEPT !.auto = FALSE] /\ bench' = [bench EXCEPT !.devs = started]
      /\ orders' = orders \o <<l>>
  BY DEF BenchInv, BenchShape, Bench!startAutoSimulated, Bench!simulator_changed
<1>2. DOMAIN tally = TallyFields /\ tally.clicks \in Nat /\ tally.crossed \in BOOLEAN
  BY <1>1, HasDomain DEF BenchShape
<1>3. tally'.clicks = tally.clicks /\ tally'.crossed = tally.crossed /\ Has(TallyFields, tally')
  BY <1>1, <1>2 DEF TallyFields, Has
<1>4. TallyOn(tally')
  BY <1>2, <1>3 DEF TallyOn
<1>5. ListsAgain(l, d, None) /\ d.me \in 0..tally.clicks
  BY <1>2, RefreshIs
<1>6. DOMAIN started = DOMAIN bench.devs /\ started = [e \in DOMAIN started |-> started[e]]
  OBVIOUS
<1>7. \A e \in DOMAIN started : DeviceFits(started[e])
  BY <1>1, FieldFits DEF BenchOf
<1>8. Changed(bench, bench', "devs", started) /\ Has({"devs", "models"}, bench) /\ "devs" \in {"devs", "models"} /\ "models" \in {"devs", "models"}
  BY <1>1 DEF Changed, BenchOf
<1> HIDE DEF started, l, d
<1>9. Has({"devs", "models"}, bench') /\ bench'["devs"] = started /\ bench'["models"] = bench["models"]
  BY <1>8, FieldIs
<1>10. BenchOf(bench')
  BY <1>1, <1>6, <1>7, <1>9 DEF BenchOf
<1>11. <<l>> # <<>> /\ <<l>>[1] = l /\ \E t : <<l>> = <<t>>
  OBVIOUS
<1>12. OrderFine(l, tally.clicks, modal) /\ l.kind = "list" /\ l.after = None
  BY <1>5, ListIsFine DEF ListsAgain
<1>13. ~tally'.crossed => DeletionOf(orders, modal, listed.models, bench'.models)
  BY <1>3, <1>9 DEF BenchInv
<1>14. \A i \in DOMAIN orders : SameCall(orders[i], orders[i]) /\ Has(OrderFields, orders[i])
  BY <1>1 DEF SameCall, OrdersFine, OrderFine
<1>15. (modal = None /\ modal' = None) \/ (modal # None /\ Touches(modal, modal', {"stopAsked"}))
  BY <1>1, ModalIs DEF Touches
<1>16. PICK T : orders \in Seq(T)
  BY <1>1 DEF BenchShape
<1>17. UNCHANGED listed /\ ~declined'
  BY <1>1
<1> QED BY <1>1, <1>4, <1>10, <1>11, <1>12, <1>13, <1>14, <1>15, <1>16, <1>17, GoMoves

-----------------------------------------------------------------------------
(* The dialog hears an answer. *)

\* What the dialog is after an answer: itself.
Turned(m, u) ==
  /\ Has(DialogFields, u) /\ u.me = m.me /\ u.seq = m.seq
  /\ u.editing # None => FormFits(u.editing)

LEMMA Hears ==
  ASSUME BenchAssumption, BenchInv, UNCHANGED <<bench, declined, tally>>, NEW k \in DOMAIN orders, NEW more,
         more = <<>> \/ \E t : more = <<t>>, orders' = Bench!RemoveAt(orders, k) \o more,
         more # <<>> => \E then : ListsAgain(more[1], orders[k], then),
         BenchOf(listed'), orders[k].kind = "list" \/ listed = bench => listed' = bench,
         modal = None => modal' = None,
         modal # None => /\ modal' # None /\ Turned(modal, modal')
                         /\ BusyOf(orders', modal.me, modal'.busy) /\ PreviewOf(orders', modal'),
         ~tally.crossed => DeletionOf(orders', modal', listed'.models, bench.models)
  PROVE  BenchInv'
<1>1. BenchShape /\ OrdersFine /\ ListFine /\ ~declined
  BY DEF BenchInv
<1>2. PICK S : orders \in Seq(S)
  BY <1>1 DEF BenchShape
<1>3. Passed(orders, orders', k, more)
  BY <1>2, OneGonePasses
<1>4. BenchShape'
  <2>1. \E T : orders' \in Seq(T)
    BY <1>3 DEF Passed
  <2> QED BY <1>1, <2>1 DEF BenchShape, Turned, BenchOf
<1>5. TallyOn(tally') /\ Continues(modal, modal')
  <2>1. TallyOn(tally')
    BY <1>1, TallyMoves
  <2>2. modal # None => modal.seq \in Nat
    BY <1>1 DEF BenchShape
  <2> QED BY <2>1, <2>2 DEF Continues, Turned
<1>6. OrdersFine'
  <2>1. more # <<>> => OrderFine(more[1], tally'.clicks, modal')
    <3>1. orders[k].me \in 0..tally.clicks
      BY <1>1 DEF OrdersFine, OrderFine
    <3> QED BY <3>1, ListIsFine
  <2> QED BY <1>1, <1>3, <1>5, <2>1, OrdersStayFine
<1>7. ListFine'
  <2>1. CASE listed' = bench
    BY <2>1 DEF ListFine
  <2>2. CASE listed' # bench
    <3>1. PICK i \in DOMAIN orders : orders[i].kind = "list"
      BY <1>1, <2>2 DEF ListFine
    <3>2. i # k
      BY <2>2, <3>1
    <3>3. Moved(i, k) \in DOMAIN orders' /\ orders'[Moved(i, k)] = orders[i]
      BY <1>3, <3>2 DEF Passed
    <3> QED BY <3>1, <3>3 DEF ListFine
  <2> QED BY <2>1, <2>2
<1>8. modal' # None => BusyOf(orders', modal'.me, modal'.busy) /\ PreviewOf(orders', modal')
  BY DEF Turned
<1> QED BY <1>1, <1>4, <1>6, <1>7, <1>8 DEF BenchInv

\* What is told of the models is of before, or of Go.
LEMMA BenchListed ==
  ASSUME BenchOf(listed), BenchOf(bench), NEW c,
         listed' = CASE c.kind = "list" -> bench
                     [] c.kind \in {"deleteModel", "importModels", "record"} /\ c.ok -> [listed EXCEPT !.models = bench.models]
                     [] OTHER -> listed
  PROVE  /\ BenchOf(listed') /\ listed'.models \in {listed.models, bench.models}
         /\ c.kind = "list" \/ listed = bench => listed' = bench
         /\ c.kind = "deleteModel" => listed'.models = IF c.ok THEN bench.models ELSE listed.models
<1>1. CASE c.kind = "list"
  BY <1>1
<1>2. CASE c.kind \in {"deleteModel", "importModels", "record"} /\ c.ok
  <2>1. listed' = [listed EXCEPT !.models = bench.models]
    BY <1>2
  <2>2. BenchOf(listed') /\ listed'.models = bench.models
    <3>1. Bench!Ids \ {Custom} \subseteq bench.models /\ bench.models \subseteq Bench!Ids
      BY DEF BenchOf
    <3> DEFINE ms == bench.models
               g == [listed EXCEPT !.models = ms]
    <3>2. listed' = g /\ Bench!Ids \ {Custom} \subseteq ms /\ ms \subseteq Bench!Ids
      BY <2>1, <3>1
    <3> HIDE DEF ms
    <3>3. BenchOf(g) /\ g.models = ms
      BY <3>2, ModelsFit
    <3> HIDE DEF g
    <3> QED BY <3>2, <3>3 DEF ms
  <2>3. listed = bench => listed' = bench
    <3> SUFFICES ASSUME listed = bench PROVE listed' = bench
      OBVIOUS
    <3>1. bench = [f \in {"devs", "models"} |-> bench[f]] /\ DOMAIN bench = {"devs", "models"}
      BY HasDomain DEF BenchOf, Has
    <3>2. [bench EXCEPT !.models = bench.models] = [f \in {"devs", "models"} |-> bench[f]]
      BY <3>1
    <3> QED BY <2>1, <3>1, <3>2
  <2> QED BY <1>2, <2>2, <2>3
<1>3. CASE c.kind # "list" /\ ~(c.kind \in {"deleteModel", "importModels", "record"} /\ c.ok)
  <2>1. listed' = listed
    BY <1>3
  <2> QED BY <1>3, <2>1
<1> QED BY <1>1, <1>2, <1>3

\* What is asked after an answer.
LEMMA AsksAre ==
  ASSUME NEW m, NEW c
  PROVE  LET a == Bench!Answered(m, c).asks
             again == c.kind \in {"save", "faults", "duplicate", "remove"} /\ c.ok
         IN /\ again => a = <<Bench!refresh(c, c.kind)>>
            /\ ~again => a = <<>> \/ a = <<Bench!refresh(c, None)>>
            /\ c.kind \in {"preview", "deleteModel"} => a = <<>>
BY DEF Bench!Answered

\* What the dialog becomes: nothing of what is previewed changes, or it waits to
\* be, and a new device is of the custom model only if that is there.
LEMMA OnModelTurns ==
  ASSUME BenchAssumption, NEW m, Has(DialogFields, m), m.editing # None => FormFits(m.editing), NEW id \in Bench!Ids
  PROVE  LET u == Bench!onModel(m, id)
         IN /\ Turned(m, u) /\ u.busy = m.busy
            /\ u = m \/ u.editing = None \/ u.tab # "data" \/ u.timer
            /\ OfCustom(u) => id = Custom
            /\ u = m => ~OfCustom(m) \/ id = Custom
<1> DEFINE u == Bench!onModel(m, id)
<1>1. m.editing # None => Has(DeviceForm, m.editing)
  BY DEF FormFits
<1>2. /\ Touches(m, u, {"editing", "timer"})
      /\ \/ u = m /\ (m.editing = None \/ m.editing.id # None)
         \/ /\ Has(DeviceForm, u.editing) /\ u.editing.id = None /\ u.editing.model = id
            /\ (u.editing = None \/ u.tab # "data" \/ u.timer)
  BY <1>1, OnModelIs
<1> HIDE DEF u
<1>3. u.me = m.me /\ u.seq = m.seq /\ u.busy = m.busy /\ Has(DialogFields, u)
  BY <1>2 DEF Touches, DialogFields
<1>4. CASE u = m /\ (m.editing = None \/ m.editing.id # None)
  BY <1>3, <1>4 DEF Turned, OfCustom, u
<1>5. CASE /\ Has(DeviceForm, u.editing) /\ u.editing.id = None /\ u.editing.model = id
           /\ (u.editing = None \/ u.tab # "data" \/ u.timer)
  BY <1>3, <1>5 DEF Turned, OfCustom, FormFits, u
<1> QED BY <1>2, <1>4, <1>5

LEMMA DialogAnswers == ASSUME BenchAssumption, BenchInv, Bench!answer PROVE BenchInv'
<1>1. PICK k \in DOMAIN orders :
        LET c == orders[k] IN
        /\ c.served \/ c.kind = "list"
        /\ modal' = Bench!Answered(modal, c).modal
        /\ orders' = Bench!RemoveAt(orders, k) \o Bench!Answered(modal, c).asks
        /\ listed' = CASE c.kind = "list" -> IF ListsInOrder THEN bench ELSE c.answer
                      [] c.kind \in {"deleteModel", "importModels", "record"} /\ c.ok -> [listed EXCEPT !.models = bench.models]
                      [] OTHER -> listed
  BY DEF Bench!answer
<1> DEFINE c == orders[k]
           more == Bench!Answered(modal, c).asks
           again == c.kind \in {"save", "faults", "duplicate", "remove"} /\ c.ok
<1>2. /\ UNCHANGED <<bench, declined, tally>> /\ BenchShape /\ BenchOf(bench) /\ BenchOf(listed)
      /\ c.served \/ c.kind = "list"
      /\ modal' = Bench!Answered(modal, c).modal /\ orders' = Bench!RemoveAt(orders, k) \o more
  BY <1>1 DEF BenchInv, BenchShape, Bench!answer
<1>3. listed' = CASE c.kind = "list" -> bench
                  [] c.kind \in {"deleteModel", "importModels", "record"} /\ c.ok -> [listed EXCEPT !.models = bench.models]
                  [] OTHER -> listed
  BY <1>1 DEF BenchAssumption
<1>4. /\ again => more = <<Bench!refresh(c, c.kind)>>
      /\ ~again => more = <<>> \/ more = <<Bench!refresh(c, None)>>
      /\ c.kind \in {"preview", "deleteModel"} => more = <<>>
  BY AsksAre
<1> HIDE DEF c, more
<1>5. PICK then : /\ more = <<>> \/ more = <<Bench!refresh(c, then)>>
                  /\ again => then = c.kind /\ more # <<>>
                  /\ ~again => then = None
  <2>1. CASE again
    BY <1>4, <2>1
  <2>2. CASE ~again
    BY <1>4, <2>2
  <2> QED BY <2>1, <2>2
<1>6. OrderFine(c, tally.clicks, modal)
  BY DEF BenchInv, OrdersFine, c
<1>7. PICK S : orders \in Seq(S)
  BY <1>2 DEF BenchShape
<1>8. /\ BenchOf(listed') /\ listed'.models \in {listed.models, bench.models}
      /\ c.kind = "list" \/ listed = bench => listed' = bench
      /\ c.kind = "deleteModel" => listed'.models = IF c.ok THEN bench.models ELSE listed.models
  BY <1>2, <1>3, BenchListed
<1>9. more # <<>> => ListsAgain(more[1], c, then)
  BY <1>5, RefreshIs
<1>10. more = <<>> \/ \E t : more = <<t>>
  BY <1>5
<1>11. Passed(orders, orders', k, more)
  BY <1>2, <1>7, <1>10, OneGonePasses
<1>12. c = orders[k]
  BY DEF c
<1>13. more # <<>> => \A m : m # None => ~OfLast(more[1], m) /\ ~Adds(more[1], m) /\ ~Deletes(more[1])
  BY <1>9 DEF OfLast, Adds, Deletes, ListsAgain
<1>14. ~tally.crossed => DeletionOf(orders, modal, listed.models, bench.models)
  BY DEF BenchInv
<1>15. more # <<>> => more[1].kind = "list"
  BY <1>9 DEF ListsAgain
<1>16. ~Deletes(c) /\ ~tally.crossed /\ (modal # None => modal' # None /\ modal'.me = modal.me) /\ (modal' # None => modal # None)
         /\ (OfCustom(modal') => OfCustom(modal) \/ Custom \in bench.models)
       => DeletionOf(orders', modal', listed'.models, bench.models)
  <2> DEFINE told == listed'.models
             u == modal'
  <2>1. told \in {listed.models, bench.models}
    BY <1>8
  <2> HIDE DEF told, u
  <2>2. ~Deletes(c) /\ ~tally.crossed /\ (modal # None => u # None /\ u.me = modal.me) /\ (u # None => modal # None)
         /\ (OfCustom(u) => OfCustom(modal) \/ Custom \in bench.models)
        => DeletionOf(orders', u, told, bench.models)
    BY <1>11, <1>12, <1>14, <1>15, <2>1, DeletionAround
  <2> QED BY <2>2 DEF told, u
<1>17. ASSUME modal = None => modal' = None,
              modal # None => /\ modal' # None /\ Turned(modal, modal')
                              /\ BusyOf(orders', modal.me, modal'.busy) /\ PreviewOf(orders', modal'),
              ~tally.crossed => DeletionOf(orders', modal', listed'.models, bench.models)
       PROVE  BenchInv'
  <2>1. more # <<>> => \E t : ListsAgain(more[1], orders[k], t)
    BY <1>9, <1>12
  <2>2. orders[k].kind = "list" \/ listed = bench => listed' = bench
    BY <1>8, <1>12
  <2> QED BY <1>2, <1>8, <1>10, <1>17, <2>1, <2>2, Hears
\* Of a dialog that is closed, or another.
<1>18. CASE modal = None \/ modal.me # c.me
  <2>1. modal' = modal
    BY <1>2, <1>18 DEF Bench!Answered
  <2>2. ASSUME modal # None
        PROVE  Turned(modal, modal) /\ BusyOf(orders', modal.me, modal.busy) /\ PreviewOf(orders', modal)
    <3>1. BusyOf(orders, modal.me, modal.busy) /\ PreviewOf(orders, modal) /\ Turned(modal, modal)
      BY <1>2, <2>2 DEF BenchInv, BenchShape, Turned
    <3>2. ~Ours(c, modal.me) /\ (more # <<>> => ~Ours(more[1], modal.me))
      BY <1>9, <1>18, <2>2 DEF Ours, ListsAgain
    <3>3. SameView(modal, modal)
      BY DEF SameView
    <3>4. BusyOf(orders', modal.me, modal.busy)
      BY <1>11, <1>12, <3>1, <3>2, BusyAround
    <3>5. PreviewOf(orders', modal)
      BY <1>11, <1>13, <2>2, <3>1, <3>3, PreviewStays
    <3> QED BY <3>1, <3>4, <3>5
  <2>3. ~tally.crossed => DeletionOf(orders', modal', listed'.models, bench.models)
    <3>1. ~tally.crossed => ~Deletes(c)
      BY <1>12, <1>14, <1>18 DEF DeletionOf
    <3> QED BY <1>16, <2>1, <3>1
  <2> QED BY <1>17, <2>1, <2>2, <2>3
\* Of this one.
<1>19. CASE modal # None /\ modal.me = c.me
  <2>1. /\ Has(DialogFields, modal) /\ (modal.editing # None => FormFits(modal.editing)) /\ modal.seq \in Nat
        /\ BusyOf(orders, modal.me, modal.busy) /\ PreviewOf(orders, modal)
    BY <1>2, <1>19 DEF BenchInv, BenchShape
  <2>2. modal' = (CASE c.kind = "save" -> IF c.ok THEN [modal EXCEPT !.editing = None] ELSE [modal EXCEPT !.saving = FALSE]
               [] c.kind = "list" -> IF c.after = "save" THEN [modal EXCEPT !.saving = FALSE]
                                     ELSE IF c.after \in {"faults", "duplicate"} THEN Bench!Free(modal, c.dev) ELSE modal
               [] c.kind \in Bench!Ops -> IF again THEN modal ELSE Bench!Free(modal, c.dev)
               [] c.kind \in {"credentials", "suggest"} ->
                    IF c.ok THEN [modal EXCEPT !.editing = c.with, !.tab = "identity"] ELSE modal
               [] c.kind = "preview" -> Bench!previewed(modal, c)
               [] c.kind = "deleteModel" -> IF c.ok THEN Bench!AnotherModel(modal, c) ELSE modal
               [] c.kind \in {"importModels", "record"} -> IF c.ok THEN Bench!onModel(modal, Custom) ELSE modal
               [] OTHER -> modal)
    BY <1>2, <1>19 DEF Bench!Answered
  <2>3. c.kind # "list" => c.after # "faults" /\ c.after # "duplicate"
    BY <1>6 DEF OrderFine, BenchAssumption
  \* Nothing of what is previewed changes, nor the form.
  <2>4. ASSUME NEW fields, Touches(modal, modal', fields), fields \cap ViewFields = {},
               BusyOf(orders', modal.me, modal'.busy), ~Deletes(c)
        PROVE  BenchInv'
    <3>1. SameView(modal, modal') /\ modal' # None
      BY <2>4, TouchesView DEF Touches, BenchAssumption
    <3>2. modal'.editing = modal.editing /\ modal'.me = modal.me /\ modal'.seq = modal.seq
      BY <3>1 DEF SameView, ViewFields
    <3>3. PreviewOf(orders', modal')
      BY <1>11, <1>13, <1>19, <2>1, <3>1, PreviewStays
    <3>4. Turned(modal, modal')
      BY <2>1, <2>4, <3>2 DEF Turned, Touches
    <3>5. OfCustom(modal') => OfCustom(modal)
      BY <1>19, <3>2 DEF OfCustom
    <3>6. ~tally.crossed => DeletionOf(orders', modal', listed'.models, bench.models)
      BY <1>16, <1>19, <2>4, <3>1, <3>2, <3>5
    <3> QED BY <1>17, <1>19, <2>4, <3>1, <3>3, <3>4, <3>6
  \* The dialog has no device of it busy.
  <2>5. ~Ours(c, modal.me) /\ (more # <<>> => ~Ours(more[1], modal.me)) => BusyOf(orders', modal.me, modal.busy)
    BY <1>11, <1>12, <2>1, BusyAround
  <2>6. then \notin {"faults", "duplicate"} => (more # <<>> => ~Ours(more[1], modal.me))
    BY <1>9 DEF ListsAgain, Ours, Bench!Ops
  <2>7. c.kind \notin Bench!Ops \cup {"list"} => BusyOf(orders', modal.me, modal.busy)
    <3> SUFFICES ASSUME c.kind \notin Bench!Ops \cup {"list"} PROVE BusyOf(orders', modal.me, modal.busy)
      OBVIOUS
    <3>1. ~Ours(c, modal.me)
      BY <2>3 DEF Ours
    <3>2. then \notin {"faults", "duplicate"}
      BY <1>5 DEF Bench!Ops, BenchAssumption
    <3> QED BY <2>5, <2>6, <3>1, <3>2
  \* Nothing is asked, or a list for another purpose: the device is free.
  <2>8. ASSUME Ours(c, modal.me), then \notin {"faults", "duplicate"}, modal' = Bench!Free(modal, c.dev), ~Deletes(c)
        PROVE  BenchInv'
    <3> DEFINE b == modal.busy \ {c.dev}
    <3>1. Changed(modal, modal', "busy", b) /\ "busy" \in DialogFields /\ {"busy"} \cap ViewFields = {}
      BY <2>8 DEF Bench!Free, Changed, DialogFields, ViewFields
    <3> HIDE DEF b
    <3>2. Touches(modal, modal', {"busy"}) /\ modal'["busy"] = b
      BY <2>1, <3>1, TouchOne
    <3>3. BusyOf(orders', modal.me, modal'.busy)
      BY <1>11, <1>12, <2>1, <2>6, <2>8, <3>2, BusyEnds DEF b
    <3> QED BY <2>4, <2>8, <3>1, <3>2, <3>3
  <2>9. ASSUME modal' = modal, BusyOf(orders', modal.me, modal.busy), ~Deletes(c) PROVE BenchInv'
    <3>1. Touches(modal, modal', {}) /\ {} \cap ViewFields = {}
      BY <2>1, <2>9, TouchesNot
    <3> QED BY <2>4, <2>9, <3>1
  <2>10. ASSUME c.kind \in {"save", "list"}, modal' = [modal EXCEPT !.saving = FALSE], BusyOf(orders', modal.me, modal.busy)
         PROVE  BenchInv'
    <3>1. Changed(modal, modal', "saving", FALSE) /\ {"saving", "busy"} \subseteq DialogFields /\ {"saving"} \cap ViewFields = {}
      BY <2>10 DEF Changed, DialogFields, ViewFields
    <3>2. Touches(modal, modal', {"saving"})
      BY <2>1, <3>1, TouchOne
    <3>3. modal'.busy = modal.busy /\ ~Deletes(c)
      BY <2>10, <3>1, <3>2 DEF Touches, Deletes
    <3> QED BY <2>4, <2>10, <3>1, <3>2, <3>3
  <2>11. CASE c.kind = "save"
    <3>1. BusyOf(orders', modal.me, modal.busy)
      BY <2>7, <2>11 DEF Bench!Ops
    <3>2. modal' = IF c.ok THEN [modal EXCEPT !.editing = None] ELSE [modal EXCEPT !.saving = FALSE]
      BY <2>2, <2>11 DEF Bench!Ops
    <3>3. CASE c.ok
      <4>1. Changed(modal, modal', "editing", None) /\ {"editing", "busy", "me", "seq"} \subseteq DialogFields
        BY <3>2, <3>3 DEF Changed, DialogFields
      <4>2. Touches(modal, modal', {"editing"}) /\ modal'["editing"] = None
        BY <2>1, <4>1, TouchOne
      <4>3. Turned(modal, modal') /\ modal' # None /\ modal'.busy = modal.busy
        BY <4>1, <4>2 DEF Turned, Touches, BenchAssumption
      <4>4. PreviewOf(orders', modal') /\ ~OfCustom(modal')
        BY <4>2, PreviewWaits DEF OfCustom
      <4>5. ~Deletes(c)
        BY <2>11 DEF Deletes
      <4> QED BY <1>16, <1>17, <1>19, <3>1, <4>3, <4>4, <4>5 DEF Turned
    <3>4. CASE ~c.ok
      BY <2>10, <2>11, <3>1, <3>2, <3>4
    <3> QED BY <3>3, <3>4
  <2>12. CASE c.kind = "list"
    <3>1. then \notin {"faults", "duplicate"} /\ ~Deletes(c)
      BY <1>5, <2>12 DEF BenchAssumption, Deletes
    <3>2. modal' = IF c.after = "save" THEN [modal EXCEPT !.saving = FALSE]
                   ELSE IF c.after \in {"faults", "duplicate"} THEN Bench!Free(modal, c.dev) ELSE modal
      BY <2>2, <2>12 DEF Bench!Ops
    <3>3. c.after \notin {"faults", "duplicate"} => BusyOf(orders', modal.me, modal.busy)
      BY <2>5, <2>6, <2>12, <3>1 DEF Ours, Bench!Ops
    <3>4. CASE c.after = "save"
      BY <2>10, <2>12, <3>2, <3>3, <3>4
    <3>5. CASE c.after \in {"faults", "duplicate"}
      <4>1. Ours(c, modal.me) /\ modal' = Bench!Free(modal, c.dev)
        BY <1>19, <3>2, <3>5 DEF Ours
      <4> QED BY <2>8, <3>1, <4>1
    <3>6. CASE c.after \notin {"save", "faults", "duplicate"}
      BY <2>9, <3>1, <3>2, <3>3, <3>6
    <3> QED BY <3>4, <3>5, <3>6
  <2>13. CASE c.kind \in Bench!Ops
    <3>1. Ours(c, modal.me) /\ ~Deletes(c)
      BY <1>19, <2>13 DEF Ours, Bench!Ops, Deletes
    <3>2. modal' = IF again THEN modal ELSE Bench!Free(modal, c.dev)
      BY <2>2, <2>13 DEF Bench!Ops
    <3>3. CASE again
      <4> DEFINE l == Bench!refresh(c, then)
      <4>1. then \in {"faults", "duplicate"} /\ more = <<l>>
        BY <1>5, <2>13, <3>3 DEF Bench!Ops
      <4>2. ListsAgain(l, c, then)
        BY RefreshIs
      <4> HIDE DEF l
      <4>3. Ours(l, modal.me) /\ l.dev = c.dev
        BY <1>19, <4>1, <4>2 DEF ListsAgain, Ours
      <4>4. Passed(orders, orders', k, <<l>>)
        BY <1>11, <4>1
      <4>5. BusyOf(orders', modal.me, modal.busy)
        BY <1>12, <2>1, <3>1, <4>3, <4>4, BusyGoesOn
      <4> QED BY <2>9, <3>1, <3>2, <3>3, <4>5
    <3>4. CASE ~again
      <4>1. then \notin {"faults", "duplicate"}
        BY <1>5, <3>4 DEF BenchAssumption
      <4> QED BY <2>8, <3>1, <3>2, <3>4, <4>1
    <3> QED BY <3>3, <3>4
  <2>14. CASE c.kind \in {"credentials", "suggest"}
    <3>1. BusyOf(orders', modal.me, modal.busy) /\ ~Deletes(c)
      BY <2>7, <2>14 DEF Bench!Ops, Deletes
    <3>2. modal' = IF c.ok THEN [modal EXCEPT !.editing = c.with, !.tab = "identity"] ELSE modal
      BY <2>2, <2>14 DEF Bench!Ops
    <3>3. CASE c.ok
      <4>1. DOMAIN modal = DialogFields
        BY <2>1, HasDomain
      <4>2. Has(DialogFields, modal')
        BY <3>2, <3>3, <4>1 DEF Has
      <4>3. /\ modal'.editing = c.with /\ modal'.tab = "identity" /\ modal'.me = modal.me /\ modal'.seq = modal.seq
            /\ modal'.busy = modal.busy
        BY <3>2, <3>3, <4>1 DEF DialogFields
      <4>4. FormFits(c.with) /\ (c.with.id = None => c.with.model = Catalogue[1]) /\ Catalogue[1] # Custom
        BY <1>6, <2>14 DEF OrderFine, BenchAssumption
      <4>5. Turned(modal, modal') /\ modal' # None /\ ~OfCustom(modal')
        BY <4>2, <4>3, <4>4 DEF Turned, OfCustom, BenchAssumption
      <4>6. PreviewOf(orders', modal')
        BY <4>3, PreviewWaits
      <4> QED BY <1>16, <1>17, <1>19, <3>1, <4>3, <4>5, <4>6
    <3>4. CASE ~c.ok
      BY <2>9, <3>1, <3>2, <3>4
    <3> QED BY <3>3, <3>4
  <2>15. CASE c.kind = "preview"
    <3>1. BusyOf(orders', modal.me, modal.busy) /\ ~Deletes(c) /\ more = <<>>
      BY <1>4, <2>7, <2>15 DEF Bench!Ops, Deletes
    <3>2. modal' = Bench!previewed(modal, c)
      BY <2>2, <2>15 DEF Bench!Ops
    <3>3. CASE c.n # modal.seq
      BY <2>9, <3>1, <3>2, <3>3 DEF Bench!previewed, Bench!LastAsked
    <3>4. CASE c.n = modal.seq
      <4>1. modal' = IF c.ok THEN [modal EXCEPT !.preview = c.with, !.failed = FALSE, !.busyPreview = FALSE]
                     ELSE [modal EXCEPT !.failed = TRUE, !.busyPreview = FALSE]
        BY <3>2, <3>4 DEF Bench!previewed, Bench!LastAsked
      <4>2. DOMAIN modal = DialogFields
        BY <2>1, HasDomain
      <4>3. Has(DialogFields, modal')
        BY <4>1, <4>2 DEF Has
      <4>4. /\ modal'.editing = modal.editing /\ modal'.tab = modal.tab /\ modal'.me = modal.me /\ modal'.seq = modal.seq
            /\ modal'.busy = modal.busy /\ modal'.timer = modal.timer
        BY <4>1, <4>2 DEF DialogFields
      <4>5. modal'.failed \/ modal'.preview = c.with
        BY <4>1, <4>2 DEF DialogFields
      <4>6. Turned(modal, modal') /\ modal' # None /\ (OfCustom(modal') => OfCustom(modal))
        BY <2>1, <4>3, <4>4 DEF Turned, OfCustom, BenchAssumption
      <4>7. PreviewOf(orders', modal')
        BY <1>11, <1>12, <1>19, <2>1, <2>15, <3>1, <3>4, <4>4, <4>5, PreviewIsBack
      <4> QED BY <1>16, <1>17, <1>19, <3>1, <4>4, <4>6, <4>7
    <3> QED BY <3>3, <3>4
  <2>16. CASE c.kind \in {"importModels", "record"}
    <3>1. BusyOf(orders', modal.me, modal.busy) /\ ~Deletes(c)
      BY <2>7, <2>16 DEF Bench!Ops, Deletes
    <3>2. modal' = IF c.ok THEN Bench!onModel(modal, Custom) ELSE modal
      BY <2>2, <2>16 DEF Bench!Ops
    <3>3. CASE c.ok
      <4>1. Custom \in Bench!Ids
        BY DEF BenchAssumption
      <4>2. /\ Turned(modal, modal') /\ modal'.busy = modal.busy /\ modal' # None
            /\ modal' = modal \/ modal'.editing = None \/ modal'.tab # "data" \/ modal'.timer
        BY <2>1, <3>2, <3>3, <4>1, OnModelTurns DEF Turned, BenchAssumption
      <4>3. ~tally.crossed => Custom \in bench.models
        <5>1. Adds(c, modal) /\ c.served
          BY <1>2, <1>19, <2>16 DEF Adds
        <5> QED BY <1>12, <1>14, <3>3, <5>1 DEF DeletionOf
      <4>4. PreviewOf(orders', modal')
        <5>1. CASE modal' = modal
          <6>1. SameView(modal, modal')
            BY <5>1 DEF SameView
          <6> QED BY <1>11, <1>13, <1>19, <2>1, <6>1, PreviewStays
        <5>2. CASE modal'.editing = None \/ modal'.tab # "data" \/ modal'.timer
          BY <5>2, PreviewWaits
        <5> QED BY <4>2, <5>1, <5>2
      <4> QED BY <1>16, <1>17, <1>19, <3>1, <4>2, <4>3, <4>4 DEF Turned
    <3>4. CASE ~c.ok
      BY <2>9, <3>1, <3>2, <3>4
    <3> QED BY <3>3, <3>4
  <2>17. CASE c.kind = "deleteModel"
    <3>1. BusyOf(orders', modal.me, modal.busy) /\ more = <<>> /\ c.with = Custom
      BY <1>4, <1>6, <2>7, <2>17 DEF Bench!Ops, OrderFine
    <3>2. modal' = IF c.ok THEN Bench!AnotherModel(modal, c) ELSE modal
      BY <2>2, <2>17 DEF Bench!Ops
    <3>3. Catalogue[1] \in Bench!Ids /\ Catalogue[1] # Custom
      BY DEF BenchAssumption
    <3>4. modal' = modal \/ modal' = Bench!onModel(modal, Catalogue[1])
      BY <3>2 DEF Bench!AnotherModel
    <3>5. /\ Turned(modal, modal') /\ modal'.busy = modal.busy /\ modal' # None
          /\ modal' = modal \/ modal'.editing = None \/ modal'.tab # "data" \/ modal'.timer
      <4>1. CASE modal' = modal
        BY <1>19, <2>1, <4>1 DEF Turned
      <4>2. CASE modal' = Bench!onModel(modal, Catalogue[1])
        BY <2>1, <3>3, <4>2, OnModelTurns DEF Turned, BenchAssumption
      <4> QED BY <3>4, <4>1, <4>2
    <3>6. c.ok => ~OfCustom(modal')
      <4>1. CASE modal.editing # None /\ modal.editing.model = Custom
        BY <2>1, <3>1, <3>2, <3>3, <4>1, OnModelTurns DEF Bench!AnotherModel
      <4>2. CASE ~(modal.editing # None /\ modal.editing.model = Custom)
        <5>1. c.ok => modal' = modal
          BY <3>1, <3>2, <4>2 DEF Bench!AnotherModel
        <5> QED BY <4>2, <5>1 DEF OfCustom
      <4> QED BY <4>1, <4>2
    <3>7. PreviewOf(orders', modal')
      <4>1. CASE modal' = modal
        <5>1. SameView(modal, modal')
          BY <4>1 DEF SameView
        <5> QED BY <1>11, <1>13, <1>19, <2>1, <5>1, PreviewStays
      <4>2. CASE modal'.editing = None \/ modal'.tab # "data" \/ modal'.timer
        BY <4>2, PreviewWaits
      <4> QED BY <3>5, <4>1, <4>2
    <3>8. ~tally.crossed => DeletionOf(orders', modal', listed'.models, bench.models)
      <4> DEFINE told == listed'.models
                 u == modal'
      <4>1. (told = bench.models /\ ~OfCustom(u)) \/ (told = listed.models /\ u = modal /\ ~c.ok)
        BY <1>8, <2>17, <3>2, <3>6
      <4>2. u # None /\ u.me = modal.me
        BY <3>5 DEF Turned
      <4>3. Passed(orders, orders', k, <<>>)
        BY <1>11, <3>1
      <4> HIDE DEF told, u
      <4>4. ~tally.crossed => DeletionOf(orders', u, told, bench.models)
        BY <1>12, <1>14, <1>19, <4>1, <4>2, <4>3, DeletionHeard
      <4> QED BY <4>4 DEF told, u
    <3> QED BY <1>17, <1>19, <3>1, <3>5, <3>7, <3>8
  <2>18. CASE c.kind \notin Bench!Ops \cup {"save", "list", "credentials", "suggest", "preview", "deleteModel", "importModels", "record"}
    <3>1. modal' = modal
      BY <2>2, <2>18
    <3>2. BusyOf(orders', modal.me, modal.busy) /\ ~Deletes(c)
      BY <2>7, <2>18 DEF Deletes
    <3> QED BY <2>9, <3>1, <3>2
  <2> QED BY <2>11, <2>12, <2>13, <2>14, <2>15, <2>16, <2>17, <2>18
<1> QED BY <1>18, <1>19

-----------------------------------------------------------------------------
LEMMA BenchBegins == ASSUME BenchAssumption, Bench!Init PROVE BenchInv
<1> DEFINE devs == [d \in Present |-> Bench!Device(Catalogue[1])]
<1>1. /\ bench = [devs |-> devs, models |-> Bench!Ids] /\ listed = bench /\ orders = <<>> /\ declined = FALSE
      /\ modal \in {None, Bench!Fresh(0)} \cup {[Bench!Fresh(0) EXCEPT !.editing = [id |-> None, model |-> m, text |-> 0]] : m \in Bench!Ids}
      /\ tally = [calls |-> 0, clicks |-> 0, auto |-> TRUE, crossed |-> FALSE]
  BY DEF Bench!Init
<1>2. Custom \in Bench!Ids /\ Present \subseteq Devices
  BY DEF BenchAssumption
<1>3. DOMAIN devs = Present /\ devs = [d \in Present |-> devs[d]] /\ \A d \in Present : DeviceFits(devs[d])
  BY NewFits
<1> HIDE DEF devs
<1>4. BenchOf(bench) /\ bench.models = Bench!Ids
  <2>1. bench.devs = devs /\ bench.models = Bench!Ids /\ Has({"devs", "models"}, bench)
    BY <1>1 DEF Has
  <2> QED BY <1>2, <1>3, <2>1 DEF BenchOf
<1>5. Has(TallyFields, tally) /\ tally.clicks = 0 /\ tally.crossed = FALSE
  BY <1>1 DEF Has, TallyFields
<1>6. modal # None => /\ Has(DialogFields, modal) /\ modal.me = 0 /\ modal.busy = {} /\ modal.seq = 0 /\ modal.tab = "identity"
                      /\ modal.editing # None => FormFits(modal.editing)
  <2>1. CASE modal = Bench!Fresh(0)
    BY <2>1, FreshIs DEF Bench!Fresh
  <2>2. CASE \E m \in Bench!Ids : modal = [Bench!Fresh(0) EXCEPT !.editing = [id |-> None, model |-> m, text |-> 0]]
    <3>1. PICK m \in Bench!Ids : modal = [Bench!Fresh(0) EXCEPT !.editing = [id |-> None, model |-> m, text |-> 0]]
      BY <2>2
    <3> DEFINE e == [id |-> None, model |-> m, text |-> 0]
               f == Bench!Fresh(0)
    <3>2. FormFits(e)
      BY DEF FormFits, Has, DeviceForm
    <3>3. Changed(f, modal, "editing", e) /\ {"editing", "me", "busy", "seq", "tab"} \subseteq DialogFields
      BY <3>1 DEF Changed, DialogFields
    <3>4. Has(DialogFields, f) /\ f.me = 0 /\ f.busy = {} /\ f.seq = 0 /\ f.tab = "identity"
      BY FreshIs DEF Bench!Fresh
    <3> HIDE DEF e, f
    <3>5. Touches(f, modal, {"editing"}) /\ modal["editing"] = e
      BY <3>3, <3>4, TouchOne
    <3> QED BY <3>2, <3>3, <3>4, <3>5 DEF Touches
  <2> QED BY <1>1, <2>1, <2>2
<1>7. /\ DOMAIN orders = {} /\ orders \in Seq({})
  BY <1>1
<1>8. BenchShape
  BY <1>1, <1>4, <1>5, <1>6, <1>7 DEF BenchShape
<1>9. OrdersFine /\ ListFine /\ ~declined
  BY <1>1, <1>7 DEF OrdersFine, ListFine
<1>10. modal # None => BusyOf(orders, modal.me, modal.busy) /\ PreviewOf(orders, modal)
  <2>1. modal # None => modal.tab # "data"
    BY <1>6
  <2>2. modal # None => BusyOf(orders, modal.me, modal.busy)
    BY <1>6, <1>7 DEF BusyOf
  <2> QED BY <2>1, <2>2, PreviewWaits
<1>11. DeletionOf(orders, modal, listed.models, bench.models)
  BY <1>2, <1>4, <1>7 DEF DeletionOf
<1> QED BY <1>8, <1>9, <1>10, <1>11 DEF BenchInv

LEMMA BenchRests == ASSUME BenchInv, UNCHANGED Bench!vars PROVE BenchInv'
<1>1. UNCHANGED <<bench, listed, modal, orders, declined, tally>>
  BY DEF Bench!vars
<1> QED BY <1>1 DEF BenchInv, BenchShape, BenchOf, OrdersFine, ListFine

LEMMA BenchAlways == ASSUME BenchAssumption PROVE Bench!Spec => []BenchInv
<1>1. Bench!Init => BenchInv
  BY BenchBegins
<1>2. BenchInv /\ [Bench!Next]_(Bench!vars) => BenchInv'
  <2> SUFFICES ASSUME BenchInv, [Bench!Next]_(Bench!vars) PROVE BenchInv'
    OBVIOUS
  <2>1. CASE Bench!Next
    BY <2>1, OpenStep, CloseStep, EditedStep, DialogAsks, OpStep, ViewStep, StopStep, GoServes, AutoStep, DialogAnswers DEF Bench!Next
  <2>2. CASE UNCHANGED Bench!vars
    BY <2>2, BenchRests
  <2> QED BY <2>1, <2>2
<1> QED BY <1>1, <1>2, PTL DEF Bench!Spec

\* A device that is busy has a call under way, and a call a busy device.
LEMMA BusyIsSeen == ASSUME BenchInv PROVE Bench!BusyIsUnderWay
<1> SUFFICES ASSUME modal # None PROVE Bench!BusyIsUnderWay
  BY DEF Bench!BusyIsUnderWay
<1> DEFINE mine == {i \in DOMAIN orders : /\ orders[i].me = modal.me
                                          /\ orders[i].kind \in Bench!Ops \/ orders[i].after \in {"faults", "duplicate"}}
<1>1. BusyOf(orders, modal.me, modal.busy)
  BY DEF BenchInv
<1>2. \A i \in DOMAIN orders : i \in mine <=> Ours(orders[i], modal.me)
  BY DEF Ours
<1> HIDE DEF mine
<1>3. mine \subseteq DOMAIN orders
  BY DEF mine
<1>4. modal.busy = {orders[i].dev : i \in mine}
  BY <1>1, <1>2, <1>3 DEF BusyOf
<1>5. \A i, j \in mine : orders[i].dev = orders[j].dev => i = j
  BY <1>1, <1>2, <1>3 DEF BusyOf
<1> QED BY <1>4, <1>5 DEF Bench!BusyIsUnderWay, mine

\* A new device is of a model that Go has.
LEMMA ModelIsSeen == ASSUME BenchAssumption, BenchInv PROVE Bench!ModelIsThere
<1> SUFFICES ASSUME Bench!New, ~Bench!Deleting, ~tally.crossed PROVE modal.editing.model \in bench.models
  BY DEF Bench!ModelIsThere
<1>1. modal # None /\ modal.editing # None /\ modal.editing.id = None
  BY DEF Bench!New, Bench!Editing
<1>2. modal.editing.model \in Bench!Ids /\ Bench!Ids \ {Custom} \subseteq bench.models
  BY <1>1 DEF BenchInv, BenchShape, FormFits, BenchOf
<1>3. DeletionOf(orders, modal, listed.models, bench.models) /\ ~Deleted(orders)
  BY NoneDeleted DEF BenchInv, Deleted
<1> QED BY <1>1, <1>2, <1>3 DEF DeletionOf, OfCustom

\* What the simulator's dialog shows of the bench is what Go says of it: a device
\* is busy while a call of it is under way, the preview is of the form, the list
\* of the devices there are, and no device is made from a model that is gone
\* (SimulatorModal.svelte busyIds, runPreview, refresh, deleteModel).
THEOREM BenchIsRight == ASSUME BenchAssumption PROVE Bench!Spec => []BenchIsTold
<1>1. BenchInv => Bench!BenchIsTold
  <2> SUFFICES ASSUME BenchInv PROVE Bench!BenchIsTold
    OBVIOUS
  <2>1. Bench!PreviewIsOfTheDevice
    BY DEF BenchInv, PreviewOf, Bench!PreviewIsOfTheDevice, Bench!Editing
  <2>2. Bench!ListIsTheBench /\ Bench!FaultsAreTaken
    BY DEF BenchInv, ListFine, Bench!ListIsTheBench, Bench!FaultsAreTaken
  <2> QED BY <2>1, <2>2, BusyIsSeen, ModelIsSeen DEF Bench!BenchIsTold
<1>2. BenchInv => BenchIsTold
  BY <1>1 DEF BenchIsTold
<1> QED BY <1>2, BenchAlways, PTL
=============================================================================
