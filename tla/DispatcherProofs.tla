-------------------------- MODULE DispatcherProofs --------------------------
(***************************************************************************)
(* What the outbox and its dispatcher promise, for any number of sinks and *)
(* events, any size of batch and any mishaps, in any number and order.     *)
(*                                                                         *)
(* The heart of the argument is Waiting: what a goroutine has left to send *)
(* still waits in the database, each row once, until the goroutine itself  *)
(* says otherwise.                                                         *)
(***************************************************************************)
EXTENDS Dispatcher, FiniteSetTheorems, SequenceTheorems, TLAPS

\* No element is there twice.
Distinct(q) == \A i, j \in DOMAIN q : q[i] = q[j] => i = j

StoreTyped ==
  /\ events \in 0..MaxEvents /\ owed \subseteq 1..events
  /\ about \in [Events -> Sinks \cup {NoSink}]
  /\ state \in [Rows -> {"none", "pending", "sent", "dead"}]
  /\ attempts \in [Rows -> 0..MaxAttempts]
  /\ config \in [Sinks -> {"on", "off", "gone"}]

\* What is due is pending, and due once.
LineTyped ==
  /\ line \in Seq(Rows) /\ Distinct(line)
  /\ \A i \in DOMAIN line : state[line[i]] = "pending"

PassTyped ==
  /\ phase \in {"down", "up", "stopping"}
  /\ work \in [Sinks -> Seq(Rows \X (0..MaxAttempts))]
  /\ at \in [Sinks -> {"next", "sending", "accepted", "failed", "announce"}]
  /\ verdict \in [Sinks -> {"none", "pending", "dead"}]
  /\ \A s \in Sinks : /\ at[s] # "next" => work[s] # <<>>
                      /\ at[s] = "failed" => verdict[s] # "none"
  /\ listed \subseteq {r \in Rows : state[r] # "none"}

ArrivalsTyped == arrivals \in [Rows -> 0..2]

\* One goroutine per destination, and no delivery twice in what it has left.
Shares ==
  \A s \in Sinks : \A i, j \in DOMAIN work[s] :
    /\ work[s][i][1][2] = s
    /\ work[s][i][1] = work[s][j][1] => i = j

\* What a goroutine has left to send still waits, and has had no attempt since it
\* was listed - unless the operator gave it all its attempts back.
Waiting ==
  \A s \in Sinks : \A i \in DOMAIN work[s] :
    (i = 1 => at[s] # "announce") =>
      /\ state[work[s][i][1]] = "pending"
      /\ attempts[work[s][i][1]] <= work[s][i][2]

\* What waits has an attempt left.
Spare ==
  /\ \A r \in Rows : state[r] \in {"none", "pending"} => attempts[r] < MaxAttempts
  /\ \A s \in Sinks : at[s] = "failed" /\ verdict[s] = "pending" => Read(s) + 1 < MaxAttempts

\* What arrived, and was not interrupted, is sent or about to be.
Answered ==
  /\ \A s \in Sinks : at[s] = "accepted" => arrivals[Row(s)] > 0
  /\ \A r \in Rows : arrivals[r] > 0 /\ r \notin excused =>
       state[r] = "sent" \/ (at[r[2]] = "accepted" /\ Row(r[2]) = r)

Typed == StoreTyped /\ LineTyped /\ PassTyped /\ ArrivalsTyped
IInv  == Typed /\ Shares /\ Waiting /\ Spare /\ Answered /\ OnceUnlessInterrupted

-----------------------------------------------------------------------------
(* Sequences without repetition. *)

LEMMA Bounds ==
  /\ MaxEvents \in Nat /\ Originals \in Nat /\ Originals <= MaxEvents /\ Limit \in Nat \ {0}
  /\ MaxAttempts \in Nat \ {0} /\ MaxMishaps \in Nat /\ IsFiniteSet(Sinks) /\ Selected \subseteq Sinks
  /\ NoSink \notin Sinks
BY DispatcherBounds

\* Without one element, the others are there as before.
LEMMA RemovedAt ==
  ASSUME NEW S, NEW q \in Seq(S), NEW k \in 1..Len(q), Distinct(q)
  PROVE  /\ RemoveAt(q, k) \in Seq(S) /\ Distinct(RemoveAt(q, k))
         /\ \A i \in DOMAIN RemoveAt(q, k) :
              \E j \in DOMAIN q : j # k /\ RemoveAt(q, k)[i] = q[j]
<1> DEFINE a == SubSeq(q, 1, k - 1)
           b == SubSeq(q, k + 1, Len(q))
           t == RemoveAt(q, k)
<1>0. Len(q) \in Nat /\ k \in Nat /\ 1 <= k /\ k <= Len(q) /\ \A i \in 1..Len(q) : q[i] \in S
  BY ElementOfSeq, LenProperties
<1>1. /\ a \in Seq(S) /\ Len(a) = k - 1 /\ \A i \in 1..(k - 1) : a[i] = q[i]
  <2>1. \A i \in 1..(k - 1) : q[i] \in S
    BY <1>0
  <2>2. /\ a \in Seq(S) /\ Len(a) = IF 1 <= k - 1 THEN k - 1 - 1 + 1 ELSE 0
        /\ \A i \in 1..(k - 1 - 1 + 1) : a[i] = q[1 + i - 1]
    BY <1>0, <2>1, SubSeqProperties
  <2> HIDE DEF a
  <2> QED BY <1>0, <2>2
<1>2. /\ b \in Seq(S) /\ Len(b) = Len(q) - k /\ \A i \in 1..(Len(q) - k) : b[i] = q[k + i]
  <2>1. \A i \in (k + 1)..Len(q) : q[i] \in S
    BY <1>0
  <2>2. /\ b \in Seq(S) /\ Len(b) = IF k + 1 <= Len(q) THEN Len(q) - (k + 1) + 1 ELSE 0
        /\ \A i \in 1..(Len(q) - (k + 1) + 1) : b[i] = q[k + 1 + i - 1]
    BY <1>0, <2>1, SubSeqProperties
  <2> HIDE DEF b
  <2> QED BY <1>0, <2>2
<1>3. t = a \o b
  BY DEF RemoveAt
<1> HIDE DEF a, b, t
<1>4. /\ t \in Seq(S) /\ Len(t) = Len(q) - 1
      /\ \A i \in 1..(Len(q) - 1) : t[i] = IF i <= k - 1 THEN a[i] ELSE b[i - (k - 1)]
  <2>1. /\ t \in Seq(S) /\ Len(t) = Len(a) + Len(b)
        /\ \A i \in 1..(Len(a) + Len(b)) : t[i] = IF i <= Len(a) THEN a[i] ELSE b[i - Len(a)]
    BY <1>1, <1>2, <1>3, ConcatProperties
  <2> QED BY <1>0, <1>1, <1>2, <2>1
<1> DEFINE from(i) == IF i <= k - 1 THEN i ELSE i + 1
<1>5. \A i \in 1..(Len(q) - 1) : from(i) \in 1..Len(q) /\ from(i) # k /\ t[i] = q[from(i)]
  <2> SUFFICES ASSUME NEW i \in 1..(Len(q) - 1)
               PROVE  from(i) \in 1..Len(q) /\ from(i) # k /\ t[i] = q[from(i)]
    OBVIOUS
  <2>1. CASE i <= k - 1
    BY <1>0, <1>1, <1>4, <2>1
  <2>2. CASE ~(i <= k - 1)
    <3>1. i - (k - 1) \in 1..(Len(q) - k) /\ k + (i - (k - 1)) = i + 1
      BY <1>0, <2>2
    <3>2. t[i] = q[k + (i - (k - 1))]
      BY <1>2, <1>4, <2>2, <3>1
    <3> QED BY <1>0, <2>2, <3>1, <3>2
  <2> QED BY <2>1, <2>2
<1>6. DOMAIN t = 1..(Len(q) - 1) /\ DOMAIN q = 1..Len(q)
  BY <1>4, LenProperties
<1>7. Distinct(t)
  <2> SUFFICES ASSUME NEW i \in 1..(Len(q) - 1), NEW j \in 1..(Len(q) - 1), t[i] = t[j] PROVE i = j
    BY <1>6 DEF Distinct
  <2>1. from(i) = from(j)
    BY <1>5, <1>6 DEF Distinct
  <2> QED BY <1>0, <2>1
<1>8. \A i \in DOMAIN t : \E j \in DOMAIN q : j # k /\ t[i] = q[j]
  BY <1>5, <1>6
<1> QED BY <1>4, <1>7, <1>8 DEF t

LEMMA Removed ==
  ASSUME NEW S, NEW q \in Seq(S), NEW r, Distinct(q)
  PROVE  /\ RemoveFirst(q, r) \in Seq(S) /\ Distinct(RemoveFirst(q, r))
         /\ \A i \in DOMAIN RemoveFirst(q, r) :
              RemoveFirst(q, r)[i] # r /\ \E j \in DOMAIN q : RemoveFirst(q, r)[i] = q[j]
<1>0. DOMAIN q = 1..Len(q) /\ Len(q) \in Nat
  BY LenProperties
<1>1. CASE \E i \in 1..Len(q) : q[i] = r
  <2>1. PICK k \in 1..Len(q) : q[k] = r
    BY <1>1
  <2>2. {i \in 1..Len(q) : q[i] = r} = {k}
    BY <1>0, <2>1 DEF Distinct
  <2>3. Min({k}) = k
    BY <1>0 DEF Min
  <2>4. SelectInSeq(q, LAMBDA v : v = r) = k
    BY <2>2, <2>3 DEF SelectInSeq
  <2>5. RemoveFirst(q, r) = RemoveAt(q, k)
    BY <1>1, <2>4 DEF RemoveFirst
  <2>6. \A j \in DOMAIN q : j # k => q[j] # r
    BY <1>0, <2>1 DEF Distinct
  <2>7. /\ RemoveAt(q, k) \in Seq(S) /\ Distinct(RemoveAt(q, k))
        /\ \A i \in DOMAIN RemoveAt(q, k) : \E j \in DOMAIN q : j # k /\ RemoveAt(q, k)[i] = q[j]
    BY RemovedAt
  <2> QED BY <2>5, <2>6, <2>7
<1>2. CASE ~\E i \in 1..Len(q) : q[i] = r
  <2>1. RemoveFirst(q, r) = q
    BY <1>2 DEF RemoveFirst
  <2> QED BY <1>0, <1>2, <2>1
<1> QED BY <1>1, <1>2

\* An order of a finite set.
LEMMA Ordered ==
  ASSUME NEW S, NEW T, S \subseteq T, IsFiniteSet(S), NEW q \in SetToSeqs(S)
  PROVE  /\ q \in Seq(T) /\ Distinct(q)
         /\ \A i \in DOMAIN q : q[i] \in S
<1>1. Cardinality(S) \in Nat
  BY FS_CardinalityType
<1>2. q \in [1..Cardinality(S) -> S] /\ \A i, j \in 1..Cardinality(S) : i # j => q[i] # q[j]
  BY DEF SetToSeqs
<1>3. q \in Seq(T)
  BY <1>1, <1>2
<1> QED BY <1>2, <1>3 DEF Distinct

LEMMA Appended ==
  ASSUME NEW S, NEW q \in Seq(S), NEW r \in S, Distinct(q), \A i \in DOMAIN q : q[i] # r
  PROVE  /\ Append(q, r) \in Seq(S) /\ Distinct(Append(q, r))
         /\ \A i \in DOMAIN Append(q, r) :
              Append(q, r)[i] = r \/ \E j \in DOMAIN q : Append(q, r)[i] = q[j]
<1>1. /\ Append(q, r) \in Seq(S) /\ DOMAIN q = 1..Len(q) /\ Len(q) \in Nat
      /\ DOMAIN Append(q, r) = 1..(Len(q) + 1)
      /\ \A i \in 1..Len(q) : Append(q, r)[i] = q[i]
      /\ Append(q, r)[Len(q) + 1] = r
  BY AppendProperties, LenProperties
<1> DEFINE t == Append(q, r)
<1> HIDE DEF t
<1>2. Distinct(t)
  <2> SUFFICES ASSUME NEW i \in 1..(Len(q) + 1), NEW j \in 1..(Len(q) + 1), t[i] = t[j] PROVE i = j
    BY <1>1 DEF Distinct, t
  <2>1. CASE i \in 1..Len(q) /\ j \in 1..Len(q)
    BY <1>1, <2>1 DEF Distinct, t
  <2>2. CASE i = Len(q) + 1 /\ j \in 1..Len(q)
    BY <1>1, <2>2 DEF t
  <2>3. CASE j = Len(q) + 1 /\ i \in 1..Len(q)
    BY <1>1, <2>3 DEF t
  <2> QED BY <1>1, <2>1, <2>2, <2>3
<1>3. \A i \in DOMAIN t : t[i] = r \/ \E j \in DOMAIN q : t[i] = q[j]
  BY <1>1 DEF t
<1> QED BY <1>1, <1>2, <1>3 DEF t

\* One after the other, with nothing in common.
LEMMA Joined ==
  ASSUME NEW S, NEW q \in Seq(S), NEW t \in Seq(S), Distinct(q), Distinct(t),
         \A i \in DOMAIN q, j \in DOMAIN t : q[i] # t[j]
  PROVE  /\ q \o t \in Seq(S) /\ Distinct(q \o t)
         /\ \A i \in DOMAIN (q \o t) :
              \/ \E j \in DOMAIN q : (q \o t)[i] = q[j]
              \/ \E j \in DOMAIN t : (q \o t)[i] = t[j]
<1> DEFINE u == q \o t
<1>1. /\ u \in Seq(S) /\ Len(u) = Len(q) + Len(t)
      /\ \A i \in 1..(Len(q) + Len(t)) : u[i] = IF i <= Len(q) THEN q[i] ELSE t[i - Len(q)]
  BY ConcatProperties
<1> HIDE DEF u
<1>2. /\ DOMAIN q = 1..Len(q) /\ DOMAIN t = 1..Len(t) /\ DOMAIN u = 1..(Len(q) + Len(t))
      /\ Len(q) \in Nat /\ Len(t) \in Nat
  BY <1>1, LenProperties
<1>3. \A i \in DOMAIN u : /\ i <= Len(q) => i \in DOMAIN q /\ u[i] = q[i]
                          /\ i > Len(q) => i - Len(q) \in DOMAIN t /\ u[i] = t[i - Len(q)]
  BY <1>1, <1>2
<1>4. Distinct(u)
  <2> SUFFICES ASSUME NEW i \in DOMAIN u, NEW j \in DOMAIN u, u[i] = u[j] PROVE i = j
    BY DEF Distinct
  <2>1. i \in Nat /\ j \in Nat
    BY <1>2
  <2>2. CASE i <= Len(q) /\ j <= Len(q)
    BY <1>3, <2>2 DEF Distinct
  <2>3. CASE i > Len(q) /\ j > Len(q)
    <3>1. i - Len(q) = j - Len(q)
      BY <1>3, <2>3 DEF Distinct
    <3> QED BY <1>2, <2>1, <3>1
  <2>4. ~(i <= Len(q) /\ j > Len(q)) /\ ~(j <= Len(q) /\ i > Len(q))
    BY <1>3
  <2> QED BY <1>2, <2>1, <2>2, <2>3, <2>4
<1>5. \A i \in DOMAIN u : (\E j \in DOMAIN q : u[i] = q[j]) \/ (\E j \in DOMAIN t : u[i] = t[j])
  BY <1>2, <1>3
<1> QED BY <1>1, <1>4, <1>5 DEF u

-----------------------------------------------------------------------------
(* What the steps have in common. *)

\* The row that a goroutine is at.
LEMMA AtRow ==
  ASSUME Typed, Shares, NEW s \in Sinks, work[s] # <<>>
  PROVE  /\ Row(s) \in Rows /\ Row(s)[2] = s /\ Row(s)[1] \in Events /\ Read(s) \in 0..MaxAttempts
         /\ 1 \in DOMAIN work[s] /\ work[s][1][1] = Row(s) /\ work[s][1][2] = Read(s)
<1>1. work[s] \in Seq(Rows \X (0..MaxAttempts))
  BY DEF Typed, PassTyped
<1>2. 1 \in DOMAIN work[s] /\ work[s][1] \in Rows \X (0..MaxAttempts) /\ Head(work[s]) = work[s][1]
  BY <1>1
<1>3. Row(s) = work[s][1][1] /\ Read(s) = work[s][1][2]
  BY <1>2 DEF Row, Read
<1>4. Row(s) \in Rows /\ Read(s) \in 0..MaxAttempts
  BY <1>2, <1>3
<1>5. Row(s)[2] = s
  BY <1>2, <1>3 DEF Shares
<1> QED BY <1>2, <1>3, <1>4, <1>5 DEF Rows

LEMMA AtWork ==
  ASSUME Typed, NEW s \in Sinks, at[s] # "next" PROVE work[s] # <<>>
BY DEF Typed, PassTyped

\* What happens to one row changes nothing for the others, nor for the goroutines
\* that are not at it.
OnlyRow(r) == \A q \in Rows \ {r} : state'[q] = state[q] /\ attempts'[q] = attempts[q]

\* The goroutine goes on with its next delivery.
LEMMA NextIsWaiting ==
  ASSUME Typed, Shares, Waiting, NEW s \in Sinks, work[s] # <<>>, NextDelivery(s), OnlyRow(Row(s))
  PROVE  /\ Shares' /\ Waiting'
         /\ work' \in [Sinks -> Seq(Rows \X (0..MaxAttempts))]
         /\ at' = [at EXCEPT ![s] = "next"] /\ verdict' = [verdict EXCEPT ![s] = "none"]
         /\ \A t \in Sinks \ {s} : work'[t] = work[t]
<1>1. /\ work' = [work EXCEPT ![s] = Tail(work[s])] /\ at' = [at EXCEPT ![s] = "next"]
      /\ verdict' = [verdict EXCEPT ![s] = "none"]
  BY DEF NextDelivery
<1>2. /\ work \in [Sinks -> Seq(Rows \X (0..MaxAttempts))]
      /\ at \in [Sinks -> {"next", "sending", "accepted", "failed", "announce"}]
  BY DEF Typed, PassTyped
<1>3. /\ Tail(work[s]) \in Seq(Rows \X (0..MaxAttempts))
      /\ \A i \in DOMAIN Tail(work[s]) :
           i \in Nat /\ i + 1 \in DOMAIN work[s] /\ i + 1 # 1 /\ Tail(work[s])[i] = work[s][i + 1]
  <2>1. work[s] \in Seq(Rows \X (0..MaxAttempts))
    BY <1>2
  <2> QED BY <2>1
<1>4. /\ work' \in [Sinks -> Seq(Rows \X (0..MaxAttempts))] /\ work'[s] = Tail(work[s])
      /\ at'[s] = "next" /\ \A t \in Sinks \ {s} : work'[t] = work[t] /\ at'[t] = at[t]
  BY <1>1, <1>2, <1>3
<1>5. Shares'
  <2> SUFFICES ASSUME NEW t \in Sinks, NEW i \in DOMAIN work'[t], NEW j \in DOMAIN work'[t]
               PROVE  work'[t][i][1][2] = t /\ (work'[t][i][1] = work'[t][j][1] => i = j)
    BY DEF Shares
  <2>1. CASE t = s
    <3>1. /\ i \in Nat /\ j \in Nat /\ i + 1 \in DOMAIN work[s] /\ j + 1 \in DOMAIN work[s]
          /\ work'[t][i] = work[s][i + 1] /\ work'[t][j] = work[s][j + 1]
      BY <1>3, <1>4, <2>1
    <3>2. work[s][i + 1][1][2] = s /\ (work[s][i + 1][1] = work[s][j + 1][1] => i + 1 = j + 1)
      BY <3>1 DEF Shares
    <3> QED BY <2>1, <3>1, <3>2
  <2>2. CASE t # s
    <3>1. work'[t] = work[t] /\ i \in DOMAIN work[t] /\ j \in DOMAIN work[t]
      BY <1>4, <2>2
    <3>2. work[t][i][1][2] = t /\ (work[t][i][1] = work[t][j][1] => i = j)
      BY <3>1 DEF Shares
    <3> QED BY <3>1, <3>2
  <2> QED BY <2>1, <2>2
<1>6. Waiting'
  <2> SUFFICES ASSUME NEW t \in Sinks, NEW i \in DOMAIN work'[t], i = 1 => at'[t] # "announce"
               PROVE  /\ state'[work'[t][i][1]] = "pending"
                      /\ attempts'[work'[t][i][1]] <= work'[t][i][2]
    BY DEF Waiting
  <2>0. Row(s) = work[s][1][1] /\ 1 \in DOMAIN work[s] /\ Row(s)[2] = s
    BY AtRow
  <2>1. PICK j \in DOMAIN work[t] : /\ work'[t][i] = work[t][j] /\ (j = 1 => at[t] # "announce")
                                    /\ work[t][j][1] # Row(s)
    <3>1. CASE t = s
      <4>1. i + 1 \in DOMAIN work[s] /\ i + 1 # 1 /\ work'[t][i] = work[s][i + 1]
        BY <1>3, <1>4, <3>1
      <4>2. work[s][i + 1][1] # Row(s)
        BY <2>0, <4>1 DEF Shares
      <4> QED BY <3>1, <4>1, <4>2
    <3>2. CASE t # s
      <4>1. work'[t] = work[t] /\ at'[t] = at[t] /\ i \in DOMAIN work[t]
        BY <1>4, <3>2
      <4>2. work[t][i][1][2] = t
        BY <4>1 DEF Shares
      <4> QED BY <2>0, <3>2, <4>1, <4>2
    <3> QED BY <3>1, <3>2
  <2>2. state[work[t][j][1]] = "pending" /\ attempts[work[t][j][1]] <= work[t][j][2]
    BY <2>1 DEF Waiting
  <2>3. work[t] \in Seq(Rows \X (0..MaxAttempts))
    BY <1>2
  <2>4. work[t][j][1] \in Rows
    BY <2>3
  <2> QED BY <2>1, <2>2, <2>4 DEF OnlyRow
<1> QED BY <1>1, <1>4, <1>5, <1>6

\* The goroutine goes on with this one.
LEMMA GotoIsWaiting ==
  ASSUME Typed, Shares, Waiting, NEW s \in Sinks, work[s] # <<>>, NEW place, NEW v,
         place \in {"sending", "accepted", "failed", "announce"}, v \in {"none", "pending", "dead"},
         Goto(s, place, v), OnlyRow(Row(s)),
         place # "announce" =>
           state'[Row(s)] = state[Row(s)] /\ attempts'[Row(s)] = attempts[Row(s)] /\ at[s] # "announce"
  PROVE  /\ Shares' /\ Waiting'
         /\ work' = work /\ at'[s] = place /\ verdict'[s] = v
         /\ at' \in [Sinks -> {"next", "sending", "accepted", "failed", "announce"}]
         /\ verdict' \in [Sinks -> {"none", "pending", "dead"}]
         /\ \A t \in Sinks \ {s} : at'[t] = at[t] /\ verdict'[t] = verdict[t]
<1>1. /\ work' = work /\ at' = [at EXCEPT ![s] = place] /\ verdict' = [verdict EXCEPT ![s] = v]
  BY DEF Goto
<1>2. /\ work \in [Sinks -> Seq(Rows \X (0..MaxAttempts))]
      /\ at \in [Sinks -> {"next", "sending", "accepted", "failed", "announce"}]
      /\ verdict \in [Sinks -> {"none", "pending", "dead"}]
  BY DEF Typed, PassTyped
<1>3. /\ at'[s] = place /\ verdict'[s] = v
      /\ at' \in [Sinks -> {"next", "sending", "accepted", "failed", "announce"}]
      /\ verdict' \in [Sinks -> {"none", "pending", "dead"}]
      /\ \A t \in Sinks \ {s} : at'[t] = at[t] /\ verdict'[t] = verdict[t]
  BY <1>1, <1>2
<1>4. Shares'
  BY <1>1 DEF Shares
<1>5. Waiting'
  <2> SUFFICES ASSUME NEW t \in Sinks, NEW i \in DOMAIN work[t], i = 1 => at'[t] # "announce"
               PROVE  /\ state'[work[t][i][1]] = "pending"
                      /\ attempts'[work[t][i][1]] <= work[t][i][2]
    BY <1>1 DEF Waiting
  <2>0. Row(s) = work[s][1][1] /\ 1 \in DOMAIN work[s] /\ Row(s)[2] = s
    BY AtRow
  <2>1. work[t] \in Seq(Rows \X (0..MaxAttempts))
    BY <1>2
  <2>2. work[t][i][1] \in Rows
    BY <2>1
  <2>3. i = 1 => at[t] # "announce"
    BY <1>3
  <2>4. state[work[t][i][1]] = "pending" /\ attempts[work[t][i][1]] <= work[t][i][2]
    BY <2>3 DEF Waiting
  <2>5. CASE work[t][i][1] # Row(s)
    BY <2>2, <2>4, <2>5 DEF OnlyRow
  <2>6. CASE work[t][i][1] = Row(s)
    <3>1. t = s /\ i = 1
      <4>1. work[t][i][1][2] = t
        BY DEF Shares
      <4>2. t = s
        BY <2>0, <2>6, <4>1
      <4> QED BY <2>0, <2>6, <4>2 DEF Shares
    <3>2. place # "announce"
      BY <1>3, <3>1
    <3> QED BY <2>4, <2>6, <3>2
  <2> QED BY <2>5, <2>6
<1> QED BY <1>1, <1>3, <1>4, <1>5

-----------------------------------------------------------------------------
(* The steps of the contract. *)

Arrived  == {r \in Rows : arrivals[r] > 0}
Promised == [Contract!Next]_(Contract!vars)

LEMMA NothingPromised ==
  ASSUME UNCHANGED <<state, arrivals>>, (phase' = "up") <=> (phase = "up") PROVE Promised
<1>1. (phase = "up")' = (phase = "up") /\ Arrived' = Arrived /\ state' = state
  BY DEF Arrived
<1>2. UNCHANGED Contract!vars
  BY <1>1 DEF Contract!vars, Arrived
<1> QED BY <1>2 DEF Promised

LEMMA QueuePromised ==
  ASSUME NEW new \in SUBSET Rows, \A r \in new : state[r] = "none",
         state \in [Rows -> {"none", "pending", "sent", "dead"}],
         state' = [r \in Rows |-> IF r \in new THEN "pending" ELSE state[r]],
         UNCHANGED <<arrivals, phase>>
  PROVE  Promised
<1>1. CASE new = {}
  <2>1. state' = state
    BY <1>1
  <2> QED BY <2>1, NothingPromised
<1>2. CASE new # {}
  <2>1. Contract!Queue(new)
    BY <1>2 DEF Contract!Queue, Contract!Become
  <2> QED BY <2>1 DEF Promised, Contract!Next
<1> QED BY <1>1, <1>2

LEMMA MovePromised ==
  ASSUME NEW r \in Rows, state \in [Rows -> {"none", "pending", "sent", "dead"}],
         NEW new \in {"pending", "sent", "dead"}, state' = [state EXCEPT ![r] = new],
         UNCHANGED <<arrivals, phase>>, state[r] # "none",
         new # "pending" => state[r] = "pending",
         new = "sent" => arrivals[r] > 0
  PROVE  Promised
<1>0. state' = [d \in Rows |-> IF d \in {r} THEN new ELSE state[d]]
  OBVIOUS
<1>1. CASE state[r] = new
  <2>1. state' = state
    BY <1>1
  <2> QED BY <2>1, NothingPromised
<1>2. CASE new = "pending" /\ state[r] # "pending"
  <2>1. Contract!Revive(r)
    BY <1>0, <1>2 DEF Contract!Revive, Contract!Become
  <2> QED BY <2>1 DEF Promised, Contract!Next
<1>3. CASE new = "sent"
  <2>1. Contract!Confirm(r)
    BY <1>0, <1>3 DEF Contract!Confirm, Contract!Become
  <2> QED BY <2>1 DEF Promised, Contract!Next
<1>4. CASE new = "dead"
  <2>1. Contract!GiveUp(r)
    BY <1>0, <1>4 DEF Contract!GiveUp, Contract!Become
  <2> QED BY <2>1 DEF Promised, Contract!Next
<1> QED BY <1>1, <1>2, <1>3, <1>4

\* What arrives, up to twice.
LEMMA Arriving ==
  ASSUME ArrivalsTyped, NEW S \in SUBSET Rows, Arrives(S)
  PROVE  /\ ArrivalsTyped' /\ Arrived' = Arrived \cup S
         /\ \A r \in S : arrivals'[r] > 0 /\ (arrivals[r] = 0 => arrivals'[r] = 1)
         /\ \A r \in Rows \ S : arrivals'[r] = arrivals[r]
BY DEF ArrivalsTyped, Arrives, Arrived

LEMMA ArrivePromised ==
  ASSUME ArrivalsTyped, NEW r \in Rows, Arrives({r}), state[r] = "pending",
         UNCHANGED <<state, phase>>
  PROVE  Promised
<1>1. Arrived' = Arrived \cup {r}
  BY Arriving
<1>2. Contract!Arrive(r)
  BY <1>1 DEF Contract!Arrive, Arrived
<1> QED BY <1>2 DEF Promised, Contract!Next

LEMMA LeavePromised ==
  ASSUME ArrivalsTyped, NEW S \in SUBSET Rows, Arrives(S), \A r \in S : state[r] = "pending",
         state' = state, phase' # "up"
  PROVE  Promised
<1>1. Arrived' = Arrived \cup S
  BY Arriving
<1>2. Contract!Leave(S)
  BY <1>1 DEF Contract!Leave, Arrived
<1> QED BY <1>2 DEF Promised, Contract!Next

-----------------------------------------------------------------------------
(* The router and the operator. *)

LEMMA PassesRest ==
  ASSUME IInv, UNCHANGED <<state, attempts, work, at, verdict, arrivals, excused>>
  PROVE  Shares' /\ Waiting' /\ Spare' /\ Answered' /\ OnceUnlessInterrupted' /\ ArrivalsTyped'
BY DEF IInv, Typed, Shares, Waiting, Spare, Answered, OnceUnlessInterrupted, ArrivalsTyped, Row, Read

LEMMA RouteEventKeeps ==
  ASSUME IInv, NEW e \in Events, RouteEvent(e) PROVE IInv' /\ Promised
<1> DEFINE new == {r \in {e} \X Targets(e) : state[r] = "none"}
<1>0. /\ state' = [r \in Rows |-> IF r \in new THEN "pending" ELSE state[r]]
      /\ \E order \in SetToSeqs(new) : line' = line \o order
      /\ owed' = owed \ {e}
      /\ UNCHANGED <<events, about, attempts, config, phase, work, at, verdict, listed, arrivals, excused>>
  BY DEF RouteEvent, passes, ghosts
<1>1. /\ new \subseteq Rows /\ \A r \in new : state[r] = "none"
  BY Bounds DEF Targets, Rows
<1>2. IsFiniteSet(new)
  <2> DEFINE T == {s \in Targets(e) : state[<<e, s>>] = "none"}
             f == [s \in T |-> <<e, s>>]
  <2>1. T \subseteq Sinks
    BY Bounds DEF Targets
  <2>2. IsFiniteSet(T)
    BY <2>1, Bounds, FS_Subset
  <2>3. f \in Surjection(T, new)
    BY DEF Surjection
  <2> QED BY <2>2, <2>3, FS_Surjection
<1> HIDE DEF new
<1>3. PICK order \in SetToSeqs(new) : line' = line \o order
  BY <1>0
<1>4. order \in Seq(Rows) /\ Distinct(order) /\ \A i \in DOMAIN order : order[i] \in new
  BY <1>1, <1>2, Ordered
<1>5. state \in [Rows -> {"none", "pending", "sent", "dead"}] /\ line \in Seq(Rows) /\ Distinct(line)
      /\ \A i \in DOMAIN line : state[line[i]] = "pending" /\ line[i] \in Rows
  BY DEF IInv, Typed, StoreTyped, LineTyped
<1>6. \A i \in DOMAIN line, j \in DOMAIN order : line[i] # order[j]
  BY <1>1, <1>4, <1>5
<1>7. /\ line' \in Seq(Rows) /\ Distinct(line')
      /\ \A i \in DOMAIN line' : \/ \E j \in DOMAIN line : line'[i] = line[j]
                                 \/ \E j \in DOMAIN order : line'[i] = order[j]
  BY <1>3, <1>4, <1>5, <1>6, Joined
<1>8. \A r \in Rows : /\ state[r] # "none" => state'[r] = state[r]
                      /\ state'[r] # "none" => state[r] # "none" \/ state'[r] = "pending"
                      /\ r \in new => state'[r] = "pending"
                      /\ state'[r] \in {"none", "pending"} => state[r] \in {"none", "pending"}
  BY <1>0, <1>1
<1>9. LineTyped'
  <2> SUFFICES ASSUME NEW i \in DOMAIN line' PROVE state'[line'[i]] = "pending"
    BY <1>7 DEF LineTyped
  <2>1. CASE \E j \in DOMAIN line : line'[i] = line[j]
    BY <1>5, <1>8, <2>1
  <2>2. CASE \E j \in DOMAIN order : line'[i] = order[j]
    BY <1>1, <1>4, <1>8, <2>2
  <2> QED BY <1>7, <2>1, <2>2
<1>10. StoreTyped'
  <2>1. state' \in [Rows -> {"none", "pending", "sent", "dead"}]
    BY <1>0, <1>5
  <2> QED BY <1>0, <2>1 DEF IInv, Typed, StoreTyped
<1>11. PassTyped' /\ ArrivalsTyped'
  BY <1>0, <1>8 DEF IInv, Typed, PassTyped, ArrivalsTyped
<1>12. Shares' /\ Spare' /\ OnceUnlessInterrupted'
  BY <1>0, <1>8 DEF IInv, Shares, Spare, Read, OnceUnlessInterrupted
<1>13. Waiting'
  <2> SUFFICES ASSUME NEW s \in Sinks, NEW i \in DOMAIN work[s], i = 1 => at[s] # "announce"
               PROVE  state'[work[s][i][1]] = "pending" /\ attempts[work[s][i][1]] <= work[s][i][2]
    BY <1>0 DEF Waiting
  <2>1. state[work[s][i][1]] = "pending" /\ attempts[work[s][i][1]] <= work[s][i][2]
    BY DEF IInv, Waiting
  <2>2. work[s] \in Seq(Rows \X (0..MaxAttempts))
    BY DEF IInv, Typed, PassTyped
  <2>3. work[s][i][1] \in Rows
    BY <2>2
  <2> QED BY <1>8, <2>1, <2>3
<1>14. Answered'
  BY <1>0, <1>8 DEF IInv, Answered, Row
<1>15. Promised
  BY <1>0, <1>1, <1>5, QueuePromised
<1> QED BY <1>9, <1>10, <1>11, <1>12, <1>13, <1>14, <1>15 DEF IInv, Typed

LEMMA RestKeeps ==
  ASSUME IInv, JournalOriginal \/ ListDeliveries \/ (\E s \in Sinks : Configure(s)) \/ Launch \/ Stop
  PROVE  IInv'
<1>0. /\ UNCHANGED <<state, attempts, line, work, at, verdict, arrivals, excused, about>>
      /\ phase' \in {"down", "up", "stopping"}
  BY DEF JournalOriginal, ListDeliveries, Configure, Launch, Stop, outbox, passes, ghosts, IInv, Typed,
         PassTyped
<1>1. Shares' /\ Waiting' /\ Spare' /\ Answered' /\ OnceUnlessInterrupted' /\ ArrivalsTyped'
  BY <1>0, PassesRest
<1>2. listed' \subseteq {r \in Rows : state[r] # "none"}
  BY DEF JournalOriginal, ListDeliveries, Configure, Launch, Stop, IInv, Typed, PassTyped
<1>3. events' \in 0..MaxEvents /\ owed' \subseteq 1..events'
  <2>1. CASE JournalOriginal
    BY <2>1, Bounds DEF JournalOriginal, IInv, Typed, StoreTyped
  <2>2. CASE ~JournalOriginal
    BY <2>2 DEF ListDeliveries, Configure, Launch, Stop, IInv, Typed, StoreTyped
  <2> QED BY <2>1, <2>2
<1>4. config' \in [Sinks -> {"on", "off", "gone"}]
  BY DEF JournalOriginal, ListDeliveries, Configure, Launch, Stop, IInv, Typed, StoreTyped
<1>5. StoreTyped' /\ LineTyped' /\ PassTyped'
  BY <1>0, <1>2, <1>3, <1>4 DEF IInv, Typed, StoreTyped, LineTyped, PassTyped
<1> QED BY <1>1, <1>5 DEF IInv, Typed

LEMMA RestPromised ==
  ASSUME IInv, JournalOriginal \/ ListDeliveries \/ (\E s \in Sinks : Configure(s)) \/ Launch \/ Stop
  PROVE  Promised
<1>1. CASE JournalOriginal \/ ListDeliveries \/ (\E s \in Sinks : Configure(s))
  BY <1>1, NothingPromised DEF JournalOriginal, ListDeliveries, Configure, outbox, ghosts
<1>2. UNCHANGED <<state, arrivals>> => Arrived' = Arrived
  BY DEF Arrived
<1>3. CASE Launch
  <2>1. Contract!Launch
    BY <1>2, <1>3 DEF Launch, outbox, ghosts, Contract!Launch, Arrived
  <2> QED BY <2>1 DEF Promised, Contract!Next
<1>4. CASE Stop
  <2>1. Contract!Leave({})
    BY <1>2, <1>4 DEF Stop, outbox, ghosts, Contract!Leave, Arrived
  <2> QED BY <2>1 DEF Promised, Contract!Next
<1> QED BY <1>1, <1>3, <1>4

\* The operator's retry finds the row in whatever state it is by now.
LEMMA RetryDeliveryKeeps ==
  ASSUME IInv, NEW r \in Rows, RetryDelivery(r) PROVE IInv' /\ Promised
<1>0. /\ state' = [state EXCEPT ![r] = "pending"] /\ attempts' = [attempts EXCEPT ![r] = 0]
      /\ line' = Append(RemoveFirst(line, r), r) /\ r \in listed
      /\ excused' = IF arrivals[r] > 0 THEN excused \cup {r} ELSE excused
      /\ UNCHANGED <<events, about, owed, config, phase, work, at, verdict, listed, arrivals>>
  BY DEF RetryDelivery, passes
<1>1. /\ state \in [Rows -> {"none", "pending", "sent", "dead"}] /\ attempts \in [Rows -> 0..MaxAttempts]
      /\ line \in Seq(Rows) /\ Distinct(line) /\ state[r] # "none"
      /\ \A i \in DOMAIN line : state[line[i]] = "pending" /\ line[i] \in Rows
  BY <1>0 DEF IInv, Typed, StoreTyped, LineTyped, PassTyped
<1>2. /\ state'[r] = "pending" /\ attempts'[r] = 0
      /\ \A q \in Rows \ {r} : state'[q] = state[q] /\ attempts'[q] = attempts[q]
  BY <1>0, <1>1
<1>3. StoreTyped'
  BY <1>0, <1>1, Bounds DEF IInv, Typed, StoreTyped
<1>4. LineTyped'
  <2> DEFINE rest == RemoveFirst(line, r)
  <2>1. /\ rest \in Seq(Rows) /\ Distinct(rest)
        /\ \A i \in DOMAIN rest : rest[i] # r /\ \E j \in DOMAIN line : rest[i] = line[j]
    BY <1>1, Removed
  <2> HIDE DEF rest
  <2>2. /\ Append(rest, r) \in Seq(Rows) /\ Distinct(Append(rest, r))
        /\ \A i \in DOMAIN Append(rest, r) :
             Append(rest, r)[i] = r \/ \E j \in DOMAIN rest : Append(rest, r)[i] = rest[j]
    BY <2>1, Appended
  <2>3. line' = Append(rest, r)
    BY <1>0 DEF rest
  <2>4. ASSUME NEW i \in DOMAIN line' PROVE state'[line'[i]] = "pending"
    <3>1. CASE line'[i] = r
      BY <1>2, <3>1
    <3>2. CASE \E j \in DOMAIN rest : line'[i] = rest[j]
      <4>1. line'[i] # r /\ \E j \in DOMAIN line : line'[i] = line[j]
        BY <2>1, <3>2
      <4> QED BY <1>1, <1>2, <4>1
    <3> QED BY <2>2, <2>3, <2>4, <3>1, <3>2
  <2> QED BY <2>2, <2>3, <2>4 DEF LineTyped
<1>5. PassTyped' /\ ArrivalsTyped' /\ Shares'
  BY <1>0, <1>2 DEF IInv, Typed, PassTyped, ArrivalsTyped, Shares
<1>6. Waiting'
  <2> SUFFICES ASSUME NEW s \in Sinks, NEW i \in DOMAIN work[s], i = 1 => at[s] # "announce"
               PROVE  state'[work[s][i][1]] = "pending" /\ attempts'[work[s][i][1]] <= work[s][i][2]
    BY <1>0 DEF Waiting
  <2>1. state[work[s][i][1]] = "pending" /\ attempts[work[s][i][1]] <= work[s][i][2]
    BY DEF IInv, Waiting
  <2>2. work[s] \in Seq(Rows \X (0..MaxAttempts))
    BY DEF IInv, Typed, PassTyped
  <2>3. work[s][i][1] \in Rows /\ work[s][i][2] \in 0..MaxAttempts
    BY <2>2
  <2> QED BY <1>2, <2>1, <2>3, Bounds
<1>7. Spare'
  <2>1. \A s \in Sinks : at'[s] = "failed" /\ verdict'[s] = "pending" => Read(s)' + 1 < MaxAttempts
    BY <1>0 DEF IInv, Spare, Read
  <2>2. \A q \in Rows : state'[q] \in {"none", "pending"} => attempts'[q] < MaxAttempts
    BY <1>2, Bounds DEF IInv, Spare
  <2> QED BY <2>1, <2>2 DEF Spare
<1>8. Answered'
  <2>1. \A s \in Sinks : at'[s] = "accepted" => arrivals'[Row(s)'] > 0
    BY <1>0 DEF IInv, Answered, Row
  <2>2. \A q \in Rows : arrivals[q] > 0 /\ q \notin excused' => q # r /\ q \notin excused
    BY <1>0
  <2>3. \A q \in Rows : arrivals'[q] > 0 /\ q \notin excused' =>
          state'[q] = "sent" \/ (at'[q[2]] = "accepted" /\ Row(q[2])' = q)
    BY <1>0, <1>2, <2>2 DEF IInv, Answered, Row
  <2> QED BY <2>1, <2>3 DEF Answered
<1>9. OnceUnlessInterrupted'
  BY <1>0 DEF IInv, OnceUnlessInterrupted
<1>10. Promised
  BY <1>0, <1>1, MovePromised
<1> QED BY <1>3, <1>4, <1>5, <1>6, <1>7, <1>8, <1>9, <1>10 DEF IInv, Typed

LEMMA BackoffElapsesKeeps ==
  ASSUME IInv, NEW r \in Rows, BackoffElapses(r) PROVE IInv' /\ Promised
<1>0. /\ state[r] = "pending" /\ line' = Append(line, r) /\ \A i \in DOMAIN line : line[i] # r
      /\ UNCHANGED <<events, about, owed, state, attempts, config, phase, work, at, verdict, listed,
                     arrivals, excused>>
  BY DEF BackoffElapses, passes, ghosts, ToSet
<1>1. LineTyped'
  <2>1. line \in Seq(Rows) /\ Distinct(line) /\ \A i \in DOMAIN line : state[line[i]] = "pending"
    BY DEF IInv, Typed, LineTyped
  <2>2. /\ line' \in Seq(Rows) /\ Distinct(line')
        /\ \A i \in DOMAIN line' : line'[i] = r \/ \E j \in DOMAIN line : line'[i] = line[j]
    BY <1>0, <2>1, Appended
  <2> QED BY <1>0, <2>1, <2>2 DEF LineTyped
<1>2. Shares' /\ Waiting' /\ Spare' /\ Answered' /\ OnceUnlessInterrupted' /\ ArrivalsTyped'
  BY <1>0, PassesRest
<1>3. StoreTyped' /\ PassTyped'
  BY <1>0 DEF IInv, Typed, StoreTyped, PassTyped
<1>4. Promised
  BY <1>0, NothingPromised
<1> QED BY <1>1, <1>2, <1>3, <1>4 DEF IInv, Typed

-----------------------------------------------------------------------------
(* The dispatcher. *)

\* What a pass hands out is due, each row once and to its own destination.
LEMMA Shared ==
  ASSUME Typed, NEW s \in Sinks, NEW q \in Share(s)
  PROVE  /\ q \in Seq(Rows) /\ Distinct(q)
         /\ \A i \in DOMAIN q : q[i][2] = s /\ state[q[i]] = "pending"
<1> DEFINE I == {j \in Due : line[j][2] = s}
           R == {line[i] : i \in I}
<1>1. line \in Seq(Rows) /\ \A i \in DOMAIN line : state[line[i]] = "pending" /\ line[i] \in Rows
  BY DEF Typed, LineTyped
<1>2. I \subseteq 1..Len(line) /\ Len(line) \in Nat
  BY <1>1 DEF Due
<1>3. IsFiniteSet(I)
  <2>1. IsFiniteSet(1..Len(line))
    BY <1>2, FS_Interval
  <2> HIDE DEF I
  <2> QED BY <1>2, <2>1, FS_Subset
<1>4. IsFiniteSet(R)
  <2> DEFINE f == [i \in I |-> line[i]]
  <2>1. f \in Surjection(I, R)
    BY DEF Surjection
  <2> HIDE DEF f, I, R
  <2> QED BY <1>3, <2>1, FS_Surjection
<1>5. R \subseteq Rows /\ \A r \in R : r[2] = s /\ state[r] = "pending"
  BY <1>1 DEF Due
<1>6. q \in SetToSeqs(R)
  BY DEF Share
<1> HIDE DEF I, R
<1> QED BY <1>4, <1>5, <1>6, Ordered

LEMMA DrainKeeps == ASSUME IInv, Drain PROVE IInv' /\ Promised
<1>0. /\ \A s \in Sinks : work[s] = <<>>
      /\ UNCHANGED <<events, about, owed, state, attempts, line, config, phase, at, verdict, listed,
                     arrivals, excused>>
  BY DEF Drain, Busy, outbox, ghosts
<1>1. PICK share \in [Sinks -> UNION {Share(s) : s \in Sinks}] :
        /\ \A s \in Sinks : share[s] \in Share(s)
        /\ work' = [s \in Sinks |-> [i \in DOMAIN share[s] |-> <<share[s][i], attempts[share[s][i]]>>]]
  BY DEF Drain
<1>2. \A s \in Sinks : /\ share[s] \in Seq(Rows) /\ Distinct(share[s])
                       /\ \A i \in DOMAIN share[s] : /\ share[s][i][2] = s /\ share[s][i] \in Rows
                                                     /\ state[share[s][i]] = "pending"
  <2> SUFFICES ASSUME NEW s \in Sinks
               PROVE  /\ share[s] \in Seq(Rows) /\ Distinct(share[s])
                      /\ \A i \in DOMAIN share[s] : /\ share[s][i][2] = s /\ share[s][i] \in Rows
                                                    /\ state[share[s][i]] = "pending"
    OBVIOUS
  <2>1. PICK q \in Share(s) : q = share[s]
    BY <1>1
  <2>2. /\ q \in Seq(Rows) /\ Distinct(q)
        /\ \A i \in DOMAIN q : q[i][2] = s /\ state[q[i]] = "pending"
    BY Shared DEF IInv
  <2> QED BY <2>1, <2>2
<1>3. \A s \in Sinks : at[s] = "next"
  BY <1>0 DEF IInv, Typed, PassTyped
<1>4. \A s \in Sinks :
        /\ DOMAIN work'[s] = DOMAIN share[s]
        /\ \A i \in DOMAIN share[s] : work'[s][i] = <<share[s][i], attempts[share[s][i]]>>
  BY <1>1
<1>5. work' \in [Sinks -> Seq(Rows \X (0..MaxAttempts))]
  <2> SUFFICES ASSUME NEW s \in Sinks
               PROVE  [i \in DOMAIN share[s] |-> <<share[s][i], attempts[share[s][i]]>>]
                        \in Seq(Rows \X (0..MaxAttempts))
    BY <1>1
  <2>1. attempts \in [Rows -> 0..MaxAttempts]
    BY DEF IInv, Typed, StoreTyped
  <2>2. DOMAIN share[s] = 1..Len(share[s]) /\ Len(share[s]) \in Nat
    BY <1>2, LenProperties
  <2>3. \A i \in DOMAIN share[s] : <<share[s][i], attempts[share[s][i]]>> \in Rows \X (0..MaxAttempts)
    BY <1>2, <2>1
  <2> QED BY <2>2, <2>3
<1>6. Shares'
  <2> SUFFICES ASSUME NEW s \in Sinks, NEW i \in DOMAIN share[s], NEW j \in DOMAIN share[s]
               PROVE  share[s][i][2] = s /\ (share[s][i] = share[s][j] => i = j)
    BY <1>4 DEF Shares
  <2> QED BY <1>2 DEF Distinct
<1>7. Waiting'
  <2> SUFFICES ASSUME NEW s \in Sinks, NEW i \in DOMAIN share[s]
               PROVE  /\ state[share[s][i]] = "pending"
                      /\ attempts[share[s][i]] <= attempts[share[s][i]]
    BY <1>0, <1>4 DEF Waiting
  <2>1. attempts[share[s][i]] \in 0..MaxAttempts
    BY <1>2 DEF IInv, Typed, StoreTyped
  <2> QED BY <1>2, <2>1, Bounds
<1>8. Spare' /\ Answered' /\ OnceUnlessInterrupted' /\ ArrivalsTyped'
  <2>1. \A r \in Rows : r[2] \in Sinks
    BY DEF Rows
  <2> QED BY <1>0, <1>3, <2>1 DEF IInv, Typed, Spare, Answered, OnceUnlessInterrupted, ArrivalsTyped
<1>9. StoreTyped' /\ LineTyped' /\ PassTyped'
  BY <1>0, <1>3, <1>5 DEF IInv, Typed, StoreTyped, LineTyped, PassTyped
<1>10. Promised
  BY <1>0, NothingPromised
<1> QED BY <1>6, <1>7, <1>8, <1>9, <1>10 DEF IInv, Typed

LEMMA ReturnKeeps ==
  ASSUME IInv, NEW s \in Sinks, Return(s) PROVE IInv' /\ Promised
<1>0. /\ at[s] = "next" /\ work' = [work EXCEPT ![s] = <<>>]
      /\ UNCHANGED <<events, about, owed, state, attempts, line, config, phase, at, verdict, listed,
                     arrivals, excused>>
  BY DEF Return, outbox, ghosts
<1>1. work \in [Sinks -> Seq(Rows \X (0..MaxAttempts))]
  BY DEF IInv, Typed, PassTyped
<1>2. /\ work' \in [Sinks -> Seq(Rows \X (0..MaxAttempts))] /\ DOMAIN work'[s] = {}
      /\ \A t \in Sinks \ {s} : work'[t] = work[t]
  <2>1. <<>> \in Seq(Rows \X (0..MaxAttempts)) /\ DOMAIN <<>> = {}
    OBVIOUS
  <2> QED BY <1>0, <1>1, <2>1
<1>3. \A t \in Sinks : at[t] # "next" => work'[t] = work[t]
  BY <1>0, <1>2
<1>4. Shares'
  <2> SUFFICES ASSUME NEW t \in Sinks, NEW i \in DOMAIN work'[t], NEW j \in DOMAIN work'[t]
               PROVE  work'[t][i][1][2] = t /\ (work'[t][i][1] = work'[t][j][1] => i = j)
    BY DEF Shares
  <2>1. work'[t] = work[t]
    BY <1>2
  <2> QED BY <2>1 DEF IInv, Shares
<1>10. Waiting'
  <2> SUFFICES ASSUME NEW t \in Sinks, NEW i \in DOMAIN work'[t], i = 1 => at[t] # "announce"
               PROVE  state[work'[t][i][1]] = "pending" /\ attempts[work'[t][i][1]] <= work'[t][i][2]
    BY <1>0 DEF Waiting
  <2>1. work'[t] = work[t]
    BY <1>2
  <2> QED BY <2>1 DEF IInv, Waiting
<1>5. Spare'
  <2>1. \A t \in Sinks : at[t] = "failed" => Read(t)' = Read(t)
    BY <1>3 DEF Read
  <2> QED BY <1>0, <2>1 DEF IInv, Spare
<1>6. Answered'
  <2>1. \A t \in Sinks : at[t] = "accepted" => Row(t)' = Row(t)
    BY <1>3 DEF Row
  <2>2. \A r \in Rows : r[2] \in Sinks
    BY DEF Rows
  <2> QED BY <1>0, <2>1, <2>2 DEF IInv, Answered
<1>7. OnceUnlessInterrupted' /\ ArrivalsTyped' /\ StoreTyped' /\ LineTyped'
  BY <1>0 DEF IInv, Typed, OnceUnlessInterrupted, ArrivalsTyped, StoreTyped, LineTyped
<1>8. PassTyped'
  BY <1>0, <1>2, <1>3 DEF IInv, Typed, PassTyped
<1>9. Promised
  BY <1>0, NothingPromised
<1> QED BY <1>4, <1>5, <1>6, <1>7, <1>8, <1>9, <1>10 DEF IInv, Typed

LEMMA ResolveKeeps ==
  ASSUME IInv, NEW s \in Sinks, Resolve(s) PROVE IInv' /\ Promised
<1>0. /\ at[s] = "next" /\ work[s] # <<>>
      /\ Goto(s, "sending", "none") \/ Goto(s, "failed", "dead")
      /\ UNCHANGED <<events, about, owed, state, attempts, line, config, phase, listed, arrivals, excused>>
  BY DEF Resolve, outbox
<1>1. Typed /\ Shares /\ Waiting /\ OnlyRow(Row(s))
  BY <1>0 DEF IInv, OnlyRow
<1>2. PICK place \in {"sending", "failed"}, v \in {"none", "dead"} :
        Goto(s, place, v) /\ (place = "failed" => v = "dead")
  BY <1>0
<1>3. /\ Shares' /\ Waiting' /\ work' = work /\ at'[s] = place /\ verdict'[s] = v
      /\ at' \in [Sinks -> {"next", "sending", "accepted", "failed", "announce"}]
      /\ verdict' \in [Sinks -> {"none", "pending", "dead"}]
      /\ \A t \in Sinks \ {s} : at'[t] = at[t] /\ verdict'[t] = verdict[t]
  BY <1>0, <1>1, <1>2, GotoIsWaiting
<1>4. PassTyped'
  BY <1>0, <1>2, <1>3 DEF IInv, Typed, PassTyped
<1>5. Spare'
  BY <1>0, <1>2, <1>3 DEF IInv, Spare, Read
<1>6. Answered'
  <2>1. \A t \in Sinks : at'[t] = "accepted" => t # s /\ at[t] = "accepted"
    BY <1>0, <1>2, <1>3
  <2>2. \A t \in Sinks : at[t] = "accepted" => at'[t] = "accepted"
    BY <1>0, <1>3
  <2>3. \A q \in Rows : q[2] \in Sinks
    BY DEF Rows
  <2> QED BY <1>0, <1>3, <2>1, <2>2, <2>3 DEF IInv, Answered, Row
<1>7. OnceUnlessInterrupted' /\ ArrivalsTyped' /\ StoreTyped' /\ LineTyped'
  BY <1>0 DEF IInv, Typed, OnceUnlessInterrupted, ArrivalsTyped, StoreTyped, LineTyped
<1>8. Promised
  BY <1>0, NothingPromised
<1> QED BY <1>3, <1>4, <1>5, <1>6, <1>7, <1>8 DEF IInv, Typed

\* A delivery that is on the wire still waits, and nothing of it arrived that is
\* not excused.
LEMMA OnTheWire ==
  ASSUME IInv, NEW s \in Sinks, at[s] \in {"sending", "failed", "accepted"}
  PROVE  /\ work[s] # <<>> /\ Row(s) \in Rows /\ Row(s)[2] = s /\ Read(s) \in 0..MaxAttempts
         /\ state[Row(s)] = "pending" /\ attempts[Row(s)] <= Read(s) /\ attempts[Row(s)] < MaxAttempts
         /\ at[s] # "accepted" /\ arrivals[Row(s)] > 0 => Row(s) \in excused
<1>1. work[s] # <<>>
  BY AtWork DEF IInv
<1>2. /\ Row(s) \in Rows /\ Row(s)[2] = s /\ Read(s) \in 0..MaxAttempts
      /\ 1 \in DOMAIN work[s] /\ work[s][1][1] = Row(s) /\ work[s][1][2] = Read(s)
  BY <1>1, AtRow DEF IInv
<1>3. state[Row(s)] = "pending" /\ attempts[Row(s)] <= Read(s)
  BY <1>2 DEF IInv, Waiting
<1> QED BY <1>1, <1>2, <1>3 DEF IInv, Spare, Answered

LEMMA SendAcceptedKeeps ==
  ASSUME IInv, NEW s \in Sinks, SendAccepted(s) PROVE IInv' /\ Promised
<1>0. /\ at[s] = "sending" /\ Goto(s, "accepted", "none") /\ Arrives({Row(s)})
      /\ UNCHANGED <<events, about, owed, state, attempts, line, config, phase, listed, excused>>
  BY DEF SendAccepted, outbox
<1>1. PICK r \in Rows : r = Row(s)
  BY <1>0, OnTheWire
<1>2. /\ work[s] # <<>> /\ r[2] = s /\ state[r] = "pending"
      /\ arrivals[r] > 0 => r \in excused
  BY <1>0, <1>1, OnTheWire
<1>3. Typed /\ Shares /\ Waiting /\ OnlyRow(Row(s))
  BY <1>0 DEF IInv, OnlyRow
<1>4. /\ Shares' /\ Waiting' /\ work' = work /\ at'[s] = "accepted" /\ verdict'[s] = "none"
      /\ at' \in [Sinks -> {"next", "sending", "accepted", "failed", "announce"}]
      /\ verdict' \in [Sinks -> {"none", "pending", "dead"}]
      /\ \A t \in Sinks \ {s} : at'[t] = at[t] /\ verdict'[t] = verdict[t]
  BY <1>0, <1>2, <1>3, GotoIsWaiting
<1>5. /\ ArrivalsTyped' /\ arrivals'[r] > 0 /\ (arrivals[r] = 0 => arrivals'[r] = 1)
      /\ \A q \in Rows \ {r} : arrivals'[q] = arrivals[q]
  BY <1>0, <1>1, Arriving DEF IInv, Typed
<1>6. PassTyped'
  BY <1>0, <1>2, <1>4 DEF IInv, Typed, PassTyped
<1>7. Spare'
  BY <1>0, <1>4 DEF IInv, Spare, Read
<1>8. Answered'
  <2>1. \A t \in Sinks : Row(t)' = Row(t)
    BY <1>4 DEF Row
  <2>2. \A t \in Sinks : at'[t] = "accepted" => arrivals'[Row(t)] > 0
    <3> SUFFICES ASSUME NEW t \in Sinks, at'[t] = "accepted" PROVE arrivals'[Row(t)] > 0
      OBVIOUS
    <3>1. CASE t = s
      BY <1>1, <1>5, <3>1
    <3>2. CASE t # s
      <4>1. at[t] = "accepted" /\ arrivals[Row(t)] > 0
        BY <1>4, <3>2 DEF IInv, Answered
      <4>2. Row(t) \in Rows /\ Row(t)[2] = t
        BY <4>1, OnTheWire
      <4> QED BY <1>2, <1>5, <3>2, <4>1, <4>2
    <3> QED BY <3>1, <3>2
  <2>3. \A q \in Rows : arrivals'[q] > 0 /\ q \notin excused =>
          state[q] = "sent" \/ (at'[q[2]] = "accepted" /\ Row(q[2]) = q)
    <3> SUFFICES ASSUME NEW q \in Rows, arrivals'[q] > 0, q \notin excused
                 PROVE  state[q] = "sent" \/ (at'[q[2]] = "accepted" /\ Row(q[2]) = q)
      OBVIOUS
    <3>1. CASE q = r
      BY <1>1, <1>2, <1>4, <3>1
    <3>2. CASE q # r
      <4>1. state[q] = "sent" \/ (at[q[2]] = "accepted" /\ Row(q[2]) = q)
        BY <1>5, <3>2 DEF IInv, Answered
      <4>2. q[2] \in Sinks
        BY DEF Rows
      <4> QED BY <1>0, <1>4, <4>1, <4>2
    <3> QED BY <3>1, <3>2
  <2> QED BY <1>0, <1>4, <2>2, <2>3 DEF Answered, Row
<1>9. OnceUnlessInterrupted'
  <2> SUFFICES ASSUME NEW q \in Rows, arrivals'[q] > 1 PROVE q \in excused
    BY <1>0 DEF OnceUnlessInterrupted
  <2>1. CASE q = r
    <3>1. arrivals[r] \in 0..2
      BY DEF IInv, Typed, ArrivalsTyped
    <3> QED BY <1>2, <1>5, <2>1, <3>1
  <2>2. CASE q # r
    BY <1>5, <2>2 DEF IInv, OnceUnlessInterrupted
  <2> QED BY <2>1, <2>2
<1>10. StoreTyped' /\ LineTyped'
  BY <1>0 DEF IInv, Typed, StoreTyped, LineTyped
<1>11. Promised
  BY <1>0, <1>1, <1>2, ArrivePromised DEF IInv, Typed
<1> QED BY <1>4, <1>5, <1>6, <1>7, <1>8, <1>9, <1>10, <1>11 DEF IInv, Typed

LEMMA SendFailsKeeps ==
  ASSUME IInv, NEW s \in Sinks, SendFails(s) PROVE IInv' /\ Promised
<1>0. /\ at[s] = "sending"
      /\ UNCHANGED <<events, about, owed, state, attempts, line, config, phase, listed>>
  BY DEF SendFails, outbox
<1>1. PICK r \in Rows : r = Row(s)
  BY <1>0, OnTheWire
<1>2. /\ work[s] # <<>> /\ r[2] = s /\ state[r] = "pending" /\ Read(s) \in 0..MaxAttempts
      /\ arrivals[r] > 0 => r \in excused
  BY <1>0, <1>1, OnTheWire
<1>3. Typed /\ Shares /\ Waiting /\ OnlyRow(Row(s))
  BY <1>0 DEF IInv, OnlyRow
<1>4. PICK v \in {"pending", "dead"} :
        Goto(s, "failed", v) /\ (v = "pending" => Read(s) + 1 < MaxAttempts)
  BY <1>2, Bounds DEF SendFails
<1>5. /\ Shares' /\ Waiting' /\ work' = work /\ at'[s] = "failed" /\ verdict'[s] = v
      /\ at' \in [Sinks -> {"next", "sending", "accepted", "failed", "announce"}]
      /\ verdict' \in [Sinks -> {"none", "pending", "dead"}]
      /\ \A t \in Sinks \ {s} : at'[t] = at[t] /\ verdict'[t] = verdict[t]
  BY <1>0, <1>2, <1>3, <1>4, GotoIsWaiting
<1>6. \/ arrivals' = arrivals /\ excused' = excused
      \/ Arrives({Row(s)}) /\ excused' = excused \cup {Row(s)}
  BY DEF SendFails
<1>7. /\ ArrivalsTyped' /\ excused \subseteq excused'
      /\ \A q \in Rows : arrivals[q] > 0 => arrivals'[q] > 0
      /\ \A q \in Rows : q \notin excused' => arrivals'[q] = arrivals[q]
  <2>1. CASE arrivals' = arrivals /\ excused' = excused
    BY <2>1 DEF IInv, Typed, ArrivalsTyped
  <2>2. CASE Arrives({r}) /\ excused' = excused \cup {r}
    <3>1. /\ ArrivalsTyped' /\ arrivals'[r] > 0 /\ \A q \in Rows \ {r} : arrivals'[q] = arrivals[q]
      BY <2>2, Arriving DEF IInv, Typed
    <3> QED BY <2>2, <3>1
  <2> QED BY <1>1, <1>6, <2>1, <2>2
<1>8. PassTyped'
  BY <1>0, <1>2, <1>4, <1>5 DEF IInv, Typed, PassTyped
<1>9. Spare'
  <2>1. \A t \in Sinks : at'[t] = "failed" /\ verdict'[t] = "pending" => Read(t) + 1 < MaxAttempts
    BY <1>4, <1>5 DEF IInv, Spare
  <2> QED BY <1>0, <1>5, <2>1 DEF IInv, Spare, Read
<1>10. Answered'
  <2>1. \A t \in Sinks : at'[t] = "accepted" => t # s /\ at[t] = "accepted" /\ Row(t) \in Rows
    BY <1>0, <1>5, OnTheWire
  <2>2. \A t \in Sinks : at[t] = "accepted" => at'[t] = "accepted"
    BY <1>0, <1>5
  <2>3. \A q \in Rows : q[2] \in Sinks
    BY DEF Rows
  <2>4. \A t \in Sinks : at'[t] = "accepted" => arrivals'[Row(t)] > 0
    BY <1>7, <2>1 DEF IInv, Answered
  <2>5. \A q \in Rows : arrivals'[q] > 0 /\ q \notin excused' =>
          state[q] = "sent" \/ (at'[q[2]] = "accepted" /\ Row(q[2]) = q)
    BY <1>7, <2>2, <2>3 DEF IInv, Answered
  <2> QED BY <1>0, <1>5, <2>4, <2>5 DEF Answered, Row
<1>11. OnceUnlessInterrupted'
  BY <1>7 DEF IInv, OnceUnlessInterrupted
<1>12. StoreTyped' /\ LineTyped'
  BY <1>0 DEF IInv, Typed, StoreTyped, LineTyped
<1>13. Promised
  <2>1. CASE arrivals' = arrivals
    BY <1>0, <2>1, NothingPromised
  <2>2. CASE Arrives({Row(s)})
    BY <1>0, <1>1, <1>2, <2>2, ArrivePromised DEF IInv, Typed
  <2> QED BY <1>6, <2>1, <2>2
<1> QED BY <1>5, <1>7, <1>8, <1>9, <1>10, <1>11, <1>12, <1>13 DEF IInv, Typed

\* The database says what becomes of a row, and forgets that it was due.
LEMMA Marked ==
  ASSUME IInv, NEW r \in Rows, NEW new \in {"pending", "sent", "dead"},
         state[r] = "pending", attempts[r] < MaxAttempts,
         new = "pending" => attempts[r] + 1 < MaxAttempts,
         state' = [state EXCEPT ![r] = new], attempts' = [attempts EXCEPT ![r] = @ + 1],
         line' = RemoveFirst(line, r), UNCHANGED <<events, about, owed, config, listed>>
  PROVE  /\ StoreTyped' /\ LineTyped' /\ OnlyRow(r) /\ state'[r] = new
         /\ listed' \subseteq {q \in Rows : state'[q] # "none"}
         /\ \A q \in Rows : state'[q] \in {"none", "pending"} => attempts'[q] < MaxAttempts
<1>1. /\ state \in [Rows -> {"none", "pending", "sent", "dead"}] /\ attempts \in [Rows -> 0..MaxAttempts]
      /\ line \in Seq(Rows) /\ Distinct(line)
      /\ \A i \in DOMAIN line : state[line[i]] = "pending" /\ line[i] \in Rows
  BY DEF IInv, Typed, StoreTyped, LineTyped
<1>2. /\ state'[r] = new /\ attempts'[r] = attempts[r] + 1
      /\ \A q \in Rows \ {r} : state'[q] = state[q] /\ attempts'[q] = attempts[q]
  BY <1>1
<1>3. attempts[r] \in 0..MaxAttempts /\ attempts[r] + 1 \in 0..MaxAttempts
  BY <1>1, Bounds
<1>4. StoreTyped'
  BY <1>1, <1>3 DEF IInv, Typed, StoreTyped
<1>5. LineTyped'
  <2>1. /\ line' \in Seq(Rows) /\ Distinct(line')
        /\ \A i \in DOMAIN line' : line'[i] # r /\ \E j \in DOMAIN line : line'[i] = line[j]
    BY <1>1, Removed
  <2> QED BY <1>1, <1>2, <2>1 DEF LineTyped
<1>6. listed' \subseteq {q \in Rows : state'[q] # "none"}
  BY <1>2 DEF IInv, Typed, PassTyped
<1>7. \A q \in Rows : state'[q] \in {"none", "pending"} => attempts'[q] < MaxAttempts
  BY <1>2, <1>3 DEF IInv, Spare
<1> QED BY <1>2, <1>4, <1>5, <1>6, <1>7 DEF OnlyRow

\* A write that fails, and is only logged.
LEMMA Unmarked ==
  ASSUME IInv, NEW r \in Rows, UNCHANGED <<state, attempts, line, events, about, owed, config, listed>>
  PROVE  /\ StoreTyped' /\ LineTyped' /\ OnlyRow(r) /\ state'[r] = state[r]
         /\ listed' \subseteq {q \in Rows : state'[q] # "none"}
         /\ \A q \in Rows : state'[q] \in {"none", "pending"} => attempts'[q] < MaxAttempts
BY DEF IInv, Typed, StoreTyped, LineTyped, PassTyped, Spare, OnlyRow

LEMMA MarkSentKeeps ==
  ASSUME IInv, NEW s \in Sinks, MarkSent(s) PROVE IInv' /\ Promised
<1>0. /\ at[s] = "accepted" /\ NextDelivery(s)
      /\ UNCHANGED <<events, about, owed, config, phase, listed, arrivals>>
  BY DEF MarkSent
<1>1. PICK r \in Rows : r = Row(s)
  BY <1>0, OnTheWire
<1>2. /\ work[s] # <<>> /\ r[2] = s /\ state[r] = "pending" /\ attempts[r] < MaxAttempts
      /\ arrivals[r] > 0
  BY <1>0, <1>1, OnTheWire DEF IInv, Answered
<1>3. \/ /\ state' = [state EXCEPT ![r] = "sent"] /\ attempts' = [attempts EXCEPT ![r] = @ + 1]
         /\ line' = RemoveFirst(line, r) /\ excused' = excused
      \/ UNCHANGED <<state, attempts, line>> /\ excused' = excused \cup {r}
  BY <1>1 DEF MarkSent, outbox
<1>4. /\ StoreTyped' /\ LineTyped' /\ OnlyRow(r)
      /\ listed' \subseteq {q \in Rows : state'[q] # "none"}
      /\ \A q \in Rows : state'[q] \in {"none", "pending"} => attempts'[q] < MaxAttempts
      /\ excused \subseteq excused' /\ (r \notin excused' => state'[r] = "sent")
  <2>1. CASE /\ state' = [state EXCEPT ![r] = "sent"] /\ attempts' = [attempts EXCEPT ![r] = @ + 1]
             /\ line' = RemoveFirst(line, r) /\ excused' = excused
    BY <1>0, <1>2, <2>1, Marked
  <2>2. CASE UNCHANGED <<state, attempts, line>> /\ excused' = excused \cup {r}
    BY <1>0, <2>2, Unmarked
  <2> QED BY <1>3, <2>1, <2>2
<1>5. /\ Shares' /\ Waiting' /\ work' \in [Sinks -> Seq(Rows \X (0..MaxAttempts))]
      /\ at' = [at EXCEPT ![s] = "next"] /\ verdict' = [verdict EXCEPT ![s] = "none"]
      /\ \A t \in Sinks \ {s} : work'[t] = work[t]
  BY <1>0, <1>1, <1>2, <1>4, NextIsWaiting DEF IInv
<1>6. \A t \in Sinks : at'[t] # "next" =>
        t # s /\ work'[t] = work[t] /\ at'[t] = at[t] /\ verdict'[t] = verdict[t]
  BY <1>5 DEF IInv, Typed, PassTyped
<1>7. PassTyped'
  BY <1>0, <1>4, <1>5, <1>6 DEF IInv, Typed, PassTyped
<1>8. Spare'
  <2>1. \A t \in Sinks : at'[t] # "next" => Read(t)' = Read(t)
    BY <1>6 DEF Read
  <2> QED BY <1>4, <1>6, <2>1 DEF IInv, Spare
<1>9. Answered'
  <2>1. \A t \in Sinks : at'[t] = "accepted" => at[t] = "accepted" /\ work'[t] = work[t]
    BY <1>6
  <2>2. \A q \in Rows : q[2] \in Sinks
    BY DEF Rows
  <2>3. \A t \in Sinks : at'[t] = "accepted" => arrivals'[Row(t)'] > 0
    BY <1>0, <2>1 DEF IInv, Answered, Row
  <2>4. ASSUME NEW q \in Rows, arrivals[q] > 0, q \notin excused'
        PROVE  state'[q] = "sent" \/ (at'[q[2]] = "accepted" /\ Head(work'[q[2]])[1] = q)
    <3>1. CASE q = r
      BY <1>4, <2>4, <3>1
    <3>2. CASE q # r
      <4>1. state[q] = "sent" \/ (at[q[2]] = "accepted" /\ Row(q[2]) = q)
        BY <1>4, <2>4 DEF IInv, Answered
      <4>2. state'[q] = state[q]
        BY <1>4, <3>2 DEF OnlyRow
      <4>3. Row(q[2]) = q => q[2] # s
        BY <1>1, <3>2
      <4>4. q[2] # s => at'[q[2]] = at[q[2]] /\ work'[q[2]] = work[q[2]]
        BY <1>5, <2>2 DEF IInv, Typed, PassTyped
      <4> QED BY <4>1, <4>2, <4>3, <4>4 DEF Row
    <3> QED BY <3>1, <3>2
  <2> QED BY <1>0, <2>3, <2>4 DEF Answered, Row
<1>10. OnceUnlessInterrupted' /\ ArrivalsTyped'
  BY <1>0, <1>4 DEF IInv, Typed, OnceUnlessInterrupted, ArrivalsTyped
<1>11. Promised
  <2>1. CASE state' = [state EXCEPT ![r] = "sent"]
    BY <1>0, <1>2, <2>1, MovePromised DEF IInv, Typed, StoreTyped
  <2>2. CASE state' = state
    BY <1>0, <2>2, NothingPromised
  <2> QED BY <1>3, <2>1, <2>2
<1> QED BY <1>4, <1>5, <1>7, <1>8, <1>9, <1>10, <1>11 DEF IInv, Typed

\* The goroutine has done with a delivery that did not arrive unexcused, or goes on
\* to announce it.
LEMMA MovesOn ==
  ASSUME IInv, NEW s \in Sinks, work[s] # <<>>, NEW r \in Rows, r = Row(s), at[s] # "accepted",
         NextDelivery(s) \/ Goto(s, "announce", "dead"), OnlyRow(r),
         state[r] = "sent" => state'[r] = "sent", UNCHANGED <<phase, arrivals, excused>>,
         listed' \subseteq {q \in Rows : state'[q] # "none"},
         \A q \in Rows : state'[q] \in {"none", "pending"} => attempts'[q] < MaxAttempts
  PROVE  /\ Shares' /\ Waiting' /\ PassTyped' /\ Spare' /\ Answered' /\ OnceUnlessInterrupted'
         /\ ArrivalsTyped'
<1>1. /\ Shares' /\ Waiting' /\ work' \in [Sinks -> Seq(Rows \X (0..MaxAttempts))]
      /\ at' \in [Sinks -> {"next", "sending", "accepted", "failed", "announce"}]
      /\ verdict' \in [Sinks -> {"none", "pending", "dead"}]
      /\ at'[s] = "next" \/ (at'[s] = "announce" /\ work'[s] # <<>>)
      /\ \A t \in Sinks \ {s} : work'[t] = work[t] /\ at'[t] = at[t] /\ verdict'[t] = verdict[t]
  <2>1. CASE NextDelivery(s)
    <3>1. /\ Shares' /\ Waiting' /\ work' \in [Sinks -> Seq(Rows \X (0..MaxAttempts))]
          /\ at' = [at EXCEPT ![s] = "next"] /\ verdict' = [verdict EXCEPT ![s] = "none"]
          /\ \A t \in Sinks \ {s} : work'[t] = work[t]
      BY <2>1, NextIsWaiting DEF IInv
    <3> QED BY <3>1 DEF IInv, Typed, PassTyped
  <2>2. CASE Goto(s, "announce", "dead")
    <3>1. /\ Shares' /\ Waiting' /\ work' = work /\ at'[s] = "announce"
          /\ at' \in [Sinks -> {"next", "sending", "accepted", "failed", "announce"}]
          /\ verdict' \in [Sinks -> {"none", "pending", "dead"}]
          /\ \A t \in Sinks \ {s} : at'[t] = at[t] /\ verdict'[t] = verdict[t]
      BY <2>2, GotoIsWaiting DEF IInv
    <3> QED BY <3>1 DEF IInv, Typed, PassTyped
  <2> QED BY <2>1, <2>2
<1>2. \A t \in Sinks : at'[t] \in {"sending", "accepted", "failed"} =>
        t # s /\ work'[t] = work[t] /\ at'[t] = at[t] /\ verdict'[t] = verdict[t]
  BY <1>1
<1>3. PassTyped'
  <2>1. \A t \in Sinks : /\ at'[t] # "next" => work'[t] # <<>>
                         /\ at'[t] = "failed" => verdict'[t] # "none"
    BY <1>1 DEF IInv, Typed, PassTyped
  <2> QED BY <1>1, <2>1 DEF IInv, Typed, PassTyped
<1>4. Spare'
  <2>1. \A t \in Sinks : at'[t] = "failed" => Read(t)' = Read(t)
    BY <1>2 DEF Read
  <2> QED BY <1>2, <2>1 DEF IInv, Spare
<1>5. Answered'
  <2>1. \A t \in Sinks : at'[t] = "accepted" => at[t] = "accepted" /\ work'[t] = work[t]
    BY <1>2
  <2>2. \A q \in Rows : q[2] \in Sinks
    BY DEF Rows
  <2>3. \A t \in Sinks : at'[t] = "accepted" => arrivals'[Row(t)'] > 0
    BY <2>1 DEF IInv, Answered, Row
  <2>4. ASSUME NEW q \in Rows, arrivals[q] > 0, q \notin excused
        PROVE  state'[q] = "sent" \/ (at'[q[2]] = "accepted" /\ Head(work'[q[2]])[1] = q)
    <3>1. state[q] = "sent" \/ (at[q[2]] = "accepted" /\ Row(q[2]) = q)
      BY <2>4 DEF IInv, Answered
    <3>2. state[q] = "sent" => state'[q] = "sent"
      BY DEF OnlyRow
    <3>3. at[q[2]] = "accepted" => q[2] # s /\ at'[q[2]] = "accepted" /\ work'[q[2]] = work[q[2]]
      BY <1>1, <2>2
    <3> QED BY <3>1, <3>2, <3>3 DEF Row
  <2> QED BY <2>3, <2>4 DEF Answered, Row
<1>6. OnceUnlessInterrupted' /\ ArrivalsTyped'
  BY DEF IInv, Typed, OnceUnlessInterrupted, ArrivalsTyped
<1> QED BY <1>1, <1>3, <1>4, <1>5, <1>6

LEMMA MarkFailedKeeps ==
  ASSUME IInv, NEW s \in Sinks, MarkFailed(s) PROVE IInv' /\ Promised
<1>0. /\ at[s] = "failed" /\ (NextDelivery(s) \/ Goto(s, "announce", "dead"))
      /\ UNCHANGED <<events, about, owed, config, phase, listed, arrivals, excused>>
  BY DEF MarkFailed, ghosts
<1>1. PICK r \in Rows : r = Row(s)
  BY <1>0, OnTheWire
<1>2. /\ work[s] # <<>> /\ r[2] = s /\ state[r] = "pending" /\ attempts[r] < MaxAttempts
      /\ verdict[s] \in {"pending", "dead"} /\ (verdict[s] = "pending" => attempts[r] + 1 < MaxAttempts)
  <2>1. attempts[r] \in 0..MaxAttempts /\ Read(s) \in 0..MaxAttempts /\ attempts[r] <= Read(s)
    BY <1>0, <1>1, OnTheWire DEF IInv, Typed, StoreTyped
  <2>2. verdict[s] = "pending" => Read(s) + 1 < MaxAttempts
    BY <1>0 DEF IInv, Spare
  <2>3. verdict[s] = "pending" => attempts[r] + 1 < MaxAttempts
    BY <2>1, <2>2, Bounds
  <2> QED BY <1>0, <1>1, <2>3, OnTheWire DEF IInv, Typed, PassTyped
<1>3. \/ /\ state' = [state EXCEPT ![r] = verdict[s]] /\ attempts' = [attempts EXCEPT ![r] = @ + 1]
         /\ line' = RemoveFirst(line, r)
      \/ UNCHANGED <<state, attempts, line>>
  BY <1>1 DEF MarkFailed, outbox
<1>4. /\ StoreTyped' /\ LineTyped' /\ OnlyRow(r)
      /\ listed' \subseteq {q \in Rows : state'[q] # "none"}
      /\ \A q \in Rows : state'[q] \in {"none", "pending"} => attempts'[q] < MaxAttempts
  <2>1. CASE /\ state' = [state EXCEPT ![r] = verdict[s]] /\ attempts' = [attempts EXCEPT ![r] = @ + 1]
             /\ line' = RemoveFirst(line, r)
    <3>1. PICK new \in {"pending", "sent", "dead"} : new = verdict[s]
      BY <1>2
    <3> QED BY <1>0, <1>2, <2>1, <3>1, Marked
  <2>2. CASE UNCHANGED <<state, attempts, line>>
    BY <1>0, <2>2, Unmarked
  <2> QED BY <1>3, <2>1, <2>2
<1>5. /\ Shares' /\ Waiting' /\ PassTyped' /\ Spare' /\ Answered' /\ OnceUnlessInterrupted'
      /\ ArrivalsTyped'
  BY <1>0, <1>1, <1>2, <1>4, MovesOn
<1>6. Promised
  <2>1. CASE state' = [state EXCEPT ![r] = verdict[s]]
    BY <1>0, <1>2, <2>1, MovePromised DEF IInv, Typed, StoreTyped
  <2>2. CASE state' = state
    BY <1>0, <2>2, NothingPromised
  <2> QED BY <1>3, <2>1, <2>2
<1> QED BY <1>4, <1>5, <1>6 DEF IInv, Typed

LEMMA AnnounceKeeps ==
  ASSUME IInv, NEW s \in Sinks, Announce(s) PROVE IInv' /\ Promised
<1>0. /\ at[s] = "announce" /\ NextDelivery(s)
      /\ UNCHANGED <<state, attempts, line, config, phase, listed, arrivals, excused>>
  BY DEF Announce, outbox
<1>1. work[s] # <<>>
  BY <1>0, AtWork DEF IInv
<1>2. PICK r \in Rows : r = Row(s)
  BY <1>1, AtRow DEF IInv
<1>3. StoreTyped' /\ LineTyped'
  <2>1. CASE /\ events < MaxEvents /\ events' = events + 1
             /\ about' = [about EXCEPT ![events + 1] = s] /\ owed' = owed \cup {events + 1}
    <3>1. events \in Nat /\ events + 1 \in 0..MaxEvents /\ owed' \subseteq 1..(events + 1)
      BY <2>1, Bounds DEF IInv, Typed, StoreTyped
    <3>2. about' \in [Events -> Sinks \cup {NoSink}]
      BY <2>1 DEF IInv, Typed, StoreTyped
    <3> QED BY <1>0, <2>1, <3>1, <3>2 DEF IInv, Typed, StoreTyped, LineTyped
  <2>2. CASE UNCHANGED <<events, about, owed>>
    BY <1>0, <2>2 DEF IInv, Typed, StoreTyped, LineTyped
  <2> QED BY <2>1, <2>2 DEF Announce
<1>4. /\ OnlyRow(r) /\ listed' \subseteq {q \in Rows : state'[q] # "none"}
      /\ \A q \in Rows : state'[q] \in {"none", "pending"} => attempts'[q] < MaxAttempts
  BY <1>0 DEF OnlyRow, IInv, Typed, PassTyped, Spare
<1>5. /\ Shares' /\ Waiting' /\ PassTyped' /\ Spare' /\ Answered' /\ OnceUnlessInterrupted'
      /\ ArrivalsTyped'
  BY <1>0, <1>1, <1>2, <1>4, MovesOn
<1>6. Promised
  BY <1>0, NothingPromised
<1> QED BY <1>3, <1>5, <1>6 DEF IInv, Typed

\* Of what is on the wire any part may arrive, and what was accepted is forgotten.
LEMMA VanishKeeps ==
  ASSUME IInv, Vanish PROVE IInv' /\ Promised
<1>0. /\ phase' = "down" /\ work' = [s \in Sinks |-> <<>>] /\ at' = [s \in Sinks |-> "next"]
      /\ verdict' = [s \in Sinks |-> "none"] /\ listed' = {}
      /\ UNCHANGED <<events, about, owed, state, attempts, line, config>>
  BY DEF Vanish, outbox
<1> DEFINE on(places) == {Row(s) : s \in {t \in Sinks : at[t] \in places}}
<1>1. PICK S \in SUBSET on({"sending"}) :
        Arrives(S) /\ excused' = excused \cup S \cup on({"accepted"})
  BY DEF Vanish
<1>2. S \subseteq Rows /\ \A r \in S : state[r] = "pending"
  BY OnTheWire
<1>3. /\ ArrivalsTyped' /\ \A r \in Rows \ S : arrivals'[r] = arrivals[r]
  BY <1>1, <1>2, Arriving DEF IInv, Typed
<1>4. \A r \in Rows : r[2] \in Sinks
  BY DEF Rows
<1>5. \A s \in Sinks : DOMAIN work'[s] = {} /\ at'[s] = "next"
  <2>1. DOMAIN <<>> = {}
    OBVIOUS
  <2> QED BY <1>0, <2>1
<1>6. Answered'
  <2> SUFFICES ASSUME NEW r \in Rows, arrivals'[r] > 0, r \notin excused' PROVE state[r] = "sent"
    BY <1>0, <1>5 DEF Answered
  <2>1. r \notin S /\ r \notin excused /\ arrivals[r] > 0 /\ r \notin on({"accepted"})
    BY <1>1, <1>3
  <2>2. state[r] = "sent" \/ (at[r[2]] = "accepted" /\ Row(r[2]) = r)
    BY <2>1 DEF IInv, Answered
  <2> QED BY <1>4, <2>1, <2>2
<1>7. OnceUnlessInterrupted'
  <2> SUFFICES ASSUME NEW r \in Rows, arrivals'[r] > 1, r \notin S PROVE r \in excused
    BY <1>1 DEF OnceUnlessInterrupted
  <2> QED BY <1>3 DEF IInv, OnceUnlessInterrupted
<1>8. Shares' /\ Waiting' /\ Spare'
  BY <1>0, <1>5 DEF IInv, Shares, Waiting, Spare
<1>9. StoreTyped' /\ LineTyped'
  BY <1>0 DEF IInv, Typed, StoreTyped, LineTyped
<1>10. PassTyped'
  <2>1. <<>> \in Seq(Rows \X (0..MaxAttempts))
    OBVIOUS
  <2> QED BY <1>0, <2>1 DEF PassTyped
<1>11. Promised
  BY <1>0, <1>1, <1>2, LeavePromised DEF IInv, Typed
<1> QED BY <1>3, <1>6, <1>7, <1>8, <1>9, <1>10, <1>11 DEF IInv, Typed

-----------------------------------------------------------------------------

LEMMA InitKeeps == ASSUME Init PROVE IInv /\ Contract!Init
<1>1. \A s \in Sinks : DOMAIN work[s] = {} /\ at[s] = "next"
  <2>1. DOMAIN <<>> = {}
    OBVIOUS
  <2> QED BY <2>1 DEF Init
<1>2. Shares /\ Waiting /\ Spare /\ OnceUnlessInterrupted
  BY <1>1, Bounds DEF Init, Shares, Waiting, Spare, OnceUnlessInterrupted
<1>3. Answered
  BY <1>1 DEF Init, Answered
<1>4. StoreTyped /\ ArrivalsTyped
  BY Bounds DEF Init, StoreTyped, ArrivalsTyped
<1>5. LineTyped /\ PassTyped
  <2>1. <<>> \in Seq(Rows) /\ <<>> \in Seq(Rows \X (0..MaxAttempts)) /\ DOMAIN <<>> = {}
    OBVIOUS
  <2> QED BY <2>1 DEF Init, LineTyped, PassTyped, Distinct
<1>6. Contract!Init
  BY DEF Init, Contract!Init
<1> QED BY <1>2, <1>3, <1>4, <1>5, <1>6 DEF IInv, Typed

LEMMA StepKeeps == ASSUME IInv, [Next]_vars PROVE IInv' /\ Promised
<1>1. CASE UNCHANGED vars
  <2>1. UNCHANGED <<events, about, owed, state, attempts, line, config, phase, work, at, verdict, listed,
                    arrivals, excused>>
    BY <1>1 DEF vars, outbox, passes, ghosts
  <2>2. Shares' /\ Waiting' /\ Spare' /\ Answered' /\ OnceUnlessInterrupted' /\ ArrivalsTyped'
    BY <2>1, PassesRest
  <2>3. StoreTyped' /\ LineTyped' /\ PassTyped' /\ Promised
    BY <2>1, NothingPromised DEF IInv, Typed, StoreTyped, LineTyped, PassTyped
  <2> QED BY <2>2, <2>3 DEF IInv, Typed
<1>2. CASE \E e \in Events : RouteEvent(e)
  BY <1>2, RouteEventKeeps
<1>3. CASE \E r \in Rows : RetryDelivery(r) \/ BackoffElapses(r)
  BY <1>3, RetryDeliveryKeeps, BackoffElapsesKeeps
<1>4. CASE \E s \in Sinks : Deliver(s)
  BY <1>4, ResolveKeeps, SendAcceptedKeeps, SendFailsKeeps, MarkSentKeeps, MarkFailedKeeps,
     AnnounceKeeps, ReturnKeeps DEF Deliver
<1>5. CASE JournalOriginal \/ ListDeliveries \/ (\E s \in Sinks : Configure(s)) \/ Launch \/ Stop
  BY <1>5, RestKeeps, RestPromised
<1>6. CASE Exit \/ Crash
  BY <1>6, VanishKeeps DEF Exit, Crash
<1>7. CASE Drain
  BY <1>7, DrainKeeps
<1> QED BY <1>1, <1>2, <1>3, <1>4, <1>5, <1>6, <1>7 DEF Next

LEMMA Inductive == Spec => []IInv
<1>1. Init => IInv
  BY InitKeeps
<1>2. IInv /\ [Next]_vars => IInv'
  BY StepKeeps
<1> QED BY <1>1, <1>2, PTL DEF Spec

-----------------------------------------------------------------------------
(* The theorems. *)

\* What is due is a list of pending rows, each of them once: DueDeliveries never
\* hands a row to a goroutine twice, nor one that is sent or dead
\* (notify_store.go:188-222).
LEMMA LineIsASet ==
  ASSUME IInv
  PROVE  line \in Seq({r \in Rows : state[r] = "pending"}) /\ Len(line) = Cardinality(ToSet(line))
<1>0. line \in Seq(Rows) /\ Distinct(line) /\ \A i \in DOMAIN line : state[line[i]] = "pending"
  BY DEF IInv, Typed, LineTyped
<1>1. Len(line) \in Nat /\ DOMAIN line = 1..Len(line)
  BY <1>0, LenProperties
<1>2. \A i \in 1..Len(line) : line[i] \in Rows
  BY <1>0, <1>1, ElementOfSeq
<1>3. line \in [1..Len(line) -> {r \in Rows : state[r] = "pending"}]
  BY <1>0, <1>1, <1>2
<1>4. line \in Seq({r \in Rows : state[r] = "pending"})
  BY <1>1, <1>3
<1>5. line \in Bijection(1..Len(line), ToSet(line))
  <2>1. ToSet(line) = {line[i] : i \in 1..Len(line)}
    BY <1>1 DEF ToSet
  <2>2. line \in [1..Len(line) -> ToSet(line)]
    BY <1>3, <2>1
  <2>3. \A i, j \in 1..Len(line) : line[i] = line[j] => i = j
    BY <1>0, <1>1 DEF Distinct
  <2>4. \A v \in ToSet(line) : \E i \in 1..Len(line) : line[i] = v
    BY <2>1
  <2> QED BY <2>2, <2>3, <2>4 DEF Bijection, Injection, Surjection, IsInjective
<1>6. Cardinality(ToSet(line)) = Len(line)
  BY <1>1, <1>5, FS_CountingElements DEF ExistsBijection
<1> QED BY <1>4, <1>6

\* The outbox, the passes and the log always hold what their types say; no row
\* is due twice, and none that is due has been sent or given up on
\* (notify_store.go:188-222, 245-290).
THEOREM TypeCorrect == Spec => []TypeOK
<1>1. IInv => TypeOK
  <2> SUFFICES ASSUME IInv PROVE TypeOK
    OBVIOUS
  <2>1. listed \subseteq Rows
    BY DEF IInv, Typed, PassTyped
  <2> QED BY <2>1, LineIsASet DEF IInv, Typed, StoreTyped, LineTyped, PassTyped, TypeOK
<1> QED BY <1>1, Inductive, PTL

\* A destination has a delivery at most once, unless something stood between its
\* answer and the record of it: a lost answer, a failed write, the death of the
\* process, or the operator's Retry (dispatcher.go:92-106, 197-233).
THEOREM DeliveredOnce == Spec => []OnceUnlessInterrupted
<1>1. IInv => OnceUnlessInterrupted
  BY DEF IInv
<1> QED BY <1>1, Inductive, PTL

\* Every step of the database and the goroutines is a step of the contract, or
\* none: a row is queued once, is called sent only after it arrived, and leaves
\* "pending" only for "sent" or "dead", until the operator asks for it again
\* (dispatcher.go:132-134, 197-233; notify_store.go:245-340).
THEOREM KeepsTheContract == Spec => Contract!Init /\ [][Contract!Next]_(Contract!vars)
<1>1. Init => Contract!Init
  BY InitKeeps
<1>2. IInv /\ [Next]_vars => [Contract!Next]_(Contract!vars)
  BY StepKeeps DEF Promised
<1> QED BY <1>1, <1>2, Inductive, PTL DEF Spec

\* Where nobody presses Retry, what has been sent stays so: a goroutine records
\* a failure only of a row that still waits (dispatcher.go:197-233).
THEOREM SentStaysSent == ASSUME "retry" \notin Mishaps PROVE Spec => SentIsFinal
<1>1. IInv /\ [Next]_vars => [\A r \in Rows : state[r] = "sent" => state'[r] = "sent"]_vars
  <2> SUFFICES ASSUME IInv, Next, NEW r \in Rows, state[r] = "sent" PROVE state'[r] = "sent"
    OBVIOUS
  <2>0. state \in [Rows -> {"none", "pending", "sent", "dead"}]
    BY DEF IInv, Typed, StoreTyped
  <2>1. CASE \E e \in Events : RouteEvent(e)
    BY <2>0, <2>1 DEF RouteEvent
  <2>2. CASE \E q \in Rows : RetryDelivery(q) \/ BackoffElapses(q)
    BY <2>2 DEF RetryDelivery, BackoffElapses, Spend
  <2>3. CASE \E s \in Sinks : MarkSent(s)
    BY <2>0, <2>3 DEF MarkSent, outbox
  <2>4. CASE \E s \in Sinks : MarkFailed(s)
    <3>1. PICK s \in Sinks : MarkFailed(s)
      BY <2>4
    <3>2. work[s] # <<>> /\ at[s] = "failed"
      BY <3>1, AtWork DEF MarkFailed, IInv
    <3>3. 1 \in DOMAIN work[s] /\ work[s][1][1] = Row(s)
      BY <3>2, AtRow DEF IInv
    <3>4. state[Row(s)] = "pending"
      BY <3>2, <3>3 DEF IInv, Waiting
    <3> QED BY <2>0, <3>1, <3>4 DEF MarkFailed, outbox
  <2>5. CASE \E s \in Sinks : \/ Resolve(s) \/ SendAccepted(s) \/ SendFails(s) \/ Announce(s)
                              \/ Return(s) \/ Configure(s)
    BY <2>5 DEF Resolve, SendAccepted, SendFails, Announce, Return, Configure, outbox
  <2>6. CASE JournalOriginal \/ ListDeliveries \/ Drain \/ Launch \/ Stop \/ Exit \/ Crash
    BY <2>6 DEF JournalOriginal, ListDeliveries, Drain, Launch, Stop, Exit, Crash, Vanish, outbox
  <2> QED BY <2>1, <2>2, <2>3, <2>4, <2>5, <2>6 DEF Next, Deliver
<1> QED BY <1>1, Inductive, PTL DEF Spec, SentIsFinal
=============================================================================
