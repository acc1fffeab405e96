----------------------------- MODULE Evaluator -----------------------------
(***************************************************************************)
(* Samples into incidents (pkg/monitor/breach.go), with the episodes that  *)
(* outlive the process (pkg/storage/events.go) and their restoration       *)
(* (internal/app/app.go, initEvaluator).                                   *)
(*                                                                         *)
(* One session and one of its targets: another key of downStates or of     *)
(* episodes is touched by its own samples only, and Ingest holds a lock.   *)
(* What Ingest changes in memory and what it writes are told apart: the    *)
(* writes are done one after the other, each may fail, and the process may *)
(* die between two of them.                                                *)
(*                                                                         *)
(* A reading is what classify and the reachability count make of it.  Time *)
(* is counted in units shorter than the second that FirstSeen is kept to.  *)
(***************************************************************************)
EXTENDS Integers, Sequences

CONSTANTS
  Oids,
  Order,      \* the OIDs in the order of the readings
  Readings,   \* what a poll may bring, among those of Outcomes
  Dwell,      \* ForSeconds, in units
  Second,     \* units in a second
  MaxStep,    \* bound: units between two rounds
  MaxTime,    \* bound: units
  MaxCorr,    \* bound: episodes
  MaxFaults,  \* bound: failed reads and writes
  MaxCrashes, \* bound: crashes
  MaxExits    \* bound: exits between two rounds

\* Outside the band, inside it, a value that is no number, or an error.
Outcomes == {"below", "above", "in", "text", "error"}
Out      == {"below", "above"}

ASSUME EvaluatorAssumption ==
  /\ Order \in Seq(Oids) /\ \A o \in Oids : \E i \in DOMAIN Order : Order[i] = o
  /\ Readings \subseteq Outcomes
  /\ Second \in Nat \ {0}
  /\ \A n \in {Dwell, MaxStep, MaxTime, MaxCorr, MaxFaults, MaxCrashes, MaxExits} : n \in Nat

NoEpisode == [kind |-> "none", first |-> 0, fired |-> FALSE, corr |-> 0]
Episodes  == [kind : Out \cup {"none"}, first : 0..MaxTime, fired : BOOLEAN, corr : 0..MaxCorr]
Unheard   == "none"

VARIABLES
  \* the database
  disk,      \* the episode saved for each OID
  log,       \* the threshold events journalled for each OID, in order
  reachLog,  \* the reachability events journalled, in order
  \* the process
  up,
  mem,       \* Evaluator.episodes
  down,      \* Evaluator.downStates of the target
  round,     \* the readings of the round being ingested
  stage,     \* "idle", "reach" or "samples"
  left,      \* the OIDs of the round still to be evaluated
  todo,      \* the writes that the statements already run have still to make
  nextCorr,  \* NewCorrID
  now,
  \* bookkeeping of the model
  since,     \* since when the readings have been out on the same side, without a break
  dropped,   \* the episodes that had fired and ended with no word
  budget

stored == <<disk, log, reachLog>>
memory == <<mem, down, nextCorr>>
vars   == <<stored, up, memory, round, stage, left, todo, now, since, dropped, budget>>

Spend(kind) == budget[kind] > 0 /\ budget' = [budget EXCEPT ![kind] = @ - 1]

Save(o, epi)       == [do |-> "save", oid |-> o, epi |-> epi]
Delete(o)          == [do |-> "delete", oid |-> o]
Emit(o, what, epi) == [do |-> what, oid |-> o, corr |-> epi.corr]
Reach(what, r)     == [do |-> what, answered |-> \E o \in Oids : r[o] # "error"]

-----------------------------------------------------------------------------
(* Ingest. *)

Breached(r)   == r \in Out
HasValue(r)   == r \in Out \cup {"in"}

\* Mutant: rounded up.
WholeSecondUp(t) == ((t + Second - 1) \div Second) * Second

\* FirstSeen is kept to the second.
WholeSecond(t) == (t \div Second) * Second

\* A round arrives: every OID of the target has a reading, if only an error.
Poll ==
  /\ up /\ stage = "idle"
  /\ nextCorr + Len(Order) <= MaxCorr + 1
  /\ \E d \in 1..MaxStep : now + d <= MaxTime /\ now' = now + d
  /\ \E r \in [Oids -> Readings] :
       /\ round' = r
       /\ since' = [o \in Oids |-> IF ~Breached(r[o]) THEN 0
                                   ELSE IF r[o] = round[o] /\ since[o] > 0 THEN since[o] ELSE now']
  /\ stage' = "reach"
  /\ UNCHANGED <<stored, up, memory, left, todo, dropped, budget>>

\* Reachability: a sample with no value counts as failed, whatever the reason.
AllFailed == \A o \in Oids : ~HasValue(round[o])

\* Mutant: announced again by every round that fails.
ReachabilityUnlatched ==
  /\ up /\ stage = "reach"
  /\ down' = AllFailed
  /\ todo' = IF AllFailed THEN <<Reach("down", round)>> ELSE IF down THEN <<Reach("up", round)>> ELSE <<>>
  /\ stage' = "samples"
  /\ left' = Order
  /\ UNCHANGED <<stored, up, mem, nextCorr, round, now, since, dropped, budget>>

\* Only the changes of downStates are announced.
Reachability ==
  /\ up /\ stage = "reach"
  /\ down' = AllFailed
  /\ todo' = IF AllFailed /\ ~down THEN <<Reach("down", round)>>
             ELSE IF ~AllFailed /\ down THEN <<Reach("up", round)>> ELSE <<>>
  /\ stage' = "samples"
  /\ left' = Order
  /\ UNCHANGED <<stored, up, mem, nextCorr, round, now, since, dropped, budget>>

\* Mutant: an end that was never announced is not deleted from the database.
EndEpisodeKept(o) ==
  /\ mem[o] # NoEpisode
  /\ mem' = [mem EXCEPT ![o] = NoEpisode]
  /\ todo' = IF mem[o].fired /\ HasValue(round[o]) THEN <<Emit(o, "resolved", mem[o]), Delete(o)>>
             ELSE <<>>
  /\ dropped' = IF mem[o].fired /\ ~HasValue(round[o]) THEN dropped \cup {mem[o].corr} ELSE dropped
  /\ UNCHANGED nextCorr

\* Mutant: an end that had fired says nothing.
EndEpisodeSilently(o) ==
  /\ mem[o] # NoEpisode
  /\ mem' = [mem EXCEPT ![o] = NoEpisode]
  /\ todo' = <<Delete(o)>>
  /\ dropped' = IF mem[o].fired /\ ~HasValue(round[o]) THEN dropped \cup {mem[o].corr} ELSE dropped
  /\ UNCHANGED nextCorr

\* Back inside the band, or unreadable: the episode ends, and says so only when
\* it had fired and there is a value.
EndEpisode(o) ==
  /\ mem[o] # NoEpisode
  /\ mem' = [mem EXCEPT ![o] = NoEpisode]
  /\ todo' = (IF mem[o].fired /\ HasValue(round[o]) THEN <<Emit(o, "resolved", mem[o])>>
              ELSE <<>>) \o <<Delete(o)>>
  /\ dropped' = IF mem[o].fired /\ ~HasValue(round[o]) THEN dropped \cup {mem[o].corr} ELSE dropped
  /\ UNCHANGED nextCorr

\* Mutant: the other side of the band continues the episode.
BeginsIfNone(o) == mem[o] = NoEpisode

\* A new episode, or another side of the band, which is a new one too.
Begins(o) == mem[o] = NoEpisode \/ mem[o].kind # round[o]

NewEpisode(o) == [kind |-> round[o], first |-> WholeSecond(now), fired |-> FALSE, corr |-> nextCorr]

Sustained(epi) == now - epi.first >= Dwell

\* Mutant: the event is recorded before fired_at is saved.
BreachEmitFirst(o) ==
  LET epi  == IF Begins(o) THEN NewEpisode(o) ELSE mem[o]
      fire == ~epi.fired /\ Sustained(epi)
      then == IF fire THEN [epi EXCEPT !.fired = TRUE] ELSE epi
  IN /\ mem' = [mem EXCEPT ![o] = then]
     /\ todo' = (IF Begins(o) THEN <<Save(o, epi)>> ELSE <<>>)
                  \o (IF fire THEN <<Emit(o, "opened", then), Save(o, then)>> ELSE <<>>)
     /\ nextCorr' = IF Begins(o) THEN nextCorr + 1 ELSE nextCorr
     /\ dropped' = IF Begins(o) /\ mem[o].fired THEN dropped \cup {mem[o].corr} ELSE dropped

\* A reading outside the band: the episode is saved when it begins, and saved
\* as fired before its event is recorded.
Breach(o) ==
  LET epi  == IF Begins(o) THEN NewEpisode(o) ELSE mem[o]
      fire == ~epi.fired /\ Sustained(epi)
      then == IF fire THEN [epi EXCEPT !.fired = TRUE] ELSE epi
  IN /\ mem' = [mem EXCEPT ![o] = then]
     /\ todo' = (IF Begins(o) THEN <<Save(o, epi)>> ELSE <<>>)
                  \o (IF fire THEN <<Save(o, then), Emit(o, "opened", then)>> ELSE <<>>)
     /\ nextCorr' = IF Begins(o) THEN nextCorr + 1 ELSE nextCorr
     /\ dropped' = IF Begins(o) /\ mem[o].fired THEN dropped \cup {mem[o].corr} ELSE dropped

EvaluateSample ==
  /\ up /\ stage = "samples" /\ todo = <<>> /\ left # <<>>
  /\ LET o == Head(left) IN
       \/ Breached(round[o]) /\ Breach(o)
       \/ ~Breached(round[o]) /\ EndEpisode(o)
       \/ ~Breached(round[o]) /\ mem[o] = NoEpisode /\ UNCHANGED <<mem, todo, dropped, nextCorr>>
  /\ left' = Tail(left)
  /\ UNCHANGED <<stored, up, down, round, stage, now, since, budget>>

\* Ingest returns.
Return ==
  /\ up /\ stage = "samples" /\ todo = <<>> /\ left = <<>>
  /\ stage' = "idle"
  /\ UNCHANGED <<stored, up, memory, round, left, todo, now, since, dropped, budget>>

-----------------------------------------------------------------------------
(* The writes: SaveEpi, DeleteEpi and Record, whose error changes nothing in *)
(* what follows.                                                             *)

Perform(w) ==
  CASE w.do = "save"   -> disk' = [disk EXCEPT ![w.oid] = w.epi] /\ UNCHANGED <<log, reachLog>>
    [] w.do = "delete" -> disk' = [disk EXCEPT ![w.oid] = NoEpisode] /\ UNCHANGED <<log, reachLog>>
    [] w.do \in {"opened", "resolved"} ->
         /\ log' = [log EXCEPT ![w.oid] = Append(@, <<w.do, w.corr>>)]
         /\ UNCHANGED <<disk, reachLog>>
    [] OTHER -> /\ reachLog' = Append(reachLog, <<w.do, w.answered>>)
                /\ UNCHANGED <<disk, log>>

Write ==
  /\ up /\ todo # <<>>
  /\ Perform(Head(todo))
  /\ todo' = Tail(todo)
  /\ UNCHANGED <<up, memory, round, stage, left, now, since, dropped, budget>>

WriteFails ==
  /\ up /\ todo # <<>>
  /\ Spend("faults")
  /\ todo' = Tail(todo)
  /\ UNCHANGED <<stored, up, memory, round, stage, left, now, since, dropped>>

-----------------------------------------------------------------------------
(* The process. *)

Goes ==
  /\ up' = FALSE
  /\ mem' = [o \in Oids |-> NoEpisode] /\ down' = FALSE
  /\ stage' = "idle" /\ left' = <<>> /\ todo' = <<>>
  /\ UNCHANGED <<stored, nextCorr, round, now, since, dropped>>

\* In the middle of a round, or of its writes.
Crash == up /\ stage # "idle" /\ Spend("crashes") /\ Goes

\* Between two rounds, in whatever way.
Exit == up /\ stage = "idle" /\ Spend("exits") /\ Goes

\* initEvaluator: LoadEpisodes and Restore, or nothing when they cannot be read.
Launch ==
  /\ ~up
  /\ up' = TRUE
  /\ \/ mem' = disk /\ UNCHANGED budget
     \/ Spend("faults") /\ UNCHANGED mem
  /\ UNCHANGED <<stored, down, nextCorr, round, stage, left, todo, now, since, dropped>>

Init ==
  /\ disk = [o \in Oids |-> NoEpisode]
  /\ log = [o \in Oids |-> <<>>] /\ reachLog = <<>>
  /\ up = FALSE
  /\ mem = [o \in Oids |-> NoEpisode] /\ down = FALSE /\ nextCorr = 1
  /\ round = [o \in Oids |-> Unheard]
  /\ stage = "idle" /\ left = <<>> /\ todo = <<>>
  /\ now = 0
  /\ since = [o \in Oids |-> 0]
  /\ dropped = {}
  /\ budget = [faults |-> MaxFaults, crashes |-> MaxCrashes, exits |-> MaxExits]

Next ==
  \/ Poll \/ Reachability \/ EvaluateSample \/ Return
  \/ Write \/ WriteFails
  \/ Crash \/ Exit \/ Launch

Spec == Init /\ [][Next]_vars

-----------------------------------------------------------------------------
(* Properties. *)

TypeOK ==
  /\ disk \in [Oids -> Episodes] /\ mem \in [Oids -> Episodes]
  /\ log \in [Oids -> Seq({"opened", "resolved"} \X (1..MaxCorr))]
  /\ reachLog \in Seq({"down", "up"} \X BOOLEAN)
  /\ up \in BOOLEAN /\ down \in BOOLEAN
  /\ round \in [Oids -> Outcomes \cup {Unheard}]
  /\ stage \in {"idle", "reach", "samples"}
  /\ left \in Seq(Oids)
  /\ nextCorr \in 1..(MaxCorr + 1) /\ now \in 0..MaxTime
  /\ since \in [Oids -> 0..MaxTime]
  /\ dropped \subseteq 1..MaxCorr

NoFault == budget.faults = MaxFaults
NoCrash == budget.crashes = MaxCrashes

Recorded(o, what) == {c \in 1..MaxCorr : \E i \in DOMAIN log[o] : log[o][i] = <<what, c>>}
Times(o, what, c) == {i \in DOMAIN log[o] : log[o][i] = <<what, c>>}
Unresolved(o)     == Recorded(o, "opened") \ Recorded(o, "resolved")

\* An incident is announced once, restarts included (breach.go:40-41, 79-80):
\* fired_at is saved before the event is recorded.
OpenedOnce ==
  NoFault =>
    \A o \in Oids, c \in 1..MaxCorr : \A i, j \in Times(o, "opened", c) : i = j

\* An incident is closed when the value comes back (breach.go:7-8): between two
\* rounds, what is still open in the journal is the episode in progress - or one
\* that an unreadable poll or a flip to the other side has dropped.
ClosedWhenBack ==
  NoFault /\ up /\ stage = "idle" =>
    \A o \in Oids : Unresolved(o) \subseteq dropped \cup {mem[o].corr}

\* A restart resumes the episodes: memory and database agree between two rounds.
EpisodesSaved == NoFault /\ up /\ stage = "idle" => mem = disk

\* An alert has held for its dwell time (breach.go:5-6), give or take the second
\* that FirstSeen is rounded to: when it is raised the value has been seen out
\* on this side, and never otherwise, for that long - restarts included.  (An
\* end of episode that is lost, by a failed delete or a death before it, leaves
\* its old FirstSeen to the next one.)
AlertHasHeld ==
  NoFault /\ NoCrash => \A i \in DOMAIN todo :
    todo[i].do = "opened" =>
      LET o == todo[i].oid IN since[o] > 0 /\ now - since[o] > Dwell - Second

\* "It becomes an alert only once it has held for the configured dwell time"
\* (breach.go:5-6).
AlertHasHeldInFull ==
  \A i \in DOMAIN todo : todo[i].do = "opened" => now - since[todo[i].oid] >= Dwell

\* "It is CLOSED with a matching resolution event when the value comes back"
\* (breach.go:7-8).
EveryIncidentCloses ==
  up /\ stage = "idle" =>
    \A o \in Oids : round[o] = "in" => Unresolved(o) = {}

\* A resolution answers an opening (breach_test.go:101, TestNoResolutionWithoutAnOpening).
NoResolutionWithoutOpening ==
  \A o \in Oids : Recorded(o, "resolved") \subseteq Recorded(o, "opened")

\* The reachability events of a target alternate, an outage first: each outage is
\* announced once and is over once (breach.go:140-151) - within one run of the
\* process, since downStates does not outlive it.
ReachabilityAlternates ==
  NoFault /\ NoCrash /\ budget.exits = MaxExits =>
    \A i \in DOMAIN reachLog : reachLog[i][1] = IF i % 2 = 1 THEN "down" ELSE "up"

\* An "in-progress threshold or reachability breach" is resumed after a restart
\* "instead of re-raising an incident that was already reported" (events.go:446,
\* 458-459).
OutageSaidOnce ==
  \A i \in 2..Len(reachLog) : reachLog[i][1] # reachLog[i - 1][1]

\* "A target that stops answering entirely" (breach.go:127) is what is announced
\* as down.
DownMeansSilent == \A i \in DOMAIN reachLog : reachLog[i][1] = "down" => ~reachLog[i][2]
=============================================================================
