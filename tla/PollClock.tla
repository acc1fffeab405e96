----------------------------- MODULE PollClock -----------------------------
(***************************************************************************)
(* The poll clocks and the calls that start and stop them                  *)
(* (pkg/monitor/scheduler.go, internal/app/monitor.go, and shutdown and    *)
(* MonitorDeleteSession of internal/app/app.go).                           *)
(*                                                                         *)
(* A session's clock is a goroutine known by the handle of running.  Every *)
(* bound method is called on a goroutine of its own, so that the steps of  *)
(* two calls interleave with each other and with the rounds of the clocks. *)
(* A connection is a version number: what a poll speaks with, and what the *)
(* row of the session holds.                                               *)
(***************************************************************************)
EXTENDS Integers, FiniteSets

CONSTANTS
  Sessions,
  Callers,      \* the calls that may be under way at one time
  Ops,          \* the bound methods they call
  MaxClocks,    \* bound: goroutines ever started
  MaxVersions,  \* bound: versions of a connection, besides the first
  MaxCalls,     \* bound: calls
  MaxFaults     \* bound: reads and writes of the database that fail

Clocks   == 1..MaxClocks
Versions == 0..MaxVersions
AllOps   == {"start", "stop", "update", "remove", "quit"}

ASSUME PollClockBounds ==
  /\ Ops \subseteq AllOps
  /\ MaxClocks \in Nat /\ MaxVersions \in Nat /\ MaxCalls \in Nat /\ MaxFaults \in Nat

NoClock == [of |-> "none", with |-> 0, at |-> "none", cancelled |-> FALSE]
Free    == [op |-> "none", at |-> "free", session |-> "none", read |-> 0, held |-> {}]

VARIABLES
  \* the database
  exists,   \* the rows of sessions
  active,   \* those with active = 1
  conn,     \* their connection
  phase,    \* "down", "up" or "closed" (the database is)
  \* the scheduler
  running,  \* Scheduler.running: the handle of a session, 0 when none
  clock,    \* each goroutine: its session, its connection, where it is
  call,     \* each caller: what it does and where it is
  \* bookkeeping of the model
  silenced, \* sessions a MonitorStop has ended, and nobody has started meanwhile or since
  unsure,   \* callers whose MonitorStop overlaps a MonitorStart of the session
  calls, faults

rows   == <<exists, active, conn>>
bounds == <<calls, faults>>
vars   == <<rows, phase, running, clock, call, silenced, unsure, bounds>>

Goto(c, place)  == call' = [call EXCEPT ![c].at = place]
Finish(c)       == call' = [call EXCEPT ![c] = Free]
At(c, op, place) == call[c].op = op /\ call[c].at = place
Alive(h)        == clock[h].at \notin {"none", "done"}
Unused(h)       == clock[h] = NoClock /\ \A k \in Clocks : k < h => clock[k] # NoClock

\* A read or a write of the database fails: the call returns the error.
Fault == faults > 0 /\ faults' = faults - 1

\* Mutant: a session is given a clock whether it has one or not.
LaunchedAnyway(s, version) ==
  \E h \in Clocks :
    /\ Unused(h)
    /\ running' = [running EXCEPT ![s] = h]
    /\ clock' = [clock EXCEPT ![h] =
                   [of |-> s, with |-> version, at |-> "waiting", cancelled |-> FALSE]]

\* Scheduler.Start: a session that has a clock keeps it.
Launched(s, version) ==
  IF running[s] # 0 THEN UNCHANGED <<running, clock>>
  ELSE \E h \in Clocks :
         /\ Unused(h)
         /\ running' = [running EXCEPT ![s] = h]
         /\ clock' = [clock EXCEPT ![h] =
                        [of |-> s, with |-> version, at |-> "waiting", cancelled |-> FALSE]]

-----------------------------------------------------------------------------
(* The calls. *)

Begin(c) ==
  /\ phase = "up" /\ call[c] = Free /\ calls > 0
  /\ \E op \in Ops, s \in Sessions :
       /\ call' = [call EXCEPT ![c] = [op |-> op, at |-> "begun", session |-> s, read |-> 0, held |-> {}]]
       /\ silenced' = IF op = "start" THEN silenced \ {s} ELSE silenced
       /\ LET same(d) == call[d].session = s
              starts == \E d \in Callers : same(d) /\ call[d].op = "start"
          IN unsure' = IF op = "start" THEN unsure \cup {d \in Callers : same(d)}
                       ELSE IF starts THEN unsure \cup {c} ELSE unsure \ {c}
  /\ calls' = calls - 1
  /\ UNCHANGED <<rows, phase, running, clock, faults>>

\* MonitorStart: the row is read, the clock is started, the row is marked.
FindSession(c) ==
  /\ At(c, "start", "begun") \/ At(c, "update", "stopped")
  /\ \/ /\ call[c].session \in exists
        /\ call' = [call EXCEPT ![c].at = "found", ![c].read = conn[call[c].session]]
        /\ UNCHANGED faults
     \/ call[c].session \notin exists /\ Finish(c) /\ UNCHANGED faults
     \/ Fault /\ Finish(c)
  /\ UNCHANGED <<rows, phase, running, clock, silenced, unsure, calls>>

StartClock(c) ==
  /\ call[c].at = "found"
  /\ Launched(call[c].session, call[c].read)
  /\ IF call[c].op = "start" THEN Goto(c, "started") ELSE Finish(c)
  /\ UNCHANGED <<rows, phase, silenced, unsure, bounds>>

MarkActive(c) ==
  /\ At(c, "start", "started")
  /\ \/ active' = active \cup ({call[c].session} \cap exists) /\ UNCHANGED faults
     \/ Fault /\ UNCHANGED active
  /\ Finish(c)
  /\ UNCHANGED <<exists, conn, phase, running, clock, silenced, unsure, calls>>

\* MonitorUpdateConnection: the row, then the clock that holds the old one.
UpdateConnection(c) ==
  /\ At(c, "update", "begun")
  /\ \/ /\ LET s == call[c].session IN
             IF s \in exists THEN \E v \in Versions \ {conn[s]} : conn' = [conn EXCEPT ![s] = v]
             ELSE UNCHANGED conn
        /\ Goto(c, "written") /\ UNCHANGED faults
     \/ Fault /\ Finish(c) /\ UNCHANGED conn
  /\ UNCHANGED <<exists, active, phase, running, clock, silenced, unsure, calls>>

\* Mutant: the clock is left alone.
IsRunningIgnored(c) ==
  /\ At(c, "update", "written")
  /\ Finish(c)
  /\ UNCHANGED <<rows, phase, running, clock, silenced, unsure, bounds>>

IsRunning(c) ==
  /\ At(c, "update", "written")
  /\ IF running[call[c].session] # 0 THEN Goto(c, "restart") ELSE Finish(c)
  /\ UNCHANGED <<rows, phase, running, clock, silenced, unsure, bounds>>

\* Scheduler.Stop and StopAll: out of the map, then cancelled, then waited for.
StopStarts(c) == At(c, "stop", "begun") \/ At(c, "remove", "begun") \/ At(c, "update", "restart")

\* Mutant: a session without a clock is stopped like the others.
TakeNil(c) ==
  /\ StopStarts(c)
  /\ LET s == call[c].session IN
       /\ call' = [call EXCEPT ![c].at = "taken", ![c].held = {running[s]}]
       /\ running' = [running EXCEPT ![s] = 0]
  /\ UNCHANGED <<rows, phase, clock, silenced, unsure, bounds>>

TakeHandle(c) ==
  /\ StopStarts(c)
  /\ LET s == call[c].session IN
       /\ call' = [call EXCEPT ![c].at = IF running[s] = 0 THEN "stopped" ELSE "taken",
                               ![c].held = {running[s]} \ {0}]
       /\ running' = [running EXCEPT ![s] = 0]
  /\ UNCHANGED <<rows, phase, clock, silenced, unsure, bounds>>

\* Mutant: StopAll empties the map before it copies the handles.
TakeNoHandles(c) ==
  /\ At(c, "quit", "begun")
  /\ call' = [call EXCEPT ![c].at = "taken", ![c].held = {}]
  /\ running' = [s \in Sessions |-> 0]
  /\ UNCHANGED <<rows, phase, clock, silenced, unsure, bounds>>

TakeAllHandles(c) ==
  /\ At(c, "quit", "begun")
  /\ call' = [call EXCEPT ![c].at = "taken", ![c].held = {running[s] : s \in Sessions} \ {0}]
  /\ running' = [s \in Sessions |-> 0]
  /\ UNCHANGED <<rows, phase, clock, silenced, unsure, bounds>>

Cancel(c) ==
  /\ call[c].at = "taken"
  /\ clock' = [h \in Clocks |-> IF h \in call[c].held THEN [clock[h] EXCEPT !.cancelled = TRUE]
                                ELSE clock[h]]
  /\ Goto(c, "waiting")
  /\ UNCHANGED <<rows, phase, running, silenced, unsure, bounds>>

\* Mutant: the call does not wait for the goroutine.
WaitForNobody(c) ==
  /\ call[c].at = "waiting"
  /\ Goto(c, "stopped")
  /\ UNCHANGED <<rows, phase, running, clock, silenced, unsure, bounds>>

Wait(c) ==
  /\ call[c].at = "waiting"
  /\ \A h \in call[c].held : clock[h].at = "done"
  /\ Goto(c, "stopped")
  /\ UNCHANGED <<rows, phase, running, clock, silenced, unsure, bounds>>

\* The end of MonitorStop, also when removeSession is what called it.
MarkInactive(c) ==
  /\ call[c].op \in {"stop", "remove"} /\ call[c].at = "stopped"
  /\ \/ /\ active' = active \ {call[c].session}
        /\ silenced' = IF c \in unsure THEN silenced ELSE silenced \cup {call[c].session}
        /\ UNCHANGED faults
     \/ Fault /\ UNCHANGED <<active, silenced>>
  /\ IF call[c].op = "remove" THEN Goto(c, "delete") ELSE Finish(c)
  /\ UNCHANGED <<exists, conn, phase, running, clock, unsure, calls>>

\* MonitorDeleteSession: the credentials, then the row.
DeleteSession(c) ==
  /\ At(c, "remove", "delete")
  /\ \/ /\ exists' = exists \ {call[c].session} /\ active' = active \ {call[c].session}
        /\ UNCHANGED faults
     \/ Fault /\ UNCHANGED <<exists, active>>
  /\ Finish(c)
  /\ UNCHANGED <<conn, phase, running, clock, silenced, unsure, calls>>

\* shutdown, after StopAll: the database is closed.
CloseDatabase(c) ==
  /\ At(c, "quit", "stopped")
  /\ phase' = "closed"
  /\ Finish(c)
  /\ UNCHANGED <<rows, running, clock, silenced, unsure, bounds>>

-----------------------------------------------------------------------------
(* The goroutines. *)

Step(h, from, to) ==
  /\ clock[h].at = from
  /\ clock' = [clock EXCEPT ![h].at = to]
  /\ UNCHANGED <<rows, phase, running, call, silenced, unsure, bounds>>

\* The ticker, or the spread of the first poll.  When the clock is cancelled and
\* the ticker has ticked as well, select may choose either.
Tick(h) == Step(h, "waiting", "ticked")

\* tick, before the fetch.
Check(h) ==
  \/ clock[h].cancelled /\ Step(h, "ticked", "waiting")
  \/ ~clock[h].cancelled /\ Step(h, "ticked", "fetching")

\* What a cancelled fetch returns is an error per OID; the answers may have
\* arrived just before.
FetchReturns(h) ==
  \/ Step(h, "fetching", "answered")
  \/ clock[h].cancelled /\ Step(h, "fetching", "aborted")

\* Mutant: what a fetch returns is stored whatever has happened to the clock.
CheckNothing(h) == Step(h, "answered", "storing") \/ Step(h, "aborted", "storing errors")

\* tick, after it: a cancelled round is not stored.
CheckAgain(h) ==
  \E from \in {"answered", "aborted"} :
    \/ clock[h].cancelled /\ Step(h, from, "waiting")
    \/ ~clock[h].cancelled /\ Step(h, from, IF from = "answered" THEN "storing" ELSE "storing errors")

\* Persist, Evaluate and Emit are done, or one of them has panicked.
Stored(h) == \E from \in {"storing", "storing errors"} : Step(h, from, "waiting")

\* safeTick: a panic of Fetch ends the round only.
Panic(h) == Step(h, "fetching", "waiting")

\* Mutant: a clock that is cancelled while it waits goes on waiting.
SeeNothing(h) == clock[h].cancelled /\ Step(h, "waiting", "waiting")

SeeCancelled(h) == clock[h].cancelled /\ Step(h, "waiting", "done")

-----------------------------------------------------------------------------
(* The process. *)

\* Goroutines and calls that outlive shutdown die with the process; a crash is
\* the same at any time.
Die ==
  /\ phase # "down"
  /\ phase' = "down"
  /\ running' = [s \in Sessions |-> 0]
  /\ clock' = [h \in Clocks |-> IF Alive(h) THEN [clock[h] EXCEPT !.at = "done"] ELSE clock[h]]
  /\ call' = [c \in Callers |-> Free]
  /\ UNCHANGED <<rows, silenced, unsure, bounds>>

\* resumeActiveSessions: one clock for each session that was active, or none
\* when the sessions cannot be read.
Resume ==
  /\ phase = "down" /\ calls > 0
  /\ phase' = "up"
  /\ LET unused == {h \in Clocks : clock[h] = NoClock}
         started(s) == [of |-> s, with |-> conn[s], at |-> "waiting", cancelled |-> FALSE]
     IN \E S \in {active, {}} : \E start \in [S -> unused] :
          /\ IF S = active THEN UNCHANGED faults ELSE Fault
          /\ \A s, t \in S : start[s] = start[t] => s = t
          /\ running' = [s \in Sessions |-> IF s \in S THEN start[s] ELSE 0]
          /\ clock' = [h \in Clocks |->
               IF \E s \in S : start[s] = h THEN started(CHOOSE s \in S : start[s] = h)
               ELSE clock[h]]
  /\ calls' = calls - 1
  /\ UNCHANGED <<rows, call, silenced, unsure>>

Init ==
  /\ exists = Sessions /\ active = {}
  /\ conn = [s \in Sessions |-> 0]
  /\ phase = "up"
  /\ running = [s \in Sessions |-> 0]
  /\ clock = [h \in Clocks |-> NoClock]
  /\ call = [c \in Callers |-> Free]
  /\ silenced = {} /\ unsure = {}
  /\ calls = MaxCalls /\ faults = MaxFaults

CallStep(c) ==
  \/ FindSession(c) \/ StartClock(c) \/ MarkActive(c)
  \/ UpdateConnection(c) \/ IsRunning(c)
  \/ TakeHandle(c) \/ TakeAllHandles(c) \/ Cancel(c) \/ Wait(c)
  \/ MarkInactive(c) \/ DeleteSession(c) \/ CloseDatabase(c)

Round(h) ==
  \/ Tick(h) \/ Check(h) \/ FetchReturns(h) \/ CheckAgain(h) \/ Stored(h) \/ Panic(h)

Next ==
  \/ \E c \in Callers : Begin(c) \/ CallStep(c)
  \/ \E h \in Clocks : Round(h) \/ SeeCancelled(h)
  \/ Die \/ Resume

Spec == Init /\ [][Next]_vars

(***************************************************************************)
(* A fetch ends (its context reaches the wire, every request has a         *)
(* timeout), the callbacks return, calls go on.  A select that finds both  *)
(* of its channels ready picks one at random, again and again: it does not *)
(* pick the ticker for ever, which is strong fairness of SeeCancelled.     *)
(***************************************************************************)
FairSpec ==
  /\ Spec
  /\ \A c \in Callers : WF_vars(CallStep(c))
  /\ \A h \in Clocks : WF_vars(Round(h)) /\ SF_vars(SeeCancelled(h))

-----------------------------------------------------------------------------
(* Properties. *)

TypeOK ==
  /\ active \subseteq exists /\ exists \subseteq Sessions
  /\ conn \in [Sessions -> Versions]
  /\ phase \in {"down", "up", "closed"}
  /\ running \in [Sessions -> Clocks \cup {0}]
  /\ \A h \in Clocks :
       clock[h] # NoClock => clock[h].of \in Sessions /\ clock[h].with \in Versions
  /\ \A c \in Callers : call[c].held \subseteq Clocks /\ call[c].read \in Versions
  /\ silenced \subseteq Sessions /\ unsure \subseteq Callers

\* "A double click in the UI cannot produce two clocks on the same device"
\* (scheduler.go:132-133), and no clock is out of everybody's reach: the map
\* holds every clock that is not cancelled, or a call is about to cancel it.
NobodyLeftBehind ==
  \A h \in Clocks :
    Alive(h) /\ ~clock[h].cancelled =>
      \/ running[clock[h].of] = h
      \/ \E c \in Callers : h \in call[c].held /\ call[c].at = "taken"

\* A round cut short by Stop is not read as "a device that stopped answering"
\* (scheduler.go:317-324): its errors are never stored.
NoFalseOutage == \A h \in Clocks : clock[h].at # "storing errors"

\* "MonitorStop ends the Go-side poll loop for a session" (monitor.go:418), and
\* it waits: once it has returned, nothing polls or stores for that session
\* until it is started again.
StoppedIsSilent ==
  phase = "up" => \A h \in Clocks : Alive(h) => clock[h].of \notin silenced

\* The same of the map only: nothing restarts what was stopped.
StoppedStaysStopped == phase = "up" => \A s \in silenced : running[s] = 0

\* "A caller that stops then closes the database cannot race the final write"
\* (scheduler.go:409-410).
NothingStoredAfterClose ==
  phase = "closed" => \A h \in Clocks : clock[h].at \notin {"storing", "storing errors"}

\* "A running session holds its old closure, so restart it" (monitor.go:459-460):
\* with no call under way, every clock speaks with the connection of its row.
SpeaksWithItsRow ==
  phase = "up" /\ (\A c \in Callers : call[c] = Free) =>
    \A s \in Sessions : running[s] # 0 => s \in exists /\ clock[running[s]].with = conn[s]

\* "resumeActiveSessions restarts what was running when the app last exited"
\* (monitor.go:483): with no call under way and no error so far, active is what
\* a restart would have to resume.
ActiveIsRunning ==
  phase = "up" /\ faults = MaxFaults /\ (\A c \in Callers : call[c] = Free) =>
    active = {s \in Sessions : running[s] # 0}

\* "A running session holds its old closure, so restart it here rather than
\* letting the change appear to have been ignored" (monitor.go:459-460): an
\* update that stopped a clock has started another when it returns.
RestartedByUpdate ==
  [][\A c \in Callers :
       /\ call[c].op = "update" /\ call[c].at \in {"stopped", "found"}
       /\ call'[c] = Free /\ phase' = "up" /\ call[c].session \in exists
       => running'[call[c].session] # 0]_vars

\* Every call returns, however the rounds go (nobody waits for a goroutine that
\* waits for him).
EveryCallReturns ==
  \A c \in Callers : call[c] # Free ~> (call[c] = Free \/ phase = "down")
=============================================================================
