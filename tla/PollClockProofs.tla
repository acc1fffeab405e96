--------------------------- MODULE PollClockProofs ---------------------------
(***************************************************************************)
(* What the poll clocks promise, for any number of sessions, of calls that *)
(* overlap, of clocks and of errors of the database.                       *)
(*                                                                         *)
(* The argument follows a handle: from the map, where it is that of its    *)
(* session, to the call that takes it out, which cancels it and then waits *)
(* for it.  A handle that is taken was given to a goroutine before, so the *)
(* next goroutine is never mistaken for it.                                *)
(***************************************************************************)
EXTENDS PollClock, TLAPS

Places == {"none", "waiting", "ticked", "fetching", "answered", "aborted", "storing",
           "storing errors", "done"}
Goroutine == [of : Sessions \cup {"none"}, with : Versions, at : Places, cancelled : BOOLEAN]

Steps == {"free", "begun", "found", "started", "written", "restart", "taken", "waiting",
          "stopped", "delete"}
Command == [op : AllOps \cup {"none"}, at : Steps, session : Sessions \cup {"none"},
            read : Versions, held : SUBSET Clocks]

RowsTyped ==
  /\ active \subseteq exists /\ exists \subseteq Sessions
  /\ conn \in [Sessions -> Versions]
  /\ phase \in {"down", "up", "closed"}
  /\ silenced \subseteq Sessions /\ unsure \subseteq Callers

ClocksTyped ==
  /\ clock \in [Clocks -> Goroutine]
  /\ running \in [Sessions -> Clocks \cup {0}]
  /\ \A h \in Clocks : clock[h].at = "none" => clock[h] = NoClock
  /\ \A h \in Clocks : clock[h].at # "none" => clock[h].of \in Sessions

CallsTyped ==
  /\ call \in [Callers -> Command]
  /\ \A c \in Callers : call[c].at # "free" => call[c].session \in Sessions

Typed == RowsTyped /\ ClocksTyped /\ CallsTyped

\* The map holds clocks that go on, each at its session.
MapIsLive ==
  \A s \in Sessions : running[s] # 0 =>
    /\ clock[running[s]].of = s
    /\ Alive(running[s]) /\ ~clock[running[s]].cancelled

\* What a call has taken out of the map was started, and does not come back to it.
HeldIsOut ==
  \A c \in Callers : \A h \in call[c].held :
    clock[h].at # "none" /\ \A s \in Sessions : running[s] # h

\* Who is cancelled is waited for.
CancelledIsAwaited ==
  \A h \in Clocks : Alive(h) /\ clock[h].cancelled =>
    \E c \in Callers : h \in call[c].held /\ call[c].at = "waiting"

\* Only a cancelled fetch is cut short.
AbortedWasCancelled == \A h \in Clocks : clock[h].at = "aborted" => clock[h].cancelled

\* The process took its goroutines and its calls with it.
NobodyWhenDown ==
  phase = "down" =>
    (\A c \in Callers : call[c].at = "free") /\ \A h \in Clocks : ~Alive(h)

IInv ==
  /\ Typed /\ MapIsLive /\ HeldIsOut
  /\ NobodyLeftBehind /\ CancelledIsAwaited
  /\ AbortedWasCancelled /\ NoFalseOutage /\ NobodyWhenDown

-----------------------------------------------------------------------------
(* One call at a time, as the window gives them from its buttons. *)

OneCaller == \A c, d \in Callers : c = d

\* From the moment StopAll has emptied the map, nobody fills it.
QuitEmpties ==
  \A c \in Callers :
    call[c].op = "quit" /\ call[c].at \in {"taken", "waiting", "stopped"} =>
      \A s \in Sessions : running[s] = 0

NobodyWhenClosed ==
  phase = "closed" =>
    (\A c \in Callers : call[c].at = "free") /\ \A h \in Clocks : ~Alive(h)

SerialInv == IInv /\ QuitEmpties /\ NobodyWhenClosed

USE DEF Clocks, Versions

-----------------------------------------------------------------------------
(* A step of one call. *)

\* It goes on to another place.
LEMMA PlaceChanges ==
  ASSUME Typed, NEW c \in Callers, call[c].at # "free",
         NEW place \in Steps \ {"free"}, Goto(c, place)
  PROVE  /\ CallsTyped'
         /\ call'[c].at = place
         /\ call'[c].op = call[c].op /\ call'[c].held = call[c].held
         /\ call'[c].session = call[c].session
         /\ \A d \in Callers \ {c} : call'[d] = call[d]
BY DEF Typed, CallsTyped, Command, Goto, Steps

\* It returns.
LEMMA CallFinishes ==
  ASSUME Typed, NEW c \in Callers, Finish(c)
  PROVE  /\ CallsTyped'
         /\ call'[c].at = "free" /\ call'[c].held = {}
         /\ \A d \in Callers \ {c} : call'[d] = call[d]
<1>1. Free \in Command /\ Free.at = "free" /\ Free.held = {}
  BY PollClockBounds DEF Free, Command, Steps
<1> QED BY <1>1 DEF Typed, CallsTyped, Finish

\* The clocks of the map and of the other calls are none of its business.
LEMMA ClocksRest ==
  ASSUME IInv, UNCHANGED <<running, clock>>, NEW c \in Callers,
         \A d \in Callers \ {c} : call'[d] = call[d],
         call[c].at # "taken",
         call[c].at = "waiting" => \A h \in call[c].held : ~Alive(h),
         call'[c].held \subseteq call[c].held
  PROVE  /\ ClocksTyped' /\ MapIsLive' /\ HeldIsOut'
         /\ NobodyLeftBehind' /\ CancelledIsAwaited'
         /\ AbortedWasCancelled' /\ NoFalseOutage'
<1> USE DEF IInv, Alive
<1>1. ClocksTyped' /\ MapIsLive' /\ AbortedWasCancelled' /\ NoFalseOutage'
  BY DEF Typed, ClocksTyped, MapIsLive, AbortedWasCancelled, NoFalseOutage
<1>2. HeldIsOut'
  BY DEF HeldIsOut
<1>3. NobodyLeftBehind'
  BY DEF NobodyLeftBehind
<1>4. CancelledIsAwaited'
  BY DEF CancelledIsAwaited
<1> QED BY <1>1, <1>2, <1>3, <1>4

LEMMA BeginKeeps ==
  ASSUME IInv, NEW c \in Callers, Begin(c) PROVE IInv'
<1> USE DEF IInv
<1>1. /\ phase = "up" /\ UNCHANGED <<rows, phase, running, clock>>
      /\ call[c].at = "free"
  <2>1. call[c] = Free /\ phase = "up" /\ UNCHANGED <<rows, phase, running, clock>>
    BY DEF Begin
  <2> QED BY <2>1 DEF Free
<1>2. PICK op \in Ops, s \in Sessions :
        /\ call' = [call EXCEPT ![c] = [op |-> op, at |-> "begun", session |-> s, read |-> 0,
                                       held |-> {}]]
        /\ silenced' \subseteq silenced /\ unsure' \subseteq unsure \cup Callers
  BY DEF Begin
<1>3. CallsTyped'
  BY <1>2, PollClockBounds DEF Typed, CallsTyped, Command, Steps
<1>4. RowsTyped'
  BY <1>1, <1>2 DEF Typed, RowsTyped, rows
<1>5. call'[c].held = {} /\ \A d \in Callers \ {c} : call'[d] = call[d]
  BY <1>2 DEF Typed, CallsTyped
<1> QED BY <1>1, <1>3, <1>4, <1>5, ClocksRest DEF Typed, NobodyWhenDown

LEMMA FindSessionKeeps ==
  ASSUME IInv, NEW c \in Callers, FindSession(c) PROVE IInv'
<1> USE DEF IInv
<1>1. /\ call[c].at \in {"begun", "stopped"}
      /\ UNCHANGED <<rows, phase, running, clock, silenced, unsure>>
  BY DEF FindSession, At
<1>2. phase # "down"
  BY <1>1 DEF NobodyWhenDown
<1>3. CASE /\ call[c].session \in exists
           /\ call' = [call EXCEPT ![c].at = "found", ![c].read = conn[call[c].session]]
  <2>1. conn[call[c].session] \in Versions
    BY <1>3 DEF Typed, RowsTyped
  <2>2. /\ CallsTyped' /\ call'[c].held = call[c].held
        /\ \A d \in Callers \ {c} : call'[d] = call[d]
    BY ZenonT(30), <1>1, <1>3, <2>1 DEF Typed, CallsTyped, Command, Steps
  <2>3. RowsTyped'
    BY <1>1 DEF Typed, RowsTyped, rows
  <2> QED BY <1>1, <1>2, <2>2, <2>3, ClocksRest DEF Typed, NobodyWhenDown
<1>4. CASE Finish(c)
  <2>1. RowsTyped'
    BY <1>1 DEF Typed, RowsTyped, rows
  <2> QED BY <1>1, <1>2, <1>4, <2>1, CallFinishes, ClocksRest DEF Typed, NobodyWhenDown
<1> QED BY <1>3, <1>4 DEF FindSession

\* The steps that read or write the database, or look at the map.
LEMMA RowStepKeeps ==
  ASSUME IInv, NEW c \in Callers,
         \/ MarkActive(c) \/ UpdateConnection(c) \/ IsRunning(c)
         \/ MarkInactive(c) \/ DeleteSession(c) \/ CloseDatabase(c)
  PROVE  IInv'
<1> USE DEF IInv
<1>1. /\ call[c].at \in {"begun", "started", "written", "stopped", "delete"}
      /\ UNCHANGED <<running, clock>>
      /\ phase' \in {phase, "closed"}
  BY DEF MarkActive, UpdateConnection, IsRunning, MarkInactive, DeleteSession, CloseDatabase, At
<1>2. phase # "down"
  BY <1>1 DEF NobodyWhenDown
<1>3. Finish(c) \/ \E place \in {"written", "restart", "delete"} : Goto(c, place)
  BY DEF MarkActive, UpdateConnection, IsRunning, MarkInactive, DeleteSession, CloseDatabase
<1>4. /\ CallsTyped' /\ call'[c].held \subseteq call[c].held
      /\ \A d \in Callers \ {c} : call'[d] = call[d]
  BY <1>1, <1>3, PlaceChanges, CallFinishes DEF Steps
<1>5. RowsTyped'
  <2>1. call[c].session \in Sessions
    BY <1>1 DEF Typed, CallsTyped
  <2>2. conn' \in [Sessions -> Versions]
    BY <2>1 DEF Typed, RowsTyped, rows, MarkActive, UpdateConnection, IsRunning, MarkInactive,
       DeleteSession, CloseDatabase
  <2>3. active' \subseteq exists' /\ exists' \subseteq Sessions
    BY DEF Typed, RowsTyped, rows, MarkActive, UpdateConnection, IsRunning, MarkInactive,
       DeleteSession, CloseDatabase
  <2>4. silenced' \subseteq Sessions /\ unsure' = unsure
    BY <2>1 DEF Typed, RowsTyped, MarkActive, UpdateConnection, IsRunning, MarkInactive,
       DeleteSession, CloseDatabase
  <2> QED BY <1>1, <2>2, <2>3, <2>4 DEF Typed, RowsTyped
<1> QED BY <1>1, <1>2, <1>4, <1>5, ClocksRest DEF Typed, NobodyWhenDown

\* Nobody is left of those a call waited for.
LEMMA WaitKeeps ==
  ASSUME IInv, NEW c \in Callers, Wait(c) PROVE IInv'
<1> USE DEF IInv
<1>1. /\ call[c].at = "waiting" /\ \A h \in call[c].held : ~Alive(h)
      /\ Goto(c, "stopped") /\ UNCHANGED <<rows, phase, running, clock, silenced, unsure>>
  BY DEF Wait, Alive
<1>2. phase # "down"
  BY <1>1 DEF NobodyWhenDown
<1>3. RowsTyped'
  BY <1>1 DEF Typed, RowsTyped, rows
<1> QED BY <1>1, <1>2, <1>3, PlaceChanges, ClocksRest DEF Typed, NobodyWhenDown, Steps

\* A goroutine that was never started is nobody's.
LEMMA StartClockKeeps ==
  ASSUME IInv, NEW c \in Callers, StartClock(c) PROVE IInv'
<1> USE DEF IInv
<1> DEFINE s == call[c].session
<1>0. /\ call[c].at = "found" /\ UNCHANGED <<rows, phase, silenced, unsure>>
      /\ Launched(s, call[c].read)
  BY DEF StartClock
<1>1. phase # "down" /\ s \in Sessions /\ call[c].read \in Versions
  BY <1>0 DEF NobodyWhenDown, Typed, CallsTyped, Command
<1>2. Finish(c) \/ Goto(c, "started")
  BY DEF StartClock
<1>3. /\ CallsTyped' /\ call'[c].held \subseteq call[c].held
      /\ \A d \in Callers \ {c} : call'[d] = call[d]
  BY <1>0, <1>2, PlaceChanges, CallFinishes DEF Steps
<1>4. RowsTyped' /\ NobodyWhenDown'
  BY <1>0, <1>1 DEF Typed, RowsTyped, rows, NobodyWhenDown
<1>5. CASE running[s] # 0
  BY <1>0, <1>3, <1>4, <1>5, ClocksRest DEF Launched, Typed
<1>6. CASE running[s] = 0
  <2> DEFINE new == [of |-> s, with |-> call[c].read, at |-> "waiting", cancelled |-> FALSE]
  <2>1. PICK h \in Clocks :
          /\ clock[h] = NoClock
          /\ running' = [running EXCEPT ![s] = h]
          /\ clock' = [clock EXCEPT ![h] = new]
    BY <1>0, <1>6 DEF Launched, Unused
  <2>2. new \in Goroutine /\ new.of = s /\ new.at = "waiting" /\ ~new.cancelled
    BY <1>1 DEF Goroutine, Places
  <2> HIDE DEF new
  <2>3. clock[h].at = "none"
    BY <2>1 DEF NoClock
  <2>4. /\ clock'[h] = new /\ running'[s] = h
        /\ \A k \in Clocks \ {h} : clock'[k] = clock[k]
        /\ \A t \in Sessions \ {s} : running'[t] = running[t] /\ running[t] # h
    <3>1. clock'[h] = new /\ running'[s] = h
      BY <1>1, <2>1 DEF Typed, ClocksTyped
    <3>2. \A k \in Clocks \ {h} : clock'[k] = clock[k]
      BY <2>1 DEF Typed, ClocksTyped
    <3>3. \A t \in Sessions \ {s} : running'[t] = running[t] /\ running[t] # h
      BY <1>1, <2>1, <2>3 DEF Typed, ClocksTyped, MapIsLive, Alive
    <3> QED BY <3>1, <3>2, <3>3
  <2>5. ClocksTyped'
    BY <1>1, <2>1, <2>2, <2>4 DEF Typed, ClocksTyped
  <2>6. MapIsLive'
    BY <2>2, <2>4, <1>1 DEF MapIsLive, Alive, Typed, ClocksTyped
  <2>7. HeldIsOut'
    BY <1>1, <1>3, <2>2, <2>3, <2>4 DEF HeldIsOut, Typed, CallsTyped, Command
  <2>8. NobodyLeftBehind'
    <3> SUFFICES ASSUME NEW k \in Clocks, Alive(k)', ~clock'[k].cancelled
                 PROVE  \/ running'[clock'[k].of] = k
                        \/ \E d \in Callers : k \in call'[d].held /\ call'[d].at = "taken"
      BY DEF NobodyLeftBehind
    <3>1. CASE k = h
      BY <3>1, <2>2, <2>4
    <3>2. CASE k # h
      <4>1. clock'[k] = clock[k] /\ Alive(k) /\ ~clock[k].cancelled
        BY <3>2, <2>4 DEF Alive
      <4>2. clock[k].of \in Sessions
        BY <4>1 DEF Alive, Typed, ClocksTyped
      <4>3. CASE running[clock[k].of] = k
        BY <1>6, <4>1, <4>2, <4>3, <2>4
      <4>4. CASE \E d \in Callers : k \in call[d].held /\ call[d].at = "taken"
        BY <1>0, <1>3, <4>4
      <4> QED BY <4>1, <4>3, <4>4 DEF NobodyLeftBehind
    <3> QED BY <3>1, <3>2
  <2>9. CancelledIsAwaited'
    BY <1>0, <1>3, <2>2, <2>4 DEF CancelledIsAwaited, Alive
  <2>10. AbortedWasCancelled' /\ NoFalseOutage'
    BY <2>2, <2>4 DEF AbortedWasCancelled, NoFalseOutage
  <2> QED BY <1>3, <1>4, <2>5, <2>6, <2>7, <2>8, <2>9, <2>10 DEF Typed
<1> QED BY <1>5, <1>6

\* A handle is taken out of the map by who will cancel it.
LEMMA TakeHandleKeeps ==
  ASSUME IInv, NEW c \in Callers, TakeHandle(c) PROVE IInv'
<1> USE DEF IInv
<1> DEFINE s == call[c].session
           place == IF running[s] = 0 THEN "stopped" ELSE "taken"
           held == {running[s]} \ {0}
<1>0. /\ call[c].at \in {"begun", "restart"}
      /\ call' = [call EXCEPT ![c].at = place, ![c].held = held]
      /\ running' = [running EXCEPT ![s] = 0]
      /\ UNCHANGED <<rows, phase, clock, silenced, unsure>>
  BY DEF TakeHandle, StopStarts, At
<1>1. phase # "down" /\ s \in Sessions /\ running[s] \in Clocks \cup {0}
  BY <1>0 DEF NobodyWhenDown, Typed, CallsTyped, ClocksTyped
<1>2. held \subseteq Clocks /\ place \in Steps
  BY <1>1 DEF Steps
<1> HIDE DEF held, place
<1>3. /\ CallsTyped' /\ call'[c].at = place /\ call'[c].held = held
      /\ \A d \in Callers \ {c} : call'[d] = call[d]
  BY ZenonT(30), <1>0, <1>2 DEF Typed, CallsTyped, Command, Steps
<1> USE DEF held, place
<1>4. RowsTyped' /\ NobodyWhenDown'
  BY <1>0, <1>1 DEF Typed, RowsTyped, rows, NobodyWhenDown
<1>5. /\ running'[s] = 0 /\ \A t \in Sessions \ {s} : running'[t] = running[t]
      /\ running' \in [Sessions -> Clocks \cup {0}]
  BY <1>0, <1>1 DEF Typed, ClocksTyped
<1>6. ClocksTyped' /\ AbortedWasCancelled' /\ NoFalseOutage'
  BY <1>0, <1>5 DEF Typed, ClocksTyped, AbortedWasCancelled, NoFalseOutage
<1>7. MapIsLive'
  BY <1>0, <1>5 DEF MapIsLive, Alive
<1>8. HeldIsOut'
  <2> SUFFICES ASSUME NEW d \in Callers, NEW h \in call'[d].held
               PROVE  clock[h].at # "none" /\ \A t \in Sessions : running'[t] # h
    BY <1>0 DEF HeldIsOut
  <2>1. CASE d = c
    <3>1. h = running[s] /\ h # 0
      BY <1>3, <2>1
    <3>2. clock[h].of = s /\ clock[h].at # "none"
      BY <1>1, <3>1 DEF MapIsLive, Alive
    <3>3. \A t \in Sessions \ {s} : running[t] # h
      BY <3>1, <3>2 DEF MapIsLive
    <3> QED BY <3>1, <3>2, <3>3, <1>5
  <2>2. CASE d # c
    BY <1>1, <1>3, <1>5, <2>2 DEF HeldIsOut, Typed, CallsTyped, Command
  <2> QED BY <2>1, <2>2
<1>9. NobodyLeftBehind'
  <2> SUFFICES ASSUME NEW k \in Clocks, Alive(k)', ~clock'[k].cancelled
               PROVE  \/ running'[clock'[k].of] = k
                      \/ \E d \in Callers : k \in call'[d].held /\ call'[d].at = "taken"
    BY DEF NobodyLeftBehind
  <2>1. Alive(k) /\ ~clock[k].cancelled /\ clock'[k] = clock[k] /\ clock[k].of \in Sessions
    BY <1>0 DEF Alive, Typed, ClocksTyped
  <2>2. CASE running[clock[k].of] = k /\ clock[k].of = s
    <3>1. k \in held /\ place = "taken"
      BY <2>2
    <3> QED BY <3>1, <1>3
  <2>3. CASE running[clock[k].of] = k /\ clock[k].of # s
    BY <1>5, <2>1, <2>3
  <2>4. CASE \E d \in Callers : k \in call[d].held /\ call[d].at = "taken"
    BY <1>0, <1>3, <2>4
  <2> QED BY <2>1, <2>2, <2>3, <2>4 DEF NobodyLeftBehind
<1>10. CancelledIsAwaited'
  BY ZenonT(30), <1>0, <1>3 DEF CancelledIsAwaited, Alive
<1> QED BY <1>3, <1>4, <1>6, <1>7, <1>8, <1>9, <1>10 DEF Typed

\* StopAll takes them all.
LEMMA TakeAllHandlesKeeps ==
  ASSUME IInv, NEW c \in Callers, TakeAllHandles(c) PROVE IInv'
<1> USE DEF IInv
<1> DEFINE held == {running[s] : s \in Sessions} \ {0}
<1>0. /\ call[c].at = "begun"
      /\ call' = [call EXCEPT ![c].at = "taken", ![c].held = held]
      /\ running' = [s \in Sessions |-> 0]
      /\ UNCHANGED <<rows, phase, clock, silenced, unsure>>
  BY DEF TakeAllHandles, At
<1>1. phase # "down"
  BY <1>0 DEF NobodyWhenDown
<1>2. held \subseteq Clocks /\ \A s \in Sessions : running[s] # 0 => running[s] \in held
  BY DEF Typed, ClocksTyped
<1>a. \A h \in held : clock[h].at # "none"
  BY DEF MapIsLive, Alive
<1> HIDE DEF held
<1>3. /\ CallsTyped' /\ call'[c].at = "taken" /\ call'[c].held = held
      /\ \A d \in Callers \ {c} : call'[d] = call[d]
  BY <1>0, <1>2 DEF Typed, CallsTyped, Command, Steps
<1>4. RowsTyped' /\ NobodyWhenDown'
  BY <1>0, <1>1 DEF Typed, RowsTyped, rows, NobodyWhenDown
<1>5. ClocksTyped' /\ AbortedWasCancelled' /\ NoFalseOutage' /\ MapIsLive'
  BY <1>0 DEF Typed, ClocksTyped, AbortedWasCancelled, NoFalseOutage, MapIsLive
<1>6. HeldIsOut'
  BY <1>0, <1>a, <1>2, <1>3 DEF HeldIsOut, Typed, CallsTyped, Command
<1>7. NobodyLeftBehind'
  <2> SUFFICES ASSUME NEW k \in Clocks, Alive(k)', ~clock'[k].cancelled
               PROVE  \E d \in Callers : k \in call'[d].held /\ call'[d].at = "taken"
    BY DEF NobodyLeftBehind
  <2>1. Alive(k) /\ ~clock[k].cancelled /\ clock[k].of \in Sessions
    BY <1>0 DEF Alive, Typed, ClocksTyped
  <2>2. CASE running[clock[k].of] = k
    BY <1>2, <1>3, <2>1, <2>2
  <2>3. CASE \E d \in Callers : k \in call[d].held /\ call[d].at = "taken"
    BY <1>0, <1>3, <2>3
  <2> QED BY <2>1, <2>2, <2>3 DEF NobodyLeftBehind
<1>8. CancelledIsAwaited'
  BY <1>0, <1>3 DEF CancelledIsAwaited, Alive
<1> QED BY <1>3, <1>4, <1>5, <1>6, <1>7, <1>8 DEF Typed

\* What is taken is cancelled, and waited for from then on.
LEMMA CancelKeeps ==
  ASSUME IInv, NEW c \in Callers, Cancel(c) PROVE IInv'
<1> USE DEF IInv
<1>0. /\ call[c].at = "taken" /\ Goto(c, "waiting")
      /\ clock' = [h \in Clocks |-> IF h \in call[c].held
                                    THEN [clock[h] EXCEPT !.cancelled = TRUE] ELSE clock[h]]
      /\ UNCHANGED <<rows, phase, running, silenced, unsure>>
  BY DEF Cancel
<1>1. phase # "down"
  BY <1>0 DEF NobodyWhenDown
<1>2. /\ CallsTyped' /\ call'[c].at = "waiting" /\ call'[c].held = call[c].held
      /\ \A d \in Callers \ {c} : call'[d] = call[d]
  BY <1>0, PlaceChanges DEF Steps
<1>3. RowsTyped' /\ NobodyWhenDown'
  BY <1>0, <1>1 DEF Typed, RowsTyped, rows, NobodyWhenDown
<1>4. \A h \in Clocks :
        /\ clock'[h] \in Goroutine
        /\ clock'[h].of = clock[h].of /\ clock'[h].at = clock[h].at
        /\ h \in call[c].held => clock'[h].cancelled
        /\ h \notin call[c].held => clock'[h] = clock[h]
  BY <1>0 DEF Typed, ClocksTyped, Goroutine
<1>5. ClocksTyped'
  BY <1>0, <1>4 DEF Typed, ClocksTyped, HeldIsOut
<1>6. AbortedWasCancelled' /\ NoFalseOutage' /\ HeldIsOut'
  <2>1. AbortedWasCancelled' /\ NoFalseOutage'
    BY <1>4 DEF AbortedWasCancelled, NoFalseOutage
  <2>2. \A d \in Callers : call'[d].held = call[d].held /\ call[d].held \subseteq Clocks
    BY <1>2 DEF Typed, CallsTyped, Command
  <2>3. HeldIsOut'
    BY <1>0, <1>4, <2>2 DEF HeldIsOut
  <2> QED BY <2>1, <2>3
<1>7. MapIsLive'
  BY <1>0, <1>4 DEF MapIsLive, Alive, HeldIsOut, Typed, ClocksTyped
<1>8. NobodyLeftBehind'
  <2> SUFFICES ASSUME NEW k \in Clocks, Alive(k)', ~clock'[k].cancelled
               PROVE  \/ running'[clock'[k].of] = k
                      \/ \E d \in Callers : k \in call'[d].held /\ call'[d].at = "taken"
    BY DEF NobodyLeftBehind
  <2>1. k \notin call[c].held /\ clock'[k] = clock[k] /\ Alive(k)
    BY <1>4 DEF Alive
  <2>2. CASE running[clock[k].of] = k
    BY <1>0, <2>1, <2>2
  <2>3. CASE \E d \in Callers : k \in call[d].held /\ call[d].at = "taken"
    BY <1>2, <2>1, <2>3
  <2> QED BY <2>1, <2>2, <2>3 DEF NobodyLeftBehind
<1>9. CancelledIsAwaited'
  <2> SUFFICES ASSUME NEW k \in Clocks, Alive(k)', clock'[k].cancelled
               PROVE  \E d \in Callers : k \in call'[d].held /\ call'[d].at = "waiting"
    BY DEF CancelledIsAwaited
  <2>1. CASE k \in call[c].held
    BY <1>2, <2>1
  <2>2. CASE k \notin call[c].held
    <3>1. Alive(k) /\ clock[k].cancelled
      BY <1>4, <2>2 DEF Alive
    <3> QED BY <1>0, <1>2, <3>1 DEF CancelledIsAwaited
  <2> QED BY <2>1, <2>2
<1> QED BY <1>2, <1>3, <1>5, <1>6, <1>7, <1>8, <1>9 DEF Typed

-----------------------------------------------------------------------------
(* The goroutines and the process. *)

\* A goroutine goes on: it is where it was in the map and with who holds it.
LEMMA ClockSteps ==
  ASSUME IInv, NEW h \in Clocks, NEW from \in Places \ {"none", "done"},
         NEW to \in Places \ {"none"}, Step(h, from, to),
         to = "done" => clock[h].cancelled,
         to = "aborted" => clock[h].cancelled,
         to # "storing errors"
  PROVE  IInv'
<1> USE DEF IInv
<1>0. /\ clock[h].at = from /\ clock' = [clock EXCEPT ![h].at = to]
      /\ UNCHANGED <<rows, phase, running, call, silenced, unsure>>
  BY DEF Step
<1>1. phase # "down"
  BY <1>0 DEF NobodyWhenDown, Alive, Places
<1>2. \A k \in Clocks :
        /\ clock'[k] \in Goroutine
        /\ clock'[k].of = clock[k].of /\ clock'[k].cancelled = clock[k].cancelled
        /\ k # h => clock'[k] = clock[k]
        /\ k = h => clock'[k].at = to
  BY <1>0 DEF Typed, ClocksTyped, Goroutine, Places
<1>3. RowsTyped' /\ NobodyWhenDown' /\ CallsTyped'
  BY <1>0, <1>1 DEF Typed, RowsTyped, CallsTyped, rows, NobodyWhenDown
<1>4. ClocksTyped'
  BY <1>0, <1>2 DEF Typed, ClocksTyped, Places
<1>5. MapIsLive'
  <2> SUFFICES ASSUME NEW s \in Sessions, running[s] # 0
               PROVE  clock'[running[s]].of = s /\ Alive(running[s])' /\ ~clock'[running[s]].cancelled
    BY <1>0 DEF MapIsLive
  <2>1. running[s] \in Clocks
    BY DEF Typed, ClocksTyped
  <2>2. clock[running[s]].of = s /\ Alive(running[s]) /\ ~clock[running[s]].cancelled
    BY DEF MapIsLive
  <2> QED BY <1>2, <2>1, <2>2, <1>0 DEF Alive
<1>6. HeldIsOut'
  <2>1. \A k \in Clocks : clock'[k].at = "none" => clock[k].at = "none"
    BY <1>2
  <2>2. \A c \in Callers : call[c].held \subseteq Clocks
    BY DEF Typed, CallsTyped, Command
  <2> QED BY <1>0, <2>1, <2>2 DEF HeldIsOut
<1>7. \A k \in Clocks : Alive(k)' => Alive(k)
  BY <1>0, <1>2 DEF Alive
<1>8. NobodyLeftBehind'
  <2> SUFFICES ASSUME NEW k \in Clocks, Alive(k)', ~clock'[k].cancelled
               PROVE  \/ running'[clock'[k].of] = k
                      \/ \E c \in Callers : k \in call'[c].held /\ call'[c].at = "taken"
    BY DEF NobodyLeftBehind
  <2>1. Alive(k) /\ ~clock[k].cancelled /\ clock'[k].of = clock[k].of
    BY <1>2, <1>7
  <2> QED BY <1>0, <2>1 DEF NobodyLeftBehind
<1>9. CancelledIsAwaited'
  BY <1>0, <1>2, <1>7 DEF CancelledIsAwaited
<1>10. AbortedWasCancelled' /\ NoFalseOutage'
  BY <1>2 DEF AbortedWasCancelled, NoFalseOutage
<1> QED BY <1>3, <1>4, <1>5, <1>6, <1>8, <1>9, <1>10 DEF Typed

\* A round never stores what it was cut short with.
LEMMA RoundKeeps ==
  ASSUME IInv, NEW h \in Clocks, Round(h) \/ SeeCancelled(h) PROVE IInv'
<1>1. CASE Tick(h) \/ Check(h) \/ FetchReturns(h) \/ Panic(h) \/ SeeCancelled(h)
  BY <1>1, ClockSteps DEF Tick, Check, FetchReturns, Panic, SeeCancelled, Places
<1>2. CASE CheckAgain(h)
  <2>1. clock[h].at = "aborted" => clock[h].cancelled
    BY DEF IInv, AbortedWasCancelled
  <2>2. PICK from \in {"answered", "aborted"} :
          \/ clock[h].cancelled /\ Step(h, from, "waiting")
          \/ /\ ~clock[h].cancelled
             /\ Step(h, from, IF from = "answered" THEN "storing" ELSE "storing errors")
    BY <1>2 DEF CheckAgain
  <2>3. clock[h].at = from
    BY <2>2 DEF Step
  <2>4. \/ Step(h, from, "waiting")
        \/ from = "answered" /\ Step(h, from, "storing")
    BY <2>1, <2>2, <2>3
  <2> QED BY <2>4, ClockSteps DEF Places
<1>3. CASE Stored(h)
  BY <1>3, ClockSteps DEF Stored, Places
<1> QED BY <1>1, <1>2, <1>3 DEF Round

LEMMA DieKeeps == ASSUME IInv, Die PROVE IInv'
<1> USE DEF IInv
<1>0. /\ phase' = "down" /\ running' = [s \in Sessions |-> 0]
      /\ clock' = [h \in Clocks |-> IF Alive(h) THEN [clock[h] EXCEPT !.at = "done"] ELSE clock[h]]
      /\ call' = [c \in Callers |-> Free]
      /\ UNCHANGED <<rows, silenced, unsure>>
  BY DEF Die
<1>1. \A h \in Clocks :
        /\ clock'[h] \in Goroutine /\ clock'[h].at \in {"none", "done"}
        /\ clock'[h].of = clock[h].of
        /\ clock'[h].at = "none" => clock'[h] = clock[h]
        /\ clock[h].at = "none" => clock'[h].at = "none"
  BY <1>0 DEF Typed, ClocksTyped, Goroutine, Places, Alive
<1>2. Free \in Command /\ Free.at = "free" /\ Free.held = {}
  BY PollClockBounds DEF Free, Command, Steps
<1>3. RowsTyped' /\ CallsTyped'
  BY <1>0, <1>2 DEF Typed, RowsTyped, CallsTyped, rows
<1>4. ClocksTyped'
  BY <1>0, <1>1 DEF Typed, ClocksTyped
<1>5. MapIsLive' /\ HeldIsOut'
  BY <1>0, <1>2 DEF MapIsLive, HeldIsOut
<1>6. \A h \in Clocks : ~Alive(h)'
  BY <1>1 DEF Alive
<1>7. NobodyLeftBehind' /\ CancelledIsAwaited' /\ AbortedWasCancelled' /\ NoFalseOutage'
  BY <1>1, <1>6 DEF NobodyLeftBehind, CancelledIsAwaited, AbortedWasCancelled, NoFalseOutage
<1>8. NobodyWhenDown'
  BY <1>0, <1>2, <1>6 DEF NobodyWhenDown
<1> QED BY <1>3, <1>4, <1>5, <1>7, <1>8 DEF Typed

\* The process comes back with a clock of its own for each session it resumes.
LEMMA ResumeKeeps == ASSUME IInv, Resume PROVE IInv'
<1> USE DEF IInv
<1> DEFINE unused == {h \in Clocks : clock[h] = NoClock}
           started(s) == [of |-> s, with |-> conn[s], at |-> "waiting", cancelled |-> FALSE]
<1>0. phase = "down" /\ phase' = "up" /\ UNCHANGED <<rows, call, silenced, unsure>>
  BY DEF Resume
<1>1. PICK S \in {active, {}} : \E start \in [S -> unused] :
        /\ \A s, t \in S : start[s] = start[t] => s = t
        /\ running' = [s \in Sessions |-> IF s \in S THEN start[s] ELSE 0]
        /\ clock' = [h \in Clocks |->
             IF \E s \in S : start[s] = h THEN started(CHOOSE s \in S : start[s] = h)
             ELSE clock[h]]
  BY DEF Resume
<1>2. PICK start \in [S -> unused] :
        /\ \A s, t \in S : start[s] = start[t] => s = t
        /\ running' = [s \in Sessions |-> IF s \in S THEN start[s] ELSE 0]
        /\ clock' = [h \in Clocks |->
             IF \E s \in S : start[s] = h THEN started(CHOOSE s \in S : start[s] = h)
             ELSE clock[h]]
  BY <1>1
<1>3. S \subseteq Sessions /\ \A s \in S : conn[s] \in Versions
  BY <1>1 DEF Typed, RowsTyped
<1>4. \A s \in S : start[s] \in Clocks /\ clock[start[s]].at = "none"
  BY <1>2 DEF NoClock
<1>5. \A s \in S : (CHOOSE t \in S : start[t] = start[s]) = s
  BY <1>2
<1>6. \A s \in S : clock'[start[s]] = started(s)
  BY <1>2, <1>4, <1>5
<1>7. \A h \in Clocks : (\A s \in S : start[s] # h) => clock'[h] = clock[h]
  BY <1>2
<1>8. \A s \in S : /\ started(s) \in Goroutine /\ started(s).of = s
                   /\ started(s).at = "waiting" /\ ~started(s).cancelled
  BY <1>3 DEF Goroutine, Places
<1> HIDE DEF started, unused
<1>9. \A s \in Sessions : running'[s] = IF s \in S THEN start[s] ELSE 0
  BY <1>2
<1>10. RowsTyped' /\ CallsTyped' /\ NobodyWhenDown'
  BY <1>0 DEF Typed, RowsTyped, CallsTyped, rows, NobodyWhenDown
<1>11. ClocksTyped'
  <2>1. running' \in [Sessions -> Clocks \cup {0}]
    BY <1>2, <1>3, <1>4
  <2>2. \A h \in Clocks : clock'[h] \in Goroutine
    BY <1>6, <1>7, <1>8 DEF Typed, ClocksTyped
  <2>3. clock' \in [Clocks -> Goroutine]
    BY <1>2, <2>2
  <2>4. \A h \in Clocks : /\ clock'[h].at = "none" => clock'[h] = NoClock
                          /\ clock'[h].at # "none" => clock'[h].of \in Sessions
    BY <1>3, <1>6, <1>7, <1>8 DEF Typed, ClocksTyped
  <2> QED BY <2>1, <2>3, <2>4 DEF ClocksTyped
<1>12. MapIsLive'
  BY <1>4, <1>6, <1>8, <1>9 DEF MapIsLive, Alive
<1>13. HeldIsOut'
  <2> SUFFICES ASSUME NEW c \in Callers, NEW h \in call[c].held
               PROVE  clock'[h].at # "none" /\ \A s \in Sessions : running'[s] # h
    BY <1>0 DEF HeldIsOut
  <2>1. h \in Clocks /\ clock[h].at # "none"
    BY DEF HeldIsOut, Typed, CallsTyped, Command
  <2>2. \A s \in S : start[s] # h
    BY <1>4, <2>1
  <2> QED BY <1>7, <1>9, <2>1, <2>2
<1>14. \A h \in Clocks : Alive(h)' => \E s \in S : start[s] = h
  BY <1>0, <1>7 DEF NobodyWhenDown, Alive
<1>15. NobodyLeftBehind' /\ CancelledIsAwaited'
  BY <1>3, <1>6, <1>8, <1>9, <1>14 DEF NobodyLeftBehind, CancelledIsAwaited
<1>16. AbortedWasCancelled' /\ NoFalseOutage'
  <2>1. \A h \in Clocks : clock'[h] = clock[h] \/ clock'[h].at = "waiting"
    BY <1>6, <1>7, <1>8
  <2> QED BY <2>1 DEF AbortedWasCancelled, NoFalseOutage
<1> QED BY <1>10, <1>11, <1>12, <1>13, <1>15, <1>16 DEF Typed

-----------------------------------------------------------------------------
(* The theorems. *)

LEMMA InitHolds == Init => IInv
<1> SUFFICES ASSUME Init PROVE IInv
  OBVIOUS
<1>1. \A c \in Callers : call[c] = Free /\ call[c].at = "free" /\ call[c].held = {}
  BY DEF Init, Free
<1>2. \A h \in Clocks : clock[h] = NoClock /\ clock[h].at = "none" /\ ~clock[h].cancelled
  BY DEF Init, NoClock
<1>3. NoClock \in Goroutine /\ Free \in Command
  BY PollClockBounds DEF NoClock, Free, Goroutine, Command, Places, Steps
<1>4. RowsTyped /\ phase = "up" /\ \A s \in Sessions : running[s] = 0
  BY PollClockBounds DEF Init, RowsTyped
<1>5. ClocksTyped
  BY <1>2, <1>3 DEF Init, ClocksTyped
<1>6. CallsTyped
  BY <1>1, <1>3 DEF Init, CallsTyped
<1>7. MapIsLive /\ HeldIsOut
  BY <1>1, <1>4 DEF MapIsLive, HeldIsOut
<1>8. NobodyLeftBehind /\ CancelledIsAwaited /\ AbortedWasCancelled /\ NoFalseOutage
  BY <1>2 DEF NobodyLeftBehind, CancelledIsAwaited, AbortedWasCancelled, NoFalseOutage, Alive
<1>9. NobodyWhenDown
  BY <1>4 DEF NobodyWhenDown
<1> QED BY <1>4, <1>5, <1>6, <1>7, <1>8, <1>9 DEF IInv, Typed

LEMMA StepKeeps == IInv /\ [Next]_vars => IInv'
<1> SUFFICES ASSUME IInv, [Next]_vars PROVE IInv'
  OBVIOUS
<1>1. ASSUME NEW c \in Callers, Begin(c) \/ CallStep(c) PROVE IInv'
  BY <1>1, BeginKeeps, FindSessionKeeps, StartClockKeeps, RowStepKeeps, TakeHandleKeeps,
     TakeAllHandlesKeeps, CancelKeeps, WaitKeeps DEF CallStep
<1>2. ASSUME NEW h \in Clocks, Round(h) \/ SeeCancelled(h) PROVE IInv'
  BY <1>2, RoundKeeps
<1>3. CASE UNCHANGED vars
  <2>1. UNCHANGED <<exists, active, conn, phase, running, clock, call, silenced, unsure>>
    BY <1>3 DEF vars, rows
  <2>2. RowsTyped' /\ ClocksTyped' /\ CallsTyped' /\ MapIsLive' /\ HeldIsOut'
    BY <2>1 DEF IInv, Typed, RowsTyped, ClocksTyped, CallsTyped, MapIsLive, HeldIsOut, Alive
  <2>3. NobodyLeftBehind' /\ CancelledIsAwaited' /\ AbortedWasCancelled' /\ NoFalseOutage'
    BY <2>1 DEF IInv, NobodyLeftBehind, CancelledIsAwaited, AbortedWasCancelled, NoFalseOutage, Alive
  <2>4. NobodyWhenDown'
    BY <2>1 DEF IInv, NobodyWhenDown, Alive
  <2> QED BY <2>2, <2>3, <2>4 DEF IInv, Typed
<1> QED BY <1>1, <1>2, <1>3, DieKeeps, ResumeKeeps DEF Next

LEMMA Inductive == Spec => []IInv
BY InitHolds, StepKeeps, PTL DEF Spec

\* The rows, the map, the goroutines and the calls keep their types
\* (scheduler.go:107-127).
THEOREM TypeCorrect == Spec => []TypeOK
<1>1. IInv => TypeOK
  <2> SUFFICES ASSUME IInv PROVE TypeOK
    OBVIOUS
  <2>1. \A h \in Clocks :
          clock[h] # NoClock => clock[h].of \in Sessions /\ clock[h].with \in Versions
    BY DEF IInv, Typed, ClocksTyped, Goroutine
  <2>2. \A c \in Callers : call[c].held \subseteq Clocks /\ call[c].read \in Versions
    BY DEF IInv, Typed, CallsTyped, Command
  <2> QED BY <2>1, <2>2 DEF IInv, Typed, RowsTyped, ClocksTyped, TypeOK
<1> QED BY <1>1, Inductive, PTL

\* A clock that is not cancelled is the one of its session in the map, or a call is
\* about to cancel it: no two starts give a session two clocks
\* (scheduler.go:132-133).
THEOREM NoStrayClock == Spec => []NobodyLeftBehind
<1>1. IInv => NobodyLeftBehind
  BY DEF IInv
<1> QED BY <1>1, Inductive, PTL

\* What a fetch says that Stop cut short is not stored (scheduler.go:317-324).
THEOREM StopIsNoOutage == Spec => []NoFalseOutage
<1>1. IInv => NoFalseOutage
  BY DEF IInv
<1> QED BY <1>1, Inductive, PTL

-----------------------------------------------------------------------------
(* One call at a time. *)

\* StopAll takes the clocks, and its call alone is under way.
LEMMA QuitKeepsEmpty ==
  ASSUME OneCaller, SerialInv, [Next]_vars PROVE QuitEmpties'
<1> USE DEF SerialInv
<1>0. IInv'
  BY StepKeeps
<1> DEFINE emptied == {"taken", "waiting", "stopped"}
<1> SUFFICES ASSUME NEW c \in Callers, call'[c].op = "quit", call'[c].at \in emptied
             PROVE  \A s \in Sessions : running'[s] = 0
  BY DEF QuitEmpties
<1>1. \A d \in Callers : d = c
  BY DEF OneCaller
<1>2. call[c] \in Command /\ call \in [Callers -> Command]
  BY DEF IInv, Typed, CallsTyped
<1>3. CASE Begin(c)
  <2>1. call'[c].at = "begun"
    BY <1>2, <1>3 DEF Begin
  <2> QED BY <2>1
<1>4. CASE FindSession(c) \/ StartClock(c)
  <2>1. call'[c].at \in {"found", "started", "free"}
    BY <1>2, <1>4, CallFinishes DEF FindSession, StartClock, Goto, IInv, Command
  <2> QED BY <2>1
<1>5. CASE \/ MarkActive(c) \/ UpdateConnection(c) \/ IsRunning(c)
           \/ MarkInactive(c) \/ DeleteSession(c) \/ CloseDatabase(c)
  <2>1. call'[c].at \in {"written", "restart", "delete", "free"}
    BY <1>2, <1>5, CallFinishes DEF MarkActive, UpdateConnection, IsRunning, MarkInactive,
       DeleteSession, CloseDatabase, Goto, IInv, Command
  <2> QED BY <2>1
<1>6. CASE TakeHandle(c)
  <2>1. call[c].op # "quit" /\ call'[c].op = call[c].op
    BY <1>2, <1>6 DEF TakeHandle, StopStarts, At, Command
  <2> QED BY <2>1
<1>7. CASE TakeAllHandles(c)
  BY <1>7 DEF TakeAllHandles
<1>8. CASE Cancel(c) \/ Wait(c)
  <2>1. call[c].op = call'[c].op /\ call[c].at \in emptied /\ running' = running
    BY <1>2, <1>8 DEF Cancel, Wait, Goto, Command
  <2> QED BY <2>1 DEF QuitEmpties
<1>9. ASSUME NEW h \in Clocks, Round(h) \/ SeeCancelled(h)
      PROVE  \A s \in Sessions : running'[s] = 0
  <2>1. call' = call /\ running' = running
    BY <1>9 DEF Round, SeeCancelled, Tick, Check, FetchReturns, CheckAgain, Stored, Panic, Step
  <2> QED BY <2>1 DEF QuitEmpties
<1>10. CASE Die
  BY <1>10 DEF Die
<1>11. CASE Resume
  <2>1. call' = call /\ call[c].at = "free"
    BY <1>11 DEF Resume, IInv, NobodyWhenDown
  <2> QED BY <2>1
<1>12. CASE UNCHANGED vars
  <2>1. call' = call /\ running' = running
    BY <1>12 DEF vars
  <2> QED BY <2>1 DEF QuitEmpties
<1>13. CASE \E d \in Callers : Begin(d) \/ CallStep(d)
  <2>1. Begin(c) \/ CallStep(c)
    BY <1>1, <1>13
  <2> QED BY <2>1, <1>3, <1>4, <1>5, <1>6, <1>7, <1>8 DEF CallStep
<1> QED BY <1>9, <1>10, <1>11, <1>12, <1>13 DEF Next

\* The database is closed over a map that is empty and goroutines that are done.
LEMMA CloseKeepsNobody ==
  ASSUME OneCaller, SerialInv, [Next]_vars PROVE NobodyWhenClosed'
<1> USE DEF SerialInv
<1> SUFFICES ASSUME phase' = "closed"
             PROVE  (\A c \in Callers : call'[c].at = "free") /\ \A h \in Clocks : ~Alive(h)'
  BY DEF NobodyWhenClosed
<1>1. ASSUME NEW c \in Callers, CloseDatabase(c)
      PROVE  (\A d \in Callers : call'[d].at = "free") /\ \A h \in Clocks : ~Alive(h)'
  <2>1. /\ call[c].op = "quit" /\ call[c].at = "stopped" /\ Finish(c)
        /\ clock' = clock
    BY <1>1 DEF CloseDatabase, At
  <2>2. call'[c].at = "free" /\ \A d \in Callers : d = c
    BY <2>1, CallFinishes DEF IInv, OneCaller
  <2>3. \A s \in Sessions : running[s] = 0
    BY <2>1 DEF QuitEmpties
  <2>4. ASSUME NEW h \in Clocks, Alive(h) PROVE FALSE
    <3>1. clock[h].of \in Sessions /\ h # 0
      BY <2>4 DEF IInv, Typed, ClocksTyped, Alive
    <3>2. CASE clock[h].cancelled
      BY <2>1, <2>2, <2>4, <3>2 DEF IInv, CancelledIsAwaited
    <3>3. CASE ~clock[h].cancelled
      BY <2>1, <2>2, <2>3, <2>4, <3>1, <3>3 DEF IInv, NobodyLeftBehind
    <3> QED BY <3>2, <3>3
  <2> QED BY <2>1, <2>2, <2>4 DEF Alive
<1>2. ASSUME NEW c \in Callers, Begin(c) \/ CallStep(c), ~CloseDatabase(c) PROVE FALSE
  <2>1. phase' = phase
    BY <1>2 DEF Begin, CallStep, FindSession, StartClock, MarkActive, UpdateConnection, IsRunning,
       TakeHandle, TakeAllHandles, Cancel, Wait, MarkInactive, DeleteSession
  <2>2. call[c].at = "free"
    BY <2>1 DEF NobodyWhenClosed
  <2> QED BY <1>2, <2>1, <2>2 DEF Begin, CallStep, FindSession, StartClock, MarkActive,
        UpdateConnection, IsRunning, TakeHandle, TakeAllHandles, Cancel, Wait, MarkInactive,
        DeleteSession, StopStarts, At
<1>3. ASSUME NEW h \in Clocks, Round(h) \/ SeeCancelled(h) PROVE FALSE
  <2>1. PICK from \in Places \ {"none", "done"}, to \in Places : Step(h, from, to)
    BY <1>3 DEF Round, SeeCancelled, Tick, Check, FetchReturns, CheckAgain, Stored, Panic, Places
  <2>2. phase' = phase /\ Alive(h)
    BY <2>1 DEF Step, Alive
  <2> QED BY <2>2 DEF NobodyWhenClosed
<1>4. CASE Die \/ Resume
  BY <1>4 DEF Die, Resume
<1>5. CASE UNCHANGED vars
  <2>1. phase' = phase /\ call' = call /\ clock' = clock
    BY <1>5 DEF vars
  <2> QED BY <2>1 DEF NobodyWhenClosed, Alive
<1> QED BY <1>1, <1>2, <1>3, <1>4, <1>5 DEF Next

\* With one call at a time, nothing is stored once the database is closed: "a caller
\* that stops then closes the database cannot race the final write"
\* (scheduler.go:409-410).  A MonitorStart that overlaps the shutdown can.
THEOREM NoFinalWrite == OneCaller => (Spec => []NothingStoredAfterClose)
<1> SUFFICES ASSUME OneCaller PROVE Spec => []NothingStoredAfterClose
  OBVIOUS
<1>1. Init => SerialInv
  <2> SUFFICES ASSUME Init PROVE SerialInv
    OBVIOUS
  <2>1. \A c \in Callers : call[c].op = "none"
    BY DEF Init, Free
  <2> QED BY <2>1, InitHolds DEF SerialInv, QuitEmpties, NobodyWhenClosed, Init
<1>2. SerialInv /\ [Next]_vars => SerialInv'
  BY StepKeeps, QuitKeepsEmpty, CloseKeepsNobody DEF SerialInv
<1>3. SerialInv => NothingStoredAfterClose
  BY DEF SerialInv, NobodyWhenClosed, NothingStoredAfterClose, Alive
<1> QED BY <1>1, <1>2, <1>3, PTL DEF Spec
=============================================================================
