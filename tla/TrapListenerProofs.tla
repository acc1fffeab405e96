------------------------- MODULE TrapListenerProofs -------------------------
(***************************************************************************)
(* The promises of the trap listener, for any number of callers, users and *)
(* notifications and every order of their steps.                           *)
(*                                                                         *)
(* What carries them is the lock: who is past it in a command holds it, so *)
(* the field, the stage of the goroutine and the users agree with each     *)
(* other whenever a command looks at them.                                 *)
(***************************************************************************)
EXTENDS TrapListener, FiniteSetTheorems, TLAPS

Command == [op : {"none", "start", "stop", "update", "login"},
            users : SUBSET Users, listener : 0..starts,
            at : {"idle", "lock", "stop", "wait", "closing", "unwind", "restart", "save"}]

Trap == [message : Messages \cup {NoMessage}, inform : BOOLEAN, recorded : BOOLEAN]

ClientTyped ==
  /\ trapLife \in Callers \cup {NoCaller} /\ trapListener \in 0..starts
  /\ trapUsers \subseteq Usable /\ stored \subseteq Usable /\ granted \subseteq Usable

ListenersTyped ==
  /\ stage \in [Listeners -> {"none", "starting", "serving", "returned", "cleared", "over"}]
  /\ users \in [Listeners -> SUBSET Usable]
  /\ socket \in [Listeners -> BOOLEAN] /\ finish \in [Listeners -> BOOLEAN]
  /\ closed \in [Listeners -> BOOLEAN] /\ bound \in [Listeners -> BOOLEAN]
  /\ waiting \in [Listeners -> BOOLEAN]
  /\ handling \in [Listeners -> Trap]

CallsTyped == call \in [Callers -> Command]

BoundsTyped ==
  /\ starts \in Nat /\ calls \in 0..MaxCalls
  /\ arrivals \in 0..MaxArrivals /\ mishaps \in 0..MaxMishaps

LedgerTyped ==
  /\ journalled \subseteq Messages /\ acknowledged \subseteq Informs /\ panicked \subseteq Messages

\* The commands that may start a listener yet, or have not done what they came for.
Settled == {"idle", "save"}
Pending == {c \in Callers : call[c].at \notin Settled}

\* Each listener was started by a command of its own.
OneEach == IsFiniteSet(Pending) /\ starts + Cardinality(Pending) <= calls

\* Who is past the lock holds it.
PastLock == {"stop", "wait", "closing", "unwind", "restart"}
Holder ==
  /\ \A c \in Callers : call[c].at \in PastLock <=> trapLife = c
  /\ \A c \in Callers : call[c].at \in {"stop", "restart"} => call[c].op = "update"
  /\ \A c \in Callers : call[c].at \in {"wait", "closing", "unwind"} =>
       call[c].listener \in Listeners

\* The field names the listener whose goroutine has not cleared it.
FieldIsTheListener ==
  \A l \in Listeners :
    trapListener = l <=> stage[l] \in {"starting", "serving", "returned"}

\* A close comes after the socket.
CloseTakes == \A l \in Listeners : (bound[l] => socket[l]) /\ (finish[l] => closed[l])

\* What the listener hears is what the last command that succeeded asked for.
Heard == trapListener # 0 => trapUsers = granted /\ users[trapListener] = granted

\* An INFORM whose handler has returned was journalled, or its handler panicked.
Recorded ==
  \A l \in Listeners : handling[l] # NoTrap =>
    /\ handling[l].message \in Messages
    /\ handling[l].inform => handling[l].message \in Informs
    /\ handling[l].recorded /\ handling[l].inform =>
         handling[l].message \in journalled \cup panicked

Typed == ClientTyped /\ ListenersTyped /\ CallsTyped /\ BoundsTyped /\ LedgerTyped

IInv ==
  /\ Typed /\ OneEach /\ Holder
  /\ FieldIsTheListener /\ CloseTakes /\ Heard
  /\ Recorded /\ AcknowledgedIsJournalled

USE DEF Listeners

-----------------------------------------------------------------------------
(* The commands and the listeners they may start. *)

\* A command that goes from pending to pending, or from settled to settled, leaves
\* room for as many starts.
LEMMA RoomStays ==
  ASSUME Typed, OneEach, NEW c \in Callers,
         \A d \in Callers \ {c} : call'[d] = call[d],
         call'[c].at \in Settled <=> call[c].at \in Settled,
         UNCHANGED <<starts, calls>>
  PROVE  OneEach'
<1>1. Pending' = Pending
  BY DEF Pending
<1> QED BY <1>1 DEF OneEach

\* A command that has been given its turn may start one listener, and no more.
LEMMA RoomUsed ==
  ASSUME Typed, OneEach, NEW c \in Callers,
         \A d \in Callers \ {c} : call'[d] = call[d],
         call[c].at \notin Settled, call'[c].at \in Settled,
         starts' \in {starts, starts + 1}, calls' = calls
  PROVE  OneEach' /\ starts + 1 <= calls
<1>1. Pending' = Pending \ {c} /\ c \in Pending
  BY DEF Pending
<1>2. IsFiniteSet(Pending') /\ Cardinality(Pending') = Cardinality(Pending) - 1
  BY <1>1, FS_RemoveElement DEF OneEach
<1>3. Cardinality(Pending) \in Nat /\ Cardinality(Pending') \in Nat
  BY <1>2, FS_CardinalityType DEF OneEach
<1> QED BY <1>2, <1>3 DEF OneEach, Typed, BoundsTyped

\* A command that begins brings the room for its listener.
LEMMA RoomMade ==
  ASSUME Typed, OneEach, NEW c \in Callers,
         \A d \in Callers \ {c} : call'[d] = call[d],
         call[c].at \in Settled, call'[c].at \notin Settled,
         starts' = starts, calls' = calls + 1
  PROVE  OneEach'
<1>1. Pending' = Pending \cup {c} /\ c \notin Pending
  BY DEF Pending
<1>2. IsFiniteSet(Pending') /\ Cardinality(Pending') = Cardinality(Pending) + 1
  BY <1>1, FS_AddElement DEF OneEach
<1>3. Cardinality(Pending) \in Nat
  BY FS_CardinalityType DEF OneEach
<1> QED BY <1>2, <1>3 DEF OneEach, Typed, BoundsTyped

\* There is room in Listeners for the next start of a pending command.
LEMMA NextIsAListener ==
  ASSUME Typed, OneEach, NEW c \in Callers, call[c].at \notin Settled
  PROVE  starts + 1 \in Listeners
<1>1. c \in Pending
  BY DEF Pending
<1>2. Cardinality(Pending) \in Nat /\ Cardinality(Pending) # 0
  BY <1>1, FS_CardinalityType, FS_EmptySet DEF OneEach
<1> QED BY <1>2, TrapListenerAssumption DEF OneEach, Typed, BoundsTyped

\* Nothing happens to the commands.
LEMMA CommandsRest ==
  ASSUME Typed, OneEach, Holder, UNCHANGED <<call, trapLife, starts, calls>>
  PROVE  OneEach' /\ Holder' /\ CallsTyped'
<1>1. Pending' = Pending /\ CallsTyped'
  BY DEF Pending, Typed, CallsTyped, Command
<1> QED BY <1>1 DEF OneEach, Holder

-----------------------------------------------------------------------------
(* The goroutines of a listener. *)

\* The stages of the goroutine: the field is cleared as the listener is let go.
LEMMA StageKeeps ==
  ASSUME IInv, NEW l \in Listeners,
         Bind(l) \/ BindFails(l) \/ ListenReturns(l) \/ Clear(l) \/ Done(l) \/ Helper(l)
  PROVE  IInv'
<1> USE DEF IInv, Typed, Set
<1>0. UNCHANGED <<call, trapLife, trapUsers, stored, starts, calls, arrivals, granted, users, finish, closed,
                  handling, journalled, acknowledged, panicked>>
  BY DEF Bind, BindFails, ListenReturns, Clear, Done, Helper, bounds, client, ledger, Spend
<1>1. OneEach' /\ Holder' /\ CallsTyped'
  BY <1>0, CommandsRest
<1>2. LedgerTyped' /\ AcknowledgedIsJournalled' /\ Recorded'
  BY <1>0 DEF LedgerTyped, AcknowledgedIsJournalled, Recorded
<1>3. BoundsTyped'
  BY <1>0, TrapListenerAssumption DEF BoundsTyped, Bind, BindFails, ListenReturns, Clear, Done, Helper, bounds, Spend
<1>4. ClientTyped' /\ trapListener' \in {trapListener, 0}
  BY <1>0 DEF ClientTyped, BoundsTyped, Bind, BindFails, ListenReturns, Clear, Done, Helper, client
<1>5. ListenersTyped'
  BY <1>0 DEF ListenersTyped, Bind, BindFails, ListenReturns, Clear, Done, Helper
<1>6. CloseTakes'
  BY <1>0 DEF CloseTakes, ListenersTyped, Bind, BindFails, ListenReturns, Clear, Done, Helper
<1>7. FieldIsTheListener'
  <2>1. CASE Clear(l)
    <3>1. /\ stage' = [stage EXCEPT ![l] = "cleared"] /\ stage[l] = "returned"
          /\ trapListener' = IF trapListener = l THEN 0 ELSE trapListener
      BY <2>1 DEF Clear
    <3>2. trapListener = l /\ trapListener' = 0
      BY <3>1 DEF FieldIsTheListener
    <3> QED BY <3>1, <3>2 DEF FieldIsTheListener, ListenersTyped
  <2>2. CASE ~Clear(l)
    <3>1. trapListener' = trapListener
      BY <2>2 DEF Bind, BindFails, ListenReturns, Done, Helper, client
    <3>2. \A k \in Listeners : stage'[k] \in {"starting", "serving", "returned"} <=>
                               stage[k] \in {"starting", "serving", "returned"}
      BY <2>2 DEF Bind, BindFails, ListenReturns, Done, Helper, ListenersTyped
    <3> QED BY <3>1, <3>2 DEF FieldIsTheListener
  <2> QED BY <2>1, <2>2
<1>8. Heard'
  BY <1>0, <1>4 DEF Heard
<1> QED BY <1>1, <1>2, <1>3, <1>4, <1>5, <1>6, <1>7, <1>8

\* A notification: what the handler does to it before the library looks at it.
LEMMA NotificationKeeps ==
  ASSUME IInv, NEW l \in Listeners,
         Handle(l) \/ Reply(l) \/ \E m \in Messages : Receive(l, m)
  PROVE  IInv'
<1> USE DEF IInv, Typed, Set
<1>0. UNCHANGED <<call, client, stage, users, socket, finish, closed, bound, waiting, stored, starts, calls,
                  granted>>
  BY DEF Handle, Reply, Receive, bounds, Spend
<1>1. OneEach' /\ Holder' /\ CallsTyped'
  BY <1>0, CommandsRest DEF client
<1>2. ClientTyped' /\ FieldIsTheListener' /\ CloseTakes' /\ Heard'
  BY <1>0 DEF client, ClientTyped, FieldIsTheListener, CloseTakes, Heard
<1>3. BoundsTyped'
  BY <1>0, TrapListenerAssumption DEF BoundsTyped, Handle, Reply, Receive, bounds, Spend
<1>4. handling \in [Listeners -> Trap] /\ NoTrap.recorded = FALSE
  BY DEF ListenersTyped, NoTrap
<1>5. ListenersTyped' /\ LedgerTyped' /\ Recorded' /\ AcknowledgedIsJournalled'
  <2>1. CASE Reply(l)
    <3>1. handling[l] # NoTrap /\ handling' = [handling EXCEPT ![l] = NoTrap]
          /\ UNCHANGED <<journalled, panicked>>
      BY <2>1, <1>4 DEF Reply
    <3>2. acknowledged' \subseteq acknowledged \cup
             (IF handling[l].inform THEN {handling[l].message} ELSE {})
      BY <2>1 DEF Reply
    <3>3. ListenersTyped'
      BY <3>1, <1>0 DEF ListenersTyped, NoTrap, Trap
    <3>4. Recorded'
      BY <3>1, <1>4 DEF Recorded
    <3>5. LedgerTyped' /\ AcknowledgedIsJournalled'
      BY <3>1, <3>2, <2>1 DEF LedgerTyped, AcknowledgedIsJournalled, Recorded, Reply
    <3> QED BY <3>3, <3>4, <3>5
  <2>2. CASE Handle(l)
    <3>1. handling[l] \in Trap /\ handling[l].message \in Messages /\ ~handling[l].recorded
      BY <2>2, <1>4 DEF Handle, Recorded
    <3>2. PICK h \in {[handling[l] EXCEPT !.recorded = TRUE], Declined(handling[l])} :
            /\ handling' = [handling EXCEPT ![l] = h]
            /\ h.inform => handling[l].message \in journalled' \cup panicked'
      BY <2>2, <3>1, <1>4 DEF Handle, Declined, Trap
    <3>3. /\ h \in Trap /\ h.message = handling[l].message
          /\ h.inform => handling[l].inform
      BY <3>1 DEF Declined, Trap
    <3>4. /\ journalled \subseteq journalled' /\ panicked \subseteq panicked'
          /\ journalled' \subseteq Messages /\ panicked' \subseteq Messages
          /\ acknowledged' = acknowledged
      BY <2>2, <3>1 DEF Handle, LedgerTyped
    <3>5. ListenersTyped'
      BY <3>2, <3>3, <1>0 DEF ListenersTyped
    <3>6. Recorded'
      <4> SUFFICES ASSUME NEW k \in Listeners, handling'[k] # NoTrap
                   PROVE /\ handling'[k].message \in Messages
                         /\ handling'[k].inform => handling'[k].message \in Informs
                         /\ handling'[k].recorded /\ handling'[k].inform =>
                               handling'[k].message \in journalled' \cup panicked'
        BY DEF Recorded
      <4>1. CASE k = l
        <5>1. handling'[k] = h /\ handling[l] # NoTrap
          BY <4>1, <3>2, <1>4, <2>2 DEF Handle
        <5>2. handling[l].inform => handling[l].message \in Informs
          BY <5>1 DEF Recorded
        <5> QED BY <5>1, <5>2, <3>1, <3>2, <3>3
      <4>2. CASE k # l
        <5>1. handling'[k] = handling[k]
          BY <4>2, <3>2, <1>4
        <5> QED BY <5>1, <3>4 DEF Recorded
      <4> QED BY <4>1, <4>2
    <3> QED BY <3>4, <3>5, <3>6 DEF LedgerTyped, AcknowledgedIsJournalled
  <2>3. CASE \E m \in Messages : Receive(l, m)
    <3>1. PICK m \in Messages : Receive(l, m)
      BY <2>3
    <3>2. /\ handling' = [handling EXCEPT ![l] =
                            [message |-> m, inform |-> m \in Informs, recorded |-> FALSE]]
          /\ UNCHANGED ledger
      BY <3>1 DEF Receive
    <3>3. ListenersTyped'
      BY <3>2, <1>0 DEF ListenersTyped, Trap
    <3>4. Recorded'
      BY <3>2, <1>4 DEF Recorded, ledger
    <3> QED BY <3>2, <3>3, <3>4 DEF LedgerTyped, AcknowledgedIsJournalled, ledger
  <2> QED BY <2>1, <2>2, <2>3
<1> QED BY <1>1, <1>2, <1>3, <1>5

-----------------------------------------------------------------------------
(* The steps of a command. *)

\* One command changes, and what it is now is a command.
LEMMA CallChanges ==
  ASSUME Typed, NEW c \in Callers, NEW r, Set(call, c, r), r \in Command',
         starts' \in {starts, starts + 1}
  PROVE  /\ CallsTyped' /\ call'[c] = r
         /\ \A d \in Callers \ {c} : call'[d] = call[d]
<1>1. \A r2 \in Command : r2 \in Command'
  BY DEF Typed, BoundsTyped, Command
<1> QED BY <1>1 DEF Typed, CallsTyped, Set

\* Going on within a command changes its place alone.
LEMMA PlaceChanges ==
  ASSUME Typed, NEW c \in Callers,
         NEW place \in {"wait", "closing", "unwind", "restart", "stop", "save"},
         Goto(c, place), starts' \in {starts, starts + 1}
  PROVE  /\ CallsTyped'
         /\ call'[c] = [call[c] EXCEPT !.at = place] /\ call'[c].at = place
         /\ call'[c].op = call[c].op /\ call'[c].listener = call[c].listener
         /\ \A d \in Callers \ {c} : call'[d] = call[d]
<1>1. call[c] \in Command
  BY DEF Typed, CallsTyped
<1>2. Set(call, c, [call[c] EXCEPT !.at = place])
  BY <1>1 DEF Goto, Set
<1>3. [call[c] EXCEPT !.at = place] \in Command'
  BY <1>1 DEF Command, Typed, BoundsTyped
<1>4. /\ [call[c] EXCEPT !.at = place].at = place
      /\ [call[c] EXCEPT !.at = place].op = call[c].op
      /\ [call[c] EXCEPT !.at = place].listener = call[c].listener
  BY <1>1 DEF Command
<1> QED BY <1>2, <1>3, <1>4, CallChanges

LEMMA CallFinishes ==
  ASSUME Typed, NEW c \in Callers, Finish(c), starts' \in {starts, starts + 1}
  PROVE  /\ CallsTyped' /\ call'[c] = Idle /\ call'[c].at = "idle"
         /\ \A d \in Callers \ {c} : call'[d] = call[d]
<1>1. Idle \in Command' /\ Idle.at = "idle"
  BY DEF Idle, Command, Typed, BoundsTyped
<1> QED BY <1>1, CallChanges DEF Finish

\* The lock passes between nobody and this command, or stays.
LEMMA LockPasses ==
  ASSUME Typed, Holder, NEW c \in Callers,
         \A d \in Callers \ {c} : call'[d] = call[d],
         trapLife' = trapLife \/ {trapLife, trapLife'} \subseteq {NoCaller, c},
         call'[c].at \in PastLock <=> trapLife' = c,
         call'[c].at \in {"stop", "restart"} => call'[c].op = "update",
         call'[c].at \in {"wait", "closing", "unwind"} => call'[c].listener \in Listeners
  PROVE  Holder'
BY TrapListenerAssumption DEF Holder, Typed, ClientTyped

\* Nothing happens to the notifications, nor to the listeners.
LEMMA NotificationsRest ==
  ASSUME IInv, UNCHANGED <<handling, ledger>>
  PROVE  LedgerTyped' /\ Recorded' /\ AcknowledgedIsJournalled'
BY DEF IInv, Typed, LedgerTyped, Recorded, AcknowledgedIsJournalled, ledger

LEMMA ListenersRest ==
  ASSUME IInv, UNCHANGED <<listener, trapListener, trapUsers>>,
         granted' = granted \/ trapListener = 0 \/ granted' = trapUsers
  PROVE  ListenersTyped' /\ FieldIsTheListener' /\ CloseTakes' /\ Heard'
BY DEF IInv, Typed, ListenersTyped, Trap, FieldIsTheListener, CloseTakes, Heard, listener

\* A command that succeeds is over, or has its users yet to remember.
LEMMA SuccessSettles ==
  ASSUME Typed, NEW c \in Callers, Succeed(c), starts' \in {starts, starts + 1}
  PROVE  /\ CallsTyped' /\ call'[c].at \in Settled
         /\ granted' = Accepted(c) /\ granted' \subseteq Usable
         /\ \A d \in Callers \ {c} : call'[d] = call[d]
BY PlaceChanges, CallFinishes DEF Succeed, Accepted, Settled

\* The new listener is the one the field names.
LEMMA NewListener ==
  ASSUME IInv, NEW c \in Callers, starts + 1 \in Listeners, trapListener = 0,
         StartListener(c), granted' = Accepted(c), UNCHANGED stored
  PROVE  ListenersTyped' /\ FieldIsTheListener' /\ CloseTakes' /\ Heard'
<1> DEFINE l == starts + 1
<1>0. /\ trapListener' = l /\ trapUsers' = Accepted(c)
      /\ stage' = [stage EXCEPT ![l] = "starting"]
      /\ users' = [users EXCEPT ![l] = Accepted(c)]
      /\ waiting' = [waiting EXCEPT ![l] = TRUE]
      /\ UNCHANGED <<socket, finish, closed, bound, handling>>
  BY DEF StartListener, Set
<1>1. Accepted(c) \subseteq Usable
  BY DEF Accepted
<1>2. ListenersTyped'
  BY <1>0, <1>1 DEF IInv, Typed, ListenersTyped, Trap
<1>3. FieldIsTheListener'
  BY <1>0 DEF IInv, Typed, ListenersTyped, FieldIsTheListener
<1>4. CloseTakes' /\ Heard'
  BY <1>0 DEF IInv, Typed, ListenersTyped, CloseTakes, Heard
<1> QED BY <1>2, <1>3, <1>4

LEMMA BeginKeeps ==
  ASSUME IInv, NEW c \in Callers, Begin(c) PROVE IInv'
<1> USE DEF IInv
<1>a. UNCHANGED <<client, listener, stored, starts, arrivals, mishaps, granted, ledger>>
  BY DEF Begin
<1>b. calls' = calls + 1 /\ calls < MaxCalls
  BY DEF Begin
<1>c. call[c].at = "idle"
  <2>1. call[c] = Idle
    BY DEF Begin
  <2> QED BY <2>1 DEF Idle
<1>0. UNCHANGED <<client, listener, stored, starts, arrivals, mishaps, granted, ledger>>
      /\ calls' = calls + 1 /\ calls < MaxCalls /\ call[c].at = "idle"
  BY <1>a, <1>b, <1>c
<1>1. PICK r : Set(call, c, r) /\ r \in Command' /\ r.at = "lock"
  <2>1. stored \in SUBSET Users
    BY TrapListenerAssumption DEF Typed, ClientTyped
  <2> Idle \in Command'
    BY <1>0 DEF Idle, Command, Typed, BoundsTyped
  <2>2. \A op \in {"start", "update", "login"}, U \in SUBSET Users :
          LET r == [Idle EXCEPT !.op = op, !.users = U, !.at = "lock"]
          IN  r \in Command' /\ r.at = "lock"
    BY DEF Command
  <2>3. LET r == [Idle EXCEPT !.op = "stop", !.at = "lock"]
        IN  r \in Command' /\ r.at = "lock"
    BY DEF Command
  <2> QED BY <2>1, <2>2, <2>3 DEF Begin
<1>2. CallsTyped' /\ call'[c].at = "lock" /\ \A d \in Callers \ {c} : call'[d] = call[d]
  BY <1>0, <1>1, CallChanges
<1>3. OneEach'
  BY <1>0, <1>2, RoomMade DEF Settled
<1>4. Holder'
  BY <1>0, <1>2, LockPasses DEF Holder, PastLock, client
<1>5. ClientTyped' /\ BoundsTyped'
  BY <1>0, TrapListenerAssumption DEF Typed, ClientTyped, BoundsTyped, client
<1> QED BY <1>0, <1>2, <1>3, <1>4, <1>5, ListenersRest, NotificationsRest DEF Typed, client, listener

\* The commands that wait for the lock: a start, an update that finds nothing to
\* restart, one that does, and a stop.
LEMMA StartKeeps ==
  ASSUME IInv, NEW c \in Callers, Start(c) PROVE IInv'
<1> USE DEF IInv
<1>0. /\ call[c].at = "lock" /\ trapLife = NoCaller
      /\ UNCHANGED <<trapLife, stored, calls, arrivals, mishaps, ledger>>
  BY DEF Start
<1>1. starts + 1 \in Listeners /\ starts \in Nat
  BY <1>0, NextIsAListener DEF Settled, Typed, BoundsTyped
<1>2. CASE trapListener = 0
  <2>1. StartListener(c) /\ Succeed(c)
    BY <1>2 DEF Start
  <2>2. starts' = starts + 1 /\ trapListener' = starts' /\ trapUsers' = Accepted(c)
        /\ UNCHANGED handling
    BY <2>1 DEF StartListener
  <2>3. /\ CallsTyped' /\ call'[c].at \in Settled
        /\ granted' = Accepted(c) /\ granted' \subseteq Usable
        /\ \A d \in Callers \ {c} : call'[d] = call[d]
    BY <2>1, <2>2, SuccessSettles
  <2>4. OneEach' /\ starts + 1 <= calls
    BY <1>0, <2>2, <2>3, RoomUsed DEF Settled
  <2>5. ListenersTyped' /\ FieldIsTheListener' /\ CloseTakes' /\ Heard'
    BY <1>0, <1>1, <1>2, <2>1, <2>3, NewListener
  <2>6. Holder'
    BY <1>0, <2>3, LockPasses, TrapListenerAssumption DEF Settled, PastLock
  <2>7. ClientTyped' /\ BoundsTyped'
    BY <1>0, <1>1, <2>2, <2>3, <2>4 DEF Typed, ClientTyped, BoundsTyped
  <2> QED BY <1>0, <2>2, <2>3, <2>4, <2>5, <2>6, <2>7, NotificationsRest DEF Typed
<1>3. CASE trapListener # 0
  <2>1. Finish(c) /\ UNCHANGED <<trapListener, trapUsers, listener, starts, granted>>
    BY <1>3 DEF Start
  <2>2. CallsTyped' /\ call'[c].at = "idle" /\ \A d \in Callers \ {c} : call'[d] = call[d]
    BY <2>1, CallFinishes
  <2>3. OneEach'
    BY <1>0, <2>1, <2>2, RoomUsed DEF Settled
  <2>4. Holder'
    BY <1>0, <2>2, LockPasses, TrapListenerAssumption DEF PastLock
  <2>5. ClientTyped' /\ BoundsTyped'
    BY <1>0, <2>1 DEF Typed, ClientTyped, BoundsTyped
  <2> QED BY <1>0, <2>1, <2>2, <2>3, <2>4, <2>5, ListenersRest, NotificationsRest
        DEF Typed, listener
<1> QED BY <1>2, <1>3

LEMMA UpdateOnlyKeeps ==
  ASSUME IInv, NEW c \in Callers, UpdateOnly(c) PROVE IInv'
<1> USE DEF IInv
<1>0. /\ call[c].at = "lock" /\ trapLife = NoCaller /\ Succeed(c)
      /\ trapListener = 0 \/ Accepted(c) = trapUsers
      /\ UNCHANGED <<client, listener, stored, bounds, ledger>>
  BY DEF UpdateOnly, SameUsers
<1>1. /\ CallsTyped' /\ call'[c].at \in Settled
      /\ granted' = Accepted(c) /\ granted' \subseteq Usable
      /\ \A d \in Callers \ {c} : call'[d] = call[d]
  BY <1>0, SuccessSettles DEF bounds
<1>2. OneEach'
  BY <1>0, <1>1, RoomUsed DEF Settled, bounds
<1>3. Holder'
  BY <1>0, <1>1, LockPasses, TrapListenerAssumption DEF Settled, PastLock, client
<1>4. ClientTyped' /\ BoundsTyped'
  BY <1>0, <1>1 DEF Typed, ClientTyped, BoundsTyped, client, bounds
<1> QED BY <1>0, <1>1, <1>2, <1>3, <1>4, ListenersRest, NotificationsRest
      DEF Typed, client, listener

LEMMA RestartListenerKeeps ==
  ASSUME IInv, NEW c \in Callers, RestartListener(c) PROVE IInv'
<1> USE DEF IInv
<1>0. /\ call[c].at = "lock" /\ call[c].op = "update" /\ trapLife = NoCaller
      /\ trapLife' = c /\ Goto(c, "stop")
      /\ UNCHANGED <<trapListener, trapUsers, listener, stored, bounds, granted, ledger>>
  BY DEF RestartListener
<1>1. /\ CallsTyped' /\ call'[c].at = "stop" /\ call'[c].op = "update"
      /\ \A d \in Callers \ {c} : call'[d] = call[d]
  BY <1>0, PlaceChanges DEF bounds
<1>2. OneEach'
  BY <1>0, <1>1, RoomStays DEF Settled, bounds
<1>3. Holder'
  BY <1>0, <1>1, LockPasses DEF PastLock
<1>4. ClientTyped' /\ BoundsTyped'
  BY <1>0 DEF Typed, ClientTyped, BoundsTyped, bounds
<1> QED BY <1>0, <1>1, <1>2, <1>3, <1>4, ListenersRest, NotificationsRest DEF Typed, listener

\* Where a stop leads keeps the discipline of the lock, with nothing started.
LEMMA StoppedSteps ==
  ASSUME Typed, OneEach, Holder, NEW c \in Callers, Stopped(c),
         trapLife = c \/ (trapLife = NoCaller /\ call[c].at = "lock" /\ call[c].op = "stop"),
         UNCHANGED <<starts, calls>>
  PROVE  CallsTyped' /\ OneEach' /\ Holder' /\ trapLife' \in Callers \cup {NoCaller}
<1>1. call[c].at \notin Settled
  BY DEF Holder, PastLock, Settled
<1>2. CASE call[c].op = "update"
  <2>1. Goto(c, "restart") /\ trapLife' = trapLife /\ trapLife = c
    BY <1>2 DEF Stopped
  <2>2. /\ CallsTyped' /\ call'[c].at = "restart" /\ call'[c].op = "update"
        /\ \A d \in Callers \ {c} : call'[d] = call[d]
    BY <1>2, <2>1, PlaceChanges
  <2>3. OneEach'
    BY <1>1, <2>2, RoomStays DEF Settled
  <2> QED BY <2>1, <2>2, <2>3, LockPasses DEF PastLock
<1>3. CASE call[c].op # "update"
  <2>1. Finish(c) /\ trapLife' = NoCaller
    BY <1>3 DEF Stopped
  <2>2. CallsTyped' /\ call'[c].at = "idle" /\ \A d \in Callers \ {c} : call'[d] = call[d]
    BY <2>1, CallFinishes
  <2>3. OneEach'
    BY <1>1, <2>2, RoomUsed DEF Settled
  <2> QED BY <2>1, <2>2, <2>3, LockPasses, TrapListenerAssumption DEF PastLock
<1> QED BY <1>2, <1>3

LEMMA StopListenerKeeps ==
  ASSUME IInv, NEW c \in Callers, StopListener(c) PROVE IInv'
<1> USE DEF IInv
<1>0. /\ \/ call[c].at = "lock" /\ call[c].op = "stop" /\ trapLife = NoCaller
         \/ call[c].at = "stop" /\ trapLife = c
      /\ UNCHANGED <<trapListener, trapUsers, listener, stored, bounds, granted, ledger>>
  BY DEF StopListener, Holder, PastLock
<1>1. CallsTyped' /\ OneEach' /\ Holder' /\ trapLife' \in Callers \cup {NoCaller}
  <2>1. CASE trapListener = 0
    <3>1. Stopped(c)
      BY <2>1 DEF StopListener
    <3> QED BY <1>0, <3>1, StoppedSteps DEF bounds
  <2>2. CASE trapListener # 0
    <3> DEFINE r == [call[c] EXCEPT !.at = "wait", !.listener = trapListener]
    <3>1. Set(call, c, r) /\ trapLife' = c
      BY <2>2 DEF StopListener
    <3>2. r \in Command /\ r.at = "wait" /\ r.listener = trapListener
      BY DEF Typed, CallsTyped, ClientTyped, Command
    <3>3. CallsTyped' /\ call'[c] = r /\ \A d \in Callers \ {c} : call'[d] = call[d]
      <4>1. Command' = Command
        BY <1>0 DEF Command, bounds
      <4> HIDE DEF r
      <4> QED BY <1>0, <3>1, <3>2, <4>1, CallChanges DEF bounds
    <3>4. trapListener \in Listeners
      <4>1. Cardinality(Pending) \in Nat
        BY FS_CardinalityType DEF OneEach
      <4> QED BY <4>1, <2>2, TrapListenerAssumption DEF OneEach, Typed, ClientTyped, BoundsTyped
    <3>5. OneEach'
      BY <1>0, <3>2, <3>3, RoomStays DEF Settled, bounds
    <3>6. Holder'
      BY <1>0, <3>1, <3>2, <3>3, <3>4, LockPasses DEF PastLock
    <3> QED BY <3>1, <3>3, <3>5, <3>6
  <2> QED BY <2>1, <2>2
<1>2. ClientTyped' /\ BoundsTyped'
  BY <1>0, <1>1 DEF Typed, ClientTyped, BoundsTyped, bounds
<1> QED BY <1>0, <1>1, <1>2, ListenersRest, NotificationsRest DEF Typed, listener

LEMMA AwaitBoundKeeps ==
  ASSUME IInv, NEW c \in Callers, AwaitBound(c) PROVE IInv'
<1> USE DEF IInv
<1> DEFINE l == call[c].listener
<1>0. /\ call[c].at = "wait" /\ trapLife = c /\ l \in Listeners
      /\ UNCHANGED <<trapListener, trapUsers, stage, users, socket, bound, waiting, handling,
                     stored, bounds, granted, ledger>>
  BY DEF AwaitBound, Holder, PastLock
<1>1. CASE bound[l] /\ Close(l) /\ Goto(c, "closing") /\ UNCHANGED trapLife
  <2>1. /\ CallsTyped' /\ call'[c].at = "closing" /\ call'[c].listener = l
        /\ \A d \in Callers \ {c} : call'[d] = call[d]
    BY <1>0, <1>1, PlaceChanges DEF bounds
  <2>2. OneEach'
    BY <1>0, <2>1, RoomStays DEF Settled, bounds
  <2>3. Holder'
    BY <1>0, <1>1, <2>1, LockPasses DEF PastLock
  <2>4. /\ finish' = [finish EXCEPT ![l] = TRUE]
        /\ closed' = [closed EXCEPT ![l] = closed[l] \/ (~finish[l] /\ socket[l])]
    BY <1>1 DEF Close, Set
  <2>5. ListenersTyped'
    BY <1>0, <2>4 DEF Typed, ListenersTyped, Trap
  <2>6. CloseTakes'
    BY <1>0, <1>1, <2>4 DEF CloseTakes, Typed, ListenersTyped
  <2>7. FieldIsTheListener' /\ Heard'
    BY <1>0 DEF FieldIsTheListener, Heard
  <2>8. ClientTyped' /\ BoundsTyped'
    BY <1>0, <1>1 DEF Typed, ClientTyped, BoundsTyped, bounds
  <2> QED BY <1>0, <2>1, <2>2, <2>3, <2>5, <2>6, <2>7, <2>8, NotificationsRest DEF Typed
<1>2. CASE Stopped(c) /\ UNCHANGED <<finish, closed>>
  <2>1. CallsTyped' /\ OneEach' /\ Holder' /\ trapLife' \in Callers \cup {NoCaller}
    BY <1>0, <1>2, StoppedSteps DEF bounds
  <2>2. ClientTyped' /\ BoundsTyped'
    BY <1>0, <2>1 DEF Typed, ClientTyped, BoundsTyped, bounds
  <2> QED BY <1>0, <1>2, <2>1, <2>2, ListenersRest, NotificationsRest DEF Typed, listener
<1> QED BY <1>1, <1>2 DEF AwaitBound

LEMMA CloseReturnsKeeps ==
  ASSUME IInv, NEW c \in Callers, CloseReturns(c) PROVE IInv'
<1> USE DEF IInv
<1>0. /\ call[c].at = "closing" /\ trapLife = c /\ call[c].listener \in Listeners
      /\ Goto(c, "unwind")
      /\ UNCHANGED <<client, listener, stored, bounds, granted, ledger>>
  BY DEF CloseReturns, Holder, PastLock
<1>1. /\ CallsTyped' /\ call'[c].at = "unwind" /\ call'[c].listener = call[c].listener
      /\ \A d \in Callers \ {c} : call'[d] = call[d]
  BY <1>0, PlaceChanges DEF bounds
<1>2. OneEach'
  BY <1>0, <1>1, RoomStays DEF Settled, bounds
<1>3. Holder'
  BY <1>0, <1>1, LockPasses DEF PastLock, client
<1>4. ClientTyped' /\ BoundsTyped'
  BY <1>0 DEF Typed, ClientTyped, BoundsTyped, bounds, client
<1> QED BY <1>0, <1>1, <1>2, <1>3, <1>4, ListenersRest, NotificationsRest
      DEF Typed, listener, client

LEMMA AwaitDoneKeeps ==
  ASSUME IInv, NEW c \in Callers, AwaitDone(c) PROVE IInv'
<1> USE DEF IInv
<1>0. /\ call[c].at = "unwind" /\ trapLife = c /\ Stopped(c)
      /\ mishaps' = mishaps \/ (mishaps > 0 /\ mishaps' = mishaps - 1)
      /\ UNCHANGED <<trapListener, trapUsers, listener, stored, starts, calls, arrivals, granted,
                     ledger>>
  BY DEF AwaitDone, Holder, PastLock, Spend
<1>1. CallsTyped' /\ OneEach' /\ Holder' /\ trapLife' \in Callers \cup {NoCaller}
  BY <1>0, StoppedSteps
<1>2. ClientTyped' /\ BoundsTyped'
  BY <1>0, <1>1, TrapListenerAssumption DEF Typed, ClientTyped, BoundsTyped
<1> QED BY <1>0, <1>1, <1>2, ListenersRest, NotificationsRest DEF Typed, listener

\* The start within a restart, by who still holds the lock.
LEMMA RestartKeeps ==
  ASSUME IInv, NEW c \in Callers, Restart(c) PROVE IInv'
<1> USE DEF IInv
<1>0. /\ call[c].at = "restart" /\ trapLife = c /\ trapLife' = NoCaller
      /\ UNCHANGED <<stored, calls, arrivals, mishaps, ledger>>
  BY DEF Restart, Holder, PastLock
<1>1. starts + 1 \in Listeners /\ starts \in Nat
  BY <1>0, NextIsAListener DEF Settled, Typed, BoundsTyped
<1>2. CASE trapListener = 0
  <2>1. StartListener(c) /\ Succeed(c)
    BY <1>2 DEF Restart
  <2>2. starts' = starts + 1 /\ trapListener' = starts' /\ trapUsers' = Accepted(c)
        /\ UNCHANGED handling
    BY <2>1 DEF StartListener
  <2>3. /\ CallsTyped' /\ call'[c].at \in Settled
        /\ granted' = Accepted(c) /\ granted' \subseteq Usable
        /\ \A d \in Callers \ {c} : call'[d] = call[d]
    BY <2>1, <2>2, SuccessSettles
  <2>4. OneEach' /\ starts + 1 <= calls
    BY <1>0, <2>2, <2>3, RoomUsed DEF Settled
  <2>5. ListenersTyped' /\ FieldIsTheListener' /\ CloseTakes' /\ Heard'
    BY <1>0, <1>1, <1>2, <2>1, <2>3, NewListener
  <2>6. Holder'
    BY <1>0, <2>3, LockPasses, TrapListenerAssumption DEF Settled, PastLock
  <2>7. ClientTyped' /\ BoundsTyped'
    BY <1>0, <1>1, <2>2, <2>3, <2>4 DEF Typed, ClientTyped, BoundsTyped
  <2> QED BY <1>0, <2>2, <2>3, <2>4, <2>5, <2>6, <2>7, NotificationsRest DEF Typed
<1>3. CASE trapListener # 0
  <2>1. Finish(c) /\ UNCHANGED <<trapListener, trapUsers, listener, starts, granted>>
    BY <1>3 DEF Restart
  <2>2. CallsTyped' /\ call'[c].at = "idle" /\ \A d \in Callers \ {c} : call'[d] = call[d]
    BY <2>1, CallFinishes
  <2>3. OneEach'
    BY <1>0, <2>1, <2>2, RoomUsed DEF Settled
  <2>4. Holder'
    BY <1>0, <2>2, LockPasses, TrapListenerAssumption DEF PastLock
  <2>5. ClientTyped' /\ BoundsTyped'
    BY <1>0, <2>1 DEF Typed, ClientTyped, BoundsTyped
  <2> QED BY <1>0, <2>1, <2>2, <2>3, <2>4, <2>5, ListenersRest, NotificationsRest
        DEF Typed, listener
<1> QED BY <1>2, <1>3

\* The users are remembered with the lock long released.
LEMMA SaveKeeps ==
  ASSUME IInv, NEW c \in Callers, Save(c) PROVE IInv'
<1> USE DEF IInv
<1>0. /\ call[c].at = "save" /\ Finish(c)
      /\ stored' \in {stored, Accepted(c)}
      /\ mishaps' = mishaps \/ (mishaps > 0 /\ mishaps' = mishaps - 1)
      /\ UNCHANGED <<client, listener, starts, calls, arrivals, granted, ledger>>
  BY DEF Save, Spend
<1>1. CallsTyped' /\ call'[c].at = "idle" /\ \A d \in Callers \ {c} : call'[d] = call[d]
  BY <1>0, CallFinishes
<1>2. OneEach'
  BY <1>0, <1>1, RoomStays DEF Settled
<1>3. Holder'
  BY <1>0, <1>1, LockPasses DEF Holder, PastLock, client
<1>4. ClientTyped' /\ BoundsTyped'
  BY <1>0, TrapListenerAssumption DEF Typed, ClientTyped, BoundsTyped, client, Accepted
<1> QED BY <1>0, <1>1, <1>2, <1>3, <1>4, ListenersRest, NotificationsRest
      DEF Typed, listener, client

-----------------------------------------------------------------------------
(* The theorems. *)

LEMMA InitHolds == Init => IInv
<1> SUFFICES ASSUME Init PROVE IInv
  OBVIOUS
<1>1. \A c \in Callers : call[c].at = "idle"
  BY DEF Init, Idle
<1>2. Pending = {}
  BY <1>1 DEF Pending, Settled
<1>3. OneEach
  BY <1>2, FS_EmptySet DEF OneEach, Init
<1>4. Holder
  BY <1>1, TrapListenerAssumption DEF Holder, PastLock, Init
<1>5. CallsTyped
  BY DEF CallsTyped, Command, Idle, Init
<1>6. ListenersTyped
  BY DEF ListenersTyped, Trap, NoTrap, Init
<1>7. ClientTyped /\ BoundsTyped /\ LedgerTyped
  BY TrapListenerAssumption DEF ClientTyped, BoundsTyped, LedgerTyped, Init
<1>8. FieldIsTheListener /\ CloseTakes /\ Heard
  BY DEF FieldIsTheListener, CloseTakes, Heard, Init
<1>9. Recorded /\ AcknowledgedIsJournalled
  BY DEF Recorded, AcknowledgedIsJournalled, Init
<1> QED BY <1>3, <1>4, <1>5, <1>6, <1>7, <1>8, <1>9 DEF IInv, Typed

LEMMA StepKeeps == IInv /\ [Next]_vars => IInv'
<1> SUFFICES ASSUME IInv, [Next]_vars PROVE IInv'
  OBVIOUS
<1>1. ASSUME NEW l \in Listeners,
             Listening(l) \/ Helper(l) \/ \E m \in Messages : Receive(l, m)
      PROVE  IInv'
  BY <1>1, StageKeeps, NotificationKeeps DEF Listening
<1>2. ASSUME NEW c \in Callers, Begin(c) \/ Lock(c) \/ Proceed(c) PROVE IInv'
  BY <1>2, BeginKeeps, StartKeeps, UpdateOnlyKeeps, RestartListenerKeeps, StopListenerKeeps,
     AwaitBoundKeeps, CloseReturnsKeeps, AwaitDoneKeeps, RestartKeeps, SaveKeeps
     DEF Lock, Proceed
<1>3. CASE UNCHANGED vars
  <2>1. /\ UNCHANGED <<trapLife, trapListener, trapUsers, listener, call, stored>>
        /\ UNCHANGED <<starts, calls, arrivals, mishaps, granted, ledger, handling>>
    BY <1>3 DEF vars, client, bounds, listener
  <2>2. ClientTyped' /\ BoundsTyped'
    BY <2>1 DEF IInv, Typed, ClientTyped, BoundsTyped
  <2> QED BY <2>1, <2>2, CommandsRest, ListenersRest, NotificationsRest DEF IInv, Typed
<1> QED BY <1>1, <1>2, <1>3 DEF Next

LEMMA Inductive == Spec => []IInv
BY InitHolds, StepKeeps, PTL DEF Spec

\* What the listener and the commands keep has its type; above all, no more
\* listeners are made than commands were given (trap.go:47-60).
THEOREM TypeCorrect == Spec => []TypeOK
<1>1. IInv => TypeOK
  <2> SUFFICES ASSUME IInv PROVE TypeOK
    OBVIOUS
  <2>1. Cardinality(Pending) \in Nat /\ starts <= calls
    BY FS_CardinalityType DEF IInv, OneEach, Typed, BoundsTyped
  <2> QED BY <2>1 DEF IInv, Typed, ClientTyped, ListenersTyped, CallsTyped, BoundsTyped,
            LedgerTyped, Command, Trap, TypeOK
<1> QED BY <1>1, Inductive, PTL

\* A listener that listens, or will, is the one the commands see, and its close is
\* not spent: "bound" is known before the library is closed (trap.go:195-228).
THEOREM CanBeStopped == Spec => []NeverStranded
<1>1. IInv => NeverStranded
  BY DEF IInv, FieldIsTheListener, CloseTakes, NeverStranded
<1> QED BY <1>1, Inductive, PTL

\* A user taken away is not heard once the command has returned: a restart that
\* could not stop the old listener leaves the users as they were (trap.go:256-275).
THEOREM NobodyElseIsHeard == Spec => []TakenAwayIsRefused
<1>1. IInv => TakenAwayIsRefused
  <2> SUFFICES ASSUME IInv, NEW l \in Listeners, stage[l] = "serving"
               PROVE  users[l] \subseteq granted
    BY DEF TakenAwayIsRefused
  <2>1. trapListener = l /\ trapListener # 0
    BY DEF IInv, FieldIsTheListener
  <2> QED BY <2>1 DEF IInv, Heard
<1> QED BY <1>1, Inductive, PTL

\* An INFORM that was acknowledged is in the journal, unless its handler panicked
\* (trap.go:362, 454-455).
THEOREM OnlyJournalledAcknowledged == Spec => []AcknowledgedIsJournalled
<1>1. IInv => AcknowledgedIsJournalled
  BY DEF IInv
<1> QED BY <1>1, Inductive, PTL
=============================================================================
