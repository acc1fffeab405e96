---------------------------- MODULE TrapListener ----------------------------
(***************************************************************************)
(* The trap listener (pkg/snmp/trap.go) and the commands that start it,    *)
(* stop it and change its SNMPv3 users (internal/app/trapusers.go).        *)
(*                                                                         *)
(* Each start makes a new listener of the SNMP library, with a goroutine   *)
(* that runs its Listen and a helper that waits for its socket.  Closing a *)
(* listener of the library works once, and only when it has its socket.    *)
(* Commands come from the window in any order; the notifications come from *)
(* the network, one at a time through the loop of the listener, and an     *)
(* INFORM is acknowledged when its handler has returned.                   *)
(*                                                                         *)
(* A listener is the number of its start.  A set of users stands for what  *)
(* newTrapSecurity makes of the profiles it is given.                      *)
(***************************************************************************)
EXTENDS Integers

CONSTANTS
  Callers,      \* the goroutines that run commands
  NoCaller,
  Users,        \* what a profile may be
  Usable,       \* those that are not refused
  Remembered,   \* the users in the secret store when the application starts
  Messages,     \* notifications, retransmissions included
  NoMessage,
  Informs,      \* those that ask for an acknowledgement
  From,         \* the user each authenticates as, or one that is no user (v1, v2c)
  MaxCalls,     \* bound: commands, each of which starts at most one listener
  MaxArrivals,  \* bound: notifications that are received
  Mishaps,      \* what may go wrong, of the kinds below
  MaxMishaps    \* bound: how often, all together

Listeners == 1..MaxCalls

ASSUME TrapListenerAssumption ==
  /\ NoCaller \notin Callers /\ NoMessage \notin Messages
  /\ Remembered \subseteq Usable /\ Usable \subseteq Users /\ Informs \subseteq Messages
  /\ DOMAIN From = Messages
  /\ MaxCalls \in Nat /\ MaxArrivals \in Nat /\ MaxMishaps \in Nat
  \* the port cannot be bound, the journal refuses a write, the handler panics, the
  \* two seconds of trapStopGrace elapse, the secret store refuses a write
  /\ Mishaps \subseteq {"bind", "journal", "panic", "grace", "store"}

VARIABLES
  \* Client
  trapLife,      \* who holds the lock of the life cycle
  trapListener,  \* the listener, 0 when nil
  trapUsers,
  \* of each listener
  stage,    \* of its goroutine: "none", "starting", "serving", "returned", "cleared", "over"
  users,    \* whom it hears
  socket,   \* it was bound, and Listening() has had its value
  finish,   \* Close has been called on it
  closed,   \* its socket is closed
  bound,    \* trapBound is closed
  waiting,  \* the helper has not returned
  handling, \* the notification in its handler, and what the library sees of it
  \* the commands
  call,
  stored,   \* the users in the secret store
  \* bookkeeping of the model
  starts, calls, arrivals, mishaps,
  granted,  \* what the last command that succeeded said of the users
  journalled, acknowledged, panicked

client   == <<trapLife, trapListener, trapUsers>>
listener == <<stage, users, socket, finish, closed, bound, waiting, handling>>
ledger   == <<journalled, acknowledged, panicked>>
bounds   == <<starts, calls, arrivals, mishaps>>
vars     == <<client, listener, call, stored, bounds, granted, ledger>>

Idle   == [op |-> "none", users |-> {}, at |-> "idle", listener |-> 0]
NoTrap == [message |-> NoMessage, inform |-> FALSE, recorded |-> FALSE]

Spend(kind) == kind \in Mishaps /\ mishaps > 0 /\ mishaps' = mishaps - 1

Set(f, x, v) == f' = [f EXCEPT ![x] = v]
Goto(c, place) == call' = [call EXCEPT ![c].at = place]
Finish(c) == Set(call, c, Idle)

-----------------------------------------------------------------------------
(* The goroutines of a listener. *)

\* The library binds the port.
Bind(l) ==
  /\ stage[l] = "starting"
  /\ Set(stage, l, "serving") /\ Set(socket, l, TRUE)
  /\ UNCHANGED <<client, users, finish, closed, bound, waiting, handling, call, stored, bounds,
                 granted, ledger>>

\* Listen returns an error: another program has the port.
BindFails(l) ==
  /\ stage[l] = "starting"
  /\ Spend("bind")
  /\ Set(stage, l, "returned")
  /\ UNCHANGED <<client, users, socket, finish, closed, bound, waiting, handling, call, stored,
                 starts, calls, arrivals, granted, ledger>>

\* The loop of the library, woken by the closing of its socket.
ListenReturns(l) ==
  /\ stage[l] = "serving" /\ closed[l] /\ handling[l] = NoTrap
  /\ Set(stage, l, "returned")
  /\ UNCHANGED <<client, users, socket, finish, closed, bound, waiting, handling, call, stored,
                 bounds, granted, ledger>>

\* The deferred function: the field is cleared if it is still ours ...
Clear(l) ==
  /\ stage[l] = "returned"
  /\ Set(stage, l, "cleared")
  /\ trapListener' = IF trapListener = l THEN 0 ELSE trapListener
  /\ UNCHANGED <<trapLife, trapUsers, users, socket, finish, closed, bound, waiting, handling,
                 call, stored, bounds, granted, ledger>>

\* ... and then trapDone is closed.
Done(l) ==
  /\ stage[l] = "cleared"
  /\ Set(stage, l, "over")
  /\ UNCHANGED <<client, users, socket, finish, closed, bound, waiting, handling, call, stored,
                 bounds, granted, ledger>>

\* The helper takes the only value of Listening(), or learns that it never comes.
Helper(l) ==
  /\ waiting[l]
  /\ \/ socket[l] /\ Set(bound, l, TRUE)
     \/ stage[l] = "over" /\ UNCHANGED bound
  /\ Set(waiting, l, FALSE)
  /\ UNCHANGED <<client, stage, users, socket, finish, closed, handling, call, stored, bounds,
                 granted, ledger>>

-----------------------------------------------------------------------------
(* A notification. *)

Hears(l, m) == From[m] \in Users => From[m] \in users[l]

Receive(l, m) ==
  /\ stage[l] = "serving" /\ ~closed[l] /\ handling[l] = NoTrap
  /\ arrivals < MaxArrivals /\ arrivals' = arrivals + 1
  /\ Hears(l, m)
  /\ Set(handling, l, [message |-> m, inform |-> m \in Informs, recorded |-> FALSE])
  /\ UNCHANGED <<client, stage, users, socket, finish, closed, bound, waiting, call, stored,
                 starts, calls, mishaps, granted, ledger>>

\* Mutant: the failure is logged, and the packet left as it is.
NotDeclined(h) == [h EXCEPT !.recorded = TRUE]

\* declineToAcknowledge: what was an INFORM is a trap when the library looks again.
Declined(h) == [h EXCEPT !.inform = FALSE, !.recorded = TRUE]

\* handleTrap: journalled, or declined, or dropped by recoverTrapHandler.
Handle(l) ==
  /\ handling[l] # NoTrap /\ ~handling[l].recorded
  /\ LET m == handling[l].message IN
       \/ /\ journalled' = journalled \cup {m}
          /\ Set(handling, l, [handling[l] EXCEPT !.recorded = TRUE])
          /\ UNCHANGED <<panicked, mishaps>>
       \/ /\ Spend("journal")
          /\ Set(handling, l, Declined(handling[l]))
          /\ UNCHANGED <<journalled, panicked>>
       \/ /\ Spend("panic")
          /\ panicked' = panicked \cup {m}
          /\ Set(handling, l, [handling[l] EXCEPT !.recorded = TRUE])
          /\ UNCHANGED journalled
  /\ UNCHANGED <<client, stage, users, socket, finish, closed, bound, waiting, call, stored,
                 starts, calls, arrivals, granted, acknowledged>>

\* The library acknowledges what is an INFORM when the handler has returned.  The
\* reply is sent even if the listener is being closed: it goes out by the socket,
\* and is lost if that is closed.
Reply(l) ==
  /\ handling[l].recorded
  /\ acknowledged' = IF handling[l].inform /\ ~closed[l]
                     THEN acknowledged \cup {handling[l].message} ELSE acknowledged
  /\ Set(handling, l, NoTrap)
  /\ UNCHANGED <<client, stage, users, socket, finish, closed, bound, waiting, call, stored,
                 bounds, granted, journalled, panicked>>

-----------------------------------------------------------------------------
(* The commands. *)

Begin(c) ==
  /\ call[c] = Idle /\ \A d \in Callers : call[d].op # "login"
  /\ calls < MaxCalls /\ calls' = calls + 1
  /\ \/ \E op \in {"start", "update"}, U \in SUBSET Users :
          Set(call, c, [Idle EXCEPT !.op = op, !.users = U, !.at = "lock"])
     \/ Set(call, c, [Idle EXCEPT !.op = "stop", !.at = "lock"])
     \* initBackgroundMode, before any window: with the users that were remembered
     \/ calls = 0 /\ Set(call, c, [Idle EXCEPT !.op = "login", !.users = stored, !.at = "lock"])
  /\ UNCHANGED <<client, listener, stored, starts, arrivals, mishaps, granted, ledger>>

\* Mutant: a user that cannot be used is kept.
AcceptedAll(c) == call[c].users
Accepted(c) == call[c].users \cap Usable

\* Back to App, with the lock released: what was accepted is remembered, except by
\* the start at login.
Succeed(c) ==
  /\ granted' = Accepted(c)
  /\ IF call[c].op = "login" THEN Finish(c) ELSE Goto(c, "save")

\* startTrapListener, under trapMu; it does not wait for the bind.
StartListener(c) ==
  LET l == starts + 1 IN
    /\ starts' = l
    /\ trapListener' = l
    /\ trapUsers' = Accepted(c)
    /\ Set(stage, l, "starting")
    /\ Set(users, l, Accepted(c))
    /\ Set(waiting, l, TRUE)
    /\ UNCHANGED <<socket, finish, closed, bound, handling>>

\* StartTrapListener: refused while there is one.
Start(c) ==
  /\ call[c].at = "lock" /\ call[c].op \in {"start", "login"} /\ trapLife = NoCaller
  /\ \/ /\ trapListener = 0
        /\ StartListener(c) /\ Succeed(c)
     \/ /\ trapListener # 0
        /\ Finish(c)
        /\ UNCHANGED <<trapListener, trapUsers, listener, starts, granted>>
  /\ UNCHANGED <<trapLife, stored, calls, arrivals, mishaps, ledger>>

\* Mutant: a listener is restarted only to hear somebody new.
NobodyNew(U) == U \subseteq trapUsers
\* sameTrapUsers
SameUsers(U) == U = trapUsers

\* UpdateTrapUsers with nothing to do to the listener.
UpdateOnly(c) ==
  /\ call[c].at = "lock" /\ call[c].op = "update" /\ trapLife = NoCaller
  /\ trapListener = 0 \/ SameUsers(Accepted(c))
  /\ Succeed(c)
  /\ UNCHANGED <<client, listener, stored, bounds, ledger>>

\* UpdateTrapUsers with a listener to restart.
RestartListener(c) ==
  /\ call[c].at = "lock" /\ call[c].op = "update" /\ trapLife = NoCaller
  /\ trapListener # 0 /\ ~SameUsers(Accepted(c))
  /\ trapLife' = c
  /\ Goto(c, "stop")
  /\ UNCHANGED <<trapListener, trapUsers, listener, stored, bounds, granted, ledger>>

\* Where a stop leads: a restart still holds the lock.
Stopped(c) ==
  IF call[c].op = "update" THEN Goto(c, "restart") /\ UNCHANGED trapLife
  ELSE Finish(c) /\ trapLife' = NoCaller

\* stopTrapListener, of StopTrapListener or within a restart: the listener is read
\* again, and may be gone by itself.
StopListener(c) ==
  /\ \/ call[c].at = "lock" /\ call[c].op = "stop" /\ trapLife = NoCaller
     \/ call[c].at = "stop"
  /\ IF trapListener = 0
     THEN Stopped(c)
     ELSE /\ trapLife' = c
          /\ Set(call, c, [call[c] EXCEPT !.at = "wait", !.listener = trapListener])
  /\ UNCHANGED <<trapListener, trapUsers, listener, stored, bounds, granted, ledger>>

\* The library's Close: once, and with nothing to close it does nothing.
Close(l) ==
  /\ Set(finish, l, TRUE)
  /\ Set(closed, l, closed[l] \/ (~finish[l] /\ socket[l]))

\* Mutant: closed without waiting for its socket.
CloseAtOnce(c) ==
  /\ call[c].at = "wait"
  /\ Close(call[c].listener) /\ Goto(c, "closing")
  /\ UNCHANGED <<client, stage, users, socket, bound, waiting, handling, stored, bounds, granted,
                 ledger>>

\* Mutant: the wait is for the socket alone.
AwaitSocket(c) ==
  /\ call[c].at = "wait" /\ bound[call[c].listener]
  /\ Close(call[c].listener) /\ Goto(c, "closing")
  /\ UNCHANGED <<client, stage, users, socket, bound, waiting, handling, stored, bounds, granted,
                 ledger>>

\* stopTrapListener: bound, or never to be.
AwaitBound(c) ==
  /\ call[c].at = "wait"
  /\ LET l == call[c].listener IN
       \/ /\ bound[l]
          /\ Close(l) /\ Goto(c, "closing") /\ UNCHANGED trapLife
       \/ /\ stage[l] = "over"
          /\ Stopped(c) /\ UNCHANGED <<finish, closed>>
  /\ UNCHANGED <<trapListener, trapUsers, stage, users, socket, bound, waiting, handling, stored,
                 bounds, granted, ledger>>

\* Close waits for the loop it ended.
CloseReturns(c) ==
  /\ call[c].at = "closing"
  /\ LET l == call[c].listener IN closed[l] => stage[l] # "serving"
  /\ Goto(c, "unwind")
  /\ UNCHANGED <<client, listener, stored, bounds, granted, ledger>>

\* The goroutine has let go of it, or the grace is over.
AwaitDone(c) ==
  /\ call[c].at = "unwind"
  /\ \/ stage[call[c].listener] = "over" /\ UNCHANGED mishaps
     \/ Spend("grace")
  /\ Stopped(c)
  /\ UNCHANGED <<trapListener, trapUsers, listener, stored, starts, calls, arrivals, granted,
                 ledger>>

\* The start of a restart, which a listener that is still there refuses.
Restart(c) ==
  /\ call[c].at = "restart"
  /\ IF trapListener = 0 THEN StartListener(c) /\ Succeed(c)
     ELSE Finish(c) /\ UNCHANGED <<trapListener, trapUsers, listener, starts, granted>>
  /\ trapLife' = NoCaller
  /\ UNCHANGED <<stored, calls, arrivals, mishaps, ledger>>

\* saveTrapUsers, whose error is only logged.
Save(c) ==
  /\ call[c].at = "save"
  /\ \/ stored' = Accepted(c) /\ UNCHANGED mishaps
     \/ Spend("store") /\ UNCHANGED stored
  /\ Finish(c)
  /\ UNCHANGED <<client, listener, starts, calls, arrivals, granted, ledger>>

-----------------------------------------------------------------------------
Init ==
  /\ trapLife = NoCaller /\ trapListener = 0 /\ trapUsers = {}
  /\ stage = [l \in Listeners |-> "none"]
  /\ users = [l \in Listeners |-> {}]
  /\ LET no == [l \in Listeners |-> FALSE] IN
       socket = no /\ finish = no /\ closed = no /\ bound = no /\ waiting = no
  /\ handling = [l \in Listeners |-> NoTrap]
  /\ call = [c \in Callers |-> Idle]
  /\ stored = Remembered
  /\ starts = 0 /\ calls = 0 /\ arrivals = 0 /\ mishaps = MaxMishaps
  /\ granted = Remembered
  /\ journalled = {} /\ acknowledged = {} /\ panicked = {}

Listening(l) ==
  \/ Bind(l) \/ BindFails(l) \/ ListenReturns(l) \/ Clear(l) \/ Done(l)
  \/ Handle(l) \/ Reply(l)

\* The steps of a command that holds the lock, or needs none.
Proceed(c) ==
  \/ AwaitBound(c) \/ CloseReturns(c) \/ AwaitDone(c) \/ Restart(c) \/ Save(c)

\* The steps that wait for the lock.
Lock(c) == Start(c) \/ UpdateOnly(c) \/ RestartListener(c) \/ StopListener(c)

Next ==
  \/ \E l \in Listeners :
       \/ Listening(l) \/ Helper(l)
       \/ \E m \in Messages : Receive(l, m)
  \/ \E c \in Callers : Begin(c) \/ Lock(c) \/ Proceed(c)

Spec == Init /\ [][Next]_vars

(***************************************************************************)
(* Every goroutine goes on, and a sync.Mutex does not starve who waits for *)
(* it.  Nobody has to send a notification or give a command.               *)
(***************************************************************************)
Fairness ==
  /\ \A l \in Listeners : WF_vars(Listening(l)) /\ WF_vars(Helper(l))
  /\ \A c \in Callers : WF_vars(Proceed(c)) /\ SF_vars(Lock(c))

FairSpec == Spec /\ Fairness

-----------------------------------------------------------------------------
(* Properties. *)

TypeOK ==
  /\ trapLife \in Callers \cup {NoCaller} /\ trapListener \in 0..starts
  /\ trapUsers \subseteq Usable /\ stored \subseteq Usable /\ granted \subseteq Usable
  /\ stage \in [Listeners -> {"none", "starting", "serving", "returned", "cleared", "over"}]
  /\ users \in [Listeners -> SUBSET Usable]
  /\ \A f \in {socket, finish, closed, bound, waiting} : f \in [Listeners -> BOOLEAN]
  /\ handling \in [Listeners -> [message : Messages \cup {NoMessage}, inform : BOOLEAN,
                                 recorded : BOOLEAN]]
  /\ call \in [Callers -> [op : {"none", "start", "stop", "update", "login"},
                           users : SUBSET Users, listener : 0..starts,
                           at : {"idle", "lock", "stop", "wait", "closing", "unwind", "restart",
                                 "save"}]]
  /\ starts \in 0..calls /\ calls \in 0..MaxCalls
  /\ arrivals \in 0..MaxArrivals /\ mishaps \in 0..MaxMishaps
  /\ journalled \subseteq Messages /\ acknowledged \subseteq Informs /\ panicked \subseteq Messages

\* What listens, or will, can be stopped: it is the listener the commands see, and
\* its one Close is not spent on nothing (trap.go:197-202,
\* traplifecycle_test.go:64-65).
NeverStranded ==
  \A l \in Listeners :
    stage[l] \in {"starting", "serving"} =>
      trapListener = l /\ (finish[l] => closed[l])

\* "Never accepting a credential that was taken away" (trap.go:251-252): once the
\* command that changed the users has returned, nobody else is heard.
TakenAwayIsRefused ==
  trapLife = NoCaller =>
    \A l \in Listeners : stage[l] = "serving" /\ ~closed[l] => users[l] \subseteq granted

\* "An INFORM that was not journalled must not be acknowledged" (trap.go:454-455),
\* unless its handler panicked.
AcknowledgedIsJournalled == acknowledged \subseteq journalled \cup panicked

\* The same without the exception.
NeverAcknowledgedUnjournalled == acknowledged \subseteq journalled

\* "The users it took" are what the next start at login hears
\* (trapusers.go:11-12, 24-27): when every command has returned, they are those of
\* the listener.
RememberedIsRunning ==
  trapListener # 0 /\ (\A c \in Callers : call[c] = Idle) => stored = trapUsers

\* No command waits for ever: a stop is told that the socket is there or that it
\* never will be (trap.go:214-215).
EveryCommandReturns == \A c \in Callers : call[c].at = "lock" ~> call[c] = Idle
=============================================================================
