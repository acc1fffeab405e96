------------------------------ MODULE TrapUsers ------------------------------
(***************************************************************************)
(* The window's side of the trap listener: who it is told to accept        *)
(* (frontend/src/stores/trapStore.js start, stop and syncTrapUsers,        *)
(* frontend/src/utils/credentialProfiles.js trapUsers and trapReception,   *)
(* frontend/src/TrapPanel.svelte).  TrapListener is the process's side,    *)
(* which is here one step for each call.                                   *)
(*                                                                         *)
(* A user is the name of an identity, with the edition of its passphrases. *)
(***************************************************************************)
EXTENDS Integers

CONSTANTS
  Users,
  Unusable,     \* those the listener refuses
  Editions,     \* of a user's passphrases
  Blank,        \* a passphrase that a locked keychain left out
  Sealed,       \* one that was not opened yet: the listener takes it for a passphrase
  None,
  MaxCalls,     \* bound: calls under way
  MaxClicks, MaxMishaps   \* bounds: commands of the operator, failures

VARIABLES
  settings,   \* what is in memory: by user, whether accepted and the edition
  keychain,   \* crypto.js getState(): "ok" or "locked"
  ready,      \* settingsReady resolved
  ui,         \* trapStore: listening, refused, and appliedUsers
  calls,      \* under way: [n, op, users, stage]
  go,         \* the listener: whether it runs, whom it accepts, and what is remembered
  clicks, mishaps

vars == <<settings, keychain, ready, ui, calls, go, clicks, mishaps>>

Click  == clicks < MaxClicks /\ clicks' = clicks + 1
Mishap == mishaps < MaxMishaps /\ mishaps' = mishaps + 1

-----------------------------------------------------------------------------
Opened(pass, key) == CASE key = "ok" -> pass [] key = "locked" -> Blank [] key = "unread" -> Sealed
Key == IF ready THEN keychain ELSE "unread"

\* The accepted ones, as memory has them.  A plausible bug: those the Traps
\* tab lists, accepted or not.
Everyone(s, key)  == {<<u, Opened(s[u].pass, key)>> : u \in Users}
trapUsers(s, key) == {<<u, Opened(s[u].pass, key)>> : u \in {v \in Users : s[v].accept}}

Taken(users)   == {x \in users : x[1] \notin Unusable /\ x[2] # Blank}
Refused(users) == users \ Taken(users)

\* What the Traps tab says of a user.
trapReception ==
  [u \in Users |-> IF ~settings[u].accept THEN "excluded"
                   ELSE IF \E x \in ui.refused : x[1] = u THEN "refused" ELSE "heard"]

Free == {n \in 1..MaxCalls : \A c \in calls : c.n # n}
Send(op, users) ==
  /\ Free # {}
  /\ calls' = calls \cup {[n |-> CHOOSE n \in Free : TRUE, op |-> op, users |-> users, stage |-> "asked"]}

-----------------------------------------------------------------------------
\* Nothing before the settings are open, nothing while the keychain is
\* locked, and nothing twice.
syncTrapUsers(s, key) ==
  LET users == trapUsers(s, key)
  IN IF key # "ok" \/ users = ui.applied THEN UNCHANGED <<ui, calls>>
     ELSE ui' = [ui EXCEPT !.applied = users] /\ Send("update", users)

\* A profile saved: a user accepted or not, a passphrase changed.
saveSettings ==
  \E u \in Users, accept \in BOOLEAN, pass \in Editions :
    /\ ready /\ Click
    /\ settings' = [settings EXCEPT ![u] = [accept |-> accept, pass |-> pass]]
    /\ syncTrapUsers(settings', keychain)
    /\ UNCHANGED <<keychain, ready, go, mishaps>>

\* The stored credentials are open, or the keychain stays locked.
settingsReady ==
  /\ ~ready /\ ready' = TRUE
  /\ syncTrapUsers(settings, keychain)
  /\ UNCHANGED <<settings, keychain, go, clicks, mishaps>>

\* The keychain is unlocked, and the settings read again.
Unlock ==
  /\ ready /\ keychain = "locked" /\ Click
  /\ keychain' = "ok"
  /\ syncTrapUsers(settings, keychain')
  /\ UNCHANGED <<settings, ready, go, mishaps>>

toggleListener ==
  /\ Click
  /\ IF ui.listening THEN Send("stop", {}) ELSE Send("start", trapUsers(settings, Key))
  /\ UNCHANGED <<settings, keychain, ready, ui, go, mishaps>>

-----------------------------------------------------------------------------
(* What the process does of a call. *)

Fails(c) == [c EXCEPT !.stage = "failed"]
Done(c)  == [c EXCEPT !.stage = "done"]
Reply(c, answer) == calls' = (calls \ {c}) \cup {answer}
Hears(c, running) == [running |-> running, users |-> Taken(c.users), kept |-> Taken(c.users)]

StartListener ==
  \E c \in calls :
    /\ c.op = "start" /\ c.stage = "asked"
    /\ \/ go.running /\ Reply(c, Fails(c)) /\ UNCHANGED <<go, mishaps>>
       \/ ~go.running /\ Reply(c, Done(c)) /\ go' = Hears(c, TRUE) /\ UNCHANGED mishaps
       \/ ~go.running /\ Mishap /\ Reply(c, Fails(c)) /\ UNCHANGED go
    /\ UNCHANGED <<settings, keychain, ready, ui, clicks>>

UpdateTrapUsers ==
  \E c \in calls :
    /\ c.op = "update" /\ c.stage = "asked"
    /\ \/ Reply(c, Done(c)) /\ go' = Hears(c, go.running) /\ UNCHANGED mishaps
       \/ go.running /\ Mishap /\ Reply(c, Fails(c)) /\ go' = [go EXCEPT !.running = FALSE]
    /\ UNCHANGED <<settings, keychain, ready, ui, clicks>>

StopListener ==
  \E c \in calls :
    /\ c.op = "stop" /\ c.stage = "asked"
    /\ Reply(c, Done(c)) /\ go' = [go EXCEPT !.running = FALSE]
    /\ UNCHANGED <<settings, keychain, ready, ui, clicks, mishaps>>

-----------------------------------------------------------------------------
(* An answer. *)

start ==
  \E c \in calls :
    /\ c.op = "start" /\ c.stage # "asked"
    /\ calls' = calls \ {c}
    /\ ui' = IF c.stage = "failed" THEN ui ELSE [listening |-> TRUE, applied |-> c.users, refused |-> Refused(c.users)]
    /\ UNCHANGED <<settings, keychain, ready, go, clicks, mishaps>>

stop ==
  \E c \in calls :
    /\ c.op = "stop" /\ c.stage # "asked"
    /\ calls' = calls \ {c}
    /\ ui' = [ui EXCEPT !.listening = FALSE]
    /\ UNCHANGED <<settings, keychain, ready, go, clicks, mishaps>>

reportRefused ==
  \E c \in calls :
    /\ c.op = "update" /\ c.stage # "asked"
    /\ calls' = calls \ {c}
    /\ ui' = IF c.stage = "failed" THEN [ui EXCEPT !.listening = FALSE] ELSE [ui EXCEPT !.refused = Refused(c.users)]
    /\ UNCHANGED <<settings, keychain, ready, go, clicks, mishaps>>

\* The listener ends by itself, and says so.
trapError ==
  /\ go.running /\ Mishap
  /\ go' = [go EXCEPT !.running = FALSE]
  /\ ui' = [ui EXCEPT !.listening = FALSE]
  /\ UNCHANGED <<settings, keychain, ready, calls, clicks>>

\* A listener may have been started at login, with what was remembered.
Init ==
  /\ settings \in [Users -> [accept : BOOLEAN, pass : {CHOOSE e \in Editions : TRUE}]]
  /\ keychain \in {"ok", "locked"} /\ ready = FALSE
  /\ ui = [listening |-> FALSE, applied |-> None, refused |-> {}]
  /\ \E atLogin \in BOOLEAN : \E users \in SUBSET Taken(Everyone(settings, "ok")) :
       go = [running |-> atLogin, users |-> IF atLogin THEN users ELSE {}, kept |-> users]
  /\ calls = {} /\ clicks = 0 /\ mishaps = 0

Next ==
  \/ saveSettings \/ settingsReady \/ Unlock \/ toggleListener
  \/ StartListener \/ UpdateTrapUsers \/ StopListener
  \/ start \/ stop \/ reportRefused \/ trapError

Spec == Init /\ [][Next]_vars

-----------------------------------------------------------------------------
Quiet == ready /\ calls = {} /\ keychain = "ok" /\ mishaps = 0

\* The listener accepts, and will accept at the next login, the users the
\* settings accept and can use, through starts, stops and saves; the Traps tab
\* says as much (trapStore.js:211-243, credentialProfiles.js:284-342).
UsersFollowSettings ==
  Quiet =>
    /\ go.kept = Taken(trapUsers(settings, keychain))
    /\ go.running => go.users = go.kept
    /\ \A u \in Users : trapReception[u] = "heard" <=> \E x \in go.kept : x[1] = u

\* By hand: "with a locked keychain the passphrases are blanked in memory.
\* Pushing either would replace working users with users that authenticate
\* nothing" (trapStore.js:219-222), said of the sync and not done by start.
WorkingUsersStay == [][keychain = "locked" => go'.kept = go.kept]_vars
\* By hand: the window says whether the listener runs.
ShowsTheListener == calls = {} /\ ready => (ui.listening <=> go.running)
=============================================================================
