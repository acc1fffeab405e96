---------------------------- MODULE AlertLedger ----------------------------
(***************************************************************************)
(* What the journal, the router and the replay together promise of an      *)
(* alert, whatever process is running: once journalled it is owed until    *)
(* its deliveries are queued, unless its row is deleted first; nothing     *)
(* that was queued is owed again; and there is no other state, hence no    *)
(* way to lose it.  While the application stays up, what is owed is queued *)
(* in the end.                                                             *)
(***************************************************************************)
CONSTANTS
  Seqs,      \* the events
  Selected   \* those some routing rule selects a destination for

VARIABLES
  status,    \* "unborn", "owed", "queued" or "deleted", of every event
  up         \* the application is running

vars == <<status, up>>

Init == status = [s \in Seqs |-> "unborn"] /\ up = FALSE

Become(S, new) == status' = [s \in Seqs |-> IF s \in S THEN new ELSE status[s]]

\* An event no rule selects has nothing to be queued.
Journal(s) ==
  /\ up /\ status[s] = "unborn"
  /\ Become({s}, IF s \in Selected THEN "owed" ELSE "queued")
  /\ UNCHANGED up

\* A deleted event may have been handed over before its row went away.
Queue(S) ==
  /\ up /\ S # {}
  /\ \A s \in S : status[s] \in {"owed", "deleted"}
  /\ Become(S, "queued")
  /\ UNCHANGED up

Delete(S) ==
  /\ up /\ S # {}
  /\ \A s \in S : status[s] = "owed"
  /\ Become(S, "deleted")
  /\ UNCHANGED up

Launch == ~up /\ up' = TRUE /\ UNCHANGED status
Leave  == up /\ up' = FALSE /\ UNCHANGED status

Next ==
  \/ \E s \in Seqs : Journal(s)
  \/ \E S \in SUBSET Seqs : Queue(S) \/ Delete(S)
  \/ Launch \/ Leave

QueueOwed(s) == status[s] = "owed" /\ \E S \in SUBSET Seqs : s \in S /\ Queue(S)

Spec == Init /\ [][Next]_vars /\ \A s \in Seqs : WF_vars(QueueOwed(s))
=============================================================================
