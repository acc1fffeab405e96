------------------------- MODULE DeliveryContract -------------------------
(***************************************************************************)
(* What the outbox promises of a delivery (pkg/storage/notify_store.go,    *)
(* pkg/notify/dispatcher.go).  It waits until the destination has it or    *)
(* until it is given up on; it is never called sent before it arrived;     *)
(* what was sent or given up on stays so, until the operator asks for it   *)
(* to be tried again.  While the dispatcher runs, nothing waits for ever.  *)
(***************************************************************************)
CONSTANTS Deliveries

VARIABLES
  status,   \* "none", "pending", "sent" or "dead"
  arrived,  \* the deliveries the destination has had, once or more
  running   \* the dispatcher runs

vars == <<status, arrived, running>>

Init == status = [d \in Deliveries |-> "none"] /\ arrived = {} /\ running = FALSE

Become(S, new) == status' = [d \in Deliveries |-> IF d \in S THEN new ELSE status[d]]

Queue(S) ==
  /\ S # {} /\ \A d \in S : status[d] = "none"
  /\ Become(S, "pending")
  /\ UNCHANGED <<arrived, running>>

Arrive(d) ==
  /\ status[d] = "pending"
  /\ arrived' = arrived \cup {d}
  /\ UNCHANGED <<status, running>>

Confirm(d) ==
  /\ status[d] = "pending" /\ d \in arrived
  /\ Become({d}, "sent")
  /\ UNCHANGED <<arrived, running>>

GiveUp(d) ==
  /\ status[d] = "pending"
  /\ Become({d}, "dead")
  /\ UNCHANGED <<arrived, running>>

Revive(d) ==
  /\ status[d] \in {"sent", "dead"}
  /\ Become({d}, "pending")
  /\ UNCHANGED <<arrived, running>>

Launch == ~running /\ running' = TRUE /\ UNCHANGED <<status, arrived>>

\* What was on the wire when the process ended may arrive all the same.
Leave(S) ==
  /\ running' = FALSE
  /\ \A d \in S : status[d] = "pending"
  /\ arrived' = arrived \cup S
  /\ UNCHANGED status

Next ==
  \/ \E S \in SUBSET Deliveries : Queue(S) \/ Leave(S)
  \/ \E d \in Deliveries : Arrive(d) \/ Confirm(d) \/ GiveUp(d) \/ Revive(d)
  \/ Launch

Settle(d) == running /\ (Confirm(d) \/ GiveUp(d))

Spec == Init /\ [][Next]_vars /\ \A d \in Deliveries : WF_vars(Settle(d))
=============================================================================
