------------------------- MODULE DeliveryLifecycle -------------------------
(***************************************************************************)
(* What the outbox promises about one delivery, without queues, workers,   *)
(* claims or retries: a delivery is open until it is confirmed, stopped or *)
(* skipped; it counts as sent only when the provider accepted it; and once *)
(* closed it can only hear the provider's later word about its mail.       *)
(***************************************************************************)
CONSTANTS
  Deliveries,
  Reopenable      \* deliveries whose producer may reopen them when skipped

VARIABLES
  phase,          \* where the delivery stands
  accepted        \* has the provider accepted a mail for it?

vars == <<phase, accepted>>

Phases == {"absent", "open", "sent", "delivered", "timed_out",
           "stopped", "suppressed", "skipped"}

Init ==
  /\ phase = [d \in Deliveries |-> "absent"]
  /\ accepted = [d \in Deliveries |-> FALSE]

Moves(d, from, to) ==
  /\ phase[d] \in from
  /\ phase' = [phase EXCEPT ![d] = to]
  /\ UNCHANGED accepted

Open(d) == Moves(d, {"absent"}, "open")

\* A late worker may still reach the provider after its row was closed.
Accept(d) ==
  /\ phase[d] # "absent"
  /\ accepted' = [accepted EXCEPT ![d] = TRUE]
  /\ UNCHANGED phase

Confirm(d) == accepted[d] /\ Moves(d, {"open"}, "sent")
Deliver(d) == accepted[d] /\ Moves(d, {"open", "sent", "timed_out"}, "delivered")
Retry(d) == Moves(d, {"sent"}, "open")
TimeOut(d) == Moves(d, {"sent"}, "timed_out")
Stop(d) == Moves(d, {"open", "sent"}, "stopped")
Skip(d) == Moves(d, {"open"}, "skipped")
Suppress(d) ==
  \/ Moves(d, {"open"}, "suppressed")
  \/ accepted[d] /\ Moves(d, {"sent", "delivered", "timed_out"}, "suppressed")
Reopen(d) == d \in Reopenable /\ Moves(d, {"skipped"}, "open")

Step(d) == \/ Open(d) \/ Accept(d) \/ Confirm(d) \/ Deliver(d) \/ Retry(d)
           \/ TimeOut(d) \/ Stop(d) \/ Skip(d) \/ Suppress(d) \/ Reopen(d)

Next == \E d \in Deliveries : Step(d)

Spec == Init /\ [][Next]_vars
=============================================================================
