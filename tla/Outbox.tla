------------------------------- MODULE Outbox -------------------------------
(***************************************************************************)
(* What the host promises about a message the agent has written: it is     *)
(* shown until it is settled and never afterwards, and it settles as       *)
(* "delivered" only when it has been shown.  Delivery implements this      *)
(* module as long as every channel has its adapter.                        *)
(***************************************************************************)
CONSTANT Msgs

VARIABLES
  fate,   (* "unwritten", "open", "delivered" or "failed"                  *)
  seen    (* the messages that have been shown                             *)

outboxVars == <<fate, seen>>

OutboxInit ==
  /\ fate = [m \in Msgs |-> "unwritten"]
  /\ seen = {}

Become(m, f) == fate' = [fate EXCEPT ![m] = f]

Post(m) ==
  /\ fate[m] = "unwritten"
  /\ Become(m, "open")
  /\ UNCHANGED seen

Show(m) ==
  /\ fate[m] = "open"
  /\ seen' = seen \cup {m}
  /\ UNCHANGED fate

Deliver(m) ==
  /\ fate[m] = "open" /\ m \in seen
  /\ Become(m, "delivered")
  /\ UNCHANGED seen

(* Also of a message that was shown but whose sending seemed to fail. *)
GiveUp(m) ==
  /\ fate[m] = "open"
  /\ Become(m, "failed")
  /\ UNCHANGED seen

OutboxNext == \E m \in Msgs : Post(m) \/ Show(m) \/ Deliver(m) \/ GiveUp(m)

OutboxSpec == OutboxInit /\ [][OutboxNext]_outboxVars
=============================================================================
