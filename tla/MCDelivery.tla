----------------------------- MODULE MCDelivery -----------------------------
(* Instances of Delivery for TLC. *)
EXTENDS Delivery, TLC

(* No action singles out a session. *)
SessionSymmetry == Permutations(Sessions)

(* For liveness: cards are sent like any other message, and answers change *)
(* nothing that the polls read.                                            *)
PlainMessages == cards = {}

AllOnline == {{}}
(* At most one session has no adapter: the two need not be told apart      *)
(* again.                                                                  *)
SomeOutage == {{}, {CHOOSE s \in Sessions : TRUE}}
AnyOutage == SUBSET Sessions
=============================================================================
