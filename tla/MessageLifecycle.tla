-------------------------- MODULE MessageLifecycle --------------------------
(***************************************************************************)
(* What the session queue promises about one inbound message, whatever the *)
(* host, its sweep and the containers do: a message is posted, taken into  *)
(* a container's hands, put back or answered, and after a bounded number   *)
(* of retries given up.  Nobody takes a message that is already in hand,   *)
(* and neither an answered nor a given-up message is ever taken again.     *)
(*                                                                         *)
(* SessionQueue implements this module; see Lifecycle there.               *)
(***************************************************************************)
EXTENDS Naturals

CONSTANTS
  Msgs,      (* the inbound messages of one session                        *)
  MaxTries   (* retries a message is granted before it is given up         *)

VARIABLES
  stage,     (* where each message is                                      *)
  retries    (* how often each message has been put on retry               *)

lifeVars == <<stage, retries>>

Stages == {"absent", "queued", "claimed", "answered", "failed"}

LifeInit ==
  /\ stage = [m \in Msgs |-> "absent"]
  /\ retries = [m \in Msgs |-> 0]

Move(S, from, to) ==
  /\ S # {}
  /\ \A m \in S : stage[m] = from
  /\ stage' = [m \in Msgs |-> IF m \in S THEN to ELSE stage[m]]

(* The host stores a message. *)
Post(m) == Move({m}, "absent", "queued") /\ UNCHANGED retries

(* A container takes a batch; a message in hand is not in the batch. *)
Claim(S) == Move(S, "queued", "claimed") /\ UNCHANGED retries

(* Messages in hand, or a question's answer read straight from the queue,  *)
(* are settled for good.                                                   *)
Answer(S) ==
  /\ \/ Move(S, "claimed", "answered")
     \/ Move(S, "queued", "answered")
  /\ UNCHANGED retries

(* Claims of a dead container are dropped: the messages are queued again.  *)
Release(S) == Move(S, "claimed", "queued") /\ UNCHANGED retries

(* The sweep charges a retry to some claimed messages and gives up others, *)
(* those that have used all their retries.                                 *)
Settle(Retried, Exhausted) ==
  /\ \A m \in Retried : stage[m] = "claimed" /\ retries[m] < MaxTries
  /\ \A m \in Exhausted : stage[m] = "claimed" /\ retries[m] = MaxTries
  /\ stage' = [m \in Msgs |-> IF m \in Exhausted THEN "failed" ELSE stage[m]]
  /\ retries' = [m \in Msgs |-> retries[m] + (IF m \in Retried THEN 1 ELSE 0)]

LifeNext ==
  \/ \E m \in Msgs : Post(m)
  \/ \E S \in SUBSET Msgs : Claim(S) \/ Answer(S) \/ Release(S)
  \/ \E R, X \in SUBSET Msgs : Settle(R, X)

LifeSpec == LifeInit /\ [][LifeNext]_lifeVars
=============================================================================
