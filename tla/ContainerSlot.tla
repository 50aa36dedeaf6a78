---------------------------- MODULE ContainerSlot ----------------------------
(***************************************************************************)
(* What the host promises about the container of one session: it starts    *)
(* one only when none lives, and forgets one only when it is gone.         *)
(*                                                                         *)
(* ContainerLifecycle, with the processes, promises and events of the      *)
(* container runner, implements this module; SessionQueue, with the        *)
(* container as part of the message flow, implements it too.               *)
(***************************************************************************)

VARIABLES
  up,        (* the host process runs                                      *)
  known,     (* the host has the session in its table of containers        *)
  starting,  (* a spawn is in flight                                       *)
  live       (* a container of the session lives, or may come to life      *)

slotVars == <<up, known, starting, live>>

SlotInit == up = TRUE /\ known = FALSE /\ starting = FALSE /\ live = FALSE

Want ==
  /\ up /\ ~known /\ ~starting
  /\ starting' = TRUE
  /\ UNCHANGED <<up, known, live>>

(* The spawned process may turn out not to have started at all. *)
Launch ==
  /\ up /\ starting /\ ~known /\ ~live
  /\ starting' = FALSE /\ known' = TRUE
  /\ live' \in BOOLEAN
  /\ UNCHANGED up

GiveUp ==
  /\ up /\ starting
  /\ starting' = FALSE
  /\ UNCHANGED <<up, known, live>>

Die == live /\ live' = FALSE /\ UNCHANGED <<up, known, starting>>

(* With a wake registered for the exit, the next spawn starts at once. *)
Forget ==
  /\ up /\ known /\ ~live
  /\ known' = FALSE
  /\ starting' \in BOOLEAN
  /\ UNCHANGED <<up, live>>

(* A container outlives its host and is stopped when the host comes back. *)
Crash ==
  /\ up
  /\ up' = FALSE /\ known' = FALSE /\ starting' = FALSE
  /\ UNCHANGED live

Recover ==
  /\ ~up
  /\ up' = TRUE /\ live' = FALSE
  /\ UNCHANGED <<known, starting>>

SlotNext == Want \/ Launch \/ GiveUp \/ Die \/ Forget \/ Crash \/ Recover

SlotSpec == SlotInit /\ [][SlotNext]_slotVars
=============================================================================
