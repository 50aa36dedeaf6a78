------------------------------- MODULE Faults -------------------------------
(* The budget of faults that the models of the host's dialogues share.     *)
EXTENDS Naturals

CONSTANT MaxFaults  (* crashes, lost cards and failing calls (bound)         *)

ASSUME FaultBound == MaxFaults \in Nat

VARIABLE faults

Fault == faults < MaxFaults /\ faults' = faults + 1
=============================================================================
