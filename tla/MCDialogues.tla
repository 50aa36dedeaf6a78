---------------------------- MODULE MCDialogues ----------------------------
(* Instances for TLC of the host's dialogues with its users: the admission *)
(* of senders, the registration of chats, and the approval of what agents  *)
(* and credentials ask for.  They share nothing but the host, so that a    *)
(* behaviour is one of one of them, chosen at the start.                   *)
EXTENDS MCAdmission, Registration, Approvals

VARIABLE part

regVars == <<chat, wired, heard, requests, pending, cardVars, answerVars, regHistVars>>
admVars == <<chatVars, event, routes, asks, granted, approved, refused, cut>>
appVars == <<requestVars, gateVars, outcomeVars, pressVars>>

DialoguesInit ==
  /\ AdmissionInit /\ RegistrationInit /\ ApprovalsInit
  /\ \/ part = "admission"
     \/ /\ part \in {"registration", "approvals"}
        /\ policy = (CHOOSE p \in Policies : TRUE) /\ wiring = (CHOOSE w \in Setups : TRUE)

DialoguesNext ==
  /\ \/ part = "admission" /\ AdmissionNext /\ UNCHANGED <<regVars, appVars>>
     \/ part = "registration" /\ RegistrationNext /\ UNCHANGED <<admVars, appVars>>
     \/ part = "approvals" /\ ApprovalsNext /\ UNCHANGED <<admVars, regVars>>
  /\ UNCHANGED part

(* At the start no action under fairness is enabled in any of the parts,   *)
(* so that the fairness of the idle ones says nothing.                     *)
DialoguesSpec ==
  /\ DialoguesInit /\ [][DialoguesNext]_<<admVars, regVars, appVars, faults, part>>
  /\ AdmissionFairness /\ ApprovalsFairness

-----------------------------------------------------------------------------
(* Types of the three parts. *)
DialoguesTypeOK == AdmissionTypeOK /\ RegistrationTypeOK /\ ApprovalsTypeOK

(* What no step of a dialogue does: let a refused message in, change the   *)
(* meaning of an open card, or lose the message a registration was asked   *)
(* for.                                                                    *)
DialogueSteps == RefusedStaysOut /\ CardMeansOneThing /\ AskedMessageStays

(* Every dialogue comes to an end: an approved message is routed, the      *)
(* gateway is answered and the rows of its requests go.                    *)
DialoguesEnd == ApprovalReplays /\ GatewayAnswered /\ CredentialRowsGo

=============================================================================
