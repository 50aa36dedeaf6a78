------------------------------ MODULE Verdict ------------------------------
(***************************************************************************)
(* What the host promises the gateway that holds a credentialed request:   *)
(* one verdict for each request, "granted" only with the consent of        *)
(* somebody entitled to give it.  Approvals implements this module.        *)
(***************************************************************************)
CONSTANT Credentials

VARIABLES
  verdict,   (* "unasked", "open", "granted" or "refused"                  *)
  consent    (* the requests an entitled approver has consented to         *)

verdictVars == <<verdict, consent>>

VerdictInit ==
  /\ verdict = [c \in Credentials |-> "unasked"]
  /\ consent = {}

Decide(c, v) == verdict' = [verdict EXCEPT ![c] = v]

Open(c) ==
  /\ verdict[c] = "unasked"
  /\ Decide(c, "open")
  /\ UNCHANGED consent

(* It may come too late to matter. *)
Consents(c) ==
  /\ verdict[c] # "unasked"
  /\ consent' = consent \cup {c}
  /\ UNCHANGED verdict

Grant(c) ==
  /\ verdict[c] = "open" /\ c \in consent
  /\ Decide(c, "granted")
  /\ UNCHANGED consent

(* The approver refuses, the time is up, or the host restarts, which       *)
(* refuses every open request at once.                                     *)
RefuseAll(C) ==
  /\ C # {} /\ \A c \in C : verdict[c] = "open"
  /\ verdict' = [c \in Credentials |-> IF c \in C THEN "refused" ELSE verdict[c]]
  /\ UNCHANGED consent

VerdictNext ==
  \/ \E c \in Credentials : Open(c) \/ Consents(c) \/ Grant(c)
  \/ \E C \in SUBSET Credentials : RefuseAll(C)

VerdictSpec == VerdictInit /\ [][VerdictNext]_verdictVars
=============================================================================
