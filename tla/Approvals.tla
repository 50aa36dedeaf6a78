------------------------------ MODULE Approvals ------------------------------
(***************************************************************************)
(* Requests that wait for an approver's button: actions of an agent        *)
(* (requestApproval) and credentials that the gateway withholds            *)
(* (handleRequest).                                                        *)
(*                                                                         *)
(* For an action the pending_approvals row is inserted before the card is  *)
(* sent, for a credential after it was.  A press is resolved against the   *)
(* row, then the card is edited (awaited), then the response is            *)
(* dispatched; the handler of an approved action is awaited before its row *)
(* is deleted.                                                             *)
(***************************************************************************)
EXTENDS Naturals, FiniteSets, Faults

CONSTANTS
  Actions,      (* requests of agents                                      *)
  Handled,      (* the actions that a module registered a handler for      *)
  Credentials,  (* requests the gateway withholds                          *)
  MaxClicks     (* presses of buttons (bound)                              *)

Requests == Actions \cup Credentials
Clicks == 1 .. MaxClicks

ASSUME ApprovalsConstants ==
  /\ Handled \subseteq Actions /\ Actions \cap Credentials = {}
  /\ MaxClicks \in Nat

VARIABLES
  call,       (* how far the call that asks for the approval has come      *)
  rows,       (* requests with a row in pending_approvals                  *)
  card,       (* what the approver's chat shows of a request               *)
  click,      (* presses on their way                                      *)
  clicked,    (* how many presses there have been                          *)
  promise,    (* what the gateway's callback has returned                  *)
  waiting,    (* the Map of promises to be resolved                        *)
  expiring,   (* credentials whose card is being edited to "Expired"       *)
  applied,    (* actions: runs of the handler that had their effect        *)
  told,       (* actions: what the agent was told                          *)
  consented,  (* history: an entitled approver pressed approve             *)
  doubtful    (* history: actions answered while their handler ran, or     *)
              (* whose handler a crash cut off                             *)

requestVars == <<call, rows, card>>
gateVars == <<promise, waiting, expiring>>
outcomeVars == <<applied, told, doubtful>>
pressVars == <<click, clicked, consented>>
approvalsVars == <<requestVars, gateVars, outcomeVars, pressVars, faults>>

Roles == {"approver", "other"}
Labels == {"approve", "reject"}
NotClicked == [at |-> "no"]

(* What a press carries: its label, or the bare index when no row could    *)
(* resolve it.                                                             *)
Pressed == [at : {"editing", "applying"}, req : Requests, by : Roles,
            label : Labels, value : Labels \cup {"index"}]

ApprovalsInit ==
  /\ call = [r \in Requests |-> "no"]
  /\ rows = {}
  /\ card = [r \in Requests |-> "none"]
  /\ click = [n \in Clicks |-> NotClicked] /\ clicked = 0
  /\ promise = [c \in Credentials |-> "none"]
  /\ waiting = {} /\ expiring = {}
  /\ applied = [a \in Actions |-> 0]
  /\ told = [a \in Actions |-> {}]
  /\ consented = {} /\ doubtful = {}
  /\ faults = 0

(* Every variable has its type.                                            *)
ApprovalsTypeOK ==
  /\ call \in [Requests -> {"no", "picking", "posting", "done", "lost"}]
  /\ rows \subseteq Requests
  /\ card \in [Requests -> {"none", "buttons", "answered", "expired"}]
  /\ click \in [Clicks -> Pressed \cup {NotClicked}]
  /\ clicked \in 0 .. MaxClicks
  /\ promise \in [Credentials -> {"none", "pending", "approve", "deny", "lost"}]
  /\ waiting \subseteq rows \cap Credentials /\ expiring \subseteq Credentials
  /\ applied \in [Actions -> Nat]
  /\ told \in [Actions -> SUBSET {"failed", "rejected", "no handler", "not applied"}]
  /\ consented \subseteq Requests
  /\ doubtful \subseteq Actions
  /\ faults \in 0 .. MaxFaults

Tell(a, what) == told' = [told EXCEPT ![a] = @ \cup {what}]

Returns(c, decision) == promise' = [promise EXCEPT ![c] = decision]

-----------------------------------------------------------------------------
(* Asking.                                                                 *)

Request(r) ==
  /\ call[r] = "no" /\ call' = [call EXCEPT ![r] = "picking"]
  /\ promise' = [c \in Credentials |-> IF c = r THEN "pending" ELSE promise[c]]
  /\ UNCHANGED <<rows, card, waiting, expiring, outcomeVars, pressVars, faults>>

(* The call is over: an agent is told, the gateway is denied.              *)
Fails(r) ==
  IF r \in Actions THEN Tell(r, "failed") /\ UNCHANGED promise
                   ELSE Returns(r, "deny") /\ UNCHANGED told

(* No approver, or none that has a direct chat.                            *)
NobodyReachable(r) ==
  /\ call[r] = "picking" /\ call' = [call EXCEPT ![r] = "done"]
  /\ Fails(r)
  /\ UNCHANGED <<rows, card, waiting, expiring, applied, doubtful, pressVars, faults>>

(* The approver's chat has been awaited: deliver is called.                *)
SendCard(r) ==
  /\ call[r] = "picking" /\ call' = [call EXCEPT ![r] = "posting"]
  /\ rows' = rows \cup ({r} \cap Actions)
  /\ UNCHANGED <<card, gateVars, outcomeVars, pressVars, faults>>

CardShows(r) ==
  /\ call[r] = "posting" /\ card[r] = "none"
  /\ card' = [card EXCEPT ![r] = "buttons"]
  /\ UNCHANGED <<call, rows, gateVars, outcomeVars, pressVars, faults>>

(* deliver returns, at once when the channel has no adapter: the row of a  *)
(* credential, its promise and its timer.                                  *)
CardSent(r) ==
  /\ call[r] = "posting"
  /\ call' = [call EXCEPT ![r] = "done"]
  /\ rows' = rows \cup ({r} \cap Credentials)
  /\ waiting' = waiting \cup ({r} \cap Credentials)
  /\ UNCHANGED <<card, promise, expiring, outcomeVars, pressVars, faults>>

(* deliver throws, whether or not the card was posted.                     *)
CardFails(r) ==
  /\ Fault
  /\ call[r] = "posting" /\ call' = [call EXCEPT ![r] = "done"]
  /\ Fails(r)
  /\ UNCHANGED <<rows, card, waiting, expiring, applied, doubtful, pressVars>>

-----------------------------------------------------------------------------
(* Answering.                                                              *)

Value(r, label) == IF r \in rows THEN label ELSE "index"

(* onAction of the bridge, up to the edit of the card.                     *)
Click(r, by, label) ==
  /\ clicked < MaxClicks /\ clicked' = clicked + 1
  /\ card[r] = "buttons"
  /\ click' = [click EXCEPT ![clicked'] =
       [at |-> "editing", req |-> r, by |-> by, label |-> label, value |-> Value(r, label)]]
  /\ consented' = consented \cup {q \in {r} : by = "approver" /\ label = "approve"}
  /\ UNCHANGED <<requestVars, gateVars, outcomeVars, faults>>

At(n, step) == n \in Clicks /\ click[n].at = step

Done(n) == click' = [click EXCEPT ![n] = NotClicked]

(* The edit of the card replaces its buttons, or fails.                    *)
Edit(r) == card' \in {card, [card EXCEPT ![r] = "answered"]}

(* A handler for the same action runs already.                             *)
Applying(a) == \E n \in Clicks : At(n, "applying") /\ click[n].req = a

Doubt(a) == doubtful' = doubtful \cup {b \in {a} : Applying(b)}

(* Mutant of Entitled: everybody is. *)
EntitledAll(n) == TRUE

(* isAuthorizedApprovalClick. *)
Entitled(n) == click[n].by = "approver"

(* No handler claims it, or approvals ignores it.                          *)
Ignored(n) ==
  /\ At(n, "editing") /\ Edit(click[n].req) /\ Done(n)
  /\ click[n].req \notin rows \/ ~Entitled(n)
  /\ UNCHANGED <<call, rows, gateVars, outcomeVars, clicked, consented, faults>>

(* resolveOneCLIApproval: anything but "approve" denies.                   *)
Decision(n) == IF click[n].value = "approve" THEN "approve" ELSE "deny"

(* Mutant of ClickDecides: the promise stays in the Map. *)
ClickDecidesKeep(n) ==
  /\ At(n, "editing") /\ Edit(click[n].req) /\ Done(n)
  /\ Entitled(n)
  /\ LET c == click[n].req IN
       /\ c \in rows \cap Credentials
       /\ IF c \in waiting THEN Returns(c, Decision(n)) ELSE UNCHANGED promise
       /\ rows' = rows \ {c}
  /\ UNCHANGED waiting
  /\ UNCHANGED <<call, expiring, outcomeVars, clicked, consented, faults>>

(* Without a promise to resolve the row is only dropped.                   *)
ClickDecides(n) ==
  /\ At(n, "editing") /\ Edit(click[n].req) /\ Done(n)
  /\ Entitled(n)
  /\ LET c == click[n].req IN
       /\ c \in rows \cap Credentials
       /\ IF c \in waiting THEN Returns(c, Decision(n)) ELSE UNCHANGED promise
       /\ waiting' = waiting \ {c} /\ rows' = rows \ {c}
  /\ UNCHANGED <<call, expiring, outcomeVars, clicked, consented, faults>>

ClickRejects(n) ==
  /\ At(n, "editing") /\ Edit(click[n].req) /\ Done(n)
  /\ Entitled(n) /\ click[n].value # "approve"
  /\ LET a == click[n].req IN
       /\ a \in rows \cap Actions
       /\ Tell(a, "rejected") /\ rows' = rows \ {a} /\ Doubt(a)
  /\ UNCHANGED <<call, gateVars, applied, clicked, consented, faults>>

(* The handler is called, and awaited while the row stays; or there is     *)
(* none.                                                                   *)
ClickApproves(n) ==
  /\ At(n, "editing") /\ Edit(click[n].req)
  /\ Entitled(n) /\ click[n].value = "approve"
  /\ LET a == click[n].req IN
       /\ a \in rows \cap Actions
       /\ IF a \in Handled
          THEN click' = [click EXCEPT ![n].at = "applying"] /\ UNCHANGED <<rows, told>>
          ELSE Done(n) /\ Tell(a, "no handler") /\ rows' = rows \ {a}
       /\ Doubt(a)
  /\ UNCHANGED <<call, gateVars, applied, clicked, consented, faults>>

(* Mutant of Applied: the row of an applied action stays. *)
AppliedKeep(n, ok) ==
  /\ At(n, "applying") /\ Done(n)
  /\ LET a == click[n].req IN
       /\ applied' = [applied EXCEPT ![a] = @ + 1]
       /\ IF ok THEN UNCHANGED told ELSE Tell(a, "not applied")
       /\ UNCHANGED rows
  /\ UNCHANGED <<call, card, gateVars, doubtful, clicked, consented, faults>>

(* The handler returns, or throws with whatever effect it had; the row     *)
(* goes now.                                                               *)
Applied(n, ok) ==
  /\ At(n, "applying") /\ Done(n)
  /\ LET a == click[n].req IN
       /\ applied' \in {[applied EXCEPT ![a] = @ + 1]} \cup (IF ok THEN {} ELSE {applied})
       /\ IF ok THEN UNCHANGED told ELSE Tell(a, "not applied")
       /\ rows' = rows \ {a}
  /\ UNCHANGED <<call, card, gateVars, doubtful, clicked, consented, faults>>

-----------------------------------------------------------------------------
(* Time and restarts.                                                      *)

(* Mutant of TimeUp: the callback is left without an answer. *)
TimeUpSilently(c) ==
  /\ c \in waiting /\ waiting' = waiting \ {c}
  /\ expiring' = expiring \cup ({c} \cap rows)
  /\ UNCHANGED <<requestVars, promise, outcomeVars, pressVars, faults>>

(* The timer of a promise.                                                 *)
TimeUp(c) ==
  /\ c \in waiting /\ waiting' = waiting \ {c}
  /\ Returns(c, "deny")
  /\ expiring' = expiring \cup ({c} \cap rows)
  /\ UNCHANGED <<requestVars, outcomeVars, pressVars, faults>>

(* The card has been edited, unless that failed or its id is not known.    *)
Expired(c) ==
  /\ c \in expiring /\ expiring' = expiring \ {c}
  /\ card' \in {card, [card EXCEPT ![c] = "expired"]}
  /\ rows' = rows \ {c}
  /\ UNCHANGED <<call, promise, waiting, outcomeVars, pressVars, faults>>

(* The host dies and starts again: what was in memory is lost, a handler   *)
(* may have had its effect, and the rows of the gateway's requests are     *)
(* swept.                                                                  *)
HostRestarts ==
  /\ Fault
  /\ call' = [r \in Requests |-> IF call[r] \in {"picking", "posting"} THEN "lost" ELSE call[r]]
  /\ click' = [n \in Clicks |-> NotClicked]
  /\ promise' = [c \in Credentials |-> IF promise[c] = "pending" THEN "lost" ELSE promise[c]]
  /\ waiting' = {} /\ expiring' = rows \cap Credentials
  /\ doubtful' = doubtful \cup {a \in Actions : Applying(a)}
  /\ \E had \in SUBSET {a \in Actions : Applying(a)} :
       applied' = [a \in Actions |-> IF a \in had THEN applied[a] + 1 ELSE applied[a]]
  /\ UNCHANGED <<rows, card, told, clicked, consented>>

-----------------------------------------------------------------------------
Calls(r) ==
  \/ Request(r) \/ NobodyReachable(r) \/ SendCard(r)
  \/ CardShows(r) \/ CardSent(r) \/ CardFails(r)

Dispatch(n) ==
  \/ Ignored(n) \/ ClickDecides(n) \/ ClickRejects(n) \/ ClickApproves(n)
  \/ \E ok \in BOOLEAN : Applied(n, ok)

ApprovalsNext ==
  \/ \E r \in Requests : Calls(r)
  \/ \E r \in Requests, by \in Roles, label \in Labels : Click(r, by, label)
  \/ \E n \in Clicks : Dispatch(n)
  \/ \E c \in Credentials : TimeUp(c) \/ Expired(c)
  \/ HostRestarts

ApprovalsSpec == ApprovalsInit /\ [][ApprovalsNext]_approvalsVars

(* Calls of the adapter return or throw, and timers fire.                  *)
ApprovalsFairness ==
  \A c \in Credentials :
    /\ WF_approvalsVars(NobodyReachable(c) \/ SendCard(c))
    /\ WF_approvalsVars(CardSent(c))
    /\ WF_approvalsVars(TimeUp(c)) /\ WF_approvalsVars(Expired(c))

ApprovalsFairSpec == ApprovalsSpec /\ ApprovalsFairness

-----------------------------------------------------------------------------
(***************************************************************************)
(* Properties.                                                             *)
(***************************************************************************)

(* Whatever presses, timers and restarts do to a credential's request, the *)
(* gateway gets one verdict, and never a grant without the approver's.     *)
V == INSTANCE Verdict WITH
  verdict <- [c \in Credentials |->
    CASE promise[c] = "none" -> "unasked" [] promise[c] = "pending" -> "open"
      [] promise[c] = "approve" -> "granted" [] OTHER -> "refused"],
  consent <- consented \cap Credentials

OneVerdict == V!VerdictSpec

(* An action takes effect only for an approver's consent, and a second     *)
(* time, or after the agent was told that it was rejected, only if it was  *)
(* answered again while its handler ran or a crash cut the handler off.    *)
AppliedOnce ==
  \A a \in Actions :
    /\ applied[a] > 0 => a \in consented
    /\ applied[a] > 1 \/ (applied[a] > 0 /\ "rejected" \in told[a]) => a \in doubtful

(* A request whose call has ended waits for its answer, took effect, or    *)
(* the agent knows why not: no order of presses, failures and restarts     *)
(* drops it silently.                                                      *)
NothingDropped ==
  \A a \in Actions :
    call[a] = "done" => a \in rows \/ applied[a] > 0 \/ told[a] # {}

(* Every approved action takes effect once, every other is answered.       *)
ActionsSettled == AppliedOnce /\ NothingDropped

(* The gateway gets an answer, unless its callback died with the host.     *)
GatewayAnswered ==
  \A c \in Credentials : promise[c] = "pending" ~> promise[c] # "pending"

(* The row of a credential's request goes in the end, whoever answers      *)
(* first and whenever the host restarts.                                   *)
CredentialRowsGo ==
  \A c \in Credentials : c \in rows ~> c \notin rows

(* What does not hold.  chat-sdk-bridge.ts: the handlers "resolve the      *)
(* index back to the real value": pressing approve never denies.           *)
ApproveIsNoDenial ==
  [][\A n \in Clicks :
       At(n, "editing") /\ Entitled(n) /\ click[n].label = "approve" /\ ClickDecides(n)
         => promise'[click[n].req] # "deny" \/ promise[click[n].req] = "deny"]_approvalsVars

=============================================================================
