--------------------------- MODULE Approvals_proofs ---------------------------
(***************************************************************************)
(* Theorems of Approvals, for any requests, presses and faults.  An action *)
(* that nobody answered twice has, while it waits, neither been applied    *)
(* nor rejected; the promise of a credential is open exactly as long as    *)
(* somebody may resolve it.                                                *)
(***************************************************************************)
EXTENDS Approvals, TLAPS

Early == {"no", "picking"}

(* How far a call has come bounds what else there is of its request. *)
Calling ==
  /\ \A r \in Requests : call[r] \in Early => card[r] = "none" /\ r \notin rows
  /\ \A a \in Actions :
        /\ call[a] \in Early => applied[a] = 0 /\ told[a] = {}
        /\ call[a] \in {"posting", "done"} =>
             a \in rows \/ applied[a] > 0 \/ told[a] # {}
  /\ \A c \in Credentials :
        /\ c \in rows \cup expiring => call[c] \in {"done", "lost"}
        /\ c \in waiting => call[c] = "done" /\ c \notin expiring

Applies(n, a) == click[n].at = "applying" /\ click[n].req = a

(* What a press on its way says of its request. *)
Presses ==
  \A n \in Clicks : click[n] # NotClicked =>
    /\ n <= clicked
    /\ call[click[n].req] \notin Early
    /\ click[n].at = "applying" =>
         click[n].req \in Actions /\ click[n].req \in consented
    /\ Entitled(n) /\ click[n].value = "approve" => click[n].req \in consented

(* An action without doubt is applied at most once, by one press, and not  *)
(* while its row is there.                                                 *)
Once ==
  \A a \in Actions :
    /\ applied[a] > 0 => a \in consented
    /\ a \notin doubtful =>
         /\ applied[a] <= 1
         /\ a \in rows => applied[a] = 0
         /\ "rejected" \in told[a] => applied[a] = 0 /\ a \notin rows
         /\ \A n \in Clicks : Applies(n, a) =>
              /\ applied[a] = 0 /\ "rejected" \notin told[a]
              /\ \A k \in Clicks : Applies(k, a) => k = n

(* The promise of a credential. *)
Promised ==
  \A c \in Credentials :
    /\ promise[c] = "none" <=> call[c] = "no"
    /\ call[c] \in {"picking", "posting"} \/ c \in waiting => promise[c] = "pending"

ApprovalsInv == ApprovalsTypeOK /\ Calling /\ Presses /\ Once /\ Promised

-----------------------------------------------------------------------------
LEMMA RequestKinds ==
  ASSUME NEW r \in Requests
  PROVE  /\ r \in Actions \/ r \in Credentials
         /\ ~(r \in Actions /\ r \in Credentials)
BY ApprovalsConstants DEF Requests

(* The shape of a press. *)
LEMMA PressShape ==
  ASSUME ApprovalsTypeOK, NEW n \in Clicks, click[n].at \in {"editing", "applying"}
  PROVE  /\ click[n] \in Pressed /\ click[n] # NotClicked
         /\ click[n].req \in Requests
<1>1. click[n] \in Pressed \cup {NotClicked}
  BY DEF ApprovalsTypeOK
<1>2. NotClicked.at = "no"
  BY DEF NotClicked
<1>3. click[n] # NotClicked /\ click[n] \in Pressed
  BY <1>1, <1>2
<1> QED
  BY <1>3 DEF Pressed

LEMMA FaultStep ==
  ASSUME ApprovalsTypeOK, Fault
  PROVE  faults' \in 0 .. MaxFaults
<1>1. faults \in 0 .. MaxFaults
  BY DEF ApprovalsTypeOK
<1> QED
  BY <1>1, FaultBound DEF Fault

LEMMA InitInv == ApprovalsInit => ApprovalsInv
<1> SUFFICES ASSUME ApprovalsInit PROVE ApprovalsInv
  OBVIOUS
<1>1. ApprovalsTypeOK
  BY FaultBound, ApprovalsConstants DEF ApprovalsInit, ApprovalsTypeOK
<1>2. Calling
  BY DEF ApprovalsInit, Calling, Early, Requests
<1>3. Presses /\ Once /\ Promised
  BY DEF ApprovalsInit, Presses, Once, Promised, Applies, NotClicked, Requests
<1> QED
  BY <1>1, <1>2, <1>3 DEF ApprovalsInv

-----------------------------------------------------------------------------
(* The steps of a call leave the presses alone. *)

LEMMA PressesStay ==
  ASSUME ApprovalsInv, UNCHANGED <<click, clicked, consented>>,
         \A r \in Requests : call[r] \notin Early => call'[r] \notin Early
  PROVE  Presses'
<1> SUFFICES ASSUME NEW n \in Clicks, click[n] # NotClicked
             PROVE  /\ n <= clicked
                    /\ call'[click[n].req] \notin Early
                    /\ click[n].at = "applying" =>
                         click[n].req \in Actions /\ click[n].req \in consented
                    /\ Entitled(n) /\ click[n].value = "approve" => click[n].req \in consented
  BY DEF Presses, Entitled
<1>1. click[n].req \in Requests
  BY DEF ApprovalsInv, ApprovalsTypeOK, Pressed, NotClicked
<1> QED
  BY <1>1 DEF ApprovalsInv, Presses

LEMMA RequestInv ==
  ASSUME ApprovalsInv, NEW r \in Requests, Request(r)
  PROVE  ApprovalsInv'
<1>1. /\ call[r] = "no" /\ call' = [call EXCEPT ![r] = "picking"]
      /\ promise' = [c \in Credentials |-> IF c = r THEN "pending" ELSE promise[c]]
      /\ UNCHANGED <<rows, card, waiting, expiring, applied, told, doubtful>>
      /\ UNCHANGED <<click, clicked, consented, faults>>
  BY DEF Request, outcomeVars, pressVars
<1>2. call \in [Requests -> {"no", "picking", "posting", "done", "lost"}]
      /\ promise \in [Credentials -> {"none", "pending", "approve", "deny", "lost"}]
  BY DEF ApprovalsInv, ApprovalsTypeOK
<1>3. ApprovalsTypeOK'
  BY <1>1, <1>2 DEF ApprovalsInv, ApprovalsTypeOK
<1>4. Calling'
  BY <1>1, <1>2 DEF ApprovalsInv, Calling, Early, Requests
<1>5. Presses'
  BY <1>1, <1>2, PressesStay DEF Early
<1>6. Once'
  BY <1>1 DEF ApprovalsInv, Once, Applies
<1>7. Promised'
  BY <1>1, <1>2 DEF ApprovalsInv, Promised, Calling, Requests
<1> QED
  BY <1>3, <1>4, <1>5, <1>6, <1>7 DEF ApprovalsInv

(* A call that fails tells the agent, or denies the gateway. *)
LEMMA FailsInv ==
  ASSUME ApprovalsInv, NEW r \in Requests,
         call[r] \in {"picking", "posting"}, call' = [call EXCEPT ![r] = "done"],
         Fails(r), faults' \in 0 .. MaxFaults,
         UNCHANGED <<rows, card, waiting, expiring, applied, doubtful>>,
         UNCHANGED <<click, clicked, consented>>
  PROVE  ApprovalsInv'
<1> DEFINE Told == {"failed", "rejected", "no handler", "not applied"}
<1>1. /\ call \in [Requests -> {"no", "picking", "posting", "done", "lost"}]
      /\ promise \in [Credentials -> {"none", "pending", "approve", "deny", "lost"}]
      /\ told \in [Actions -> SUBSET Told]
  BY DEF ApprovalsInv, ApprovalsTypeOK
<1>2. CASE r \in Actions
  <2>1. promise' = promise /\ told' = [told EXCEPT ![r] = @ \cup {"failed"}] /\ r \notin Credentials
    BY <1>2, RequestKinds DEF Fails, Tell
  <2>2. told' \in [Actions -> SUBSET Told]
    BY <1>1, <1>2, <2>1
  <2>3. ApprovalsTypeOK'
    BY <1>1, <2>1, <2>2 DEF ApprovalsInv, ApprovalsTypeOK
  <2>4. Calling'
    <3>1. \A q \in Requests : call'[q] \in Early => call[q] \in Early
      BY <1>1 DEF Early
    <3>2. \A a \in Actions : a # r => told'[a] = told[a]
      BY <1>1, <2>1
    <3>5. told'[r] = told[r] \cup {"failed"}
      BY <1>1, <1>2, <2>1
    <3>6. told'[r] # {}
      BY <3>5
    <3>3. \A q \in Requests : q # r => call'[q] = call[q]
      BY <1>1
    <3>4. call'[r] = "done"
      BY <1>1
    <3> QED
      BY <1>2, <2>1, <3>1, <3>2, <3>3, <3>4, <3>6 DEF ApprovalsInv, Calling, Early, Requests
  <2>5. Once'
    <3>1. \A a \in Actions : "rejected" \in told'[a] => "rejected" \in told[a]
      BY <1>1, <1>2, <2>1
    <3> QED
      BY <3>1 DEF ApprovalsInv, Once, Applies
  <2>6. Promised'
    BY <1>1, <1>2, <2>1 DEF ApprovalsInv, Promised, Requests
  <2>7. Presses'
    BY <1>1, PressesStay DEF Early
  <2> QED
    BY <2>3, <2>4, <2>5, <2>6, <2>7 DEF ApprovalsInv
<1>3. CASE r \in Credentials
  <2>1. told' = told /\ promise' = [promise EXCEPT ![r] = "deny"] /\ r \notin Actions
    BY <1>3, RequestKinds DEF Fails, Returns
  <2>2. ApprovalsTypeOK'
    BY <1>1, <1>3, <2>1 DEF ApprovalsInv, ApprovalsTypeOK
  <2>3. Calling'
    BY <1>1, <1>3, <2>1 DEF ApprovalsInv, Calling, Early, Requests
  <2>4. Once'
    BY <2>1 DEF ApprovalsInv, Once, Applies
  <2>5. Promised'
    BY <1>1, <1>3, <2>1 DEF ApprovalsInv, Promised, Calling, Requests
  <2>6. Presses'
    BY <1>1, PressesStay DEF Early
  <2> QED
    BY <2>2, <2>3, <2>4, <2>5, <2>6 DEF ApprovalsInv
<1> QED
  BY <1>2, <1>3, RequestKinds

LEMMA SendCardInv ==
  ASSUME ApprovalsInv, NEW r \in Requests, SendCard(r)
  PROVE  ApprovalsInv'
<1>1. /\ call[r] = "picking" /\ call' = [call EXCEPT ![r] = "posting"]
      /\ rows' = rows \cup ({r} \cap Actions)
      /\ UNCHANGED <<card, promise, waiting, expiring, applied, told, doubtful>>
      /\ UNCHANGED <<click, clicked, consented, faults>>
  BY DEF SendCard, gateVars, outcomeVars, pressVars
<1>2. call \in [Requests -> {"no", "picking", "posting", "done", "lost"}]
  BY DEF ApprovalsInv, ApprovalsTypeOK
<1>3. ApprovalsTypeOK'
  BY <1>1, <1>2 DEF ApprovalsInv, ApprovalsTypeOK
<1>4. Calling'
  BY <1>1, <1>2, RequestKinds DEF ApprovalsInv, Calling, Early, Requests
<1>5. Presses'
  BY <1>1, <1>2, PressesStay DEF Early
<1>6. Once'
  <2>1. r \in Actions => applied[r] = 0 /\ told[r] = {}
    BY <1>1 DEF ApprovalsInv, Calling, Early
  <2> QED
    BY <1>1, <2>1 DEF ApprovalsInv, Once, Applies
<1>7. Promised'
  BY <1>1, <1>2 DEF ApprovalsInv, Promised, Requests
<1> QED
  BY <1>3, <1>4, <1>5, <1>6, <1>7 DEF ApprovalsInv

LEMMA CardShowsInv ==
  ASSUME ApprovalsInv, NEW r \in Requests, CardShows(r)
  PROVE  ApprovalsInv'
<1>1. /\ call[r] = "posting" /\ card' = [card EXCEPT ![r] = "buttons"]
      /\ UNCHANGED <<call, rows, promise, waiting, expiring, applied, told, doubtful>>
      /\ UNCHANGED <<click, clicked, consented, faults>>
  BY DEF CardShows, gateVars, outcomeVars, pressVars
<1>2. ApprovalsTypeOK'
  BY <1>1 DEF ApprovalsInv, ApprovalsTypeOK
<1>3. Calling'
  BY <1>1 DEF ApprovalsInv, ApprovalsTypeOK, Calling, Early
<1>4. Presses' /\ Once' /\ Promised'
  BY <1>1, PressesStay DEF ApprovalsInv, Once, Applies, Promised
<1> QED
  BY <1>2, <1>3, <1>4 DEF ApprovalsInv

LEMMA CardSentInv ==
  ASSUME ApprovalsInv, NEW r \in Requests, CardSent(r)
  PROVE  ApprovalsInv'
<1>1. /\ call[r] = "posting" /\ call' = [call EXCEPT ![r] = "done"]
      /\ rows' = rows \cup ({r} \cap Credentials)
      /\ waiting' = waiting \cup ({r} \cap Credentials)
      /\ UNCHANGED <<card, promise, expiring, applied, told, doubtful>>
      /\ UNCHANGED <<click, clicked, consented, faults>>
  BY DEF CardSent, outcomeVars, pressVars
<1>2. call \in [Requests -> {"no", "picking", "posting", "done", "lost"}]
  BY DEF ApprovalsInv, ApprovalsTypeOK
<1>3. ApprovalsTypeOK'
  BY <1>1, <1>2 DEF ApprovalsInv, ApprovalsTypeOK
<1>4. Calling'
  BY <1>1, <1>2, RequestKinds DEF ApprovalsInv, Calling, Early, Requests
<1>5. Presses'
  BY <1>1, <1>2, PressesStay DEF Early
<1>6. Once'
  BY <1>1, RequestKinds DEF ApprovalsInv, Once, Applies
<1>7. Promised'
  BY <1>1, <1>2 DEF ApprovalsInv, Promised, Requests
<1> QED
  BY <1>3, <1>4, <1>5, <1>6, <1>7 DEF ApprovalsInv

LEMMA CallsInv ==
  ASSUME ApprovalsInv, NEW r \in Requests, Calls(r)
  PROVE  ApprovalsInv'
<1>1. CASE NobodyReachable(r)
  BY <1>1, FailsInv DEF NobodyReachable, pressVars, ApprovalsInv, ApprovalsTypeOK
<1>2. CASE CardFails(r)
  <2>1. faults' \in 0 .. MaxFaults
    BY <1>2, FaultStep DEF CardFails, ApprovalsInv
  <2> QED
    BY <1>2, <2>1, FailsInv DEF CardFails, pressVars
<1> QED
  BY <1>1, <1>2, RequestInv, SendCardInv, CardShowsInv, CardSentInv DEF Calls

-----------------------------------------------------------------------------
(* The steps of a press. *)

LEMMA ClickInv ==
  ASSUME ApprovalsInv, NEW r \in Requests, NEW by \in Roles, NEW label \in Labels,
         Click(r, by, label)
  PROVE  ApprovalsInv'
<1> DEFINE new == [at |-> "editing", req |-> r, by |-> by, label |-> label,
                   value |-> Value(r, label)]
<1>1. /\ clicked < MaxClicks /\ clicked' = clicked + 1 /\ card[r] = "buttons"
      /\ click' = [click EXCEPT ![clicked'] = new]
      /\ consented' = consented \cup {q \in {r} : by = "approver" /\ label = "approve"}
      /\ UNCHANGED <<call, rows, card, promise, waiting, expiring, applied, told, doubtful, faults>>
  BY DEF Click, requestVars, gateVars, outcomeVars
<1>2. MaxClicks \in Nat /\ clicked \in 0 .. MaxClicks
  BY ApprovalsConstants DEF ApprovalsInv, ApprovalsTypeOK
<1>3. clicked' \in Clicks /\ clicked' \in 0 .. MaxClicks
  BY <1>1, <1>2 DEF Clicks
<1>4. new \in Pressed /\ new # NotClicked
  BY DEF Pressed, NotClicked, Value, Labels
<1>5. click \in [Clicks -> Pressed \cup {NotClicked}]
  BY DEF ApprovalsInv, ApprovalsTypeOK
<1> HIDE DEF new
<1>6. /\ click' \in [Clicks -> Pressed \cup {NotClicked}]
      /\ click'[clicked'] = new
      /\ \A k \in Clicks : k # clicked' => click'[k] = click[k]
  BY <1>1, <1>3, <1>4, <1>5
<1>7. ApprovalsTypeOK'
  BY <1>1, <1>3, <1>6 DEF ApprovalsInv, ApprovalsTypeOK
<1>8. call[r] \notin Early
  BY <1>1 DEF ApprovalsInv, Calling
<1>9. Calling'
  BY <1>1 DEF ApprovalsInv, Calling
<1>10. Presses'
  <2> SUFFICES ASSUME NEW n \in Clicks, click'[n] # NotClicked
               PROVE  /\ n <= clicked'
                      /\ call[click'[n].req] \notin Early
                      /\ click'[n].at = "applying" =>
                           click'[n].req \in Actions /\ click'[n].req \in consented'
                      /\ click'[n].by = "approver" /\ click'[n].value = "approve"
                           => click'[n].req \in consented'
    BY <1>1 DEF Presses, Entitled
  <2>1. CASE n = clicked'
    <3>1. /\ click'[n].req = r /\ click'[n].at = "editing"
          /\ click'[n].by = by /\ click'[n].value = Value(r, label)
      BY <1>6, <2>1 DEF new
    <3>2. Value(r, label) = "approve" => label = "approve"
      BY DEF Value
    <3> QED
      BY <1>1, <1>3, <1>8, <2>1, <3>1, <3>2
  <2>2. CASE n # clicked'
    <3>1. click'[n] = click[n] /\ n <= clicked
      BY <1>6, <2>2 DEF ApprovalsInv, Presses
    <3> QED
      BY <1>1, <1>2, <1>6, <2>2, <3>1 DEF ApprovalsInv, Presses, Entitled, Clicks
  <2> QED
    BY <2>1, <2>2
<1>11. Once'
  <2>1. click'[clicked'].at = "editing"
    BY <1>6 DEF new
  <2>2. \A k \in Clicks : click'[k].at = "applying" => click'[k] = click[k]
    BY <1>6, <2>1
  <2> QED
    BY <1>1, <2>2 DEF ApprovalsInv, Once, Applies
<1>12. Promised'
  BY <1>1 DEF ApprovalsInv, Promised
<1> QED
  BY <1>7, <1>9, <1>10, <1>11, <1>12 DEF ApprovalsInv

(* The edit of a card is of one that was sent. *)
LEMMA EditStep ==
  ASSUME ApprovalsInv, NEW r \in Requests, call[r] \notin Early, Edit(r)
  PROVE  /\ card' \in [Requests -> {"none", "buttons", "answered", "expired"}]
         /\ \A q \in Requests : call[q] \in Early => card'[q] = "none"
BY DEF ApprovalsInv, ApprovalsTypeOK, Calling, Edit

(* A press that is done. *)
LEMMA PressDone ==
  ASSUME ApprovalsInv, NEW n \in Clicks, Done(n), UNCHANGED <<call, clicked, consented>>
  PROVE  /\ click' \in [Clicks -> Pressed \cup {NotClicked}]
         /\ Presses'
         /\ \A k \in Clicks : click'[k].at = "applying" => k # n /\ click'[k] = click[k]
<1>1. click \in [Clicks -> Pressed \cup {NotClicked}]
  BY DEF ApprovalsInv, ApprovalsTypeOK
<1>2. /\ click' \in [Clicks -> Pressed \cup {NotClicked}]
      /\ click'[n] = NotClicked /\ \A k \in Clicks : k # n => click'[k] = click[k]
  BY <1>1 DEF Done
<1>3. Presses'
  <2> SUFFICES ASSUME NEW k \in Clicks, click'[k] # NotClicked
               PROVE  /\ k <= clicked
                      /\ call[click[k].req] \notin Early
                      /\ click[k].at = "applying" =>
                           click[k].req \in Actions /\ click[k].req \in consented
                      /\ Entitled(k) /\ click[k].value = "approve" => click[k].req \in consented
    BY <1>2 DEF Presses, Entitled
  <2> QED
    BY <1>2 DEF ApprovalsInv, Presses
<1>4. NotClicked.at = "no"
  BY DEF NotClicked
<1> QED
  BY <1>2, <1>3, <1>4

LEMMA IgnoredInv ==
  ASSUME ApprovalsInv, NEW n \in Clicks, Ignored(n)
  PROVE  ApprovalsInv'
<1>1. /\ click[n].at = "editing" /\ Edit(click[n].req) /\ Done(n)
      /\ UNCHANGED <<call, rows, promise, waiting, expiring, applied, told, doubtful>>
      /\ UNCHANGED <<clicked, consented, faults>>
  BY DEF Ignored, At, gateVars, outcomeVars
<1>2. click[n].req \in Requests /\ call[click[n].req] \notin Early
  BY <1>1, PressShape DEF ApprovalsInv, Presses
<1>3. /\ card' \in [Requests -> {"none", "buttons", "answered", "expired"}]
      /\ \A q \in Requests : call[q] \in Early => card'[q] = "none"
  BY <1>1, <1>2, EditStep
<1>4. /\ click' \in [Clicks -> Pressed \cup {NotClicked}] /\ Presses'
      /\ \A k \in Clicks : click'[k].at = "applying" => k # n /\ click'[k] = click[k]
  BY <1>1, PressDone
<1>5. ApprovalsTypeOK'
  BY <1>1, <1>3, <1>4 DEF ApprovalsInv, ApprovalsTypeOK
<1>6. Calling'
  BY <1>1, <1>3 DEF ApprovalsInv, Calling
<1>7. Once' /\ Promised'
  BY <1>1, <1>4 DEF ApprovalsInv, Once, Applies, Promised
<1> QED
  BY <1>4, <1>5, <1>6, <1>7 DEF ApprovalsInv

LEMMA ClickDecidesInv ==
  ASSUME ApprovalsInv, NEW n \in Clicks, ClickDecides(n)
  PROVE  ApprovalsInv'
<1> DEFINE c == click[n].req
<1>1. /\ click[n].at = "editing" /\ Edit(c) /\ Done(n)
      /\ c \in rows \cap Credentials
      /\ IF c \in waiting THEN Returns(c, Decision(n)) ELSE UNCHANGED promise
      /\ waiting' = waiting \ {c} /\ rows' = rows \ {c}
      /\ UNCHANGED <<call, expiring, applied, told, doubtful>>
      /\ UNCHANGED <<clicked, consented, faults>>
  BY DEF ClickDecides, At, outcomeVars
<1>2. c \in Requests /\ call[c] \notin Early
  BY <1>1, PressShape DEF ApprovalsInv, Presses
<1> HIDE DEF c
<1>3. /\ card' \in [Requests -> {"none", "buttons", "answered", "expired"}]
      /\ \A q \in Requests : call[q] \in Early => card'[q] = "none"
  BY <1>1, <1>2, EditStep
<1>4. /\ click' \in [Clicks -> Pressed \cup {NotClicked}] /\ Presses'
      /\ \A k \in Clicks : click'[k].at = "applying" => k # n /\ click'[k] = click[k]
  BY <1>1, PressDone
<1>5. /\ promise' \in [Credentials -> {"none", "pending", "approve", "deny", "lost"}]
      /\ \A d \in Credentials : d # c => promise'[d] = promise[d]
      /\ promise'[c] = "none" <=> promise[c] = "none"
  BY <1>1 DEF ApprovalsInv, ApprovalsTypeOK, Promised, Returns, Decision
<1>6. ApprovalsTypeOK'
  BY <1>1, <1>3, <1>4, <1>5 DEF ApprovalsInv, ApprovalsTypeOK
<1>7. Calling'
  BY <1>1, <1>2, <1>3, RequestKinds DEF ApprovalsInv, Calling
<1>8. Once'
  BY <1>1, <1>2, <1>4, RequestKinds DEF ApprovalsInv, Once, Applies
<1>9. Promised'
  BY <1>1, <1>5 DEF ApprovalsInv, Promised, Calling
<1> QED
  BY <1>4, <1>6, <1>7, <1>8, <1>9 DEF ApprovalsInv

(* What an action's agent is told, besides. *)
LEMMA ToldStep ==
  ASSUME ApprovalsInv, NEW a \in Actions,
         NEW what \in {"failed", "rejected", "no handler", "not applied"}, Tell(a, what)
  PROVE  /\ told' \in [Actions -> SUBSET {"failed", "rejected", "no handler", "not applied"}]
         /\ told'[a] = told[a] \cup {what} /\ told'[a] # {}
         /\ \A b \in Actions : b # a => told'[b] = told[b]
<1> DEFINE Told == {"failed", "rejected", "no handler", "not applied"}
<1>1. told \in [Actions -> SUBSET Told]
  BY DEF ApprovalsInv, ApprovalsTypeOK
<1>2. told' = [told EXCEPT ![a] = @ \cup {what}]
  BY DEF Tell
<1>3. told'[a] = told[a] \cup {what}
  BY <1>1, <1>2
<1> QED
  BY <1>1, <1>2, <1>3

LEMMA ClickRejectsInv ==
  ASSUME ApprovalsInv, NEW n \in Clicks, ClickRejects(n)
  PROVE  ApprovalsInv'
<1> DEFINE a == click[n].req
<1>1. /\ click[n].at = "editing" /\ Edit(a) /\ Done(n)
      /\ a \in rows \cap Actions
      /\ Tell(a, "rejected") /\ rows' = rows \ {a}
      /\ doubtful' = doubtful \cup {b \in {a} : Applying(b)}
      /\ UNCHANGED <<call, promise, waiting, expiring, applied>>
      /\ UNCHANGED <<clicked, consented, faults>>
  BY DEF ClickRejects, At, gateVars, Doubt
<1>2. a \in Requests /\ call[a] \notin Early
  BY <1>1, PressShape DEF ApprovalsInv, Presses
<1> HIDE DEF a
<1>3. /\ card' \in [Requests -> {"none", "buttons", "answered", "expired"}]
      /\ \A q \in Requests : call[q] \in Early => card'[q] = "none"
  BY <1>1, <1>2, EditStep
<1>4. /\ click' \in [Clicks -> Pressed \cup {NotClicked}] /\ Presses'
      /\ \A k \in Clicks : click'[k].at = "applying" => k # n /\ click'[k] = click[k]
  BY <1>1, PressDone
<1>5. /\ told' \in [Actions -> SUBSET {"failed", "rejected", "no handler", "not applied"}]
      /\ told'[a] # {}
      /\ \A b \in Actions : b # a => told'[b] = told[b]
  BY <1>1, ToldStep
<1>6. a \notin Credentials
  BY <1>1, <1>2, RequestKinds
<1>7. ApprovalsTypeOK'
  BY <1>1, <1>3, <1>4, <1>5, <1>6 DEF ApprovalsInv, ApprovalsTypeOK
<1>8. Calling'
  BY <1>1, <1>2, <1>3, <1>5 DEF ApprovalsInv, Calling
<1>9. Once'
  <2>1. a \notin doubtful' => ~ Applying(a) /\ a \notin doubtful
    BY <1>1
  <2>2. doubtful \subseteq doubtful'
    BY <1>1
  <2> SUFFICES ASSUME NEW b \in Actions
               PROVE  /\ applied[b] > 0 => b \in consented
                      /\ b \notin doubtful' =>
                           /\ applied[b] <= 1
                           /\ b \in rows' => applied[b] = 0
                           /\ "rejected" \in told'[b] => applied[b] = 0 /\ b \notin rows'
                           /\ \A m \in Clicks : click'[m].at = "applying" /\ click'[m].req = b =>
                                /\ applied[b] = 0 /\ "rejected" \notin told'[b]
                                /\ \A k \in Clicks :
                                     click'[k].at = "applying" /\ click'[k].req = b => k = m
    BY <1>1 DEF Once, Applies
  <2>3. CASE b = a
    <3>1. b \notin doubtful' =>
            \A m \in Clicks : ~ (click'[m].at = "applying" /\ click'[m].req = b)
      BY <1>4, <2>1, <2>3 DEF Applying, At
    <3> QED
      BY <1>1, <2>1, <2>3, <3>1 DEF ApprovalsInv, Once
  <2>4. CASE b # a
    <3>1. told'[b] = told[b] /\ (b \in rows' <=> b \in rows)
          /\ (b \notin doubtful' => b \notin doubtful)
      BY <1>1, <1>5, <2>2, <2>4
    <3>2. /\ applied[b] > 0 => b \in consented
          /\ b \notin doubtful =>
               /\ applied[b] <= 1
               /\ b \in rows => applied[b] = 0
               /\ "rejected" \in told[b] => applied[b] = 0 /\ b \notin rows
               /\ \A m \in Clicks : click[m].at = "applying" /\ click[m].req = b =>
                    /\ applied[b] = 0 /\ "rejected" \notin told[b]
                    /\ \A k \in Clicks :
                         click[k].at = "applying" /\ click[k].req = b => k = m
      BY DEF ApprovalsInv, Once, Applies
    <3>3. \A m \in Clicks : click'[m].at = "applying" =>
            click[m].at = "applying" /\ click'[m].req = click[m].req
      BY <1>4
    <3> QED
      BY <3>1, <3>2, <3>3
  <2> QED
    BY <2>3, <2>4
<1>10. Promised'
  BY <1>1 DEF ApprovalsInv, Promised
<1> QED
  BY <1>4, <1>7, <1>8, <1>9, <1>10 DEF ApprovalsInv

(* What Once says of one action. *)
LEMMA OnceOf ==
  ASSUME ApprovalsInv, NEW b \in Actions
  PROVE  /\ applied[b] > 0 => b \in consented
         /\ b \notin doubtful =>
              /\ applied[b] <= 1
              /\ b \in rows => applied[b] = 0
              /\ "rejected" \in told[b] => applied[b] = 0 /\ b \notin rows
              /\ \A m \in Clicks : click[m].at = "applying" /\ click[m].req = b =>
                   /\ applied[b] = 0 /\ "rejected" \notin told[b]
                   /\ \A k \in Clicks :
                        click[k].at = "applying" /\ click[k].req = b => k = m
BY DEF ApprovalsInv, Once, Applies

(* Approved, but nobody handles it: the agent is told and the row goes. *)
LEMMA NoHandlerInv ==
  ASSUME ApprovalsInv, NEW n \in Clicks, ClickApproves(n), click[n].req \notin Handled
  PROVE  ApprovalsInv'
<1> DEFINE a == click[n].req
<1>1. /\ click[n].at = "editing" /\ Edit(a) /\ Done(n)
      /\ a \in rows \cap Actions
      /\ Tell(a, "no handler") /\ rows' = rows \ {a}
      /\ doubtful' = doubtful \cup {b \in {a} : Applying(b)}
      /\ UNCHANGED <<call, promise, waiting, expiring, applied>>
      /\ UNCHANGED <<clicked, consented, faults>>
  BY DEF ClickApproves, At, gateVars, Doubt
<1>2. a \in Requests /\ call[a] \notin Early
  BY <1>1, PressShape DEF ApprovalsInv, Presses
<1> HIDE DEF a
<1>3. /\ card' \in [Requests -> {"none", "buttons", "answered", "expired"}]
      /\ \A q \in Requests : call[q] \in Early => card'[q] = "none"
  BY <1>1, <1>2, EditStep
<1>4. /\ click' \in [Clicks -> Pressed \cup {NotClicked}] /\ Presses'
      /\ \A k \in Clicks : click'[k].at = "applying" => k # n /\ click'[k] = click[k]
  BY <1>1, PressDone
<1>5. /\ told' \in [Actions -> SUBSET {"failed", "rejected", "no handler", "not applied"}]
      /\ told'[a] # {}
      /\ \A b \in Actions : b # a => told'[b] = told[b]
  BY <1>1, ToldStep
<1>11. "rejected" \in told'[a] => "rejected" \in told[a]
  BY <1>1, ToldStep
<1>6. a \notin Credentials
  BY <1>1, <1>2, RequestKinds
<1>7. ApprovalsTypeOK'
  BY <1>1, <1>3, <1>4, <1>5, <1>6 DEF ApprovalsInv, ApprovalsTypeOK
<1>8. Calling'
  BY <1>1, <1>2, <1>3, <1>5 DEF ApprovalsInv, Calling
<1>9. Once'
  <2>1. /\ doubtful \subseteq doubtful' /\ rows' \subseteq rows
        /\ \A b \in Actions : "rejected" \in told'[b] => "rejected" \in told[b]
    BY <1>1, <1>5, <1>11
  <2>2. \A m \in Clicks : click'[m].at = "applying" =>
          click[m].at = "applying" /\ click'[m].req = click[m].req
    BY <1>4
  <2> SUFFICES ASSUME NEW b \in Actions
               PROVE  /\ applied[b] > 0 => b \in consented
                      /\ b \notin doubtful' =>
                           /\ applied[b] <= 1
                           /\ b \in rows' => applied[b] = 0
                           /\ "rejected" \in told'[b] => applied[b] = 0 /\ b \notin rows'
                           /\ \A m \in Clicks : click'[m].at = "applying" /\ click'[m].req = b =>
                                /\ applied[b] = 0 /\ "rejected" \notin told'[b]
                                /\ \A k \in Clicks :
                                     click'[k].at = "applying" /\ click'[k].req = b => k = m
    BY <1>1 DEF Once, Applies
  <2> QED
    <3>1. "rejected" \in told'[b] => "rejected" \in told[b]
      BY <2>1
    <3>2. b \notin doubtful' => b \notin doubtful
      BY <2>1
    <3> QED
      BY <2>1, <2>2, <3>1, <3>2, OnceOf
<1>10. Promised'
  BY <1>1 DEF ApprovalsInv, Promised
<1> QED
  BY <1>4, <1>7, <1>8, <1>9, <1>10 DEF ApprovalsInv

(* Approved: the handler runs, with the row still there. *)
LEMMA HandlerInv ==
  ASSUME ApprovalsInv, NEW n \in Clicks, ClickApproves(n), click[n].req \in Handled
  PROVE  ApprovalsInv'
<1> DEFINE a == click[n].req
<1>1. /\ click[n].at = "editing" /\ Edit(a) /\ Entitled(n) /\ click[n].value = "approve"
      /\ click' = [click EXCEPT ![n].at = "applying"]
      /\ a \in rows \cap Actions
      /\ doubtful' = doubtful \cup {b \in {a} : Applying(b)}
      /\ UNCHANGED <<call, rows, told, promise, waiting, expiring, applied>>
      /\ UNCHANGED <<clicked, consented, faults>>
  BY DEF ClickApproves, At, gateVars, Doubt
<1>2. click[n] \in Pressed /\ click[n] # NotClicked /\ a \in Requests
  BY <1>1, PressShape DEF ApprovalsInv
<1>3. call[a] \notin Early /\ a \in consented /\ n <= clicked
  BY <1>1, <1>2 DEF ApprovalsInv, Presses
<1>4. click \in [Clicks -> Pressed \cup {NotClicked}]
  BY DEF ApprovalsInv, ApprovalsTypeOK
<1>5. /\ click'[n] \in Pressed
      /\ click'[n].req = a /\ click'[n].at = "applying"
  BY <1>1, <1>2, <1>4 DEF Pressed
<1>6. /\ click' \in [Clicks -> Pressed \cup {NotClicked}]
      /\ \A k \in Clicks : k # n => click'[k] = click[k]
  BY <1>1, <1>4, <1>5
<1> HIDE DEF a
<1>7. /\ card' \in [Requests -> {"none", "buttons", "answered", "expired"}]
      /\ \A q \in Requests : call[q] \in Early => card'[q] = "none"
  BY <1>1, <1>2, <1>3, EditStep
<1>8. ApprovalsTypeOK'
  BY <1>1, <1>6, <1>7 DEF ApprovalsInv, ApprovalsTypeOK
<1>9. Calling'
  BY <1>1, <1>7 DEF ApprovalsInv, Calling
<1>10. Presses'
  <2> SUFFICES ASSUME NEW k \in Clicks, click'[k] # NotClicked
               PROVE  /\ k <= clicked
                      /\ call[click'[k].req] \notin Early
                      /\ click'[k].at = "applying" =>
                           click'[k].req \in Actions /\ click'[k].req \in consented
                      /\ click'[k].by = "approver" /\ click'[k].value = "approve"
                           => click'[k].req \in consented
    BY <1>1 DEF Presses, Entitled
  <2>1. CASE k = n
    BY <1>1, <1>3, <1>5, <2>1
  <2>2. CASE k # n
    BY <1>6, <2>2 DEF ApprovalsInv, Presses, Entitled
  <2> QED
    BY <2>1, <2>2
<1>11. Once'
  <2> SUFFICES ASSUME NEW b \in Actions
               PROVE  /\ applied[b] > 0 => b \in consented
                      /\ b \notin doubtful' =>
                           /\ applied[b] <= 1
                           /\ b \in rows => applied[b] = 0
                           /\ "rejected" \in told[b] => applied[b] = 0 /\ b \notin rows
                           /\ \A m \in Clicks : click'[m].at = "applying" /\ click'[m].req = b =>
                                /\ applied[b] = 0 /\ "rejected" \notin told[b]
                                /\ \A k \in Clicks :
                                     click'[k].at = "applying" /\ click'[k].req = b => k = m
    BY <1>1 DEF Once, Applies
  <2>1. CASE b = a
    <3>1. b \notin doubtful' => ~ Applying(b) /\ b \notin doubtful
      BY <1>1, <2>1
    <3>2. b \notin doubtful' =>
            \A k \in Clicks : click'[k].at = "applying" /\ click'[k].req = b => k = n
      BY <1>6, <3>1 DEF Applying, At
    <3> QED
      BY <1>1, <2>1, <3>1, <3>2, OnceOf
  <2>2. CASE b # a
    <3>1. \A k \in Clicks : click'[k].at = "applying" /\ click'[k].req = b =>
            click[k].at = "applying" /\ click[k].req = b
      BY <1>5, <1>6, <2>2
    <3>2. b \notin doubtful' => b \notin doubtful
      BY <1>1
    <3> QED
      BY <3>1, <3>2, OnceOf
  <2> QED
    BY <2>1, <2>2
<1>12. Promised'
  BY <1>1 DEF ApprovalsInv, Promised
<1> QED
  BY <1>8, <1>9, <1>10, <1>11, <1>12 DEF ApprovalsInv

LEMMA AppliedInv ==
  ASSUME ApprovalsInv, NEW n \in Clicks, NEW ok \in BOOLEAN, Applied(n, ok)
  PROVE  ApprovalsInv'
<1> DEFINE a == click[n].req
<1>1. /\ click[n].at = "applying" /\ Done(n)
      /\ applied' \in {[applied EXCEPT ![a] = @ + 1]} \cup (IF ok THEN {} ELSE {applied})
      /\ IF ok THEN UNCHANGED told ELSE Tell(a, "not applied")
      /\ rows' = rows \ {a}
      /\ UNCHANGED <<call, card, promise, waiting, expiring, doubtful>>
      /\ UNCHANGED <<clicked, consented, faults>>
  BY DEF Applied, At, gateVars
<1>2. a \in Requests /\ call[a] \notin Early /\ a \in Actions /\ a \in consented
  BY <1>1, PressShape DEF ApprovalsInv, Presses
<1> HIDE DEF a
<1>3. a \notin Credentials
  BY <1>2, RequestKinds
<1>4. /\ click' \in [Clicks -> Pressed \cup {NotClicked}] /\ Presses'
      /\ \A k \in Clicks : click'[k].at = "applying" => k # n /\ click'[k] = click[k]
  BY <1>1, PressDone
<1>5. applied \in [Actions -> Nat]
      /\ told \in [Actions -> SUBSET {"failed", "rejected", "no handler", "not applied"}]
  BY DEF ApprovalsInv, ApprovalsTypeOK
<1>6. /\ told' \in [Actions -> SUBSET {"failed", "rejected", "no handler", "not applied"}]
      /\ \A b \in Actions : b # a => told'[b] = told[b]
      /\ "rejected" \in told'[a] => "rejected" \in told[a]
      /\ ok \/ told'[a] # {}
  <2>1. CASE ok
    BY <1>1, <1>5, <2>1
  <2>2. CASE ~ ok
    BY <1>1, <1>2, <2>2, ToldStep
  <2> QED
    BY <2>1, <2>2
<1>7. /\ applied' \in [Actions -> Nat]
      /\ \A b \in Actions : b # a => applied'[b] = applied[b]
      /\ applied'[a] <= applied[a] + 1
      /\ ok => applied'[a] > 0
  <2>3. applied[a] \in Nat
    BY <1>2, <1>5
  <2>1. CASE applied' = [applied EXCEPT ![a] = applied[a] + 1]
    <3>1. applied'[a] = applied[a] + 1
      BY <1>2, <1>5, <2>1
    <3>4. applied[a] + 1 \in Nat
      BY <2>3
    <3>2. applied' \in [Actions -> Nat]
      BY <1>5, <2>1, <3>4
    <3>3. \A b \in Actions : b # a => applied'[b] = applied[b]
      BY <1>5, <2>1
    <3> QED
      BY <2>3, <3>1, <3>2, <3>3
  <2>2. CASE ~ ok /\ applied' = applied
    <3>1. applied[a] <= applied[a] + 1
      BY <2>3
    <3>2. applied' \in [Actions -> Nat]
      BY <1>5, <2>2
    <3> QED
      BY <2>2, <3>1, <3>2
  <2> QED
    BY <1>1, <2>1, <2>2
<1>8. ApprovalsTypeOK'
  BY <1>1, <1>3, <1>4, <1>6, <1>7 DEF ApprovalsInv, ApprovalsTypeOK
<1>9. Calling'
  BY <1>1, <1>2, <1>6, <1>7 DEF ApprovalsInv, Calling
<1>10. Once'
  <2> SUFFICES ASSUME NEW b \in Actions
               PROVE  /\ applied'[b] > 0 => b \in consented
                      /\ b \notin doubtful =>
                           /\ applied'[b] <= 1
                           /\ b \in rows' => applied'[b] = 0
                           /\ "rejected" \in told'[b] => applied'[b] = 0 /\ b \notin rows'
                           /\ \A m \in Clicks : click'[m].at = "applying" /\ click'[m].req = b =>
                                /\ applied'[b] = 0 /\ "rejected" \notin told'[b]
                                /\ \A k \in Clicks :
                                     click'[k].at = "applying" /\ click'[k].req = b => k = m
    BY <1>1 DEF Once, Applies
  <2>1. CASE b = a
    <3>1. b \notin doubtful =>
            /\ applied[b] = 0 /\ "rejected" \notin told[b]
            /\ \A k \in Clicks : click[k].at = "applying" /\ click[k].req = b => k = n
      BY <1>1, <2>1, OnceOf DEF a
    <3>2. b \notin doubtful =>
            \A m \in Clicks : ~ (click'[m].at = "applying" /\ click'[m].req = b)
      BY <1>4, <3>1
    <3>3. applied'[b] \in Nat /\ applied[b] \in Nat /\ applied'[b] <= applied[b] + 1
      BY <1>5, <1>7, <2>1
    <3>4. b \notin doubtful => applied'[b] <= 1
      BY <3>1, <3>3
    <3>5. b \notin rows' /\ b \in consented
      BY <1>1, <1>2, <2>1
    <3>6. b \notin doubtful => "rejected" \notin told'[b]
      BY <1>6, <2>1, <3>1
    <3> QED
      BY <3>2, <3>4, <3>5, <3>6
  <2>2. CASE b # a
    <3>1. \A k \in Clicks : click'[k].at = "applying" /\ click'[k].req = b =>
            click[k].at = "applying" /\ click[k].req = b
      BY <1>4
    <3>2. applied'[b] = applied[b] /\ told'[b] = told[b] /\ (b \in rows' <=> b \in rows)
      BY <1>1, <1>6, <1>7, <2>2
    <3> QED
      BY <3>1, <3>2, OnceOf
  <2> QED
    BY <2>1, <2>2
<1>11. Promised'
  BY <1>1 DEF ApprovalsInv, Promised
<1> QED
  BY <1>4, <1>8, <1>9, <1>10, <1>11 DEF ApprovalsInv

LEMMA DispatchInv ==
  ASSUME ApprovalsInv, NEW n \in Clicks, Dispatch(n)
  PROVE  ApprovalsInv'
BY IgnoredInv, ClickDecidesInv, ClickRejectsInv, NoHandlerInv, HandlerInv, AppliedInv
   DEF Dispatch

-----------------------------------------------------------------------------
(* The timers, and the crash. *)

LEMMA TimeUpInv ==
  ASSUME ApprovalsInv, NEW c \in Credentials, TimeUp(c)
  PROVE  ApprovalsInv'
<1>1. /\ c \in waiting /\ waiting' = waiting \ {c}
      /\ promise' = [promise EXCEPT ![c] = "deny"]
      /\ expiring' = expiring \cup ({c} \cap rows)
      /\ UNCHANGED <<call, rows, card, applied, told, doubtful>>
      /\ UNCHANGED <<click, clicked, consented, faults>>
  BY DEF TimeUp, Returns, requestVars, outcomeVars, pressVars
<1>2. ApprovalsTypeOK'
  BY <1>1 DEF ApprovalsInv, ApprovalsTypeOK
<1>3. Calling'
  BY <1>1 DEF ApprovalsInv, Calling
<1>4. Presses' /\ Once'
  BY <1>1, PressesStay DEF ApprovalsInv, Once, Applies
<1>5. Promised'
  BY <1>1 DEF ApprovalsInv, ApprovalsTypeOK, Promised, Calling
<1> QED
  BY <1>2, <1>3, <1>4, <1>5 DEF ApprovalsInv

LEMMA ExpiredInv ==
  ASSUME ApprovalsInv, NEW c \in Credentials, Expired(c)
  PROVE  ApprovalsInv'
<1>1. /\ c \in expiring /\ expiring' = expiring \ {c}
      /\ card' \in {card, [card EXCEPT ![c] = "expired"]}
      /\ rows' = rows \ {c}
      /\ UNCHANGED <<call, promise, waiting, applied, told, doubtful>>
      /\ UNCHANGED <<click, clicked, consented, faults>>
  BY DEF Expired, outcomeVars, pressVars
<1>2. c \in Requests /\ c \notin Actions
  BY ApprovalsConstants DEF Requests
<1>3. call[c] \in {"done", "lost"} /\ c \notin waiting
  BY <1>1 DEF ApprovalsInv, Calling
<1>4. ApprovalsTypeOK'
  BY <1>1, <1>2, <1>3 DEF ApprovalsInv, ApprovalsTypeOK
<1>5. \A r \in Requests : call[r] \in Early => card'[r] = "none"
  BY <1>1, <1>2, <1>3 DEF ApprovalsInv, ApprovalsTypeOK, Calling, Early
<1>6. Calling'
  BY <1>1, <1>2, <1>5 DEF ApprovalsInv, Calling
<1>7. Presses' /\ Once'
  BY <1>1, <1>2, PressesStay DEF ApprovalsInv, Once, Applies
<1>8. Promised'
  BY <1>1 DEF ApprovalsInv, Promised
<1> QED
  BY <1>4, <1>6, <1>7, <1>8 DEF ApprovalsInv

LEMMA HostRestartsInv ==
  ASSUME ApprovalsInv, HostRestarts
  PROVE  ApprovalsInv'
<1> DEFINE Cut == {a \in Actions : Applying(a)}
<1>1. /\ Fault
      /\ call' = [r \in Requests |-> IF call[r] \in {"picking", "posting"} THEN "lost" ELSE call[r]]
      /\ click' = [n \in Clicks |-> NotClicked]
      /\ promise' = [c \in Credentials |-> IF promise[c] = "pending" THEN "lost" ELSE promise[c]]
      /\ waiting' = {} /\ expiring' = rows \cap Credentials
      /\ doubtful' = doubtful \cup Cut
      /\ UNCHANGED <<rows, card, told, clicked, consented>>
  BY DEF HostRestarts
<1>2. PICK had \in SUBSET Cut :
        applied' = [a \in Actions |-> IF a \in had THEN applied[a] + 1 ELSE applied[a]]
  BY DEF HostRestarts
<1>3. applied \in [Actions -> Nat] /\ call \in [Requests -> {"no", "picking", "posting", "done", "lost"}]
      /\ promise \in [Credentials -> {"none", "pending", "approve", "deny", "lost"}]
  BY DEF ApprovalsInv, ApprovalsTypeOK
<1>4. \A a \in Cut : a \in Requests /\ call[a] \notin Early /\ a \in consented
  <2> SUFFICES ASSUME NEW a \in Cut PROVE a \in Requests /\ call[a] \notin Early /\ a \in consented
    OBVIOUS
  <2>1. PICK n \in Clicks : click[n].at = "applying" /\ click[n].req = a
    BY DEF Applying, At
  <2> QED
    BY <2>1, PressShape DEF ApprovalsInv, Presses
<1> HIDE DEF Cut
<1>5. \A a \in Actions : a \notin had => applied'[a] = applied[a]
  BY <1>2
<1>6. \A a \in had : a \in Actions => applied'[a] = applied[a] + 1 /\ applied'[a] \in Nat
  BY <1>2, <1>3
<1>7. applied' \in [Actions -> Nat]
  <2>1. \A a \in Actions : (IF a \in had THEN applied[a] + 1 ELSE applied[a]) \in Nat
    BY <1>3
  <2> QED
    BY <1>2, <2>1
<1>8. \A r \in Requests :
        /\ call'[r] \in {"no", "done", "lost"}
        /\ call'[r] = "no" <=> call[r] = "no"
        /\ call'[r] = "done" <=> call[r] = "done"
        /\ call[r] = "lost" => call'[r] = "lost"
  BY <1>1, <1>3
<1>9. ApprovalsTypeOK'
  <2>1. faults' \in 0 .. MaxFaults
    BY <1>1, FaultStep DEF ApprovalsInv
  <2>2. call' \in [Requests -> {"no", "picking", "posting", "done", "lost"}]
    BY <1>1, <1>3
  <2>3. promise' \in [Credentials -> {"none", "pending", "approve", "deny", "lost"}]
    BY <1>1, <1>3
  <2>4. doubtful' \subseteq Actions
    BY <1>1 DEF Cut, ApprovalsInv, ApprovalsTypeOK
  <2> QED
    BY <1>1, <1>7, <2>1, <2>2, <2>3, <2>4 DEF ApprovalsInv, ApprovalsTypeOK
<1>10. Calling'
  <2>1. \A r \in Requests : call'[r] \in Early => card'[r] = "none" /\ r \notin rows'
    BY <1>1, <1>8 DEF ApprovalsInv, Calling, Early
  <2>2. \A a \in Actions : call'[a] \in Early => applied'[a] = 0 /\ told'[a] = {}
    <3> SUFFICES ASSUME NEW a \in Actions, call'[a] \in Early
                 PROVE  applied'[a] = 0 /\ told'[a] = {}
      OBVIOUS
    <3>1. call[a] \in Early
      BY <1>8 DEF Early, Requests
    <3>2. a \notin had
      BY <1>4, <3>1
    <3> QED
      BY <1>1, <1>5, <3>1, <3>2 DEF ApprovalsInv, Calling
  <2>3. \A a \in Actions : call'[a] \in {"posting", "done"} =>
          a \in rows' \/ applied'[a] > 0 \/ told'[a] # {}
    <3> SUFFICES ASSUME NEW a \in Actions, call'[a] \in {"posting", "done"}
                 PROVE  a \in rows \/ applied'[a] > 0 \/ told[a] # {}
      BY <1>1
    <3>1. a \in rows \/ applied[a] > 0 \/ told[a] # {}
      BY <1>8 DEF ApprovalsInv, Calling, Requests
    <3>2. applied[a] > 0 => applied'[a] > 0
      BY <1>3, <1>5, <1>6
    <3> QED
      BY <3>1, <3>2
  <2>4. \A c \in Credentials : c \in rows' \cup expiring' => call'[c] \in {"done", "lost"}
    BY <1>1, <1>8 DEF ApprovalsInv, Calling, Requests
  <2> QED
    BY <1>1, <2>1, <2>2, <2>3, <2>4 DEF Calling
<1>11. Presses'
  BY <1>1 DEF Presses
<1>12. Once'
  <2> SUFFICES ASSUME NEW b \in Actions
               PROVE  /\ applied'[b] > 0 => b \in consented
                      /\ b \notin doubtful' =>
                           /\ applied'[b] <= 1
                           /\ b \in rows => applied'[b] = 0
                           /\ "rejected" \in told[b] => applied'[b] = 0 /\ b \notin rows
    BY <1>1 DEF Once, Applies, NotClicked
  <2>1. CASE b \in had
    BY <1>1, <1>2, <1>4, <2>1
  <2>2. CASE b \notin had
    BY <1>1, <1>5, <2>2, OnceOf
  <2> QED
    BY <2>1, <2>2
<1>13. Promised'
  <2>1. \A c \in Credentials : promise'[c] = "none" <=> promise[c] = "none"
    BY <1>1, <1>3
  <2> QED
    BY <1>1, <1>8, <2>1 DEF ApprovalsInv, Promised, Requests
<1> QED
  BY <1>9, <1>10, <1>11, <1>12, <1>13 DEF ApprovalsInv

LEMMA StepInv ==
  ASSUME ApprovalsInv, [ApprovalsNext]_approvalsVars
  PROVE  ApprovalsInv'
<1>1. CASE UNCHANGED approvalsVars
  <2>1. /\ UNCHANGED <<call, rows, card, promise, waiting, expiring, applied, told, doubtful>>
        /\ UNCHANGED <<click, clicked, consented, faults>>
    BY <1>1 DEF approvalsVars, requestVars, gateVars, outcomeVars, pressVars
  <2> QED
    <3>1. Presses' /\ Once' /\ Promised'
      BY <2>1, PressesStay DEF ApprovalsInv, Once, Applies, Promised
    <3>2. ApprovalsTypeOK' /\ Calling'
      BY <2>1 DEF ApprovalsInv, ApprovalsTypeOK, Calling
    <3> QED
      BY <3>1, <3>2 DEF ApprovalsInv
<1>2. CASE ApprovalsNext
  BY <1>2, CallsInv, ClickInv, DispatchInv, TimeUpInv, ExpiredInv, HostRestartsInv
     DEF ApprovalsNext
<1> QED
  BY <1>1, <1>2

LEMMA Inductive == ApprovalsSpec => []ApprovalsInv
<1>1. ApprovalsInit => ApprovalsInv
  BY InitInv
<1>2. ApprovalsInv /\ [ApprovalsNext]_approvalsVars => ApprovalsInv'
  BY StepInv
<1> QED
  BY <1>1, <1>2, PTL DEF ApprovalsSpec

(* Every variable has its type. *)
THEOREM ApprovalsTyped == ApprovalsSpec => []ApprovalsTypeOK
<1>1. ApprovalsInv => ApprovalsTypeOK
  BY DEF ApprovalsInv
<1> QED
  BY <1>1, Inductive, PTL

(* In whatever order approvers press, calls fail, handlers return and the  *)
(* host restarts, an action takes effect only for a consent, twice only    *)
(* where its handler was overtaken or cut off, and none is dropped.        *)
THEOREM ActionsKept == ApprovalsSpec => []ActionsSettled
<1>1. ApprovalsInv => ActionsSettled
  <2> SUFFICES ASSUME ApprovalsInv PROVE ActionsSettled
    OBVIOUS
  <2>1. applied \in [Actions -> Nat]
    BY DEF ApprovalsInv, ApprovalsTypeOK
  <2>2. AppliedOnce
    BY <2>1, OnceOf DEF AppliedOnce
  <2>3. NothingDropped
    BY DEF ApprovalsInv, Calling, NothingDropped
  <2> QED
    BY <2>2, <2>3 DEF ActionsSettled
<1> QED
  BY <1>1, Inductive, PTL

-----------------------------------------------------------------------------
(* The refinement.  What a step does to a verdict follows from what it     *)
(* does to the promise.                                                    *)

VerdictOf(p) ==
  CASE p = "none" -> "unasked" [] p = "pending" -> "open"
    [] p = "approve" -> "granted" [] OTHER -> "refused"

Verdicts == [c \in Credentials |-> VerdictOf(promise[c])]

Agreed == consented \cap Credentials

LEMMA SameVerdict ==
  ASSUME UNCHANGED <<promise, consented>>
  PROVE  UNCHANGED <<Verdicts, Agreed>>
BY DEF Verdicts, Agreed

LEMMA Opens ==
  ASSUME ApprovalsInv, NEW c \in Credentials, Request(c)
  PROVE  /\ Verdicts[c] = "unasked" /\ Verdicts' = [Verdicts EXCEPT ![c] = "open"]
         /\ UNCHANGED Agreed
<1>1. /\ call[c] = "no" /\ UNCHANGED consented
      /\ promise' = [d \in Credentials |-> IF d = c THEN "pending" ELSE promise[d]]
  BY DEF Request, pressVars
<1>2. promise[c] = "none"
  BY <1>1 DEF ApprovalsInv, Promised
<1> QED
  BY <1>1, <1>2 DEF Verdicts, VerdictOf, Agreed

(* A promise that is open is settled. *)
LEMMA Settles ==
  ASSUME ApprovalsInv, NEW c \in Credentials, promise[c] = "pending",
         NEW decision \in {"approve", "deny"}, Returns(c, decision), UNCHANGED consented
  PROVE  /\ Verdicts[c] = "open" /\ UNCHANGED Agreed
         /\ decision = "approve" => Verdicts' = [Verdicts EXCEPT ![c] = "granted"]
         /\ decision = "deny" =>
              Verdicts' = [d \in Credentials |-> IF d \in {c} THEN "refused" ELSE Verdicts[d]]
<1>1. promise \in [Credentials -> {"none", "pending", "approve", "deny", "lost"}]
  BY DEF ApprovalsInv, ApprovalsTypeOK
<1>2. promise' = [promise EXCEPT ![c] = decision]
  BY DEF Returns
<1> QED
  BY <1>1, <1>2 DEF Verdicts, VerdictOf, Agreed

(* A decision to grant is an approver's. *)
LEMMA DecisionConsented ==
  ASSUME ApprovalsInv, NEW n \in Clicks, ClickDecides(n), Decision(n) = "approve"
  PROVE  click[n].req \in Agreed
<1>1. click[n].at = "editing" /\ Entitled(n) /\ click[n].req \in Credentials
  BY DEF ClickDecides, At
<1>2. click[n].value = "approve"
  BY DEF Decision
<1> QED
  BY <1>1, <1>2, PressShape DEF ApprovalsInv, Presses, Agreed

LEMMA VerdictStep ==
  ASSUME ApprovalsInv, [ApprovalsNext]_approvalsVars
  PROVE  [V!VerdictNext]_(V!verdictVars)
<1> DEFINE Same == UNCHANGED <<Verdicts, Agreed>>
<1> DEFINE Opened(c) ==
      Verdicts[c] = "unasked" /\ Verdicts' = [Verdicts EXCEPT ![c] = "open"] /\ UNCHANGED Agreed
<1> DEFINE Consented(c) ==
      Verdicts[c] # "unasked" /\ Agreed' = Agreed \cup {c} /\ UNCHANGED Verdicts
<1> DEFINE Granted(c) ==
      /\ Verdicts[c] = "open" /\ c \in Agreed
      /\ Verdicts' = [Verdicts EXCEPT ![c] = "granted"] /\ UNCHANGED Agreed
<1> DEFINE Refused(C) ==
      /\ C # {} /\ \A c \in C : Verdicts[c] = "open"
      /\ Verdicts' = [c \in Credentials |-> IF c \in C THEN "refused" ELSE Verdicts[c]]
      /\ UNCHANGED Agreed
<1> DEFINE Allowed ==
      \/ Same \/ \E c \in Credentials : Opened(c) \/ Consented(c) \/ Granted(c)
      \/ \E C \in SUBSET Credentials : Refused(C)
<1>1. Allowed => [V!VerdictNext]_(V!verdictVars)
  <2>2. \A c \in Credentials : Opened(c) => V!Open(c)
    BY DEF V!Open, V!Decide, Verdicts, VerdictOf, Agreed
  <2>3. \A c \in Credentials : Consented(c) => V!Consents(c)
    BY DEF V!Consents, Verdicts, VerdictOf, Agreed
  <2>4. \A c \in Credentials : Granted(c) => V!Grant(c)
    BY DEF V!Grant, V!Decide, Verdicts, VerdictOf, Agreed
  <2>5. \A C \in SUBSET Credentials : Refused(C) => V!RefuseAll(C)
    BY DEF V!RefuseAll, Verdicts, VerdictOf, Agreed
  <2>6. Same => UNCHANGED V!verdictVars
    BY DEF V!verdictVars, Verdicts, VerdictOf, Agreed
  <2> HIDE DEF Same, Opened, Consented, Granted, Refused
  <2> QED
    BY <2>2, <2>3, <2>4, <2>5, <2>6 DEF V!VerdictNext, Allowed
<1>2. ASSUME UNCHANGED approvalsVars PROVE Allowed
  BY <1>2, SameVerdict DEF approvalsVars, gateVars, pressVars
<1>3. ASSUME NEW r \in Requests, Calls(r) PROVE Allowed
  <2>1. CASE Request(r)
    <3>1. CASE r \in Credentials
      BY <2>1, <3>1, Opens
    <3>2. CASE r \notin Credentials
      <4>1. promise' = [c \in Credentials |-> promise[c]] /\ UNCHANGED consented
        BY <2>1, <3>2 DEF Request, pressVars
      <4>2. promise' = promise
        BY <4>1 DEF ApprovalsInv, ApprovalsTypeOK
      <4> QED
        BY <4>1, <4>2, SameVerdict
    <3> QED
      BY <3>1, <3>2
  <2>2. CASE NobodyReachable(r) \/ CardFails(r)
    <3>1. call[r] \in {"picking", "posting"} /\ Fails(r) /\ UNCHANGED consented
      BY <2>2 DEF NobodyReachable, CardFails, pressVars
    <3>2. CASE r \in Actions
      BY <3>1, <3>2, SameVerdict DEF Fails
    <3>3. CASE r \in Credentials
      <4>1. r \notin Actions /\ promise[r] = "pending"
        BY <3>1, <3>3, RequestKinds DEF ApprovalsInv, Promised
      <4>2. Returns(r, "deny")
        BY <3>1, <4>1 DEF Fails
      <4>3. Refused({r})
        BY <3>1, <3>3, <4>1, <4>2, Settles
      <4> QED
        BY <3>3, <4>3
    <3> QED
      BY <3>2, <3>3, RequestKinds
  <2>3. CASE SendCard(r) \/ CardShows(r) \/ CardSent(r)
    BY <2>3, SameVerdict DEF SendCard, CardShows, CardSent, gateVars, pressVars
  <2> QED
    BY <1>3, <2>1, <2>2, <2>3 DEF Calls
<1>4. ASSUME NEW r \in Requests, NEW by \in Roles, NEW label \in Labels, Click(r, by, label)
      PROVE  Allowed
  <2>1. /\ card[r] = "buttons" /\ promise' = promise
        /\ consented' = consented \cup {q \in {r} : by = "approver" /\ label = "approve"}
    BY <1>4 DEF Click, gateVars
  <2>2. Verdicts' = Verdicts
    BY <2>1 DEF Verdicts
  <2>3. CASE r \in Credentials /\ by = "approver" /\ label = "approve"
    <3>1. promise[r] # "none" /\ promise[r] \in {"none", "pending", "approve", "deny", "lost"}
      BY <2>1, <2>3 DEF ApprovalsInv, ApprovalsTypeOK, Calling, Promised, Early
    <3>2. Consented(r)
      BY <2>1, <2>2, <2>3, <3>1 DEF Verdicts, VerdictOf, Agreed
    <3> QED
      BY <2>3, <3>2
  <2>4. CASE ~ (r \in Credentials /\ by = "approver" /\ label = "approve")
    <3>1. Agreed' = Agreed
      BY <2>1, <2>4 DEF Agreed
    <3> QED
      BY <2>2, <3>1
  <2> QED
    BY <2>3, <2>4
<1>5. ASSUME NEW n \in Clicks, Dispatch(n) PROVE Allowed
  <2>1. CASE ClickDecides(n)
    <3> DEFINE c == click[n].req
    <3>1. /\ c \in Credentials /\ UNCHANGED consented
          /\ IF c \in waiting THEN Returns(c, Decision(n)) ELSE UNCHANGED promise
      BY <2>1 DEF ClickDecides
    <3>2. Decision(n) \in {"approve", "deny"}
      BY DEF Decision
    <3>3. Decision(n) = "approve" => c \in Agreed
      BY <2>1, DecisionConsented
    <3> HIDE DEF c
    <3>4. CASE c \in waiting
      <4>1. promise[c] = "pending"
        BY <3>1, <3>4 DEF ApprovalsInv, Promised
      <4>2. Decision(n) = "approve" => Granted(c)
        BY <3>1, <3>3, <3>4, <4>1, Settles
      <4>3. Decision(n) = "deny" => Refused({c})
        BY <3>1, <3>4, <4>1, Settles
      <4> QED
        BY <3>1, <3>2, <4>2, <4>3
    <3>5. CASE c \notin waiting
      BY <3>1, <3>5, SameVerdict
    <3> QED
      BY <3>4, <3>5
  <2>2. CASE ~ ClickDecides(n)
    <3>1. UNCHANGED <<promise, consented>>
      BY <1>5, <2>2 DEF Dispatch, Ignored, ClickRejects, ClickApproves, Applied, gateVars
    <3> QED
      BY <3>1, SameVerdict
  <2> QED
    BY <2>1, <2>2
<1>6. ASSUME NEW c \in Credentials, TimeUp(c) PROVE Allowed
  <2>1. promise[c] = "pending" /\ Returns(c, "deny") /\ UNCHANGED consented
    BY <1>6 DEF TimeUp, pressVars, ApprovalsInv, Promised
  <2>2. Refused({c})
    BY <2>1, Settles
  <2> QED
    BY <2>2
<1>7. ASSUME NEW c \in Credentials, Expired(c) PROVE Allowed
  BY <1>7, SameVerdict DEF Expired, pressVars
<1>8. ASSUME HostRestarts PROVE Allowed
  <2> DEFINE C == {c \in Credentials : promise[c] = "pending"}
  <2>1. /\ UNCHANGED consented
        /\ promise' = [c \in Credentials |-> IF promise[c] = "pending" THEN "lost" ELSE promise[c]]
    BY <1>8 DEF HostRestarts
  <2>2. CASE C = {}
    <3>1. Verdicts' = Verdicts
      BY <2>1, <2>2 DEF Verdicts
    <3> QED
      BY <2>1, <3>1 DEF Agreed
  <2>3. CASE C # {}
    <3>1. /\ \A c \in C : Verdicts[c] = "open"
          /\ Verdicts' = [c \in Credentials |-> IF c \in C THEN "refused" ELSE Verdicts[c]]
      BY <2>1 DEF Verdicts, VerdictOf
    <3>2. Refused(C) /\ C \in SUBSET Credentials
      BY <2>1, <2>3, <3>1 DEF Agreed
    <3> QED
      BY <3>2
  <2> QED
    BY <2>2, <2>3
<1> HIDE DEF Allowed
<1> QED
  BY <1>1, <1>2, <1>3, <1>4, <1>5, <1>6, <1>7, <1>8 DEF ApprovalsNext

(* The gateway's requests, under every order of presses, timers and        *)
(* restarts, implement Verdict: one verdict, no grant without consent.     *)
THEOREM OneVerdictKept == ApprovalsSpec => OneVerdict
<1>1. ApprovalsInit => V!VerdictInit
  BY DEF ApprovalsInit, V!VerdictInit
<1>2. ApprovalsInv /\ [ApprovalsNext]_approvalsVars => [V!VerdictNext]_(V!verdictVars)
  BY VerdictStep
<1> QED
  BY <1>1, <1>2, Inductive, PTL DEF ApprovalsSpec, OneVerdict, V!VerdictSpec

=============================================================================
