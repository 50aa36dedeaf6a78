--------------------------- MODULE Delivery_proofs ---------------------------
(***************************************************************************)
(* Theorems of Delivery, for any sessions, any number of messages,         *)
(* attempts and faults, and any outages.  Guard is the heart of the        *)
(* invariant: what a poll has before it is its own, and still open.        *)
(***************************************************************************)
EXTENDS Delivery, TLAPS, WellFoundedInduction

(* A poll that drains holds its session, alone, and a snapshot of messages *)
(* that are all unsettled; one that does not holds nothing.                *)
Guard ==
  /\ SnapshotsHold
  /\ \A c \in Polls : IF Draining(c) THEN at[c] \in inflight
                      ELSE at[c] = NoSession /\ batch[c] = {}

(* Only messages that were written are shown, settled or sent, and what is *)
(* to be acknowledged has been shown.                                      *)
Traces ==
  /\ \A m \in Msgs \ Written : shown[m] = 0 /\ record[m] = "none" /\ m \notin due
  /\ \A c \in Polls : pc[c] = "sent" => shown[Head(c)] > 0

(* A message is shown once more than the faults account for only when that *)
(* is on record, or about to be.                                           *)
Landed(m) == \E c \in Polls : pc[c] = "sent" /\ Head(c) = m

Showings ==
  \A m \in Msgs : shown[m] <= faults + (IF record[m] # "none" \/ Landed(m) THEN 1 ELSE 0)

(* The row of a card that is, or may be, on the screen. *)
Asked ==
  /\ CardsAnswerable
  /\ \A c \in Polls :
        pc[c] \in {"sending", "sent", "hung"} /\ Head(c) \in cards =>
           Head(c) \in questions \cup answered

(* What a snapshot leaves out of a session has been deferred or delayed,   *)
(* has been settled, or is newer.                                          *)
Order ==
  /\ NoOvertaking
  /\ \A m \in Written, n \in Msgs : n < m => n \in Written
  /\ Written \ due \subseteq delayed
  /\ \A c \in Polls : Draining(c) =>
        \A n \in batch[c], m \in Written :
           owner[m] = at[c] /\ m < n /\ record[m] = "none" /\ m \notin delayed =>
              m \in batch[c]

-----------------------------------------------------------------------------
(* The head of a batch. *)

LEMMA Minimum ==
  ASSUME NEW T, T \subseteq Nat, T # {}
  PROVE  \E x \in T : \A y \in T : x <= y
<1> DEFINE R == OpToRel(<, Nat)
<1>1. IsWellFoundedOn(R, Nat)
  BY NatLessThanWellFounded, Zenon
<1>2. \A x, y \in Nat : y < x => <<y, x>> \in R
  BY Zenon DEF OpToRel
<1> HIDE DEF R
<1>3. PICK x \in T : \A y \in T : ~(<<y, x>> \in R)
  BY <1>1, WFMin
<1>4. \A y \in T : ~(y < x)
  BY <1>2, <1>3
<1> QED BY <1>4

LEMMA HeadFirst ==
  ASSUME NEW c \in Polls, batch[c] \subseteq Msgs, batch[c] # {}
  PROVE  /\ Head(c) \in batch[c]
         /\ \A n \in batch[c] : Head(c) <= n
<1>1. \E m \in batch[c] : \A n \in batch[c] : m <= n
  BY Minimum DEF Msgs
<1> QED BY <1>1 DEF Head

(* In a draining poll, the head is a message, and unsettled. *)
LEMMA HeadOpen ==
  ASSUME TypeOK, Guard, NEW c \in Polls, Draining(c)
  PROVE  /\ Head(c) \in Msgs /\ Head(c) \in batch[c]
         /\ \A n \in batch[c] : Head(c) <= n
         /\ record[Head(c)] = "none" /\ owner[Head(c)] = at[c]
         /\ at[c] \in Sessions /\ Head(c) \in due
         /\ \A d \in Polls \ {c} : Head(c) \notin batch[d]
<1>1. batch[c] \subseteq Msgs /\ batch[c] # {} /\ batch[c] \subseteq Undelivered(at[c])
  BY DEF TypeOK, Guard, SnapshotsHold
<1>2. Head(c) \in batch[c] /\ \A n \in batch[c] : Head(c) <= n
  BY <1>1, HeadFirst
<1>3. at[c] \in Sessions
  BY DEF Guard, TypeOK
<1>4. owner[Head(c)] = at[c]
  BY <1>1, <1>2 DEF Undelivered
<1>5. ASSUME NEW d \in Polls \ {c}, Head(c) \in batch[d]
      PROVE  FALSE
  <2>1. Draining(d)
    BY <1>5 DEF Guard
  <2>2. owner[Head(c)] = at[d]
    BY <1>5, <2>1 DEF Guard, SnapshotsHold, Undelivered
  <2> QED BY <1>4, <2>1, <2>2 DEF Guard, SnapshotsHold
<1> QED BY <1>1, <1>2, <1>3, <1>4, <1>5 DEF Undelivered

-----------------------------------------------------------------------------
(* Type correctness, which the guard has a part in: only unsettled heads   *)
(* are handled, so that every step touches a message.                      *)

LEMMA TypeInit == ASSUME Init PROVE TypeOK
BY DeliveryConstants DEF Init, TypeOK, Places

LEMMA FaultType == ASSUME TypeOK, Fault
                   PROVE  faults' \in 0 .. MaxFaults /\ faults' = faults + 1
BY DeliveryConstants DEF TypeOK, Fault

LEMMA TypeWorld ==
  ASSUME TypeOK,
         \/ \E s \in Sessions : Write(s)
         \/ \E m \in Msgs : BecomesDue(m) \/ Answer(m)
  PROVE  TypeOK'
<1>1. ASSUME NEW s \in Sessions, Write(s)
      PROVE  TypeOK'
  <2>1. PICK m \in Msgs \ Written, card \in BOOLEAN, deferred \in BOOLEAN :
           /\ owner' = [owner EXCEPT ![m] = s]
           /\ cards' = IF card THEN cards \cup {m} ELSE cards
           /\ due' = IF deferred THEN due ELSE due \cup {m}
           /\ delayed' = IF deferred THEN delayed \cup {m} ELSE delayed
           /\ UNCHANGED <<record, questions, hostVars, pollVars, shown, answered,
                          boundVars>>
    BY <1>1 DEF Write
  <2>2. cards' \subseteq Msgs /\ cards \subseteq cards'
    BY <2>1 DEF TypeOK
  <2>3. due' \subseteq Msgs /\ delayed' \subseteq Msgs
    BY <2>1 DEF TypeOK
  <2>4. owner' \in [Msgs -> Sessions \cup {NoSession}]
    BY <2>1 DEF TypeOK
  <2> QED BY <2>1, <2>2, <2>3, <2>4 DEF TypeOK, hostVars, pollVars, boundVars
<1>2. ASSUME NEW m \in Msgs, BecomesDue(m) \/ Answer(m)
      PROVE  TypeOK'
  BY <1>2 DEF TypeOK, BecomesDue, Answer, Written, outVars, hostVars, pollVars,
              worldVars, boundVars
<1> QED BY <1>1, <1>2

(* What NextMessage and Abort do to the polls. *)
LEMMA LeaveType ==
  ASSUME TypeOK, NEW c \in Polls, Leave(c)
  PROVE  /\ at' \in [Polls -> Sessions \cup {NoSession}]
         /\ batch' \in [Polls -> SUBSET Msgs]
         /\ inflight' \subseteq Sessions
BY DEF TypeOK, Leave

LEMMA NextType ==
  ASSUME TypeOK, NEW c \in Polls, NextMessage(c)
  PROVE  /\ at' \in [Polls -> Sessions \cup {NoSession}]
         /\ batch' \in [Polls -> SUBSET Msgs]
         /\ inflight' \subseteq Sessions
         /\ pc' \in [Polls -> Places]
         /\ todo' = todo
<1>1. CASE batch[c] = {Head(c)}
  BY <1>1, LeaveType DEF NextMessage, TypeOK, Places
<1>2. CASE batch[c] # {Head(c)}
  BY <1>2 DEF NextMessage, TypeOK, Places
<1> QED BY <1>1, <1>2

LEMMA TypeTable ==
  ASSUME TypeOK, NEW c \in Polls, Head(c) \in Msgs,
         MarkDelivered(Head(c)) \/ Failed(c)
  PROVE  /\ record' \in [Msgs -> {"none", "delivered", "failed"}]
         /\ attempts' \in [Msgs -> 0 .. MaxAttempts + faults]
         /\ \A n \in Msgs : n # Head(c) => record'[n] = record[n]
<1>1. MaxAttempts \in Nat /\ faults \in Nat /\ MaxAttempts > 0
  BY DeliveryConstants DEF TypeOK
<1>2. CASE MarkDelivered(Head(c))
  BY <1>1, <1>2 DEF TypeOK, MarkDelivered
<1>3. CASE Failed(c) /\ attempts[Head(c)] + 1 >= MaxAttempts
  BY <1>1, <1>3 DEF TypeOK, Failed
<1>4. CASE Failed(c) /\ ~(attempts[Head(c)] + 1 >= MaxAttempts)
  <2>1. attempts[Head(c)] + 1 \in 0 .. MaxAttempts + faults
    BY <1>1, <1>4 DEF TypeOK
  <2> QED BY <1>4, <2>1 DEF TypeOK, Failed
<1> QED BY <1>2, <1>3, <1>4

LEMMA TypeList ==
  ASSUME TypeOK, NEW c \in Polls, Tick(c) \/ ListDone(c) \/ Enter(c) \/ Unreadable(c)
  PROVE  TypeOK'
<1>1. CASE Tick(c)
  <2>1. PICK listed \in SUBSET Sessions : todo' = [todo EXCEPT ![c] = listed]
    BY <1>1 DEF Tick
  <2> QED BY <1>1, <2>1 DEF TypeOK, Tick, Places, outVars, hostVars, worldVars,
                            boundVars
<1>2. CASE ListDone(c)
  BY <1>2 DEF TypeOK, ListDone, Places, outVars, hostVars, worldVars, boundVars
<1>3. CASE Enter(c)
  <2>1. PICK s \in todo[c] :
           /\ todo' = [todo EXCEPT ![c] = @ \ {s}]
           /\ \/ UNCHANGED <<pc, at, batch, inflight>>
              \/ /\ pc' = [pc EXCEPT ![c] = "drain"]
                 /\ at' = [at EXCEPT ![c] = s]
                 /\ batch' = [batch EXCEPT ![c] = Undelivered(s)]
                 /\ inflight' = inflight \cup {s}
    BY <1>3 DEF Enter
  <2>2. s \in Sessions /\ todo' \in [Polls -> SUBSET Sessions]
    BY <2>1 DEF TypeOK
  <2>3. Undelivered(s) \subseteq Msgs
    BY DEF TypeOK, Undelivered
  <2>4. /\ pc' \in [Polls -> Places]
        /\ at' \in [Polls -> Sessions \cup {NoSession}]
        /\ batch' \in [Polls -> SUBSET Msgs]
        /\ inflight' \subseteq Sessions
    BY <2>1, <2>2, <2>3 DEF TypeOK, Places
  <2> QED BY <1>3, <2>2, <2>4 DEF TypeOK, Enter, outVars, worldVars, boundVars
<1>4. CASE Unreadable(c)
  <2>1. pc' \in [Polls -> Places] /\ todo' \in [Polls -> SUBSET Sessions]
    BY <1>4 DEF TypeOK, Unreadable, Places
  <2>2. attempts' \in [Msgs -> 0 .. MaxAttempts + faults']
    BY <1>4, FaultType, DeliveryConstants DEF TypeOK, Unreadable, hostVars
  <2> QED BY <1>4, <2>1, <2>2, FaultType
          DEF TypeOK, Unreadable, outVars, hostVars, worldVars
<1> QED BY <1>1, <1>2, <1>3, <1>4

LEMMA TypeSend ==
  ASSUME TypeOK, Guard, NEW c \in Polls,
         Send(c) \/ Drop(c) \/ Land(c) \/ Sent(c) \/ SendFails(c) \/ SentUnheard(c)
         \/ GiveUpFails(c) \/ Hang(c)
  PROVE  TypeOK'
<1> DEFINE m == Head(c)
<1>1. m \in Msgs
  BY HeadOpen DEF Send, Drop, Land, Sent, SendFails, SentUnheard, GiveUpFails, Hang,
                  Draining
<1> HIDE DEF m
<1>2. CASE Send(c)
  BY <1>1, <1>2 DEF TypeOK, Send, Ask, Places, outVars, hostVars, worldVars,
                    boundVars, m
<1>3. CASE Drop(c)
  BY <1>1, <1>3, NextType, TypeTable DEF TypeOK, Drop, Ask, outVars, worldVars,
                                         boundVars, m
<1>4. CASE Land(c)
  <2>1. shown' \in [Msgs -> Nat]
    BY <1>1, <1>4 DEF TypeOK, Land, m
  <2> QED BY <1>4, <2>1 DEF TypeOK, Land, Places, outVars, hostVars, boundVars
<1>5. CASE Sent(c)
  BY <1>1, <1>5, NextType, TypeTable DEF TypeOK, Sent, outVars, worldVars, boundVars, m
<1>6. CASE SendFails(c)
  BY <1>1, <1>6, NextType, TypeTable DEF TypeOK, SendFails, outVars, boundVars, m
<1>7. CASE SentUnheard(c)
  <2>1. attempts' \in [Msgs -> 0 .. MaxAttempts + faults']
    BY <1>1, <1>7, TypeTable, FaultType, DeliveryConstants DEF TypeOK, SentUnheard, m
  <2>2. record' \in [Msgs -> {"none", "delivered", "failed"}]
    BY <1>1, <1>7, TypeTable DEF SentUnheard, m
  <2>3. NextMessage(c) /\ Fault
    BY <1>7 DEF SentUnheard
  <2> QED BY <1>1, <1>7, <2>1, <2>2, <2>3, NextType, FaultType
          DEF TypeOK, SentUnheard, outVars, m
<1>8. CASE GiveUpFails(c)
  <2>1. attempts' \in [Msgs -> 0 .. MaxAttempts + faults']
    BY <1>1, <1>8, FaultType, DeliveryConstants DEF TypeOK, GiveUpFails, m
  <2>2. pc' \in [Polls -> Places] /\ todo' \in [Polls -> SUBSET Sessions]
    BY <1>8 DEF TypeOK, GiveUpFails, Abort, Places
  <2>3. Leave(c) /\ Fault
    BY <1>8 DEF GiveUpFails, Abort
  <2> QED BY <1>1, <1>8, <2>1, <2>2, <2>3, LeaveType, FaultType
          DEF TypeOK, GiveUpFails, outVars, m
<1>9. CASE Hang(c)
  BY <1>9, DeliveryConstants DEF TypeOK, Hang, Places, outVars, hostVars, worldVars
<1> QED BY <1>2, <1>3, <1>4, <1>5, <1>6, <1>7, <1>8, <1>9

LEMMA TypeRestart == ASSUME TypeOK, HostRestart PROVE TypeOK'
<1>1. attempts' \in [Msgs -> 0 .. MaxAttempts + faults']
  BY FaultType, DeliveryConstants DEF TypeOK, HostRestart
<1> QED BY <1>1, FaultType DEF TypeOK, HostRestart, Places, outVars, worldVars

LEMMA TypeStep == ASSUME TypeOK, Guard, [Next]_vars PROVE TypeOK'
<1>1. CASE UNCHANGED vars
  BY <1>1 DEF TypeOK, vars, outVars, hostVars, pollVars, worldVars, boundVars
<1> QED BY <1>1, TypeWorld, TypeList, TypeSend, TypeRestart DEF Next, Poll

-----------------------------------------------------------------------------
(* The guard. *)

LEMMA GuardInit == ASSUME Init PROVE Guard
BY DEF Init, Guard, SnapshotsHold, Draining

(* New messages and passing time leave every snapshot valid. *)
LEMMA GuardWorld ==
  ASSUME TypeOK, Guard,
         \/ \E s \in Sessions : Write(s)
         \/ \E m \in Msgs : BecomesDue(m) \/ Answer(m)
  PROVE  Guard'
<1>1. /\ UNCHANGED <<record, pc, at, batch, inflight>>
      /\ due \subseteq due'
      /\ \A n \in Written : owner'[n] = owner[n]
  BY DEF TypeOK, Write, BecomesDue, Answer, Written, outVars, hostVars, pollVars
<1>2. ASSUME NEW c \in Polls, Draining(c)
      PROVE  batch[c] \subseteq Undelivered(at[c])'
  <2>1. \A n \in batch[c] : n \in Msgs /\ owner[n] = at[c] /\ n \in due /\ record[n] = "none"
    BY <1>2 DEF Guard, SnapshotsHold, Undelivered, TypeOK
  <2>2. at[c] \in Sessions
    BY <1>2 DEF Guard, TypeOK
  <2>3. batch[c] \subseteq Written
    BY <2>1, <2>2, DeliveryConstants DEF Written
  <2> QED BY <1>1, <2>1, <2>3 DEF Undelivered
<1> QED BY <1>1, <1>2 DEF Guard, SnapshotsHold, Draining

(* A poll that steps within its list, or its drain. *)
LEMMA GuardMoves ==
  ASSUME TypeOK, Guard, NEW c \in Polls, NEW p \in Places,
         pc' = [pc EXCEPT ![c] = p] \/ pc' = pc,
         pc' # pc => (Draining(c) <=> p \in {"drain", "sending", "sent", "hung"}),
         UNCHANGED <<owner, due, record, at, batch, inflight>>
  PROVE  Guard'
<1>1. \A d \in Polls : Draining(d)' <=> Draining(d)
  BY DEF TypeOK, Draining
<1> QED BY <1>1 DEF Guard, SnapshotsHold, Undelivered

(* A poll that starts to drain. *)
LEMMA GuardEnter ==
  ASSUME TypeOK, Guard, NEW c \in Polls, Enter(c)
  PROVE  Guard'
<1>1. pc[c] = "list" /\ UNCHANGED <<owner, due, record>>
  BY DEF Enter, outVars
<1>2. PICK s \in todo[c] :
         IF Guarded(s) \/ Undelivered(s) = {}
         THEN UNCHANGED <<pc, at, batch, inflight>>
         ELSE /\ pc' = [pc EXCEPT ![c] = "drain"]
              /\ at' = [at EXCEPT ![c] = s]
              /\ batch' = [batch EXCEPT ![c] = Undelivered(s)]
              /\ inflight' = inflight \cup {s}
  BY DEF Enter
<1>3. CASE Guarded(s) \/ Undelivered(s) = {}
  BY <1>1, <1>2, <1>3, GuardMoves DEF Places
<1>4. CASE ~(Guarded(s) \/ Undelivered(s) = {})
  <2>1. s \notin inflight /\ s \in Sessions
    BY <1>4 DEF Guarded, TypeOK
  <2>2. /\ Draining(c)' /\ at'[c] = s /\ batch'[c] = Undelivered(s)
        /\ \A d \in Polls \ {c} : /\ pc'[d] = pc[d] /\ at'[d] = at[d]
                                  /\ batch'[d] = batch[d]
        /\ inflight' = inflight \cup {s}
    BY <1>2, <1>4 DEF TypeOK, Draining
  <2>3. \A n \in batch'[c] : n \in due /\ owner[n] = s /\ record[n] = "none"
    BY <2>2 DEF Undelivered
  <2>4. \A d \in Polls \ {c} : at[d] # s
    <3>1. s # NoSession
      BY <2>1, DeliveryConstants
    <3> QED BY <2>1, <3>1 DEF Guard
  <2>5. \A d \in Polls \ {c} : Draining(d) =>
           \A n \in batch[d] : n \in due /\ owner[n] = at[d] /\ record[n] = "none"
    BY DEF Guard, SnapshotsHold, Undelivered
  <2>6. \A d \in Polls \ {c} : Draining(d)' <=> Draining(d)
    BY <2>2 DEF Draining
  <2>7. \A d \in Polls : Draining(d)' =>
           \A n \in batch'[d] : n \in due' /\ owner'[n] = at'[d] /\ record'[n] = "none"
    BY <1>1, <2>2, <2>3, <2>5, <2>6
  <2>8. \A d \in Polls : Draining(d)' =>
           batch'[d] # {} /\ \A e \in Polls \ {d} : at'[e] # at'[d]
    BY <1>4, <2>2, <2>4, <2>6 DEF Guard, SnapshotsHold
  <2>9. \A d \in Polls : IF Draining(d)' THEN at'[d] \in inflight'
                         ELSE at'[d] = NoSession /\ batch'[d] = {}
    BY <2>2, <2>6 DEF Guard
  <2> QED BY <2>7, <2>8, <2>9 DEF Guard, SnapshotsHold, Undelivered
<1> QED BY <1>3, <1>4

(* A poll that leaves its session. *)
LEMMA GuardLeave ==
  ASSUME TypeOK, Guard, NEW c \in Polls, Draining(c), Leave(c),
         NEW p \in {"list", "timer"}, pc' = [pc EXCEPT ![c] = p],
         UNCHANGED <<owner, due>>,
         \A n \in Msgs : n # Head(c) => record'[n] = record[n]
  PROVE  Guard'
<1>1. /\ ~Draining(c)' /\ at'[c] = NoSession /\ batch'[c] = {}
      /\ \A d \in Polls \ {c} : /\ Draining(d)' <=> Draining(d)
                                /\ at'[d] = at[d] /\ batch'[d] = batch[d]
      /\ inflight' = inflight \ {at[c]}
  BY DEF TypeOK, Leave, Draining
<1>2. ASSUME NEW d \in Polls \ {c}, Draining(d)
      PROVE  /\ at[d] # at[c] /\ at[c] # NoSession /\ at[d] # NoSession
             /\ \A n \in batch[d] :
                   n \in due' /\ owner'[n] = at[d] /\ record'[n] = "none"
  <2>1. at[d] # at[c] /\ at[c] \in Sessions /\ at[d] \in Sessions
    BY <1>2, HeadOpen DEF Guard, SnapshotsHold
  <2>2. batch[d] \subseteq Undelivered(at[d]) /\ Head(c) \notin batch[d]
    BY <1>2, HeadOpen DEF Guard, SnapshotsHold
  <2> QED BY <2>1, <2>2, DeliveryConstants DEF Undelivered, TypeOK
<1>3. SnapshotsHold'
  BY <1>1, <1>2 DEF Guard, SnapshotsHold, Undelivered
<1> QED BY <1>1, <1>2, <1>3 DEF Guard

(* A poll that has settled, or passed, the head of its batch. *)
LEMMA GuardNext ==
  ASSUME TypeOK, Guard, NEW c \in Polls, Draining(c), NextMessage(c),
         UNCHANGED <<owner, due>>,
         \A n \in Msgs : n # Head(c) => record'[n] = record[n]
  PROVE  Guard'
<1>1. CASE batch[c] = {Head(c)}
  BY <1>1, GuardLeave DEF NextMessage
<1>2. CASE batch[c] # {Head(c)}
  <2>1. /\ Draining(c)' /\ at' = at /\ inflight' = inflight
        /\ batch'[c] = batch[c] \ {Head(c)}
        /\ \A d \in Polls \ {c} : /\ Draining(d)' <=> Draining(d)
                                  /\ batch'[d] = batch[d]
    BY <1>2 DEF NextMessage, TypeOK, Draining
  <2>2. batch'[c] # {}
    BY <1>2, <2>1, HeadOpen
  <2>3. \A n \in batch'[c] : n \in due' /\ owner'[n] = at[c] /\ record'[n] = "none"
    BY <2>1 DEF Guard, SnapshotsHold, Undelivered, TypeOK
  <2>4. ASSUME NEW d \in Polls \ {c}, Draining(d)
        PROVE  \A n \in batch[d] :
                  n \in due' /\ owner'[n] = at[d] /\ record'[n] = "none"
    <3>1. batch[d] \subseteq Undelivered(at[d]) /\ Head(c) \notin batch[d]
      BY <2>4, HeadOpen DEF Guard, SnapshotsHold
    <3> QED BY <3>1 DEF Undelivered, TypeOK
  <2>5. SnapshotsHold'
    BY <2>1, <2>2, <2>3, <2>4 DEF Guard, SnapshotsHold, Undelivered
  <2> QED BY <2>1, <2>5 DEF Guard
<1> QED BY <1>1, <1>2

LEMMA GuardRestart == ASSUME HostRestart PROVE Guard'
BY DEF HostRestart, Guard, SnapshotsHold, Draining

(* The poll steps that handle the head of a batch and move on. *)
Handles(c) == Drop(c) \/ Sent(c) \/ SendFails(c) \/ SentUnheard(c)

LEMMA HandlesHead ==
  ASSUME TypeOK, Guard, NEW c \in Polls, Handles(c)
  PROVE  /\ Draining(c) /\ NextMessage(c) /\ UNCHANGED outVars
         /\ Head(c) \in Msgs
         /\ record' \in [Msgs -> {"none", "delivered", "failed"}]
         /\ \A n \in Msgs : n # Head(c) => record'[n] = record[n]
<1>1. Draining(c)
  BY DEF Handles, Drop, Sent, SendFails, SentUnheard, Draining
<1>2. MarkDelivered(Head(c)) \/ Failed(c)
  BY DEF Handles, Drop, Sent, SendFails, SentUnheard
<1> QED BY <1>1, <1>2, HeadOpen, TypeTable
        DEF Handles, Drop, Sent, SendFails, SentUnheard

LEMMA GuardStep == ASSUME TypeOK, Guard, [Next]_vars PROVE Guard'
<1>1. ASSUME NEW c \in Polls, Tick(c) \/ ListDone(c)
      PROVE  Guard'
  BY <1>1, GuardMoves DEF Tick, ListDone, Draining, Places, outVars, hostVars
<1>2. ASSUME NEW c \in Polls, Unreadable(c)
      PROVE  Guard'
  BY <1>2, GuardMoves DEF Unreadable, Draining, Places, outVars, hostVars
<1>3. ASSUME NEW c \in Polls, Send(c) \/ Land(c) \/ Hang(c)
      PROVE  Guard'
  BY <1>3, GuardMoves DEF Send, Land, Hang, Draining, Places, outVars, hostVars
<1>4. ASSUME NEW c \in Polls, Handles(c)
      PROVE  Guard'
  BY <1>4, HandlesHead, GuardNext DEF outVars
<1>5. ASSUME NEW c \in Polls, GiveUpFails(c)
      PROVE  Guard'
  BY <1>5, GuardLeave DEF GiveUpFails, Abort, Draining, outVars
<1>6. CASE UNCHANGED vars
  BY <1>6 DEF vars, outVars, hostVars, pollVars, Guard, SnapshotsHold, Undelivered,
              Draining
<1> QED BY <1>1, <1>2, <1>3, <1>4, <1>5, <1>6, GuardWorld, GuardEnter, GuardRestart
        DEF Next, Poll, Handles

LEMMA Guarding == Spec => [](TypeOK /\ Guard)
<1>1. Init => TypeOK /\ Guard
  BY TypeInit, GuardInit
<1>2. TypeOK /\ Guard /\ [Next]_vars => TypeOK' /\ Guard'
  BY TypeStep, GuardStep
<1> QED BY <1>1, <1>2, PTL DEF Spec

(* Every variable keeps its type: every step of a poll that handles a      *)
(* message handles one that exists, and the attempts stay within bounds.   *)
THEOREM TypeCorrect == Spec => []TypeOK
<1> QED BY Guarding, PTL

(* The two poll chains never work on one session at a time, and the        *)
(* snapshot a drain read before its first await is still true after it.    *)
THEOREM SnapshotsKept == Spec => []SnapshotsHold
<1>1. Guard => SnapshotsHold
  BY DEF Guard
<1> QED BY <1>1, Guarding, PTL

-----------------------------------------------------------------------------
(* How each step changes what is shown, settled and sent. *)

LEMMA HeadSame ==
  ASSUME NEW c \in Polls, batch'[c] = batch[c]
  PROVE  Head(c)' = Head(c)
BY Zenon DEF Head

(* The poll that steps is the only one whose place and batch change. *)
LEMMA OthersStay ==
  ASSUME TypeOK, NEW c \in Polls, Poll(c) \/ Hang(c), NEW d \in Polls \ {c}
  PROVE  pc'[d] = pc[d] /\ batch'[d] = batch[d] /\ Head(d)' = Head(d)
<1>1. pc'[d] = pc[d] /\ batch'[d] = batch[d]
  BY DEF TypeOK, Poll, Hang, Tick, ListDone, Enter, Unreadable, Send, Drop, Land, Sent,
         SendFails, SentUnheard, GiveUpFails, NextMessage, Abort, Leave
<1> QED BY <1>1, HeadSame

(* A poll that is not handling a head afterwards has none. *)
LEMMA AfterHandling ==
  ASSUME TypeOK, Guard, NEW c \in Polls,
         Handles(c) \/ GiveUpFails(c) \/ Tick(c) \/ ListDone(c) \/ Enter(c) \/ Unreadable(c)
  PROVE  pc'[c] \notin {"sending", "sent", "hung"}
BY DEF TypeOK, Handles, Drop, Sent, SendFails, SentUnheard, GiveUpFails, NextMessage,
       Abort, Tick, ListDone, Enter, Unreadable

(* What a step of a poll leaves alone. *)
LEMMA PollKeeps ==
  ASSUME TypeOK, Guard, NEW c \in Polls, Poll(c) \/ Hang(c)
  PROVE  /\ UNCHANGED outVars
         /\ questions \subseteq questions' /\ answered' = answered
         /\ delayed \subseteq delayed'
         /\ \A m \in Msgs : record[m] # "none" => record'[m] = record[m]
<1>1. UNCHANGED outVars /\ answered' = answered
  BY DEF Poll, Hang, Tick, ListDone, Enter, Unreadable, Send, Drop, Land, Sent,
         SendFails, SentUnheard, GiveUpFails, worldVars
<1>2. questions \subseteq questions' /\ delayed \subseteq delayed'
  BY DEF Poll, Hang, Tick, ListDone, Enter, Unreadable, Send, Drop, Land, Sent,
         SendFails, SentUnheard, GiveUpFails, worldVars, Ask
<1>3. CASE Handles(c)
  BY <1>1, <1>2, <1>3, HandlesHead, HeadOpen
<1>4. CASE ~Handles(c)
  <2>1. record' = record
    BY <1>4 DEF Handles, Poll, Hang, Tick, ListDone, Enter, Unreadable, Send, Land,
                GiveUpFails
  <2> QED BY <1>1, <1>2, <2>1
<1> QED BY <1>3, <1>4

(* Only a landing shows something. *)
LEMMA ShownStays ==
  ASSUME NEW c \in Polls, Poll(c) \/ Hang(c), ~Land(c)
  PROVE  shown' = shown
BY DEF Poll, Hang, Tick, ListDone, Enter, Unreadable, Send, Drop, Sent, SendFails,
       SentUnheard, GiveUpFails, worldVars

LEMMA LandShows ==
  ASSUME TypeOK, Guard, NEW c \in Polls, Land(c)
  PROVE  /\ Head(c) \in Msgs /\ pc[c] = "sending" /\ pc'[c] = "sent"
         /\ batch' = batch /\ Head(c)' = Head(c)
         /\ shown' = [shown EXCEPT ![Head(c)] = @ + 1]
         /\ UNCHANGED <<record, faults, questions, answered, delayed, outVars>>
<1>1. Draining(c)
  BY DEF Land, Draining
<1>2. batch' = batch
  BY DEF Land
<1> QED BY <1>1, <1>2, HeadOpen, HeadSame DEF Land, TypeOK, boundVars

(* What the outside world leaves alone. *)
LEMMA WorldKeeps ==
  ASSUME TypeOK,
         \/ \E s \in Sessions : Write(s)
         \/ \E m \in Msgs : BecomesDue(m) \/ Answer(m)
  PROVE  /\ UNCHANGED <<record, pc, at, batch, shown, faults>>
         /\ \A c \in Polls : Head(c)' = Head(c)
         /\ questions \cup answered \subseteq questions' \cup answered'
         /\ delayed \subseteq delayed'
<1>1. UNCHANGED <<record, pc, at, batch, shown, faults>>
  BY DEF Write, BecomesDue, Answer, pollVars, worldVars, boundVars
<1>2. /\ questions \cup answered \subseteq questions' \cup answered'
      /\ delayed \subseteq delayed'
  BY DEF Write, BecomesDue, Answer, worldVars
<1> QED BY <1>1, <1>2, HeadSame

LEMMA RestartKeeps ==
  ASSUME TypeOK, HostRestart
  PROVE  /\ UNCHANGED <<record, questions, shown, answered, delayed, owner, cards, due>>
         /\ pc' = [c \in Polls |-> "timer"]
         /\ faults' = faults + 1
BY DEF HostRestart, Fault, outVars, worldVars

LEMMA StutterKeeps ==
  ASSUME UNCHANGED vars
  PROVE  /\ UNCHANGED <<owner, cards, due, record, questions, pc, at, batch, shown,
                        answered, delayed, faults>>
         /\ \A c \in Polls : Head(c)' = Head(c)
<1>1. UNCHANGED <<owner, cards, due, record, questions, pc, at, batch, shown, answered,
                  delayed, faults>>
  BY DEF vars, outVars, pollVars, worldVars, boundVars
<1> QED BY <1>1, HeadSame

(* A message that is written gets the smallest free number. *)
LEMMA WriteNew ==
  ASSUME TypeOK, NEW s \in Sessions, Write(s)
  PROVE  \E m \in Msgs \ Written :
            /\ \A n \in Msgs \ Written : m <= n
            /\ owner' = [owner EXCEPT ![m] = s]
            /\ Written' = Written \cup {m}
            /\ cards' \in {cards, cards \cup {m}}
            /\ due' = due \cup {m} \/ (due' = due /\ m \in delayed')
<1>1. PICK m \in Msgs \ Written, card \in BOOLEAN, deferred \in BOOLEAN :
           /\ \A n \in Msgs \ Written : m <= n
           /\ owner' = [owner EXCEPT ![m] = s]
           /\ cards' = IF card THEN cards \cup {m} ELSE cards
           /\ due' = IF deferred THEN due ELSE due \cup {m}
           /\ delayed' = IF deferred THEN delayed \cup {m} ELSE delayed
  BY DEF Write
<1>2. Written' = Written \cup {m}
  BY <1>1, DeliveryConstants DEF TypeOK, Written
<1> QED BY <1>1, <1>2

-----------------------------------------------------------------------------
(* Only what was written leaves traces. *)

LEMMA TracesStep ==
  ASSUME TypeOK, Guard, Traces, [Next]_vars
  PROVE  Traces'
<1>1. ASSUME NEW s \in Sessions, Write(s)
      PROVE  Traces'
  BY <1>1, WriteNew, WorldKeeps DEF Traces
<1>2. ASSUME NEW m \in Msgs, BecomesDue(m) \/ Answer(m)
      PROVE  Traces'
  BY <1>2, WorldKeeps DEF Traces, BecomesDue, Answer, Written, outVars
<1>3. ASSUME NEW c \in Polls, Poll(c) \/ Hang(c)
      PROVE  Traces'
  <2>1. Written' = Written /\ due' = due
    BY <1>3, PollKeeps DEF Written, outVars
  <2>2. CASE Land(c)
    <3>1. Head(c) \in Written
      BY <2>2, HeadOpen, DeliveryConstants DEF Land, Draining, Written
    <3>2. \A m \in Msgs \ Written : shown'[m] = shown[m] /\ record'[m] = record[m]
      BY <2>2, <3>1, LandShows DEF TypeOK
    <3>3. shown'[Head(c)] > 0
      BY <2>2, LandShows DEF TypeOK
    <3>4. ASSUME NEW d \in Polls \ {c}, pc'[d] = "sent"
          PROVE  shown'[Head(d)'] > 0
      <4>1. pc[d] = "sent" /\ Head(d)' = Head(d)
        BY <1>3, <3>4, OthersStay
      <4>2. Head(d) \in Msgs
        BY <4>1, HeadOpen DEF Draining
      <4>3. shown'[Head(d)] >= shown[Head(d)]
        BY <2>2, <4>2, LandShows DEF TypeOK
      <4> QED BY <4>1, <4>2, <4>3, LandShows, <2>2 DEF Traces, TypeOK
    <3> QED BY <2>1, <2>2, <3>2, <3>3, <3>4, LandShows DEF Traces
  <2>3. CASE ~Land(c)
    <3>1. shown' = shown
      BY <1>3, <2>3, ShownStays
    <3>2. \A m \in Msgs \ Written : record'[m] = record[m]
      <4>1. CASE Handles(c)
        <5>1. Head(c) \in Written
          BY <4>1, HandlesHead, HeadOpen, DeliveryConstants DEF Written
        <5> QED BY <4>1, <5>1, HandlesHead
      <4>2. CASE ~Handles(c)
        BY <1>3, <4>2 DEF Handles, Poll, Hang, Tick, ListDone, Enter, Unreadable,
                          Send, Land, GiveUpFails
      <4> QED BY <4>1, <4>2
    <3>3. pc'[c] # "sent"
      BY <1>3, <2>3, AfterHandling DEF Poll, Hang, Handles, Send, TypeOK
    <3>4. \A d \in Polls \ {c} : pc'[d] = pc[d] /\ Head(d)' = Head(d)
      BY <1>3, OthersStay
    <3> QED BY <2>1, <3>1, <3>2, <3>3, <3>4 DEF Traces
  <2> QED BY <2>2, <2>3
<1>4. CASE HostRestart
  BY <1>4, RestartKeeps DEF Traces, Written
<1>5. CASE UNCHANGED vars
  BY <1>5, StutterKeeps DEF Traces, Written
<1> QED BY <1>1, <1>2, <1>3, <1>4, <1>5 DEF Next

LEMMA Tracing == Spec => [](TypeOK /\ Guard /\ Traces)
<1>1. Init => Traces
  BY DEF Init, Traces
<1>2. TypeOK /\ Guard /\ Traces /\ [Next]_vars => Traces'
  BY TracesStep
<1> QED BY <1>1, <1>2, Guarding, PTL DEF Spec

-----------------------------------------------------------------------------
(* How often a message is shown. *)

LEMMA ShowingsStep ==
  ASSUME TypeOK, TypeOK', Guard, Showings, [Next]_vars
  PROVE  Showings'
<1> USE DEF TypeOK
<1>1. CASE faults' = faults + 1 /\ shown' = shown
  BY <1>1 DEF Showings
<1>2. CASE /\ faults' = faults /\ shown' = shown
           /\ \A m \in Msgs : record[m] # "none" \/ Landed(m)
                                 => record'[m] # "none" \/ Landed(m)'
  BY <1>2 DEF Showings
<1>3. CASE \/ \E s \in Sessions : Write(s)
           \/ \E m \in Msgs : BecomesDue(m) \/ Answer(m)
  BY <1>2, <1>3, WorldKeeps DEF Landed
<1>4. CASE UNCHANGED vars
  BY <1>2, <1>4, StutterKeeps DEF Landed
<1>5. CASE HostRestart
  BY <1>1, <1>5, RestartKeeps
<1>6. ASSUME NEW c \in Polls, Unreadable(c) \/ SentUnheard(c) \/ GiveUpFails(c)
      PROVE  Showings'
  BY <1>1, <1>6 DEF Unreadable, SentUnheard, GiveUpFails, Fault, worldVars
<1>7. ASSUME NEW c \in Polls, Land(c)
      PROVE  Showings'
  <2>1. ~Landed(Head(c)) /\ record[Head(c)] = "none"
    <3>1. Draining(c)
      BY <1>7 DEF Land, Draining
    <3>2. ASSUME NEW d \in Polls, pc[d] = "sent", Head(d) = Head(c)
          PROVE  FALSE
      <4>1. d # c /\ Draining(d)
        BY <1>7, <3>2 DEF Land, Draining
      <4> QED BY <3>1, <3>2, <4>1, HeadOpen
    <3> QED BY <3>1, <3>2, HeadOpen DEF Landed
  <2>2. shown[Head(c)] <= faults
    BY <1>7, <2>1, LandShows DEF Showings
  <2>3. Landed(Head(c))'
    BY <1>7, LandShows DEF Landed
  <2>4. \A m \in Msgs : Landed(m) => Landed(m)'
    <3>1. \A d \in Polls : pc[d] = "sent" => pc'[d] = "sent" /\ Head(d)' = Head(d)
      BY <1>7, LandShows, OthersStay DEF Poll
    <3> QED BY <3>1 DEF Landed
  <2>5. ASSUME NEW m \in Msgs
        PROVE  shown'[m] <= faults' + (IF record'[m] # "none" \/ Landed(m)' THEN 1 ELSE 0)
    <3>1. CASE m = Head(c)
      BY <1>7, <2>2, <2>3, <3>1, LandShows
    <3>2. CASE m # Head(c)
      BY <1>7, <2>4, <3>2, LandShows DEF Showings
    <3> QED BY <3>1, <3>2
  <2> QED BY <2>5 DEF Showings
<1>8. ASSUME NEW c \in Polls,
             \/ Tick(c) \/ ListDone(c) \/ Enter(c) \/ Send(c) \/ Hang(c)
             \/ Drop(c) \/ Sent(c) \/ SendFails(c)
      PROVE  Showings'
  <2>1. faults' = faults /\ shown' = shown
    BY <1>8 DEF Tick, ListDone, Enter, Send, Hang, Drop, Sent, SendFails, worldVars,
                boundVars
  <2>2. ASSUME NEW m \in Msgs, record[m] # "none" \/ Landed(m)
        PROVE  record'[m] # "none" \/ Landed(m)'
    <3>1. CASE record[m] # "none"
      BY <1>8, <3>1, PollKeeps DEF Poll
    <3>2. ASSUME NEW d \in Polls \ {c}, pc[d] = "sent", Head(d) = m
          PROVE  Landed(m)'
      BY <1>8, <3>2, OthersStay DEF Poll, Landed
    <3>3. CASE pc[c] = "sent" /\ Head(c) = m
      <4>1. Sent(c)
        BY <1>8, <3>3 DEF Tick, ListDone, Enter, Send, Hang, Drop, SendFails
      <4> QED BY <3>3, <4>1 DEF Sent, MarkDelivered
    <3> QED BY <2>2, <3>1, <3>2, <3>3 DEF Landed
  <2> QED BY <1>2, <2>1, <2>2
<1> QED BY <1>3, <1>4, <1>5, <1>6, <1>7, <1>8 DEF Next, Poll

(* Polls that overlap and attempts that are repeated show no message       *)
(* twice: each showing beyond the first is paid for by a restart, a lost   *)
(* answer or an error of a database.                                       *)
THEOREM FewShowings == Spec => []ShownOnce
<1>1. Init => Showings
  BY DEF Init, Showings
<1>2. TypeOK /\ TypeOK' /\ Guard /\ Showings /\ [Next]_vars => Showings'
  BY ShowingsStep
<1>3. TypeOK /\ Showings => ShownOnce
  BY DEF TypeOK, Showings, ShownOnce
<1> QED BY <1>1, <1>2, <1>3, Guarding, PTL DEF Spec

-----------------------------------------------------------------------------
(* Question cards. *)

LEMMA AskedStep ==
  ASSUME TypeOK, Guard, Traces, Asked, [Next]_vars
  PROVE  Asked'
<1>1. ASSUME NEW s \in Sessions, Write(s)
      PROVE  Asked'
  <2>1. PICK m \in Msgs \ Written : cards' \in {cards, cards \cup {m}}
    BY <1>1, WriteNew
  <2>2. shown[m] = 0
    BY <2>1 DEF Traces
  <2>3. ASSUME NEW c \in Polls, pc[c] \in {"sending", "sent", "hung"}
        PROVE  Head(c) # m
    BY <2>1, <2>3, HeadOpen, DeliveryConstants DEF Draining, Written
  <2> QED BY <1>1, <2>1, <2>2, <2>3, WorldKeeps DEF Asked, CardsAnswerable
<1>2. ASSUME NEW m \in Msgs, BecomesDue(m) \/ Answer(m)
      PROVE  Asked'
  <2>1. cards' = cards
    BY <1>2 DEF BecomesDue, Answer, outVars
  <2> QED BY <1>2, <2>1, WorldKeeps DEF Asked, CardsAnswerable
<1>3. ASSUME NEW c \in Polls, Poll(c) \/ Hang(c)
      PROVE  Asked'
  <2>1. cards' = cards /\ questions \cup answered \subseteq questions' \cup answered'
    BY <1>3, PollKeeps DEF outVars
  <2>2. CardsAnswerable'
    <3>1. CASE Land(c)
      <4>1. Head(c) \in cards => Head(c) \in questions' \cup answered'
        BY <2>1, <3>1, LandShows DEF Asked
      <4>2. \A m \in cards : m # Head(c) => shown'[m] = shown[m]
        BY <3>1, LandShows DEF TypeOK
      <4> QED BY <2>1, <4>1, <4>2 DEF Asked, CardsAnswerable
    <3>2. CASE ~Land(c)
      BY <1>3, <2>1, <3>2, ShownStays DEF Asked, CardsAnswerable
    <3> QED BY <3>1, <3>2
  <2>3. ASSUME pc'[c] \in {"sending", "sent", "hung"}, Head(c)' \in cards
        PROVE  Head(c)' \in questions' \cup answered'
    <3>1. CASE Send(c)
      <4>1. Head(c)' = Head(c)
        BY <3>1, HeadSame DEF Send
      <4> QED BY <2>3, <3>1, <4>1 DEF Send, Ask
    <3>2. CASE Land(c) \/ Hang(c)
      <4>1. pc[c] = "sending" /\ Head(c)' = Head(c)
        BY <3>2, HeadSame DEF Land, Hang
      <4> QED BY <2>1, <2>3, <4>1 DEF Asked
    <3>3. CASE ~(Send(c) \/ Land(c) \/ Hang(c))
      BY <1>3, <2>3, <3>3, AfterHandling DEF Poll, Handles
    <3> QED BY <3>1, <3>2, <3>3
  <2>4. \A d \in Polls \ {c} : pc'[d] = pc[d] /\ Head(d)' = Head(d)
    BY <1>3, OthersStay
  <2> QED BY <2>1, <2>2, <2>3, <2>4 DEF Asked
<1>4. CASE HostRestart
  BY <1>4, RestartKeeps DEF Asked, CardsAnswerable
<1>5. CASE UNCHANGED vars
  BY <1>5, StutterKeeps DEF Asked, CardsAnswerable
<1> QED BY <1>1, <1>2, <1>3, <1>4, <1>5 DEF Next

(* A card the user sees can be answered until it is, even when the sending *)
(* is retried, seems to fail, or is cut short by a restart.                *)
THEOREM CardsKept == Spec => []CardsAnswerable
<1>1. Init => Asked
  BY DEF Init, Asked, CardsAnswerable
<1>2. TypeOK /\ Guard /\ Traces /\ Asked /\ [Next]_vars => Asked'
  BY AskedStep
<1>3. Asked => CardsAnswerable
  BY DEF Asked
<1> QED BY <1>1, <1>2, <1>3, Tracing, PTL DEF Spec

-----------------------------------------------------------------------------
(* The order in which messages are shown. *)

(* A head that is handled is settled, or counted among the delayed.        *)
LEMMA HandledDone ==
  ASSUME TypeOK, Guard, NEW c \in Polls, Handles(c)
  PROVE  /\ record'[Head(c)] # "none" \/ Head(c) \in delayed'
         /\ \A n \in batch'[c] : n \in batch[c] /\ at'[c] = at[c]
         /\ \A n \in batch[c] : n # Head(c) => n \in batch'[c] \/ batch'[c] = {}
<1>1. record'[Head(c)] # "none" \/ Head(c) \in delayed'
  <2>1. CASE Drop(c) \/ Sent(c)
    BY <2>1, HeadOpen DEF Drop, Sent, MarkDelivered, Draining, TypeOK
  <2>2. CASE SendFails(c) \/ SentUnheard(c)
    BY <2>2 DEF SendFails, SentUnheard
  <2> QED BY <2>1, <2>2 DEF Handles
<1>2. NextMessage(c)
  BY HandlesHead
<1>3. CASE batch[c] = {Head(c)}
  BY <1>1, <1>2, <1>3 DEF NextMessage, Leave, TypeOK
<1>4. CASE batch[c] # {Head(c)}
  BY <1>1, <1>2, <1>4 DEF NextMessage, TypeOK
<1> QED BY <1>3, <1>4

(* The clause of Order about snapshots, for one poll. *)
Complete(c) ==
  \A n \in batch[c], m \in Written :
     owner[m] = at[c] /\ m < n /\ record[m] = "none" /\ m \notin delayed => m \in batch[c]

LEMMA OrderWorld ==
  ASSUME TypeOK, Guard, Traces, Order,
         \/ \E s \in Sessions : Write(s)
         \/ \E m \in Msgs : BecomesDue(m) \/ Answer(m)
  PROVE  Order'
<1>1. ASSUME NEW s \in Sessions, Write(s)
      PROVE  Order'
  <2>1. PICK w \in Msgs \ Written :
           /\ \A n \in Msgs \ Written : w <= n
           /\ owner' = [owner EXCEPT ![w] = s]
           /\ Written' = Written \cup {w}
           /\ due' = due \cup {w} \/ (due' = due /\ w \in delayed')
    BY <1>1, WriteNew
  <2>2. \A n \in Written : n < w /\ owner'[n] = owner[n]
    <3>1. ASSUME NEW n \in Written
          PROVE  ~(w < n)
      BY <2>1, <3>1 DEF Order
    <3> QED BY <2>1, <3>1 DEF TypeOK, Written, Msgs
  <2>3. shown[w] = 0
    BY <2>1 DEF Traces
  <2>4. UNCHANGED <<record, pc, at, batch, shown>> /\ delayed \subseteq delayed'
    BY <1>1, WorldKeeps
  <2>5. NoOvertaking'
    <3>1. ASSUME NEW m \in Written, NEW n \in Written',
                 owner'[m] = owner'[n], m < n, shown[n] > 0
          PROVE  record[m] # "none" \/ m \in delayed
      BY <2>1, <2>2, <2>3, <3>1 DEF Order, NoOvertaking
    <3>2. \A n \in Written' : shown[n] > 0 => ~(w < n)
      BY <2>1, <2>2, <2>3 DEF Msgs, Written
    <3> QED BY <2>1, <2>4, <3>1, <3>2 DEF NoOvertaking
  <2>6. \A m \in Written', n \in Msgs : n < m => n \in Written'
    <3>1. ASSUME NEW n \in Msgs, n < w
          PROVE  n \in Written
      BY <2>1, <3>1 DEF Msgs
    <3> QED BY <2>1, <3>1 DEF Order
  <2>7. Written' \ due' \subseteq delayed'
    BY <2>1, <2>4 DEF Order
  <2>8. ASSUME NEW c \in Polls, Draining(c)
        PROVE  Complete(c)'
    <3>1. batch[c] \subseteq Written
      BY <2>8, DeliveryConstants DEF Guard, SnapshotsHold, Undelivered, TypeOK, Written
    <3>2. \A n \in batch[c] : ~(w < n)
      BY <2>2, <3>1 DEF Msgs, Written
    <3> QED BY <2>1, <2>2, <2>4, <2>8, <3>2 DEF Order, Complete
  <2>9. \A c \in Polls : Draining(c)' <=> Draining(c)
    BY <2>4 DEF Draining
  <2> QED BY <2>5, <2>6, <2>7, <2>8, <2>9 DEF Order, Complete
<1>2. ASSUME NEW m \in Msgs, BecomesDue(m) \/ Answer(m)
      PROVE  Order'
  <2>1. /\ owner' = owner /\ due \subseteq due' /\ delayed' = delayed
        /\ UNCHANGED <<record, pc, at, batch, shown>>
    BY <1>2 DEF BecomesDue, Answer, outVars, worldVars, pollVars
  <2> QED BY <2>1 DEF Order, NoOvertaking, Written, Draining
<1> QED BY <1>1, <1>2

LEMMA OrderPoll ==
  ASSUME TypeOK, Guard, Traces, Order, NEW c \in Polls, Poll(c) \/ Hang(c)
  PROVE  Order'
<1>1. Written' = Written /\ owner' = owner /\ due' = due /\ delayed \subseteq delayed'
  BY PollKeeps DEF Written, outVars
<1>2. \A m \in Msgs : record[m] # "none" => record'[m] # "none"
  BY PollKeeps
<1>3. Written \subseteq Msgs
  BY DEF Written
<1>4. NoOvertaking'
  <2>1. CASE Land(c)
    <3>1. Draining(c) /\ owner[Head(c)] = at[c] /\ Head(c) \in batch[c]
      BY <2>1, HeadOpen DEF Land, Draining
    <3>2. ASSUME NEW m \in Written, owner[m] = owner[Head(c)], m < Head(c)
          PROVE  record[m] # "none" \/ m \in delayed
      <4>1. SUFFICES ASSUME m \in batch[c] PROVE FALSE
        BY <3>1, <3>2 DEF Order
      <4>2. Head(c) <= m
        BY <3>1, <4>1, HeadOpen
      <4> QED BY <2>1, <3>2, <4>2, <1>3, LandShows DEF Msgs
    <3>3. \A n \in Written : n # Head(c) => shown'[n] = shown[n]
      BY <1>3, <2>1, LandShows DEF TypeOK
    <3>4. ASSUME NEW m \in Written, NEW n \in Written,
                 owner[m] = owner[n], m < n, shown'[n] > 0
          PROVE  record[m] # "none" \/ m \in delayed
      <4>1. CASE n = Head(c)
        BY <3>2, <3>4, <4>1
      <4>2. CASE n # Head(c)
        BY <3>3, <3>4, <4>2 DEF Order, NoOvertaking
      <4> QED BY <4>1, <4>2
    <3> QED BY <1>1, <1>2, <1>3, <3>4 DEF NoOvertaking
  <2>2. CASE ~Land(c)
    BY <1>1, <1>2, <1>3, <2>2, ShownStays DEF Order, NoOvertaking
  <2> QED BY <2>1, <2>2
<1>5. ASSUME NEW d \in Polls, Draining(d), at'[d] = at[d], batch'[d] = batch[d]
      PROVE  Complete(d)'
  BY <1>1, <1>2, <1>3, <1>5 DEF Order, Complete
<1>6. ASSUME NEW d \in Polls \ {c}, Draining(d)'
      PROVE  Complete(d)'
  <2>1. Draining(d) /\ batch'[d] = batch[d]
    BY <1>6, OthersStay DEF Draining
  <2>2. at'[d] = at[d]
    BY DEF TypeOK, Poll, Hang, Tick, ListDone, Enter, Unreadable, Send, Drop, Land,
           Sent, SendFails, SentUnheard, GiveUpFails, NextMessage, Abort, Leave
  <2> QED BY <1>5, <2>1, <2>2
<1>7. ASSUME Draining(c)'
      PROVE  Complete(c)'
  <2>1. CASE Handles(c)
    <3>1. Draining(c)
      BY <2>1, HandlesHead
    <3>2. ASSUME NEW n \in batch'[c], NEW m \in Written,
                 owner[m] = at'[c], m < n, record'[m] = "none", m \notin delayed'
          PROVE  m \in batch'[c]
      <4>1. n \in batch[c] /\ at'[c] = at[c] /\ batch'[c] # {}
        BY <2>1, <3>2, HandledDone
      <4>2. record[m] = "none" /\ m \notin delayed
        BY <1>1, <1>2, <1>3, <3>2
      <4>3. m \in batch[c]
        BY <3>1, <3>2, <4>1, <4>2 DEF Order
      <4>4. m # Head(c)
        BY <2>1, <3>2, HandledDone
      <4> QED BY <2>1, <4>1, <4>3, <4>4, HandledDone
    <3> QED BY <1>1, <3>2 DEF Complete
  <2>2. CASE Enter(c)
    <3>1. batch'[c] # {}
      BY <1>7, <2>2 DEF Enter, Draining, TypeOK
    <3>2. PICK s \in Sessions : at'[c] = s /\ batch'[c] = Undelivered(s)
      BY <1>7, <2>2 DEF Enter, Draining, TypeOK
    <3>3. record' = record /\ delayed' = delayed
      BY <2>2 DEF Enter, worldVars
    <3>4. ASSUME NEW m \in Written, owner[m] = s, record[m] = "none", m \notin delayed
          PROVE  m \in Undelivered(s)
      BY <3>4 DEF Order, Undelivered
    <3> QED BY <1>1, <3>2, <3>3, <3>4 DEF Complete
  <2>3. CASE Send(c) \/ Land(c) \/ Hang(c)
    <3>1. Draining(c) /\ at' = at /\ batch' = batch
      BY <2>3 DEF Send, Land, Hang, Draining
    <3> QED BY <1>5, <3>1
  <2>4. CASE Tick(c) \/ ListDone(c) \/ Unreadable(c) \/ GiveUpFails(c)
    BY <1>7, <2>4 DEF Tick, ListDone, Unreadable, GiveUpFails, Abort, Draining, TypeOK
  <2> QED BY <2>1, <2>2, <2>3, <2>4 DEF Poll, Handles
<1> QED BY <1>1, <1>4, <1>6, <1>7 DEF Order, Complete

LEMMA OrderStep ==
  ASSUME TypeOK, Guard, Traces, Order, [Next]_vars
  PROVE  Order'
<1>1. CASE HostRestart
  BY <1>1, RestartKeeps DEF Order, NoOvertaking, Written, Draining
<1>2. CASE UNCHANGED vars
  BY <1>2, StutterKeeps DEF Order, NoOvertaking, Written, Draining
<1> QED BY <1>1, <1>2, OrderWorld, OrderPoll DEF Next

(* Messages of a session appear in the order they were written, except     *)
(* that a message which failed or was deferred may be overtaken.           *)
THEOREM OrderKept == Spec => []NoOvertaking
<1>1. Init => Order
  BY DEF Init, Order, NoOvertaking, Written, Draining
<1>2. TypeOK /\ Guard /\ Traces /\ Order /\ [Next]_vars => Order'
  BY OrderStep
<1>3. Order => NoOvertaking
  BY DEF Order
<1> QED BY <1>1, <1>2, <1>3, Tracing, PTL DEF Spec

-----------------------------------------------------------------------------
(* The refinement: what a poll does to a message is a step of Outbox. *)

LEMMA BoxStutters ==
  ASSUME owner' = owner, record' = record, shown' = shown
  PROVE  UNCHANGED Box!outboxVars
BY DEF Box!outboxVars, Fate

LEMMA BoxWrite ==
  ASSUME TypeOK, Traces, NEW s \in Sessions, Write(s)
  PROVE  Box!OutboxNext
<1>1. PICK m \in Msgs \ Written : owner' = [owner EXCEPT ![m] = s]
  BY DEF Write
<1>2. UNCHANGED <<record, shown>> /\ s # NoSession
  BY DeliveryConstants DEF Write
<1>3. owner[m] = NoSession /\ owner'[m] = s /\ record[m] = "none"
  BY <1>1 DEF TypeOK, Traces, Written
<1>4. ASSUME NEW n \in Msgs
      PROVE  Fate(n)' = [[k \in Msgs |-> Fate(k)] EXCEPT ![m] = "open"][n]
  BY <1>1, <1>2, <1>3 DEF Fate, TypeOK
<1>5. [n \in Msgs |-> Fate(n)]' = [[n \in Msgs |-> Fate(n)] EXCEPT ![m] = "open"]
  BY <1>4
<1>6. Fate(m) = "unwritten"
  BY <1>3 DEF Fate
<1> QED BY <1>2, <1>5, <1>6 DEF Box!OutboxNext, Box!Post, Box!Become

LEMMA BoxLand ==
  ASSUME TypeOK, Guard, Traces, NEW c \in Polls, Land(c)
  PROVE  Box!OutboxNext
<1> DEFINE m == Head(c)
<1>1. m \in Msgs /\ record[m] = "none" /\ owner[m] \in Sessions
  BY HeadOpen DEF Land, Draining
<1>2. UNCHANGED <<owner, record>> /\ shown' = [shown EXCEPT ![m] = @ + 1]
  BY DEF Land, outVars
<1>3. {n \in Msgs : shown[n] > 0}' = {n \in Msgs : shown[n] > 0} \cup {m}
  BY <1>1, <1>2 DEF TypeOK
<1>4. [n \in Msgs |-> Fate(n)]' = [n \in Msgs |-> Fate(n)]
  BY <1>2 DEF Fate
<1>5. Fate(m) = "open"
  BY <1>1, DeliveryConstants DEF Fate
<1> HIDE DEF m
<1> QED BY <1>1, <1>3, <1>4, <1>5 DEF Box!OutboxNext, Box!Show

(* Settling the head of a batch. *)
LEMMA BoxSettles ==
  ASSUME TypeOK, NEW m \in Msgs, record[m] = "none", owner[m] \in Sessions,
         owner' = owner, shown' = shown, NEW r \in {"delivered", "failed"},
         record' = [record EXCEPT ![m] = r], r = "delivered" => shown[m] > 0
  PROVE  Box!OutboxNext
<1>1. ASSUME NEW n \in Msgs
      PROVE  Fate(n)' = [[k \in Msgs |-> Fate(k)] EXCEPT ![m] = r][n]
  BY DeliveryConstants DEF Fate, TypeOK
<1>2. [n \in Msgs |-> Fate(n)]' = [[n \in Msgs |-> Fate(n)] EXCEPT ![m] = r]
  BY <1>1
<1>3. Fate(m) = "open"
  BY DeliveryConstants DEF Fate
<1>4. {n \in Msgs : shown[n] > 0}' = {n \in Msgs : shown[n] > 0}
  OBVIOUS
<1>5. CASE r = "delivered"
  BY <1>2, <1>3, <1>4, <1>5 DEF Box!OutboxNext, Box!Deliver, Box!Become
<1>6. CASE r = "failed"
  BY <1>2, <1>3, <1>4, <1>6 DEF Box!OutboxNext, Box!GiveUp, Box!Become
<1> QED BY <1>5, <1>6

LEMMA BoxHandle ==
  ASSUME TypeOK, Guard, Traces, offline = {}, NEW c \in Polls, Handles(c)
  PROVE  [Box!OutboxNext]_(Box!outboxVars)
<1> DEFINE m == Head(c)
<1>1. Draining(c) /\ owner' = owner
  BY HandlesHead DEF outVars
<1>2. m \in Msgs /\ record[m] = "none" /\ owner[m] \in Sessions
  BY <1>1, HeadOpen
<1>3. shown' = shown /\ ~Drop(c)
  BY DEF Handles, Drop, Sent, SendFails, SentUnheard, worldVars
<1>4. CASE Sent(c)
  <2>1. record' = [record EXCEPT ![m] = "delivered"]
    BY <1>2, <1>4 DEF Sent, MarkDelivered, TypeOK
  <2>2. shown[m] > 0
    BY <1>4 DEF Sent, Traces
  <2> HIDE DEF m
  <2> QED BY <1>1, <1>2, <1>3, <2>1, <2>2, BoxSettles
<1>5. CASE Failed(c)
  <2>1. record' = [record EXCEPT ![m] = "failed"] \/ record' = record
    BY <1>2, <1>5 DEF Failed, TypeOK
  <2> HIDE DEF m
  <2> QED BY <1>1, <1>2, <1>3, <2>1, BoxSettles, BoxStutters
<1> QED BY <1>3, <1>4, <1>5 DEF Handles, SendFails, SentUnheard

(* With an adapter for every channel, a message is shown until it is       *)
(* settled and not afterwards, stays settled through hangs, restarts and   *)
(* overlapping polls, and counts as delivered only when it was shown.      *)
THEOREM Implementation ==
  ASSUME Outages = {{}}
  PROVE  Spec => OutboxKept
<1>1. Init => Box!OutboxInit
  BY DEF Init, Box!OutboxInit, Fate
<1>2. ASSUME TypeOK, Guard, Traces, [Next]_vars
      PROVE  [Box!OutboxNext]_(Box!outboxVars)
  <2>1. offline = {}
    BY <1>2 DEF TypeOK
  <2>2. CASE UNCHANGED vars
    BY <2>2, BoxStutters DEF vars, outVars, worldVars
  <2>3. CASE HostRestart
    BY <2>3, BoxStutters DEF HostRestart, outVars, worldVars
  <2>4. ASSUME NEW s \in Sessions, Write(s)
        PROVE  Box!OutboxNext
    BY <1>2, <2>4, BoxWrite
  <2>5. ASSUME NEW m \in Msgs, BecomesDue(m) \/ Answer(m)
        PROVE  UNCHANGED Box!outboxVars
    BY <2>5, BoxStutters DEF BecomesDue, Answer, outVars, worldVars
  <2>6. ASSUME NEW c \in Polls, Poll(c) \/ Hang(c), ~Land(c), ~Handles(c)
        PROVE  UNCHANGED Box!outboxVars
    <3>1. owner' = owner /\ record' = record /\ shown' = shown
      BY <2>6 DEF Poll, Handles, Hang, Tick, ListDone, Enter, Unreadable, Send,
                  GiveUpFails, outVars, worldVars
    <3> QED BY <3>1, BoxStutters
  <2>7. ASSUME NEW c \in Polls, Poll(c) \/ Hang(c)
        PROVE  [Box!OutboxNext]_(Box!outboxVars)
    BY <1>2, <2>1, <2>6, <2>7, BoxLand, BoxHandle
  <2> QED BY <1>2, <2>2, <2>3, <2>4, <2>5, <2>7 DEF Next
<1> QED BY <1>1, <1>2, Tracing, PTL DEF Spec, OutboxKept, Box!OutboxSpec

=============================================================================
