------------------------------ MODULE Delivery ------------------------------
(***************************************************************************)
(* The delivery of outbound messages by the two poll chains of the host.   *)
(*                                                                         *)
(* Containers write messages into the outbound databases of their          *)
(* sessions.  The active poll (every second, the running sessions) and the *)
(* sweep poll (every minute, all sessions) each walk a list of sessions,   *)
(* drain one after the other, and await the channel adapter message by     *)
(* message.  A set of sessions in flight keeps them off each other's       *)
(* session; the `delivered` table of the inbound database remembers what   *)
(* has been settled; the attempts are counted in the memory of the host.   *)
(*                                                                         *)
(* Message numbers stand for the order of the rows' timestamps.            *)
(***************************************************************************)
EXTENDS Naturals, FiniteSets

CONSTANTS
  Sessions,    (* sessions with an outbound database                       *)
  NoSession,   (* the poll is at no session                                *)
  MaxMsgs,     (* messages written (bound)                                 *)
  MaxAttempts, (* MAX_DELIVERY_ATTEMPTS                                    *)
  MaxFaults,   (* restarts, database errors and lost answers (bound)       *)
  MaxHangs,    (* adapter calls that never settle (bound)                  *)
  Outages      (* the sets of sessions that may turn out to have no        *)
               (* adapter, or whose rows no address, while a host runs     *)

ASSUME DeliveryConstants ==
  /\ NoSession \notin Sessions
  /\ MaxMsgs \in Nat /\ MaxFaults \in Nat /\ MaxHangs \in Nat
  /\ MaxAttempts \in Nat \ {0}
  /\ Outages \subseteq SUBSET Sessions /\ {} \in Outages

Msgs == 1 .. MaxMsgs
Polls == {"active", "sweep"}

VARIABLES
  owner,     (* the session each message was written in                    *)
  cards,     (* messages that are question cards                           *)
  due,       (* messages whose deliver_after has passed                    *)
  record,    (* the rows of the `delivered` table, by their status         *)
  questions, (* rows of pending_questions                                  *)
  offline,   (* sessions whose channel has no adapter in this run          *)
  inflight,  (* inflightDeliveries                                         *)
  attempts,  (* deliveryAttempts                                           *)
  pc,        (* where each poll awaits                                     *)
  todo,      (* the sessions left in each poll's list                      *)
  at,        (* the session each poll drains                               *)
  batch,     (* the messages left of each poll's snapshot of that session  *)
  shown,     (* how often each message took effect outside the host        *)
  answered,  (* cards whose button was clicked while there was a row       *)
  delayed,   (* messages once deferred or once failed to be sent (history) *)
  faults,    (* faults used up                                             *)
  hangs      (* hanging calls used up                                      *)

outVars == <<owner, cards, due>>
pollVars == <<pc, todo, at, batch>>
hostVars == <<offline, inflight, attempts>>
worldVars == <<shown, answered, delayed>>
boundVars == <<faults, hangs>>
vars == <<outVars, record, questions, hostVars, pollVars, worldVars, boundVars>>

(* A poll waits for its timer, walks its list, handles a message before    *)
(* and while it awaits the adapter, is to hear of a message that has been  *)
(* shown, or hangs.                                                        *)
Places == {"timer", "list", "drain", "sending", "sent", "hung"}

Draining(c) == pc[c] \in {"drain", "sending", "sent", "hung"}

Written == {m \in Msgs : owner[m] # NoSession}

(* Mutant of Head: ORDER BY timestamp DESC. *)
HeadNewest(c) == CHOOSE m \in batch[c] : \A n \in batch[c] : m >= n

(* ORDER BY timestamp: the poll works off the oldest message first. *)
Head(c) == CHOOSE m \in batch[c] : \A n \in batch[c] : m <= n

Init ==
  /\ owner = [m \in Msgs |-> NoSession] /\ cards = {} /\ due = {}
  /\ record = [m \in Msgs |-> "none"] /\ questions = {}
  /\ offline \in Outages
  /\ inflight = {} /\ attempts = [m \in Msgs |-> 0]
  /\ pc = [c \in Polls |-> "timer"] /\ todo = [c \in Polls |-> {}]
  /\ at = [c \in Polls |-> NoSession] /\ batch = [c \in Polls |-> {}]
  /\ shown = [m \in Msgs |-> 0] /\ answered = {} /\ delayed = {}
  /\ faults = 0 /\ hangs = 0

(* Every variable has its type: only cards have question rows and answers, *)
(* and a failing markDeliveryFailed is all that raises deliveryAttempts    *)
(* past the maximum.                                                       *)
TypeOK ==
  /\ owner \in [Msgs -> Sessions \cup {NoSession}]
  /\ cards \subseteq Msgs /\ due \subseteq Msgs
  /\ record \in [Msgs -> {"none", "delivered", "failed"}]
  /\ questions \subseteq cards
  /\ offline \in Outages
  /\ inflight \subseteq Sessions
  /\ attempts \in [Msgs -> 0 .. MaxAttempts + faults]
  /\ pc \in [Polls -> Places]
  /\ todo \in [Polls -> SUBSET Sessions]
  /\ at \in [Polls -> Sessions \cup {NoSession}]
  /\ batch \in [Polls -> SUBSET Msgs]
  /\ shown \in [Msgs -> Nat]
  /\ answered \subseteq cards /\ delayed \subseteq Msgs
  /\ faults \in 0 .. MaxFaults /\ hangs \in 0 .. MaxHangs

Fault == faults < MaxFaults /\ faults' = faults + 1

-----------------------------------------------------------------------------
(* The outside world: containers write, time passes, users click. *)

(* writeMessageOut, and writeOutboundDirect for the host's own replies. *)
Write(s) ==
  \E m \in Msgs \ Written, card, deferred \in BOOLEAN :
     /\ \A n \in Msgs \ Written : m <= n
     /\ owner' = [owner EXCEPT ![m] = s]
     /\ cards' = IF card THEN cards \cup {m} ELSE cards
     /\ due' = IF deferred THEN due ELSE due \cup {m}
     /\ delayed' = IF deferred THEN delayed \cup {m} ELSE delayed
     /\ UNCHANGED <<record, questions, hostVars, pollVars, shown, answered, boundVars>>

BecomesDue(m) ==
  /\ m \in Written \ due
  /\ due' = due \cup {m}
  /\ UNCHANGED <<owner, cards, record, questions, hostVars, pollVars, worldVars,
                 boundVars>>

(* A user clicks a card: with a row the answer is written for the agent    *)
(* and the row is deleted; without one the click goes unclaimed.           *)
Answer(m) ==
  /\ m \in cards \cap questions /\ shown[m] > 0
  /\ answered' = answered \cup {m}
  /\ questions' = questions \ {m}
  /\ UNCHANGED <<outVars, record, hostVars, pollVars, shown, delayed, boundVars>>

-----------------------------------------------------------------------------
(* The poll chains: pollActive, pollSweep, deliverSessionMessages. *)

(* The timer fires.  Which sessions run is the container runner's affair   *)
(* and may differ each time; the sweep takes them all.                     *)
Tick(c) ==
  /\ pc[c] = "timer"
  /\ pc' = [pc EXCEPT ![c] = "list"]
  /\ \E listed \in IF c = "active" THEN SUBSET Sessions ELSE {Sessions} :
        todo' = [todo EXCEPT ![c] = listed]
  /\ UNCHANGED <<outVars, record, questions, hostVars, at, batch, worldVars, boundVars>>

ListDone(c) ==
  /\ pc[c] = "list" /\ todo[c] = {}
  /\ pc' = [pc EXCEPT ![c] = "timer"]
  /\ UNCHANGED <<outVars, record, questions, hostVars, todo, at, batch, worldVars,
                 boundVars>>

(* Mutant of Undelivered: the `delivered` table is not consulted. *)
AllDue(s) == {m \in due : owner[m] = s}

(* getDueOutboundMessages without getDeliveredIds. *)
Undelivered(s) == {m \in due : owner[m] = s /\ record[m] = "none"}

(* Mutant of Guarded: no session is ever in flight. *)
Unguarded(s) == s \notin Sessions

(* Another poll drains the session. *)
Guarded(s) == s \in inflight

(* Mutant of Enter: a session in flight ends the walk. *)
EnterStops(c) ==
  /\ pc[c] = "list"
  /\ \E s \in todo[c] :
        /\ todo' = [todo EXCEPT ![c] = IF Guarded(s) THEN {} ELSE @ \ {s}]
        /\ IF Guarded(s) \/ Undelivered(s) = {}
           THEN UNCHANGED <<pc, at, batch, inflight>>
           ELSE /\ pc' = [pc EXCEPT ![c] = "drain"]
                /\ at' = [at EXCEPT ![c] = s]
                /\ batch' = [batch EXCEPT ![c] = Undelivered(s)]
                /\ inflight' = inflight \cup {s}
  /\ UNCHANGED <<outVars, record, questions, offline, attempts, worldVars, boundVars>>

(* The next session of the list: passed over when it is guarded, or when   *)
(* there is nothing to deliver, and else drained from a snapshot.          *)
Enter(c) ==
  /\ pc[c] = "list"
  /\ \E s \in todo[c] :
        /\ todo' = [todo EXCEPT ![c] = @ \ {s}]
        /\ IF Guarded(s) \/ Undelivered(s) = {}
           THEN UNCHANGED <<pc, at, batch, inflight>>
           ELSE /\ pc' = [pc EXCEPT ![c] = "drain"]
                /\ at' = [at EXCEPT ![c] = s]
                /\ batch' = [batch EXCEPT ![c] = Undelivered(s)]
                /\ inflight' = inflight \cup {s}
  /\ UNCHANGED <<outVars, record, questions, offline, attempts, worldVars, boundVars>>

(* The `finally` of deliverSessionMessages. *)
Leave(c) ==
  /\ at' = [at EXCEPT ![c] = NoSession]
  /\ batch' = [batch EXCEPT ![c] = {}]
  /\ inflight' = inflight \ {at[c]}

(* An exception that leaves the drain ends the whole list. *)
Abort(c) ==
  /\ Leave(c)
  /\ pc' = [pc EXCEPT ![c] = "timer"]
  /\ todo' = [todo EXCEPT ![c] = {}]

(* A database cannot be opened, and the session is passed over, or cannot  *)
(* be read, and so are all sessions behind it.                             *)
Unreadable(c) ==
  /\ pc[c] = "list" /\ Fault
  /\ \E s \in todo[c] :
        /\ s \notin inflight
        /\ \/ todo' = [todo EXCEPT ![c] = @ \ {s}] /\ UNCHANGED pc
           \/ todo' = [todo EXCEPT ![c] = {}] /\ pc' = [pc EXCEPT ![c] = "timer"]
  /\ UNCHANGED <<outVars, record, questions, hostVars, at, batch, worldVars, hangs>>

-----------------------------------------------------------------------------
(* deliverMessage and the loop around it in drainSession. *)

(* Done with the head of the batch: the next message, or the next session. *)
NextMessage(c) ==
  /\ IF batch[c] = {Head(c)}
     THEN Leave(c) /\ pc' = [pc EXCEPT ![c] = "list"]
     ELSE /\ batch' = [batch EXCEPT ![c] = @ \ {Head(c)}]
          /\ pc' = [pc EXCEPT ![c] = "drain"]
          /\ UNCHANGED <<at, inflight>>
  /\ UNCHANGED todo

(* Mutant of Ask: the row follows when the card has been delivered. *)
AskNothing(m) == UNCHANGED questions

(* Mutant of Ask: a row for every message. *)
AskAlways(m) == questions' = questions \cup {m}

(* createPendingQuestion, with INSERT OR IGNORE, before the card is sent. *)
Ask(m) == questions' = questions \cup ({m} \cap cards)

(* The message passes the checks and goes to the channel adapter. *)
Send(c) ==
  /\ pc[c] = "drain" /\ at[c] \notin offline
  /\ Ask(Head(c))
  /\ pc' = [pc EXCEPT ![c] = "sending"]
  /\ UNCHANGED <<outVars, record, hostVars, todo, at, batch, worldVars, boundVars>>

(* markDelivered, with INSERT OR IGNORE; the count starts afresh. *)
MarkDelivered(m) ==
  /\ record' = [record EXCEPT ![m] = IF @ = "none" THEN "delivered" ELSE @]
  /\ attempts' = [attempts EXCEPT ![m] = 0]

(* No adapter is registered for the channel, or the row carries no         *)
(* address: that is no error, and the row counts as delivered.             *)
Drop(c) ==
  /\ pc[c] = "drain" /\ at[c] \in offline
  /\ Ask(Head(c))
  /\ MarkDelivered(Head(c))
  /\ NextMessage(c)
  /\ UNCHANGED <<outVars, offline, worldVars, boundVars>>

(* The platform shows the message; the answer is still to come. *)
Land(c) ==
  /\ pc[c] = "sending"
  /\ shown' = [shown EXCEPT ![Head(c)] = @ + 1]
  /\ pc' = [pc EXCEPT ![c] = "sent"]
  /\ UNCHANGED <<outVars, record, questions, hostVars, todo, at, batch, answered,
                 delayed, boundVars>>

Sent(c) ==
  /\ pc[c] = "sent"
  /\ MarkDelivered(Head(c))
  /\ NextMessage(c)
  /\ UNCHANGED <<outVars, questions, offline, worldVars, boundVars>>

(* The catch: one attempt more, and at the maximum the message is settled. *)
Failed(c) ==
  LET m == Head(c) IN
  IF attempts[m] + 1 >= MaxAttempts
  THEN /\ record' = [record EXCEPT ![m] = IF @ = "none" THEN "failed" ELSE @]
       /\ attempts' = [attempts EXCEPT ![m] = 0]
  ELSE /\ attempts' = [attempts EXCEPT ![m] = @ + 1]
       /\ UNCHANGED record

(* Rejected before the adapter is called (unknown or unauthorized          *)
(* destination, bad content), or by the platform.                          *)
SendFails(c) ==
  /\ pc[c] \in {"drain", "sending"}
  /\ Failed(c) /\ NextMessage(c)
  /\ delayed' = delayed \cup {Head(c)}
  /\ UNCHANGED <<outVars, questions, offline, shown, answered, boundVars>>

(* The message was shown, but the platform's answer is lost, or            *)
(* markDelivered throws.                                                   *)
SentUnheard(c) ==
  /\ pc[c] = "sent" /\ Fault
  /\ Failed(c) /\ NextMessage(c)
  /\ delayed' = delayed \cup {Head(c)}
  /\ UNCHANGED <<outVars, questions, offline, shown, answered, hangs>>

(* markDeliveryFailed throws out of the catch, at a message that could not *)
(* be sent or whose markDelivered threw before.  The count stays.          *)
GiveUpFails(c) ==
  /\ pc[c] \in {"drain", "sending", "sent"} /\ Fault
  /\ attempts[Head(c)] + 1 >= MaxAttempts
  /\ attempts' = [attempts EXCEPT ![Head(c)] = @ + 1]
  /\ delayed' = delayed \cup {Head(c)}
  /\ Abort(c)
  /\ UNCHANGED <<outVars, record, questions, offline, shown, answered, hangs>>

Hang(c) ==
  /\ pc[c] = "sending" /\ hangs < MaxHangs
  /\ pc' = [pc EXCEPT ![c] = "hung"]
  /\ hangs' = hangs + 1
  /\ UNCHANGED <<outVars, record, questions, hostVars, todo, at, batch, worldVars,
                 faults>>

-----------------------------------------------------------------------------
(* The host dies or is shut down, and comes back: the databases stay. *)
HostRestart ==
  /\ Fault
  /\ offline' \in Outages
  /\ inflight' = {} /\ attempts' = [m \in Msgs |-> 0]
  /\ pc' = [c \in Polls |-> "timer"] /\ todo' = [c \in Polls |-> {}]
  /\ at' = [c \in Polls |-> NoSession] /\ batch' = [c \in Polls |-> {}]
  /\ UNCHANGED <<outVars, record, questions, worldVars, hangs>>

Poll(c) ==
  \/ Tick(c) \/ ListDone(c) \/ Enter(c) \/ Unreadable(c)
  \/ Send(c) \/ Drop(c) \/ Land(c) \/ Sent(c) \/ SendFails(c)
  \/ SentUnheard(c) \/ GiveUpFails(c)

Next ==
  \/ \E s \in Sessions : Write(s)
  \/ \E m \in Msgs : BecomesDue(m) \/ Answer(m)
  \/ \E c \in Polls : Poll(c) \/ Hang(c)
  \/ HostRestart

Spec == Init /\ [][Next]_vars

(* Timers fire, and every adapter call that does not hang settles. *)
Fairness == \A c \in Polls : WF_vars(Poll(c))

FairSpec == Spec /\ Fairness

-----------------------------------------------------------------------------
(* Properties. *)

(* The two chains never work on the same session, and what a drain still   *)
(* has to send has not been settled behind its back: the snapshot stays    *)
(* valid across every await.                                               *)
SnapshotsHold ==
  \A c \in Polls :
     Draining(c) => /\ \A d \in Polls \ {c} : at[d] # at[c]
                    /\ batch[c] # {}
                    /\ batch[c] \subseteq Undelivered(at[c])

(* Every showing of a message beyond the first is paid for by a restart, a *)
(* lost answer or a database error: polls and retries add none ("the user  *)
(* has already seen the message twice").                                   *)
ShownOnce == \A m \in Msgs : shown[m] <= 1 + faults

(* Messages of a session are shown in the order they were written: only a  *)
(* message that was deferred, or failed to be sent, is overtaken.          *)
NoOvertaking ==
  \A m, n \in Written :
     owner[m] = owner[n] /\ m < n /\ shown[n] > 0 =>
        record[m] # "none" \/ m \in delayed

(* A card on the screen can be answered, unless it has been. *)
CardsAnswerable == \A m \in cards : shown[m] > 0 => m \in questions \cup answered

(* What is due settles, for any timing of the polls.  When a call hangs in *)
(* the active poll, the sweep skips that one session and still serves the  *)
(* rest ("Skipping (vs. queueing) is correct"); when the sweep itself      *)
(* hangs, nothing serves a session without a running container.            *)
OutboxDrains ==
  \A m \in Msgs :
     m \in due ~> \/ record[m] # "none"
                  \/ pc["sweep"] = "hung"
                  \/ pc["active"] = "hung" /\ at["active"] = owner[m]

(* "Failures throw [...] instead of marking it delivered when nothing was  *)
(* actually delivered"; an offline adapter means "warn + drop into the     *)
(* delivery retry path".                                                   *)
DeliveredWasShown == \A m \in Msgs : record[m] = "delivered" => shown[m] > 0

Fate(m) ==
  IF owner[m] = NoSession THEN "unwritten"
  ELSE IF record[m] = "none" THEN "open" ELSE record[m]

Box == INSTANCE Outbox WITH fate <- [m \in Msgs |-> Fate(m)],
                            seen <- {m \in Msgs : shown[m] > 0}

(* Nothing is shown after it is settled, and what is settled stays so.     *)
OutboxKept == Box!OutboxSpec

=============================================================================
