------------------------- MODULE Dialogues_proofs ---------------------------
(***************************************************************************)
(* Theorems of the dialogues of the host with its users: of Admission, for *)
(* any wirings, policies, senders and threads and any number of agents,    *)
(* messages and faults; of Registration, for any number of groups, mentions*)
(* and presses; and of the three dialogues side by side.                   *)
(***************************************************************************)
EXTENDS MCDialogues, Approvals_proofs, WellFoundedInduction, TLAPS

-----------------------------------------------------------------------------
(***************************************************************************)
(* The admission of senders.                                               *)
(***************************************************************************)

(* Members of an agent are those that an approver has admitted to it, and  *)
(* what is stored has arrived.                                             *)
Membership ==
  /\ \A a \in Agents, s \in Senders : s \in members[a] => <<a, s>> \in granted
  /\ \A a \in Agents, m \in Msgs : stored[a][m] # "no" => event[m] # NoEvent

(* What the gates have turned away engages the agent, and goes on doing    *)
(* so, and only an approval can let it in.                                 *)
Refusals ==
  \A a \in Agents, m \in Msgs :
    <<a, m>> \in refused =>
      /\ event[m] # NoEvent /\ Engages(a, event[m])
      /\ event[m].sender \notin Admins
      /\ policy # "public" \/ wiring[a].known

(* A sticky agent that drops what is not for it has sessions, and messages *)
(* that turned it on, in those threads only where the bot was mentioned.   *)
ThreadMentioned(t) ==
  \E k \in Msgs : event[k] # NoEvent /\ event[k].mention /\ event[k].thread = t

Threaded ==
  /\ StickyNeedsMention
  /\ \A a \in Agents, t \in Threads :
        <<a, t>> \in sessions /\ wiring[a].mode = "sticky" /\ ~wiring[a].accumulate
          => ThreadMentioned(t)

AdmissionInv == AdmissionTypeOK /\ Membership /\ Consent /\ Refusals /\ Threaded

-----------------------------------------------------------------------------
(* Facts about the parts of a state. *)

LEMMA LeastAgent ==
  ASSUME NEW T, T \subseteq Nat, T # {}
  PROVE  \E a \in T : \A b \in T : a <= b
<1> DEFINE R == OpToRel(<, Nat)
<1>1. IsWellFoundedOn(R, Nat)
  BY NatLessThanWellFounded, Zenon
<1>2. \A x, y \in Nat : y < x => <<y, x>> \in R
  BY Zenon DEF OpToRel
<1> HIDE DEF R
<1>3. PICK a \in T : \A b \in T : ~(<<b, a>> \in R)
  BY <1>1, WFMin
<1>4. \A b \in T : ~(b < a)
  BY <1>2, <1>3
<1> QED BY <1>4

(* The agent whose turn it is, is one that the route has yet to visit. *)
LEMMA TurnNext ==
  ASSUME AdmissionTypeOK, NEW r \in routes
  PROVE  /\ Turn(r) \in Agents /\ Turn(r) \in r.todo /\ r.todo \subseteq Agents
         /\ r.msg \in Msgs /\ r \in [msg : Msgs, todo : SUBSET Agents]
         /\ event[r.msg] # NoEvent /\ event[r.msg] \in AllEvents
<1>1. /\ r.todo # {} /\ r.todo \subseteq Agents /\ r.msg \in Msgs
      /\ r \in [msg : Msgs, todo : SUBSET Agents] /\ event[r.msg] # NoEvent
  BY DEF AdmissionTypeOK
<1>2. r.todo \subseteq Nat
  BY <1>1, AdmissionConstants DEF Agents
<1>3. \E a \in r.todo : \A b \in r.todo : a <= b
  BY <1>1, <1>2, LeastAgent
<1>4. Turn(r) \in r.todo
  BY <1>3 DEF Turn
<1>5. event[r.msg] \in AllEvents
  BY <1>1, AdmissionConstants DEF AdmissionTypeOK
<1> QED
  BY <1>1, <1>4, <1>5

(* What has arrived is a message of the instance. *)
LEMMA Arrived ==
  ASSUME AdmissionTypeOK, NEW m \in Msgs, event[m] # NoEvent
  PROVE  event[m] \in AllEvents
BY AdmissionConstants DEF AdmissionTypeOK

(* Routes stay routes when one goes on to the next agent. *)
LEMMA ProceedTyped ==
  ASSUME AdmissionTypeOK, NEW r \in routes, Proceed(r)
  PROVE  /\ routes' \subseteq [msg : Msgs, todo : SUBSET Agents]
         /\ \A n \in routes' : n.todo # {} /\ event[n.msg] # NoEvent
<1> DEFINE n == [r EXCEPT !.todo = @ \ {Turn(r)}]
<1>1. n \in [msg : Msgs, todo : SUBSET Agents] /\ n.msg = r.msg
  BY TurnNext
<1>2. routes' \subseteq routes \cup {n} /\ (n \in routes' => n.todo # {} \/ n \in routes)
  BY DEF Proceed
<1> QED
  BY <1>1, <1>2, TurnNext DEF AdmissionTypeOK

(* Who is known to an agent is an administrator or was admitted to it. *)
LEMMA KnownAdmitted ==
  ASSUME Membership, NEW a \in Agents, NEW s \in Senders, Known(a, s)
  PROVE  s \in Admins \/ <<a, s>> \in granted
BY DEF Known, Membership

(* Sessions are never lost, so that an agent stays engaged. *)
LEMMA StaysEngaged ==
  ASSUME NEW a \in Agents, NEW e \in AllEvents, Engages(a, e),
         wiring' = wiring, sessions \subseteq sessions'
  PROVE  Engages(a, e)'
BY DEF Engages

(* What every action does but those that admit, deliver and refuse: the    *)
(* chat stays as it is.                                                    *)
LEMMA ChatStays ==
  ASSUME Membership, Consent, Refusals, Threaded,
         UNCHANGED <<policy, wiring, members, sessions, stored, event, refused>>,
         granted \subseteq granted'
  PROVE  Membership' /\ Consent' /\ Refusals' /\ Threaded'
<1>1. Membership' /\ Consent'
  BY DEF Membership, Consent
<1>2. Refusals'
  BY DEF Refusals, Engages
<1>3. Threaded'
  BY DEF Threaded, StickyNeedsMention, ThreadMentioned
<1> QED
  BY <1>1, <1>2, <1>3

-----------------------------------------------------------------------------
(* The invariant holds at the start and is kept by every action. *)

LEMMA AdmissionStarts == AdmissionInit => AdmissionInv
<1> SUFFICES ASSUME AdmissionInit PROVE AdmissionInv
  OBVIOUS
<1>1. AdmissionTypeOK
  BY FaultBound DEF AdmissionInit, AdmissionTypeOK
<1>2. Membership /\ Consent /\ Refusals /\ Threaded
  BY DEF AdmissionInit, Membership, Consent, Refusals, Threaded, StickyNeedsMention
<1> QED
  BY <1>1, <1>2 DEF AdmissionInv

LEMMA ReceiveInv ==
  ASSUME AdmissionInv, NEW m \in Msgs, NEW e \in Events, Receive(m, e)
  PROVE  AdmissionInv'
<1>1. /\ event[m] = NoEvent /\ event' = [event EXCEPT ![m] = e]
      /\ routes' = routes \cup {[msg |-> m, todo |-> Agents]}
      /\ UNCHANGED <<policy, wiring, members, sessions, stored, row, asks>>
      /\ UNCHANGED <<granted, approved, refused, cut, faults>>
  BY DEF Receive, chatVars, pastVars
<1>2. Agents # {} /\ e # NoEvent /\ event \in [Msgs -> Events \cup {NoEvent}]
  <2>1. 1 \in Agents
    BY AdmissionConstants DEF Agents
  <2>2. e.kind \in {"chat", "admin", "filtered"}
    BY AdmissionConstants DEF AllEvents
  <2> QED
    BY <2>1, <2>2 DEF NoEvent, AdmissionInv, AdmissionTypeOK
<1>3. \A k \in Msgs : event[k] # NoEvent => event'[k] = event[k]
  BY <1>1, <1>2
<1>4. event'[m] = e
  BY <1>1, <1>2
<1>5. AdmissionTypeOK'
  <2>1. event' \in [Msgs -> Events \cup {NoEvent}]
    BY <1>1, <1>2
  <2>2. /\ routes' \subseteq [msg : Msgs, todo : SUBSET Agents]
        /\ \A r \in routes' : r.todo # {} /\ event'[r.msg] # NoEvent
    BY <1>1, <1>2, <1>3, <1>4 DEF AdmissionInv, AdmissionTypeOK
  <2>3. /\ \A q \in asks' : event'[q.msg] # NoEvent
        /\ \A s \in Senders : row'[s] # NoRow => event'[row'[s].msg] # NoEvent
    <3>1. \A s \in Senders : row[s] # NoRow => row[s].msg \in Msgs
      BY DEF AdmissionInv, AdmissionTypeOK, Rows
    <3> QED
      BY <1>1, <1>3, <3>1 DEF AdmissionInv, AdmissionTypeOK
  <2> QED
    BY <1>1, <2>1, <2>2, <2>3 DEF AdmissionInv, AdmissionTypeOK
<1>6. Membership' /\ Consent' /\ Refusals' /\ Threaded'
  <2>1. \A a \in Agents, k \in Msgs : stored[a][k] # "no" => event'[k] = event[k]
    BY <1>3 DEF AdmissionInv, Membership
  <2>2. Membership'
    BY <1>1, <1>2, <1>3 DEF AdmissionInv, Membership
  <2>3. Consent'
    BY <1>1, <2>1 DEF AdmissionInv, Consent
  <2>4. \A a \in Agents, k \in Msgs :
          <<a, k>> \in refused => event'[k] = event[k] /\ event'[k] # NoEvent
    BY <1>3 DEF AdmissionInv, Refusals
  <2>5. Refusals'
    <3> SUFFICES ASSUME NEW a \in Agents, NEW k \in Msgs, <<a, k>> \in refused
                 PROVE  /\ event'[k] # NoEvent /\ Engages(a, event[k])'
                        /\ event'[k].sender \notin Admins
                        /\ policy # "public" \/ wiring[a].known
      BY <1>1 DEF Refusals
    <3>1. /\ event'[k] = event[k] /\ event'[k] # NoEvent /\ Engages(a, event[k])
          /\ event[k].sender \notin Admins /\ (policy # "public" \/ wiring[a].known)
      BY <2>4 DEF AdmissionInv, Refusals
    <3> QED
      BY <1>1, <3>1 DEF Engages
  <2>6. \A t \in Threads : ThreadMentioned(t) => ThreadMentioned(t)'
    BY <1>3 DEF ThreadMentioned
  <2>7. \A a \in Agents, k \in Msgs :
          stored[a][k] = "trigger" => event'[k] = event[k] /\ event[k].thread \in Threads
    BY <2>1, Arrived DEF AdmissionInv, Membership, AllEvents
  <2>8. Threaded'
    BY <1>1, <2>6, <2>7 DEF AdmissionInv, Threaded, StickyNeedsMention, ThreadMentioned
  <2> QED
    BY <2>2, <2>3, <2>5, <2>8
<1> QED
  BY <1>5, <1>6 DEF AdmissionInv

(* A delivery keeps the invariant when what it turns an agent on for has   *)
(* passed the gates.                                                       *)
LEMMA DeliverInv ==
  ASSUME AdmissionInv, NEW r \in routes, NEW how \in {"context", "trigger"},
         Deliver(r, how),
         how = "context" => wiring[Turn(r)].accumulate,
         how = "trigger" => /\ Engages(Turn(r), event[r.msg])
                            /\ AccessOk(Turn(r), event[r.msg].sender)
                            /\ ScopeOk(Turn(r), event[r.msg].sender)
  PROVE  AdmissionInv'
<1> DEFINE a == Turn(r)
           m == r.msg
           s == event[r.msg].sender
<1>1. /\ a \in Agents /\ m \in Msgs /\ event[m] # NoEvent /\ event[m] \in AllEvents
      /\ s \in Senders /\ event[m].thread \in Threads
  BY TurnNext DEF AdmissionInv, AllEvents
<1>2. /\ sessions' = sessions \cup {<<a, event[m].thread>>}
      /\ UNCHANGED <<policy, wiring, members, event, asks, row>>
      /\ UNCHANGED <<granted, approved, refused, cut, faults>>
      /\ Proceed(r) \/ routes' = routes \ {r}
      /\ stored' = stored \/ stored' = [stored EXCEPT ![a][m] = how]
  BY DEF Deliver, pastVars
<1>3. /\ routes' \subseteq [msg : Msgs, todo : SUBSET Agents]
      /\ \A n \in routes' : n.todo # {} /\ event[n.msg] # NoEvent
  BY <1>2, ProceedTyped DEF AdmissionInv, AdmissionTypeOK
<1> DEFINE Hows == {"no", "context", "trigger"}
<1>4. stored \in [Agents -> [Msgs -> Hows]] /\ stored' \in [Agents -> [Msgs -> Hows]]
  <2>1. stored \in [Agents -> [Msgs -> Hows]] /\ how \in Hows
    BY DEF AdmissionInv, AdmissionTypeOK
  <2> HIDE DEF Hows, a, m
  <2>2. [stored EXCEPT ![a][m] = how] \in [Agents -> [Msgs -> Hows]]
    BY <1>1, <2>1
  <2> QED
    BY <1>2, <2>1, <2>2
<1>5. \A b \in Agents, k \in Msgs :
        stored'[b][k] = stored[b][k] \/ (b = a /\ k = m /\ stored'[b][k] = how)
  BY <1>1, <1>2, <1>4
<1> HIDE DEF a, m, s
<1>6. AdmissionTypeOK'
  BY <1>1, <1>2, <1>3, <1>4 DEF AdmissionInv, AdmissionTypeOK
<1>7. Membership'
  BY <1>1, <1>2, <1>5 DEF AdmissionInv, Membership
<1>8. how = "trigger" => \/ event[m].sender \in Admins
                         \/ <<a, event[m].sender>> \in granted
                         \/ policy = "public" /\ ~wiring[a].known
  <2>1. ASSUME how = "trigger"
        PROVE  Known(a, event[m].sender) \/ (policy = "public" /\ ~wiring[a].known)
    BY <2>1 DEF AccessOk, ScopeOk, a, m
  <2>2. event[m].sender \in Senders
    BY <1>1 DEF s, m
  <2> QED
    BY <1>1, <2>1, <2>2, KnownAdmitted DEF AdmissionInv
<1>9. Consent'
  BY <1>2, <1>5, <1>8 DEF AdmissionInv, Consent
<1>10. Refusals'
  BY <1>2 DEF AdmissionInv, Refusals, Engages
<1>11. ASSUME wiring[a].mode = "sticky", ~wiring[a].accumulate
       PROVE  ThreadMentioned(event[m].thread)
  <2>1. how = "trigger" /\ Engages(a, event[m])
    BY <1>11 DEF a, m
  <2>2. event[m].mention \/ <<a, event[m].thread>> \in sessions
    BY <1>11, <2>1 DEF Engages
  <2> QED
    BY <1>1, <1>11, <2>2 DEF AdmissionInv, Threaded, ThreadMentioned
<1>12. Threaded'
  BY <1>1, <1>2, <1>5, <1>11 DEF AdmissionInv, Threaded, StickyNeedsMention, ThreadMentioned
<1> QED
  BY <1>6, <1>7, <1>9, <1>10, <1>12 DEF AdmissionInv

LEMMA FanRefuseInv ==
  ASSUME AdmissionInv, NEW r \in routes, FanRefuse(r)
  PROVE  AdmissionInv'
<1> DEFINE a == Turn(r)
           m == r.msg
           s == event[r.msg].sender
           q == [agent |-> a, msg |-> m]
<1>1. /\ a \in Agents /\ m \in Msgs /\ event[m] # NoEvent /\ event[m] \in AllEvents
      /\ s \in Senders
  BY TurnNext DEF AdmissionInv, AllEvents
<1>2. /\ Engages(a, event[m]) /\ ~(AccessOk(a, s) /\ ScopeOk(a, s)) /\ Proceed(r)
      /\ asks \subseteq asks' /\ asks' \subseteq asks \cup {q}
      /\ refused' = refused \cup {<<a, m>>}
      /\ UNCHANGED <<policy, wiring, members, sessions, stored, row>>
      /\ UNCHANGED <<event, granted, approved, cut, faults>>
  BY DEF FanRefuse, chatVars
<1>3. /\ routes' \subseteq [msg : Msgs, todo : SUBSET Agents]
      /\ \A n \in routes' : n.todo # {} /\ event[n.msg] # NoEvent
  BY <1>2, ProceedTyped DEF AdmissionInv
<1>4. q \in [agent : Agents, msg : Msgs] /\ q.msg = m
  BY <1>1
<1>5. ~Known(a, s) /\ (policy # "public" \/ wiring[a].known)
  BY <1>2 DEF AccessOk, ScopeOk
<1>6. s \notin Admins
  BY <1>5, AdmissionConstants DEF Known
<1> HIDE DEF q
<1>7. AdmissionTypeOK'
  BY <1>1, <1>2, <1>3, <1>4 DEF AdmissionInv, AdmissionTypeOK
<1>8. Membership' /\ Consent' /\ Threaded'
  BY <1>2 DEF AdmissionInv, Membership, Consent, Threaded, StickyNeedsMention, ThreadMentioned
<1>9. Refusals'
  BY <1>1, <1>2, <1>5, <1>6 DEF AdmissionInv, Refusals, Engages
<1> QED
  BY <1>7, <1>8, <1>9 DEF AdmissionInv

LEMMA FanIgnoreInv ==
  ASSUME AdmissionInv, NEW r \in routes, FanIgnore(r)
  PROVE  AdmissionInv'
<1>1. /\ Proceed(r)
      /\ UNCHANGED <<policy, wiring, members, sessions, stored, row, event, asks>>
      /\ UNCHANGED <<granted, approved, refused, cut, faults>>
  BY DEF FanIgnore, chatVars, pastVars
<1>2. AdmissionTypeOK'
  BY <1>1, ProceedTyped DEF AdmissionInv, AdmissionTypeOK
<1> QED
  BY <1>1, <1>2, ChatStays DEF AdmissionInv

LEMMA FanInv == AdmissionInv /\ Fan => AdmissionInv'
<1> SUFFICES ASSUME AdmissionInv, NEW r \in routes,
                    FanEngage(r) \/ FanAccumulate(r) \/ FanRefuse(r) \/ FanIgnore(r)
             PROVE  AdmissionInv'
  BY DEF Fan
<1>1. CASE FanEngage(r)
  BY <1>1, DeliverInv DEF FanEngage
<1>2. CASE FanAccumulate(r)
  BY <1>2, DeliverInv DEF FanAccumulate
<1> QED
  BY <1>1, <1>2, FanRefuseInv, FanIgnoreInv

(* The steps of a card change the row of one sender. *)
LEMMA AskInv ==
  ASSUME AdmissionInv, NEW q \in asks, Ask(q) \/ AskNobody(q)
  PROVE  AdmissionInv'
<1> DEFINE new == [card |-> "sending", agent |-> q.agent, msg |-> q.msg]
<1>1. /\ q.agent \in Agents /\ q.msg \in Msgs /\ event[q.msg] # NoEvent
      /\ row \in [Senders -> Rows \cup {NoRow}]
  BY DEF AdmissionInv, AdmissionTypeOK
<1>2. /\ asks' = asks \ {q}
      /\ row' = row \/ row' = [row EXCEPT ![SenderOf(q)] = new]
      /\ UNCHANGED <<policy, wiring, members, sessions, stored, event, routes>>
      /\ UNCHANGED <<granted, approved, refused, cut, faults>>
  BY DEF Ask, AskNobody, chatVars, pastVars
<1>3. new \in Rows /\ new.msg = q.msg
  BY <1>1 DEF Rows, Visible
<1> HIDE DEF new
<1>4. /\ row' \in [Senders -> Rows \cup {NoRow}]
      /\ \A s \in Senders : row'[s] # NoRow => event[row'[s].msg] # NoEvent
  BY <1>1, <1>2, <1>3 DEF AdmissionInv, AdmissionTypeOK
<1>5. AdmissionTypeOK'
  BY <1>2, <1>4 DEF AdmissionInv, AdmissionTypeOK
<1> QED
  BY <1>2, <1>5, ChatStays DEF AdmissionInv

LEMMA CardInv ==
  ASSUME AdmissionInv, NEW s \in Senders, CardLands(s) \/ CardLost(s)
  PROVE  AdmissionInv'
<1>1. /\ row[s].card = "sending"
      /\ \E to \in Visible : row' = [row EXCEPT ![s].card = to]
      /\ UNCHANGED <<policy, wiring, members, sessions, stored, event, routes, asks>>
      /\ UNCHANGED <<granted, approved, refused, cut>>
      /\ faults' \in 0 .. MaxFaults
  BY FaultBound
     DEF CardLands, CardLost, Card, Visible, pastVars, Fault, AdmissionInv, AdmissionTypeOK
<1>2. row \in [Senders -> Rows \cup {NoRow}] /\ row[s] \in Rows
  BY <1>1 DEF AdmissionInv, AdmissionTypeOK, NoRow
<1>3. /\ row' \in [Senders -> Rows \cup {NoRow}]
      /\ \A t \in Senders : row'[t] # NoRow => event[row'[t].msg] # NoEvent
  BY <1>1, <1>2 DEF AdmissionInv, AdmissionTypeOK, Rows, NoRow
<1>4. AdmissionTypeOK'
  BY <1>1, <1>3 DEF AdmissionInv, AdmissionTypeOK
<1> QED
  BY <1>1, <1>4, ChatStays DEF AdmissionInv

LEMMA ApproveInv ==
  ASSUME AdmissionInv, NEW s \in Senders, Approve(s)
  PROVE  AdmissionInv'
<1> DEFINE a == row[s].agent
           m == row[s].msg
           n == [msg |-> m, todo |-> Agents]
<1>1. /\ row \in [Senders -> Rows \cup {NoRow}] /\ members \in [Agents -> SUBSET Senders]
      /\ a \in Agents /\ m \in Msgs /\ event[m] # NoEvent
  BY DEF AdmissionInv, AdmissionTypeOK, Approve, Rows, NoRow
<1>2. /\ members' = [members EXCEPT ![a] = @ \cup {s}]
      /\ routes' = routes \cup {n}
      /\ row' = [row EXCEPT ![s] = NoRow]
      /\ granted' = granted \cup {<<a, s>>} /\ approved' = approved \cup {<<a, m>>}
      /\ UNCHANGED <<policy, wiring, sessions, stored, event, asks, refused, cut, faults>>
  BY DEF Approve, Admit, Replay
<1>3. n \in [msg : Msgs, todo : SUBSET Agents] /\ n.msg = m /\ n.todo # {}
  BY <1>1, AdmissionConstants DEF Agents
<1> HIDE DEF a, m, n
<1>4. AdmissionTypeOK'
  <2>1. /\ row' \in [Senders -> Rows \cup {NoRow}]
        /\ \A t \in Senders : row'[t] # NoRow => row'[t] = row[t]
    BY <1>1, <1>2
  <2>2. members' \in [Agents -> SUBSET Senders]
    BY <1>1, <1>2
  <2>3. /\ routes' \subseteq [msg : Msgs, todo : SUBSET Agents]
        /\ \A r \in routes' : r.todo # {} /\ event[r.msg] # NoEvent
    BY <1>1, <1>2, <1>3 DEF AdmissionInv, AdmissionTypeOK
  <2> QED
    BY <1>1, <1>2, <2>1, <2>2, <2>3 DEF AdmissionInv, AdmissionTypeOK
<1>5. Membership'
  BY <1>1, <1>2 DEF AdmissionInv, Membership
<1>6. Consent'
  BY <1>2 DEF AdmissionInv, Consent
<1>7. Refusals'
  BY <1>2 DEF AdmissionInv, Refusals, Engages
<1>8. Threaded'
  BY <1>2 DEF AdmissionInv, Threaded, StickyNeedsMention, ThreadMentioned
<1> QED
  BY <1>4, <1>5, <1>6, <1>7, <1>8 DEF AdmissionInv

LEMMA DenyInv ==
  ASSUME AdmissionInv, NEW s \in Senders, Deny(s)
  PROVE  AdmissionInv'
<1>1. /\ row' = [row EXCEPT ![s] = NoRow]
      /\ UNCHANGED <<policy, wiring, members, sessions, stored, event, routes, asks>>
      /\ UNCHANGED <<granted, approved, refused, cut, faults>>
  BY DEF Deny, pastVars
<1>2. /\ row' \in [Senders -> Rows \cup {NoRow}]
      /\ \A t \in Senders : row'[t] # NoRow => row'[t] = row[t]
  BY <1>1 DEF AdmissionInv, AdmissionTypeOK
<1>3. AdmissionTypeOK'
  BY <1>1, <1>2 DEF AdmissionInv, AdmissionTypeOK
<1> QED
  BY <1>1, <1>3, ChatStays DEF AdmissionInv

LEMMA RestartInv == AdmissionInv /\ Restart => AdmissionInv'
<1> SUFFICES ASSUME AdmissionInv, Restart PROVE AdmissionInv'
  OBVIOUS
<1>1. /\ routes' = {} /\ asks' = {} /\ cut' = cut \cup {r.msg : r \in routes}
      /\ UNCHANGED <<policy, wiring, members, sessions, stored, event>>
      /\ UNCHANGED <<granted, approved, refused>>
      /\ faults' \in 0 .. MaxFaults
  BY FaultBound DEF Restart, Fault, AdmissionInv, AdmissionTypeOK
<1>2. PICK posted : row' = [s \in Senders |->
                 IF row[s].card # "sending" THEN row[s]
                 ELSE [row[s] EXCEPT !.card = IF s \in posted THEN "shown" ELSE "lost"]]
  BY DEF Restart
<1>3. ASSUME NEW s \in Senders
      PROVE  row'[s] \in Rows \cup {NoRow} /\ (row'[s] # NoRow => event[row'[s].msg] # NoEvent)
  <2>1. row[s] \in Rows \cup {NoRow} /\ (row[s] # NoRow => event[row[s].msg] # NoEvent)
    BY DEF AdmissionInv, AdmissionTypeOK
  <2>2. CASE row[s].card # "sending"
    BY <1>2, <2>1, <2>2
  <2>3. CASE row[s].card = "sending"
    <3>1. row[s] \in Rows /\ row[s] # NoRow
      BY <2>1, <2>3 DEF NoRow
    <3>2. row'[s] = [row[s] EXCEPT !.card = IF s \in posted THEN "shown" ELSE "lost"]
      BY <1>2, <2>3
    <3>3. row'[s] \in Rows /\ row'[s].msg = row[s].msg
      BY <3>1, <3>2 DEF Rows, Visible
    <3> QED
      BY <2>1, <3>1, <3>3
  <2> QED
    BY <2>2, <2>3
<1>4. row' \in [Senders -> Rows \cup {NoRow}]
  <2>1. row' = [s \in Senders |-> row'[s]]
    BY <1>2
  <2> QED
    BY <1>3, <2>1
<1>5. {r.msg : r \in routes} \subseteq Msgs
  BY DEF AdmissionInv, AdmissionTypeOK
<1>6. AdmissionTypeOK'
  BY <1>1, <1>3, <1>4, <1>5 DEF AdmissionInv, AdmissionTypeOK
<1> QED
  BY <1>1, <1>6, ChatStays DEF AdmissionInv

LEMMA AdmissionStep == AdmissionInv /\ [AdmissionNext]_admissionVars => AdmissionInv'
<1> SUFFICES ASSUME AdmissionInv, [AdmissionNext]_admissionVars PROVE AdmissionInv'
  OBVIOUS
<1>1. CASE AdmissionNext
  BY <1>1, ReceiveInv, FanInv, AskInv, CardInv, ApproveInv, DenyInv, RestartInv
     DEF AdmissionNext, SenderAnswered
<1>2. CASE UNCHANGED admissionVars
  <2>1. /\ UNCHANGED <<policy, wiring, members, sessions, stored, row>>
        /\ UNCHANGED <<event, routes, asks, granted, approved, refused, cut, faults>>
    BY <1>2 DEF admissionVars, chatVars, pastVars
  <2>2. AdmissionTypeOK'
    BY <2>1 DEF AdmissionInv, AdmissionTypeOK
  <2> QED
    BY <2>1, <2>2, ChatStays DEF AdmissionInv
<1> QED
  BY <1>1, <1>2

LEMMA AdmissionInductive == AdmissionSpec => []AdmissionInv
BY AdmissionStarts, AdmissionStep, PTL DEF AdmissionSpec

-----------------------------------------------------------------------------
(* Routes, cards and requests keep their types and stand for messages that *)
(* have arrived.                                                           *)
THEOREM AdmissionTyped == AdmissionSpec => []AdmissionTypeOK
<1>1. AdmissionInv => AdmissionTypeOK
  BY DEF AdmissionInv
<1> QED
  BY <1>1, AdmissionInductive, PTL

(* An agent is turned on only by those who may, or who were admitted to    *)
(* this very agent.                                                        *)
THEOREM OnlyByConsent == AdmissionSpec => []Consent
<1>1. AdmissionInv => Consent
  BY DEF AdmissionInv
<1> QED
  BY <1>1, AdmissionInductive, PTL

(* ... and a sticky one without a mention only in a thread with one.       *)
THEOREM AdmissionKept == AdmissionSpec => []AdmissionSafe
<1>1. AdmissionInv => AdmissionSafe
  BY DEF AdmissionInv, Threaded, AdmissionSafe
<1> QED
  BY <1>1, AdmissionInductive, PTL

(* What RefusedStaysOut and CardMeansOneThing say of a step. *)
RefusedWaits ==
  \A a \in Agents, m \in Msgs :
    <<a, m>> \in refused /\ stored'[a][m] # stored[a][m]
      => <<a, event[m].sender>> \in granted

SameCard ==
  \A s \in Senders :
    row[s] # NoRow /\ row'[s] # NoRow
      => row'[s].agent = row[s].agent /\ row'[s].msg = row[s].msg

LEMMA RefusedWaitsStep ==
  ASSUME AdmissionInv, [AdmissionNext]_admissionVars
  PROVE  RefusedWaits
<1>1. ASSUME NEW b \in Agents, NEW k \in Msgs,
             <<b, k>> \in refused, stored'[b][k] # stored[b][k]
      PROVE  <<b, event[k].sender>> \in granted
  <2>1. PICK r \in routes : FanEngage(r) \/ FanAccumulate(r)
    BY <1>1 DEF AdmissionNext, Fan, SenderAnswered, admissionVars, chatVars, Receive, FanRefuse,
                FanIgnore, Ask, AskNobody, CardLands, CardLost, Approve, Deny, Restart
  <2>2. \E how : Deliver(r, how)
    BY <2>1 DEF FanEngage, FanAccumulate
  <2>3. stored' # stored => \E how : stored' = [stored EXCEPT ![Turn(r)][r.msg] = how]
    BY <2>2 DEF Deliver
  <2>4. Turn(r) \in Agents /\ r.msg \in Msgs /\ event[r.msg] \in AllEvents
    BY <1>1, TurnNext DEF AdmissionInv
  <2>5. b = Turn(r) /\ k = r.msg
    BY <1>1, <2>3, <2>4 DEF AdmissionInv, AdmissionTypeOK
  <2>6. Engages(b, event[k]) /\ event[k].sender \notin Admins /\ (policy # "public" \/ wiring[b].known)
    BY <1>1 DEF AdmissionInv, Refusals
  <2>7. AccessOk(b, event[k].sender) /\ ScopeOk(b, event[k].sender)
    BY <2>1, <2>5, <2>6 DEF FanEngage, FanAccumulate
  <2>8. Known(b, event[k].sender) /\ event[k].sender \in Senders
    BY <2>4, <2>5, <2>6, <2>7 DEF AccessOk, ScopeOk, AllEvents
  <2> QED
    BY <1>1, <2>6, <2>8, KnownAdmitted DEF AdmissionInv
<1> QED
  BY <1>1 DEF RefusedWaits

LEMMA SameCardStep ==
  ASSUME AdmissionInv, [AdmissionNext]_admissionVars
  PROVE  SameCard
<1> SUFFICES ASSUME AdmissionNext PROVE SameCard
  BY DEF SameCard, admissionVars, chatVars
<1>1. ASSUME NEW s \in Senders, row[s] # NoRow, row'[s] # NoRow
      PROVE  row'[s].agent = row[s].agent /\ row'[s].msg = row[s].msg
  <2>1. row \in [Senders -> Rows \cup {NoRow}] /\ row[s] \in Rows
    BY <1>1 DEF AdmissionInv, AdmissionTypeOK
  <2>2. CASE row' = row
    BY <2>2
  <2>3. CASE \E q \in asks : Ask(q)
    BY <1>1, <2>1, <2>3 DEF Ask
  <2>4. CASE \E t \in Senders : CardLands(t) \/ CardLost(t)
    BY <1>1, <2>1, <2>4 DEF CardLands, CardLost, Card, Rows
  <2>5. CASE \E t \in Senders : Approve(t) \/ Deny(t)
    BY <1>1, <2>1, <2>5 DEF Approve, Deny
  <2>6. CASE Restart
    <3>1. \E to : row'[s] = row[s] \/ row'[s] = [row[s] EXCEPT !.card = to]
      BY <2>6 DEF Restart
    <3> QED
      BY <2>1, <3>1 DEF Rows
  <2> QED
    BY <1>1, <2>2, <2>3, <2>4, <2>5, <2>6
       DEF AdmissionNext, Fan, SenderAnswered, Receive, FanEngage, FanAccumulate, FanRefuse,
           FanIgnore, Deliver, AskNobody, chatVars
<1> QED
  BY <1>1 DEF SameCard

(* What the gates have turned away is not stored until its sender is       *)
(* admitted: it engages the agent for good, so that the branch that        *)
(* accumulates is closed to it.                                            *)
THEOREM RefusedOut == AdmissionSpec => RefusedStaysOut
<1>1. AdmissionInv /\ [AdmissionNext]_admissionVars => [RefusedWaits]_admissionVars
  BY RefusedWaitsStep
<1> QED
  BY <1>1, AdmissionInductive, PTL DEF AdmissionSpec, RefusedStaysOut, RefusedWaits

(* What the approver reads on a card is what an approval admits.           *)
THEOREM OneMeaning == AdmissionSpec => CardMeansOneThing
<1>1. AdmissionInv /\ [AdmissionNext]_admissionVars => [SameCard]_admissionVars
  BY SameCardStep
<1> QED
  BY <1>1, AdmissionInductive, PTL DEF AdmissionSpec, CardMeansOneThing, SameCard

-----------------------------------------------------------------------------
(***************************************************************************)
(* The registration of chats.                                              *)
(***************************************************************************)

RegBoundsOK == MaxGroups \in Nat /\ MaxMentions \in Nat /\ MaxPresses \in Nat /\ MaxFaults \in Nat

(* A message is asked about once: what waits for its row, what the row is  *)
(* for and what has wired an agent are three different things.             *)
AskedOnce ==
  /\ \A i \in DOMAIN wirings : wirings[i] \notin requests
  /\ pending # NotPending =>
       /\ pending.msg \notin requests
       /\ \A i \in DOMAIN wirings : wirings[i] # pending.msg

RegistrationInv == RegistrationTypeOK /\ AskedOnce /\ WiredOnce

LEMMA RegBounds == RegBoundsOK
BY RegistrationConstants, FaultBound DEF RegBoundsOK

(* Every option of a menu is one of the values a press can have.           *)
LEMMA OptionsTyped ==
  ASSUME NEW menu \in Menus, NEW i \in DOMAIN Options(menu)
  PROVE  Options(menu)[i] \in Values
<1>1. MaxGroups \in Nat /\ MaxGroups > 0
  BY RegistrationConstants
<1>2. CASE menu = "first"
  <2>1. Connect(1) \in Values \/ MaxGroups # 1
    BY <1>1 DEF Values, AgentGroups
  <2>2. Options(menu) = << IF MaxGroups = 1 THEN Connect(1) ELSE <<"choose">>, <<"new">>, <<"reject">> >>
    BY <1>2 DEF Options
  <2>3. <<"choose">> \in Values /\ <<"new">> \in Values /\ <<"reject">> \in Values
    BY DEF Values
  <2>4. i \in 1 .. 3
    BY <2>2
  <2> HIDE DEF Values, Connect
  <2> QED
    BY <2>1, <2>2, <2>3, <2>4
<1>3. CASE menu # "first"
  <2>1. Options(menu) = [j \in 1 .. MaxGroups + 1 |-> IF j <= MaxGroups THEN Connect(j) ELSE <<"reject">>]
    BY <1>3 DEF Options
  <2>2. i \in 1 .. MaxGroups + 1
    BY <2>1
  <2>3. i <= MaxGroups => i \in AgentGroups
    BY <1>1, <2>2 DEF AgentGroups
  <2> QED
    BY <2>1, <2>2, <2>3 DEF Values
<1> QED
  BY <1>2, <1>3

LEMMA ResolveTyped ==
  ASSUME RegistrationTypeOK, NEW i
  PROVE  Resolve(i) \in Values
<1>1. <<"none">> \in Values
  BY DEF Values
<1>2. CASE pending # NotPending /\ i \in DOMAIN Options(pending.menu)
  <2>1. pending.menu \in Menus
    BY <1>2 DEF RegistrationTypeOK
  <2> QED
    BY <1>2, <2>1, OptionsTyped DEF Resolve
<1> QED
  BY <1>1, <1>2 DEF Resolve

LEMMA RegInit == RegistrationInit => RegistrationInv
<1> SUFFICES ASSUME RegistrationInit PROVE RegistrationInv
  OBVIOUS
<1> USE RegBounds DEF RegBoundsOK
<1>1. choosing \in BOOLEAN /\ asking \in BOOLEAN /\ misread \in BOOLEAN
  BY Zenon DEF RegistrationInit
<1>2. RegistrationTypeOK
  BY <1>1 DEF RegistrationInit, RegistrationTypeOK, NotPending
<1>3. AskedOnce /\ WiredOnce
  BY DEF RegistrationInit, AskedOnce, WiredOnce
<1> QED
  BY <1>2, <1>3 DEF RegistrationInv

(* A message that has wired an agent is one that has been heard. *)
LEMMA WiringHeard ==
  ASSUME RegistrationTypeOK, NEW i \in DOMAIN wirings
  PROVE  wirings[i] \in 1 .. heard
BY DEF RegistrationTypeOK

LEMMA AddressInv ==
  ASSUME RegistrationInv, Address
  PROVE  RegistrationInv'
<1> USE RegBounds DEF RegistrationInv, RegBoundsOK
<1>1. /\ heard \in Nat /\ heard' = heard + 1 /\ heard' \in 0 .. MaxMentions
      /\ UNCHANGED <<wired, pending, cardVars, answerVars, regHistVars, faults>>
      /\ requests' \subseteq requests \cup {heard + 1}
      /\ chat' \in {"absent", "open", "denied"}
  BY DEF Address, RegistrationTypeOK
<1>2. 1 .. heard \subseteq 1 .. heard' /\ heard + 1 \in 1 .. heard' /\ heard + 1 \notin 1 .. heard
  BY <1>1
<1>3. RegistrationTypeOK'
  <2>1. wirings' \in Seq(1 .. heard')
    BY <1>1, <1>2 DEF RegistrationTypeOK, regHistVars
  <2>2. pending' \in [menu : Menus, msg : 1 .. heard'] \cup {NotPending}
    BY <1>1, <1>2 DEF RegistrationTypeOK
  <2>3. requests' \subseteq 1 .. heard'
    BY <1>1, <1>2 DEF RegistrationTypeOK
  <2> QED
    BY <1>1, <2>1, <2>2, <2>3 DEF RegistrationTypeOK, cardVars, answerVars, regHistVars
<1>4. AskedOnce'
  <2>1. \A i \in DOMAIN wirings : wirings[i] # heard + 1
    BY <1>2, WiringHeard
  <2>2. pending # NotPending => pending.msg # heard + 1
    BY <1>2 DEF RegistrationTypeOK
  <2> QED
    BY <1>1, <2>1, <2>2 DEF AskedOnce, regHistVars
<1>5. WiredOnce'
  BY <1>1 DEF WiredOnce, regHistVars
<1> QED
  BY <1>3, <1>4, <1>5

LEMMA OpenRowInv ==
  ASSUME RegistrationInv, NEW m \in Mentions, OpenRow(m)
  PROVE  RegistrationInv' /\ (pending # NotPending => pending' = pending)
<1> USE DEF RegistrationInv
<1>1. m \in 1 .. heard /\ m \in requests
  BY DEF OpenRow, RegistrationTypeOK
<1>2. /\ requests' = requests \ {m}
      /\ UNCHANGED <<chat, wired, heard, buttons, answerVars, regHistVars, faults>>
      /\ \/ pending = NotPending /\ pending' = [menu |-> "first", msg |-> m]
         \/ pending # NotPending /\ pending' = pending
      /\ posting' \subseteq posting \cup {"first"}
  BY DEF OpenRow
<1>3. RegistrationTypeOK'
  <2>1. pending' \in [menu : Menus, msg : 1 .. heard] \cup {NotPending}
    BY <1>1, <1>2 DEF RegistrationTypeOK, Menus
  <2>2. posting' \subseteq Menus
    BY <1>2 DEF RegistrationTypeOK, Menus
  <2> QED
    BY <1>2, <2>1, <2>2 DEF RegistrationTypeOK, answerVars, regHistVars
<1>4. AskedOnce'
  <2>1. CASE pending = NotPending
    BY <1>1, <1>2, <2>1 DEF AskedOnce, regHistVars, NotPending
  <2>2. CASE pending # NotPending
    BY <1>1, <1>2, <2>2 DEF AskedOnce, regHistVars
  <2> QED
    BY <2>1, <2>2
<1>5. WiredOnce'
  BY <1>2 DEF WiredOnce, regHistVars
<1> QED
  BY <1>2, <1>3, <1>4, <1>5

(* A step that creates no wiring and neither asks nor answers. *)
LEMMA NothingAsked ==
  ASSUME RegistrationInv, RegistrationTypeOK', requests' \subseteq requests,
         wirings' = wirings, pending' \in {pending, NotPending}
  PROVE  RegistrationInv'
BY DEF RegistrationInv, AskedOnce, WiredOnce

LEMMA CardsInv ==
  ASSUME RegistrationInv, NEW menu \in Menus, Posted(menu) \/ PostFails(menu)
  PROVE  RegistrationInv' /\ pending' = pending
<1> USE RegBounds DEF RegistrationInv, RegBoundsOK
<1>1. UNCHANGED <<chat, wired, heard, requests, pending, answerVars, regHistVars>>
  BY DEF Posted, PostFails
<1>2. posting' \subseteq Menus /\ buttons' \subseteq Menus /\ faults' \in 0 .. MaxFaults
  BY DEF Posted, PostFails, Fault, RegistrationTypeOK
<1>3. RegistrationTypeOK'
  BY <1>1, <1>2 DEF RegistrationTypeOK, answerVars, regHistVars
<1> QED
  BY <1>1, <1>3, NothingAsked DEF regHistVars

LEMMA PressInv ==
  ASSUME RegistrationInv, NEW menu \in Menus, NEW i, Press(menu, i)
  PROVE  RegistrationInv' /\ pending' = pending
<1> USE RegBounds DEF RegistrationInv, RegBoundsOK
<1> DEFINE press == [menu |-> menu, label |-> Options(menu)[i], value |-> Resolve(i)]
<1>1. /\ UNCHANGED <<chat, wired, heard, requests, pending, cardVars>>
      /\ UNCHANGED <<choosing, asking, naming, wirings, faults>>
      /\ used' \in 0 .. MaxPresses
  BY DEF Press, RegistrationTypeOK
<1>2. press \in [menu : Menus, label : Values, value : Values]
  <2>1. Options(menu)[i] \in Values
    BY OptionsTyped DEF Press
  <2> QED
    BY <2>1, ResolveTyped
<1>3. presses' = presses \cup {press}
  BY DEF Press
<1> HIDE DEF press
<1>4. misread' \in BOOLEAN
  BY Zenon DEF Press, RegistrationTypeOK
<1>5. RegistrationTypeOK'
  BY <1>1, <1>2, <1>3, <1>4 DEF RegistrationTypeOK, cardVars
<1> QED
  BY <1>1, <1>5, NothingAsked

(* What an answer leaves alone when its card is edited. *)
LEMMA EditedTyped ==
  ASSUME RegistrationTypeOK, NEW p \in presses, Edited(p)
  PROVE  /\ presses' \subseteq presses /\ buttons' \subseteq buttons
         /\ faults' \in 0 .. MaxFaults
BY RegBounds DEF Edited, Fault, RegistrationTypeOK, RegBoundsOK

(* The message of the row wires an agent, and the row goes. *)
LEMMA RegisterInv ==
  ASSUME RegistrationInv, NEW g \in AgentGroups \cup {Created}, Register(g),
         pending # NotPending, UNCHANGED <<heard, requests, chat, posting>>,
         presses' \subseteq presses, buttons' \subseteq Menus,
         choosing' \in BOOLEAN, asking' \in BOOLEAN, misread' \in BOOLEAN,
         naming' \in {"no", "here", "elsewhere"}, used' = used, faults' \in 0 .. MaxFaults
  PROVE  RegistrationInv'
<1> USE DEF RegistrationInv
<1>1. /\ wired' = wired \cup {g} /\ pending' = NotPending
      /\ wirings' = Append(wirings, pending.msg)
  BY DEF Register
<1>2. pending.msg \in 1 .. heard
  BY DEF RegistrationTypeOK
<1>3. /\ wirings \in Seq(1 .. heard) /\ wirings' \in Seq(1 .. heard)
      /\ Len(wirings') = Len(wirings) + 1 /\ Len(wirings) \in Nat
      /\ \A i \in 1 .. Len(wirings) : wirings'[i] = wirings[i]
      /\ wirings'[Len(wirings) + 1] = pending.msg
      /\ DOMAIN wirings = 1 .. Len(wirings) /\ DOMAIN wirings' = 1 .. Len(wirings) + 1
  BY <1>1, <1>2 DEF RegistrationTypeOK
<1>4. RegistrationTypeOK'
  BY <1>1, <1>3 DEF RegistrationTypeOK
<1>5. \A i \in DOMAIN wirings' :
        \/ i \in DOMAIN wirings /\ wirings'[i] = wirings[i]
        \/ i = Len(wirings) + 1 /\ wirings'[i] = pending.msg
  BY <1>3
<1>6. AskedOnce'
  BY <1>1, <1>5 DEF AskedOnce
<1>7. WiredOnce'
  BY <1>5 DEF AskedOnce, WiredOnce
<1> QED
  BY <1>4, <1>6, <1>7

LEMMA AnswerInv ==
  ASSUME RegistrationInv, NEW p \in presses,
         \/ \E g \in AgentGroups : AnswerConnect(p, g)
         \/ AnswerReject(p) \/ AnswerLater(p) \/ AnswerNothing(p)
  PROVE  RegistrationInv' /\ pending' \in {pending, NotPending}
<1> USE DEF RegistrationInv
<1>1. /\ Edited(p)
      /\ UNCHANGED <<heard, requests, posting, naming, used, misread>>
  BY DEF AnswerConnect, AnswerReject, AnswerLater, AnswerNothing, regHistVars
<1>2. /\ presses' \subseteq presses /\ buttons' \subseteq Menus /\ faults' \in 0 .. MaxFaults
      /\ misread' \in BOOLEAN
  BY <1>1, EditedTyped DEF RegistrationTypeOK
<1>3. ASSUME NEW g \in AgentGroups, AnswerConnect(p, g)
      PROVE  RegistrationInv' /\ pending' \in {pending, NotPending}
  <2>1. UNCHANGED <<chat, choosing, asking>> /\ pending # NotPending
    BY <1>3 DEF AnswerConnect
  <2>2. CASE UNCHANGED <<wired, wirings, pending>>
    <3>1. RegistrationTypeOK'
      BY <1>1, <1>2, <2>1, <2>2 DEF RegistrationTypeOK
    <3> QED
      BY <1>1, <2>2, <3>1, NothingAsked
  <2>3. CASE Register(g)
    <3>1. choosing' \in BOOLEAN /\ asking' \in BOOLEAN /\ naming' \in {"no", "here", "elsewhere"}
      BY <1>1, <2>1 DEF RegistrationTypeOK
    <3> QED
      BY <1>1, <1>2, <2>1, <2>3, <3>1, RegisterInv DEF Register
  <2>4. CASE wired' = wired \ {g} /\ pending' = NotPending /\ UNCHANGED wirings
    <3>1. RegistrationTypeOK'
      BY <1>1, <1>2, <2>1, <2>4 DEF RegistrationTypeOK
    <3> QED
      BY <1>1, <2>4, <3>1, NothingAsked
  <2> QED
    BY <1>3, <2>2, <2>3, <2>4 DEF AnswerConnect
<1>4. ASSUME AnswerReject(p) \/ AnswerLater(p) \/ AnswerNothing(p)
      PROVE  RegistrationInv' /\ pending' \in {pending, NotPending}
  <2>1. /\ UNCHANGED <<wired, wirings>> /\ pending' \in {pending, NotPending}
        /\ chat' \in {chat, "denied"}
    BY <1>4 DEF AnswerReject, AnswerLater, AnswerNothing, regHistVars
  <2>2. choosing' \in BOOLEAN /\ asking' \in BOOLEAN
    BY <1>4, Zenon DEF AnswerReject, AnswerLater, AnswerNothing, RegistrationTypeOK
  <2>3. RegistrationTypeOK'
    BY <1>1, <1>2, <2>1, <2>2 DEF RegistrationTypeOK
  <2> QED
    BY <1>1, <2>1, <2>3, NothingAsked
<1> QED
  BY <1>3, <1>4

LEMMA ChooseInv ==
  ASSUME RegistrationInv, Choose
  PROVE  RegistrationInv' /\ (pending # NotPending => pending'.msg = pending.msg)
<1> USE RegBounds DEF RegistrationInv, RegBoundsOK
<1>1. /\ UNCHANGED <<chat, wired, heard, requests, buttons, presses, asking, naming, used, regHistVars>>
      /\ choosing' = FALSE /\ posting' \subseteq posting \cup {"agents"} /\ faults' \in 0 .. MaxFaults
  BY DEF Choose, Fault, RegistrationTypeOK
<1>2. \/ pending' = pending
      \/ pending # NotPending /\ pending' = [pending EXCEPT !.menu = "agents"]
  BY DEF Choose
<1>3. /\ pending' \in [menu : Menus, msg : 1 .. heard] \cup {NotPending}
      /\ pending # NotPending => pending' # NotPending /\ pending'.msg = pending.msg
      /\ pending = NotPending => pending' = NotPending
  <2>1. CASE pending' = pending
    BY <2>1 DEF RegistrationTypeOK
  <2>2. CASE pending # NotPending /\ pending' = [pending EXCEPT !.menu = "agents"]
    <3>1. pending \in [menu : Menus, msg : 1 .. heard]
      BY <2>2 DEF RegistrationTypeOK
    <3>2. pending' \in [menu : Menus, msg : 1 .. heard] /\ pending'.msg = pending.msg
      BY <2>2, <3>1 DEF Menus
    <3>3. pending'.menu \in Menus
      BY <3>2
    <3> QED
      BY <2>2, <3>2, <3>3 DEF NotPending, Menus
  <2> QED
    BY <1>2, <2>1, <2>2
<1>4. choosing' \in BOOLEAN
  BY <1>1, Zenon
<1>5. RegistrationTypeOK'
  BY <1>1, <1>3, <1>4 DEF RegistrationTypeOK, regHistVars, Menus
<1>6. AskedOnce' /\ WiredOnce'
  BY <1>1, <1>3 DEF AskedOnce, WiredOnce, regHistVars
<1> QED
  BY <1>3, <1>5, <1>6

LEMMA NamingInv ==
  ASSUME RegistrationInv, AskName \/ AskNameElsewhere
  PROVE  RegistrationInv' /\ pending' = pending
<1> USE RegBounds DEF RegistrationInv, RegBoundsOK
<1>1. /\ UNCHANGED <<chat, wired, heard, requests, pending, cardVars, presses, choosing, regHistVars>>
      /\ used' \in 0 .. MaxPresses /\ faults' \in 0 .. MaxFaults
      /\ naming' \in {"no", "here", "elsewhere"}
  BY DEF AskName, AskNameElsewhere, Fault, RegistrationTypeOK
<1>2. asking' \in BOOLEAN
  BY Zenon DEF AskName, AskNameElsewhere, RegistrationTypeOK
<1>3. RegistrationTypeOK'
  BY <1>1, <1>2 DEF RegistrationTypeOK, cardVars, regHistVars
<1> QED
  BY <1>1, <1>3, NothingAsked DEF regHistVars

LEMMA NameInv ==
  ASSUME RegistrationInv, NEW empty \in BOOLEAN, Name(empty)
  PROVE  RegistrationInv' /\ pending' \in {pending, NotPending}
<1> USE DEF RegistrationInv
<1>1. /\ UNCHANGED <<chat, heard, requests, cardVars, presses, choosing, asking, used, misread, faults>>
      /\ naming' = "no"
  BY DEF Name
<1>2. CASE naming = "here" /\ ~empty /\ pending # NotPending
  <2>1. Register(Created) /\ Created \in AgentGroups \cup {Created}
    BY <1>2 DEF Name
  <2>2. /\ buttons' \subseteq Menus /\ choosing' \in BOOLEAN /\ asking' \in BOOLEAN
        /\ misread' \in BOOLEAN /\ faults' \in 0 .. MaxFaults
        /\ posting' = posting
    BY <1>1 DEF cardVars, RegistrationTypeOK
  <2> QED
    BY <1>1, <1>2, <2>1, <2>2, RegisterInv DEF Register
<1>3. CASE ~(naming = "here" /\ ~empty /\ pending # NotPending)
  <2>1. UNCHANGED <<wired, wirings, pending>>
    BY <1>3 DEF Name
  <2>2. RegistrationTypeOK'
    BY <1>1, <2>1 DEF RegistrationTypeOK, cardVars
  <2> QED
    BY <1>1, <2>1, <2>2, NothingAsked
<1> QED
  BY <1>2, <1>3

LEMMA OtherInv ==
  ASSUME RegistrationInv,
         \/ \E m \in Mentions : NobodyToAsk(m)
         \/ \E g \in AgentGroups : OperatorWires(g)
         \/ HostDies \/ UNCHANGED registrationVars
  PROVE  RegistrationInv' /\ pending' = pending
<1> USE RegBounds DEF RegistrationInv, RegBoundsOK
<1>1. /\ UNCHANGED <<chat, heard, pending, used, regHistVars>>
      /\ requests' \subseteq requests /\ presses' \subseteq presses
      /\ wired' \subseteq AgentGroups \cup {Created}
      /\ posting' \subseteq Menus /\ buttons' \subseteq Menus
      /\ naming' \in {"no", "here", "elsewhere"} /\ faults' \in 0 .. MaxFaults
  BY DEF NobodyToAsk, OperatorWires, HostDies, Fault, registrationVars, cardVars, answerVars,
         regHistVars, RegistrationTypeOK
<1>2. choosing' \in BOOLEAN /\ asking' \in BOOLEAN
  BY Zenon DEF NobodyToAsk, OperatorWires, HostDies, registrationVars, answerVars, RegistrationTypeOK
<1>3. RegistrationTypeOK'
  BY <1>1, <1>2 DEF RegistrationTypeOK, regHistVars
<1> QED
  BY <1>1, <1>3, NothingAsked DEF regHistVars

LEMMA RegStep ==
  ASSUME RegistrationInv, [RegistrationNext]_registrationVars
  PROVE  /\ RegistrationInv'
         /\ pending # NotPending /\ pending' # NotPending => pending'.msg = pending.msg
<1>1. CASE Address
  <2>1. pending' = pending
    BY <1>1 DEF Address
  <2> QED
    BY <1>1, <2>1, AddressInv
<1>2. CASE Asks
  BY <1>2, OpenRowInv, OtherInv DEF Asks
<1>3. CASE Cards
  BY <1>3, CardsInv DEF Cards
<1>4. CASE Approver
  BY <1>4, PressInv, NameInv, NamingInv DEF Approver
<1>5. CASE Answer
  BY <1>5, AnswerInv, ChooseInv, NamingInv DEF Answer
<1>6. CASE (\E g \in AgentGroups : OperatorWires(g)) \/ HostDies \/ UNCHANGED registrationVars
  BY <1>6, OtherInv
<1> QED
  BY <1>1, <1>2, <1>3, <1>4, <1>5, <1>6 DEF RegistrationNext

LEMMA RegInductive == RegistrationSpec => []RegistrationInv
<1>1. RegistrationInv /\ [RegistrationNext]_registrationVars => RegistrationInv'
  BY RegStep
<1> QED
  BY RegInit, <1>1, PTL DEF RegistrationSpec

(* Requests, wirings and the pending row have their types.                 *)
THEOREM RegistrationTyped == RegistrationSpec => []RegistrationTypeOK
<1>1. RegistrationInv => RegistrationTypeOK
  BY DEF RegistrationInv
<1> QED
  BY <1>1, RegInductive, PTL

(* However often a chat is mentioned, its card pressed and a replay lost,  *)
(* it is wired once.                                                       *)
THEOREM OneWiring == RegistrationSpec => []WiredOnce
<1>1. RegistrationInv => WiredOnce
  BY DEF RegistrationInv
<1> QED
  BY <1>1, RegInductive, PTL

(* The message a registration was asked for stays the one it replays.      *)
THEOREM AskedStays == RegistrationSpec => AskedMessageStays
<1>1. RegistrationInv /\ [RegistrationNext]_registrationVars =>
        [pending # NotPending /\ pending' # NotPending
           => pending'.msg = pending.msg]_registrationVars
  BY RegStep
<1> QED
  BY <1>1, RegInductive, PTL DEF RegistrationSpec, AskedMessageStays

-----------------------------------------------------------------------------
(***************************************************************************)
(* The three dialogues side by side.  They share the budget of faults: a   *)
(* step of one leaves the others as they are, but for it.                  *)
(***************************************************************************)

DialoguesInv == AdmissionInv /\ RegistrationInv /\ ApprovalsInv

LEMMA AdmissionFrame ==
  ASSUME AdmissionInv, UNCHANGED admVars, faults' \in 0 .. MaxFaults
  PROVE  AdmissionInv'
<1>1. /\ UNCHANGED <<policy, wiring, members, sessions, stored, row>>
      /\ UNCHANGED <<event, routes, asks, granted, approved, refused, cut>>
  BY DEF admVars, chatVars
<1>2. AdmissionTypeOK'
  BY <1>1 DEF AdmissionInv, AdmissionTypeOK
<1> QED
  BY <1>1, <1>2, ChatStays DEF AdmissionInv

LEMMA RegistrationFrame ==
  ASSUME RegistrationInv, UNCHANGED regVars, faults' \in 0 .. MaxFaults
  PROVE  RegistrationInv'
<1>1. /\ UNCHANGED <<chat, wired, heard, requests, pending, posting, buttons, presses>>
      /\ UNCHANGED <<choosing, asking, naming, used, wirings, misread>>
  BY DEF regVars, cardVars, answerVars, regHistVars
<1>2. RegistrationTypeOK'
  BY <1>1 DEF RegistrationInv, RegistrationTypeOK
<1> QED
  BY <1>1, <1>2 DEF RegistrationInv, AskedOnce, WiredOnce

LEMMA ApprovalsFrame ==
  ASSUME ApprovalsInv, UNCHANGED appVars, faults' \in 0 .. MaxFaults
  PROVE  ApprovalsInv'
<1>1. /\ UNCHANGED <<call, rows, card, promise, waiting, expiring, applied, told, doubtful>>
      /\ UNCHANGED <<click, clicked, consented>>
  BY DEF appVars, requestVars, gateVars, outcomeVars, pressVars
<1>2. Presses' /\ Once' /\ Promised'
  BY <1>1, PressesStay DEF ApprovalsInv, Once, Applies, Promised
<1>3. ApprovalsTypeOK' /\ Calling'
  BY <1>1 DEF ApprovalsInv, ApprovalsTypeOK, Calling
<1> QED
  BY <1>2, <1>3 DEF ApprovalsInv

(* The variables of all three, and what their properties say of a step.    *)
dialoguesVars == <<admVars, regVars, appVars, faults, part>>

AskedStep == pending # NotPending /\ pending' # NotPending => pending'.msg = pending.msg

LEMMA DialoguesStep ==
  ASSUME DialoguesInv, [DialoguesNext]_dialoguesVars
  PROVE  /\ DialoguesInv'
         /\ RefusedWaits /\ SameCard /\ AskedStep
         /\ [V!VerdictNext]_(V!verdictVars)
<1> USE DEF DialoguesInv
<1>1. ASSUME UNCHANGED admVars
      PROVE  RefusedWaits /\ SameCard
  BY <1>1 DEF admVars, chatVars, RefusedWaits, SameCard
<1>2. ASSUME UNCHANGED regVars
      PROVE  AskedStep
  BY <1>2 DEF regVars, AskedStep
<1>3. ASSUME UNCHANGED appVars
      PROVE  UNCHANGED V!verdictVars
  BY <1>3 DEF appVars, requestVars, gateVars, outcomeVars, pressVars, V!verdictVars
<1>4. CASE AdmissionNext /\ UNCHANGED <<regVars, appVars>>
  <2>1. AdmissionInv' /\ RefusedWaits /\ SameCard
    BY <1>4, AdmissionStep, RefusedWaitsStep, SameCardStep
  <2>2. faults' \in 0 .. MaxFaults
    BY <2>1 DEF AdmissionInv, AdmissionTypeOK
  <2> QED
    BY <1>2, <1>3, <1>4, <2>1, <2>2, RegistrationFrame, ApprovalsFrame
<1>5. CASE RegistrationNext /\ UNCHANGED <<admVars, appVars>>
  <2>1. RegistrationInv' /\ AskedStep
    BY <1>5, RegStep DEF AskedStep
  <2>2. faults' \in 0 .. MaxFaults
    BY <2>1 DEF RegistrationInv, RegistrationTypeOK
  <2> QED
    BY <1>1, <1>3, <1>5, <2>1, <2>2, AdmissionFrame, ApprovalsFrame
<1>6. CASE ApprovalsNext /\ UNCHANGED <<admVars, regVars>>
  <2>1. ApprovalsInv'
    BY <1>6, StepInv
  <2>2. [V!VerdictNext]_(V!verdictVars)
    BY <1>6, VerdictStep
  <2>3. faults' \in 0 .. MaxFaults
    BY <2>1 DEF ApprovalsInv, ApprovalsTypeOK
  <2> QED
    BY <1>1, <1>2, <1>6, <2>1, <2>2, <2>3, AdmissionFrame, RegistrationFrame
<1>7. CASE UNCHANGED dialoguesVars
  <2>1. UNCHANGED admVars /\ UNCHANGED regVars /\ UNCHANGED appVars /\ UNCHANGED faults
    BY <1>7 DEF dialoguesVars
  <2>2. faults' \in 0 .. MaxFaults
    BY <2>1 DEF AdmissionInv, AdmissionTypeOK
  <2> QED
    BY <1>1, <1>2, <1>3, <2>1, <2>2, AdmissionFrame, RegistrationFrame, ApprovalsFrame
<1> QED
  BY <1>4, <1>5, <1>6, <1>7 DEF DialoguesNext

LEMMA DialoguesStart == DialoguesInit => DialoguesInv /\ V!VerdictInit
<1>1. ApprovalsInit => V!VerdictInit
  BY DEF ApprovalsInit, V!VerdictInit
<1> QED
  BY <1>1, AdmissionStarts, RegInit, InitInv DEF DialoguesInit, DialoguesInv

LEMMA DialoguesInductive == DialoguesSpec => []DialoguesInv
<1>1. DialoguesInv /\ [DialoguesNext]_dialoguesVars => DialoguesInv'
  BY DialoguesStep
<1> QED
  BY DialoguesStart, <1>1, PTL DEF DialoguesSpec, dialoguesVars

(* The three dialogues keep their types beside one another.                *)
THEOREM DialoguesTyped == DialoguesSpec => []DialoguesTypeOK
<1>1. DialoguesInv => DialoguesTypeOK
  BY DEF DialoguesInv, AdmissionInv, RegistrationInv, ApprovalsInv, DialoguesTypeOK
<1> QED
  BY <1>1, DialoguesInductive, PTL

(* No step of any dialogue lets a refused message in, changes the meaning  *)
(* of an open card, or loses the message a registration was asked for.     *)
THEOREM DialoguesKept == DialoguesSpec => DialogueSteps
<1>1. DialoguesInv /\ [DialoguesNext]_dialoguesVars =>
        /\ [RefusedWaits]_admissionVars
        /\ [SameCard]_admissionVars
        /\ [AskedStep]_registrationVars
  BY DialoguesStep
<1> QED
  BY <1>1, DialoguesInductive, PTL
     DEF DialoguesSpec, dialoguesVars, DialogueSteps, RefusedStaysOut, CardMeansOneThing,
         AskedMessageStays, RefusedWaits, SameCard, AskedStep

(* Beside the other dialogues too, every request of the gateway gets one   *)
(* verdict, and none that grants without consent.                          *)
THEOREM DialoguesVerdict == DialoguesSpec => OneVerdict
<1>1. DialoguesInv /\ [DialoguesNext]_dialoguesVars => [V!VerdictNext]_(V!verdictVars)
  BY DialoguesStep
<1> QED
  BY DialoguesStart, <1>1, DialoguesInductive, PTL
     DEF DialoguesSpec, dialoguesVars, OneVerdict, V!VerdictSpec

=============================================================================
