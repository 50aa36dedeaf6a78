----------------------------- MODULE Admission -----------------------------
(***************************************************************************)
(* The router's fan-out over the agents wired to one group chat, and the   *)
(* approval of unknown senders: a message of a stranger is refused, a card *)
(* asks an approver, and an approval admits the sender and routes the      *)
(* stored message again.                                                   *)
(*                                                                         *)
(* A route visits the wired agents in the order of the wirings and awaits  *)
(* the delivery to each, so several routes, of one message too, interleave *)
(* with each other and with clicks.                                        *)
(***************************************************************************)
EXTENDS Naturals, Faults

CONSTANTS
  MaxAgents,  (* how many agents are wired to the chat                      *)
  Senders,    (* who writes into it                                         *)
  Nameless,   (* senders whose messages carry no identity                   *)
  Admins,     (* senders with the role of an owner or an administrator      *)
  Threads,    (* threads of the chat; one if the adapter has none           *)
  MaxMsgs,    (* how many messages arrive (bound)                           *)
  Events,     (* the messages of this instance                              *)
  Setups,     (* the ways of wiring the agents to choose from               *)
  Policies    (* the values of unknown_sender_policy to choose from         *)

Agents == 1 .. MaxAgents
Msgs == 1 .. MaxMsgs

(* engage_mode ("all" is the pattern '.'), sender_scope = 'known', and     *)
(* ignored_message_policy = 'accumulate'.                                  *)
AllWirings ==
  [mode : {"all", "pattern", "mention", "sticky"}, known : BOOLEAN, accumulate : BOOLEAN]

(* Who writes what kind of message in which thread, whether it mentions    *)
(* the bot, and whether its text matches the patterns of the wirings.      *)
AllEvents ==
  [kind : {"chat", "admin", "filtered"}, sender : Senders, thread : Threads,
   mention : BOOLEAN, hit : BOOLEAN]

ASSUME AdmissionConstants ==
  /\ MaxAgents \in Nat \ {0} /\ MaxMsgs \in Nat \ {0}
  /\ Nameless \subseteq Senders /\ Admins \subseteq Senders \ Nameless
  /\ Events \subseteq AllEvents
  /\ Setups \subseteq [Agents -> AllWirings]
  /\ Policies \subseteq {"strict", "request_approval", "public"}

VARIABLES
  policy,    (* messaging_groups.unknown_sender_policy                      *)
  wiring,    (* messaging_group_agents                                      *)
  members,   (* agent_group_members                                         *)
  sessions,  (* the sessions of the chat: pairs of an agent and a thread    *)
  stored,    (* rows of messages_in: absent, context or trigger             *)
  event,     (* the messages that have arrived                              *)
  routes,    (* calls of routeInbound in flight, with the agents to visit   *)
  asks,      (* calls of requestSenderApproval before their row             *)
  row,       (* pending_sender_approvals, by sender, with the card's state  *)
  granted,   (* history: agents and senders an approver has admitted        *)
  approved,  (* history: agents and messages an approver has let in         *)
  refused,   (* history: agents and messages the gates have turned away     *)
  cut        (* history: messages whose routing a restart cut off           *)

chatVars == <<policy, wiring, members, sessions, stored, row>>
pastVars == <<granted, approved, refused, cut, faults>>
admissionVars == <<chatVars, event, routes, asks, pastVars>>

NoEvent == [kind |-> "none"]
NoRow == [card |-> "none"]

Visible == {"sending", "shown", "lost"}
Rows == [card : Visible, agent : Agents, msg : Msgs]

AdmissionInit ==
  /\ policy \in Policies
  /\ wiring \in Setups
  /\ members = [a \in Agents |-> {}]
  /\ sessions = {}
  /\ stored = [a \in Agents |-> [m \in Msgs |-> "no"]]
  /\ event = [m \in Msgs |-> NoEvent]
  /\ routes = {} /\ asks = {}
  /\ row = [s \in Senders |-> NoRow]
  /\ granted = {} /\ approved = {} /\ refused = {} /\ cut = {} /\ faults = 0

(* Every variable has its type; what is routed or asked about has arrived. *)
AdmissionTypeOK ==
  /\ policy \in Policies
  /\ wiring \in Setups
  /\ members \in [Agents -> SUBSET Senders]
  /\ sessions \subseteq Agents \X Threads
  /\ stored \in [Agents -> [Msgs -> {"no", "context", "trigger"}]]
  /\ event \in [Msgs -> Events \cup {NoEvent}]
  /\ routes \subseteq [msg : Msgs, todo : SUBSET Agents]
  /\ asks \subseteq [agent : Agents, msg : Msgs]
  /\ row \in [Senders -> Rows \cup {NoRow}]
  /\ granted \subseteq Agents \X Senders
  /\ approved \subseteq Agents \X Msgs
  /\ refused \subseteq Agents \X Msgs
  /\ cut \subseteq Msgs
  /\ faults \in 0 .. MaxFaults
  /\ \A r \in routes : r.todo # {} /\ event[r.msg] # NoEvent
  /\ \A q \in asks : event[q.msg] # NoEvent
  /\ \A s \in Senders : row[s] # NoRow => event[row[s].msg] # NoEvent

-----------------------------------------------------------------------------
(* What the fan-out decides for one agent.                                 *)

(* evaluateEngage: a pattern, a mention, or for a sticky wiring a session  *)
(* of the agent in the thread.                                             *)
Engages(a, e) ==
  \/ wiring[a].mode = "all"
  \/ wiring[a].mode = "pattern" /\ e.hit
  \/ wiring[a].mode \in {"mention", "sticky"} /\ e.mention
  \/ wiring[a].mode = "sticky" /\ <<a, e.thread>> \in sessions

(* canAccessAgentGroup: roles count for every agent, membership for one.   *)
Known(a, s) == s \notin Nameless /\ (s \in Admins \/ s \in members[a])

AccessOk(a, s) == policy = "public" \/ Known(a, s)

ScopeOk(a, s) == wiring[a].known => Known(a, s)

(* The command gate lets neither a filtered command nor an administrator's *)
(* command of somebody else through to the container.                      *)
Gated(e) == e.kind = "filtered" \/ (e.kind = "admin" /\ e.sender \notin Admins)

-----------------------------------------------------------------------------
(* Routing.                                                                *)

(* A message arrives: routeInbound reads the wirings and starts to visit.  *)
Receive(m, e) ==
  /\ event[m] = NoEvent /\ \A k \in Msgs : k < m => event[k] # NoEvent
  /\ event' = [event EXCEPT ![m] = e]
  /\ routes' = routes \cup {[msg |-> m, todo |-> Agents]}
  /\ UNCHANGED <<chatVars, asks, pastVars>>

(* The agent whose turn it is: ORDER BY priority.                          *)
Turn(r) == CHOOSE a \in r.todo : \A b \in r.todo : a <= b

Proceed(r) ==
  routes' = (routes \ {r}) \cup
    {n \in {[r EXCEPT !.todo = @ \ {Turn(r)}]} : n.todo # {}}

(* deliverToAgent: the session is resolved first, and created if need be.  *)
(* The id of the row is the message's with the agent's; a second row of    *)
(* that id makes the insertion throw, which ends the whole route.          *)
Deliver(r, how) ==
  LET a == Turn(r)
      e == event[r.msg]
  IN  /\ sessions' = sessions \cup {<<a, e.thread>>}
      /\ \/ /\ Gated(e)
            /\ Proceed(r) /\ UNCHANGED stored
         \/ /\ ~Gated(e) /\ stored[a][r.msg] = "no"
            /\ stored' = [stored EXCEPT ![a][r.msg] = how]
            /\ Proceed(r)
         \/ /\ ~Gated(e) /\ stored[a][r.msg] # "no"
            /\ routes' = routes \ {r} /\ UNCHANGED stored
      /\ UNCHANGED <<policy, wiring, members, event, asks, row, pastVars>>

FanEngage(r) ==
  LET a == Turn(r)
      e == event[r.msg]
  IN  /\ r \in routes
      /\ Engages(a, e) /\ AccessOk(a, e.sender) /\ ScopeOk(a, e.sender)
      /\ Deliver(r, "trigger")

(* Mutant of FanAccumulate: what the gates refuse is kept as context. *)
FanAccumulateRefused(r) ==
  LET a == Turn(r)
      e == event[r.msg]
  IN  /\ r \in routes
      /\ ~(Engages(a, e) /\ AccessOk(a, e.sender) /\ ScopeOk(a, e.sender))
      /\ wiring[a].accumulate
      /\ Deliver(r, "context")

FanAccumulate(r) ==
  /\ r \in routes
  /\ ~Engages(Turn(r), event[r.msg]) /\ wiring[Turn(r)].accumulate
  /\ Deliver(r, "context")

(* The access gate refuses and, under request_approval, asks: at once only *)
(* whether a card for this sender is pending; the rest is asynchronous.    *)
(* A refusal by the sender's scope alone asks nobody.                      *)
FanRefuse(r) ==
  LET a == Turn(r)
      s == event[r.msg].sender
  IN  /\ r \in routes
      /\ Engages(a, event[r.msg]) /\ ~(AccessOk(a, s) /\ ScopeOk(a, s))
      /\ asks' = asks \cup
           {q \in {[agent |-> a, msg |-> r.msg]} :
              ~AccessOk(a, s) /\ policy = "request_approval"
                /\ s \notin Nameless /\ row[s] = NoRow}
      /\ refused' = refused \cup {<<a, r.msg>>}
      /\ Proceed(r)
      /\ UNCHANGED <<chatVars, event, granted, approved, cut, faults>>

FanIgnore(r) ==
  /\ r \in routes
  /\ ~Engages(Turn(r), event[r.msg]) /\ ~wiring[Turn(r)].accumulate
  /\ Proceed(r)
  /\ UNCHANGED <<chatVars, event, asks, pastVars>>

-----------------------------------------------------------------------------
(* The approval of a sender.                                               *)

SenderOf(q) == event[q.msg].sender

(* An approver and a way to reach them are found: the row is inserted, or  *)
(* the insertion throws because the sender has one meanwhile (the table is *)
(* UNIQUE on the chat and the sender).                                     *)
Ask(q) ==
  /\ q \in asks
  /\ asks' = asks \ {q}
  /\ row' = IF row[SenderOf(q)] = NoRow
            THEN [row EXCEPT ![SenderOf(q)] =
                    [card |-> "sending", agent |-> q.agent, msg |-> q.msg]]
            ELSE row
  /\ UNCHANGED <<policy, wiring, members, sessions, stored, event, routes, pastVars>>

(* Nobody can be asked: no row, so that a later message asks again.        *)
AskNobody(q) ==
  /\ q \in asks
  /\ asks' = asks \ {q}
  /\ UNCHANGED <<chatVars, event, routes, pastVars>>

Card(s, from, to) == row[s].card = from /\ row' = [row EXCEPT ![s].card = to]

CardLands(s) ==
  /\ Card(s, "sending", "shown")
  /\ UNCHANGED <<policy, wiring, members, sessions, stored, event, routes, asks, pastVars>>

(* The adapter throws or is missing: the row stays.                        *)
CardLost(s) ==
  /\ Fault
  /\ Card(s, "sending", "lost")
  /\ UNCHANGED <<policy, wiring, members, sessions, stored, event, routes, asks>>
  /\ UNCHANGED <<granted, approved, refused, cut>>

(* Mutant of Admit: one approval admits the sender to every wired agent. *)
AdmitEverywhere(a, s) == members' = [b \in Agents |-> members[b] \cup {s}]

(* addMember *)
Admit(a, s) == members' = [members EXCEPT ![a] = @ \cup {s}]

(* The stored event goes through routeInbound once more, by all agents.    *)
Replay(m) == routes' = routes \cup {[msg |-> m, todo |-> Agents]}

(* An authorized click: the sender is admitted and the row deleted before  *)
(* the route starts.                                                       *)
Approve(s) ==
  LET a == row[s].agent
      m == row[s].msg
  IN  /\ row[s].card = "shown"
      /\ Admit(a, s)
      /\ Replay(m)
      /\ row' = [row EXCEPT ![s] = NoRow]
      /\ granted' = granted \cup {<<a, s>>}
      /\ approved' = approved \cup {<<a, m>>}
      /\ UNCHANGED <<policy, wiring, sessions, stored, event, asks, refused, cut, faults>>

(* A denial is not remembered.                                             *)
Deny(s) ==
  /\ row[s].card = "shown"
  /\ row' = [row EXCEPT ![s] = NoRow]
  /\ UNCHANGED <<policy, wiring, members, sessions, stored, event, routes, asks, pastVars>>

(* The host dies: routes and requests in flight are gone, and whether a    *)
(* card on its way was posted is open.                                     *)
Restart ==
  /\ Fault
  /\ cut' = cut \cup {r.msg : r \in routes}
  /\ routes' = {} /\ asks' = {}
  /\ \E posted \in SUBSET {s \in Senders : row[s].card = "sending"} :
       row' = [s \in Senders |->
                 IF row[s].card # "sending" THEN row[s]
                 ELSE [row[s] EXCEPT !.card = IF s \in posted THEN "shown" ELSE "lost"]]
  /\ UNCHANGED <<policy, wiring, members, sessions, stored, event>>
  /\ UNCHANGED <<granted, approved, refused>>

-----------------------------------------------------------------------------
Fan == \E r \in routes : FanEngage(r) \/ FanAccumulate(r) \/ FanRefuse(r) \/ FanIgnore(r)

SenderAnswered == \E s \in Senders : Approve(s) \/ Deny(s)

AdmissionNext ==
  \/ \E m \in Msgs, e \in Events : Receive(m, e)
  \/ Fan
  \/ \E q \in asks : Ask(q) \/ AskNobody(q)
  \/ \E s \in Senders : CardLands(s) \/ CardLost(s)
  \/ SenderAnswered
  \/ Restart

AdmissionSpec == AdmissionInit /\ [][AdmissionNext]_admissionVars

(* A route goes on unless the host dies: a wake that fails or hangs a      *)
(* spawn settles (see ContainerLifecycle), and only wakes are awaited.     *)
AdmissionFairness ==
  \A m \in Msgs, T \in SUBSET Agents :
    WF_admissionVars(LET r == [msg |-> m, todo |-> T]
                     IN  FanEngage(r) \/ FanAccumulate(r) \/ FanRefuse(r) \/ FanIgnore(r))

AdmissionFairSpec == AdmissionSpec /\ AdmissionFairness

-----------------------------------------------------------------------------
(***************************************************************************)
(* Properties.                                                             *)
(***************************************************************************)

(* An agent is turned on by a message only if its chat is public and its   *)
(* scope open, or the sender is an administrator or was admitted by an     *)
(* approver to this very agent: an approval for one agent of the chat lets *)
(* nobody in to another, however the stored message is routed again.       *)
Consent ==
  \A a \in Agents, m \in Msgs :
    stored[a][m] = "trigger" =>
      \/ event[m].sender \in Admins
      \/ <<a, event[m].sender>> \in granted
      \/ policy = "public" /\ ~wiring[a].known

(* What a gate has turned away leaves no trace in the session, not even as *)
(* context (router.ts: that is "exactly what the gate is meant to          *)
(* prevent"), until its sender is admitted, however often it is routed.    *)
RefusedStaysOut ==
  [][\A a \in Agents, m \in Msgs :
       <<a, m>> \in refused /\ stored'[a][m] # stored[a][m]
         => <<a, event[m].sender>> \in granted]_admissionVars

(* While a card for a sender is open, the message it stands for is not     *)
(* replaced by another of the sender, and no other agent's request takes   *)
(* its place: what the approver reads is what the approval admits.         *)
CardMeansOneThing ==
  [][\A s \in Senders :
       row[s] # NoRow /\ row'[s] # NoRow
         => row'[s].agent = row[s].agent /\ row'[s].msg = row[s].msg]_admissionVars

(* A sticky agent that drops what is not for it wakes up without a mention *)
(* only in a thread in which the bot has been mentioned.                   *)
StickyNeedsMention ==
  \A a \in Agents, m \in Msgs :
    stored[a][m] = "trigger" /\ wiring[a].mode = "sticky" /\ ~wiring[a].accumulate
      => \E k \in Msgs : /\ event[k] # NoEvent
                         /\ event[k].mention /\ event[k].thread = event[m].thread

(* The first approval of a message gets it through to the agent it was     *)
(* approved for, unless the host dies meanwhile.                           *)
ApprovalReplays ==
  \A a \in Agents, m \in Msgs :
    ( /\ <<a, m>> \in approved /\ ~Gated(event[m])
      /\ \A b \in Agents \ {a} : stored[b][m] = "no" )
      ~> (stored[a][m] # "no" \/ m \in cut)

(* Who may turn an agent on: those who were admitted, by what engages it.  *)
AdmissionSafe == Consent /\ StickyNeedsMention

(* What does not hold: "the second routing attempt passes the gate because *)
(* the user is now a member" (sender-approval.ts), whatever other agents   *)
(* of the chat have of the message already.                                *)
ApprovedIsRouted ==
  \A a \in Agents, m \in Msgs :
    <<a, m>> \in approved /\ (\A r \in routes : r.msg # m) => stored[a][m] # "no"

(* What does not hold either: "once a thread has engaged us once,          *)
(* follow-ups arrive with no mention" (router.ts): a sticky agent is       *)
(* triggered without a mention only where it was triggered before.         *)
StickyNeedsEngagement ==
  \A a \in Agents, m \in Msgs :
    stored[a][m] = "trigger" /\ wiring[a].mode = "sticky" /\ ~event[m].mention
      => \E k \in Msgs : /\ event[k] # NoEvent /\ stored[a][k] = "trigger"
                         /\ event[k].mention /\ event[k].thread = event[m].thread

=============================================================================
