----------------------------- MODULE AgentLinks -----------------------------
(***************************************************************************)
(* Messages between agents.  A row of agent_destinations lets one agent    *)
(* group write to another; a policy holds the messages of such a link for  *)
(* a human; the host picks the session of the target group that a message  *)
(* goes to.  The names that a session's container may use are a copy of    *)
(* the rows, written when it starts and when an operator changes them.     *)
(***************************************************************************)
EXTENDS Naturals, FiniteSets, Sequences

CONSTANTS
  Peers,      (* agent groups                                              *)
  Founders,   (* those that exist at first                                 *)
  Seats,      (* sessions (bound): <<agent group, place in creation order>> *)
  MaxMail,    (* messages between agents (bound)                           *)
  MaxChanges  (* links, policies and groups added or removed (bound)       *)

ASSUME LinkConstants ==
  /\ Founders \subseteq Peers
  /\ Seats \subseteq Peers \X (Nat \ {0}) /\ \A g \in Peers : <<g, 1>> \in Seats
  /\ MaxMail \in Nat /\ MaxChanges \in Nat

Owner(s) == s[1]

Edges == {e \in Peers \X Peers : e[1] # e[2]}

VARIABLES
  life,     (* each agent group: not created, live or deleted              *)
  linked,   (* agent_destinations with an agent for target                 *)
  gated,    (* agent_message_policies                                      *)
  open,     (* sessions that exist                                         *)
  known,    (* what the container of each session may name, if it runs     *)
  mail,     (* the messages: [src, to, re, at, dest]                       *)
  arrived,  (* the messages in the order of their arrival                  *)
  changes   (* changes used up                                             *)

edgeVars == <<life, linked, gated>>
seatVars == <<open, known>>
mailVars == <<mail, arrived>>
linkVars == <<edgeVars, seatVars, mailVars, changes>>

LivePeers == {g \in Peers : life[g] = "live"}

LinksOf(g) == {h \in LivePeers : <<g, h>> \in linked}

(* No message, or no session.                                              *)
Nothing == <<>>

(* No container runs.                                                      *)
Off == {"off"}

(* The founders have a session each; nothing links them yet.               *)
LinksInit ==
  /\ life = [g \in Peers |-> IF g \in Founders THEN "live" ELSE "new"]
  /\ linked = {} /\ gated = {}
  /\ open = {<<g, 1>> : g \in LivePeers}
  /\ known = [s \in Seats |-> Off]
  /\ mail = <<>> /\ arrived = <<>> /\ changes = 0

(* Every variable has its type; sessions and links belong to live groups.  *)
LinksTypeOK ==
  /\ life \in [Peers -> {"new", "live", "deleted"}]
  /\ linked \subseteq Edges /\ gated \subseteq Edges
  /\ open \subseteq Seats /\ \A s \in open : Owner(s) \in LivePeers
  /\ \A e \in linked : {e[1], e[2]} \subseteq LivePeers
  /\ \A s \in Seats : known[s] # Off => s \in open
  /\ known \in [Seats -> (SUBSET Peers) \cup {Off}]
  /\ Len(mail) <= MaxMail
  /\ \A m \in DOMAIN mail :
       /\ mail[m].src \in Seats /\ mail[m].to \in Peers
       /\ mail[m].re \in 0 .. m - 1
       /\ mail[m].at \in {"out", "held", "in", "gone"}
       /\ mail[m].dest \in IF mail[m].at = "in" THEN Seats ELSE {Nothing}
  /\ {arrived[i] : i \in DOMAIN arrived} = {m \in DOMAIN mail : mail[m].at = "in"}
  /\ changes \in 0 .. MaxChanges

-----------------------------------------------------------------------------
(* Sessions and containers.                                                *)

(* A chat opens another session of a group.                                *)
Next1(g) == <<g, Cardinality({s \in open : Owner(s) = g}) + 1>>

OpenSession(g) ==
  /\ g \in LivePeers /\ Next1(g) \in Seats
  /\ open' = open \cup {Next1(g)}
  /\ UNCHANGED <<edgeVars, known, mailVars, changes>>

Up == {s \in open : known[s] # Off}

(* spawnContainer writes the copy anew.                                    *)
Boot(s) ==
  /\ s \in open \ Up
  /\ known' = [known EXCEPT ![s] = LinksOf(Owner(s))]
  /\ UNCHANGED <<edgeVars, open, mailVars, changes>>

Exit(s) ==
  /\ s \in Up
  /\ known' = [known EXCEPT ![s] = Off]
  /\ UNCHANGED <<edgeVars, open, mailVars, changes>>

-----------------------------------------------------------------------------
(* The operator and create_agent.                                          *)

Change == changes < MaxChanges /\ changes' = changes + 1

(* After a change of the rows, writeDestinations copies them for each of   *)
(* the sessions (a copy is taken to be written without an error).          *)
Project(g, links) == known' = [s \in Seats |->
  IF s \in Up /\ Owner(s) = g THEN {h \in LivePeers : <<g, h>> \in links} ELSE known[s]]

LinkAdd(e) ==
  /\ Change /\ e \in Edges \ linked /\ {e[1], e[2]} \subseteq LivePeers
  /\ linked' = linked \cup {e}
  /\ Project(e[1], linked \cup {e})
  /\ UNCHANGED <<life, gated, open, mailVars>>

(* The row goes; the policy of the pair, if any, stays.                    *)
LinkRemove(e) ==
  /\ Change /\ e \in linked
  /\ linked' = linked \ {e}
  /\ Project(e[1], linked \ {e})
  /\ UNCHANGED <<life, gated, open, mailVars>>

PolicySet(e) ==
  /\ Change /\ e \in Edges \ gated /\ {e[1], e[2]} \subseteq LivePeers
  /\ gated' = gated \cup {e}
  /\ UNCHANGED <<life, linked, seatVars, mailVars>>

PolicyRemove(e) ==
  /\ Change /\ e \in gated
  /\ gated' = gated \ {e}
  /\ UNCHANGED <<life, linked, seatVars, mailVars>>

(* performCreateAgent: the new group and its creator are linked both ways; *)
(* only the session that asked gets the new name.                          *)
CreateAgent(s, g) ==
  /\ Change /\ s \in open /\ life[g] = "new"
  /\ life' = [life EXCEPT ![g] = "live"]
  /\ linked' = linked \cup {<<Owner(s), g>>, <<g, Owner(s)>>}
  /\ known' = [known EXCEPT ![s] = IF s \in Up THEN LinksOf(Owner(s)) \cup {g} ELSE Off]
  /\ UNCHANGED <<gated, open, mailVars>>

(* Mutant of WithoutGroup: rows that lead to the group stay. *)
WithoutOwn(g) == {e \in linked : e[1] # g}

WithoutGroup(g) == {e \in linked : g \notin {e[1], e[2]}}

(* groups delete: one transaction, rolled back when a policy names the     *)
(* group, since nothing deletes those rows and they refer to it.  Its      *)
(* containers run on but nobody reads what they write; the copies of the   *)
(* others stay.                                                            *)
DeleteGroup(g) ==
  /\ Change /\ g \in LivePeers /\ \A e \in gated : g \notin {e[1], e[2]}
  /\ life' = [life EXCEPT ![g] = "deleted"]
  /\ linked' = WithoutGroup(g)
  /\ open' = {s \in open : Owner(s) # g}
  /\ known' = [s \in Seats |-> IF Owner(s) = g THEN Off ELSE known[s]]
  /\ mail' = [m \in DOMAIN mail |->
       IF mail[m].at = "held" /\ Owner(mail[m].src) = g
       THEN [mail[m] EXCEPT !.at = "gone"] ELSE mail[m]]
  /\ UNCHANGED <<gated, arrived>>

-----------------------------------------------------------------------------
(* Messages.                                                               *)

Inbox(s) == {m \in DOMAIN mail : mail[m].dest = s}

(* An agent writes to a name of its copy; re is the first message of the   *)
(* batch it works on, if that came from an agent.                          *)
Send(s, g, re) ==
  /\ Len(mail) < MaxMail /\ s \in Up /\ g \in known[s] /\ re \in Inbox(s) \cup {0}
  /\ mail' = Append(mail, [src |-> s, to |-> g, re |-> re, at |-> "out", dest |-> Nothing])
  /\ UNCHANGED <<edgeVars, seatVars, arrived, changes>>

Edge(m) == <<Owner(mail[m].src), mail[m].to>>

(* getMostRecentPeerSourceSessionId.                                       *)
FromPeer(m) == {i \in DOMAIN arrived :
  /\ mail[arrived[i]].dest = mail[m].src
  /\ Owner(mail[arrived[i]].src) = mail[m].to}

LastOf(indices) == CHOOSE i \in indices : \A j \in indices : j <= i

(* The session recorded with the message that is answered, else the one    *)
(* that the target group wrote from last.                                  *)
Origin(m) ==
  IF mail[m].re # 0 THEN mail[mail[m].re].src
  ELSE IF FromPeer(m) # {} THEN mail[arrived[LastOf(FromPeer(m))]].src ELSE Nothing

(* Mutant of Candidates: whatever session the answered message came from. *)
CandidatesOfAny(m) == {Origin(m)} \cap open

Candidates(m) == {s \in {Origin(m)} \cap open : Owner(s) = mail[m].to}

NewestOf(g) == CHOOSE s \in open : Owner(s) = g /\ \A t \in open : Owner(t) = g => t[2] <= s[2]

(* Mutant of Target: the newest session first. *)
TargetNewest(m) ==
  LET g == mail[m].to IN
  IF \E s \in open : Owner(s) = g THEN NewestOf(g)
  ELSE IF Candidates(m) # {} THEN CHOOSE s \in Candidates(m) : TRUE
  ELSE Next1(g)

(* resolveTargetSession: else the newest session of the group, or a new    *)
(* one.                                                                    *)
Target(m) ==
  LET g == mail[m].to IN
  IF Candidates(m) # {} THEN CHOOSE s \in Candidates(m) : TRUE
  ELSE IF \E s \in open : Owner(s) = g THEN NewestOf(g)
  ELSE Next1(g)

(* performAgentRoute.                                                      *)
Route(m) ==
  /\ mail' = [mail EXCEPT ![m].at = "in", ![m].dest = Target(m)]
  /\ arrived' = Append(arrived, m)
  /\ open' = open \cup {Target(m)}
  /\ UNCHANGED <<edgeVars, known, changes>>

Settle(m, at) ==
  /\ mail' = [mail EXCEPT ![m].at = at]
  /\ UNCHANGED <<edgeVars, seatVars, arrived, changes>>

(* Delivery takes it up; only the outboxes of sessions that exist are read. *)
InOutbox(m) == m \in DOMAIN mail /\ mail[m].at = "out" /\ mail[m].src \in open

(* routeAgentMessage of a permitted message.                               *)
Deliver(m) ==
  /\ InOutbox(m) /\ Edge(m) \in linked /\ mail[m].to \in LivePeers
  /\ Edge(m) \notin gated
  /\ Route(m)

(* A gated message waits for its approver, or is dropped without one.      *)
Hold(m) ==
  /\ InOutbox(m) /\ Edge(m) \in linked /\ mail[m].to \in LivePeers
  /\ Edge(m) \in gated
  /\ \E at \in {"held", "gone"} : Settle(m, at)

(* Without a link delivery fails, in the end for good (see Delivery).      *)
Refuse(m) ==
  /\ InOutbox(m) /\ (Edge(m) \notin linked \/ mail[m].to \notin LivePeers)
  /\ Settle(m, "gone")

Held(m) == m \in DOMAIN mail /\ mail[m].at = "held"

(* applyA2aMessageGate: routed without another look at the link; a session *)
(* for a group that is gone cannot be inserted.                            *)
Approve(m) ==
  /\ Held(m)
  /\ IF mail[m].to \in LivePeers THEN Route(m) ELSE Settle(m, "gone")

Reject(m) == Held(m) /\ Settle(m, "gone")

-----------------------------------------------------------------------------
Operator ==
  \/ \E e \in Edges : LinkAdd(e) \/ LinkRemove(e) \/ PolicySet(e) \/ PolicyRemove(e)
  \/ \E g \in Peers : DeleteGroup(g)

LinksNext ==
  \/ \E g \in Peers : OpenSession(g)
  \/ \E s \in Seats :
       \/ Boot(s) \/ Exit(s)
       \/ \E g \in Peers : CreateAgent(s, g) \/ \E re \in 0 .. MaxMail : Send(s, g, re)
  \/ Operator
  \/ \E m \in 1 .. MaxMail : Deliver(m) \/ Hold(m) \/ Refuse(m) \/ Approve(m) \/ Reject(m)

LinksSpec == LinksInit /\ [][LinksNext]_linkVars

-----------------------------------------------------------------------------
(***************************************************************************)
(* Properties.                                                             *)
(***************************************************************************)

(* A message ends up with the agent it was addressed to, whatever batch it *)
(* answers: the session of an answered message is used only when it        *)
(* belongs to the addressed group.                                         *)
RightAgent == \A m \in DOMAIN mail : mail[m].at = "in" => Owner(mail[m].dest) = mail[m].to

Arrives(m) == m \in DOMAIN mail /\ mail[m].at # "in" /\ mail'[m].at = "in"

(* An answer goes back to the session that asked, as long as it exists and *)
(* is the addressed group's, also when the group has newer sessions or its *)
(* other sessions wrote since.                                             *)
AnswerReturns ==
  [][\A m \in DOMAIN mail :
       LET asker == mail[mail[m].re].src IN
       Arrives(m) /\ mail[m].re # 0 =>
         (asker \in open /\ Owner(asker) = mail[m].to => mail'[m].dest = asker)]_linkVars

(* At the moment a message arrives its link exists and lets messages pass, *)
(* or a human has let this one pass: also when the link or the policy      *)
(* changed after the agent wrote it.                                       *)
EdgeRules ==
  [][\A m \in DOMAIN mail :
       Arrives(m) => mail[m].at = "held" \/ Edge(m) \in linked \ gated]_linkVars

(* No container keeps a name whose link an operator has taken away, unless *)
(* the whole group behind it was deleted.                                  *)
NamesAreLinks ==
  \A s \in Up : \A h \in known[s] : <<Owner(s), h>> \in linked \/ life[h] = "deleted"

(* Messages go where they are addressed to, and names lead where a link    *)
(* leads, in every state.                                                  *)
LinksSafe == RightAgent /\ NamesAreLinks

(* Messages arrive where their conversation goes on, and by a link that    *)
(* lets them pass, at every step.                                          *)
RoutedRight == AnswerReturns /\ EdgeRules

(* What does not hold.  agent-destinations.ts: whoever changes the rows    *)
(* "MUST also call writeDestinations(agentGroupId, sessionId) for each     *)
(* affected session", so that a running container knows every name.        *)
KnowsEveryName == \A s \in Up : LinksOf(Owner(s)) \subseteq known[s]

(* What does not hold.  agent-destinations.ts: "no ghost gate on re-wire". *)
NoGhostGate == [][\A e \in Edges : e \notin linked /\ e \in linked' => e \notin gated]_linkVars

=============================================================================
