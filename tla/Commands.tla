------------------------------- MODULE Commands -------------------------------
(***************************************************************************)
(* The ncl command line.  Inside a container a run of ncl writes a         *)
(* cli_request row and polls for its answer for 30 seconds; the host's     *)
(* delivery dispatches the row and inserts the answer, and dispatches it   *)
(* again when anything after that failed.  A command that needs approval   *)
(* is answered "approval-pending" and dispatched once more, as the host,   *)
(* when an admin approves.  An operator's command is dispatched at once.   *)
(*                                                                         *)
(* A request is a registered command, the group it names (in the argument  *)
(* its resource uses for that, or as a word of the command), the group it  *)
(* names once more, after that, as --agent-group-id, a person and a        *)
(* cli_scope.  A last word counts as the id, which is the group only of    *)
(* the commands of groups; the others are asked for without one.  Handlers *)
(* suspend only to project destinations and to rebuild an image; the       *)
(* latter is not among the commands here.                                  *)
(***************************************************************************)
EXTENDS Naturals, FiniteSets, Faults

CONSTANTS
  Groups,     (* agent groups there ever are                               *)
  Dashed,     (* the groups whose id has a dash in it                      *)
  People,     (* users                                                     *)
  Ncls,       (* runs of ncl inside containers                             *)
  Askers,     (* the groups whose agents run ncl                           *)
  Orders,     (* the requests agents make                                  *)
  Operations, (* the requests operators make                               *)
  MaxTries,   (* MAX_DELIVERY_ATTEMPTS                                     *)
  Limit,      (* the LIMIT of a list that asks for none (200 in the code)  *)
  MaxOps,     (* commands of operators (bound)                             *)
  MaxPresses  (* runs of a call up to which a card being worked on is      *)
              (* pressed again (bound)                                     *)

None == "none"
Scopes == {"disabled", "group", "global"}

(* What the registry knows of a command.                                   *)
CommandDef(resource, access, generic) ==
  [resource |-> resource, access |-> access, generic |-> generic]

Open == {"groups-list", "groups-get", "members-list", "roles-list"}
Groupwise == {"groups-list", "groups-get", "groups-config-update", "groups-delete"}
Destined == {"destinations-add", "destinations-remove"}
Registry ==
  [v \in Open \cup Groupwise \cup Destined \cup {"members-add", "members-remove"} |->
     CommandDef(CASE v \in Groupwise -> "groups"
                  [] v \in Destined -> "destinations"
                  [] v = "roles-list" -> "roles"
                  [] OTHER -> "members",
                IF v \in Open THEN "open" ELSE "approval",
                v \in Open)]

Requests ==
  [verb : DOMAIN Registry \cup {"nonsense"}, word : Groups \cup {None},
   target : Groups \cup {None}, dashed : Groups \cup {None},
   person : People \cup {None}, scope : Scopes \cup {None}]

Codes == {"ok", "unknown-command", "forbidden", "approval-pending", "handler-error"}

ASSUME CommandConstants ==
  /\ IsFiniteSet(Groups) /\ Dashed \subseteq Groups /\ None \notin Groups \cup People
  /\ Askers \subseteq Groups
  /\ Orders \cup Operations \subseteq Requests
  /\ \A r \in Orders \cup Operations : r.word # None => r.verb \in Groupwise
  /\ MaxTries \in Nat \ {0} /\ Limit \in Nat \ {0} /\ MaxOps \in Nat
  /\ MaxPresses \in Nat

VARIABLES
  db,        (* agent_groups, cli_scope by group, agent_group_members, and *)
             (* the groups with a certain row in agent_destinations        *)
  ask,       (* the cli_request row of a call, and the frame an admin is   *)
             (* asked about (was: history, the scope it was let through with) *)
  client,    (* what the run of ncl does                                   *)
  reply,     (* the cli-resp row: [code, shown], or NoReply                *)
  tries,     (* failed deliveries of the row, in the host's memory         *)
  cards,     (* pending_approvals rows: [call, nr, frame, was, ran], where *)
             (* ran tells whether the handler has run ("yes"), or has and  *)
             (* is awaited ("now")                                         *)
  ops,       (* commands operators have run                                *)
  runs,      (* history: times the handler ran for a call                  *)
  carded,    (* history: cards created for a call                          *)
  approved,  (* history: cards of a call that an admin approved            *)
  touched,   (* history: <<group asking, its scope then, group affected>>  *)
  outages    (* history: crashes of the host                               *)

rowVars == <<ask, tries>>
commandHist == <<runs, carded, approved, touched, outages>>
commandsVars == <<db, ask, client, reply, tries, cards, ops, commandHist, faults>>

NoAsk == [stage |-> "none"]
NoReply == [code |-> None]
Rows == [stage : {"due", "asking", "posting", "delivered", "failed"},
         by : Groups, request : Requests, frame : Requests,
         was : Scopes]

CommandsInit ==
  /\ db \in [groups : {Groups}, scope : [Groups -> {"group"}], members : {{}},
             destined : {{}}]
  /\ ask = [c \in Ncls |-> NoAsk]
  /\ client = [c \in Ncls |-> "idle"]
  /\ reply = [c \in Ncls |-> NoReply]
  /\ tries = [c \in Ncls |-> 0]
  /\ cards = {} /\ ops = 0
  /\ runs = [c \in Ncls |-> 0] /\ carded = [c \in Ncls |-> 0]
  /\ approved = [c \in Ncls |-> 0] /\ touched = {} /\ outages = 0
  /\ faults = 0

(* Every variable has its type.                                            *)
CommandsTypeOK ==
  /\ db \in [groups : SUBSET Groups, scope : [Groups -> Scopes],
             members : SUBSET (People \X Groups), destined : SUBSET Groups]
  /\ ask \in [Ncls -> Rows \cup {NoAsk}]
  /\ client \in [Ncls -> {"idle", "polling", "answered", "timed out"}]
  /\ \A c \in Ncls : reply[c] # NoReply =>
       /\ reply[c].code \in Codes /\ reply[c].shown \subseteq Groups
  /\ tries \in [Ncls -> 0 .. MaxTries - 1]
  /\ \A k \in cards : /\ k.call \in Ncls /\ k.nr \in 1 .. carded[k.call]
                       /\ k.frame \in Requests /\ k.ran \in {"no", "now", "yes"}
  /\ ops \in 0 .. MaxOps
  /\ faults \in 0 .. MaxFaults

-----------------------------------------------------------------------------
(* dispatch.                                                               *)

(* A command that is not registered may be one with its target as the last *)
(* word; only the part after the last dash is taken for it.                *)
Resolve(r) ==
  CASE r.word = None -> r
    [] r.word \in Dashed -> [r EXCEPT !.verb = "nonsense"]
    [] OTHER -> [r EXCEPT !.word = None,
                          !.target = IF @ = None THEN r.word ELSE @]

(* A group without a config row has the scope "group".                     *)
ScopeOf(g) == IF g \in db.groups THEN db.scope[g] ELSE "group"

Whitelisted == {"groups", "sessions", "destinations", "members"}

Forbidden(r, g) ==
  \/ ScopeOf(g) = "disabled"
  \/ /\ ScopeOf(g) = "group"
     /\ \/ Registry[r.verb].resource \notin Whitelisted
        \/ r.target \notin {None, g}
        \/ r.scope # None

(* The caller's group is filled in after what was given, so it counts even *)
(* where --agent-group-id names another.                                   *)
Filled(r, g) ==
  IF ScopeOf(g) = "group" /\ r.target = None
  THEN [r EXCEPT !.target = g, !.dashed = None] ELSE r

(* normalizeArgs: --agent-group-id becomes agent_group_id, and the later   *)
(* of the two counts.  Only destinations and the list of members know the  *)
(* group by that name.                                                     *)
Parsed(r) ==
  IF r.verb \in Destined \cup {"members-list"} /\ r.dashed # None
  THEN [r EXCEPT !.target = r.dashed, !.dashed = None] ELSE r

(* The handlers: whether they throw, the tables they leave, the groups     *)
(* whose rows they return.                                                 *)
Throws(r) ==
  \/ r.verb \in {"groups-get", "groups-config-update", "groups-delete"} /\ r.target \notin db.groups
  \/ r.verb = "groups-config-update" /\ r.scope = None
  \/ r.verb \in {"members-add", "members-remove"} /\ None \in {r.target, r.person}
  \/ r.verb = "members-add" /\ r.target \notin db.groups
  \/ r.verb = "members-remove" /\ <<r.person, r.target>> \notin db.members
  \/ r.verb = "destinations-add" /\ r.target \notin db.groups \ db.destined
  \/ r.verb = "destinations-remove" /\ r.target \notin db.destined

After(r) ==
  IF Throws(r) THEN db ELSE
  CASE r.verb = "groups-config-update" -> [db EXCEPT !.scope[r.target] = r.scope]
    [] r.verb = "groups-delete" ->
         [db EXCEPT !.groups = @ \ {r.target}, !.members = @ \ (People \X {r.target}),
                    !.destined = @ \ {r.target}]
    [] r.verb = "members-add" -> [db EXCEPT !.members = @ \cup {<<r.person, r.target>>}]
    [] r.verb = "members-remove" -> [db EXCEPT !.members = @ \ {<<r.person, r.target>>}]
    [] r.verb = "destinations-add" -> [db EXCEPT !.destined = @ \cup {r.target}]
    [] r.verb = "destinations-remove" -> [db EXCEPT !.destined = @ \ {r.target}]
    [] OTHER -> db

(* groups-list has no column the target could filter by, roles none that   *)
(* a group needs.                                                          *)
Matching(r) ==
  CASE r.verb = "groups-list" -> db.groups
    [] r.verb = "groups-get" -> {r.target} \cap db.groups
    [] r.verb = "members-list" ->
         {m[2] : m \in {n \in db.members : r.target \in {None, n[2]}}}
    [] OTHER -> {}

Listed(r) ==
  {s \in SUBSET Matching(r) :
     IF Cardinality(Matching(r)) <= Limit THEN s = Matching(r) ELSE Cardinality(s) = Limit}

(* The filter after a generic handler, for an agent.                       *)
Visible(r, s, g) ==
  IF ScopeOf(g) = "group" /\ Registry[r.verb].generic THEN s \cap {g} ELSE s

-----------------------------------------------------------------------------
(* The delivery of a cli_request row.                                      *)

(* deliverMessage threw.                                                   *)
Retry(c) ==
  IF tries[c] + 1 < MaxTries
  THEN /\ tries' = [tries EXCEPT ![c] = @ + 1]
       /\ ask' = [ask EXCEPT ![c].stage = "due"]
  ELSE /\ tries' = [tries EXCEPT ![c] = 0]
       /\ ask' = [ask EXCEPT ![c].stage = "failed"]

(* Mutant: a later answer replaces the first.                              *)
AnswerReplaces(c, code, shown) ==
  \/ /\ reply' = [reply EXCEPT ![c] = [code |-> code, shown |-> shown]]
     /\ \/ /\ ask' = [ask EXCEPT ![c].stage = "delivered"]
           /\ tries' = [tries EXCEPT ![c] = 0]
           /\ UNCHANGED faults
        \/ Fault /\ Retry(c)
  \/ Fault /\ Retry(c) /\ UNCHANGED reply

(* The answer is inserted under an id made of the request's, then the row  *)
(* is marked delivered.                                                    *)
Answer(c, code, shown) ==
  \/ /\ reply[c] = NoReply
     /\ reply' = [reply EXCEPT ![c] = [code |-> code, shown |-> shown]]
     /\ \/ /\ ask' = [ask EXCEPT ![c].stage = "delivered"]
           /\ tries' = [tries EXCEPT ![c] = 0]
           /\ UNCHANGED faults
        \/ Fault /\ Retry(c)
  \/ /\ IF reply[c] = NoReply THEN Fault ELSE UNCHANGED faults
     /\ Retry(c) /\ UNCHANGED reply

Due(c) == ask[c].stage = "due" /\ ask[c].by \in db.groups

(* Its session went with its group: nothing polls its outbound.db.         *)
Orphan(c) == ask[c].stage # "none" /\ ask[c].by \notin db.groups

Known(c) == Resolve(ask[c].request).verb \in DOMAIN Registry

Passes(c) == Known(c) /\ ~Forbidden(Resolve(ask[c].request), ask[c].by)

Frame(c) == Filled(Resolve(ask[c].request), ask[c].by)

(* Mutant: an agent with the scope "global" needs no approval.             *)
NeedsApprovalScoped(c) ==
  Registry[Frame(c).verb].access = "approval" /\ ScopeOf(ask[c].by) # "global"

NeedsApproval(c) == Registry[Frame(c).verb].access = "approval"

RefuseCommand(c) ==
  /\ Due(c) /\ ~Passes(c)
  /\ Answer(c, IF Known(c) THEN "forbidden" ELSE "unknown-command", {})
  /\ UNCHANGED <<db, client, cards, ops, commandHist>>

(* The groups a command that did not throw has changed.                    *)
Changes(r) == IF Registry[r.verb].access = "approval" THEN {r.target} ELSE {}

Touches(g, was, groups) == touched' = touched \cup {<<g, was, h>> : h \in groups}

Handle(c) ==
  LET r == Parsed(Frame(c))  g == ask[c].by
  IN /\ Due(c) /\ Passes(c) /\ ~NeedsApproval(c)
     /\ db' = After(r)
     /\ runs' = [runs EXCEPT ![c] = @ + 1]
     /\ IF Throws(r)
        THEN Answer(c, "handler-error", {}) /\ UNCHANGED touched
        ELSE \E s \in Listed(r) :
               /\ Answer(c, "ok", Visible(r, s, g))
               /\ Touches(g, ScopeOf(g), Changes(r) \cup Visible(r, s, g))
     /\ UNCHANGED <<client, cards, ops, carded, approved, outages>>

(* requestApproval: the approver's direct chat is awaited, the row         *)
(* inserted, the card awaited.  Whoever could not be asked, the agent is   *)
(* told in a message and the answer is the same.                           *)
AskAdmin(c) ==
  /\ Due(c) /\ Passes(c) /\ NeedsApproval(c)
  /\ ask' = [ask EXCEPT ![c].stage = "asking", ![c].frame = Frame(c),
                       ![c].was = ScopeOf(ask[c].by)]
  /\ UNCHANGED <<db, client, reply, tries, cards, ops, commandHist, faults>>

NoAdmin(c) ==
  /\ ask[c].stage = "asking"
  /\ Answer(c, "approval-pending", {})
  /\ UNCHANGED <<db, client, cards, ops, commandHist>>

CardRow(c) ==
  /\ ask[c].stage = "asking"
  /\ IF ask[c].by \in db.groups
     THEN /\ ask' = [ask EXCEPT ![c].stage = "posting"]
          /\ carded' = [carded EXCEPT ![c] = @ + 1]
          /\ cards' = cards \cup {[call |-> c, nr |-> carded'[c], frame |-> ask[c].frame,
                                   was |-> ask[c].was, ran |-> "no"]}
          /\ UNCHANGED tries
     ELSE Retry(c) /\ UNCHANGED <<carded, cards>>
  /\ UNCHANGED <<db, client, reply, ops, runs, approved, touched, outages, faults>>

CardOut(c) ==
  /\ ask[c].stage = "posting"
  /\ Answer(c, "approval-pending", {})
  /\ UNCHANGED <<db, client, cards, ops, commandHist>>

-----------------------------------------------------------------------------
(* The host's own commands, and those it runs for an admin who approved.   *)

(* A command runs as the host's; with a group go the cards its sessions    *)
(* asked for.                                                              *)
RunAsHost(r, left) ==
  /\ db' = After(r)
  /\ cards' = {k \in left : ask[k.call].by \in db'.groups}

(* The host forgets the attempts and starts again at a row it was in.      *)
HostDown ==
  /\ Fault /\ outages' = outages + 1
  /\ tries' = [c \in Ncls |-> 0]
  /\ ask' = [c \in Ncls |-> IF ask[c].stage \in {"asking", "posting"}
                             THEN [ask[c] EXCEPT !.stage = "due"] ELSE ask[c]]

(* The cards a crash leaves behind: none is being worked on any more.      *)
Abandoned(S) == {[k EXCEPT !.ran = IF @ = "now" THEN "yes" ELSE @] : k \in S}

Ran(k, how) == (cards \ {k}) \cup {[k EXCEPT !.ran = how]}

(* The card is deleted when the handler has returned: at once where it     *)
(* awaits nothing, later where it projects destinations, and not at all    *)
(* when the host crashes in between.                                       *)
AdminApproves(k) ==
  LET r == Parsed(k.frame)
  IN /\ k \in cards /\ (k.ran = "now" => runs[k.call] < MaxPresses)
     /\ \/ /\ IF r.verb \in Destined THEN RunAsHost(r, Ran(k, "now"))
                                      ELSE RunAsHost(r, cards \ {k})
           /\ UNCHANGED <<rowVars, outages, faults>>
        \/ RunAsHost(r, Abandoned(Ran(k, "yes"))) /\ HostDown
     /\ runs' = [runs EXCEPT ![k.call] = @ + 1]
     /\ approved' = [approved EXCEPT ![k.call] = IF k.ran = "no" THEN @ + 1 ELSE @]
     /\ IF Throws(r) THEN UNCHANGED touched
        ELSE Touches(ask[k.call].by, k.was, Changes(r))
     /\ UNCHANGED <<client, reply, ops, carded>>

HandlerReturns(k) ==
  /\ k \in cards /\ k.ran = "now" /\ cards' = cards \ {k}
  /\ UNCHANGED <<db, rowVars, client, reply, ops, commandHist, faults>>

AdminRejects(k) ==
  /\ k \in cards /\ cards' = cards \ {k}
  /\ UNCHANGED <<db, rowVars, client, reply, ops, commandHist, faults>>

Operate(r) ==
  /\ ops < MaxOps /\ ops' = ops + 1
  /\ Resolve(r).verb \in DOMAIN Registry
  /\ RunAsHost(Parsed(Resolve(r)), cards)
  /\ UNCHANGED <<rowVars, client, reply, commandHist, faults>>

-----------------------------------------------------------------------------
(* The run of ncl in the container, and the host's end.                    *)

Call(c, g, r) ==
  /\ client[c] = "idle" /\ client' = [client EXCEPT ![c] = "polling"]
  /\ ask' = [ask EXCEPT ![c] = [stage |-> "due", by |-> g, request |-> r,
                                        frame |-> r, was |-> ScopeOf(g)]]
  /\ UNCHANGED <<db, reply, tries, cards, ops, commandHist, faults>>

(* pollResponse, which also acknowledges the row; an answer after the 30   *)
(* seconds stays pending for good.                                         *)
Receive(c) ==
  /\ client[c] = "polling" /\ reply[c] # NoReply
  /\ client' = [client EXCEPT ![c] = "answered"]
  /\ UNCHANGED <<db, rowVars, reply, cards, ops, commandHist, faults>>

TimesOut(c) ==
  /\ client[c] = "polling" /\ client' = [client EXCEPT ![c] = "timed out"]
  /\ UNCHANGED <<db, rowVars, reply, cards, ops, commandHist, faults>>

HostCrashes ==
  /\ HostDown
  /\ cards' = Abandoned(cards)
  /\ UNCHANGED <<db, client, reply, ops, runs, carded, approved, touched>>

Serve(c) == RefuseCommand(c) \/ Handle(c) \/ AskAdmin(c) \/ CardRow(c) \/ CardOut(c)

CommandsNext ==
  \/ \E c \in Ncls :
       \/ Serve(c) \/ NoAdmin(c) \/ Receive(c) \/ TimesOut(c)
       \/ \E g \in Askers, r \in Orders : Call(c, g, r)
  \/ \E k \in cards : AdminApproves(k) \/ HandlerReturns(k) \/ AdminRejects(k)
  \/ \E r \in Operations : Operate(r)
  \/ HostCrashes

(* Delivery polls every row that is due, and what it awaits returns.       *)
CommandsFairness == \A c \in Ncls : WF_commandsVars(Serve(c))

CommandsSpec == CommandsInit /\ [][CommandsNext]_commandsVars /\ CommandsFairness

-----------------------------------------------------------------------------
(* Properties.                                                             *)

(* No order names its group in both spellings. *)
OneSpelling == \A r \in Orders : r.dashed # None => r.target = None /\ r.word = None

(* What an agent whose group had the scope "group" when its command was    *)
(* let through sees and changes is its own group, whoever approved, and    *)
(* one with the scope "disabled" reaches nothing (dispatch).               *)
OwnGroupOnly ==
  \A t \in touched : t[2] # "disabled" /\ (t[2] = "group" => t[3] = t[1])

(* A command that needs approval runs for an agent when an admin approved  *)
(* a card of it, however often its row was dispatched: once for each such  *)
(* card, and once more at most for each crash of the host that came        *)
(* between the handler and the deletion of the card                        *)
(* (handleRegisteredApproval).  While a handler is awaited, a second press *)
(* still finds the card.                                                   *)
RunsOnApproval ==
  \A c \in Ncls : ask[c] # NoAsk =>
    LET v == Resolve(ask[c].request).verb
    IN  /\ approved[c] > 0 => Registry[v].access = "approval"
        /\ runs[c] > 0 /\ Registry[v].access = "approval"
             => /\ approved[c] \in 1 .. runs[c]
                /\ v \notin Destined => runs[c] <= approved[c] + outages

(* A failing delivery repeats what the command does, or the card, at most  *)
(* MAX_DELIVERY_ATTEMPTS times, and that often again after each crash of   *)
(* the host (deliverSessionMessages, deliveryAttempts).                    *)
RepeatsBounded ==
  \A c \in Ncls : carded[c] <= MaxTries * (outages + 1)
                  /\ approved[c] = 0 => runs[c] <= MaxTries * (outages + 1)

(* However often the row is dispatched, the answer a run of ncl may have   *)
(* read already stays (the id cli-resp-<request>).                         *)
FirstAnswerStands ==
  [][\A c \in Ncls : reply[c] # NoReply => reply'[c] = reply[c]]_commandsVars

(* A list that is not cut off shows an agent its own group.                *)
OwnGroupListed ==
  [][\A c \in Ncls :
       /\ reply[c] = NoReply /\ reply'[c] # NoReply
       /\ ask[c].request.verb = "groups-list" /\ reply'[c].code = "ok"
       /\ Cardinality(db.groups) <= Limit
       => ask[c].by \in reply'[c].shown]_commandsVars

(* Every row ends delivered or failed, unless its group is deleted: the    *)
(* answer that is there already does not make it come back for ever.       *)
RowsSettle ==
  \A c \in Ncls :
    Due(c) ~> ask[c].stage \in {"delivered", "failed"} \/ Orphan(c)

(* What an agent can bring about by its commands.                          *)
CommandsSafe == OwnGroupOnly /\ RunsOnApproval /\ RepeatsBounded

=============================================================================
