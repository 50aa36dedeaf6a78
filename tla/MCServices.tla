----------------------------- MODULE MCServices -----------------------------
(* Instances for TLC of six services of the host that share nothing but   *)
(* it: containers, message numbers, links between agents, the state of the *)
(* chat SDK (of which its three tables are independent too), recurring     *)
(* tasks and the command line.  A behaviour is one of one of them, chosen  *)
(* at the start.                                                           *)
EXTENDS ContainerLifecycle, MessageNumbers, AgentLinks, ChatState, Scheduling,
        Commands

CONSTANTS
  g1, g2, g3,  (* agent groups *)
  u1           (* a user       *)

VARIABLE part

(* One agent group has two sessions.                                       *)
LinkSeats == {<<g1, 1>>, <<g1, 2>>, <<g2, 1>>, <<g3, 1>>}

(* What agents of one group ask for, and what operators do meanwhile.      *)
Wants(verb, word, target, scope) ==
  [verb |-> verb, word |-> word, target |-> target, dashed |-> None, scope |-> scope,
   person |-> IF verb \in {"members-add", "members-remove"} THEN u1 ELSE None]

AgentOrders ==
  {Wants("groups-list", None, None, None), Wants("groups-get", g1, None, None),
   Wants("groups-get", g2, None, None), Wants("groups-config-update", None, None, "global"),
   Wants("members-add", None, g2, None), Wants("members-list", None, None, None),
   Wants("roles-list", None, None, None),
   [Wants("destinations-add", None, None, None) EXCEPT !.dashed = g2]}

(* The same argument twice, in both spellings. *)
TwoSpellings == {[Wants("destinations-add", None, g1, None) EXCEPT !.dashed = g2]}

HostOrders ==
  {Wants("groups-config-update", None, g1, "disabled"),
   Wants("groups-config-update", None, g1, "global"),
   Wants("groups-delete", None, g1, None), Wants("groups-delete", g2, None, None)}

schedVars == <<seriesVars, tickVars, commands, schedHistVars>>

ncl == <<db, ask, client, reply, tries, cards, ops, commandHist>>

ServicesInit ==
  /\ Init /\ NumbersInit /\ LinksInit /\ ChatInit /\ SchedulingInit /\ CommandsInit
  /\ part \in {"containers", "numbers", "links", "locks", "seen", "queue", "tasks", "commands"}

ServicesNext ==
  /\ \/ part = "containers" /\ Next
        /\ UNCHANGED <<numbersVars, linkVars, chatVars, schedVars, faults, ncl>>
     \/ part = "numbers" /\ NumbersNext
        /\ UNCHANGED <<vars, linkVars, chatVars, schedVars, faults, ncl>>
     \/ part = "links" /\ LinksNext
        /\ UNCHANGED <<vars, numbersVars, chatVars, schedVars, faults, ncl>>
     \/ /\ \/ part = "locks" /\ LocksNext
           \/ part = "seen" /\ SeenNext
           \/ part = "queue" /\ QueueNext
        /\ UNCHANGED <<vars, numbersVars, linkVars, schedVars, faults, ncl>>
     \/ part = "tasks" /\ SchedulingNext
        /\ UNCHANGED <<vars, numbersVars, linkVars, chatVars, ncl>>
     \/ part = "commands" /\ CommandsNext
        /\ UNCHANGED <<vars, numbersVars, linkVars, chatVars, schedVars>>
  /\ UNCHANGED part

(* Fairness, SchedulingFairness and CommandsFairness, each asked of its own *)
(* part only: of the idle parts some actions would be enabled.             *)
ServicesFairness ==
  /\ \A p \in Spawns :
       /\ WF_vars(part = "containers" /\ Close(p))
       /\ WF_vars(part = "containers" /\ Materialize(p))
       /\ WF_vars(part = "containers" /\ (SpawnFails(p) \/ Spawn(p)))
  /\ WF_schedulingVars(part = "tasks" /\ SyncAcks)
  /\ WF_schedulingVars(part = "tasks" /\ ReadCompleted)
  /\ \A o \in Occurrences :
       WF_schedulingVars(part = "tasks" /\ (Clone(o) \/ CloneFails(o)))
  /\ \A c \in Ncls : WF_commandsVars(part = "commands" /\ Serve(c))

ServicesSpec ==
  /\ ServicesInit
  /\ [][ServicesNext]_<<vars, numbersVars, linkVars, chatVars, schedVars, ncl, faults, part>>
  /\ ServicesFairness

-----------------------------------------------------------------------------
(* Types of the six services. *)
ServicesTypeOK ==
  TypeOK /\ NumbersTypeOK /\ LinksTypeOK /\ ChatTypeOK /\ SchedulingTypeOK /\ CommandsTypeOK

(* What no step of a service does: run a paused task, answer a command     *)
(* twice, list another group's rows, or take the first report of a message *)
(* for a second.                                                           *)
ServiceSteps == PauseHolds /\ FirstAnswerStands /\ OwnGroupListed /\ FirstReportWins

(* What a service has begun comes to an end: a killed container that was   *)
(* to be woken again is, a completed occurrence gets its successor, and a  *)
(* command its answer.                                                     *)
ServicesEnd == KillRespawns /\ SuccessorComes /\ RowsSettle
=============================================================================
