----------------------------- MODULE Migrations -----------------------------
(***************************************************************************)
(* The migrations of the central database.  Every process that opens it    *)
(* runs them: the host when it starts, a setup script beside it.  A        *)
(* migration and the row that records its name are one transaction; what   *)
(* is pending is read once, before the first.                              *)
(*                                                                         *)
(* The schema is the set of the tables and columns that some migration     *)
(* needs, adds or drops.                                                   *)
(***************************************************************************)
EXTENDS Naturals, FiniteSets, Sequences, Faults

CONSTANT Runners  (* processes that open the database                       *)

VARIABLES
  schema,    (* tables and columns                                         *)
  recorded,  (* names in schema_version                                    *)
  chats,     (* the rows of messaging_groups are there                     *)
  orphans,   (* rows without their parent: "old" ones, or "new"            *)
  todo,      (* each runner: the places in List of those it has still to   *)
             (* run                                                        *)
  runner,    (* each runner: where it is                                   *)
  ran        (* history: how often each migration took effect              *)

migrationVars == <<schema, recorded, chats, orphans, todo, runner, ran, faults>>

Legacy == {"trigger_rules"}

(* Each migration: whether it throws when what it adds is there.           *)
M(name, version, strict, needs, adds, drops) ==
  [name |-> name, version |-> version, strict |-> strict,
   needs |-> needs, adds |-> adds, drops |-> drops]

Migration001 == M("initial-v2-schema", 1, TRUE, {}, {"core", "messaging_groups", "wirings"} \cup Legacy, {})
Migration002 == M("chat-sdk-state", 2, TRUE, {}, {"chat_sdk"}, {})
PendingApprovals == M("pending-approvals", 3, TRUE, {"core"}, {"pending_approvals", "approval titles"}, {})
Destinations == M("agent-destinations", 4, TRUE, {"core", "wirings", "messaging_groups"}, {"destinations"}, {})
TitleOptions == M("pending-approvals-title-options", 7, FALSE, {"pending_approvals"}, {"approval titles"}, {})
Migration008 == M("dropped-messages", 8, FALSE, {}, {"unregistered"}, {})
Migration009 == M("drop-pending-credentials", 9, FALSE, {}, {}, {"pending_credentials"})
Migration010 == M("engage-modes", 10, TRUE, {"wirings"} \cup Legacy, {"engage"}, Legacy)
Migration011 == M("pending-sender-approvals", 11, FALSE, {"core"}, {"sender approvals"}, {})
Migration012 == M("channel-registration", 12, FALSE, {"messaging_groups"}, {"denied_at", "channel approvals"}, {})
Migration013 == M("approval-render-metadata", 13, TRUE, {"sender approvals", "channel approvals"}, {"card titles"}, {})
Migration014 == M("container-configs", 14, TRUE, {"core"}, {"container_configs"}, {})
Migration015 == M("cli-scope", 15, TRUE, {"container_configs"}, {"cli_scope"}, {})
Migration016 == M("messaging-group-instance", 16, FALSE, {"messaging_groups", "denied_at"}, {"instance"}, {})
Migration017 == M("agent-message-policies", 17, TRUE, {"core"}, {"policies"}, {})
Migration018 == M("approvals-approver-user-id", 18, TRUE, {"pending_approvals"}, {"approver"}, {})

(* The list, in its order.                                                 *)
List == <<
  Migration001, Migration002, PendingApprovals, Destinations, Migration017, TitleOptions,
  Migration018, Migration008, Migration009, Migration010, Migration011, Migration012,
  Migration013, Migration014, Migration015, Migration016 >>

Names == {List[i].name : i \in DOMAIN List}

FullSchema == (UNION {List[i].adds : i \in DOMAIN List}) \ Legacy

(* A database of an earlier version of the program: all migrations up to a *)
(* number, of which the third did not add the titles then, and a table     *)
(* that a migration gone since had made.                                   *)
Upto(n) == {i \in DOMAIN List : List[i].version <= n}

OldSchema(n) ==
  ((UNION {List[i].adds : i \in Upto(n)})
     \ ((UNION {List[i].drops : i \in Upto(n)}) \cup (IF n < 7 THEN {"approval titles"} ELSE {})))
  \cup (IF n \in 5 .. 8 THEN {"pending_credentials"} ELSE {})

MigrationsInit ==
  /\ \E n \in 0 .. 18 :
       /\ schema = OldSchema(n)
       /\ recorded = {List[i].name : i \in Upto(n)}
       /\ chats = (n >= 1)
       /\ orphans \in IF n >= 1 THEN {{}, {"old"}} ELSE {{}}
  /\ todo = [r \in Runners |-> {}]
  /\ runner = [r \in Runners |-> "off"]
  /\ ran = [m \in Names |-> IF m \in recorded THEN 1 ELSE 0]
  /\ faults = 0

(* Every variable has its type; a migration is recorded if it took effect. *)
MigrationsTypeOK ==
  /\ schema \subseteq FullSchema \cup Legacy \cup {"pending_credentials"}
  /\ recorded \subseteq Names
  /\ chats \in BOOLEAN /\ orphans \subseteq {"old", "new"}
  /\ todo \in [Runners -> SUBSET DOMAIN List]
  /\ runner \in [Runners -> {"off", "running", "up"}]
  /\ ran \in [Names -> Nat] /\ recorded = {m \in Names : ran[m] > 0}
  /\ faults \in 0 .. MaxFaults

-----------------------------------------------------------------------------
(* Mutant of Pending: what has a higher number than everything recorded. *)
PendingNumbered ==
  {i \in DOMAIN List : \A j \in DOMAIN List :
     List[j].name \in recorded => List[j].version < List[i].version}

(* By name; numbers only order the list.                                   *)
Pending == {i \in DOMAIN List : List[i].name \notin recorded}

OpenDatabase(r) ==
  /\ runner[r] = "off" /\ runner' = [runner EXCEPT ![r] = "running"]
  /\ todo' = [todo EXCEPT ![r] = Pending]
  /\ UNCHANGED <<schema, recorded, chats, orphans, ran, faults>>

(* The one r is to run next, in the order of the list.                     *)
Upcoming(r, i) ==
  /\ runner[r] = "running" /\ i \in todo[r]
  /\ \A j \in todo[r] : i <= j

(* up throws: something it needs is missing, or what it adds is there.     *)
Throws(m) == ~(m.needs \subseteq schema) \/ (m.strict /\ m.adds \cap schema # {})

(* foreign_key_check, against the snapshot from before.                    *)
Introduced(after) == after \ orphans

(* The recreation of messaging_groups keeps the rows, and with them their  *)
(* children; orphans stay what they are.                                   *)
Recreates(m) == m.name = "messaging-group-instance" /\ "instance" \notin schema

(* What the database refuses: a name twice, an error, a new violation.     *)
RolledBack(m) ==
  \/ Throws(m) \/ m.name \in recorded
  \/ Recreates(m) /\ Introduced(orphans) # {}

TakesEffect(m) ==
  /\ schema' = (schema \cup m.adds) \ m.drops
  /\ chats' = (chats \/ m.name = "initial-v2-schema")
  /\ ran' = [ran EXCEPT ![m.name] = @ + 1]
  /\ UNCHANGED orphans

(* Mutant of Run: the name is recorded after the transaction. *)
RunThenRecord(r) ==
  \E i \in DOMAIN List :
    /\ Upcoming(r, i) /\ ~RolledBack(List[i]) /\ TakesEffect(List[i])
    /\ \/ /\ recorded' = recorded \cup {List[i].name} /\ todo' = [todo EXCEPT ![r] = @ \ {i}]
          /\ UNCHANGED <<runner, faults>>
       \/ Fault /\ runner' = [runner EXCEPT ![r] = "off"] /\ UNCHANGED <<recorded, todo>>

(* One migration commits.                                                  *)
Run(r) ==
  \E i \in DOMAIN List :
    /\ Upcoming(r, i) /\ ~RolledBack(List[i]) /\ TakesEffect(List[i])
    /\ recorded' = recorded \cup {List[i].name}
    /\ todo' = [todo EXCEPT ![r] = @ \ {i}]
    /\ UNCHANGED <<runner, faults>>

(* One is rolled back, and the process with it ends.                       *)
Fails(r) ==
  /\ \E i \in DOMAIN List : Upcoming(r, i) /\ RolledBack(List[i])
  /\ runner' = [runner EXCEPT ![r] = "off"] /\ todo' = [todo EXCEPT ![r] = {}]
  /\ UNCHANGED <<schema, recorded, chats, orphans, ran, faults>>

Finish(r) ==
  /\ runner[r] = "running" /\ todo[r] = {}
  /\ runner' = [runner EXCEPT ![r] = "up"]
  /\ UNCHANGED <<schema, recorded, chats, orphans, todo, ran, faults>>

(* A process dies; a transaction it was in is gone.                        *)
RunnerDies(r) ==
  /\ Fault /\ runner[r] # "off"
  /\ runner' = [runner EXCEPT ![r] = "off"] /\ todo' = [todo EXCEPT ![r] = {}]
  /\ UNCHANGED <<schema, recorded, chats, orphans, ran>>

MigrationsNext ==
  \E r \in Runners : OpenDatabase(r) \/ Run(r) \/ Fails(r) \/ Finish(r) \/ RunnerDies(r)

MigrationsSpec == MigrationsInit /\ [][MigrationsNext]_migrationVars

(* Processes proceed, and are started again.                               *)
MigrationsFairness ==
  \A r \in Runners : WF_migrationVars(OpenDatabase(r) \/ Run(r) \/ Fails(r) \/ Finish(r))

MigrationsFairSpec == MigrationsSpec /\ MigrationsFairness

-----------------------------------------------------------------------------
(***************************************************************************)
(* Properties.                                                             *)
(***************************************************************************)

(* Whatever version a database comes from, wherever an earlier start of    *)
(* the program died and whoever migrates beside it: a process that is up   *)
(* finds the whole schema, with the rows that were there.                  *)
WholeSchema ==
  \A r \in Runners : runner[r] = "up" => schema = FullSchema /\ chats /\ "new" \notin orphans

(* No migration takes effect twice: wirings are not converted again.       *)
OnceEach == \A m \in Names : ran[m] <= 1

(* Every process that migrates comes up in the end, in spite of old        *)
(* orphans, failed attempts and crashes.                                   *)
MigratedInTheEnd == \A r \in Runners : runner[r] = "running" ~> runner[r] = "up"

(* Whoever migrates, and from whatever version: no migration is applied    *)
(* twice, and who has finished has the whole schema.                       *)
MigrationsSafe == MigrationsTypeOK /\ WholeSchema /\ OnceEach

=============================================================================
