------------------------------- MODULE Uninstall -------------------------------
(***************************************************************************)
(* The uninstaller (setup/uninstall): it takes an inventory of what this   *)
(* checkout has put on the machine, asks about each group of it, and only  *)
(* then removes what was chosen, one action after the other in a fixed     *)
(* order, while the host it stops may still be running.                    *)
(***************************************************************************)
EXTENDS Naturals, Sequences

CONSTANTS
  MaxTries, (* times the uninstaller is started (bound)                    *)
  MaxSlips, (* commands that fail, and kills of the uninstaller (bound)    *)
  MaxBoxes  (* containers at a time (bound)                                *)

ASSUME UninstallConstants == {MaxTries, MaxSlips, MaxBoxes} \subseteq Nat

VARIABLES
  copy,   (* this checkout's host, service and containers                  *)
  things, (* what else there is of it, by name                             *)
  vault,  (* agents in the OneCLI vault                                    *)
  kept,   (* the versions of .env kept as backups                          *)
  remover, (* the uninstaller process                                      *)
  tries,  (* times it was started                                          *)
  slips,  (* failures so far                                               *)
  told,   (* history: agents of unknown owner the user agreed to delete    *)
  owed,   (* history: agents chosen to go whose deletion was not tried     *)
  missed  (* history: actions of this run that failed without a word       *)

uninstallHistVars == <<told, owed, missed>>
uninstallVars == <<copy, things, vault, kept, remover, tries, slips, uninstallHistVars>>

(* data/ stands for logs/ too, and node_modules/ for dist/; "ids" is that  *)
(* the database in data/ can be read.                                      *)
AppData == {"data", ".env"}
AgentFiles == {"groups"}
Runtime == {"node_modules"}
Things == AppData \cup AgentFiles \cup Runtime \cup {"ids", "image"}

ServiceGroup == {"unit", "pid", "boxes", "image"}
DataGroup == AppData \cup Runtime

Ours == {"our agent"}
Theirs == {"their agent"}

(* buildRemovalPlan's order, and its groups in the order of asking.        *)
Order == <<"unit", "pid", "pkill", "boxes", "image", "our agent", "their agent",
           ".env", "data", "groups", "node_modules">>
Actions == {Order[i] : i \in DOMAIN Order}

Groups == <<"service", "data", "user", "mine", "orphans">>
GroupNames == {Groups[i] : i \in DOMAIN Groups}

(* x is the first of the set s in the order of list.                       *)
IsFirst(x, s, list) ==
  x \in s /\ \E i \in DOMAIN list : list[i] = x /\ \A j \in 1 .. i - 1 : list[j] \notin s

NoInventory == [found |-> {}, mine |-> {}, orphans |-> {}]
NoRemover == [at |-> "idle", inv |-> NoInventory, chosen |-> {}, plan |-> {}, notes |-> {}]

(* An installation whose service runs; with no service manager a script    *)
(* has started the host and left its process id.                           *)
UninstallInit ==
  /\ copy \in [unit : {"none", "launchd", "user", "system"}, loaded : BOOLEAN,
               host : {"up"}, boxes : {0}, pid : BOOLEAN]
  /\ copy.loaded = (copy.unit # "none") /\ copy.pid = (copy.unit = "none")
  /\ things = Things /\ vault = Ours \cup Theirs
  /\ kept = {"older"}
  /\ remover = NoRemover /\ tries = 0 /\ slips = 0 /\ told = {} /\ owed = {}
  /\ missed = {}

(* Every variable has its type; what is left of the plan was chosen.       *)
UninstallTypeOK ==
  /\ copy \in [unit : {"none", "launchd", "user", "system"}, loaded : BOOLEAN,
               host : {"up", "stopping", "down"}, boxes : 0 .. MaxBoxes, pid : BOOLEAN]
  /\ things \subseteq Things /\ vault \subseteq Ours \cup Theirs
  /\ kept \subseteq {"older", "current"}
  /\ remover \in [at : {"idle", "removing", "done", "cancelled"} \cup GroupNames,
                  inv : [found : SUBSET (Things \cup ServiceGroup),
                         mine : SUBSET Ours, orphans : SUBSET (Ours \cup Theirs)],
                  chosen : SUBSET Actions, plan : SUBSET Actions, notes : SUBSET Actions]
  /\ remover.plan \subseteq remover.chosen /\ remover.notes \subseteq remover.chosen
  /\ tries \in 0 .. MaxTries /\ slips \in 0 .. MaxSlips
  /\ told \subseteq Ours \cup Theirs /\ owed \subseteq Ours \cup Theirs
  /\ missed \subseteq Actions

Slip == slips < MaxSlips /\ slips' = slips + 1

-----------------------------------------------------------------------------
(* The host.                                                               *)

(* A container is spawned, into session directories made for it; one on    *)
(* its way when the host is told to stop still comes.                      *)
HostSpawns ==
  /\ copy.host # "down" /\ copy.boxes < MaxBoxes
  /\ copy' = [copy EXCEPT !.boxes = @ + 1]
  /\ things' = things \cup {"data"}
  /\ UNCHANGED <<vault, kept, remover, tries, slips, uninstallHistVars>>

HostExits ==
  /\ copy.host = "stopping"
  /\ copy' = [copy EXCEPT !.host = "down"]
  /\ UNCHANGED <<things, vault, kept, remover, tries, slips, uninstallHistVars>>

(* The service manager starts it again, so long as the job is loaded, and  *)
(* it opens its database and its log anew.                                 *)
HostRestarts ==
  /\ copy.host = "down" /\ copy.loaded /\ Runtime \subseteq things
  /\ copy' = [copy EXCEPT !.host = "up"]
  /\ things' = things \cup {"data", "ids"}
  /\ UNCHANGED <<vault, kept, remover, tries, slips, uninstallHistVars>>

-----------------------------------------------------------------------------
(* The inventory.                                                          *)

(* splitVaultAgents: without the ids of the agent groups every agent may   *)
(* be another copy's.                                                      *)
Mine(agents) == IF "ids" \in things THEN agents \cap Ours ELSE {}

(* scanInstall.  Without docker neither containers nor image are found,    *)
(* and without its command no agents.                                      *)
Inventory(docker, agents) ==
  [found |-> (things \ {"ids", "image"})
             \cup (IF copy.unit # "none" THEN {"unit"} ELSE {})
             \cup (IF copy.pid THEN {"pid"} ELSE {})
             \cup (IF docker /\ copy.boxes > 0 THEN {"boxes"} ELSE {})
             \cup (IF docker THEN things \cap {"image"} ELSE {}),
   mine |-> Mine(agents), orphans |-> agents \ Mine(agents)]

(* The groups there is something to ask about.                             *)
Asked(inv) ==
  {g \in GroupNames :
     CASE g = "service" -> inv.found \cap ServiceGroup # {}
       [] g = "data" -> inv.found \cap DataGroup # {}
       [] g = "user" -> inv.found \cap AgentFiles # {}
       [] g = "mine" -> inv.mine # {}
       [] OTHER -> inv.orphans # {}}

(* buildRemovalPlan: what a yes to group g has removed.                    *)
Members(inv, g) ==
  CASE g = "service" -> (inv.found \cap ServiceGroup) \cup {"pkill", "boxes"}
    [] g = "data" -> inv.found \cap DataGroup
    [] g = "user" -> inv.found \cap AgentFiles
    [] g = "mine" -> inv.mine
    [] OTHER -> inv.orphans

(* --yes agrees to everything but agents that may be another copy's        *)
(* (resolveOnecliDeletions).                                               *)
AllAgreed(inv) ==
  UNION {Members(inv, g) : g \in Asked(inv) \ {"orphans"}}

-----------------------------------------------------------------------------
(* The uninstaller.                                                        *)

(* The remover r has every answer: it removes what was chosen, if anything. *)
Decided(r) ==
  IF r.chosen = {} THEN [r EXCEPT !.at = "done"]
  ELSE [r EXCEPT !.at = "removing", !.plan = r.chosen, !.inv = NoInventory]

(* The group asked about after those in `past`, or the removal.            *)
NextGroup(r, past) ==
  LET rest == Asked(r.inv) \ past
  IN IF rest = {} THEN Decided(r) ELSE [r EXCEPT !.at = CHOOSE g \in rest : IsFirst(g, rest, Groups)]

(* Of the inventory's own agents, those s is about to delete.              *)
Owing(inv, s) == IF s.at = "removing" THEN s.chosen \cap inv.mine ELSE {}

(* It is started, by hand or from the wizard; it runs out of node_modules. *)
Begin ==
  /\ remover.at = "idle" /\ tries < MaxTries /\ "node_modules" \in things
  /\ tries' = tries + 1
  /\ \E docker \in BOOLEAN, agents \in {vault, {}}, yes \in BOOLEAN :
       LET inv == Inventory(docker, agents)
           r == [NoRemover EXCEPT !.inv = inv]
           s == IF yes THEN Decided([r EXCEPT !.chosen = AllAgreed(inv)]) ELSE NextGroup(r, {})
       IN /\ remover' = s
          /\ owed' = Owing(r.inv, s) /\ missed' = {}
          /\ IF docker /\ agents = vault THEN UNCHANGED slips ELSE Slip
  /\ UNCHANGED <<copy, things, vault, kept, told>>

(* The groups up to g.                                                     *)
Before(g) ==
  {h \in GroupNames : \E i, j \in DOMAIN Groups : j <= i /\ Groups[j] = h /\ Groups[i] = g}

(* confirmGroup, decideOnecli: the default is no.                          *)
Answer(g) ==
  /\ remover.at = g
  /\ \E yes \in BOOLEAN :
       LET r == [remover EXCEPT !.chosen = IF yes THEN @ \cup Members(remover.inv, g) ELSE @]
           s == NextGroup(r, Before(g))
       IN /\ remover' = s
          /\ owed' = Owing(r.inv, s)
          /\ told' = IF yes /\ g = "orphans" THEN told \cup remover.inv.orphans ELSE told
  /\ UNCHANGED <<copy, things, vault, kept, tries, slips, missed>>

(* answered: leaving at any question cancels the whole.                    *)
Cancel ==
  /\ remover.at \in GroupNames
  /\ remover' = [remover EXCEPT !.at = "cancelled"]
  /\ UNCHANGED <<copy, things, vault, kept, tries, slips, uninstallHistVars>>

Closes ==
  /\ remover.at \in {"done", "cancelled"}
  /\ remover' = NoRemover
  /\ UNCHANGED <<copy, things, vault, kept, tries, slips, uninstallHistVars>>

(* It is killed between two actions.                                       *)
RemoverKilled ==
  /\ remover.at = "removing" /\ Slip
  /\ remover' = NoRemover
  /\ UNCHANGED <<copy, things, vault, kept, tries, uninstallHistVars>>

-----------------------------------------------------------------------------
(* executePlan.                                                            *)

Executing(a) == remover.at = "removing" /\ IsFirst(a, remover.plan, Order)

Past(r, a) == [r EXCEPT !.plan = @ \ {a}, !.at = IF r.plan = {a} THEN "done" ELSE @]

(* The action is through, or was nothing to do.                            *)
Through(a) == remover' = Past(remover, a) /\ UNCHANGED missed

(* A failure becomes a note, and the rest goes on.                         *)
Noted(a) == remover' = [Past(remover, a) EXCEPT !.notes = @ \cup {a}] /\ UNCHANGED missed

(* The command's status is not looked at, and the rest goes on.            *)
Missed(a) == remover' = Past(remover, a) /\ missed' = missed \cup {a} /\ Slip

(* The job is taken from the manager and its file removed, whether or not  *)
(* the manager obeyed; systemd waits for the host to end.  A system unit   *)
(* is left in place unless root removes it.                                *)
UnloadService ==
  /\ Executing("unit")
  /\ \/ copy.unit = "system" /\ Noted("unit") /\ UNCHANGED <<copy, slips>>
     \/ /\ Through("unit")
        /\ copy' = [copy EXCEPT !.unit = "none", !.loaded = FALSE,
                      !.host = IF copy.unit = "launchd" /\ @ = "up" THEN "stopping"
                               ELSE IF copy.unit = "launchd" THEN @ ELSE "down"]
        /\ UNCHANGED slips
     \/ Missed("unit") /\ copy' = [copy EXCEPT !.unit = "none"]
  /\ UNCHANGED <<things, vault, kept, tries, told, owed>>

(* The process of the pid file, and any whose command line names this      *)
(* checkout's host, is told to stop.  A file that cannot be read, and a    *)
(* pkill that is not there or matches nothing, leave it up.                *)
StopHost(a) ==
  /\ a \in {"pid", "pkill"} /\ Executing(a)
  /\ \/ /\ Through(a) /\ UNCHANGED slips
        /\ copy' = [copy EXCEPT !.host = IF @ = "up" THEN "stopping" ELSE @]
     \/ Missed(a) /\ UNCHANGED copy
  /\ UNCHANGED <<things, vault, kept, tries, told, owed>>

(* The containers are listed afresh; that they are not listed is noted,    *)
(* that one is not removed is not.                                         *)
RemoveContainers ==
  /\ Executing("boxes")
  /\ \/ Through("boxes") /\ copy' = [copy EXCEPT !.boxes = 0] /\ UNCHANGED slips
     \/ Noted("boxes") /\ Slip /\ UNCHANGED copy
     \/ copy.boxes > 0 /\ Missed("boxes") /\ UNCHANGED copy
  /\ UNCHANGED <<things, vault, kept, tries, told, owed>>

(* An image in use stays.                                                  *)
RemoveImage ==
  /\ Executing("image")
  /\ \/ Through("image") /\ copy.boxes = 0 /\ things' = things \ {"image"} /\ UNCHANGED slips
     \/ Noted("image") /\ UNCHANGED things /\ IF copy.boxes = 0 THEN Slip ELSE UNCHANGED slips
  /\ UNCHANGED <<copy, vault, kept, tries, told, owed>>

(* A refused deletion counts as an agent gone already.                     *)
DeleteAgent(a) ==
  /\ a \in Ours \cup Theirs /\ Executing(a)
  /\ owed' = owed \ {a}
  /\ \/ Through(a) /\ vault' = vault \ {a} /\ UNCHANGED slips
     \/ Noted(a) /\ Slip /\ UNCHANGED vault
     \/ Missed(a) /\ UNCHANGED vault
  /\ UNCHANGED <<copy, things, kept, tries, told>>

(* Mutant of BackupEnv: the keys go although the backup failed. *)
BackupEnvAnyway ==
  /\ Executing(".env")
  /\ \/ Through(".env") /\ kept' = kept \cup {"current"} /\ things' = things \ {".env"} /\ UNCHANGED slips
     \/ Noted(".env") /\ Slip /\ things' = things \ {".env"} /\ UNCHANGED kept
  /\ UNCHANGED <<copy, vault, tries, told, owed>>

(* backupEnv: .env is copied beside the backups there are, then removed;   *)
(* either may fail, and a failed copy keeps the removal from happening.    *)
BackupEnv ==
  /\ Executing(".env")
  /\ \/ Through(".env") /\ kept' = kept \cup {"current"} /\ things' = things \ {".env"} /\ UNCHANGED slips
     \/ Noted(".env") /\ Slip /\ kept' \in {kept, kept \cup {"current"}} /\ UNCHANGED things
  /\ UNCHANGED <<copy, vault, tries, told, owed>>

(* With data/ goes the database.                                           *)
DeletePath(a) ==
  /\ a \in Things \ {".env", "image", "ids"} /\ Executing(a)
  /\ \/ Through(a) /\ UNCHANGED slips
        /\ things' = things \ (IF a = "data" THEN {"data", "ids"} ELSE {a})
     \/ Noted(a) /\ Slip /\ UNCHANGED things
  /\ UNCHANGED <<copy, vault, kept, tries, told, owed>>

-----------------------------------------------------------------------------
RemoverStep ==
  \/ \E g \in GroupNames : Answer(g)
  \/ Closes
  \/ UnloadService \/ RemoveContainers \/ RemoveImage \/ BackupEnv
  \/ \E a \in Actions : StopHost(a) \/ DeleteAgent(a) \/ DeletePath(a)

UninstallNext ==
  \/ RemoverStep \/ Begin \/ Cancel \/ RemoverKilled
  \/ HostSpawns \/ HostExits \/ HostRestarts

(* The user answers, and an action that runs ends.                         *)
UninstallFairness == WF_uninstallVars(RemoverStep)

UninstallSpec ==
  UninstallInit /\ [][UninstallNext]_uninstallVars /\ UninstallFairness

-----------------------------------------------------------------------------
(* The keys of .env are never lost: whatever fails or is killed, they are  *)
(* in .env or in a backup (plan.ts, remove.ts).                            *)
KeysKept == ".env" \in things \/ "current" \in kept

(* A backup, once there, stays.                                            *)
BackupsStay == [][kept \subseteq kept']_uninstallVars

(* An agent that may be another copy's goes only when its user said so,    *)
(* under --yes too, and also when it is this copy's in truth but the       *)
(* database that would tell is gone.                                       *)
OthersStay == Theirs \subseteq vault \/ Theirs \subseteq told

(* Until the last question is answered nothing found has been touched,     *)
(* which is what leaving at any of them promises.                          *)
AskingTouchesNothing ==
  remover.at \in GroupNames \cup {"cancelled"}
    => remover.inv.found \cap Things \subseteq things

(* Files go only after the host that writes them was told to stop, when    *)
(* the service was to go with them, its manager has obeyed, and pkill has  *)
(* found the host.                                                         *)
HostStopsFirst ==
  [][remover.at = "removing" /\ "pkill" \in remover.chosen \ missed /\ ~copy.loaded
       /\ (AppData \cap things) \ things' # {}
     => copy.host # "up"]_uninstallVars

(* What no step of a removal does: touch a backup, or remove files under a *)
(* host that runs.                                                         *)
RemoverSteps == BackupsStay /\ HostStopsFirst

(* While an agent chosen to go has not been tried, the database by which a *)
(* later run would know it for this copy's is still there.                 *)
OwedIsKnown == owed \cap Ours # {} => "ids" \in things

(* What the action a was to remove is still there.                         *)
Remains(a) == a \in things \/ a \in vault \/ (a = "unit" /\ (copy.unit # "none" \/ copy.loaded))

(* At the end what is left of all that was chosen was noted, or its        *)
(* command failed without a word: the service's job or an agent, never a   *)
(* file or the image.  This is but for what a host that still runs puts    *)
(* back (data/ and containers).                                            *)
LeftIsTold ==
  remover.at = "done"
    => \A a \in remover.chosen \ {"data", "pid", "pkill", "boxes"} :
         /\ Remains(a) => a \in remover.notes \cup missed
         /\ a \in missed => a \notin Things

(* "a failure becomes a summary note and execution continues" (remove.ts): *)
(* nothing that was chosen stays without one.                              *)
FailuresAreNoted ==
  remover.at = "done"
    => \A a \in remover.chosen \ {"data", "pid", "pkill", "boxes"} :
         Remains(a) => a \in remover.notes

(* The uninstaller comes to an end.                                        *)
RemoverEnds == remover.at # "idle" ~> remover.at = "idle"

(* "re-run the uninstaller to retry" (remove.ts): what failed can be       *)
(* retried.                                                                *)
RetryRemains == remover.at = "done" /\ remover.notes # {} => "node_modules" \in things

(* What a removal leaves behind, wherever it is cut off.                   *)
RemovalSafe ==
  /\ UninstallTypeOK
  /\ KeysKept /\ OthersStay /\ AskingTouchesNothing /\ OwedIsKnown /\ LeftIsTold

=============================================================================
