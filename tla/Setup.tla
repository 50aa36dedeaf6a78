-------------------------------- MODULE Setup --------------------------------
(***************************************************************************)
(* The setup wizard (setup/auto.ts): a driver that runs one step after the *)
(* other, each in a child process, and replaces itself by a fresh process  *)
(* with a list of steps to skip, under `sg docker` after the container     *)
(* step and after a failure whose fix its user has applied.  The agent     *)
(* runtime picked travels with the environment of those processes.         *)
(***************************************************************************)
EXTENDS Naturals, Sequences

CONSTANTS
  Runtimes,    (* agent runtimes on offer, "claude" among them             *)
  MaxLaunches, (* times the user starts the wizard (bound)                 *)
  MaxTroubles  (* steps that fail, and kills (bound)                       *)

ASSUME SetupConstants ==
  "claude" \in Runtimes /\ MaxLaunches \in Nat /\ MaxTroubles \in Nat

VARIABLES
  wizard,   (* the driver process                                          *)
  machine,  (* what the steps leave on the machine                         *)
  agents,   (* the agent groups they create                                *)
  launches, (* times the wizard was started                                *)
  troubles, (* failures so far                                             *)
  wish,     (* history: the runtime picked last since the last launch      *)
  strayed   (* history: something kept the test agent from being removed   *)

setupHistVars == <<wish, strayed>>
setupVars == <<wizard, machine, agents, launches, troubles, setupHistVars>>

Steps == <<"environment", "container", "onecli", "auth", "mounts", "service",
           "cli-agent", "timezone", "channel", "verify">>
StepNames == {Steps[i] : i \in DOMAIN Steps}

(* What a step that fails is called, and the step it belongs to.           *)
Failures ==
  [e \in StepNames \cup {"add-runtime", "create-terminal-agent", "init-first-agent"} |->
     CASE e = "add-runtime" -> "auth"
       [] e = "create-terminal-agent" -> "cli-agent"
       [] e = "init-first-agent" -> "channel"
       [] OTHER -> e]

(* Where the driver is between the steps proper.                           *)
Places == StepNames \cup {"sign-in", "ping", "cleanup", "next", "timezone-save", "end"}

(* getServiceManager.                                                      *)
Managers == {"launchd", "systemd", "none"}

AgentNames == {"test", "terminal", "first"}
NoAgent == [made |-> FALSE, wired |-> FALSE, runtime |-> "claude"]
Idle == [at |-> "idle", skip |-> {}, done |-> {}, sg |-> FALSE,
         pick |-> "claude", failed |-> "none"]

SetupInit ==
  /\ wizard = Idle
  /\ machine \in [docker : {"down", "ok"}, image : {FALSE},
                  vault : {"none", "there"}, secret : {FALSE}, rules : {FALSE},
                  manager : Managers, service : {"absent"}, payload : {FALSE}]
  /\ agents = [n \in AgentNames |-> NoAgent]
  /\ launches = 0 /\ troubles = 0 /\ wish = "claude" /\ strayed = FALSE

(* Every variable has its type; what is completed is a set of step names.  *)
SetupTypeOK ==
  /\ wizard \in [at : Places \cup {"idle"}, skip : SUBSET StepNames,
                 done : SUBSET StepNames, sg : BOOLEAN, pick : Runtimes,
                 failed : DOMAIN Failures \cup {"none"}]
  /\ machine \in [docker : {"down", "denied", "ok"}, image : BOOLEAN,
                  vault : {"none", "there", "known"}, secret : BOOLEAN, rules : BOOLEAN,
                  manager : Managers, service : {"absent", "installed", "running"},
                  payload : BOOLEAN]
  /\ agents \in [AgentNames -> [made : BOOLEAN, wired : BOOLEAN, runtime : Runtimes]]
  /\ launches \in 0 .. MaxLaunches /\ troubles \in 0 .. MaxTroubles
  /\ wish \in Runtimes /\ strayed \in BOOLEAN

-----------------------------------------------------------------------------
(* The driver.                                                             *)

(* detectRegisteredGroups.                                                 *)
Registered(a) == \E n \in AgentNames : a[n].wired

(* The steps main passes over: those of NANOCLAW_SKIP, and the test agent  *)
(* where a group is registered already.                                    *)
Passed(w, a) == w.skip \cup (IF Registered(a) THEN {"cli-agent"} ELSE {})

(* The driver w goes on with step i, or the first after it not passed over. *)
From(w, i, a) ==
  LET rest == {j \in DOMAIN Steps : j >= i /\ Steps[j] \notin Passed(w, a)}
  IN [w EXCEPT !.at = IF rest = {} THEN "end"
                      ELSE Steps[CHOOSE j \in rest : \A k \in rest : j <= k]]

Number(e) == CHOOSE i \in DOMAIN Steps : Steps[i] = e

At(e) == wizard.at = e /\ wizard.failed = "none"

Trouble == troubles < MaxTroubles /\ troubles' = troubles + 1

(* Step e has succeeded, or had nothing to do: the log counts it.          *)
Completed(w, e) == [w EXCEPT !.done = @ \cup {e}]

(* On to the step after e.                                                 *)
Onward(w, e) == wizard' = From(w, Number(e) + 1, agents)

(* Mutant of Successor: every step begun is skipped. *)
SuccessorEager(w) ==
  From([w EXCEPT !.skip = @ \cup w.done \cup ({w.failed} \cap StepNames),
                 !.done = {}, !.failed = "none"], 1, agents)

(* The process that takes over from w: it inherits the environment and is  *)
(* told what to skip; what w had completed it knows of no other way.       *)
Successor(w) ==
  From([w EXCEPT !.skip = @ \cup w.done, !.done = {}, !.failed = "none"], 1, agents)

(* fail: the abort is logged and Claude offers to help.                    *)
Breaks(e) ==
  /\ Trouble
  /\ wizard' = [wizard EXCEPT !.failed = e]

(* The user starts the wizard and keeps what is installed.                 *)
Launch ==
  /\ wizard.at = "idle" /\ launches < MaxLaunches
  /\ launches' = launches + 1
  /\ wizard' = From(Idle, 1, agents)
  /\ wish' = "claude"
  /\ UNCHANGED <<machine, agents, troubles, strayed>>

(* fail: the user ran the suggested fix and agrees to try again.           *)
Retry ==
  /\ wizard.failed # "none"
  /\ wizard' = Successor(wizard)
  /\ UNCHANGED <<machine, agents, launches, troubles, setupHistVars>>

(* fail: no fix, or no further try.                                        *)
Abort ==
  /\ wizard.failed # "none"
  /\ wizard' = Idle
  /\ strayed' = (strayed \/ agents["test"].made)
  /\ UNCHANGED <<machine, agents, launches, troubles, wish>>

(* ensureAnswer: the user leaves at a prompt, or the terminal is closed.   *)
Leave ==
  /\ wizard.at \notin {"idle", "end"} /\ Trouble
  /\ wizard' = Idle
  /\ strayed' = (strayed \/ agents["test"].made)
  /\ UNCHANGED <<machine, agents, launches, wish>>

(* The closing words.                                                      *)
End ==
  /\ At("end")
  /\ wizard' = Idle
  /\ UNCHANGED <<machine, agents, launches, troubles, setupHistVars>>

-----------------------------------------------------------------------------
(* The machine.                                                            *)

Environment ==
  /\ At("environment")
  /\ \/ Onward(Completed(wizard, "environment"), "environment") /\ UNCHANGED troubles
     \/ Breaks("environment")
  /\ UNCHANGED <<machine, agents, launches, setupHistVars>>

(* Mutant of SgNeeded: a resumed wizard is taken to have the group. *)
SgNeededOnce(w, m) == m.docker = "denied" /\ w.skip = {}

(* maybeReexecUnderSg: the daemon is up and this process lacks the group.  *)
SgNeeded(w, m) == m.docker = "denied" /\ ~w.sg

(* What becomes of docker's socket when the daemon is installed or started: *)
(* on a Linux the login shell may lack its group.                          *)
DockerUp(m) ==
  IF m.docker # "down" THEN {m.docker}
  ELSE IF m.manager = "launchd" THEN {"ok"} ELSE {"denied", "ok"}

(* The image is built and tried, under `sg` where the group is lacking.    *)
Container ==
  /\ At("container")
  /\ \E d \in DockerUp(machine) :
       LET m == [machine EXCEPT !.docker = d, !.image = TRUE]
           w == Completed(wizard, "container")
       IN /\ machine' = m
          /\ IF SgNeeded(wizard, m)
             THEN wizard' = Successor([w EXCEPT !.sg = TRUE])
             ELSE Onward(w, "container")
  /\ UNCHANGED <<agents, launches, troubles, setupHistVars>>

(* Docker is not to be had, or the build or its test fails.                *)
ContainerFails ==
  /\ At("container") /\ Breaks("container")
  /\ \E d \in {machine.docker} \cup DockerUp(machine) : machine' = [machine EXCEPT !.docker = d]
  /\ UNCHANGED <<agents, launches, setupHistVars>>

(* The vault's address is written to .env, whether or not it answers.      *)
VaultKnown ==
  /\ Onward(Completed(wizard, "onecli"), "onecli")
  /\ machine' = [machine EXCEPT !.vault = "known"]
  /\ UNCHANGED <<agents, launches, troubles, setupHistVars>>

(* The vault of another machine: only its command is installed.            *)
OnecliRemote == At("onecli") /\ VaultKnown

(* detectExistingOnecli.                                                   *)
VaultFound == machine.vault # "none"

(* The user wants the one found used as it is.                             *)
OnecliReused == At("onecli") /\ VaultFound /\ VaultKnown

(* The gateway and its command are installed, over what is there.          *)
OnecliFresh == At("onecli") /\ VaultKnown

(* What an installer that failed may have left: nothing, or a vault nobody *)
(* has noted.                                                              *)
VaultLeft == IF machine.vault = "known" THEN {"known"} ELSE {machine.vault, "there"}

(* The vault was unreachable, its installer failed, or its command was not *)
(* found after it had gone well.                                           *)
OnecliFails ==
  /\ At("onecli") /\ Breaks("onecli")
  /\ \E v \in VaultLeft : machine' = [machine EXCEPT !.vault = v]
  /\ UNCHANGED <<agents, launches, setupHistVars>>

(* setPickedProvider.                                                      *)
Picked(w, r) == [w EXCEPT !.pick = r]

(* The user picks a runtime; one that is not wired yet is installed first. *)
PickRuntime ==
  /\ At("auth")
  /\ \E r \in Runtimes :
       LET w == Picked(wizard, r)
       IN /\ wish' = r
          /\ \/ /\ wizard' = [w EXCEPT !.at = "sign-in"]
                /\ machine' = [machine EXCEPT !.payload = @ \/ r # "claude"]
                /\ UNCHANGED troubles
             \/ /\ r # "claude" /\ ~machine.payload
                /\ Trouble
                /\ wizard' = [w EXCEPT !.failed = "add-runtime"]
                /\ UNCHANGED machine
  /\ UNCHANGED <<agents, launches, strayed>>

SigningIn(r) == At("sign-in") /\ (wizard.pick = "claude") = (r = "claude")

(* The account is connected; counted tells whether the log has the step as *)
(* a success.                                                              *)
Connected(counted) ==
  /\ Onward(IF counted THEN Completed(wizard, "auth") ELSE wizard, "auth")
  /\ machine' = [machine EXCEPT !.secret = TRUE]
  /\ UNCHANGED <<agents, launches, troubles, setupHistVars>>

(* anthropicSecretExists: the vault has a secret.                          *)
AuthFound == SigningIn("claude") /\ machine.secret /\ Connected(TRUE)

(* The subscription's sign-in is logged as interactive.                    *)
SignIn == SigningIn("claude") /\ ~machine.secret /\ Connected(FALSE)

(* A token or a key is pasted and stored in the vault.                     *)
PasteAuth == SigningIn("claude") /\ ~machine.secret /\ Connected(TRUE)

(* An endpoint of the user's own was named at the start.                   *)
CustomAuth == SigningIn("claude") /\ ~machine.secret /\ Connected(TRUE)

(* A payload signs in its own way.                                         *)
PayloadAuth == SigningIn("other") /\ \E counted \in BOOLEAN : Connected(counted)

(* The user will connect later.                                            *)
AuthSkipped ==
  /\ SigningIn("claude") /\ ~machine.secret
  /\ Onward(Completed(wizard, "auth"), "auth")
  /\ UNCHANGED <<machine, agents, launches, troubles, setupHistVars>>

(* The sign-in, or the vault's storing of what was pasted, fails.          *)
AuthFails ==
  /\ At("sign-in") /\ (wizard.pick = "claude" => ~machine.secret) /\ Breaks("auth")
  /\ UNCHANGED <<machine, agents, launches, setupHistVars>>

(* The access rules are written, or were there.                            *)
Mounts ==
  /\ At("mounts")
  /\ \/ /\ Onward(Completed(wizard, "mounts"), "mounts")
        /\ machine' = [machine EXCEPT !.rules = TRUE]
        /\ UNCHANGED troubles
     \/ Breaks("mounts") /\ UNCHANGED machine
  /\ UNCHANGED <<agents, launches, setupHistVars>>

(* The service step succeeds once it has written what starts the service,  *)
(* whether or not that came up.                                            *)
Serviced(state) ==
  /\ Onward(Completed(wizard, "service"), "service")
  /\ machine' = [machine EXCEPT !.service = state]
  /\ UNCHANGED <<agents, launches, setupHistVars>>

(* setupLaunchd: the plist is written, unloaded and loaded.                *)
Launchd ==
  /\ At("service") /\ machine.manager = "launchd"
  /\ \/ Serviced("running") /\ UNCHANGED troubles
     \/ Serviced("installed") /\ Trouble

(* setupSystemd: the user's manager may have started before docker's group *)
(* was granted, which an access list on the socket works around.           *)
Systemd ==
  /\ At("service") /\ machine.manager = "systemd"
  /\ \/ Serviced("running") /\ UNCHANGED troubles
     \/ Serviced("installed") /\ Trouble

(* setupNohupFallback: a wrapper is written, which nobody runs yet; systemd *)
(* without a session of the user's ends up here too.                       *)
Nohup ==
  /\ At("service") /\ machine.manager # "launchd"
  /\ Serviced(IF machine.service = "absent" THEN "installed" ELSE machine.service)
  /\ UNCHANGED troubles

(* The build fails.                                                        *)
ServiceFails ==
  /\ At("service") /\ Breaks("service")
  /\ UNCHANGED <<machine, agents, launches, setupHistVars>>

(* The user runs the wrapper, or the service, by hand.                     *)
StartByHand ==
  /\ wizard.at = "idle" /\ machine.service = "installed"
  /\ machine' = [machine EXCEPT !.service = "running"]
  /\ UNCHANGED <<wizard, agents, launches, troubles, setupHistVars>>

-----------------------------------------------------------------------------
(* The agents.                                                             *)

(* init-cli-agent and init-first-agent: the group is reused or created,    *)
(* gets the runtime picked unless that is the default, and is wired.       *)
Created(n) == [made |-> TRUE, wired |-> TRUE,
               runtime |-> IF wizard.pick # "claude" THEN wizard.pick ELSE agents[n].runtime]

(* Either script may end after creating the group and before wiring it.    *)
HalfMade(n) == {agents[n], [Created(n) EXCEPT !.wired = agents[n].wired]}

CliAgent ==
  /\ At("cli-agent")
  /\ \/ /\ agents' = [agents EXCEPT !["test"] = Created("test")]
        /\ wizard' = [Completed(wizard, "cli-agent") EXCEPT !.at = "ping"]
        /\ UNCHANGED troubles
     \/ /\ Breaks("cli-agent")
        /\ \E a \in HalfMade("test") : agents' = [agents EXCEPT !["test"] = a]
  /\ UNCHANGED <<machine, launches, setupHistVars>>

(* pingCliAgent: a reply within 30 seconds takes a service that runs and   *)
(* an account.                                                             *)
Reachable == machine.service = "running" /\ machine.secret

(* confirmAssistantResponds.                                               *)
Replies ==
  /\ At("ping") /\ Reachable
  /\ wizard' = [wizard EXCEPT !.at = "cleanup"]
  /\ UNCHANGED <<machine, agents, launches, troubles, setupHistVars>>

(* No reply: a note, an offer to help, and the wizard goes on.             *)
NoReply ==
  /\ At("ping")
  /\ IF Reachable THEN Trouble ELSE UNCHANGED troubles
  /\ Onward(wizard, "cli-agent")
  /\ strayed' = TRUE
  /\ UNCHANGED <<machine, agents, launches, wish>>

(* delete-cli-agent removes the test agent; its failure is only told.      *)
Cleanup ==
  /\ At("cleanup")
  /\ wizard' = [wizard EXCEPT !.at = "next"]
  /\ \/ /\ agents' = [agents EXCEPT !["test"] = NoAgent]
        /\ UNCHANGED <<troubles, strayed>>
     \/ Trouble /\ strayed' = TRUE /\ UNCHANGED agents
  /\ UNCHANGED <<machine, launches, wish>>

(* The user goes on, or first chats with an agent made for the terminal.   *)
WhatNext ==
  /\ At("next")
  /\ \/ Onward(wizard, "cli-agent") /\ UNCHANGED <<agents, troubles>>
     \/ /\ agents' = [agents EXCEPT !["terminal"] = Created("terminal")]
        /\ Onward(wizard, "cli-agent") /\ UNCHANGED troubles
     \/ /\ Breaks("create-terminal-agent")
        /\ \E a \in HalfMade("terminal") : agents' = [agents EXCEPT !["terminal"] = a]
  /\ UNCHANGED <<machine, launches, setupHistVars>>

(* The zone is detected and stored, which completes the step; a zone the   *)
(* user names instead, or for want of one, is stored by a second run.      *)
Timezone ==
  /\ At("timezone")
  /\ \/ \E detected \in BOOLEAN :
          LET w == IF detected THEN Completed(wizard, "timezone") ELSE wizard
          IN \/ Onward(w, "timezone")
             \/ wizard' = [w EXCEPT !.at = "timezone-save"]
        /\ UNCHANGED troubles
     \/ Breaks("timezone")
  /\ UNCHANGED <<machine, agents, launches, setupHistVars>>

TimezoneSave ==
  /\ At("timezone-save")
  /\ \/ Onward(Completed(wizard, "timezone"), "timezone") /\ UNCHANGED troubles
     \/ Breaks("timezone")
  /\ UNCHANGED <<machine, agents, launches, setupHistVars>>

(* The channel chooser: none for now, or one whose flow wires the first    *)
(* agent and has the service greet its owner, which takes a service that   *)
(* runs.                                                                   *)
Channel ==
  /\ At("channel")
  /\ \/ Onward(wizard, "channel") /\ UNCHANGED <<agents, troubles>>
     \/ /\ machine.service = "running"
        /\ agents' = [agents EXCEPT !["first"] = Created("first")]
        /\ Onward(wizard, "channel") /\ UNCHANGED troubles
     \/ /\ Breaks("init-first-agent")
        /\ \E a \in HalfMade("first") \cup {Created("first")} :
             agents' = [agents EXCEPT !["first"] = a]
  /\ UNCHANGED <<machine, launches, setupHistVars>>

(* The service is found running, from this checkout.                       *)
Serving == machine.service = "running"

(* determineVerifyStatus.                                                  *)
Healthy == Serving /\ machine.vault = "known" /\ Registered(agents)

(* The closing check: what is left is told, and the wizard ends.           *)
Verify ==
  /\ At("verify")
  /\ wizard' = IF Healthy THEN [Completed(wizard, "verify") EXCEPT !.at = "end"] ELSE Idle
  /\ UNCHANGED <<machine, agents, launches, troubles, setupHistVars>>

-----------------------------------------------------------------------------
WizardStep ==
  \/ Retry \/ Abort \/ End
  \/ Environment \/ Container \/ ContainerFails
  \/ OnecliRemote \/ OnecliReused \/ OnecliFresh \/ OnecliFails
  \/ PickRuntime \/ AuthFound \/ SignIn \/ PasteAuth \/ CustomAuth \/ PayloadAuth
  \/ AuthSkipped \/ AuthFails
  \/ Mounts \/ Launchd \/ Systemd \/ Nohup \/ ServiceFails
  \/ CliAgent \/ Replies \/ NoReply \/ Cleanup \/ WhatNext
  \/ Timezone \/ TimezoneSave \/ Channel \/ Verify

SetupNext == WizardStep \/ Launch \/ Leave \/ StartByHand

(* A wizard that runs goes on, and its user answers.                       *)
SetupFairness == WF_setupVars(WizardStep)

SetupSpec == SetupInit /\ [][SetupNext]_setupVars /\ SetupFairness

-----------------------------------------------------------------------------
(* Every process past the container step reaches docker's socket, by the   *)
(* login shell's groups or under `sg` (maybeReexecUnderSg): the vault and  *)
(* the service are installed with it.                                      *)
DockerReached ==
  wizard.at \in {"onecli", "auth", "sign-in", "mounts", "service", "ping", "verify", "end"}
    => machine.docker = "ok" \/ wizard.sg

(* "You're ready!" is said only of an installation that has its image, its *)
(* vault, its access rules, its service and an agent, however often the    *)
(* wizard failed, was left, resumed and skipped steps on the way there.    *)
ReadyIsInstalled ==
  wizard.at = "end" =>
    machine.image /\ machine.vault = "known" /\ machine.rules
      /\ machine.service = "running" /\ Registered(agents)

(* The test agent outlives a wizard that says "ready" only when no reply   *)
(* came, its removal failed, or an earlier wizard was left with it.        *)
TestAgentGoes == wizard.at = "end" /\ agents["test"].made => strayed

(* A group that becomes wired has the runtime its user picked last, also   *)
(* in a process that skips the question (picked-provider.ts): unless an    *)
(* earlier attempt left the group half-made.                               *)
PickArrives ==
  [][\A n \in AgentNames :
       agents'[n].wired /\ ~agents[n].wired /\ ~agents[n].made
         => agents'[n].runtime = wish]_setupVars

(* A retry resumes at the step that failed, or before it at one the log    *)
(* does not count: the interactive sign-in and a zone not detected.  (It   *)
(* overshoots where the failure is in a second part of a step: the zone    *)
(* named by the user, the terminal's agent.)                               *)
RetryResumes ==
  [][\A e \in DOMAIN Failures \ {"timezone", "create-terminal-agent"} :
       wizard.failed = e /\ wizard'.failed = "none" /\ wizard'.at # "idle"
         => \/ wizard'.at = Failures[e]
            \/ wizard'.at \in {"auth", "timezone"}
               /\ Number(wizard'.at) < Number(Failures[e])]_setupVars

(* Every wizard ends: no chain of retries and resumptions goes in circles. *)
WizardEnds == wizard.at # "idle" ~> wizard.at = "idle"

(* What the wizard leaves behind, whatever fails and is tried again.       *)
SetupSafe == SetupTypeOK /\ DockerReached /\ ReadyIsInstalled /\ TestAgentGoes

=============================================================================
