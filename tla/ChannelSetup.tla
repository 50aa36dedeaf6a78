----------------------------- MODULE ChannelSetup -----------------------------
(***************************************************************************)
(* The wizard's channel flows (setup/channels): each asks, checks what it  *)
(* was told, runs the channel's install script, links the account where    *)
(* there is one, and wires the first agent.  A flow can be gone back from, *)
(* fail, be left, and be entered again, alone or after another's.          *)
(***************************************************************************)
EXTENDS Naturals, Sequences

CONSTANTS
  Offered,   (* the channels offered, a subset of ChannelNames             *)
  MaxVisits, (* flows entered (bound)                                      *)
  MaxMishaps (* steps that fail, restarts that do not happen, and flows    *)
             (* left (bound)                                               *)

VARIABLES
  flow,      (* the flow the user is in                                    *)
  plant,     (* the checkout, .env, linked accounts, wirings and service;  *)
             (* `app` is the Teams app package, and `cut` a history:       *)
             (* add-imessage.sh was stopped while it wrote .env, and has   *)
             (* not got through since                                      *)
  visits,    (* flows entered                                              *)
  mishaps,   (* mishaps so far                                             *)
  found,     (* history: the plant when the flow was entered               *)
  unstarted  (* history: the service has missed a restart                  *)

flowVars == <<flow, plant, visits, mishaps, found, unstarted>>

-----------------------------------------------------------------------------
(* The flows, step by step.                                                *)

Telegram == <<"token", "check", "install", "pair", "role", "init">>
Discord  == <<"ask-bot", "token", "check", "app-info", "owner", "server",
              "invite", "install", "open-dm", "role", "init">>
WhatsApp == <<"method", "install", "link", "number", "restart", "chat-number", "role", "init">>
SignalApp == <<"ready", "cli", "install", "link", "account", "role", "init">>
Slack    == <<"app", "token", "secret", "check", "install", "owner", "open-dm", "role", "init">>
IMessage == <<"mode", "access", "handle", "install", "role", "init">>
Teams    == <<"prereqs", "url", "registration", "secret", "bot", "enable",
              "manifest", "sideload", "install", "finish">>

ChannelNames == {"telegram", "discord", "whatsapp", "signal", "slack", "imessage", "teams"}

FlowOf ==
  [c \in ChannelNames |->
     CASE c = "telegram" -> Telegram [] c = "discord" -> Discord [] c = "whatsapp" -> WhatsApp
       [] c = "signal" -> SignalApp [] c = "slack" -> Slack [] c = "imessage" -> IMessage
       [] c = "teams" -> Teams]

StepsOf(c) == {FlowOf[c][i] : i \in DOMAIN FlowOf[c]}

ASSUME ChannelConstants ==
  Offered \subseteq ChannelNames /\ MaxVisits \in Nat /\ MaxMishaps \in Nat

(* Adapters with a package of their own; signal's has none.                *)
Packaged == ChannelNames \ {"signal"}

(* The flows that go on without awaiting `fail`.                           *)
Heedless == {"whatsapp", "teams"}

NoFlow == [chan |-> "none", step |-> 0, failed |-> FALSE, asides |-> {},
           tries |-> 0, mode |-> "none", how |-> "start"]

(* The checkout has the CLI's adapter only; setup has started the service. *)
ChannelSetupInit ==
  /\ flow = NoFlow
  /\ plant \in [tree : {{}}, packages : {{}}, dist : {{}}, app : {"none"},
                keys : {{}}, says : {"none"}, modes : {{}}, cut : {FALSE},
                link : {"none"}, account : {FALSE}, cli : BOOLEAN, mac : BOOLEAN,
                wired : {{}}, service : {[up |-> TRUE, adapters |-> {}]}]
  /\ visits = 0 /\ mishaps = 0 /\ found = plant /\ unstarted = FALSE

(* Every variable has its type; a flow is at a step of its channel.        *)
ChannelSetupTypeOK ==
  /\ flow \in [chan : Offered \cup {"none"}, step : Nat, failed : BOOLEAN,
               asides : SUBSET (UNION {StepsOf(c) : c \in ChannelNames}), tries : 0 .. 5,
               mode : {"none", "local", "remote"}, how : {"start", "in", "done", "back", "gone"}]
  /\ flow.chan # "none" => /\ flow.step \in DOMAIN FlowOf[flow.chan]
                           /\ flow.asides \subseteq StepsOf(flow.chan)
  /\ plant \in [tree : SUBSET Offered, packages : SUBSET Packaged, dist : SUBSET Offered,
                app : {"none", "part", "whole"},
                keys : SUBSET Offered, says : {"none", "local", "remote"},
                modes : SUBSET {"local", "remote"}, cut : BOOLEAN,
                link : {"none", "half", "linked"}, account : BOOLEAN, cli : BOOLEAN,
                mac : BOOLEAN, wired : SUBSET Offered,
                service : [up : BOOLEAN, adapters : SUBSET Offered]]
  /\ visits \in 0 .. MaxVisits /\ mishaps \in 0 .. MaxMishaps /\ unstarted \in BOOLEAN

-----------------------------------------------------------------------------
(* The checkout and the service.                                           *)

(* need_install: by the adapter's file and its import alone.               *)
NeedsInstall(m, c) == c \notin m.tree

Copied(m, c) == [m EXCEPT !.tree = @ \cup {c}]
Packed(m, c) == [Copied(m, c) EXCEPT !.packages = @ \cup ({c} \cap Packaged)]

(* tsc writes every adapter imported, and reports an error for the package *)
(* that is missing.                                                        *)
Compiled(m) == [m EXCEPT !.dist = m.tree]
Compiles(m) == m.tree \cap Packaged \subseteq m.packages

(* Where the script gets to when all goes well: nowhere if the build cannot *)
(* succeed.                                                                *)
InstalledTo(m, c) ==
  IF NeedsInstall(m, c) \/ c = "signal"
  THEN {Compiled(n) : n \in {p \in {Packed(m, c)} : Compiles(p)}}
  ELSE {m}

(* Where a script that ends with an error may have stopped.                *)
StoppedAt(m, c) ==
  IF NeedsInstall(m, c) \/ c = "signal"
  THEN {m, Copied(m, c), Packed(m, c), Compiled(Packed(m, c))}
  ELSE {}

(* Mutant of Keyed: the keys of the other mode stay. *)
KeyedBeside(m, c) ==
  IF c = "imessage"
  THEN [m EXCEPT !.keys = @ \cup {c}, !.says = flow.mode, !.modes = @ \cup {flow.mode},
                 !.cut = FALSE]
  ELSE [m EXCEPT !.keys = @ \cup {c}]

(* The credentials are written to .env; iMessage's name their mode, and    *)
(* those of its other mode are taken out.                                  *)
Keyed(m, c) ==
  IF c = "imessage"
  THEN [m EXCEPT !.keys = @ \cup {c}, !.says = flow.mode, !.modes = {flow.mode}, !.cut = FALSE]
  ELSE [m EXCEPT !.keys = @ \cup {c}]

(* iMessage's mode is named first, then its keys are written (one key here *)
(* for a mode's one or two), each by a rewrite of .env.                    *)
Named(m) ==
  [m EXCEPT !.says = flow.mode, !.cut = TRUE,
            !.keys = IF flow.mode \in m.modes THEN @ \cup {"imessage"} ELSE @ \ {"imessage"}]
Given(m) ==
  [m EXCEPT !.says = flow.mode, !.cut = TRUE, !.keys = @ \cup {"imessage"},
            !.modes = @ \cup {flow.mode}]

(* Where a script that ends with an error while it writes them, or after,  *)
(* leaves the checkout m.                                                  *)
KeyStops(m, c) ==
  IF c = "imessage" THEN {Named(m), Given(m), Keyed(m, c)} ELSE {m, Keyed(m, c)}

(* The service is started on what is built: an import that fails takes it  *)
(* down, an adapter without credentials is passed over.                    *)
Restarted(m) ==
  [m EXCEPT !.service =
     [up |-> m.dist \cap Packaged \subseteq m.packages,
      adapters |-> {c \in m.dist : IF c = "whatsapp" THEN m.link = "linked" ELSE c \in m.keys}]]

Served(m, c) == m.service.up /\ c \in m.service.adapters

-----------------------------------------------------------------------------
(* The course of a flow.                                                   *)

Asking(c, s) == flow.chan = c /\ ~flow.failed /\ FlowOf[c][flow.step] = s

Mishap == mishaps < MaxMishaps /\ mishaps' = mishaps + 1

Ended(how) == [NoFlow EXCEPT !.how = how]

(* f goes on with the next step, or has come to its end.                   *)
Ahead(f) == IF f.step = Len(FlowOf[f.chan]) THEN Ended("done") ELSE [f EXCEPT !.step = @ + 1]

Goes == flow' = Ahead(flow)

(* BACK_TO_CHANNEL_SELECTION.                                              *)
BacksOut == flow' = Ended("back")

(* fail was called in f's step: awaited, it holds the flow; otherwise its    *)
(* question stands beside the next step's.                                 *)
Stumbled(f) ==
  IF f.chan \in Heedless
  THEN Ahead([f EXCEPT !.asides = @ \cup {FlowOf[f.chan][f.step]}])
  ELSE [f EXCEPT !.failed = TRUE]

Plain == UNCHANGED <<plant, visits, mishaps, found, unstarted>>

(* A question with no way back, and one with.                              *)
Question(c, s) == Asking(c, s) /\ Goes /\ Plain
BackQuestion(c, s) == Asking(c, s) /\ (Goes \/ BacksOut) /\ Plain

(* A service elsewhere is asked: it may refuse or be out of reach.         *)
Lookup(c, s) ==
  /\ Asking(c, s)
  /\ \/ Goes /\ UNCHANGED mishaps
     \/ flow' = Stumbled(flow) /\ Mishap
  /\ UNCHANGED <<plant, visits, found, unstarted>>

(* The user picks a channel.                                               *)
Choose(c) ==
  /\ flow.chan = "none" /\ visits < MaxVisits
  /\ visits' = visits + 1
  /\ flow' = [NoFlow EXCEPT !.chan = c, !.step = 1, !.how = "in"]
  /\ found' = plant
  /\ UNCHANGED <<plant, mishaps, unstarted>>

(* fail: the wizard is aborted, or tried again from the chooser on.        *)
Stops ==
  /\ flow.failed \/ flow.asides # {}
  /\ flow' = Ended("gone")
  /\ Plain

(* Where the script of c's install step may be stopped, with its channel's *)
(* credentials to write or without.                                        *)
Cuts(c) ==
  StoppedAt(plant, c)
    \cup (IF c \in {"whatsapp", "signal"} THEN {}
          ELSE UNION {KeyStops(m, c) : m \in InstalledTo(plant, c)})

(* The user leaves, at a question or while a script runs.                  *)
Quits ==
  /\ flow.chan # "none" /\ Mishap
  /\ flow' = Ended("gone")
  /\ plant' \in {plant} \cup (IF Asking(flow.chan, "install") THEN Cuts(flow.chan) ELSE {})
  /\ UNCHANGED <<visits, found, unstarted>>

-----------------------------------------------------------------------------
(* Installing, and wiring.                                                 *)

(* A script that installs, stores the credentials and restarts; that the   *)
(* restart fails is passed over.                                           *)
InstallRestart(c) ==
  /\ Asking(c, "install")
  /\ \/ /\ \E m \in InstalledTo(plant, c) :
             \/ /\ plant' = Restarted(Keyed(m, c))
                /\ UNCHANGED <<mishaps, unstarted>>
             \/ /\ plant' = Keyed(m, c)
                /\ Mishap /\ unstarted' = TRUE
        /\ Goes
     \/ /\ plant' \in Cuts(c) /\ flow' = Stumbled(flow)
        /\ IF InstalledTo(plant, c) = {} THEN UNCHANGED mishaps ELSE Mishap
        /\ UNCHANGED unstarted
  /\ UNCHANGED <<visits, found>>

(* A script that only installs: the account is linked afterwards.          *)
InstallOnly(c) ==
  /\ Asking(c, "install")
  /\ \/ plant' \in InstalledTo(plant, c) /\ Goes /\ UNCHANGED mishaps
     \/ /\ plant' \in Cuts(c) /\ flow' = Stumbled(flow)
        /\ IF InstalledTo(plant, c) = {} THEN UNCHANGED mishaps ELSE Mishap
  /\ UNCHANGED <<visits, found, unstarted>>

(* restartService: failing to is not fatal.                                *)
RestartService(m) ==
  \/ plant' = Restarted(m) /\ UNCHANGED <<mishaps, unstarted>>
  \/ plant' = m /\ Mishap /\ unstarted' = TRUE

(* askOperatorRole and resolveAgentName.                                   *)
Role(c) == Question(c, "role")

Wired(m, c) == [m EXCEPT !.wired = @ \cup {c}]

(* init-first-agent wires the agent and has the service greet its owner,   *)
(* which fails when the service is down.                                   *)
InitFirstAgent(c) ==
  /\ Asking(c, "init")
  /\ \/ plant' = Wired(plant, c) /\ plant.service.up /\ Goes /\ UNCHANGED mishaps
     \/ /\ flow' = Stumbled(flow)
        /\ plant' \in {plant, Wired(plant, c)}
        /\ IF plant.service.up THEN Mishap ELSE UNCHANGED mishaps
  /\ UNCHANGED <<visits, found, unstarted>>

-----------------------------------------------------------------------------
(* Telegram.                                                               *)

TelegramToken == BackQuestion("telegram", "token")
TelegramCheck == Lookup("telegram", "check")

(* The code reaches the bot in the running service.                        *)
PairRight ==
  /\ Asking("telegram", "pair") /\ Served(plant, "telegram")
  /\ Goes /\ Plain

(* Mutant of PairWrong: after the sixth it counts anew. *)
PairWrongAnew ==
  /\ Asking("telegram", "pair") /\ Served(plant, "telegram")
  /\ flow' = [flow EXCEPT !.tries = (@ + 1) % 6]
  /\ Plain

(* A wrong code voids the right one; the sixth is the last.                *)
PairWrong ==
  /\ Asking("telegram", "pair") /\ Served(plant, "telegram")
  /\ flow' = IF flow.tries < 5 THEN [flow EXCEPT !.tries = @ + 1] ELSE Stumbled(flow)
  /\ Plain

(* The pairing ends otherwise, as it must where no service hears the code. *)
PairFails ==
  /\ Asking("telegram", "pair")
  /\ flow' = Stumbled(flow)
  /\ IF Served(plant, "telegram") THEN Mishap ELSE UNCHANGED mishaps
  /\ UNCHANGED <<plant, visits, found, unstarted>>

TelegramStep ==
  TelegramToken \/ TelegramCheck \/ PairRight \/ PairWrong \/ PairFails

(* Discord.                                                                *)

DiscordAskBot == BackQuestion("discord", "ask-bot")
DiscordToken == Question("discord", "token")
DiscordCheck == Lookup("discord", "check")
DiscordAppInfo == Lookup("discord", "app-info")
DiscordOwner == Question("discord", "owner")
DiscordServer == Question("discord", "server")
DiscordInvite == Question("discord", "invite")
DiscordOpenDm == Lookup("discord", "open-dm")

DiscordStep ==
  \/ DiscordAskBot \/ DiscordToken \/ DiscordCheck \/ DiscordAppInfo
  \/ DiscordOwner \/ DiscordServer \/ DiscordInvite \/ DiscordOpenDm

(* Slack.                                                                  *)

SlackApp == BackQuestion("slack", "app")
SlackToken == Question("slack", "token")
SlackSecret == Question("slack", "secret")
SlackCheck == Lookup("slack", "check")
SlackOwner == Question("slack", "owner")
SlackOpenDm == Lookup("slack", "open-dm")

SlackStep ==
  SlackApp \/ SlackToken \/ SlackSecret \/ SlackCheck \/ SlackOwner \/ SlackOpenDm

-----------------------------------------------------------------------------
(* WhatsApp.                                                               *)

WhatsAppMethod == BackQuestion("whatsapp", "method")

(* Credentials on disk, whole or not, pass for a linked account.           *)
WhatsAppLinkSkipped ==
  /\ Asking("whatsapp", "link") /\ plant.link # "none" /\ "whatsapp" \in plant.packages
  /\ Goes /\ Plain

(* The phone scans the code or is given one.                               *)
WhatsAppLinks ==
  /\ Asking("whatsapp", "link") /\ plant.link = "none" /\ "whatsapp" \in plant.packages
  /\ plant' = [plant EXCEPT !.link = "linked"]
  /\ Goes
  /\ UNCHANGED <<visits, mishaps, found, unstarted>>

(* The code times out, the phone logs the device out, or the socket closes; *)
(* what the socket has saved by then stays.                                *)
WhatsAppLinkFails ==
  /\ Asking("whatsapp", "link")
  /\ \/ "whatsapp" \notin plant.packages /\ UNCHANGED <<plant, mishaps>>
     \/ /\ plant.link = "none" /\ Mishap
        /\ \E l \in {"none", "half"} : plant' = [plant EXCEPT !.link = l]
  /\ flow' = Stumbled(flow)
  /\ UNCHANGED <<visits, found, unstarted>>

(* readAuthedPhone.                                                        *)
WhatsAppNumber ==
  /\ Asking("whatsapp", "number")
  /\ flow' = IF plant.link = "linked" THEN Ahead(flow) ELSE Stumbled(flow)
  /\ Plain

WhatsAppRestart ==
  /\ Asking("whatsapp", "restart")
  /\ RestartService(plant) /\ Goes
  /\ UNCHANGED <<visits, found>>

(* A number of the assistant's own is noted in .env, for the next start.   *)
WhatsAppChatNumber == Question("whatsapp", "chat-number")

WhatsAppStep ==
  \/ WhatsAppMethod \/ WhatsAppLinkSkipped \/ WhatsAppLinks \/ WhatsAppLinkFails
  \/ WhatsAppNumber \/ WhatsAppRestart \/ WhatsAppChatNumber

(* Signal.                                                                 *)

SignalReady == BackQuestion("signal", "ready")

(* ensureSignalCli.                                                        *)
SignalCli ==
  /\ Asking("signal", "cli")
  /\ \/ plant' = [plant EXCEPT !.cli = TRUE] /\ Goes /\ UNCHANGED mishaps
     \/ ~plant.cli /\ Mishap /\ flow' = Stumbled(flow) /\ UNCHANGED plant
  /\ UNCHANGED <<visits, found, unstarted>>

(* listAccounts: an account linked before is used as it is.                *)
SignalLinkSkipped ==
  /\ Asking("signal", "link") /\ plant.account
  /\ Goes /\ Plain

(* The phone scans the code within three minutes.                          *)
SignalLinks ==
  /\ Asking("signal", "link") /\ ~plant.account
  /\ plant' = [plant EXCEPT !.account = TRUE]
  /\ Goes
  /\ UNCHANGED <<visits, mishaps, found, unstarted>>

(* signal-cli closes before, or is closed.                                 *)
SignalLinkFails ==
  /\ Asking("signal", "link") /\ ~plant.account /\ Mishap
  /\ flow' = Stumbled(flow)
  /\ UNCHANGED <<plant, visits, found, unstarted>>

(* writeSignalAccount, then the restart.                                   *)
SignalAccount ==
  /\ Asking("signal", "account")
  /\ RestartService(Keyed(plant, "signal")) /\ Goes
  /\ UNCHANGED <<visits, found>>

SignalStep ==
  \/ SignalReady \/ SignalCli \/ SignalLinkSkipped \/ SignalLinks \/ SignalLinkFails
  \/ SignalAccount

(* iMessage.                                                               *)

(* The Mac's own account is offered on a Mac only.                         *)
IMessageMode ==
  /\ Asking("imessage", "mode")
  /\ \/ \E m \in {"remote"} \cup (IF plant.mac THEN {"local"} ELSE {}) :
          flow' = [Ahead(flow) EXCEPT !.mode = m]
     \/ BacksOut
  /\ Plain

(* The Mac's messages are opened to node, or the server's address is given. *)
IMessageDisk == flow.mode = "local" /\ Question("imessage", "access")
IMessageRemote == flow.mode = "remote" /\ Question("imessage", "access")
IMessageHandle == Question("imessage", "handle")

IMessageStep == IMessageMode \/ IMessageDisk \/ IMessageRemote \/ IMessageHandle

(* Teams.                                                                  *)

(* Credentials found are used, which leaves only the installation.         *)
TeamsReuse ==
  /\ Asking("teams", "prereqs") /\ "teams" \in plant.keys
  /\ flow' = [flow EXCEPT !.step = 9]
  /\ Plain

TeamsPrereqs == BackQuestion("teams", "prereqs")
TeamsPublicUrl == Question("teams", "url")
TeamsRegistration == BackQuestion("teams", "registration")
TeamsSecret == BackQuestion("teams", "secret")
TeamsBot == BackQuestion("teams", "bot")
TeamsEnable == BackQuestion("teams", "enable")

(* buildTeamsAppPackage writes the manifest, the icons and their zip into  *)
(* data/teams.  When it fails midway, what comes next runs into the        *)
(* absence of its result.                                                  *)
TeamsManifest ==
  /\ Asking("teams", "manifest")
  /\ \/ Goes /\ plant' = [plant EXCEPT !.app = "whole"] /\ UNCHANGED mishaps
     \/ /\ flow' = Ended("gone") /\ Mishap
        /\ plant' \in {plant, [plant EXCEPT !.app = "part"]}
  /\ UNCHANGED <<visits, found, unstarted>>

TeamsSideload == BackQuestion("teams", "sideload")
TeamsInstall == InstallRestart("teams")

(* The agent is wired by hand, once a message has come in.                 *)
TeamsFinish ==
  /\ Asking("teams", "finish")
  /\ Goes
  /\ plant' \in {plant} \cup (IF Served(plant, "teams") THEN {Wired(plant, "teams")} ELSE {})
  /\ UNCHANGED <<visits, mishaps, found, unstarted>>

TeamsStep ==
  \/ TeamsReuse \/ TeamsPrereqs \/ TeamsPublicUrl \/ TeamsRegistration \/ TeamsSecret
  \/ TeamsBot \/ TeamsEnable \/ TeamsManifest \/ TeamsSideload
  \/ TeamsInstall \/ TeamsFinish

-----------------------------------------------------------------------------
FlowStep ==
  \/ TelegramStep \/ DiscordStep \/ SlackStep \/ WhatsAppStep \/ SignalStep
  \/ IMessageStep \/ TeamsStep
  \/ \E c \in Offered \ {"whatsapp", "signal", "teams"} : InstallRestart(c)
  \/ \E c \in Offered \cap {"whatsapp", "signal"} : InstallOnly(c)
  \/ \E c \in Offered : Role(c)
  \/ \E c \in Offered \ {"teams"} : InitFirstAgent(c)
  \/ Stops

ChannelSetupNext == FlowStep \/ Quits \/ \E c \in Offered : Choose(c)

ChannelSetupFairness == WF_flowVars(FlowStep)

ChannelSetupSpec ==
  ChannelSetupInit /\ [][ChannelSetupNext]_flowVars /\ ChannelSetupFairness

-----------------------------------------------------------------------------
(* The plant without the Teams app package.                                *)
Bare(m) == [m EXCEPT !.app = "none"]

(* Whoever goes back to the channel selection, at any question that offers *)
(* it, leaves no code, no key, no link, no wiring and no restart behind    *)
(* (lib/back-nav.ts, teams.ts).  Teams' later gates offer it too, and the  *)
(* app package stays.                                                      *)
BackLeavesNoTrace == flow.how = "back" => Bare(plant) = Bare(found)

(* "Back is only offered on the very first step of the Teams flow so users *)
(* can bail out before any state is taken" (teams.ts).                     *)
BackBeforeAnyState == flow.how = "back" => plant = found

(* A channel whose files were copied but whose package or build is missing. *)
Torn(m) == {c \in m.tree : (c \in Packaged /\ c \notin m.packages) \/ c \notin m.dist}

(* An agent is wired over a channel only when the running service has that *)
(* channel's adapter with its credentials: so long as no script was torn,  *)
(* no restart failed, and no failure's question stands open.               *)
WiringIsServed ==
  [][\A c \in Offered :
       c \in plant'.wired \ plant.wired /\ Torn(plant) = {} /\ ~unstarted /\ flow.asides = {}
         => Served(plant, c)]_flowVars

(* The service stays up through every install, unless a script was torn.   *)
ServiceSurvives == Torn(plant) = {} => plant.service.up

(* .env has no key of an iMessage mode but the one it names: unless        *)
(* add-imessage.sh was stopped while it wrote them, and whatever such a    *)
(* stop left, once it has got through again, in either mode ("strip the    *)
(* opposite mode's keys so stale values can't confuse the adapter's        *)
(* factory").                                                              *)
OneMode == plant.cut \/ plant.modes \subseteq {plant.says}

(* Every flow comes to an end: done, back at the selection, or aborted.    *)
FlowsEnd == flow.chan # "none" ~> flow.chan = "none"

(* fail ends the process or is retried: nothing runs after a step failed   *)
(* ("Callers must `await fail(...)`", lib/runner.ts).                      *)
FailureStops == flow.asides = {}

(* A script that succeeds has the adapter built with its package, also     *)
(* when it skips an install that is there already.                         *)
SuccessMeansInstalled ==
  [][\A c \in Offered :
       Asking(c, "install") /\ flow'.chan = c /\ ~flow'.failed /\ flow'.asides = flow.asides
         => c \notin Torn(plant')]_flowVars

(* What a flow leaves behind, wherever it is left.                         *)
FlowsSafe == ChannelSetupTypeOK /\ BackLeavesNoTrace /\ ServiceSurvives /\ OneMode

=============================================================================
