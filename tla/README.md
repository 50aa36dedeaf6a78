# Verification of NanoClaw

NanoClaw is a chat assistant. A host process (`src/src/`, Node) takes messages
from chat platforms, stores them in per-session SQLite databases, and runs one
Docker container per session in which an agent-runner
(`src/container/agent-runner/src/`, Bun) polls these databases, drives an agent
and writes replies that the host delivers. There is no broker: the two sides
share two database files and a heartbeat file, and everything else is a timer,
a promise or the event of a child process. This directory holds TLA+ models of
that machinery, the TLC runs that check them, and TLAPS proofs.

* [1. Inventory](#1-inventory)
* [2. The modules](#2-the-modules)
* [3. The runs](#3-the-runs)
* [4. What does not hold](#4-what-does-not-hold)
* [5. The proofs](#5-the-proofs)
* [6. What is not modelled](#6-what-is-not-modelled)
* [7. Plan](#7-plan)

Run a check with `tlc -config queue_safety.cfg MCSessionQueue`, a proof with
`tlapm SessionQueue_proofs.tla`. `PROJECT.json` lists the components, the runs,
a mutant for every property, the source lines of every definition, the
findings, the hazards and the theorems.

## 1. Inventory

Who shares what (beside what the picture shows, the router and an approval may
write a row of their own to `messages_out` while the container does,
`writeOutboundDirect`):

```
 platform --> router --> inbound.db  --> agent-runner --> outbound.db --> delivery --> platform
              (host)     messages_in     (container)      messages_out    (host)
                |        delivered <------------------------------------- |
                |                        processing_ack                   |
                |                        heartbeat                        |
                +--> container runner <---- sweep ------------------------+
                     activeContainers       (reads both databases, writes
                     wakePromises            inbound.db; deletes claims in
                                             outbound.db when no container runs)
```

| Component | State | Operations | Hard part | What makes it correct |
| --- | --- | --- | --- | --- |
| **Session queue** (`db/session-db.ts`, `host-sweep.ts`, `session-manager.ts`; `db/messages-in.ts`, `db/connection.ts`) | rows of `messages_in` (status, tries, `process_after`, trigger, `on_wake`), rows of `processing_ack`, heartbeat file | store; fetch; claim; acknowledge; sweep: sync, wake, enforce, reset, drop claims | two processes, two files, no transaction over both; crash between any two statements | no message lost, held twice, retried without cause, or given up too early; each settles in the end |
| **Agent-runner poll loop** (`poll-loop.ts`, `scheduling/task-script.ts`) | batch of the outer loop, follow-up poll of the open query, `isFirstPoll`, `endedForCommand` | boot, poll, commands, scripts, query, result, follow-up push, abort | two loops fetch from one table; a poll outlives its query | what is in hand is claimed, by one loop |
| **Container runner** (`container-runner.ts`, `container-runtime.ts`, `container-restart.ts`, `container-config.ts`) | `activeContainers`, `wakePromises`, exit callbacks, materialized configuration, `sessions.container_status` | wake, spawn, kill, close and error events, restart, orphan cleanup | awaits inside a spawn; events of an earlier spawn; a container that outlives the host or its client | one live container per session, and it is the tracked one |
| **Outbound delivery** (`delivery.ts`, `channels/channel-registry.ts`, `db/messages-out.ts`) | `inflightDeliveries`, `deliveryAttempts`, `delivered`, `pending_questions` | two poll chains, drain, send, record, retry, give up | every send is an await of foreign code; two chains; lost answers; restart | shown once, in order, settled once, in the end; cards answerable |
| **Interactive questions** (`modules/interactive`, `mcp-tools/interactive.ts`) | `pending_questions`, system rows | ask, click, answer, time-out | the answer races the time-out | an answer reaches the one who asked |
| **Self modification, restarts** (`modules/self-mod`, `cli/resources/groups.ts`) | `on_wake` rows | store the notice, kill, respawn | the old container must not read the notice, the new one must | the notice is read by the successor |
| **Router** (`router.ts`, `command-gate.ts`) | messaging groups, wirings, sessions | resolve, gate, engage, fan out, store, wake | several agents in one chat; routes of one message beside each other; a fan-out cut off in the middle | an agent is woken by those admitted to it, and by what engages it |
| **Permissions** (`modules/permissions`) | members, pending senders and channels, names awaited in memory | refuse, ask, admit, replay; register a chat, connect, name, reject | the de-duplication is read before an await; a press is resolved before the card is edited; a replay visits agents that have the message | what is refused leaves no trace; a card keeps its meaning; one request, one wiring |
| **Approvals** (`modules/approvals`, `response-registry.ts`) | `pending_approvals`, pending promises, timers | request, card, press, expire, restart | handler before delete; expiry against press; a press before the row is there | decided once; acted on for a consent, once but for a double answer; none dropped |
| **Scheduling** (`modules/scheduling`) | task rows, series | schedule, update, pause, resume, cancel, recur | an await between reading and cloning; clone and clear are two statements | one live occurrence per series; a cancelled series stays so; a series goes on |
| **Sequence numbers** (`session-db.ts`, `session-manager.ts`, `messages-out.ts`) | `seq` of both tables | host: next even; container: next odd; direct writes of the host | read and insert are statements of several processes | a number told to the agent keeps naming its message |
| **Agent to agent** (`modules/agent-to-agent`) | destinations, policies, sessions, projections into the containers | link, route, hold, decide, project | choice of the target session; rules that change while a message is under way | an answer goes back where the question came from, over a link that lets it pass |
| **Command line** (`cli/`) | `cli_request` rows, answers, approvals, `cli_scope` | resolve, check the scope, hold, run, answer, retry | applied and answered in two steps of a row that is retried; scope that changes meanwhile | an agent reaches what its scope says; runs as often as approved |
| **Chat SDK state and bridge** (`state-sqlite.ts`, `chat-sdk-bridge.ts`) | key-values, locks, lists, queues | acquire, release, extend, enqueue, expire | expiry without removal; late releases; bots that share tables | one holder per lock; one first report; bounded FIFO |
| **Startup circuit breaker** (`circuit-breaker.ts`), **Host process** (`index.ts`) | crash file; adapters joined, orphans | back-off, gates, clean-up, join, shut down | crash at any point of the start, torn file, channels that retry | back-off grows with crashes only, and ends; the host comes up |
| **Central database and migrations** (`db/migrations`) | schema, `schema_version` | list pending, run each | two processes with one list; databases of every earlier version; crashes | the whole schema, each migration once |
| **Setup wizard** (`setup/auto.ts`, `setup/*.ts`) | driver's list of steps to skip, the machine | run a step, fail, retry, re-exec under `sg docker`, resume | what a retry skips; two processes in a row; the test agent | "ready" is installed; the picked runtime arrives |
| **Channel setup flows** (`setup/channels`, `setup/add-*.sh`) | checkout, `.env`, links, wirings, service | ask, go back, install, pair, restart, wire | codes that expire; restarts before configuration; torn installs | going back leaves no code, key, link or wiring; a wired chat is served |
| **Uninstaller** (`setup/uninstall`) | inventory, plan | list, ask, remove | the host still runs; kills halfway; what tells whose an agent is goes as well | keys are never lost; others' agents stay; files that stay are told |
| **Typing indicator, webhook server, mount security, egress, group files, providers and tools, migration from version 1** | | | | see section 6 |

## 2. The modules

| Module | What it is |
| --- | --- |
| `MessageLifecycle` | what a session promises about one message: stages and retries |
| `ContainerSlot` | what the container runner promises its users: known, starting, live |
| `SessionQueue` | session queue, poll loop and sweep of one session; implements `MessageLifecycle`, uses the slot as `ContainerSlot` says |
| `ContainerLifecycle` | the container runner for one session; implements `ContainerSlot` |
| `Outbox` | what the host promises about an outbound message |
| `Delivery` | both poll chains over several sessions; implements `Outbox` |
| `Faults` | the budget of faults that the models below share |
| `Admission` | the router's fan-out in a group chat and the approval of unknown senders |
| `Registration` | the registration of an unknown chat |
| `Verdict` | what the host promises the credential gateway |
| `Approvals` | agents' actions and credentials that wait for a button; implements `Verdict` |
| `MessageNumbers` | the `seq` of both message tables |
| `AgentLinks` | destinations, policies and messages between agents |
| `Scheduling` | one recurring task |
| `Commands` | `ncl` in containers, its dispatch and its approval |
| `BoundedFifo` | what the state adapter promises about its queues |
| `ChatState` | locks, seen messages and queues of the chat SDK; implements `BoundedFifo` |
| `Startup` | the life of the host process and its circuit breaker |
| `Migrations` | the migration runner and all migrations |
| `Setup`, `ChannelSetup`, `Uninstall` | what a user runs by hand: the wizard, its channel flows, the uninstaller |
| `SessionQueue_proofs`, `Delivery_proofs`, `Approvals_proofs` | theorems about the module of that name |
| `Sessions_proofs` | theorems about `ContainerLifecycle`, `MessageNumbers` and `Scheduling` |
| `Dialogues_proofs`, `Services_proofs`, `Installation_proofs`, `Wizard_proofs` | theorems about the components of the combined instance of that name, and about the instance |
| `MCSessionQueue`, `MCContainerLifecycle`, `MCDelivery`, `MCAdmission` | values for TLC |
| `MCDialogues`, `MCServices`, `MCInstallation`, `MCWizard` | instances of several components in one run |

Three pairs are joined by an abstract specification. `ContainerSlot` is the
joint between two detailed modules: `ContainerLifecycle` is proved to implement
it, and `SessionQueue`, which models wakes and kills in fewer steps, is proved
to implement it too, so that the queue assumes no behaviour of containers that
the slot does not allow. `Verdict` and `Outbox` are what the gateway and a
reader of the chat may rely on.

The components below `Faults` do not share state with each other in the code
but through the databases' rows that each model has for itself: an admitted
message becomes `SessionQueue!Arrive`, an approved action `ApplyChange`, a
system row `Delivery!Write`. The four combined instances therefore hold several
components at once and pick one at the start of a behaviour (`part`): one run
explores the sum of their states and not the product.

### SessionQueue

State. `class` folds `kind`, `trigger` and `on_wake` of a row into what the code
tells apart: `chat` (trigger 1), `context` (trigger 0), `task` (may be due later
and may carry a script), `notice` (`on_wake = 1`), `command` (`/clear`,
`/upload-trace`) and `system` (answer to a question; no turn fetches it).
`status` and `tries` are columns of `messages_in`, `ack` is `processing_ack`.
Time is reduced to the comparisons the code makes: `deferred` (`process_after`
lies ahead), `aged` (the claim is older than the tolerance), `beaten` (the
heartbeat is later than the claim), `hb = "old"` (past the ceiling). `cpc` is
the position of `runPollLoop`; `batch`, `follow` and `orphan` are what its outer
loop, the follow-up poll of its query, and a follow-up poll whose query has
ended have in hand. `hpc` is the position of the host in `sweepSession` or in a
blocking kill. `outcome` and `charged` are history.

Actions. `Arrive` is any handler that stores a row and wakes (router, approval
and question answers, scheduling). `ApplyChange` and `Restart` are
`self-mod/apply.ts` and `container-restart.ts`. `SweepSync` to `DropFails` are
the statements of `sweepSession` between which another process may act;
synchronous host code that touches one file is one step, but a blocking
`docker stop`, during which the container still runs, is a state of its own
(`slaKill`, `restartKill`), and so is the gap between rescheduling rows and
deleting claims in the other file (`dropClaims`), which may fail. `Stop` is
`stopContainer`: with `StopFails` it may fail, the host kills the docker client
only, and the container lives on without being tracked (`loose`). `CutShort`
notes the claims that a crash or a failing deletion leaves behind after their
rows were charged. `Boot` to `ReadAnswer` are the agent-runner; in
`FollowFails` a follow-up poll throws, which is logged, and its rows stay
claimed. `StreamEnd` stands for a stream that ends, is
aborted, or throws: the code acknowledges the batch in all three cases.
`Fetch` keeps the order of `getPendingMessages`: the window of the newest
`PromptLimit` rows is cut first and acknowledged rows leave it afterwards.

### ContainerLifecycle

Each call of `spawnContainer` has an identity `p \in Spawns`, used again when
nothing of an earlier one is left. `call[p]` is the call and later its docker
client process, `box[p]` the container. `Wake` is `wakeContainer` up to its
first await, `Materialize` what follows that await, `Spawn` the synchronous tail
after the gateway has answered. `Close` is the dispatch of a client's event with
all its listeners, the respawn registered by a kill included. `Kill` is
`killContainer`: with `Detach` a failed `docker stop` kills only the client.
`HostCrash` and `HostStart` model a host that dies, and `cleanupOrphans`.

### Delivery

`pc[c]`, `todo[c]`, `at[c]` and `batch[c]` are the local state of `pollActive`
and `pollSweep` across their awaits: the list, the session, the rest of the
snapshot. `Enter` is `deliverSessionMessages` up to its first await, with the
guard; `Send`/`Drop`, `Land`, `Sent`/`SendFails` are the parts of a delivery
before, outside and after the adapter; `Leave` is the `finally`. `shown` counts
how often a message took effect outside (for a system action or an agent route:
how often it was carried out). `offline` holds the sessions for which a
delivery returns without error and without effect: no adapter is registered for
the instance, or the rows carry no address. `SentUnheard` is a lost answer or a
failing `markDelivered`, `GiveUpFails` an exception inside the `catch`, whether
the send or the record of it had failed,
`Unreadable` a database that cannot be opened or read, `Hang` a call that never
settles. `HostRestart` loses the memory and keeps the tables.

### Admission

A call of `routeInbound` is a record in `routes` with the agents it has still to
visit. Each visit resolves engagement, access and scope, and stores the message
as a trigger or as context, or refuses it; deliveries are awaited, so routes of
two messages, or of one message twice, interleave. A refusal asks
(`requestSenderApproval`): the pending row is looked for, the approver's chat is
awaited, and the row inserted, whose uniqueness is the last guard. A press
admits the sender to the agent and routes the stored message again from the
start. `refused`, `granted`, `approved` and `cut` are history. A restart loses
routes and asks and keeps rows.

### Registration

A mention in a chat without wirings asks the owner. `pending` is the one row of
the chat, with the menu its buttons belong to; `posting` and `buttons` are the
cards under way and on the screen. A press is resolved against the row's
options (`presses` keeps the option, not the label), then the edit of the card
is awaited, then the handler connects, asks for another menu or a name, or
denies; a connection to a group that is gone deletes the row. The awaited name lives in memory (`naming`).

### Approvals

`call` is how far `requestApproval` (for an action of an agent, the row before
the card) or `handleRequest` (for a credential, the card before the row) has
come. A press carries its label and what it was resolved to (`value`, the bare
index when no row could resolve it), waits for the edit of the card, and is
dispatched: `Ignored`, `ClickDecides` for a credential, `ClickRejects` and
`ClickApproves` for an action, whose handler runs until `Applied`. `promise`,
`waiting` and `expiring` are the gateway's callback, the map of resolvers with
their timers, and the edits of expired cards. `HostRestarts` cuts handlers off
with or without their effect, forgets promises and sweeps credential rows.

### MessageNumbers

A writer of the container reads the maximum of `messages_in`, then that of
`messages_out`, and inserts an odd number; the host writes even numbers to
`messages_in` and, now and then, a number to `messages_out`. `given` holds what
tools have told the agent.

### AgentLinks

`linked` and `gated` are the tables, `known` the projection in each running
container. A message has its sender's session, the group it is addressed to,
the message it answers, and the session it ends up in. `Route` covers the
permission, the policy, and the choice of the session: that of the answered
message if it is the addressed group's, and otherwise the newest.

### Scheduling

The rows of one series with status, recurrence and acknowledgement. The sweep
is three steps: synchronise, read the completed rows, and after an await clone
each, the insertion and the clearing of the old recurrence being two statements
between which the host may die. Commands of the agent come at any time.

### Commands

One run of `ncl` writes a row, polls and gives up after 30 seconds. `Dispatch`
is the whole of `dispatch` for the commands of `Registry`: resolution with
positional arguments, the scope of the group *now*, the arguments a scope fills
in or forbids, their normalization (`Parsed`: the group's flag has a spelling
with dashes, `dashed`, which the scope does not look at, and the later of the two
counts), the card, the handler and the post-filter of lists. The answer is
an insertion with a fixed id; what throws after it makes the row come back. An
approved card is dispatched with the frame it stored, as the host
(`AdminApproves`). A handler that projects destinations is awaited, and its card
deleted when it returns (`HandlerReturns`); until then a second press finds the
card, and after a crash so does a new approval.

### ChatState

One thread's locks, one message's seen record and one queue, each with rows per
bot (`Key`), with the calls of the SDK in any order and time that passes in
units; expired rows stay until a call removes them.

### Startup

The breaker's file with its attempt and age, the delay that is left, the gates
(upgrade marker, container runtime), orphan removal, the adapters joined one
after the other with their retries, SIGTERM and crashes at any point. The file
is written in place: a crash may tear it.

### Migrations

The schema is the set of tables and columns that some migration needs, adds or
drops; every migration of the list is a record of these, `strict` where its
statements have no `IF NOT EXISTS`. Each process reads what is pending once and
runs the rest in transactions. The initial states are the databases of all
versions of the list.

### Setup, ChannelSetup, Uninstall

The wizard is a driver with a position (`wizard.at`) and a list of steps to skip;
`machine` is what its steps leave behind, `agents` the groups they create. A
failed step offers a retry in a fresh process. A channel flow is a sequence of
questions and steps of `flow.chan` on the `plant` (checkout, `.env`, Teams' app
package, links, wirings, service). `StoppedAt` and `KeyStops` are the places
where a script may have stopped, with a part of the files or of the rewrites of
`.env` done; `plant.cut` remembers that iMessage's was stopped between them. The
uninstaller takes an inventory, asks group by group, and
removes in the order of `remove.ts`, beside a host that may still run. An action
is through, noted as failed, or has failed unseen (`missed`: a manager that did
not obey, a process that was not found, a container that was not removed, an
agent whose deletion was refused). `MCWizard` has a constant `Parts` with the
programs that are run.

## 3. The runs

All passing runs explore their whole state space.

| Run | Bounds | States | Shows |
| --- | --- | --- | --- |
| `queue_safety` | 2 messages of any class, 1 retry, window 2, 2 faults, the host may crash | @QS@ | `TypeOK`, `SingleWriter`, `FailedIsSpent`, `OneHand`, `RetryIsEarned`, `Lifecycle`, `OneContainer` |
| `queue_live` | up to 3 messages, 1 retry, window 2, 1 fault, the host may crash | @QL@ | `AllSettle`: triggers and claims settle, but for a row masked by later heartbeats or crowded out of the window |
| `delivery_safety` | 2 sessions, 2 messages, 2 attempts, 1 fault, 1 hang | @DS@ | `TypeOK`, `ShownOnce`, `NoOvertaking`, `CardsAnswerable`, `OutboxKept` |
| `delivery_live` | the same without cards, one session possibly without an adapter | @DL@ | `OutboxDrains` through a restart, an error or a lost answer, although a call hangs |
| `dialogues` | see below | @DI@ | `AdmissionSafe`, `WiredOnce`, `ActionsSettled`; no step lets a refused message in, changes the meaning of a card, or swaps the message asked about (`DialogueSteps`); `OneVerdict`; dialogues end (`DialoguesEnd`) |
| `services` | see below | @SE@ | `ContainerSafe`, `NumbersSafe`, `LinksSafe`, `ChatSafe`, `SeriesKept`, `CommandsSafe`, `ServiceSteps`, `RoutedRight`, `QueuesAreFifo`, `ServicesEnd` |
| `installation` | see below | @IN@ | `StartupSafe`, `MigrationsSafe`, `InstallationEnds` |
| `wizard` | see below | @WI@ | `SetupSafe`, `FlowsSafe`, `RemovalSafe`, `WizardSteps`, `WizardsEnd` |
| `queue_starved`, `lifecycle_stale`, `delivery_offline`, `admission_replay` | | | section 4 |

A property of a combined run is a conjunction with a name; its definition lists
the parts, and each part has its own comment in its module. `DialoguesTypeOK`
and `ServicesTypeOK` conjoin the types; `StartupSafe`, `MigrationsSafe`,
`SetupSafe`, `FlowsSafe` and `RemovalSafe` contain theirs.

The bounds and why they do:

* *Messages.* The rows of a session interact through the window of a poll, by
  sharing a batch, and through the one heartbeat, by which the turns of some rows
  hide the claim of another. For the first two, and for safety, two rows
  do: they give every split of a batch (one claimed and
  one new, one skipped and one kept, one in each loop), and with
  `PromptLimit = 1` a window that is too small. The third takes three: the
  batch, the follow-up that is claimed when its query has just ended, and one
  whose turn keeps the heartbeat fresh. `queue_live` has them; its constraint
  `WorkOrTalk` splits the state space into two tasks or commands with faults, and
  three chats without faults, of which the third comes when the first one's stream has
  ended: that is when a claim can be left behind. `MaxTries = 1` gives a first
  retry and a last one (the code has 5); two faults use them up, as each costs
  a crash, a hang or a restart.
* *Spawns.* One identity can be over, one alive and one in flight: three.
* *Polls.* The code has two chains. Two sessions let each be at one while the
  other wants it. Two messages of one session give order, two of different
  sessions independence. Two attempts (the code has 3) give a retry and a
  giving up. `delivery_live` leaves question cards out (`PlainMessages`): to the
  polls they are messages like others.
* *Symmetry* of `Sessions` is used in `delivery_safety` only, which checks no
  liveness.
* *Hangs.* `HangPoints` is the query: that is where an agent runs foreign code
  without limit. A container that hangs while booting is in section 4.
* `dialogues`: two agents with the pairs of wirings that differ most (one of a
  registration, a listener, a pattern, one that drops what is not for it), two
  messages of five kinds (a stranger, an administrator's command, a sender
  without identity, the owner in two threads), both policies that ask or let
  in; two agent groups, two mentions and three presses for a registration (a
  press, one that overtakes it, and one on the next menu); one action, one
  credential and two presses, so that the second comes while the first is at
  work; one fault.
* `services`: three spawns, two changes of configuration and two crashes; two
  writers beside the host and numbers up to 6; three groups, of which one comes
  later and one has two sessions, two messages and two changes of links; two
  bots, times to live up to 2, three tokens (an expired holder, its successor,
  and one that comes by force), a queue of size 2; three occurrences and two
  commands; one run of `ncl` with each order, one operation of an operator, two
  tries, two presses on a card whose handler is awaited, lists cut at one row;
  two faults.
* `installation`: the delays `<<0, 0, 1, 2>>` in a window of 5 have the shape of
  `BACKOFF_SCHEDULE_S` (two free starts, growth, a last value that repeats); two
  adapters, one without credentials; databases of all 19 earlier states and two
  processes; five faults, one more than the schedule is long.
* `wizard`: two runtimes, two launches and one trouble of the wizard; all seven
  channels, two flows one after the other and two mishaps; two runs of
  the uninstaller, one slip and one container. Every retry, resumption and way back happens with these.

Deadlock is checked in the four runs of the queue and the delivery, where every
behaviour has a state to go on. The dialogues, services, starts and wizards do
stop in the code (all is answered, the bound on users' actions is used up), so
their runs do not check it; that they stop *well* is what `DialoguesEnd`,
`ServicesEnd`, `InstallationEnds` and `WizardsEnd` say.

### Fairness

* Host loops (`sweep`, `pollActive`, `pollSweep`) and runner loops re-arm
  themselves with timers in a `finally` or an endless loop: their steps are
  weakly fair.
* `SpawnOk` is strongly fair: a spawn may fail any number of times, not for
  ever. Without it no claim about progress can hold. `CloseEvent` is strongly
  fair because the host may be busy again and again, while Node dispatches a
  pending event in between.
* `Result` is fair: a turn that does not hang ends. An open stream need not end
  by itself; an aborted one does.
* `Quiet` is fair: no turn emits events for ever without a pause of the length
  of the ceiling. Clocks advance (`Elapse`, `Age`).
* In `ContainerLifecycle` the call of a spawn settles one way or the other
  (`SpawnFails \/ Spawn`), with no say in which, and a pending event is
  dispatched.
* In `Delivery` a chain takes some step, with no say in which: a send may fail
  each time. `Hang` is outside the fair part, and a call that hung stays so.
* In the dialogues a route's awaits and the calls of the adapter return or
  throw, and timers fire; no press is fair. In `Scheduling` the sweep goes on,
  and a cloning succeeds or throws. In `Commands` the delivery comes back to a
  due row.
* In `Startup` time passes, the start goes on, and a process told to end ends.
  The start awaits `adapter.setup` without a time-out
  (`channel-registry.ts:141`); that it settles one way or the other is assumed.
  In `Migrations` each process takes its next step, which may fail.
* In the wizards one fair disjunction says that the program and the user at the
  question go on, with no say in the answer.
* Nothing else is fair that a user, a platform or a fault does.

## 4. What does not hold

### Shown by a run

Each of these runs ends in a counterexample; the statement it refutes is quoted
in `PROJECT.json`.

* `queue_starved`. `getPendingMessages` takes the newest rows up to the prompt
  limit whatever their trigger. When newer context fills the window, an older
  task is not in it, the accumulate gate skips the batch, nothing is
  acknowledged, and the next poll is the same. `countDueMessages` sees the task,
  so the container stays wanted, and never reads it.
* `lifecycle_stale`. A restart that comes while a spawn awaits the gateway finds
  no entry to kill; the spawn goes on with the configuration it materialized
  before the change.
* `delivery_offline`. A send to a channel whose adapter is not running is logged
  and recorded as delivered: no retry, although the comment promises one.
* `admission_replay`. A stored message that two agents of a chat refused and are
  approved for is replayed through all agents; the row the first one has by then
  makes the insertion throw, and the second agent never gets it
  (`ApprovedIsRouted`; `sender-approval.ts:16-17` expects the second attempt to
  pass). `ApprovalReplays` says what does hold: the first approval of a message
  gets through.

### Stated in a module, and refuted by the code

These are definitions next to the properties that hold. TLC finds each of them
violated in the instance of its run, with the constant changed that an entry
names; no run is spent on them.

* `SessionQueue!SingleWriter` with `StopFails = TRUE`: a `docker stop` that fails
  leaves the container alive (`container-runner.ts:222-226`); the sweep or the
  exit of the client then deletes its claims ("safe because the host only writes
  to outbound.db when no container is running", `session-db.ts:210-211`).
* `SessionQueue!ClaimSettles`: a claim that a follow-up poll left behind is
  released when it is older than the last heartbeat by the tolerance
  (`host-sweep.ts:114`). Later turns of the same container touch the heartbeat,
  so "the host's processing-claim sweep" (`poll-loop.ts:413-414`) may never see
  it. `AllSettle` states what is kept.
* `Commands!OwnGroupOnly` with `Orders <- TwoSpellings`: the scope is checked on
  the flags as they were written (`dispatch.ts:57-65`), and a flag in the other
  spelling replaces the one checked when the handler normalizes them
  (`crud.ts:214-220`).
* `ChannelSetup!BackBeforeAnyState`: Back is said to be offered "only on the
  very first step of the Teams flow" (`teams.ts:155-156`, `back-nav.ts:10-13`),
  and every later gate offers it too (`teams.ts:529,673`), when the app package
  is already in `data/teams` (`teams.ts:483`).
* `Uninstall!FailuresAreNoted`: "a failure becomes a summary note"
  (`remove.ts:2-3`), but for an unload that the manager refuses
  (`remove.ts:66,71`), a host that is not found (`remove.ts:103-115`), containers
  that `rm -f` did not remove (`remove.ts:138`), and an agent whose deletion was
  refused (`remove.ts:174`).
* `Registration!StillDecidable`: a restart, or a card that was not sent, leaves
  the pending row without a button, a press or an awaited name; later mentions
  are then dropped without a new card. `ButtonsMeanWhatTheySay`: a press on an
  older card is resolved against the menu of the newer one.
* `Admission!StickyNeedsEngagement`: a sticky agent that accumulates counts a
  thread as engaged because of context it stored, without ever being mentioned.
* `Approvals!ApproveIsNoDenial`: a press on a credential's card before its row
  is inserted carries the index of its button, which is not `"approve"` and
  denies once the row is there.
* `Scheduling!PausedDoesNotRun`: an occurrence that was in the runner's hands
  or awaited its successor when the pause came is followed by one that runs.
* `MessageNumbers!HostStaysEven`: `writeOutboundDirect` adds two to the largest
  number of `messages_out`, which may be odd, against `session-manager.ts:384-386`.
* `AgentLinks!KnowsEveryName` (an agent created by another writes the row and not
  the projection of the creator's other sessions, `create-agent.ts:207`, against
  `agent-destinations.ts:25-31`) and `NoGhostGate` (the command line removes the
  row and leaves the policy, against `agent-destinations.ts:93`).
* `ChannelSetup!FailureStops`: `fail` is not awaited at `whatsapp.ts:73,83,94,145`
  and `teams.ts:471,500,569`, against `lib/runner.ts:353-355`, so that the flow
  goes on beside the question it asks. `SuccessMeansInstalled`: the scripts skip
  an install whose files are there and whose package or build is not
  (`add-telegram.sh:54-58`).
* `Uninstall!RetryRemains`: "re-run the uninstaller to retry" (`remove.ts:35`)
  needs what the removal of `node_modules` has taken away.
* `ContainerLifecycle!NoDuplicate` with `Detach`: when `docker stop` fails, the
  client is killed and the container lives on, its session free for another one
  (`container-runner.ts:225`).

### Seen while modelling

The models contain these behaviours; no property forbids them.

* An `on_wake` row that a crash gives back is deferred by the back-off, and the
  next container looks for such rows at its first poll only
  (`host-sweep.ts:318` against `container-restart.ts:5,18`).
* A follow-up is completed when it is pushed into the open stream
  (`poll-loop.ts:423` against `docs/architecture.md:470`), a batch when its
  result comes and before its text is written (`poll-loop.ts:483`), and a batch
  whose query throws as well (`docs/agent-runner-details.md:446` says it stays
  `processing`).
* A container that hangs while booting has neither heartbeat nor claim;
  `decideStuckAction` finds nothing to complain of (`host-sweep.ts:201`).
* An answer to a question that comes after the tool's 300 seconds leaves a
  system row that counts as due.
* Approvals: a second press while the handler runs, or a crash between handler
  and deletion, applies the action twice; "failed" may be told while the card is
  live; a press that nobody may make takes the buttons off the card; a press
  after the expiry edits the card to "Approved" although the request was denied.
* Registration: the `'.'` pattern of direct chats is given to groups of adapters
  without threads (`permissions/index.ts:470` against `channel-approval.ts:21-22`);
  an operator who wires the chat first makes the connection throw; a second
  "new agent" overwrites the first; the header of `sender-approval.ts` says that
  no row is created without an adapter, and one is.
* Scheduling: a cancellation between completion and insertion is overruled; a
  crash between insertion and clearing doubles the series; a failed occurrence
  ends its series without a word.
* Links: a group that has a policy cannot be deleted; a message released by an
  approver is not checked against a link removed meanwhile; `policies.ts` lets an
  owner approve, `response-handler.ts:129-131` does not.
* Commands: a crash between an approved command's handler and the deletion of
  its card, or a second press while the handler is awaited
  (`response-handler.ts:105`), runs it again;
  an approved `groups restart` runs as the host and restarts every
  session, while `groups.ts:153-160` says the calling one; ids with a dash are
  taken for another command (`dispatch.ts:20-35`); lists are filtered after their
  LIMIT; an answer after `ncl`'s 30 seconds stays pending.
* Startup: a torn file forgets the attempts; messages routed while a later
  adapter retries find no delivery adapter; a duplicate key leaves the first
  adapter running.
* Setup: a retry after a failed save of a zone, or a failed terminal agent,
  skips that very step; after a failed ping the test agent stays, and a later
  run takes it for a registered one; the service step reports success without
  a loaded service; the rebuild after `add-codex` ignores the status of
  `build.sh` (`auto.ts:368`); `verify.ts:177` asks for a `SLACK_APP_TOKEN` that
  `add-slack.sh` does not write, and does not know signal.
* Uninstall: with `data/v2.db` gone this copy's own agents count as unknown;
  containers spawned after the listing stay.
* iMessage: a script stopped between two rewrites of `.env`
  (`add-imessage.sh:127-136`) leaves keys of both modes, or the new mode's name
  without its keys.

The sweep poll of `Delivery` has no guard against its own adapter: `OutboxDrains`
says exactly what a hanging call costs. In the active poll it costs the one
session it hangs in, in the sweep poll everything without a running container.

## 5. The proofs

Every safety invariant, every action property and every refinement that a run
checks is a theorem, for every value of the constants, of the component's own
specification or of the combined one. They rest on the assumptions about
constants that the modules state (`QueueConstants`, `LifecycleConstants`,
`DeliveryConstants`, `NumbersConstants`, `AdmissionConstants`,
`RegistrationConstants`, `ApprovalsConstants`, `SchedulingConstants`,
`ChatStateConstants`, `LinkConstants`, `CommandConstants`, `StartupConstants`,
`SetupConstants`, `ChannelConstants`, `UninstallConstants`, `FaultBound`) and on
the seven named below as hypotheses of single theorems. Each inductive invariant
was checked by TLC on the instance of the run before it was proved.

**SessionQueue_proofs.** `TypeCorrect`, `OneWriter`, `OneHanded`,
`NoEarlyFailure`, `RetryEarned`, `Implementation` and `SlotKept`. Types include
that only claims have an age. The inductive invariant `IInv` adds three parts,
each proved with the help of the earlier ones:

* *Tracking*: a running host tracks every live container, spawns only while it
  tracks none, and drops claims only while none lives. `SingleWriter` is its
  last part and is not inductive without the others: a container could come up
  between a reset and the deletion of the claims.
* *Hands*: `OneHand`, and which hands are empty at which point of the loop.
  `OneHand` alone is not inductive: a boot deletes claims, so nothing may be in
  hand there; the end of a stream drops its batch, so the outer loop must not
  have a second one.
* *Rows*: `FailedIsSpent`, no failed row is in hand, and only stored rows are
  acknowledged. A failed row in hand could still be acknowledged by a result
  and would then be both.

`RetryEarned` adds *Chargeable*: outside a reset every open claim has been made
since its last charge, or was left behind by a reset that was cut short: when
the host dies between rescheduling and deleting claims, or the deletion fails,
the claim is charged again after its back-off, once for each such fault. All
but `TypeCorrect` assume `StopFails = FALSE`: after a failed `docker stop` the
container is tracked no more, and *Tracking* is where it breaks (section 4).
`Implementation` maps every step to a step of
`MessageLifecycle` (a set of messages changes stage together), `SlotKept` to a
step of `ContainerSlot`.

**Sessions_proofs, containers.** `TypeCorrect`, `OneAtATime`, `StatusKept`,
`ContainerKept`, `Implementation`. The invariant `OneOfEach` ties the tables to
the calls: *Owners* (a call that prepares owns the promise, one with a client or
a pending event owns the entry, never both), *Clean* (a host that is down has
neither) and *Attached* (a container has its client, and there is one at most).
`OneAtATime`, `ContainerKept` and `Implementation` assume `Detach = FALSE`; a
failed `docker stop` breaks them (section 4).

**Message numbers.** `NumbersTyped` and `NumbersKept` (`NumbersSafe`), by
two invariants: a number that was told names its message (the numbers of
`messages_in` are even, those the container takes odd, so no later row of the
host shadows it), and a writer that was not overtaken has read what is still the
largest number, so that its insertion does not throw.

**Recurring tasks.** `SchedulingTyped`, `SeriesStays` (`SeriesKept`) and
`PauseKept`. `OneLive` and `SeriesSurvives` are inductive with *Rows* (what
failed or is not there is not worked off; a live row recurs until the agent says
otherwise). `CancelHolds` needs *Cancelled* (nothing is left that a sweep could
follow up, or a read made before the command would revive the series), and
`PauseHolds` needs *Rests* (nothing is in the runner's hands either).

**Delivery_proofs.** `TypeCorrect`, `SnapshotsKept`, `FewShowings`, `CardsKept`,
`OrderKept`, `Implementation`. The invariants build on each other:

* *Guard*: a chain that drains has its session in flight, alone, and one that
  does not holds nothing. `SnapshotsHold` needs it when the other chain enters.
* *Traces*: only written messages are shown or settled, and what a chain is to
  record has been shown.
* *Showings*: a message is shown once more than the faults account for only when
  that is on record or about to be; `ShownOnce` alone does not survive `Land`.
* *Asked*: a card on its way has its row, or has been answered.
* *Order*: what a snapshot leaves out of its session was late, is settled, or is
  newer; with that, sending the least of a snapshot overtakes nothing.

`Implementation` assumes `Outages = {{}}`: with an adapter for every channel and
an address on every row the delivery implements `Outbox`. `delivery_offline` is
what happens without it.

**Approvals_proofs.** `ApprovalsTyped`, `ActionsKept` (`ActionsSettled`) and
`OneVerdictKept`. The invariant has four parts:

* *Calling*: a call that is still looking for an approver has neither card nor
  row, and a request that is over is in a row, applied, or told; a credential's
  row belongs to a call that has ended, and its card expires only when its
  promise has left the map.
* *Presses*: a press that is dispatched as an entitled "approve" was consented.
  Without it a handler could run for nobody.
* *Once*: an action without doubt is not applied while its row is there, and one
  press at most is applying it. `AppliedOnce` alone is not inductive: it says
  nothing of a handler that still runs.
* *Promised*: the promise is pending while somebody may settle it.

`OneVerdictKept` maps every step to one of `Verdict`: presses of an approver to
`Consents`, timers, failures and restarts to a refusal of all that they end.

**Dialogues_proofs, admission.** `AdmissionTyped`, `AdmissionKept` (`AdmissionSafe`),
`RefusedOut`, `OneMeaning`. *OnlyByConsent* strengthens `Consent`: members
beyond the wired ones are granted, and a card on its way is of a stored request;
membership and grants grow together, which is why a replay admits nobody else.

**Registration.** `RegistrationTyped`, `OneWiring` (`WiredOnce`) and
`AskedStays`. `WiredOnce` is inductive with *AskedOnce*: the message of the
pending row is neither still waiting for its row nor among those that have wired
an agent. Without it, a connection could wire a message that was asked about
again.

**The dialogues together.** `DialoguesTyped`, `DialoguesKept` (`DialogueSteps`)
and `DialoguesVerdict` (`OneVerdict`) are about `DialoguesSpec`: each part's
invariant holds while another part moves, of which they share the faults only.

**Services_proofs, the chat SDK's state.** `ChatTyped`, `ChatKept` (`ChatSafe`),
`FirstReportKept` and `QueuesKept` (`QueuesAreFifo`).
*Held* ties handles to rows: a row carries the newest token of its bot, and a
handle that is in force and was not robbed is the one of the row, with the same
time left. `LockExclusive` alone says nothing of the row that the next
`acquireLock` looks at. *Won* does the same for reports and the rows of seen
messages.
`QueuesKept` reads a bot's rows in the order of their indices. Its invariant
*QueuesInv* says that the rows of a queue are those of some sequence, numbered
without a gap from some index on. The next index is then the sequence's end, and
the cut of `appendToList`, which compares indices, is the cut of the sequence;
were there gaps, the code would keep fewer entries than the queue may hold. A
lemma counts the rows up to an index by a bijection.

**Links between agents.** `LinksTyping`, `LinksAreSafe` (`LinksSafe`) and
`RoutesAreRight` (`RoutedRight`). *NamesAreLinks* says what a container knows
after links were removed, *RoomsInOrder* that the sessions of a group are numbered in
the order of their creation, which is what "the newest session" means when a
message answers none, and *RightAgent* that what has arrived is in a session of
the group it is addressed to.

**The command line.** `CommandsTyped`, `CommandsAreSafe` (`CommandsSafe`),
`RunsAreBounded` (`RunsOnApproval` and `RepeatsBounded`), `AnswersStand` and
`OwnGroupShown`. `CommandsAreSafe` assumes `OneSpelling`, that no order names its
group in both spellings (section 4); `RunsAreBounded` does not. How often a call runs is bounded through
*CallOK*: a row is dispatched at most as often as it came back since the last
crash of the host, and `MaxTries` times for each crash before it. That a row is
dispatched by one access only makes runs and approvals two separate counts; a
card whose handler has run is one more run than approvals only if the host
crashed since, and
*CardOK* carries the scope that let a request through from the card to the
approval, whatever the scope is by then. Lists are counted with the theorems
on cardinality.

**The services together.** `ServicesTyped`, `ServicesKept` (`ServiceSteps`) and
`ServicesQueues` (`QueuesAreFifo`). While tasks are not the part that moves, the
types are all that is kept of them: the budget of faults they share with
commands occurs in their own invariant.

**Installation_proofs, the start.** `StartupKeeps` and `StartupIsSafe`
(`StartupSafe`). *BackoffFollows* ties the attempt in the file to the delay that
is left and to the crashes that led there; *RunsFollow* lists the runs of the
window by age; *BoxesFollow* says whose containers there are at which point.
*Spacing* is what bounds the runs of a window: each began after the delay of its
place in the list (*Regular*), or the first is left over from before the window
passed without a start, and then it was all but a delay older than the second
(*LeftOver*). The runs alone are not inductive, hence *OnTime*: a run begins no
later than its delay after its start. A lemma adds the gaps up. Three hypotheses
about the constants are used: `FirstUndelayed`, that the first two delays are 0,
and `ScheduleGrows`, that none is shorter than the one before it, as in
`BACKOFF_SCHEDULE_S` (`circuit-breaker.ts:11`), and `LimitFitsWindow`, that the
delays between `RunLimit` runs and one more fill the window. With the code's
numbers (0, 0, 10, 30, 120, 300, 900 s) that is 9 runs an hour; the constants of
the run meet all three, with 4 runs in a window of 5.

**Migrations.** `MigrationsAreSafe` (`MigrationsSafe`). *SchemaFollows* says what
a recorded migration has left in the schema, whatever came after it, and that
nothing but what a later migration replaces is dropped; *NoneForgotten* that what
is not recorded is still before a runner that has begun; *OnceEach* that two
runners with one list do not both apply an entry. That rows are kept, a
part of `WholeSchema`, says little here: a migration's statements on the
rows are one step of the model. `Migrations` keeps what a
runner has to do as a set of places in the list, run least first, so that
these are statements about sets.

**The installation together.** `InstallationIsSafe`: `StartupSafe` and
`MigrationsSafe` beside each other, under the same three hypotheses.

**Wizard_proofs, setup.** `SetupIsSafe` (`SetupSafe`) and `SetupKept`
(`PickArrives`, `RetryResumes`). The order of the steps is what the invariant is
about: *BehindIsCounted* (what is behind the wizard was completed or skipped, or
is one of three steps that are not counted), *DoneIsBehind*, *AtIsToDo*,
*FailedAtStep* (a retry passes exactly the step that failed) and
*CountedIsThere* (what is counted is on the machine). `ReadyIsInstalled` alone
is not inductive: it says nothing of the steps that bring the wizard to "ready".
*TestIsOnTheWay* follows the test agent to its removal.

**Channel flows.** `FlowsAreSafe` (`FlowsSafe`) and `FlowsKept`
(`WiringIsServed`). *Untouched* (a flow that has only asked has changed nothing)
gives `BackLeavesNoTrace`, which leaves out the app package that the Teams flow may
have written by then; `OneMode` is inductive with what each stop of the script
leaves (*cut* until it has got through again); *BuiltFromTree*, *DownForGood*, *LinkedOnTheWay* and
*StartedOnIt* say what each flow has achieved at each of its steps, so long as
no failure was passed over, which is what a wiring at its end needs.

**The uninstaller.** `RemovalIsSafe` (`RemovalSafe`) and `RemovalKept`
(`RemoverSteps`: `BackupsStay`, and `HostStopsFirst` for a manager that obeyed
and a `pkill` that matched). *AskingFollows* (while it asks, all that was
found is there), *PlanFollows* (what of the plan is done is gone, was noted, has
failed unseen, or is put back by a host that runs; a file or the image never
fails unseen), *HostFollows* and *TheirsAreTold*. What was
chosen and what is left of the plan are sets here with the order of `remove.ts`
as a sequence of its own.

**The wizards together.** `WizardsAreSafe` and `WizardsKept` (`WizardSteps`).

Hypotheses of single theorems: `StopFails = FALSE`, `Detach = FALSE`,
`Outages = {{}}`, `OneSpelling`, `FirstUndelayed`, `ScheduleGrows` and
`LimitFitsWindow`. The
runs check these properties on instances that meet the hypotheses, and section 4
says what happens without the first four.

Left to TLC: the liveness properties (`AllSettle`, `OutboxDrains`,
`DialoguesEnd`, `ServicesEnd`, `InstallationEnds`, `WizardsEnd`), because
neither fairness nor ENABLED is within the prover's reach. No operator is
recursive.

## 6. What is not modelled

* Data: texts, formats, attachments, files, routing addresses, the payload of
  system actions. A message is a number with a class.
* In `SessionQueue`: the Bash time-out that widens the tolerance, continuations,
  several sessions of one agent. Every claim the tolerance could excuse is
  covered by leaving the moment of `Age` open.
* In `Delivery`: what a system action does. Its row is delivered like any
  other, so "shown" means "took effect", and `ShownOnce` says what a handler
  that is not idempotent must expect. What the handlers do is in `Commands`,
  `Scheduling` and `AgentLinks`.
* In `Admission`: direct messages, subscriptions, session modes other than per
  thread, how a user and a direct chat are resolved. Membership changes while
  messages are under way; a group's policy and wirings do not. In `Registration`: more than
  one unknown chat at a time. In `Approvals`: how the approver is picked.
* In `AgentLinks`: forwarded files, destinations that are channels, names that
  clash. In `Scheduling`: times, prompts, scripts. In `Commands`: the handlers
  of the other resources, which touch tables only.
* In `ChatState`: subscriptions and the caches of the SDK. In `Startup`: what the
  start does with files.
* In `Setup`, `ChannelSetup` and `Uninstall`: what is printed and asked in which
  words, help from Claude, the consoles of the platforms beyond their outcome,
  dry runs and running as root.
* The typing indicator (refreshes that nothing reads), the webhook server (a table
  of routes), mount security, egress rules and group files (path checks and
  generated files), providers and tools (the stream is the environment of the
  poll loop, the tools write rows), and the migration from version 1 (run once,
  by hand, on another program's files).

## 7. Plan

What the models leave for later, most consequential first:

1. A composition of `SessionQueue` and `Delivery` over the replies: which
   message can be acknowledged without an answer on the screen.
2. The time-out of the waiting question tool as steps of its own, with the
   system row it leaves.
3. The properties that a fault breaks (`SingleWriter` after a failed
   `docker stop`, `OutboxKept` without an adapter), each
   proved in the weaker form that holds with the fault.
4. `StuckDetection`: `decideStuckAction` over bounded clocks against a reference
   definition, in place of the comparisons that `SessionQueue` leaves open.
