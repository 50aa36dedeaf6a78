---------------------------- MODULE SessionQueue ----------------------------
(***************************************************************************)
(* One session of NanoClaw: the rows of its inbound.db (written by the     *)
(* host), the acknowledgements of its outbound.db (written by the          *)
(* container), the poll loop of the agent-runner, and the host side that   *)
(* stores messages, wakes and kills the container and sweeps the session.  *)
(*                                                                         *)
(* Time is abstracted to the comparisons the code makes: process_after in  *)
(* the future (deferred), a claim older than the tolerance (aged), the     *)
(* heartbeat later than a claim (beaten), the heartbeat older than the     *)
(* ceiling (hb = "old").  Messages are numbered in seq order.              *)
(***************************************************************************)
EXTENDS Naturals, FiniteSets

CONSTANTS
  MaxMsgs,     (* how many messages the behaviour may store (bound)        *)
  MaxTries,    (* MAX_TRIES of host-sweep.ts                               *)
  PromptLimit, (* maxMessagesPerPrompt of container.json                   *)
  MaxFaults,   (* crashes, hangs and requested restarts (bound)            *)
  Classes,     (* the kinds of message that arrive in this instance        *)
  HostFaults,  (* TRUE when the host may crash or fail to drop claims      *)
  StopFails,   (* TRUE when `docker stop` may fail and the container live  *)
  HangPoints   (* control points where the container may hang              *)

AllClasses == {"chat", "context", "task", "notice", "command", "system"}
RunnerPoints == {"booting", "polling", "claimed", "scripts", "query"}

ASSUME QueueConstants ==
  /\ MaxMsgs \in Nat \ {0}
  /\ MaxTries \in Nat
  /\ PromptLimit \in Nat \ {0}
  /\ MaxFaults \in Nat
  /\ Classes \subseteq AllClasses
  /\ HostFaults \in BOOLEAN
  /\ StopFails \in BOOLEAN
  /\ HangPoints \subseteq RunnerPoints

Msgs == 1 .. MaxMsgs

VARIABLES
  (* inbound.db: messages_in *)
  class,     (* kind, trigger and on_wake of each row; "none": no row yet  *)
  status,    (* messages_in.status                                         *)
  tries,     (* messages_in.tries                                          *)
  deferred,  (* rows whose process_after lies in the future                *)
  (* outbound.db: processing_ack, and the heartbeat file *)
  ack,       (* processing_ack.status, "none" when there is no row         *)
  aged,      (* claims older than the tolerance of decideStuckAction       *)
  beaten,    (* claims made before the last heartbeat                      *)
  hb,        (* the heartbeat file: absent, fresh, or past the ceiling     *)
  (* the agent-runner process *)
  cpc,       (* where its outer loop stands; "absent": no container        *)
  hung,      (* the process is alive and takes no further step             *)
  firstPoll, (* isFirstPoll                                                *)
  batch,     (* the ids the outer loop is working on                       *)
  ended,     (* endedForCommand: the stream has been aborted               *)
  follow,    (* claimed by the follow-up poll, scripts still running       *)
  orphan,    (* claimed by a follow-up poll whose query has ended          *)
  loose,     (* its docker client is gone, the container lives on          *)
  (* the host process *)
  up,        (* the host runs                                              *)
  tracked,   (* activeContainers has an entry for the session              *)
  spawning,  (* wakePromises has an entry for the session                  *)
  onExit,    (* the kill registered a wake for the close event             *)
  hpc,       (* where the host stands in its sweep or in a kill            *)
  (* history *)
  outcome,   (* how the runner disposed of each message it acknowledged    *)
  charged,   (* claimed since their last retry was charged, or left        *)
             (* claimed by a reset that was cut short                      *)
  faults     (* faults used up                                             *)

inVars == <<class, status, tries, deferred>>
ackVars == <<ack, aged, beaten>>
workVars == <<cpc, hung, firstPoll, batch, ended, follow, orphan>>
runVars == <<workVars, loose>>
hostVars == <<up, tracked, spawning, onExit, hpc>>
histVars == <<outcome, charged, faults>>
vars == <<inVars, ackVars, hb, runVars, hostVars, histVars>>

Init ==
  /\ class = [m \in Msgs |-> "none"]
  /\ status = [m \in Msgs |-> "none"]
  /\ tries = [m \in Msgs |-> 0]
  /\ deferred = {}
  /\ ack = [m \in Msgs |-> "none"]
  /\ aged = {} /\ beaten = {} /\ hb = "absent"
  /\ cpc = "absent" /\ hung = FALSE /\ firstPoll = FALSE
  /\ batch = {} /\ ended = FALSE /\ follow = {} /\ orphan = {}
  /\ loose = FALSE
  /\ up = TRUE /\ tracked = FALSE /\ spawning = FALSE /\ onExit = FALSE
  /\ hpc = "idle"
  /\ outcome = [m \in Msgs |-> "none"]
  /\ charged = {} /\ faults = 0

-----------------------------------------------------------------------------
(* Queries both sides make of the two databases. *)

OfClass(C) == {m \in Msgs : class[m] \in C}
Pending == {m \in Msgs : status[m] = "pending"}
Claims == {m \in Msgs : ack[m] = "processing"}
Acked == {m \in Msgs : ack[m] = "completed"}
Alive == cpc # "absent"
InHand == batch \cup follow \cup orphan

(* trigger = 1 is the default; only accumulated context has trigger = 0. *)
Wakeful == OfClass(AllClasses \ {"context"})

(* countDueMessages: on_wake and the acknowledgements do not count. *)
Due == (Pending \cap Wakeful) \ deferred

(* The newest PromptLimit rows of S, by seq. *)
Newest(S) == {m \in S : Cardinality({k \in S : k > m}) < PromptLimit}

(* Mutant of Fetch: the rows in processing_ack are not filtered out. *)
FetchUnfiltered(first) ==
  Newest({m \in Pending \ deferred : class[m] # "notice" \/ first})

(* getPendingMessages: the window is cut before acknowledged rows leave it. *)
Fetch(first) ==
  LET due == {m \in Pending \ deferred : class[m] # "notice" \/ first}
  IN  {m \in Newest(due) : ack[m] = "none"}

(* Host code that awaits nothing runs to its end: only while the host is   *)
(* idle, or its sweep awaits a spawn, can another of its handlers start.   *)
HostFree == up /\ (hpc = "idle" \/ (hpc = "waking" /\ spawning))

(* Every variable has its type; age and heartbeat are known of claims only. *)
TypeOK ==
  /\ class \in [Msgs -> AllClasses \cup {"none"}]
  /\ status \in [Msgs -> {"none", "pending", "completed", "failed"}]
  /\ tries \in [Msgs -> 0 .. MaxTries]
  /\ deferred \subseteq Msgs
  /\ ack \in [Msgs -> {"none", "processing", "completed"}]
  /\ aged \subseteq Claims /\ beaten \subseteq Claims
  /\ hb \in {"absent", "fresh", "old"}
  /\ cpc \in RunnerPoints \cup {"absent"}
  /\ hung \in BOOLEAN /\ firstPoll \in BOOLEAN /\ ended \in BOOLEAN
  /\ batch \subseteq Msgs /\ follow \subseteq Msgs /\ orphan \subseteq Msgs
  /\ loose \in BOOLEAN
  /\ up \in BOOLEAN /\ tracked \in BOOLEAN
  /\ spawning \in BOOLEAN /\ onExit \in BOOLEAN
  /\ hpc \in {"idle", "synced", "waking", "slaKill", "dropClaims", "restartKill"}
  /\ outcome \in [Msgs -> {"none", "finished", "pushed", "closed"}]
  /\ charged \subseteq Msgs
  /\ faults \in 0 .. MaxFaults

-----------------------------------------------------------------------------
(* Effects shared by several steps. *)

Fault == faults < MaxFaults /\ faults' = faults + 1

SetAck(S, value) ==
  ack' = [m \in Msgs |-> IF m \in S THEN value ELSE ack[m]]

(* markCompleted: an acknowledged row is no claim any more, so its age and *)
(* the heartbeat mean nothing.  touchHeartbeat (when beat holds) makes the *)
(* heartbeat later than every claim made so far.                           *)
Complete(S, beat) ==
  /\ SetAck(S, "completed")
  /\ aged' = aged \ S
  /\ beaten' = (IF beat THEN Claims ELSE beaten) \ S
  /\ hb' = IF beat THEN "fresh" ELSE hb

Note(S, what) ==
  outcome' = [m \in Msgs |-> IF m \in S /\ outcome[m] = "none" THEN what ELSE outcome[m]]

(* markProcessing.  status_changed has whole seconds, so a heartbeat of    *)
(* the same second already counts as later than the claim.                 *)
Take(S) ==
  /\ SetAck(S, "processing")
  /\ aged' = aged \ S
  /\ beaten' \in {beaten \ S} \cup (IF hb = "fresh" THEN {beaten \cup S} ELSE {})
  /\ charged' = charged \cup S

(* Mutant of ClearClaims: every row of processing_ack is deleted. *)
ClearAllRows ==
  /\ SetAck(Msgs, "none")
  /\ aged' = {} /\ beaten' = {}

(* The 'processing' rows of processing_ack are deleted: by the fresh       *)
(* runner's clearStaleProcessingAcks and by the sweep.                     *)
ClearClaims ==
  /\ SetAck(Claims, "none")
  /\ aged' = aged \ Claims
  /\ beaten' = beaten \ Claims

(* The container is gone, and what its process had in hand with it. *)
Gone ==
  /\ cpc' = "absent" /\ hung' = FALSE /\ firstPoll' = FALSE
  /\ batch' = {} /\ ended' = FALSE /\ follow' = {} /\ orphan' = {}
  /\ loose' = FALSE

(* stopContainer.  When it fails the host kills the docker client only:    *)
(* its close event comes, and the container goes on.                       *)
Stop ==
  \/ Gone /\ UNCHANGED faults
  \/ /\ StopFails /\ Alive /\ Fault
     /\ loose' = TRUE
     /\ UNCHANGED workVars

(* The claims outlive a reset that has already charged for them. *)
CutShort == charged' = charged \cup (IF hpc = "dropClaims" THEN Claims ELSE {})

(* markMessageFailed for the spent rows, retryWithBackoff for the others. *)
RetryOrFail(stuck, spent) ==
  /\ status' = [m \in Msgs |-> IF m \in spent THEN "failed" ELSE status[m]]
  /\ tries' = [m \in Msgs |-> IF m \in stuck \ spent THEN tries[m] + 1 ELSE tries[m]]
  /\ deferred' = deferred \cup (stuck \ spent)
  /\ charged' = charged \ (stuck \ spent)
  /\ UNCHANGED class

(* Mutant of ResetRows: tries > MAX_TRIES instead of tries >= MAX_TRIES. *)
ResetRowsOneMore ==
  LET stuck == (Claims \cap Pending) \ deferred
  IN  RetryOrFail(stuck, {m \in stuck : tries[m] > MaxTries})

(* Mutant of ResetRows: completed acknowledgements count as claims. *)
ResetRowsAnyAck ==
  LET stuck == ((Claims \cup Acked) \cap Pending) \ deferred
  IN  RetryOrFail(stuck, {m \in stuck : tries[m] >= MaxTries})

(* resetStuckProcessingRows, before its last step deletes the claims. *)
ResetRows ==
  LET stuck == (Claims \cap Pending) \ deferred
  IN  RetryOrFail(stuck, {m \in stuck : tries[m] >= MaxTries})

-----------------------------------------------------------------------------
(* The host: storing messages and requesting restarts. *)

(* insertMessage: the row gets the next seq. *)
Insert(m, c) ==
  /\ class[m] = "none" /\ \A k \in Msgs : k < m => class[k] # "none"
  /\ class' = [class EXCEPT ![m] = c]
  /\ status' = [status EXCEPT ![m] = "pending"]
  /\ UNCHANGED tries

(* The router, the approval and question handlers and the scheduling       *)
(* action store a row; all but accumulated context and tasks, which may be *)
(* due later, wake the container at once (wakeContainer joins a spawn in   *)
(* flight and does nothing when a container is tracked).                   *)
Arrive(m, c) ==
  /\ HostFree /\ c # "notice"
  /\ Insert(m, c)
  /\ deferred' \in {deferred} \cup (IF c = "task" THEN {deferred \cup {m}} ELSE {})
  /\ spawning' = (spawning \/ (c \notin {"context", "task"} /\ ~tracked))
  /\ UNCHANGED <<ackVars, hb, runVars, up, tracked, onExit, hpc, histVars>>

(* A self-modification was applied, or a restart with a message asked for: *)
(* an on_wake row is stored and the container killed, with a wake          *)
(* registered for its exit.  Without a container to kill, an approval      *)
(* wakes one itself; a restart asked for by the agent leaves it be.        *)
ApplyChange(m) ==
  /\ HostFree /\ Fault
  /\ Insert(m, "notice")
  /\ hpc' = IF tracked THEN "restartKill" ELSE hpc
  /\ onExit' = (onExit \/ tracked)
  /\ spawning' \in {spawning, spawning \/ ~tracked}
  /\ UNCHANGED <<deferred, ackVars, hb, runVars, up, tracked, outcome, charged>>

(* A restart without a message respawns when some row is due, or not at    *)
(* all when the agent asked for it.                                        *)
Restart ==
  /\ HostFree /\ tracked /\ Fault
  /\ hpc' = "restartKill"
  /\ onExit' \in {onExit, onExit \/ Due # {}}
  /\ UNCHANGED <<inVars, ackVars, hb, runVars, up, tracked, spawning, outcome, charged>>

(* The blocking `docker stop` of a restart returns.  Until then the runner *)
(* may still take steps.                                                   *)
RestartKilled ==
  /\ up /\ hpc = "restartKill"
  /\ Stop
  /\ hpc' = "idle"
  /\ UNCHANGED <<inVars, ackVars, hb, up, tracked, spawning, onExit>>
  /\ UNCHANGED <<outcome, charged>>

-----------------------------------------------------------------------------
(* The host: the container's process. *)

(* Mutant of CloseEvent: the entry is dropped before the process is gone. *)
CloseEarly ==
  /\ HostFree /\ tracked
  /\ tracked' = FALSE
  /\ spawning' = onExit
  /\ onExit' = FALSE
  /\ UNCHANGED <<inVars, ackVars, hb, runVars, up, hpc, histVars>>

(* spawnContainer gets through: the old heartbeat is removed.  A container *)
(* that no `docker stop` reached is followed no further from here on.      *)
SpawnOk ==
  /\ HostFree /\ spawning
  /\ spawning' = FALSE /\ tracked' = TRUE
  /\ hb' = "absent"
  /\ cpc' = "booting" /\ hung' = FALSE /\ firstPoll' = FALSE
  /\ batch' = {} /\ ended' = FALSE /\ follow' = {} /\ orphan' = {}
  /\ loose' = FALSE
  /\ UNCHANGED <<inVars, ackVars, up, onExit, hpc, histVars>>

SpawnFail ==
  /\ HostFree /\ spawning
  /\ spawning' = FALSE
  /\ UNCHANGED <<inVars, ackVars, hb, runVars, up, tracked, onExit, hpc, histVars>>

(* The 'close' event of the docker client, which ends with its container   *)
(* or was killed, and the wake a kill registered for it.                   *)
CloseEvent ==
  /\ HostFree /\ tracked /\ (Alive => loose)
  /\ tracked' = FALSE
  /\ spawning' = onExit
  /\ onExit' = FALSE
  /\ UNCHANGED <<inVars, ackVars, hb, runVars, up, hpc, histVars>>

(* The container outlives the host; cleanupOrphans stops it at the next    *)
(* start, and goes on when that fails.                                     *)
HostCrash ==
  /\ HostFaults /\ up /\ Fault
  /\ CutShort
  /\ up' = FALSE /\ tracked' = FALSE /\ spawning' = FALSE /\ onExit' = FALSE
  /\ hpc' = "idle"
  /\ UNCHANGED <<inVars, ackVars, hb, runVars, outcome>>

HostStart ==
  /\ ~up
  /\ up' = TRUE
  /\ Stop
  /\ UNCHANGED <<inVars, ackVars, hb, tracked, spawning, onExit, hpc>>
  /\ UNCHANGED <<outcome, charged>>

-----------------------------------------------------------------------------
(* The host: sweepSession. *)

SweepSync ==
  /\ up /\ hpc = "idle"
  /\ status' = [m \in Msgs |-> IF m \in Acked THEN "completed" ELSE status[m]]
  /\ hpc' = "synced"
  /\ UNCHANGED <<class, tries, deferred, ackVars, hb, runVars>>
  /\ UNCHANGED <<up, tracked, spawning, onExit, histVars>>

SweepWake ==
  /\ up /\ hpc = "synced" /\ Due # {} /\ ~tracked
  /\ spawning' = TRUE
  /\ hpc' = "waking"
  /\ UNCHANGED <<inVars, ackVars, hb, runVars, up, tracked, onExit, histVars>>

(* The awaited wake settled: a fresh container is spared the check.        *)
SweepWoken ==
  /\ up /\ hpc = "waking" /\ ~spawning /\ tracked
  /\ hpc' = "idle"
  /\ UNCHANGED <<inVars, ackVars, hb, runVars, up, tracked, spawning, onExit, histVars>>

(* Mutant of StuckClaim: a missing heartbeat excuses every claim. *)
StuckClaimWithBeat == hb # "absent" /\ \E m \in Claims \cap aged : m \notin beaten

(* decideStuckAction: the heartbeat is past the ceiling, or a claim is     *)
(* older than the tolerance and nothing has been heard since it was made.  *)
PastCeiling == hb = "old"
StuckClaim == \E m \in Claims \cap aged : m \notin beaten

SweepEnforce ==
  /\ up /\ hpc = "synced" /\ tracked
  /\ hpc' = IF PastCeiling \/ StuckClaim THEN "slaKill" ELSE "idle"
  /\ UNCHANGED <<inVars, ackVars, hb, runVars, up, tracked, spawning, onExit, histVars>>

SlaKilled ==
  /\ up /\ hpc = "slaKill"
  /\ Stop
  /\ ResetRows
  /\ hpc' = "dropClaims"
  /\ UNCHANGED <<ackVars, hb, up, tracked, spawning, onExit, outcome>>

(* Mutant of SweepCleanup: it does not ask whether a container runs. *)
SweepCleanupAlways ==
  /\ up
  /\ \/ hpc = "synced" /\ Due = {}
     \/ hpc = "waking" /\ ~spawning
  /\ ResetRows
  /\ hpc' = "dropClaims"
  /\ UNCHANGED <<ackVars, hb, runVars, up, tracked, spawning, onExit, outcome, faults>>

(* No container: nothing was due, or the wake failed. *)
SweepCleanup ==
  /\ up /\ ~tracked
  /\ \/ hpc = "synced" /\ Due = {}
     \/ hpc = "waking" /\ ~spawning
  /\ ResetRows
  /\ hpc' = "dropClaims"
  /\ UNCHANGED <<ackVars, hb, runVars, up, tracked, spawning, onExit, outcome, faults>>

(* Mutant of DropClaims: the claims stay. *)
DropNothing ==
  /\ up /\ hpc = "dropClaims"
  /\ hpc' = "idle"
  /\ UNCHANGED <<inVars, ackVars, hb, runVars, up, tracked, spawning, onExit, histVars>>

(* deleteOrphanProcessingClaims *)
DropClaims ==
  /\ up /\ hpc = "dropClaims"
  /\ ClearClaims
  /\ hpc' = "idle"
  /\ UNCHANGED <<inVars, hb, runVars, up, tracked, spawning, onExit, histVars>>

(* Opening or writing outbound.db fails: the sweep logs it and goes on. *)
DropFails ==
  /\ HostFaults /\ Fault
  /\ up /\ hpc = "dropClaims"
  /\ CutShort
  /\ hpc' = "idle"
  /\ UNCHANGED <<inVars, ackVars, hb, runVars, up, tracked, spawning, onExit, outcome>>

-----------------------------------------------------------------------------
(* The agent-runner: runPollLoop and processQuery. *)

Running(point) == cpc = point /\ ~hung

Boot ==
  /\ Running("booting")
  /\ ClearClaims
  /\ cpc' = "polling" /\ firstPoll' = TRUE
  /\ UNCHANGED <<inVars, hb, hung, batch, ended, follow, orphan, loose>>
  /\ UNCHANGED <<hostVars, histVars>>

Polled == Fetch(firstPoll) \ OfClass({"system"})

(* The accumulate gate: context alone does not start a turn. *)
PollIdle ==
  /\ Running("polling") /\ firstPoll
  /\ Polled \cap Wakeful = {}
  /\ firstPoll' = FALSE
  /\ UNCHANGED <<inVars, ackVars, hb, cpc, hung, batch, ended, follow, orphan>>
  /\ UNCHANGED <<loose, hostVars, histVars>>

PollClaim ==
  /\ Running("polling")
  /\ Polled \cap Wakeful # {}
  /\ Take(Polled)
  /\ batch' = Polled
  /\ cpc' = "claimed" /\ firstPoll' = FALSE
  /\ UNCHANGED <<inVars, hb, hung, ended, follow, orphan, loose>>
  /\ UNCHANGED <<hostVars, outcome, faults>>

(* /clear and /upload-trace are handled by the loop itself. *)
Commands ==
  LET cmds == batch \cap OfClass({"command"})
  IN  /\ Running("claimed")
      /\ Complete(cmds, FALSE)
      /\ Note(cmds, "finished")
      /\ batch' = batch \ cmds
      /\ cpc' = IF batch = cmds THEN "polling" ELSE "scripts"
      /\ UNCHANGED <<inVars, hung, firstPoll, ended, follow, orphan, loose>>
      /\ UNCHANGED <<hostVars, charged, faults>>

(* applyPreTaskScripts: a task may carry a script, each script touches the *)
(* heartbeat, and it may skip its task.                                    *)
Scripted(S, beat, skip) ==
  /\ skip \subseteq S \cap OfClass({"task"})
  /\ beat => S \cap OfClass({"task"}) # {}
  /\ skip # {} => beat

Scripts ==
  \E skip \in SUBSET batch, beat \in BOOLEAN :
     /\ Running("scripts")
     /\ Scripted(batch, beat, skip)
     /\ Complete(skip, beat)
     /\ Note(skip, "finished")
     /\ batch' = batch \ skip
     /\ cpc' = IF batch = skip THEN "polling" ELSE "query"
     /\ UNCHANGED <<inVars, hung, firstPoll, ended, follow, orphan, loose>>
     /\ UNCHANGED <<hostVars, charged, faults>>

(* Any event of the provider's stream. *)
Beat ==
  /\ Running("query")
  /\ Complete({}, TRUE)
  /\ UNCHANGED <<inVars, runVars, hostVars, histVars>>

(* A 'result' event: the turn is over, the stream stays open. *)
Result ==
  /\ Running("query")
  /\ Complete(batch, TRUE)
  /\ Note(batch, "finished")
  /\ UNCHANGED <<inVars, runVars, hostVars, charged, faults>>

(* The stream ends, by itself or aborted, or it throws: the batch is       *)
(* acknowledged all the same, and a follow-up poll in flight outlives its  *)
(* query.                                                                  *)
StreamEnd ==
  /\ Running("query")
  /\ Complete(batch, FALSE)
  /\ Note(batch, "closed")
  /\ batch' = {} /\ ended' = FALSE
  /\ orphan' = orphan \cup follow /\ follow' = {}
  /\ cpc' = "polling"
  /\ UNCHANGED <<inVars, hung, firstPoll, loose, hostVars, charged, faults>>

(* The follow-up poll of an open stream; it does not apply the accumulate  *)
(* gate.  A pending command aborts the stream instead.                     *)
FollowPoll ==
  LET new == Fetch(FALSE) \ OfClass({"system"})
      commanded == Fetch(FALSE) \cap OfClass({"command"}) # {}
  IN  /\ Running("query") /\ follow = {} /\ ~ended
      /\ new # {}
      /\ \/ /\ commanded
            /\ ended' = TRUE
            /\ UNCHANGED <<ackVars, follow, charged>>
         \/ /\ ~commanded
            /\ Take(new)
            /\ follow' = new
            /\ UNCHANGED ended
      /\ UNCHANGED <<inVars, hb, cpc, hung, firstPoll, batch, orphan, loose>>
      /\ UNCHANGED <<hostVars, outcome, faults>>

(* Its scripts are done and the query is still open: what is kept is       *)
(* pushed into the stream, and acknowledged at once.                       *)
FollowPush ==
  \E skip \in SUBSET follow, beat \in BOOLEAN :
     /\ Running("query") /\ follow # {}
     /\ Scripted(follow, beat, skip)
     /\ Complete(follow, beat)
     /\ outcome' = [m \in Msgs |-> IF m \in skip THEN "finished"
                                   ELSE IF m \in follow THEN "pushed" ELSE outcome[m]]
     /\ follow' = {}
     /\ UNCHANGED <<inVars, cpc, hung, firstPoll, batch, ended, orphan, loose>>
     /\ UNCHANGED <<hostVars, charged, faults>>

(* A script, the push or an acknowledgement throws.  The poll logs it and  *)
(* the query goes on, but nobody has the claimed rows in hand any more.    *)
FollowFails ==
  \E skip \in SUBSET follow, beat \in BOOLEAN :
     /\ Running("query") /\ follow # {} /\ Fault
     /\ Scripted(follow, beat, skip)
     /\ Complete(skip, beat)
     /\ Note(skip, "finished")
     /\ follow' = {}
     /\ UNCHANGED <<inVars, cpc, hung, firstPoll, batch, ended, orphan, loose>>
     /\ UNCHANGED <<hostVars, charged>>

(* Its query has ended meanwhile: what is kept stays claimed, and nobody   *)
(* has it in hand any more.                                                *)
FollowTooLate ==
  \E done, skip \in SUBSET orphan, beat \in BOOLEAN :
     /\ Alive /\ ~hung /\ done # {}
     /\ Scripted(done, beat, skip)
     /\ Complete(skip, beat)
     /\ Note(skip, "finished")
     /\ orphan' = orphan \ done
     /\ UNCHANGED <<inVars, cpc, hung, firstPoll, batch, ended, follow, loose>>
     /\ UNCHANGED <<hostVars, charged, faults>>

(* ask_user_question finds the row with its answer. *)
ReadAnswer(m) ==
  /\ Running("query")
  /\ class[m] = "system" /\ m \in Pending /\ ack[m] = "none"
  /\ Complete({m}, FALSE)
  /\ Note({m}, "finished")
  /\ UNCHANGED <<inVars, runVars, hostVars, charged, faults>>

-----------------------------------------------------------------------------
(* Faults of the container, and time. *)

ContainerCrash ==
  /\ Alive /\ Fault
  /\ Gone
  /\ UNCHANGED <<inVars, ackVars, hb, hostVars, outcome, charged>>

Hang ==
  /\ cpc \in HangPoints /\ ~hung /\ Fault
  /\ hung' = TRUE
  /\ UNCHANGED <<inVars, ackVars, hb, cpc, firstPoll, batch, ended, follow, orphan>>
  /\ UNCHANGED loose
  /\ UNCHANGED <<hostVars, outcome, charged>>

Elapse(m) ==
  /\ m \in deferred
  /\ deferred' = deferred \ {m}
  /\ UNCHANGED <<class, status, tries, ackVars, hb, runVars, hostVars, histVars>>

Age(m) ==
  /\ m \in Claims \ aged
  /\ aged' = aged \cup {m}
  /\ UNCHANGED <<inVars, ack, beaten, hb, runVars, hostVars, histVars>>

Quiet ==
  /\ hb = "fresh"
  /\ hb' = "old"
  /\ UNCHANGED <<inVars, ackVars, runVars, hostVars, histVars>>

-----------------------------------------------------------------------------
Store ==
  \E m \in Msgs :
     \/ \E c \in Classes : Arrive(m, c)
     \/ "notice" \in Classes /\ ApplyChange(m)

Process == SpawnOk \/ SpawnFail \/ CloseEvent \/ HostCrash \/ HostStart

Sweep ==
  \/ SweepSync \/ SweepWake \/ SweepWoken \/ SweepEnforce
  \/ SlaKilled \/ SweepCleanup \/ DropClaims \/ DropFails

Runner ==
  \/ Boot \/ PollIdle \/ PollClaim \/ Commands \/ Scripts
  \/ Beat \/ Result \/ StreamEnd
  \/ FollowPoll \/ FollowPush \/ FollowFails \/ FollowTooLate
  \/ \E m \in Msgs : ReadAnswer(m)

Clock == Quiet \/ \E m \in Msgs : Elapse(m) \/ Age(m)

Next ==
  \/ Store \/ Restart \/ RestartKilled
  \/ Process \/ Sweep
  \/ Runner \/ ContainerCrash \/ Hang
  \/ Clock

Spec == Init /\ [][Next]_vars

(***************************************************************************)
(* Fairness.  The two host loops and the runner's loops re-arm themselves  *)
(* with timers, so each of their steps is weakly fair.  A spawn may fail   *)
(* any number of times but not for ever (strong fairness of SpawnOk).      *)
(* Result is fair: a turn that is not hung ends.  An open stream need not  *)
(* end by itself, only when it has been aborted.  Clock values advance;    *)
(* fairness of Quiet says that no container emits events for ever without  *)
(* a pause as long as the ceiling.                                         *)
(***************************************************************************)
Fairness ==
  /\ WF_vars(RestartKilled) /\ WF_vars(HostStart)
  /\ SF_vars(SpawnOk) /\ SF_vars(CloseEvent)
  /\ WF_vars(SweepSync) /\ WF_vars(SweepWake) /\ WF_vars(SweepWoken)
  /\ WF_vars(SweepEnforce) /\ WF_vars(SlaKilled)
  /\ WF_vars(SweepCleanup) /\ WF_vars(DropClaims)
  /\ WF_vars(Boot) /\ WF_vars(PollIdle) /\ WF_vars(PollClaim)
  /\ WF_vars(Commands) /\ WF_vars(Scripts) /\ WF_vars(Result)
  /\ WF_vars(ended /\ StreamEnd)
  /\ WF_vars(FollowPoll) /\ WF_vars(FollowPush) /\ WF_vars(FollowTooLate)
  /\ WF_vars(Quiet)
  /\ \A m \in Msgs : WF_vars(Elapse(m)) /\ WF_vars(Age(m))

FairSpec == Spec /\ Fairness

-----------------------------------------------------------------------------
(***************************************************************************)
(* Properties.                                                             *)
(***************************************************************************)

(* The host deletes claims only while no container of the session runs     *)
(* (deleteOrphanProcessingClaims: "Safe because the host only writes to    *)
(* outbound.db when no container is running").  It is said of claims only: *)
(* the rows that the router writes to messages_out beside a running        *)
(* container are MessageNumbers' matter.                                   *)
SingleWriter == hpc = "dropClaims" => ~Alive

(* Whatever the runner has in hand is held by one of its loops only, and   *)
(* stays acknowledged while it is held: no poll of the same container can  *)
(* fetch it a second time.                                                 *)
OneHand ==
  /\ batch \cap follow = {} /\ batch \cap orphan = {} /\ follow \cap orphan = {}
  /\ \A m \in InHand : ack[m] # "none"

(* A message is given up only when all retries are used, and never one     *)
(* that a container has acknowledged.                                      *)
FailedIsSpent ==
  \A m \in Msgs : status[m] = "failed" => tries[m] = MaxTries /\ m \notin Acked

(* Every retry charged to a message, and its giving up, answers a claim    *)
(* made since the last charge, or one that a crash or an unwritable        *)
(* outbound.db left behind between the two writes of a reset: sweeping     *)
(* twice does not punish a message twice for one crash.                    *)
RetryIsEarned ==
  [][\A m \in Msgs :
        (tries'[m] > tries[m] \/ (status'[m] = "failed" /\ status[m] # "failed"))
          => m \in charged]_vars

(* What the session promises about each message, without databases, polls  *)
(* and sweeps.                                                             *)
Stage(m) ==
  IF class[m] = "none" THEN "absent"
  ELSE IF status[m] = "failed" THEN "failed"
  ELSE IF ack[m] = "completed" THEN "answered"
  ELSE IF ack[m] = "processing" THEN "claimed"
  ELSE "queued"

Life == INSTANCE MessageLifecycle
          WITH stage <- [m \in Msgs |-> Stage(m)], retries <- tries

(* The session queue implements the life cycle of its messages: a message  *)
(* in hand is not taken again, an answered or given-up one never comes     *)
(* back, retries are bounded.                                              *)
Lifecycle == Life!LifeSpec

Slot == INSTANCE ContainerSlot
          WITH known <- tracked, starting <- spawning, live <- Alive

(* Wakes, sweeps, restarts and crashes of the queue use the container slot *)
(* as the container runner offers it: no second container is started       *)
(* beside a live one, whichever of them asks first.                        *)
OneContainer == Slot!SlotSpec

(* A claim that nobody has in hand, under a container that lives and whose *)
(* later heartbeats excuse it.                                             *)
Masked(m) == Alive /\ m \in beaten \ InHand

(* Rows that stay as they are fill the window of every poll. *)
Crowded ==
  LET due == Pending \ deferred
  IN  Cardinality({m \in due : Masked(m) \/ class[m] \in {"context", "system"}})
        >= PromptLimit

(* Every row that may wake the agent is acknowledged or given up in the    *)
(* end, through spawn failures, crashes, hangs and restarts.               *)
Triggered(m) == status[m] = "pending" /\ class[m] \in {"chat", "task", "command"}
TriggerSettles ==
  \A m \in Msgs : Triggered(m) ~> status[m] \in {"completed", "failed"}

(* No claim stays open for ever, not even one that a follow-up poll left   *)
(* behind because its query had ended ("the claimed messages get released  *)
(* by the host's processing-claim sweep").                                 *)
ClaimSettles == \A m \in Msgs : ack[m] = "processing" ~> ack[m] # "processing"

(* What the code does keep of the two: every row that may wake the agent   *)
(* is acknowledged or given up, and every claim is ended, through spawn    *)
(* failures, crashes, hangs and restarts, unless the row is left claimed   *)
(* for ever, masked by the heartbeats of later turns, or rows that stay    *)
(* crowd it out of the window.                                             *)
AllSettle ==
  \A m \in Msgs :
     \/ <>[]Masked(m)
     \/ <>[]Crowded
     \/ /\ Triggered(m) ~> status[m] \in {"completed", "failed"}
        /\ ack[m] = "processing" ~> ack[m] # "processing"

(* What the comments and documents say and the code does not keep.         *)

(* An on_wake row is "picked up only by the fresh container's first poll": *)
(* it reaches one in the end.                                              *)
NoticeSettles ==
  \A m \in Msgs :
     (status[m] = "pending" /\ class[m] = "notice")
       ~> status[m] \in {"completed", "failed"}

(* A message is acknowledged after its processing, not when it is handed   *)
(* to a stream that may still die.                                         *)
CompletedIsProcessed == \A m \in Acked : outcome[m] # "pushed"

=============================================================================
