------------------------------ MODULE Scheduling ------------------------------
(***************************************************************************)
(* One recurring task of a session: a series of messages_in rows, the      *)
(* agent-runner that works them off, the sweep that inserts the next       *)
(* occurrence of a completed one, and the commands cancel, pause, resume   *)
(* and update, which the delivery poll applies at any time.                *)
(*                                                                         *)
(* The times of the occurrences are abstracted from: a pending row may be  *)
(* due at once.  Of a recurrence only matters whether it is there and      *)
(* whether cron-parser understands it.                                     *)
(***************************************************************************)
EXTENDS Naturals, FiniteSets, Faults

CONSTANTS
  MaxOccurrences,  (* rows of the series (bound)                           *)
  MaxCommands      (* commands of the agent (bound)                        *)

Occurrences == 1 .. MaxOccurrences

ASSUME SchedulingConstants == MaxOccurrences \in Nat \ {0} /\ MaxCommands \in Nat

VARIABLES
  occurrence,  (* messages_in.status of each row, or "absent"              *)
  cron,        (* messages_in.recurrence of each row                       *)
  ack,         (* processing_ack of each row                               *)
  synced,      (* the sweep has synchronized the acknowledgements          *)
  cloning,     (* the completed rows a sweep has read and not yet cloned   *)
  commands,    (* commands used up                                         *)
  standing,    (* history: the last of cancel, pause and resume            *)
  late,        (* history: it came while a successor was due in any case   *)
  torn,        (* history: crashes between an insertion and its clearing   *)
  stopped      (* history: the agent cancelled or cleared the recurrence   *)

seriesVars == <<occurrence, cron, ack>>
tickVars == <<synced, cloning>>
schedHistVars == <<standing, late, torn, stopped>>
schedulingVars == <<seriesVars, tickVars, commands, schedHistVars, faults>>

Alive(o) == occurrence[o] \in {"pending", "paused"}
Recurs(o) == cron[o] # "none"

(* getCompletedRecurring. *)
Unfollowed == {o \in Occurrences : occurrence[o] = "completed" /\ Recurs(o)}

Unused == {o \in Occurrences : occurrence[o] = "absent"}

SchedulingInit ==
  /\ occurrence = [o \in Occurrences |-> IF o = 1 THEN "pending" ELSE "absent"]
  /\ cron = [o \in Occurrences |-> IF o = 1 THEN "cron" ELSE "none"]
  /\ ack = [o \in Occurrences |-> "none"]
  /\ synced = FALSE /\ cloning = {}
  /\ commands = 0
  /\ standing = "none" /\ late = FALSE /\ torn = 0 /\ stopped = FALSE
  /\ faults = 0

(* Every variable has its type, only rows that exist recur or are worked   *)
(* off, and only completed ones are about to be cloned.                    *)
SchedulingTypeOK ==
  /\ occurrence \in [Occurrences -> {"absent", "pending", "paused", "completed", "failed"}]
  /\ cron \in [Occurrences -> {"none", "cron", "nonsense"}]
  /\ ack \in [Occurrences -> {"none", "processing", "done"}]
  /\ synced \in BOOLEAN /\ cloning \subseteq Occurrences
  /\ commands \in 0 .. MaxCommands
  /\ standing \in {"none", "cancelled", "paused", "resumed"}
  /\ late \in BOOLEAN /\ torn \in 0 .. MaxFaults /\ stopped \in BOOLEAN
  /\ faults \in 0 .. MaxFaults
  /\ \A o \in Occurrences :
       /\ occurrence[o] = "absent" => cron[o] = "none" /\ ack[o] = "none"
       /\ o \in cloning => occurrence[o] = "completed"

-----------------------------------------------------------------------------
(* The agent-runner (see SessionQueue).                                    *)

Claim(o) ==
  /\ occurrence[o] = "pending" /\ ack[o] = "none"
  /\ ack' = [ack EXCEPT ![o] = "processing"]
  /\ UNCHANGED <<occurrence, cron, tickVars, commands, schedHistVars, faults>>

Complete(o) ==
  /\ ack[o] = "processing" /\ ack' = [ack EXCEPT ![o] = "done"]
  /\ UNCHANGED <<occurrence, cron, tickVars, commands, schedHistVars, faults>>

(* The container dies: the sweep drops the claim, and gives a row up that  *)
(* has been tried too often.                                               *)
RunFails(o) ==
  /\ Fault
  /\ ack[o] = "processing" /\ ack' = [ack EXCEPT ![o] = "none"]
  /\ \/ UNCHANGED occurrence
     \/ /\ occurrence[o] = "pending"
        /\ occurrence' = [occurrence EXCEPT ![o] = "failed"]
  /\ UNCHANGED <<cron, tickVars, commands, schedHistVars>>

-----------------------------------------------------------------------------
(* The sweep.                                                              *)

(* syncProcessingAcks: whatever the row's status was.                      *)
SyncAcks ==
  /\ ~synced /\ synced' = TRUE
  /\ occurrence' = [o \in Occurrences |->
       IF ack[o] = "done" THEN "completed" ELSE occurrence[o]]
  /\ UNCHANGED <<cron, ack, cloning, commands, schedHistVars, faults>>

(* A wake was awaited; handleRecurrence reads the completed rows.          *)
ReadCompleted ==
  /\ synced /\ synced' = FALSE
  /\ cloning = {} /\ cloning' = Unfollowed
  /\ UNCHANGED <<seriesVars, commands, schedHistVars, faults>>

(* insertRecurrence: a pending row that copies the one that was read.      *)
NewRow == CHOOSE n \in Unused : \A m \in Unused : n <= m
InsertNext == occurrence' = [occurrence EXCEPT ![NewRow] = "pending"]

(* cron-parser was awaited: the next occurrence is inserted and the old    *)
(* one's recurrence cleared.                                               *)
Clone(o) ==
  /\ o \in cloning /\ cron[o] = "cron" /\ Unused # {}
  /\ cloning' = cloning \ {o}
  /\ InsertNext /\ cron' = [cron EXCEPT ![NewRow] = "cron", ![o] = "none"]
  /\ UNCHANGED <<ack, synced, commands, schedHistVars, faults>>

(* The host dies in between.                                               *)
CloneTorn(o) ==
  /\ Fault
  /\ o \in cloning /\ cron[o] = "cron" /\ Unused # {}
  /\ InsertNext /\ cron' = [cron EXCEPT ![NewRow] = "cron"]
  /\ torn' = torn + 1
  /\ cloning' = {} /\ synced' = FALSE
  /\ UNCHANGED <<ack, commands, standing, late, stopped>>

(* An expression that does not parse is logged, and tried again by every   *)
(* sweep.                                                                  *)
CloneFails(o) ==
  /\ o \in cloning /\ cron[o] = "nonsense"
  /\ cloning' = cloning \ {o}
  /\ UNCHANGED <<seriesVars, synced, commands, schedHistVars, faults>>

HostDiesSweeping ==
  /\ Fault
  /\ cloning' = {} /\ synced' = FALSE
  /\ UNCHANGED <<seriesVars, commands, schedHistVars>>

-----------------------------------------------------------------------------
(* Commands of the agent, applied by the delivery poll.                    *)

Command == commands < MaxCommands /\ commands' = commands + 1

(* A successor is on its way, whatever is done to the live rows: an        *)
(* occurrence is completed and recurs.                                     *)
SuccessorDue == Unfollowed # {}

(* The runner has claimed a live row, or worked it off since the sweep     *)
(* last looked.                                                            *)
InHand == \E o \in Occurrences : Alive(o) /\ ack[o] # "none"

(* Mutant of Cancel: only the row named is cancelled, not its series. *)
CancelFirst ==
  /\ Command
  /\ occurrence' = [occurrence EXCEPT ![1] = IF Alive(1) THEN "completed" ELSE @]
  /\ cron' = [cron EXCEPT ![1] = IF Alive(1) THEN "none" ELSE @]
  /\ standing' = "cancelled" /\ late' = SuccessorDue /\ stopped' = TRUE
  /\ UNCHANGED <<ack, tickVars, torn, faults>>

Cancel ==
  /\ Command
  /\ occurrence' = [o \in Occurrences |-> IF Alive(o) THEN "completed" ELSE occurrence[o]]
  /\ cron' = [o \in Occurrences |-> IF Alive(o) THEN "none" ELSE cron[o]]
  /\ standing' = "cancelled" /\ late' = SuccessorDue /\ stopped' = TRUE
  /\ UNCHANGED <<ack, tickVars, torn, faults>>

Pause ==
  /\ Command
  /\ occurrence' = [o \in Occurrences |->
       IF occurrence[o] = "pending" THEN "paused" ELSE occurrence[o]]
  /\ standing' = IF standing = "cancelled" THEN standing ELSE "paused"
  /\ late' = IF standing = "cancelled" THEN late ELSE SuccessorDue \/ InHand
  /\ UNCHANGED <<cron, ack, tickVars, torn, stopped, faults>>

Resume ==
  /\ Command
  /\ occurrence' = [o \in Occurrences |->
       IF occurrence[o] = "paused" THEN "pending" ELSE occurrence[o]]
  /\ standing' = IF standing = "cancelled" THEN standing ELSE "resumed"
  /\ UNCHANGED <<cron, ack, tickVars, late, torn, stopped, faults>>

(* update_task: the recurrence of the live rows, if there are any.         *)
Update(c) ==
  /\ Command
  /\ cron' = [o \in Occurrences |-> IF Alive(o) THEN c ELSE cron[o]]
  /\ stopped' = (stopped \/ (c = "none" /\ \E o \in Occurrences : Alive(o)))
  /\ UNCHANGED <<occurrence, ack, tickVars, standing, late, torn, faults>>

-----------------------------------------------------------------------------
Runner == \E o \in Occurrences : Claim(o) \/ Complete(o) \/ RunFails(o)

Tick ==
  \/ SyncAcks \/ ReadCompleted \/ HostDiesSweeping
  \/ \E o \in Occurrences : Clone(o) \/ CloneTorn(o) \/ CloneFails(o)

Commands ==
  \/ Cancel \/ Pause \/ Resume
  \/ \E c \in {"none", "cron", "nonsense"} : Update(c)

SchedulingNext == Runner \/ Tick \/ Commands

SchedulingSpec == SchedulingInit /\ [][SchedulingNext]_schedulingVars

(* The sweep comes back, and its awaits return. *)
SchedulingFairness ==
  /\ WF_schedulingVars(SyncAcks) /\ WF_schedulingVars(ReadCompleted)
  /\ \A o \in Occurrences : WF_schedulingVars(Clone(o) \/ CloneFails(o))

SchedulingFairSpec == SchedulingSpec /\ SchedulingFairness

-----------------------------------------------------------------------------
(***************************************************************************)
(* Properties.                                                             *)
(***************************************************************************)

(* A series has one live occurrence, and one more for each crash that fell *)
(* between inserting a successor and clearing its predecessor; an          *)
(* occurrence that awaits its successor counts as live.                    *)
OneLive ==
  Cardinality({o \in Occurrences : Alive(o)} \cup Unfollowed) <= 1 + torn

(* A cancelled series has no occurrence any more, unless one had completed *)
(* and its successor was still to be inserted when the command came.       *)
CancelHolds ==
  standing = "cancelled" /\ ~late => \A o \in Occurrences : ~Alive(o)

(* A paused series does not run, unless an occurrence was in the runner's  *)
(* hands or awaited its successor when the command came.                   *)
PauseHolds ==
  [][standing = "paused" /\ ~late => \A o \in Occurrences : ~Claim(o)]_schedulingVars

(* A series does not end unasked: it has a live occurrence or one that     *)
(* awaits its successor until the agent stops it or an occurrence fails    *)
(* for good.                                                               *)
SeriesSurvives ==
  \/ \E o \in Occurrences : Alive(o) \/ o \in Unfollowed
  \/ stopped \/ \E o \in Occurrences : occurrence[o] = "failed"

(* A series lives on as one, and dies when it is cancelled.                *)
SeriesKept == OneLive /\ CancelHolds /\ SeriesSurvives

(* Every completed occurrence gets its successor, if its recurrence is     *)
(* understood and there is room.                                           *)
SuccessorComes ==
  \A o \in Occurrences :
    o \in Unfollowed /\ cron[o] = "cron" ~> o \notin Unfollowed \/ Unused = {}

(* What does not hold.  mcp-tools/scheduling.ts: "Pause a scheduled task.  *)
(* It will not run until resumed."                                         *)
PausedDoesNotRun ==
  [][standing = "paused" => \A o \in Occurrences : ~Claim(o)]_schedulingVars

=============================================================================
