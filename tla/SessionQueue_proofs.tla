------------------------ MODULE SessionQueue_proofs ------------------------
(***************************************************************************)
(* Theorems of SessionQueue, for any number of messages, retries, prompt   *)
(* size and faults.  The inductive invariant is IInv; its parts are proved *)
(* one after the other, each with the help of the earlier ones.            *)
(***************************************************************************)
EXTENDS SessionQueue, TLAPS

(* When every `docker stop` is obeyed, the running host knows of every     *)
(* live container, starts one only when it knows of none, and deletes      *)
(* claims only when none lives.                                            *)
Tracking ==
  /\ StopFails = FALSE /\ ~loose
  /\ up /\ Alive => tracked
  /\ tracked => ~spawning
  /\ hpc = "dropClaims" => ~Alive

(* What the runner has in hand, by where its outer loop stands. *)
Hands ==
  /\ OneHand
  /\ cpc \in {"absent", "booting", "polling"} => batch = {}
  /\ cpc # "query" => follow = {}
  /\ cpc \in {"absent", "booting"} => orphan = {}

(* How the rows of the two databases agree. *)
Rows ==
  /\ FailedIsSpent
  /\ \A m \in InHand : status[m] # "failed"
  /\ \A m \in Msgs : class[m] = "none" <=> status[m] = "none"
  /\ \A m \in Msgs : ack[m] # "none" => status[m] # "none"

IInv == TypeOK /\ Tracking /\ Hands /\ Rows

-----------------------------------------------------------------------------
(* Type correctness of the effects that several steps share. *)

(* A polled batch consists of pending rows without acknowledgement. *)
LEMMA FetchRows ==
  ASSUME NEW first
  PROVE  /\ Fetch(first) \subseteq Msgs
         /\ \A m \in Fetch(first) : status[m] = "pending" /\ ack[m] = "none"
BY DEF Fetch, Newest, Pending

LEMMA TakeType ==
  ASSUME TypeOK, NEW S \in SUBSET Msgs, Take(S)
  PROVE  /\ ack' \in [Msgs -> {"none", "processing", "completed"}]
         /\ aged' \subseteq Claims' /\ beaten' \subseteq Claims'
         /\ charged' \subseteq Msgs
<1>1. ack' \in [Msgs -> {"none", "processing", "completed"}]
  BY DEF TypeOK, Take, SetAck
<1>2. Claims' = Claims \cup S
  BY DEF TypeOK, Take, SetAck, Claims
<1>3. beaten' \subseteq beaten \cup S
  BY DEF Take
<1> QED BY <1>1, <1>2, <1>3 DEF TypeOK, Take

LEMMA CompleteType ==
  ASSUME TypeOK, NEW S \in SUBSET Msgs, NEW beat \in BOOLEAN, Complete(S, beat)
  PROVE  /\ ack' \in [Msgs -> {"none", "processing", "completed"}]
         /\ aged' \subseteq Claims' /\ beaten' \subseteq Claims'
         /\ hb' \in {"absent", "fresh", "old"}
<1>1. ack' \in [Msgs -> {"none", "processing", "completed"}]
  BY DEF TypeOK, Complete, SetAck
<1>2. Claims' = Claims \ S
  BY DEF TypeOK, Complete, SetAck, Claims
<1>3. aged' = aged \ S /\ (beaten' = Claims \ S \/ beaten' = beaten \ S)
  BY DEF Complete
<1>4. hb' \in {"absent", "fresh", "old"}
  BY DEF TypeOK, Complete
<1> QED BY <1>1, <1>2, <1>3, <1>4 DEF TypeOK

LEMMA ClearType ==
  ASSUME TypeOK, ClearClaims
  PROVE  /\ ack' \in [Msgs -> {"none", "processing", "completed"}]
         /\ aged' \subseteq Claims' /\ beaten' \subseteq Claims'
<1>1. ack' \in [Msgs -> {"none", "processing", "completed"}]
  BY DEF TypeOK, ClearClaims, SetAck
<1>2. aged' = {} /\ beaten' = {}
  BY DEF TypeOK, ClearClaims
<1> QED BY <1>1, <1>2

(* A reset charges rows that have retries left, so it cannot overrun. *)
LEMMA ResetType ==
  ASSUME TypeOK, ResetRows
  PROVE  /\ class' = class
         /\ status' \in [Msgs -> {"none", "pending", "completed", "failed"}]
         /\ tries' \in [Msgs -> 0 .. MaxTries]
         /\ deferred' \subseteq Msgs
         /\ charged' \subseteq Msgs
<1> DEFINE stuck == (Claims \cap Pending) \ deferred
           spent == {m \in stuck : tries[m] >= MaxTries}
<1>1. RetryOrFail(stuck, spent)
  BY DEF ResetRows
<1>2. \A m \in stuck \ spent : tries[m] + 1 \in 0 .. MaxTries
  BY QueueConstants DEF TypeOK, Claims
<1>3. tries' \in [Msgs -> 0 .. MaxTries]
  BY <1>1, <1>2 DEF RetryOrFail, TypeOK
<1>4. stuck \subseteq Msgs
  BY DEF Claims
<1> QED BY <1>1, <1>3, <1>4 DEF RetryOrFail, TypeOK

(* Steps that leave processing_ack alone. *)
LEMMA SameClaims ==
  ASSUME TypeOK, UNCHANGED ackVars
  PROVE  aged' \subseteq Claims' /\ beaten' \subseteq Claims'
BY DEF TypeOK, ackVars, Claims

LEMMA NoteType ==
  ASSUME TypeOK, NEW S, NEW what \in {"finished", "pushed", "closed"},
         Note(S, what)
  PROVE  outcome' \in [Msgs -> {"none", "finished", "pushed", "closed"}]
BY DEF TypeOK, Note

LEMMA FaultType == ASSUME TypeOK, Fault PROVE faults' \in 0 .. MaxFaults
BY QueueConstants DEF TypeOK, Fault

(* A stop ends the container or only its docker client. *)
LEMMA StopType ==
  ASSUME TypeOK, Stop
  PROVE  /\ cpc' \in RunnerPoints \cup {"absent"}
         /\ hung' \in BOOLEAN /\ firstPoll' \in BOOLEAN /\ ended' \in BOOLEAN
         /\ batch' \subseteq Msgs /\ follow' \subseteq Msgs /\ orphan' \subseteq Msgs
         /\ loose' \in BOOLEAN
         /\ faults' \in 0 .. MaxFaults
<1>1. CASE Gone /\ UNCHANGED faults
  <2>1. /\ hung' \in BOOLEAN /\ firstPoll' \in BOOLEAN /\ ended' \in BOOLEAN
        /\ loose' \in BOOLEAN
    BY <1>1, Zenon DEF Gone
  <2>2. /\ cpc' = "absent" /\ batch' = {} /\ follow' = {} /\ orphan' = {}
        /\ UNCHANGED faults
    BY <1>1 DEF Gone
  <2> QED BY <2>1, <2>2 DEF TypeOK
<1>2. CASE Fault /\ loose' = TRUE /\ UNCHANGED workVars
  BY <1>2, FaultType DEF TypeOK, workVars
<1> QED BY <1>1, <1>2 DEF Stop

LEMMA CutType == ASSUME TypeOK, CutShort PROVE charged' \subseteq Msgs
BY DEF TypeOK, CutShort, Claims

-----------------------------------------------------------------------------
(* Type correctness. *)

LEMMA TypeInit == ASSUME Init PROVE TypeOK
<1>1. aged \subseteq Claims /\ beaten \subseteq Claims
  BY DEF Init
<1>2. tries \in [Msgs -> 0 .. MaxTries] /\ faults \in 0 .. MaxFaults
  BY QueueConstants DEF Init
<1> QED BY <1>1, <1>2 DEF Init, TypeOK

(* The steps of the host keep the types. *)
LEMMA TypeHost ==
  ASSUME TypeOK, Store \/ Restart \/ RestartKilled \/ Process \/ Sweep
  PROVE  TypeOK'
<1>1. ASSUME NEW m \in Msgs, NEW c \in Classes, Arrive(m, c) PROVE TypeOK'
  <2>1. class' \in [Msgs -> AllClasses \cup {"none"}]
        /\ status' \in [Msgs -> {"none", "pending", "completed", "failed"}]
    BY <1>1, QueueConstants DEF TypeOK, Arrive, Insert
  <2> QED BY <1>1, <2>1, SameClaims DEF TypeOK, Arrive, Insert, HostFree,
                            ackVars, runVars, workVars, histVars
<1>2. ASSUME NEW m \in Msgs, ApplyChange(m) PROVE TypeOK'
  <2>1. class' \in [Msgs -> AllClasses \cup {"none"}]
        /\ status' \in [Msgs -> {"none", "pending", "completed", "failed"}]
    BY <1>2 DEF TypeOK, ApplyChange, Insert, AllClasses
  <2>2. faults' \in 0 .. MaxFaults
    BY <1>2, FaultType DEF ApplyChange
  <2>3. spawning' \in BOOLEAN /\ onExit' \in BOOLEAN
    BY <1>2, Zenon DEF TypeOK, ApplyChange
  <2>4. aged' \subseteq Claims' /\ beaten' \subseteq Claims'
    BY <1>2, SameClaims DEF ApplyChange
  <2>5. hpc' \in {hpc, "restartKill"}
    BY <1>2 DEF ApplyChange
  <2>6. UNCHANGED <<tries, deferred, ackVars, hb, runVars, up, tracked, outcome, charged>>
    BY <1>2 DEF ApplyChange, Insert
  <2> QED BY <2>1, <2>2, <2>3, <2>4, <2>5, <2>6 DEF TypeOK, ackVars, runVars, workVars
<1>3. CASE Restart
  <2>1. faults' \in 0 .. MaxFaults
    BY <1>3, FaultType DEF Restart
  <2>2. onExit' \in BOOLEAN
    BY <1>3, Zenon DEF TypeOK, Restart
  <2>3. aged' \subseteq Claims' /\ beaten' \subseteq Claims'
    BY <1>3, SameClaims DEF Restart
  <2>4. hpc' = "restartKill"
        /\ UNCHANGED <<inVars, ackVars, hb, runVars, up, tracked, spawning, outcome, charged>>
    BY <1>3 DEF Restart
  <2> QED BY <2>1, <2>2, <2>3, <2>4 DEF TypeOK, inVars, ackVars, runVars, workVars
<1>4. CASE RestartKilled
  <2>1. Stop
    BY <1>4 DEF RestartKilled
  <2> QED BY <1>4, <2>1, StopType, SameClaims DEF TypeOK, RestartKilled, inVars, ackVars
<1>5. CASE SpawnOk
  <2>1. aged' \subseteq Claims' /\ beaten' \subseteq Claims'
    BY <1>5, SameClaims DEF SpawnOk
  <2>2. /\ hung' \in BOOLEAN /\ firstPoll' \in BOOLEAN /\ ended' \in BOOLEAN
        /\ loose' \in BOOLEAN /\ spawning' \in BOOLEAN /\ tracked' \in BOOLEAN
    BY <1>5, Zenon DEF SpawnOk
  <2>3. /\ hb' = "absent" /\ cpc' = "booting"
        /\ batch' = {} /\ follow' = {} /\ orphan' = {}
        /\ UNCHANGED <<inVars, ackVars, up, onExit, hpc, histVars>>
    BY <1>5 DEF SpawnOk
  <2> QED BY <2>1, <2>2, <2>3 DEF TypeOK, RunnerPoints, inVars, ackVars, histVars
<1>6. CASE SpawnFail
  <2>1. aged' \subseteq Claims' /\ beaten' \subseteq Claims'
    BY <1>6, SameClaims DEF SpawnFail
  <2>2. spawning' \in BOOLEAN
    BY <1>6, Zenon DEF TypeOK, SpawnFail
  <2>3. UNCHANGED <<inVars, ackVars, hb, runVars, up, tracked, onExit, hpc, histVars>>
    BY <1>6 DEF SpawnFail
  <2> QED BY <2>1, <2>2, <2>3 DEF TypeOK, inVars, ackVars, runVars, workVars, histVars
<1>7. CASE CloseEvent
  <2>1. aged' \subseteq Claims' /\ beaten' \subseteq Claims'
    BY <1>7, SameClaims DEF CloseEvent
  <2>2. tracked' \in BOOLEAN /\ spawning' \in BOOLEAN /\ onExit' \in BOOLEAN
    BY <1>7, Zenon DEF TypeOK, CloseEvent
  <2>3. UNCHANGED <<inVars, ackVars, hb, runVars, up, hpc, histVars>>
    BY <1>7 DEF CloseEvent
  <2> QED BY <2>1, <2>2, <2>3 DEF TypeOK, inVars, ackVars, runVars, workVars, histVars
<1>8. CASE HostCrash
  <2>1. faults' \in 0 .. MaxFaults
    BY <1>8, FaultType DEF HostCrash
  <2>2. charged' \subseteq Msgs
    BY <1>8, CutType DEF HostCrash
  <2> QED BY <1>8, <2>1, <2>2, SameClaims
          DEF TypeOK, HostCrash, inVars, ackVars, runVars, workVars
<1>9. CASE HostStart
  <2>1. Stop
    BY <1>9 DEF HostStart
  <2> QED BY <1>9, <2>1, StopType, SameClaims DEF TypeOK, HostStart, inVars, ackVars
<1>10. CASE SweepSync
  BY <1>10, SameClaims DEF TypeOK, SweepSync, ackVars, runVars, workVars, histVars
<1>11. CASE SweepWake
  BY <1>11, SameClaims DEF TypeOK, SweepWake, inVars, ackVars, runVars, workVars, histVars
<1>12. CASE SweepWoken
  BY <1>12, SameClaims DEF TypeOK, SweepWoken, inVars, ackVars, runVars, workVars, histVars
<1>13. CASE SweepEnforce
  BY <1>13, SameClaims DEF TypeOK, SweepEnforce, inVars, ackVars, runVars, workVars, histVars
<1>14. CASE SlaKilled
  <2>1. Stop /\ ResetRows
    BY <1>14 DEF SlaKilled
  <2> QED BY <1>14, <2>1, StopType, ResetType, SameClaims DEF TypeOK, SlaKilled, ackVars
<1>15. CASE SweepCleanup
  BY <1>15, ResetType, SameClaims DEF TypeOK, SweepCleanup, ackVars, runVars, workVars
<1>16. CASE DropClaims
  BY <1>16, ClearType DEF TypeOK, DropClaims, inVars, runVars, workVars, histVars
<1>17. CASE DropFails
  <2>1. faults' \in 0 .. MaxFaults
    BY <1>17, FaultType DEF DropFails
  <2>2. charged' \subseteq Msgs
    BY <1>17, CutType DEF DropFails
  <2> QED BY <1>17, <2>1, <2>2, SameClaims
          DEF TypeOK, DropFails, inVars, ackVars, runVars, workVars
<1> QED BY <1>1, <1>2, <1>3, <1>4, <1>5, <1>6, <1>7, <1>8, <1>9, <1>10,
           <1>11, <1>12, <1>13, <1>14, <1>15, <1>16, <1>17
        DEF Store, Process, Sweep

(* The parts of TypeOK' that the runner's shared effects establish. *)
AckType ==
  /\ ack' \in [Msgs -> {"none", "processing", "completed"}]
  /\ aged' \subseteq Claims' /\ beaten' \subseteq Claims'
BeatType == hb' \in {"absent", "fresh", "old"}
NotedType == outcome' \in [Msgs -> {"none", "finished", "pushed", "closed"}]

(* The steps of the runner keep the types. *)
LEMMA TypeRunner == ASSUME TypeOK, Runner PROVE TypeOK'
<1>1. CASE Boot
  <2>1. ClearClaims
    BY <1>1 DEF Boot
  <2> QED BY <1>1, <2>1, ClearType DEF TypeOK, Boot, RunnerPoints, inVars, hostVars, histVars
<1>2. CASE PollIdle
  <2>1. aged' \subseteq Claims' /\ beaten' \subseteq Claims'
    BY <1>2, SameClaims DEF PollIdle
  <2>2. firstPoll' \in BOOLEAN
    BY <1>2, Zenon DEF PollIdle
  <2>3. /\ UNCHANGED <<inVars, ackVars, hb, cpc, hung, batch, ended, follow, orphan>>
        /\ UNCHANGED <<loose, hostVars, histVars>>
    BY <1>2 DEF PollIdle
  <2> QED BY <2>1, <2>2, <2>3 DEF TypeOK, inVars, ackVars, hostVars, histVars
<1>3. CASE PollClaim
  <2>1. Polled \in SUBSET Msgs
    BY FetchRows DEF Polled
  <2>2. Take(Polled)
    BY <1>3 DEF PollClaim
  <2>3. AckType
    BY <2>1, <2>2, TakeType DEF AckType
  <2>4. charged' \subseteq Msgs /\ batch' \subseteq Msgs
    BY <1>3, <2>1, <2>2, TakeType DEF PollClaim
  <2>5. firstPoll' \in BOOLEAN /\ cpc' \in RunnerPoints
    BY <1>3, Zenon DEF PollClaim, RunnerPoints
  <2>6. /\ UNCHANGED <<inVars, hb, hung, ended, follow, orphan, loose>>
        /\ UNCHANGED <<hostVars, outcome, faults>>
    BY <1>3 DEF PollClaim
  <2> QED BY <2>3, <2>4, <2>5, <2>6 DEF TypeOK, AckType, inVars, hostVars
<1>4. CASE Commands
  <2> DEFINE cmds == batch \cap OfClass({"command"})
  <2>1. cmds \in SUBSET Msgs /\ Complete(cmds, FALSE) /\ Note(cmds, "finished")
    BY <1>4 DEF TypeOK, Commands
  <2>2. AckType /\ BeatType /\ NotedType
    BY <2>1, CompleteType, NoteType DEF AckType, BeatType, NotedType
  <2> QED BY <1>4, <2>2 DEF TypeOK, AckType, BeatType, NotedType, Commands,
                            RunnerPoints, inVars, hostVars
<1>5. CASE Scripts
  <2>1. PICK skip \in SUBSET batch, beat \in BOOLEAN :
           /\ Complete(skip, beat) /\ Note(skip, "finished")
           /\ batch' = batch \ skip
           /\ cpc' = IF batch = skip THEN "polling" ELSE "query"
           /\ UNCHANGED <<inVars, hung, firstPoll, ended, follow, orphan, loose>>
           /\ UNCHANGED <<hostVars, charged, faults>>
    BY <1>5 DEF Scripts
  <2>2. skip \in SUBSET Msgs
    BY DEF TypeOK
  <2>3. AckType /\ BeatType /\ NotedType
    BY <2>1, <2>2, CompleteType, NoteType DEF AckType, BeatType, NotedType
  <2> QED BY <2>1, <2>3 DEF TypeOK, AckType, BeatType, NotedType,
                            RunnerPoints, inVars, hostVars
<1>6. CASE Beat
  <2>1. AckType /\ BeatType
    BY <1>6, CompleteType DEF Beat, AckType, BeatType
  <2> QED BY <1>6, <2>1 DEF TypeOK, AckType, BeatType, Beat, inVars, runVars, workVars,
                            hostVars, histVars
<1>7. CASE Result
  <2>1. batch \in SUBSET Msgs /\ Complete(batch, TRUE) /\ Note(batch, "finished")
    BY <1>7 DEF TypeOK, Result
  <2>2. AckType /\ BeatType /\ NotedType
    BY <2>1, CompleteType, NoteType DEF AckType, BeatType, NotedType
  <2> QED BY <1>7, <2>2 DEF TypeOK, AckType, BeatType, NotedType, Result,
                            inVars, runVars, workVars, hostVars
<1>8. CASE FollowPoll
  <2> DEFINE new == Fetch(FALSE) \ OfClass({"system"})
  <2>1. new \in SUBSET Msgs
    BY FetchRows
  <2>2. CASE /\ ended' = TRUE
             /\ UNCHANGED <<ackVars, follow, charged>>
    BY <1>8, <2>2, SameClaims DEF TypeOK, FollowPoll, inVars, ackVars, hostVars
  <2>3. CASE Take(new) /\ follow' = new /\ UNCHANGED ended
    <3>1. AckType /\ charged' \subseteq Msgs
      BY <2>1, <2>3, TakeType DEF AckType
    <3>2. follow' \subseteq Msgs /\ ended' \in BOOLEAN
      BY <2>1, <2>3 DEF TypeOK
    <3>3. /\ UNCHANGED <<inVars, hb, cpc, hung, firstPoll, batch, orphan, loose>>
          /\ UNCHANGED <<hostVars, outcome, faults>>
      BY <1>8 DEF FollowPoll
    <3> QED BY <3>1, <3>2, <3>3 DEF TypeOK, AckType, inVars, hostVars
  <2> QED BY <1>8, <2>2, <2>3 DEF FollowPoll
<1>9. CASE FollowPush
  <2>1. PICK skip \in SUBSET follow, beat \in BOOLEAN :
           /\ Complete(follow, beat)
           /\ outcome' = [m \in Msgs |-> IF m \in skip THEN "finished"
                                   ELSE IF m \in follow THEN "pushed" ELSE outcome[m]]
           /\ follow' = {}
           /\ UNCHANGED <<inVars, cpc, hung, firstPoll, batch, ended, orphan, loose>>
           /\ UNCHANGED <<hostVars, charged, faults>>
    BY <1>9 DEF FollowPush
  <2>2. follow \in SUBSET Msgs
    BY DEF TypeOK
  <2>3. outcome' \in [Msgs -> {"none", "finished", "pushed", "closed"}]
    BY <2>1 DEF TypeOK
  <2>4. AckType /\ BeatType
    BY <2>1, <2>2, CompleteType DEF AckType, BeatType
  <2> QED BY <2>1, <2>3, <2>4 DEF TypeOK, AckType, BeatType, inVars, hostVars
<1>10. CASE FollowTooLate
  <2>1. PICK done \in SUBSET orphan, skip \in SUBSET orphan, beat \in BOOLEAN :
           /\ Complete(skip, beat) /\ Note(skip, "finished")
           /\ orphan' = orphan \ done
           /\ UNCHANGED <<inVars, cpc, hung, firstPoll, batch, ended, follow, loose>>
           /\ UNCHANGED <<hostVars, charged, faults>>
    BY <1>10 DEF FollowTooLate
  <2>2. skip \in SUBSET Msgs
    BY DEF TypeOK
  <2>3. AckType /\ BeatType /\ NotedType
    BY <2>1, <2>2, CompleteType, NoteType DEF AckType, BeatType, NotedType
  <2> QED BY <2>1, <2>3 DEF TypeOK, AckType, BeatType, NotedType, inVars, hostVars
<1>11. ASSUME StreamEnd PROVE TypeOK'
  <2>1. batch \in SUBSET Msgs /\ Complete(batch, FALSE) /\ Note(batch, "closed")
    BY <1>11 DEF TypeOK, StreamEnd
  <2>2. AckType /\ BeatType /\ NotedType
    BY <2>1, CompleteType, NoteType DEF AckType, BeatType, NotedType
  <2> QED BY <1>11, <2>2 DEF TypeOK, AckType, BeatType, NotedType, StreamEnd,
                             RunnerPoints, inVars, hostVars
<1>12. ASSUME NEW m \in Msgs, ReadAnswer(m) PROVE TypeOK'
  <2>1. {m} \in SUBSET Msgs /\ Complete({m}, FALSE) /\ Note({m}, "finished")
    BY <1>12 DEF ReadAnswer
  <2>2. AckType /\ BeatType /\ NotedType
    BY <2>1, CompleteType, NoteType DEF AckType, BeatType, NotedType
  <2> QED BY <1>12, <2>2 DEF TypeOK, AckType, BeatType, NotedType, ReadAnswer,
                             inVars, runVars, workVars, hostVars
<1>13. CASE FollowFails
  <2>1. PICK skip \in SUBSET follow, beat \in BOOLEAN :
           /\ Fault /\ Complete(skip, beat) /\ Note(skip, "finished")
           /\ follow' = {}
           /\ UNCHANGED <<inVars, cpc, hung, firstPoll, batch, ended, orphan, loose>>
           /\ UNCHANGED <<hostVars, charged>>
    BY <1>13 DEF FollowFails
  <2>2. skip \in SUBSET Msgs
    BY DEF TypeOK
  <2>3. AckType /\ BeatType /\ NotedType
    BY <2>1, <2>2, CompleteType, NoteType DEF AckType, BeatType, NotedType
  <2>4. faults' \in 0 .. MaxFaults
    BY <2>1, FaultType
  <2> QED BY <2>1, <2>3, <2>4 DEF TypeOK, AckType, BeatType, NotedType, inVars, hostVars
<1> QED BY <1>1, <1>2, <1>3, <1>4, <1>5, <1>6, <1>7, <1>8, <1>9, <1>10,
           <1>11, <1>12, <1>13 DEF Runner

(* Faults of the container and the clock keep the types. *)
LEMMA TypeWorld == ASSUME TypeOK, ContainerCrash \/ Hang \/ Clock PROVE TypeOK'
<1>1. CASE ContainerCrash
  <2>1. faults' \in 0 .. MaxFaults
    BY <1>1, FaultType DEF ContainerCrash
  <2>2. aged' \subseteq Claims' /\ beaten' \subseteq Claims'
    BY <1>1, SameClaims DEF ContainerCrash
  <2>3. /\ hung' \in BOOLEAN /\ firstPoll' \in BOOLEAN /\ ended' \in BOOLEAN
        /\ loose' \in BOOLEAN
    BY <1>1, Zenon DEF ContainerCrash, Gone
  <2>4. /\ cpc' = "absent" /\ batch' = {} /\ follow' = {} /\ orphan' = {}
        /\ UNCHANGED <<inVars, ackVars, hb, hostVars, outcome, charged>>
    BY <1>1 DEF ContainerCrash, Gone
  <2> QED BY <2>1, <2>2, <2>3, <2>4 DEF TypeOK, inVars, ackVars, hostVars
<1>2. CASE Hang
  <2>1. faults' \in 0 .. MaxFaults
    BY <1>2, FaultType DEF Hang
  <2> QED BY <1>2, <2>1, SameClaims DEF TypeOK, Hang, inVars, ackVars, hostVars
<1>3. CASE Quiet
  BY <1>3, SameClaims DEF TypeOK, Quiet, inVars, ackVars, runVars, workVars, hostVars, histVars
<1>4. ASSUME NEW m \in Msgs, Elapse(m) PROVE TypeOK'
  BY <1>4, SameClaims DEF TypeOK, Elapse, ackVars, runVars, workVars, hostVars, histVars
<1>5. ASSUME NEW m \in Msgs, Age(m) PROVE TypeOK'
  BY <1>5 DEF TypeOK, Age, Claims, inVars, runVars, workVars, hostVars, histVars
<1> QED BY <1>1, <1>2, <1>3, <1>4, <1>5 DEF Clock

LEMMA TypeStutter == ASSUME TypeOK, UNCHANGED vars PROVE TypeOK'
BY DEF TypeOK, Claims, vars, inVars, ackVars, runVars, workVars, hostVars, histVars

(* Every variable keeps its type, in every instance of the session queue.  *)
THEOREM TypeCorrect == Spec => []TypeOK
<1>1. TypeOK /\ [Next]_vars => TypeOK'
  BY TypeHost, TypeRunner, TypeWorld, TypeStutter DEF Next
<1> QED BY TypeInit, <1>1, PTL DEF Spec

-----------------------------------------------------------------------------
(* The host knows of the live container. *)

LEMMA TrackingInit == ASSUME StopFails = FALSE, Init PROVE Tracking
BY DEF Init, Tracking, Alive

LEMMA StopGone == ASSUME Tracking, Stop PROVE Gone /\ UNCHANGED faults
BY DEF Tracking, Stop

LEMMA TrackingStep ==
  ASSUME TypeOK, Tracking, [Next]_vars
  PROVE  Tracking'
<1>1. ASSUME NEW m \in Msgs, NEW c \in Classes, Arrive(m, c) PROVE Tracking'
  <2>1. UNCHANGED <<cpc, loose, up, tracked, hpc>> /\ (tracked => spawning' = spawning)
    BY <1>1 DEF Arrive, runVars, workVars, TypeOK
  <2> QED BY <2>1 DEF Tracking, Alive
<1>2. ASSUME NEW m \in Msgs, ApplyChange(m) PROVE Tracking'
  <2>1. /\ UNCHANGED <<cpc, loose, up, tracked>> /\ (tracked => spawning' = spawning)
        /\ hpc' \in {hpc, "restartKill"}
    BY <1>2, Zenon DEF ApplyChange, runVars, workVars, TypeOK
  <2> QED BY <2>1 DEF Tracking, Alive
<1>3. CASE Restart
  BY <1>3 DEF Tracking, Restart, Alive, runVars, workVars
<1>4. CASE RestartKilled
  BY <1>4, StopGone DEF Tracking, RestartKilled, Gone, Alive
<1>5. CASE SpawnOk
  BY <1>5 DEF Tracking, SpawnOk, HostFree, Alive
<1>6. CASE SpawnFail
  BY <1>6 DEF Tracking, SpawnFail, Alive, runVars, workVars
<1>7. CASE CloseEvent
  BY <1>7 DEF Tracking, CloseEvent, Alive, runVars, workVars
<1>8. CASE HostCrash
  BY <1>8 DEF Tracking, HostCrash, runVars
<1>9. CASE HostStart
  BY <1>9, StopGone DEF Tracking, HostStart, Gone, Alive
<1>10. CASE SweepSync
  BY <1>10 DEF Tracking, SweepSync, Alive, runVars, workVars
<1>11. CASE SweepWake
  BY <1>11 DEF Tracking, SweepWake, Alive, runVars, workVars
<1>12. CASE SweepWoken
  BY <1>12 DEF Tracking, SweepWoken, Alive, runVars, workVars
<1>13. CASE SweepEnforce
  BY <1>13 DEF Tracking, SweepEnforce, Alive, runVars, workVars
<1>14. CASE SlaKilled
  BY <1>14, StopGone DEF Tracking, SlaKilled, Gone, Alive
<1>15. CASE SweepCleanup
  BY <1>15 DEF Tracking, SweepCleanup, Alive, runVars, workVars
<1>16. CASE DropClaims
  BY <1>16 DEF Tracking, DropClaims, Alive, runVars, workVars
<1>17. CASE DropFails
  BY <1>17 DEF Tracking, DropFails, Alive, runVars, workVars
<1>18. CASE Runner
  <2>1. Alive /\ UNCHANGED <<loose, up, tracked, spawning, hpc>>
    BY <1>18 DEF Runner, Boot, PollIdle, PollClaim, Commands, Scripts, Beat,
                 Result, FollowPoll, FollowPush, FollowFails, FollowTooLate, StreamEnd,
                 ReadAnswer, Running, Alive, hostVars, runVars
  <2> QED BY <2>1 DEF Tracking
<1>19. CASE ContainerCrash
  BY <1>19 DEF Tracking, ContainerCrash, Gone, Alive, hostVars
<1>20. CASE Hang
  BY <1>20 DEF Tracking, Hang, Alive, hostVars
<1>21. CASE Clock \/ UNCHANGED vars
  BY <1>21 DEF Tracking, Clock, Quiet, Elapse, Age, Alive, vars, runVars, workVars, hostVars
<1> QED BY <1>1, <1>2, <1>3, <1>4, <1>5, <1>6, <1>7, <1>8, <1>9, <1>10, <1>11,
           <1>12, <1>13, <1>14, <1>15, <1>16, <1>17, <1>18, <1>19, <1>20, <1>21
        DEF Next, Store, Process, Sweep

(* When every `docker stop` is obeyed, a sweep deletes claims of a dead    *)
(* container only.                                                         *)
THEOREM OneWriter ==
  ASSUME StopFails = FALSE
  PROVE  Spec => []SingleWriter
<1>1. Init => TypeOK /\ Tracking
  BY TypeInit, TrackingInit
<1>2. TypeOK /\ Tracking /\ [Next]_vars => Tracking'
  BY TrackingStep
<1>3. Tracking => SingleWriter
  BY DEF Tracking, SingleWriter
<1> QED BY <1>1, <1>2, <1>3, TypeCorrect, PTL DEF Spec

-----------------------------------------------------------------------------
(* Every message in hand is in one hand. *)

(* Taking and completing never remove an acknowledgement. *)
LEMMA TakeKeeps ==
  ASSUME TypeOK, NEW S \in SUBSET Msgs, Take(S)
  PROVE  \A m \in Msgs : (ack[m] # "none" \/ m \in S) => ack'[m] # "none"
BY DEF TypeOK, Take, SetAck

LEMMA CompleteKeeps ==
  ASSUME TypeOK, NEW S \in SUBSET Msgs, NEW beat \in BOOLEAN, Complete(S, beat)
  PROVE  \A m \in Msgs : ack[m] # "none" => ack'[m] # "none"
BY DEF TypeOK, Complete, SetAck

(* The runner puts things down and acknowledges, without taking any. *)
LEMMA HandsShrink ==
  ASSUME TypeOK, Hands,
         \A m \in Msgs : ack[m] # "none" => ack'[m] # "none",
         batch' \subseteq batch, follow' \subseteq follow,
         orphan' \subseteq orphan
  PROVE  OneHand'
BY DEF TypeOK, Hands, OneHand, InHand

LEMMA HandsInit == ASSUME Init PROVE Hands
BY DEF Init, Hands, OneHand, InHand

LEMMA HandsRunner == ASSUME TypeOK, Hands, Runner PROVE Hands'
<1>1. CASE Boot
  BY <1>1 DEF Boot, Running, Hands, OneHand, InHand, ClearClaims, SetAck
<1>2. CASE PollIdle
  BY <1>2 DEF PollIdle, Hands, OneHand, InHand, ackVars
<1>3. CASE PollClaim
  <2>1. /\ Polled \in SUBSET Msgs
        /\ \A m \in Polled : ack[m] = "none"
    BY FetchRows DEF Polled
  <2>2. /\ cpc = "polling" /\ cpc' = "claimed"
        /\ Take(Polled) /\ batch' = Polled
        /\ UNCHANGED <<follow, orphan>>
    BY <1>3 DEF PollClaim, Running
  <2>3. \A m \in Msgs : (ack[m] # "none" \/ m \in Polled) => ack'[m] # "none"
    BY <2>1, <2>2, TakeKeeps
  <2>4. follow = {} /\ \A m \in orphan : m \in Msgs /\ ack[m] # "none"
    BY <2>2 DEF Hands, OneHand, InHand, TypeOK
  <2> QED BY <2>1, <2>2, <2>3, <2>4 DEF Hands, OneHand, InHand
<1>4. CASE Commands
  <2> DEFINE cmds == batch \cap OfClass({"command"})
  <2>1. /\ cmds \in SUBSET Msgs /\ Complete(cmds, FALSE)
        /\ batch' = batch \ cmds /\ UNCHANGED <<follow, orphan>>
        /\ cpc = "claimed" /\ cpc' = IF batch = cmds THEN "polling" ELSE "scripts"
    BY <1>4 DEF Commands, Running, TypeOK
  <2>2. OneHand'
    BY <2>1, CompleteKeeps, HandsShrink
  <2> QED BY <2>1, <2>2 DEF Hands
<1>5. CASE Scripts
  <2>1. PICK skip \in SUBSET batch, beat \in BOOLEAN :
           /\ cpc = "scripts"
           /\ Complete(skip, beat)
           /\ batch' = batch \ skip /\ UNCHANGED <<follow, orphan>>
           /\ cpc' = IF batch = skip THEN "polling" ELSE "query"
    BY <1>5 DEF Scripts, Running
  <2>2. skip \in SUBSET Msgs
    BY DEF TypeOK
  <2>3. \A m \in Msgs : ack[m] # "none" => ack'[m] # "none"
    BY <2>1, <2>2, CompleteKeeps
  <2>4. OneHand'
    BY <2>1, <2>3, HandsShrink
  <2> QED BY <2>1, <2>4 DEF Hands
<1>6. CASE Beat \/ Result
  <2>1. batch \in SUBSET Msgs /\ {} \in SUBSET Msgs
    BY DEF TypeOK
  <2>2. Complete({}, TRUE) \/ Complete(batch, TRUE)
    BY <1>6 DEF Beat, Result
  <2>3. \A m \in Msgs : ack[m] # "none" => ack'[m] # "none"
    BY <2>1, <2>2, CompleteKeeps
  <2>4. UNCHANGED <<cpc, batch, follow, orphan>>
    BY <1>6 DEF Beat, Result, runVars, workVars
  <2>5. OneHand'
    BY <2>3, <2>4, HandsShrink
  <2> QED BY <2>4, <2>5 DEF Hands
<1>7. CASE FollowPoll
  <2> DEFINE new == Fetch(FALSE) \ OfClass({"system"})
  <2>1. cpc = "query" /\ follow = {} /\ UNCHANGED <<cpc, batch, orphan>>
    BY <1>7 DEF FollowPoll, Running
  <2>2. CASE UNCHANGED <<ackVars, follow, charged>>
    BY <2>1, <2>2 DEF Hands, OneHand, InHand, ackVars
  <2>3. CASE Take(new) /\ follow' = new
    <3>1. new \in SUBSET Msgs /\ \A m \in new : ack[m] = "none"
      BY FetchRows
    <3>2. \A m \in Msgs : (ack[m] # "none" \/ m \in new) => ack'[m] # "none"
      BY <2>3, <3>1, TakeKeeps
    <3>3. \A m \in batch \cup orphan : m \in Msgs /\ ack[m] # "none"
      BY DEF Hands, OneHand, InHand, TypeOK
    <3> QED BY <2>1, <2>3, <3>1, <3>2, <3>3 DEF Hands, OneHand, InHand
  <2> QED BY <1>7, <2>2, <2>3 DEF FollowPoll
<1>8. CASE FollowPush
  <2>1. PICK beat \in BOOLEAN :
           /\ cpc = "query" /\ Complete(follow, beat) /\ follow' = {}
           /\ UNCHANGED <<cpc, batch, orphan>>
    BY <1>8 DEF FollowPush, Running
  <2>2. follow \in SUBSET Msgs
    BY DEF TypeOK
  <2>3. \A m \in Msgs : ack[m] # "none" => ack'[m] # "none"
    BY <2>1, <2>2, CompleteKeeps
  <2>4. OneHand'
    BY <2>1, <2>3, HandsShrink
  <2> QED BY <2>1, <2>4 DEF Hands
<1>9. CASE FollowTooLate
  <2>1. PICK done \in SUBSET orphan, skip \in SUBSET orphan, beat \in BOOLEAN :
           /\ Alive /\ Complete(skip, beat)
           /\ orphan' = orphan \ done
           /\ UNCHANGED <<cpc, batch, follow>>
    BY <1>9 DEF FollowTooLate
  <2>2. skip \in SUBSET Msgs
    BY DEF TypeOK
  <2>3. \A m \in Msgs : ack[m] # "none" => ack'[m] # "none"
    BY <2>1, <2>2, CompleteKeeps
  <2>4. OneHand'
    BY <2>1, <2>3, HandsShrink
  <2> QED BY <2>1, <2>4 DEF Hands
<1>10. ASSUME StreamEnd PROVE Hands'
  <2>1. /\ cpc = "query" /\ cpc' = "polling"
        /\ Complete(batch, FALSE) /\ batch' = {}
        /\ follow' = {} /\ orphan' = orphan \cup follow
    BY <1>10 DEF StreamEnd, Running
  <2>2. batch \in SUBSET Msgs
    BY DEF TypeOK
  <2>3. \A m \in Msgs : ack[m] # "none" => ack'[m] # "none"
    BY <2>1, <2>2, CompleteKeeps
  <2> QED BY <2>1, <2>3 DEF Hands, OneHand, InHand, TypeOK
<1>11. ASSUME NEW m \in Msgs, ReadAnswer(m) PROVE Hands'
  <2>1. Complete({m}, FALSE) /\ UNCHANGED <<cpc, batch, follow, orphan>>
    BY <1>11 DEF ReadAnswer, runVars, workVars
  <2>2. \A k \in Msgs : ack[k] # "none" => ack'[k] # "none"
    BY <2>1, CompleteKeeps
  <2>3. OneHand'
    BY <2>1, <2>2, HandsShrink
  <2> QED BY <2>1, <2>3 DEF Hands
<1>12. CASE FollowFails
  <2>1. PICK skip \in SUBSET follow, beat \in BOOLEAN :
           /\ cpc = "query" /\ Complete(skip, beat) /\ follow' = {}
           /\ UNCHANGED <<cpc, batch, orphan>>
    BY <1>12 DEF FollowFails, Running
  <2>2. skip \in SUBSET Msgs
    BY DEF TypeOK
  <2>3. \A m \in Msgs : ack[m] # "none" => ack'[m] # "none"
    BY <2>1, <2>2, CompleteKeeps
  <2>4. OneHand'
    BY <2>1, <2>3, HandsShrink
  <2> QED BY <2>1, <2>4 DEF Hands
<1> QED BY <1>1, <1>2, <1>3, <1>4, <1>5, <1>6, <1>7, <1>8, <1>9, <1>10, <1>11,
           <1>12 DEF Runner

LEMMA HandsStep ==
  ASSUME TypeOK, Tracking, Hands, [Next]_vars
  PROVE  Hands'
<1>1. CASE Runner
  BY <1>1, HandsRunner
<1>2. CASE RestartKilled \/ HostStart \/ SlaKilled \/ ContainerCrash
  <2>1. cpc' = "absent" /\ batch' = {} /\ follow' = {} /\ orphan' = {}
    BY <1>2, StopGone DEF RestartKilled, HostStart, SlaKilled, ContainerCrash, Gone
  <2> QED BY <2>1 DEF Hands, OneHand, InHand
<1>3. CASE SpawnOk
  <2>1. cpc = "absent" /\ cpc' = "booting"
    BY <1>3 DEF SpawnOk, HostFree, Tracking, Alive
  <2>2. UNCHANGED ack /\ batch' = {} /\ follow' = {} /\ orphan' = {}
    BY <1>3 DEF SpawnOk, ackVars
  <2> QED BY <2>1, <2>2 DEF Hands, OneHand, InHand
<1>4. CASE DropClaims
  <2>1. cpc = "absent" /\ UNCHANGED <<cpc, batch, follow, orphan>>
    BY <1>4 DEF DropClaims, Tracking, Alive, runVars, workVars
  <2> QED BY <2>1 DEF Hands, OneHand, InHand
<1>5. ASSUME NEW m \in Msgs, ApplyChange(m) \/ \E c \in Classes : Arrive(m, c)
      PROVE  Hands'
  BY <1>5 DEF ApplyChange, Arrive, Hands, OneHand, InHand, ackVars, runVars, workVars
<1>6. CASE Restart \/ SpawnFail \/ CloseEvent \/ HostCrash \/ SweepSync
           \/ SweepWake \/ SweepWoken \/ SweepEnforce \/ SweepCleanup \/ DropFails
  <2>1. UNCHANGED <<ack, cpc, batch, follow, orphan>>
    BY <1>6 DEF Restart, SpawnFail, CloseEvent, HostCrash, SweepSync, SweepWake,
                SweepWoken, SweepEnforce, SweepCleanup, DropFails, ackVars, runVars, workVars
  <2> QED BY <2>1 DEF Hands, OneHand, InHand
<1>7. CASE Hang \/ Clock \/ UNCHANGED vars
  <2>1. UNCHANGED <<ack, cpc, batch, follow, orphan>>
    BY <1>7 DEF Hang, Clock, Quiet, Elapse, Age, vars, ackVars, runVars, workVars
  <2> QED BY <2>1 DEF Hands, OneHand, InHand
<1> QED BY <1>1, <1>2, <1>3, <1>4, <1>5, <1>6, <1>7 DEF Next, Store, Process, Sweep

(* Nobody takes a message that is already in hand. *)
THEOREM OneHanded ==
  ASSUME StopFails = FALSE
  PROVE  Spec => []OneHand
<1>1. Init => Hands
  BY HandsInit
<1>2. TypeOK /\ Tracking /\ Hands /\ [Next]_vars => Hands'
  BY HandsStep
<1>3. TypeOK /\ Tracking /\ [Next]_vars => Tracking'
  BY TrackingStep
<1>4. Init => Tracking
  BY TrackingInit
<1>5. Hands => OneHand
  BY DEF Hands
<1> QED BY <1>1, <1>2, <1>3, <1>4, <1>5, TypeCorrect, PTL DEF Spec

-----------------------------------------------------------------------------
(* The rows of the two databases agree. *)

LEMMA RowsInit == ASSUME Init PROVE Rows
BY DEF Init, Rows, FailedIsSpent, InHand

(* What the runner takes was pending; what it acknowledges, it had in hand *)
(* or found pending; it writes nothing to the host's database.             *)
LEMMA RunnerWrites ==
  ASSUME TypeOK, Runner
  PROVE  /\ UNCHANGED inVars
         /\ \A m \in InHand' : m \in InHand \/ status[m] = "pending"
         /\ \A m \in Msgs : \/ ack'[m] \in {ack[m], "none"}
                            \/ m \in InHand
                            \/ status[m] = "pending"
<1>1. CASE Boot
  BY <1>1 DEF Boot, ClearClaims, SetAck, InHand, TypeOK
<1>2. CASE PollIdle
  BY <1>2 DEF PollIdle, InHand, ackVars
<1>3. CASE PollClaim
  <2>1. \A m \in Polled : status[m] = "pending"
    BY FetchRows DEF Polled
  <2> QED BY <1>3, <2>1 DEF PollClaim, Take, SetAck, InHand, TypeOK
<1>4. CASE Commands
  BY <1>4 DEF Commands, Complete, SetAck, InHand, TypeOK
<1>5. CASE Scripts
  BY <1>5 DEF Scripts, Complete, SetAck, InHand, TypeOK
<1>6. CASE Beat \/ Result
  BY <1>6 DEF Beat, Result, Complete, SetAck, InHand, TypeOK, runVars, workVars
<1>7. CASE FollowPoll
  <2>1. \A m \in Fetch(FALSE) : status[m] = "pending"
    BY FetchRows
  <2> DEFINE new == Fetch(FALSE) \ OfClass({"system"})
  <2>2. UNCHANGED <<inVars, batch, orphan>>
    BY <1>7 DEF FollowPoll
  <2>3. CASE UNCHANGED <<ackVars, follow>>
    BY <2>2, <2>3 DEF InHand, ackVars
  <2>4. CASE Take(new) /\ follow' = new
    <3>1. \A m \in new : status[m] = "pending"
      BY <2>1
    <3>2. \A m \in Msgs : ack'[m] = ack[m] \/ m \in new
      BY <2>4 DEF Take, SetAck
    <3> QED BY <2>2, <2>4, <3>1, <3>2 DEF InHand
  <2> QED BY <1>7, <2>3, <2>4 DEF FollowPoll
<1>8. CASE FollowPush
  BY <1>8 DEF FollowPush, Complete, SetAck, InHand, TypeOK
<1>9. CASE FollowTooLate
  BY <1>9 DEF FollowTooLate, Complete, SetAck, InHand, TypeOK
<1>10. ASSUME StreamEnd
       PROVE  /\ UNCHANGED inVars
              /\ \A m \in InHand' : m \in InHand
              /\ \A m \in Msgs : ack'[m] = ack[m] \/ m \in InHand
  BY <1>10 DEF StreamEnd, Complete, SetAck, InHand, TypeOK
<1>11. ASSUME NEW k \in Msgs, ReadAnswer(k)
       PROVE  /\ UNCHANGED inVars
              /\ \A m \in InHand' : m \in InHand
              /\ \A m \in Msgs : ack'[m] = ack[m] \/ status[m] = "pending"
  BY <1>11 DEF ReadAnswer, Complete, SetAck, InHand, TypeOK, runVars, workVars, Pending
<1>12. CASE FollowFails
  BY <1>12 DEF FollowFails, Complete, SetAck, InHand, TypeOK
<1> QED BY <1>1, <1>2, <1>3, <1>4, <1>5, <1>6, <1>7, <1>8, <1>9, <1>10, <1>11,
           <1>12 DEF Runner

(* A reset gives up pending claims only, when nobody has them in hand. *)
LEMMA RowsReset ==
  ASSUME TypeOK, Rows, ResetRows, UNCHANGED ack, InHand' = {}
  PROVE  Rows'
<1> DEFINE stuck == (Claims \cap Pending) \ deferred
           spent == {m \in stuck : tries[m] >= MaxTries}
<1>1. RetryOrFail(stuck, spent)
  BY DEF ResetRows
<1>2. \A m \in stuck : m \in Msgs /\ ack[m] = "processing" /\ status[m] = "pending"
  BY DEF Claims, Pending
<1>3. \A m \in spent : tries[m] = MaxTries
  BY <1>2, QueueConstants DEF TypeOK
<1>4. FailedIsSpent'
  <2> SUFFICES ASSUME NEW m \in Msgs, status'[m] = "failed"
               PROVE  tries'[m] = MaxTries /\ ack'[m] # "completed"
    BY DEF FailedIsSpent, Acked
  <2>1. CASE m \in spent
    BY <1>1, <1>2, <1>3, <2>1 DEF RetryOrFail
  <2>2. CASE m \notin spent
    BY <1>1, <1>2, <2>2 DEF RetryOrFail, Rows, FailedIsSpent, Acked
  <2> QED BY <2>1, <2>2
<1>5. \A m \in Msgs : class'[m] = "none" <=> status'[m] = "none"
  BY <1>1, <1>2 DEF RetryOrFail, Rows
<1>6. \A m \in Msgs : ack'[m] # "none" => status'[m] # "none"
  BY <1>1, <1>2 DEF RetryOrFail, Rows
<1> QED BY <1>4, <1>5, <1>6 DEF Rows

LEMMA RowsStep ==
  ASSUME TypeOK, Tracking, Hands, Rows, [Next]_vars
  PROVE  Rows'
<1>1. CASE Runner
  <2>1. \A m \in InHand : m \in Msgs /\ status[m] \notin {"failed", "none"}
    BY DEF Hands, OneHand, Rows, InHand, TypeOK
  <2>2. \A m \in InHand' : m \in Msgs
    BY <1>1, TypeRunner DEF InHand, TypeOK
  <2>3. UNCHANGED <<class, status, tries>>
    BY <1>1, RunnerWrites DEF inVars
  <2>4. FailedIsSpent'
    BY <1>1, <2>1, <2>3, RunnerWrites DEF Rows, FailedIsSpent, Acked
  <2>5. \A m \in InHand' : status'[m] # "failed"
    BY <1>1, <2>1, <2>3, RunnerWrites
  <2>6. \A m \in Msgs : ack'[m] # "none" => status'[m] # "none"
    BY <1>1, <2>1, <2>3, RunnerWrites DEF Rows
  <2> QED BY <2>3, <2>4, <2>5, <2>6 DEF Rows
<1>2. CASE SlaKilled
  <2>1. InHand' = {}
    BY <1>2, StopGone DEF SlaKilled, Gone, InHand
  <2> QED BY <1>2, <2>1, RowsReset DEF SlaKilled, ackVars
<1>3. CASE SweepCleanup
  <2>1. InHand' = {}
    BY <1>3 DEF SweepCleanup, Tracking, Hands, Alive, InHand, runVars, workVars
  <2> QED BY <1>3, <2>1, RowsReset DEF SweepCleanup, ackVars
<1>4. CASE SweepSync
  BY <1>4 DEF SweepSync, Rows, FailedIsSpent, Acked, InHand, TypeOK, ackVars, runVars, workVars
<1>5. ASSUME NEW m \in Msgs, NEW c \in AllClasses, Insert(m, c),
             UNCHANGED <<ack, batch, follow, orphan>>
      PROVE  Rows'
  <2>1. status[m] = "none" /\ ack[m] = "none" /\ m \notin InHand
    BY <1>5 DEF Insert, Rows, Hands, OneHand
  <2>2. /\ class'[m] # "none" /\ status'[m] = "pending"
        /\ \A k \in Msgs \ {m} : class'[k] = class[k] /\ status'[k] = status[k]
        /\ UNCHANGED <<tries, ack>> /\ InHand' = InHand
    BY <1>5 DEF Insert, TypeOK, AllClasses, InHand
  <2>3. InHand \subseteq Msgs
    BY DEF InHand, TypeOK
  <2> QED BY <2>1, <2>2, <2>3 DEF Rows, FailedIsSpent, Acked
<1>6. ASSUME NEW m \in Msgs, ApplyChange(m) \/ \E c \in Classes : Arrive(m, c)
      PROVE  Rows'
  BY <1>5, <1>6, QueueConstants DEF ApplyChange, Arrive, AllClasses, ackVars, runVars, workVars
<1>7. CASE DropClaims
  <2>1. \A m \in Msgs : ack'[m] \in {ack[m], "none"}
    BY <1>7 DEF DropClaims, ClearClaims, SetAck, TypeOK
  <2>2. UNCHANGED <<class, status, tries, batch, follow, orphan>>
    BY <1>7 DEF DropClaims, inVars, runVars, workVars
  <2> QED BY <2>1, <2>2 DEF Rows, FailedIsSpent, Acked, InHand
<1>8. CASE RestartKilled \/ HostStart \/ ContainerCrash
  <2>1. InHand' = {} /\ UNCHANGED <<class, status, tries, ack>>
    BY <1>8, StopGone DEF RestartKilled, HostStart, ContainerCrash, Gone, InHand, inVars, ackVars
  <2> QED BY <2>1 DEF Rows, FailedIsSpent, Acked
<1>11. CASE SpawnOk
  <2>1. InHand' = {} /\ UNCHANGED <<class, status, tries, ack>>
    BY <1>11 DEF SpawnOk, InHand, inVars, ackVars
  <2> QED BY <2>1 DEF Rows, FailedIsSpent, Acked
<1>9. CASE Restart \/ SpawnFail \/ CloseEvent \/ HostCrash
           \/ SweepWake \/ SweepWoken \/ SweepEnforce \/ DropFails
  <2>1. UNCHANGED <<class, status, tries, ack, batch, follow, orphan>>
    BY <1>9 DEF Restart, SpawnFail, CloseEvent, HostCrash, SweepWake,
                SweepWoken, SweepEnforce, DropFails, inVars, ackVars, runVars, workVars
  <2> QED BY <2>1 DEF Rows, FailedIsSpent, Acked, InHand
<1>10. CASE Hang \/ Clock \/ UNCHANGED vars
  <2>1. UNCHANGED <<class, status, tries, ack, batch, follow, orphan>>
    BY <1>10 DEF Hang, Clock, Quiet, Elapse, Age, vars, inVars, ackVars, runVars, workVars
  <2> QED BY <2>1 DEF Rows, FailedIsSpent, Acked, InHand
<1> QED BY <1>1, <1>2, <1>3, <1>4, <1>6, <1>7, <1>8, <1>9, <1>10, <1>11
        DEF Next, Store, Process, Sweep

(* The whole invariant. *)
THEOREM Invariance ==
  ASSUME StopFails = FALSE
  PROVE  Spec => []IInv
<1>1. Init => IInv
  BY TypeInit, TrackingInit, HandsInit, RowsInit DEF IInv
<1>2. IInv /\ [Next]_vars => Tracking' /\ Hands' /\ Rows'
  BY TrackingStep, HandsStep, RowsStep DEF IInv
<1>3. IInv /\ TypeOK' /\ [Next]_vars => IInv'
  BY <1>2 DEF IInv
<1> QED BY <1>1, <1>3, TypeCorrect, PTL DEF Spec

(* No message is given up before its last retry, or after its answer. *)
THEOREM NoEarlyFailure ==
  ASSUME StopFails = FALSE
  PROVE  Spec => []FailedIsSpent
<1>1. IInv => FailedIsSpent
  BY DEF IInv, Rows
<1> QED BY <1>1, Invariance, PTL

-----------------------------------------------------------------------------
(* Retries are charged for claims. *)

(* While no reset is under way, every open claim can still be charged. *)
Chargeable == hpc # "dropClaims" => Claims \cap Pending \subseteq charged

LEMMA ChargeableStep ==
  ASSUME IInv, Chargeable, [Next]_vars
  PROVE  Chargeable'
<1> USE DEF Chargeable
<1>1. CASE Runner
  <2>1. hpc # "dropClaims" /\ UNCHANGED <<status, hpc>>
    BY <1>1 DEF Runner, Boot, PollIdle, PollClaim, Commands, Scripts, Beat,
                Result, FollowPoll, FollowPush, FollowFails, FollowTooLate, StreamEnd,
                ReadAnswer, Running, IInv, Tracking, Alive, hostVars, inVars
  <2>2. \/ Claims' \subseteq Claims /\ charged' = charged
        \/ \E S \in SUBSET Msgs : Claims' \subseteq Claims \cup S /\ charged' = charged \cup S
    <3>1. CASE Boot \/ PollIdle
      BY <1>1, <3>1 DEF Boot, PollIdle, ClearClaims, SetAck, Claims, ackVars, histVars
    <3>2. CASE PollClaim
      <4>1. Polled \in SUBSET Msgs /\ Take(Polled)
        BY <3>2, FetchRows DEF PollClaim, Polled
      <4>2. Claims' \subseteq Claims \cup Polled /\ charged' = charged \cup Polled
        BY <4>1 DEF Take, SetAck, Claims
      <4> QED BY <4>1, <4>2
    <3>3. CASE FollowPoll
      <4> DEFINE new == Fetch(FALSE) \ OfClass({"system"})
      <4>1. new \in SUBSET Msgs
        BY FetchRows
      <4>2. CASE UNCHANGED <<ackVars, charged>>
        BY <4>2 DEF Claims, ackVars
      <4>3. CASE Take(new)
        <5>1. Claims' \subseteq Claims \cup new /\ charged' = charged \cup new
          BY <4>3 DEF Take, SetAck, Claims
        <5> QED BY <4>1, <5>1
      <4> QED BY <3>3, <4>2, <4>3 DEF FollowPoll
    <3>4. ASSUME NEW S, NEW beat, Complete(S, beat), UNCHANGED charged
          PROVE  Claims' \subseteq Claims /\ charged' = charged
      BY <3>4 DEF Complete, SetAck, Claims
    <3>5. CASE Commands \/ Scripts \/ Beat \/ Result \/ FollowPush \/ FollowFails
               \/ FollowTooLate
      BY <3>4, <3>5 DEF Commands, Scripts, Beat, Result, FollowPush, FollowFails,
                        FollowTooLate, histVars
    <3>6. CASE StreamEnd
      BY <3>4, <3>6 DEF StreamEnd
    <3>7. CASE \E m \in Msgs : ReadAnswer(m)
      BY <3>4, <3>7 DEF ReadAnswer
    <3> QED BY <1>1, <3>1, <3>2, <3>3, <3>5, <3>6, <3>7 DEF Runner
  <2> QED BY <2>1, <2>2 DEF Pending
<1>2. CASE SlaKilled \/ SweepCleanup
  BY <1>2 DEF SlaKilled, SweepCleanup
<1>3. CASE DropClaims
  <2>1. Claims' = {}
    BY <1>3 DEF DropClaims, ClearClaims, SetAck, Claims
  <2> QED BY <2>1
<1>4. CASE HostCrash \/ DropFails
  BY <1>4 DEF HostCrash, DropFails, CutShort, Claims, Pending, inVars, ackVars
<1>5. CASE SweepSync
  BY <1>5 DEF SweepSync, Claims, Pending, Acked, ackVars, histVars
<1>6. ASSUME NEW m \in Msgs, ApplyChange(m) \/ \E c \in Classes : Arrive(m, c)
      PROVE  Chargeable'
  <2>1. hpc # "dropClaims" /\ ack[m] = "none"
    BY <1>6 DEF ApplyChange, Arrive, HostFree, Insert, IInv, Rows
  <2>2. UNCHANGED <<ack, charged>> /\ \A k \in Msgs \ {m} : status'[k] = status[k]
    BY <1>6 DEF ApplyChange, Arrive, Insert, ackVars, histVars, IInv, TypeOK
  <2> QED BY <2>1, <2>2 DEF Claims, Pending
<1>7. CASE Restart \/ RestartKilled \/ SpawnOk \/ SpawnFail \/ CloseEvent
           \/ HostStart \/ SweepWake \/ SweepWoken \/ SweepEnforce
  <2>1. hpc # "dropClaims" \/ hpc' = hpc
    BY <1>7 DEF Restart, RestartKilled, SpawnOk, SpawnFail, CloseEvent, HostStart,
                SweepWake, SweepWoken, SweepEnforce, HostFree
  <2>2. UNCHANGED <<ack, status, charged>>
    BY <1>7 DEF Restart, RestartKilled, SpawnOk, SpawnFail, CloseEvent, HostStart,
                SweepWake, SweepWoken, SweepEnforce, inVars, ackVars, histVars
  <2> QED BY <2>1, <2>2 DEF Claims, Pending
<1>8. CASE ContainerCrash \/ Hang \/ Clock \/ UNCHANGED vars
  <2>1. UNCHANGED <<ack, status, charged, hpc>>
    BY <1>8 DEF ContainerCrash, Hang, Clock, Quiet, Elapse, Age, vars,
                inVars, ackVars, hostVars, histVars
  <2> QED BY <2>1 DEF Claims, Pending
<1> QED BY <1>1, <1>2, <1>3, <1>4, <1>5, <1>6, <1>7, <1>8
        DEF Next, Store, Process, Sweep

(* Only a reset charges or gives up, and only pending claims. *)
LEMMA ChargeStep ==
  ASSUME IInv, Chargeable, [Next]_vars, NEW m \in Msgs,
         tries'[m] > tries[m] \/ (status'[m] = "failed" /\ status[m] # "failed")
  PROVE  m \in charged
<1> DEFINE Idle == tries' = tries /\ \A k \in Msgs : status'[k] = "failed" => status[k] = "failed"
<1>1. ~Idle
  BY DEF IInv, TypeOK
<1>2. ~Runner
  BY <1>1, RunnerWrites DEF IInv, inVars
<1>3. ~(\E k \in Msgs : ApplyChange(k) \/ \E c \in Classes : Arrive(k, c))
  BY <1>1 DEF ApplyChange, Arrive, Insert, IInv, TypeOK
<1>4. ~SweepSync
  BY <1>1 DEF SweepSync
<1>5. ~(Restart \/ RestartKilled \/ SpawnOk \/ SpawnFail \/ CloseEvent \/ HostCrash
        \/ HostStart \/ SweepWake \/ SweepWoken \/ SweepEnforce \/ DropClaims
        \/ DropFails \/ ContainerCrash \/ Hang \/ Clock \/ UNCHANGED vars)
  BY <1>1 DEF Restart, RestartKilled, SpawnOk, SpawnFail, CloseEvent, HostCrash,
              HostStart, SweepWake, SweepWoken, SweepEnforce, DropClaims, DropFails,
              ContainerCrash, Hang, Clock, Quiet, Elapse, Age, vars, inVars
<1>6. ResetRows /\ hpc # "dropClaims"
  BY <1>2, <1>3, <1>4, <1>5
  DEF Next, Store, Process, Sweep, SlaKilled, SweepCleanup
<1>7. m \in Claims \cap Pending
  BY <1>1, <1>6 DEF ResetRows, RetryOrFail, IInv, TypeOK
<1> QED BY <1>6, <1>7 DEF Chargeable

(* Every claim is charged at most once, and once more for every reset that *)
(* a crash or an unwritable outbound.db cut short.                         *)
THEOREM RetryEarned ==
  ASSUME StopFails = FALSE
  PROVE  Spec => RetryIsEarned
<1>1. Init => Chargeable
  BY DEF Init, Chargeable, Claims
<1>2. IInv /\ Chargeable /\ [Next]_vars => Chargeable'
  BY ChargeableStep
<1>3. IInv /\ Chargeable /\ [Next]_vars
        => [\A m \in Msgs :
              (tries'[m] > tries[m] \/ (status'[m] = "failed" /\ status[m] # "failed"))
                => m \in charged]_vars
  BY ChargeStep
<1> QED BY <1>1, <1>2, <1>3, Invariance, PTL DEF Spec, RetryIsEarned

-----------------------------------------------------------------------------
(* The session queue implements the life cycle of its messages. *)

stages == [m \in Msgs |-> Stage(m)]

LEMMA RefineInit == ASSUME Init PROVE Life!LifeInit
BY DEF Init, Life!LifeInit, Stage

(* A step that changes neither class, status, acknowledgement nor tries    *)
(* is no step of the life cycle.                                           *)
LEMMA RefineStutter ==
  ASSUME UNCHANGED <<class, status, ack, tries>>
  PROVE  UNCHANGED <<stages, tries>>
BY DEF stages, Stage

(* What is in hand is claimed or answered. *)
LEMMA InHandStage ==
  ASSUME IInv, NEW m \in InHand
  PROVE  m \in Msgs /\ Stage(m) \in {"claimed", "answered"}
BY DEF IInv, TypeOK, Hands, OneHand, Rows, InHand, Stage

LEMMA RefineTake ==
  ASSUME IInv, NEW S \in SUBSET Msgs, S # {}, Take(S),
         \A m \in S : status[m] = "pending" /\ ack[m] = "none",
         UNCHANGED inVars
  PROVE  Life!LifeNext
<1>1. \A m \in S : Stage(m) = "queued" /\ Stage(m)' = "claimed"
  BY DEF IInv, Rows, Stage, Take, SetAck, inVars
<1>2. \A m \in Msgs \ S : Stage(m)' = Stage(m)
  BY DEF Stage, Take, SetAck, inVars
<1>3. Life!Claim(S)
  BY <1>1, <1>2 DEF Life!Claim, Life!Move, inVars
<1> QED BY <1>3 DEF Life!LifeNext

LEMMA RefineComplete ==
  ASSUME IInv, NEW S \in SUBSET InHand, NEW beat, Complete(S, beat),
         UNCHANGED inVars
  PROVE  Life!LifeNext \/ UNCHANGED <<stages, tries>>
<1> DEFINE open == {m \in S : Stage(m) = "claimed"}
<1>1. S \subseteq Msgs /\ \A m \in S \ open : Stage(m) = "answered"
  BY InHandStage
<1>2. \A m \in S : Stage(m)' = "answered"
  BY <1>1 DEF Stage, Complete, SetAck, inVars
<1>3. \A m \in Msgs \ S : Stage(m)' = Stage(m)
  BY DEF Stage, Complete, SetAck, inVars
<1>4. CASE open = {}
  BY <1>1, <1>2, <1>3, <1>4 DEF stages, inVars
<1>5. CASE open # {}
  <2>1. \A m \in Msgs : Stage(m)' = IF m \in open THEN "answered" ELSE Stage(m)
    BY <1>1, <1>2, <1>3
  <2>2. Life!Move(open, "claimed", "answered")
    BY <1>1, <1>5, <2>1 DEF Life!Move
  <2>3. Life!Answer(open)
    BY <2>2 DEF Life!Answer, inVars
  <2> QED BY <1>1, <2>3 DEF Life!LifeNext
<1> QED BY <1>4, <1>5

LEMMA RefineClear ==
  ASSUME IInv, ClearClaims, UNCHANGED inVars
  PROVE  Life!LifeNext \/ UNCHANGED <<stages, tries>>
<1> DEFINE open == {m \in Msgs : Stage(m) = "claimed"}
<1>1. \A m \in Msgs : Stage(m)' = IF m \in open THEN "queued" ELSE Stage(m)
  BY DEF Stage, ClearClaims, SetAck, Claims, inVars
<1>2. CASE open = {}
  BY <1>1, <1>2 DEF stages, inVars
<1>3. CASE open # {}
  <2>1. Life!Release(open)
    BY <1>1, <1>3 DEF Life!Release, Life!Move, inVars
  <2> QED BY <2>1 DEF Life!LifeNext
<1> QED BY <1>2, <1>3

LEMMA RefineReset ==
  ASSUME IInv, ResetRows, UNCHANGED ack
  PROVE  Life!LifeNext
<1> DEFINE stuck == (Claims \cap Pending) \ deferred
           spent == {m \in stuck : tries[m] >= MaxTries}
<1>1. RetryOrFail(stuck, spent)
  BY DEF ResetRows
<1>2. \A m \in stuck : m \in Msgs /\ ack[m] = "processing" /\ status[m] = "pending"
  BY DEF Claims, Pending
<1>3. \A m \in stuck : Stage(m) = "claimed"
  BY <1>2 DEF IInv, Rows, Stage
<1>4. /\ \A m \in spent : tries[m] = MaxTries
      /\ \A m \in stuck \ spent : tries[m] < MaxTries
  BY <1>2, QueueConstants DEF IInv, TypeOK
<1>5. \A m \in Msgs : Stage(m)' = IF m \in spent THEN "failed" ELSE Stage(m)
  <2> SUFFICES ASSUME NEW m \in Msgs
               PROVE  Stage(m)' = IF m \in spent THEN "failed" ELSE Stage(m)
    OBVIOUS
  <2>1. class'[m] = class[m] /\ ack'[m] = ack[m]
        /\ status'[m] = IF m \in spent THEN "failed" ELSE status[m]
    BY <1>1 DEF RetryOrFail
  <2>2. m \in spent => class[m] # "none"
    BY <1>2 DEF IInv, Rows
  <2> QED BY <2>1, <2>2 DEF Stage
<1>6. tries' = [m \in Msgs |-> tries[m] + (IF m \in stuck \ spent THEN 1 ELSE 0)]
  <2>1. \A m \in Msgs : tries[m] + 0 = tries[m]
    BY QueueConstants DEF IInv, TypeOK
  <2> QED BY <1>1, <2>1 DEF RetryOrFail
<1>7. Life!Settle(stuck \ spent, spent)
  <2>1. \A m \in stuck : stages[m] = "claimed"
    BY <1>2, <1>3 DEF stages
  <2>2. stages' = [m \in Msgs |-> IF m \in spent THEN "failed" ELSE stages[m]]
    BY <1>5 DEF stages
  <2> QED BY <1>4, <1>6, <2>1, <2>2 DEF Life!Settle, stages
<1> QED BY <1>2, <1>7 DEF Life!LifeNext

LEMMA RefineInsert ==
  ASSUME IInv, NEW m \in Msgs, NEW c \in AllClasses, Insert(m, c), UNCHANGED ack
  PROVE  Life!LifeNext
<1>1. class[m] = "none" /\ ack[m] = "none" /\ c # "none"
  BY DEF Insert, IInv, Rows, AllClasses
<1>2. Stage(m) = "absent" /\ Stage(m)' = "queued"
  BY <1>1 DEF Insert, Stage, IInv, TypeOK
<1>3. \A k \in Msgs \ {m} : Stage(k)' = Stage(k)
  BY DEF Insert, Stage, IInv, TypeOK
<1>4. Life!Post(m)
  BY <1>2, <1>3 DEF Life!Post, Life!Move, Insert
<1> QED BY <1>4 DEF Life!LifeNext

LEMMA RefineRunner ==
  ASSUME IInv, Runner
  PROVE  Life!LifeNext \/ UNCHANGED <<stages, tries>>
<1>1. UNCHANGED inVars
  BY RunnerWrites DEF IInv
<1>2. CASE Boot
  BY <1>1, <1>2, RefineClear DEF Boot
<1>3. CASE PollIdle
  BY <1>1, <1>3, RefineStutter DEF PollIdle, inVars, ackVars
<1>4. CASE PollClaim
  <2>1. /\ Polled \in SUBSET Msgs /\ Polled # {} /\ Take(Polled)
        /\ \A m \in Polled : status[m] = "pending" /\ ack[m] = "none"
    BY <1>4, FetchRows DEF PollClaim, Polled
  <2> QED BY <1>1, <2>1, RefineTake
<1>5. CASE FollowPoll
  <2> DEFINE new == Fetch(FALSE) \ OfClass({"system"})
  <2>1. /\ new \in SUBSET Msgs
        /\ \A m \in new : status[m] = "pending" /\ ack[m] = "none"
    BY FetchRows
  <2>2. CASE UNCHANGED ackVars
    BY <1>1, <2>2, RefineStutter DEF inVars, ackVars
  <2>3. CASE Take(new) /\ new # {}
    BY <1>1, <2>1, <2>3, RefineTake
  <2> QED BY <1>5, <2>2, <2>3 DEF FollowPoll
<1>6. CASE \E S \in SUBSET InHand, beat \in BOOLEAN : Complete(S, beat)
  BY <1>1, <1>6, RefineComplete
<1>7. CASE Commands
  <2>1. batch \cap OfClass({"command"}) \in SUBSET InHand
    BY DEF InHand
  <2> QED BY <1>6, <1>7, <2>1 DEF Commands
<1>8. CASE Scripts
  <2>1. PICK skip \in SUBSET batch, beat \in BOOLEAN : Complete(skip, beat)
    BY <1>8 DEF Scripts
  <2>2. skip \in SUBSET InHand
    BY DEF InHand
  <2> QED BY <1>6, <2>1, <2>2
<1>9. CASE Beat \/ Result \/ StreamEnd
  <2>1. {} \in SUBSET InHand /\ batch \in SUBSET InHand
    BY DEF InHand
  <2>2. \E beat \in BOOLEAN : Complete({}, beat) \/ Complete(batch, beat)
    BY <1>9 DEF Beat, Result, StreamEnd
  <2> QED BY <1>6, <2>1, <2>2
<1>13. CASE FollowFails
  <2>1. PICK skip \in SUBSET follow, beat \in BOOLEAN : Complete(skip, beat)
    BY <1>13 DEF FollowFails
  <2>2. skip \in SUBSET InHand
    BY DEF InHand
  <2> QED BY <1>6, <2>1, <2>2
<1>10. CASE FollowPush
  <2>1. follow \in SUBSET InHand
    BY DEF InHand
  <2> QED BY <1>6, <1>10, <2>1 DEF FollowPush
<1>11. CASE FollowTooLate
  <2>1. PICK skip \in SUBSET orphan, beat \in BOOLEAN : Complete(skip, beat)
    BY <1>11 DEF FollowTooLate
  <2>2. skip \in SUBSET InHand
    BY DEF InHand
  <2> QED BY <1>6, <2>1, <2>2
<1>12. ASSUME NEW m \in Msgs, ReadAnswer(m) PROVE Life!LifeNext
  <2>1. class[m] # "none" /\ status[m] = "pending" /\ ack[m] = "none"
    BY <1>12 DEF ReadAnswer, Pending
  <2>2. Stage(m) = "queued" /\ Stage(m)' = "answered"
    BY <1>1, <1>12, <2>1 DEF ReadAnswer, Complete, SetAck, Stage, inVars
  <2>3. \A k \in Msgs \ {m} : Stage(k)' = Stage(k)
    BY <1>1, <1>12 DEF ReadAnswer, Complete, SetAck, Stage, inVars
  <2>4. Life!Move({m}, "queued", "answered")
    BY <2>2, <2>3 DEF Life!Move
  <2>5. Life!Answer({m})
    BY <1>1, <2>4 DEF Life!Answer, inVars
  <2> QED BY <2>5 DEF Life!LifeNext
<1> QED BY <1>2, <1>3, <1>4, <1>5, <1>7, <1>8, <1>9, <1>10, <1>11, <1>12, <1>13
        DEF Runner

LEMMA RefineStep ==
  ASSUME IInv, [Next]_vars
  PROVE  Life!LifeNext \/ UNCHANGED <<stages, tries>>
<1>1. CASE Runner
  BY <1>1, RefineRunner
<1>2. CASE SlaKilled \/ SweepCleanup
  BY <1>2, RefineReset DEF SlaKilled, SweepCleanup, ackVars
<1>3. CASE DropClaims
  BY <1>3, RefineClear DEF DropClaims
<1>4. CASE SweepSync
  <2>1. \A m \in Msgs : Stage(m)' = Stage(m)
    BY <1>4 DEF SweepSync, Stage, Acked, ackVars, IInv, Rows, FailedIsSpent
  <2> QED BY <1>4, <2>1 DEF stages, SweepSync
<1>5. ASSUME NEW m \in Msgs, ApplyChange(m) \/ \E c \in Classes : Arrive(m, c)
      PROVE  Life!LifeNext
  <2>1. PICK c \in AllClasses : Insert(m, c)
    BY <1>5, QueueConstants DEF ApplyChange, Arrive, AllClasses
  <2>2. UNCHANGED ack
    BY <1>5 DEF ApplyChange, Arrive, ackVars
  <2> QED BY <2>1, <2>2, RefineInsert
<1>6. CASE Restart \/ RestartKilled \/ SpawnOk \/ SpawnFail \/ CloseEvent
           \/ HostCrash \/ HostStart \/ SweepWake \/ SweepWoken \/ SweepEnforce
           \/ DropFails
  BY <1>6, RefineStutter
  DEF Restart, RestartKilled, SpawnOk, SpawnFail, CloseEvent, HostCrash, HostStart,
      SweepWake, SweepWoken, SweepEnforce, DropFails, inVars, ackVars
<1>7. CASE ContainerCrash \/ Hang \/ Clock \/ UNCHANGED vars
  BY <1>7, RefineStutter DEF ContainerCrash, Hang, Clock, Quiet, Elapse, Age, vars,
                             inVars, ackVars
<1> QED BY <1>1, <1>2, <1>3, <1>4, <1>5, <1>6, <1>7 DEF Next, Store, Process, Sweep

(* Databases, polls, crashes and sweeps together keep what                 *)
(* MessageLifecycle promises about every message.                          *)
THEOREM Implementation ==
  ASSUME StopFails = FALSE
  PROVE  Spec => Lifecycle
<1>1. Init => Life!LifeInit
  BY RefineInit
<1>2. IInv /\ [Next]_vars => [Life!LifeNext]_(Life!lifeVars)
  BY RefineStep DEF Life!lifeVars, stages
<1> QED BY <1>1, <1>2, Invariance, PTL DEF Spec, Lifecycle, Life!LifeSpec

-----------------------------------------------------------------------------
(* The session queue uses its container slot as ContainerSlot says. *)

LEMMA SlotStep ==
  ASSUME TypeOK, Tracking, [Next]_vars
  PROVE  Slot!SlotNext \/ UNCHANGED <<up, tracked, spawning, Alive>>
<1> USE DEF Slot!SlotNext
<1>1. ASSUME NEW m \in Msgs, ApplyChange(m) \/ \E c \in Classes : Arrive(m, c)
      PROVE  Slot!Want \/ UNCHANGED <<up, tracked, spawning, Alive>>
  <2>1. up /\ UNCHANGED <<up, tracked, Alive>>
    BY <1>1 DEF ApplyChange, Arrive, HostFree, runVars, workVars, Alive
  <2>2. spawning' = spawning \/ (spawning' = TRUE /\ ~tracked)
    BY <1>1, Zenon DEF ApplyChange, Arrive, TypeOK
  <2>3. CASE spawning' = spawning
    BY <2>1, <2>3
  <2>4. CASE spawning' # spawning
    BY <2>1, <2>2, <2>4 DEF Slot!Want, TypeOK
  <2> QED BY <2>3, <2>4
<1>2. CASE SpawnOk
  BY <1>2 DEF SpawnOk, HostFree, Tracking, Alive, Slot!Launch
<1>3. CASE SpawnFail
  BY <1>3 DEF SpawnFail, HostFree, Alive, runVars, workVars, Slot!GiveUp
<1>4. CASE CloseEvent
  <2>1. /\ up /\ tracked /\ ~Alive /\ tracked' = FALSE /\ spawning' \in BOOLEAN
        /\ UNCHANGED <<up, Alive>>
    BY <1>4, Zenon DEF CloseEvent, HostFree, Alive, runVars, workVars, TypeOK, Tracking
  <2> QED BY <2>1 DEF Slot!Forget
<1>5. CASE HostCrash
  BY <1>5 DEF HostCrash, Alive, runVars, workVars, Slot!Crash
<1>6. CASE HostStart
  BY <1>6, StopGone DEF HostStart, Gone, Alive, Slot!Recover
<1>7. CASE SweepWake
  <2>1. /\ up /\ ~tracked /\ spawning' = TRUE /\ UNCHANGED <<up, tracked, Alive>>
    BY <1>7 DEF SweepWake, Alive, runVars, workVars
  <2>2. CASE spawning
    BY <2>1, <2>2 DEF TypeOK
  <2>3. CASE ~spawning
    BY <2>1, <2>3 DEF Slot!Want
  <2> QED BY <2>2, <2>3
<1>8. CASE RestartKilled \/ SlaKilled \/ ContainerCrash
  <2>1. Alive' = FALSE /\ UNCHANGED <<up, tracked, spawning>>
    BY <1>8, StopGone DEF RestartKilled, SlaKilled, ContainerCrash, Gone, Alive, hostVars
  <2>2. CASE Alive
    BY <2>1, <2>2 DEF Slot!Die
  <2>3. CASE ~Alive
    BY <2>1, <2>3 DEF Alive
  <2> QED BY <2>2, <2>3
<1>9. CASE Restart \/ SweepSync \/ SweepWoken \/ SweepEnforce \/ SweepCleanup
           \/ DropClaims \/ DropFails
  BY <1>9 DEF Restart, SweepSync, SweepWoken, SweepEnforce, SweepCleanup,
              DropClaims, DropFails, Alive, runVars, workVars
<1>10. CASE Runner
  <2>1. Alive /\ Alive' /\ UNCHANGED <<up, tracked, spawning>>
    BY <1>10 DEF Runner, Boot, PollIdle, PollClaim, Commands, Scripts, Beat,
                 Result, FollowPoll, FollowPush, FollowFails, FollowTooLate, StreamEnd,
                 ReadAnswer, Running, Alive, runVars, workVars, hostVars
  <2> QED BY <2>1 DEF Alive
<1>11. CASE Hang \/ Clock \/ UNCHANGED vars
  BY <1>11 DEF Hang, Clock, Quiet, Elapse, Age, vars, runVars, workVars, hostVars, Alive
<1> QED BY <1>1, <1>2, <1>3, <1>4, <1>5, <1>6, <1>7, <1>8, <1>9, <1>10, <1>11
        DEF Next, Store, Process, Sweep

(* Whoever asks for a container, none is started beside a live one.        *)
THEOREM SlotKept ==
  ASSUME StopFails = FALSE
  PROVE  Spec => OneContainer
<1>1. Init => Slot!SlotInit
  BY DEF Init, Slot!SlotInit, Alive
<1>2. TypeOK /\ Tracking /\ [Next]_vars => [Slot!SlotNext]_(Slot!slotVars)
  BY SlotStep DEF Slot!slotVars
<1>3. IInv => TypeOK /\ Tracking
  BY DEF IInv
<1> QED BY <1>1, <1>2, <1>3, Invariance, PTL DEF Spec, OneContainer, Slot!SlotSpec

=============================================================================
