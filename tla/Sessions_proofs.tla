-------------------------- MODULE Sessions_proofs ---------------------------
(***************************************************************************)
(* Theorems of what a session rests on: of ContainerLifecycle, for any set *)
(* of spawn identities and any number of configuration changes and crashes;*)
(* of MessageNumbers, for any writing processes and any bound on the       *)
(* numbers; of Scheduling, for any number of occurrences, commands and     *)
(* faults.                                                                 *)
(***************************************************************************)
EXTENDS ContainerLifecycle, MessageNumbers, Scheduling, FiniteSetTheorems,
        WellFoundedInduction, TLAPS

-----------------------------------------------------------------------------
(***************************************************************************)
(* Containers.  OneOfEach, the inductive invariant, ties the promise, the  *)
(***************************************************************************)

(* A call that still prepares owns the promise, one with a client owns the *)
(* entry, and the table never holds both.                                  *)
Owners ==
  /\ \A p \in Spawns : call[p] \in {"prep", "args"} <=> promise = p
  /\ \A p \in Spawns : call[p] \in {"running", "failed", "closing"} => entry = p
  /\ promise # NoSpawn => entry = NoSpawn

(* A host that is down has no entries, no promises and no clients. *)
Clean ==
  ~up => /\ entry = NoSpawn /\ promise = NoSpawn
         /\ \A p \in Spawns : call[p] = "none"

(* While the host runs, a container has its client. *)
Attached ==
  /\ up => \A p \in LiveBoxes : call[p] = "running"
  /\ NoDuplicate

OneOfEach == Owners /\ Clean /\ Attached

-----------------------------------------------------------------------------
(* Type correctness. *)

LEMMA TypeInit == ASSUME Init PROVE TypeOK
BY LifecycleConstants DEF Init, TypeOK, Calls, Boxes

LEMMA TypeSpawn ==
  ASSUME TypeOK, NEW p \in Spawns,
         Wake(p) \/ Materialize(p) \/ SpawnFails(p) \/ Spawn(p)
  PROVE  TypeOK'
<1>1. CASE Wake(p)
  BY <1>1 DEF TypeOK, Wake, Begin, Calls, confVars
<1>2. CASE Materialize(p)
  BY <1>2 DEF TypeOK, Materialize, Calls, hostVars, confVars
<1>3. CASE SpawnFails(p)
  BY <1>3 DEF TypeOK, SpawnFails, Calls, confVars
<1>4. CASE Spawn(p)
  <2>1. call' \in [Spawns -> Calls] /\ box' \in [Spawns -> Boxes]
    BY <1>4 DEF TypeOK, Spawn, Calls, Boxes
  <2> QED BY <1>4, <2>1 DEF TypeOK, Spawn, confVars
<1> QED BY <1>1, <1>2, <1>3, <1>4

LEMMA TypeClose ==
  ASSUME TypeOK, NEW p \in Spawns, Close(p)
  PROVE  TypeOK'
<1>1. call' \in [Spawns -> Calls] /\ promise' \in Spawns \cup {NoSpawn}
  <2>1. CASE p \in onExit /\ promise = NoSpawn
    <3>1. PICK q \in Spawns \ {p} :
             /\ call' = [call EXCEPT ![p] = "none", ![q] = "prep"]
             /\ promise' = q
      BY <2>1 DEF Close, Respawn
    <3> QED BY <3>1 DEF TypeOK, Calls
  <2>2. CASE ~(p \in onExit /\ promise = NoSpawn)
    BY <2>2 DEF TypeOK, Close, Respawn, Calls
  <2> QED BY <2>1, <2>2
<1> QED BY <1>1 DEF TypeOK, Close, Closed, confVars

LEMMA StopType ==
  ASSUME TypeOK, NEW p \in Spawns, StopBox(p)
  PROVE  call' \in [Spawns -> Calls] /\ box' \in [Spawns -> Boxes]
<1>1. box' = box \/ box' = [box EXCEPT ![p] = "none"]
  BY DEF StopBox
<1>2. call' \in [Spawns -> Calls]
  BY DEF StopBox, TypeOK, Calls
<1> QED BY <1>1, <1>2 DEF TypeOK, Boxes

LEMMA KillType ==
  ASSUME TypeOK, NEW wanted \in BOOLEAN, Kill(wanted)
  PROVE  /\ onExit' \subseteq Spawns
         /\ call' \in [Spawns -> Calls] /\ box' \in [Spawns -> Boxes]
<1>1. entry \in Spawns /\ StopBox(entry)
  BY DEF Kill, TypeOK
<1>2. onExit' \subseteq Spawns
  BY <1>1 DEF Kill, TypeOK
<1> QED BY <1>1, <1>2, StopType

LEMMA TypeHost ==
  ASSUME TypeOK, KillStuck \/ ChangeConfig \/ Restart \/ HostCrash \/ HostStart
  PROVE  TypeOK'
<1>1. CASE KillStuck
  <2>1. Kill(FALSE)
    BY <1>1 DEF KillStuck
  <2> QED BY <1>1, <2>1, KillType DEF TypeOK, KillStuck, confVars
<1>2. CASE ChangeConfig
  BY <1>2, LifecycleConstants DEF TypeOK, ChangeConfig, hostVars, spawnVars
<1>3. CASE Restart
  <2>1. CASE \E wanted \in BOOLEAN : Kill(wanted)
    BY <1>3, <2>1, KillType DEF TypeOK, Restart
  <2>2. CASE UNCHANGED <<onExit, call, box>>
    BY <1>3, <2>2 DEF TypeOK, Restart
  <2> QED BY <1>3, <2>1, <2>2 DEF Restart
<1>4. CASE HostCrash
  <2>1. crashes' \in 0 .. MaxCrashes
    BY <1>4, LifecycleConstants DEF TypeOK, HostCrash
  <2>2. call' \in [Spawns -> Calls]
    BY <1>4 DEF HostCrash, Calls
  <2> QED BY <1>4, <2>1, <2>2 DEF TypeOK, HostCrash, confVars
<1>5. CASE HostStart
  <2>1. PICK kept \in SUBSET LiveBoxes :
           box' = [p \in Spawns |-> IF p \in kept THEN box[p] ELSE "none"]
    BY <1>5 DEF HostStart
  <2>2. box' \in [Spawns -> Boxes]
    BY <2>1 DEF TypeOK, Boxes
  <2> QED BY <1>5, <2>2 DEF TypeOK, HostStart, confVars
<1> QED BY <1>1, <1>2, <1>3, <1>4, <1>5

LEMMA TypeBox ==
  ASSUME TypeOK, NEW p \in Spawns, BoxStarts(p) \/ BoxExits(p)
  PROVE  TypeOK'
BY DEF TypeOK, BoxStarts, BoxExits, Calls, Boxes, hostVars, confVars

LEMMA TypeStep == ASSUME TypeOK, [Next]_vars PROVE TypeOK'
<1>1. CASE UNCHANGED vars
  BY <1>1 DEF TypeOK, vars, hostVars, spawnVars, confVars
<1> QED BY <1>1, TypeSpawn, TypeClose, TypeHost, TypeBox DEF Next

(* Every variable keeps its type: a spawn uses no identity of a client or  *)
(* a container that is still there, and the bounds hold.                   *)
THEOREM TypeCorrect == Spec => []TypeOK
<1>1. Init => TypeOK
  BY TypeInit
<1>2. TypeOK /\ [Next]_vars => TypeOK'
  BY TypeStep
<1> QED BY <1>1, <1>2, PTL DEF Spec

-----------------------------------------------------------------------------
(* The session's status follows its entry. *)

StatusInv ==
  /\ StatusFollows
  /\ ~up => entry = NoSpawn /\ crashes > 0

LEMMA StatusStep ==
  ASSUME TypeOK, StatusInv, [Next]_vars
  PROVE  StatusInv'
<1> USE DEF StatusInv, StatusFollows
<1>1. ASSUME NEW p \in Spawns, Spawn(p) \/ Close(p)
      PROVE  StatusInv'
  BY <1>1, LifecycleConstants DEF Spawn, Close, Closed, TypeOK, confVars
<1>2. CASE HostCrash
  BY <1>2 DEF HostCrash, TypeOK, confVars
<1>3. CASE HostStart
  BY <1>3 DEF HostStart, confVars
<1>4. CASE UNCHANGED <<up, entry, dbStatus, crashes>>
  BY <1>4
<1>5. ASSUME NEW p \in Spawns,
             \/ Wake(p) \/ Materialize(p) \/ SpawnFails(p)
             \/ BoxStarts(p) \/ BoxExits(p)
      PROVE  UNCHANGED <<up, entry, dbStatus, crashes>>
  BY <1>5 DEF Wake, Materialize, SpawnFails, BoxStarts, BoxExits, hostVars
<1>6. CASE KillStuck \/ ChangeConfig \/ Restart \/ UNCHANGED vars
  BY <1>6, <1>4 DEF KillStuck, ChangeConfig, Restart, hostVars, vars
<1> QED BY <1>1, <1>2, <1>3, <1>4, <1>5, <1>6 DEF Next

(* A session with a container the host knows of is "running" in the        *)
(* central database, so that the active delivery poll selects it, whether  *)
(* or not a container may outlive its client.                              *)
THEOREM StatusKept == Spec => []StatusFollows
<1>1. Init => StatusInv
  BY DEF Init, StatusInv, StatusFollows
<1>2. TypeOK /\ StatusInv /\ [Next]_vars => StatusInv'
  BY StatusStep
<1>3. StatusInv => StatusFollows
  BY DEF StatusInv
<1> QED BY <1>1, <1>2, <1>3, TypeCorrect, PTL DEF Spec

-----------------------------------------------------------------------------
(* One container at a time.  From here on, no container outlives its       *)
(* killed client: the run lifecycle_detached shows what happens otherwise. *)

LEMMA OwnersSpawn ==
  ASSUME TypeOK, Owners, NEW p \in Spawns,
         Wake(p) \/ Materialize(p) \/ SpawnFails(p) \/ Spawn(p)
  PROVE  Owners'
<1> USE LifecycleConstants DEF TypeOK, Owners
<1>1. CASE Wake(p)
  BY <1>1 DEF Wake, Begin
<1>2. CASE Materialize(p)
  BY <1>2 DEF Materialize, hostVars
<1>3. CASE SpawnFails(p)
  BY <1>3 DEF SpawnFails
<1>4. CASE Spawn(p)
  <2>1. promise = p /\ entry = NoSpawn
    BY <1>4 DEF Spawn
  <2>2. \A q \in Spawns \ {p} : call[q] = "none" /\ call'[q] = call[q]
    BY <1>4, <2>1 DEF Spawn, Calls
  <2>3. call'[p] \in {"running", "failed"}
    BY <1>4 DEF Spawn
  <2> QED BY <1>4, <2>2, <2>3 DEF Spawn
<1> QED BY <1>1, <1>2, <1>3, <1>4

LEMMA OwnersClose ==
  ASSUME TypeOK, Owners, NEW p \in Spawns, Close(p)
  PROVE  /\ Owners'
         /\ entry = p
         /\ \A q \in Spawns : call'[q] \in {"none", "prep"}
<1>1. entry = p /\ promise = NoSpawn /\ entry' = NoSpawn
  BY LifecycleConstants DEF TypeOK, Owners, Close, Closed
<1>2. \A q \in Spawns \ {p} : call[q] = "none"
  BY <1>1, LifecycleConstants DEF TypeOK, Owners, Calls
<1>3. CASE p \in onExit
  <2>1. PICK q \in Spawns \ {p} :
           /\ call' = [call EXCEPT ![p] = "none", ![q] = "prep"]
           /\ promise' = q
    BY <1>1, <1>3 DEF Close, Respawn
  <2>2. \A r \in Spawns : call'[r] = IF r = q THEN "prep" ELSE "none"
    BY <1>2, <2>1 DEF TypeOK
  <2>3. ASSUME NEW r \in Spawns
        PROVE  call'[r] \in {"prep", "args"} <=> promise' = r
    <3>1. CASE r = q
      BY <2>1, <2>2, <3>1
    <3>2. CASE r # q
      <4>1. call'[r] = "none"
        BY <2>2, <3>2
      <4> QED BY <2>1, <3>2, <4>1
    <3> QED BY <3>1, <3>2
  <2>4. \A r \in Spawns : call'[r] \notin {"running", "failed", "closing"}
    BY <2>2
  <2>5. \A r \in Spawns : call'[r] \in {"none", "prep"}
    BY <2>2
  <2>6. Owners'
    BY <1>1, <2>3, <2>4 DEF Owners
  <2> QED BY <1>1, <2>5, <2>6
<1>4. CASE p \notin onExit
  <2>1. \A r \in Spawns : call'[r] = "none"
    BY <1>2, <1>4 DEF TypeOK, Close, Respawn
  <2>2. promise' = NoSpawn
    BY <1>1, <1>4 DEF Close, Respawn
  <2> QED BY <1>1, <2>1, <2>2, LifecycleConstants DEF Owners
<1> QED BY <1>3, <1>4

(* A kill turns a running client into one whose close event is pending. *)
LEMMA OwnersKill ==
  ASSUME TypeOK, Owners, NEW wanted \in BOOLEAN, Kill(wanted),
         UNCHANGED <<entry, promise>>
  PROVE  Owners'
BY DEF TypeOK, Owners, Kill, StopBox

LEMMA OwnersStep ==
  ASSUME TypeOK, Owners, Clean, [Next]_vars
  PROVE  Owners'
<1>1. ASSUME NEW p \in Spawns, BoxStarts(p) \/ BoxExits(p)
      PROVE  Owners'
  BY <1>1 DEF TypeOK, Owners, BoxStarts, BoxExits, hostVars
<1>2. CASE KillStuck
  BY <1>2, OwnersKill DEF KillStuck
<1>3. CASE Restart
  BY <1>3, OwnersKill DEF Restart, Owners
<1>4. CASE HostCrash
  BY <1>4, LifecycleConstants DEF HostCrash, Owners
<1>5. CASE ChangeConfig \/ HostStart \/ UNCHANGED vars
  BY <1>5 DEF ChangeConfig, HostStart, Owners, vars, hostVars, spawnVars
<1> QED BY <1>1, <1>2, <1>3, <1>4, <1>5, OwnersSpawn, OwnersClose DEF Next

LEMMA CleanStep ==
  ASSUME TypeOK, Clean, [Next]_vars
  PROVE  Clean'
<1>1. ASSUME NEW p \in Spawns,
             \/ Wake(p) \/ Materialize(p) \/ SpawnFails(p) \/ Spawn(p) \/ Close(p)
             \/ BoxStarts(p) \/ BoxExits(p)
      PROVE  Clean'
  BY <1>1 DEF TypeOK, Clean, Wake, Materialize, SpawnFails, Spawn, Close, BoxStarts,
              BoxExits, hostVars
<1>2. CASE KillStuck \/ Restart \/ HostCrash \/ HostStart
  BY <1>2 DEF Clean, KillStuck, Restart, Kill, HostCrash, HostStart
<1>3. CASE ChangeConfig \/ UNCHANGED vars
  BY <1>3 DEF Clean, ChangeConfig, vars, hostVars, spawnVars
<1> QED BY <1>1, <1>2, <1>3 DEF Next

(* After a kill nothing lives, unless a container may outlive its client. *)
LEMMA KillStops ==
  ASSUME Detach = FALSE, TypeOK, Owners, Attached,
         NEW wanted \in BOOLEAN, Kill(wanted)
  PROVE  LiveBoxes' = {}
<1>1. entry \in Spawns /\ box' = [box EXCEPT ![entry] = "none"]
  BY DEF TypeOK, Kill, StopBox
<1>2. \A p \in Spawns \ {entry} : box[p] = "none"
  BY DEF Kill, Attached, Owners, LiveBoxes
<1> QED BY <1>1, <1>2 DEF TypeOK, LiveBoxes

LEMMA AttachedStep ==
  ASSUME Detach = FALSE, TypeOK, OneOfEach, [Next]_vars
  PROVE  Attached'
<1> USE DEF OneOfEach
<1>1. CASE LiveBoxes' = {}
  BY <1>1 DEF Attached, NoDuplicate
<1>2. ASSUME NEW p \in Spawns, Wake(p) \/ Materialize(p) \/ SpawnFails(p)
      PROVE  Attached'
  <2>1. LiveBoxes' = LiveBoxes /\ up' = up
    BY <1>2 DEF Wake, Materialize, SpawnFails, LiveBoxes, hostVars
  <2>2. \A q \in Spawns : call[q] = "running" => call'[q] = "running"
    BY <1>2 DEF TypeOK, Wake, Begin, Materialize, SpawnFails
  <2> QED BY <2>1, <2>2 DEF Attached, NoDuplicate, LiveBoxes
<1>3. ASSUME NEW p \in Spawns, Spawn(p)
      PROVE  Attached'
  <2>1. entry = NoSpawn
    BY <1>3, LifecycleConstants DEF Spawn, Owners
  <2>2. LiveBoxes = {}
    BY <1>3, <2>1, LifecycleConstants DEF Spawn, Attached, Owners, LiveBoxes
  <2>3. \A q \in Spawns : box[q] = "none"
    BY <2>2 DEF LiveBoxes
  <2>4. CASE box' = box
    BY <1>1, <2>3, <2>4 DEF LiveBoxes
  <2>5. CASE box' # box
    <3>1. /\ box' = [box EXCEPT ![p] = "creating"]
          /\ call' = [call EXCEPT ![p] = "running"]
      BY <1>3, <2>5 DEF Spawn
    <3>2. LiveBoxes' \subseteq {p} /\ call'[p] = "running"
      BY <2>3, <3>1 DEF TypeOK, LiveBoxes
    <3> QED BY <3>2 DEF Attached, NoDuplicate
  <2> QED BY <2>4, <2>5
<1>4. ASSUME NEW p \in Spawns, Close(p)
      PROVE  Attached'
  <2>1. \A q \in Spawns : call[q] # "running"
    BY <1>4, OwnersClose DEF Close, Owners
  <2>2. LiveBoxes = {}
    BY <1>4, <2>1 DEF Close, Attached, LiveBoxes
  <2>3. LiveBoxes' = LiveBoxes
    BY <1>4 DEF Close, LiveBoxes
  <2> QED BY <1>1, <2>2, <2>3
<1>5. ASSUME NEW p \in Spawns, BoxStarts(p)
      PROVE  Attached'
  <2>1. LiveBoxes' = LiveBoxes
    BY <1>5 DEF TypeOK, BoxStarts, LiveBoxes
  <2> QED BY <1>5, <2>1 DEF BoxStarts, Attached, NoDuplicate, hostVars
<1>6. ASSUME NEW p \in Spawns, BoxExits(p)
      PROVE  Attached'
  <2>1. LiveBoxes = {p}
    BY <1>6 DEF BoxExits, Attached, NoDuplicate, LiveBoxes
  <2>2. LiveBoxes' = {}
    BY <1>6, <2>1 DEF BoxExits, TypeOK, LiveBoxes
  <2> QED BY <1>1, <2>2
<1>7. CASE KillStuck
  BY <1>1, <1>7, KillStops DEF KillStuck
<1>8. CASE Restart
  <2>1. CASE \E wanted \in BOOLEAN : Kill(wanted)
    BY <1>1, <2>1, KillStops
  <2>2. CASE UNCHANGED <<call, box>>
    BY <1>8, <2>2 DEF Restart, Attached, NoDuplicate, LiveBoxes
  <2> QED BY <1>8, <2>1, <2>2 DEF Restart
<1>9. CASE HostCrash
  BY <1>9 DEF HostCrash, Attached, NoDuplicate, LiveBoxes
<1>10. CASE HostStart
  <2>1. box' = [p \in Spawns |-> "none"]
    BY <1>10 DEF HostStart
  <2> QED BY <1>1, <2>1 DEF LiveBoxes
<1>11. CASE ChangeConfig \/ UNCHANGED vars
  BY <1>11 DEF ChangeConfig, Attached, NoDuplicate, LiveBoxes, vars, hostVars,
               spawnVars
<1> QED BY <1>2, <1>3, <1>4, <1>5, <1>6, <1>7, <1>8, <1>9, <1>10, <1>11 DEF Next

LEMMA ContainerInductive ==
  ASSUME Detach = FALSE
  PROVE  Spec => [](TypeOK /\ OneOfEach)
<1>1. Init => OneOfEach
  BY LifecycleConstants
  DEF Init, OneOfEach, Owners, Clean, Attached, NoDuplicate, LiveBoxes
<1>2. TypeOK /\ OneOfEach /\ [Next]_vars => OneOfEach'
  BY OwnersStep, CleanStep, AttachedStep DEF OneOfEach
<1> QED BY <1>1, <1>2, TypeCorrect, PTL DEF Spec

(* However wakes, kills, restarts, exits and crashes interleave, no two    *)
(* containers of a session live, and the one that does is the tracked one. *)
THEOREM OneAtATime ==
  ASSUME Detach = FALSE
  PROVE  Spec => []OneLiveContainer
<1>1. OneOfEach => OneLiveContainer
  BY DEF OneOfEach, Owners, Attached, OneLiveContainer, LiveBoxes
<1> QED BY <1>1, ContainerInductive, PTL

(* So that the host knows the container of each session, and its status.   *)
THEOREM ContainerKept ==
  ASSUME Detach = FALSE
  PROVE  Spec => []ContainerSafe
<1>1. OneLiveContainer /\ StatusFollows => ContainerSafe
  BY DEF ContainerSafe
<1> QED BY <1>1, OneAtATime, StatusKept, PTL

-----------------------------------------------------------------------------
(* The container slot. *)

LEMMA SlotStep ==
  ASSUME Detach = FALSE, TypeOK, OneOfEach, [Next]_vars
  PROVE  Slot!SlotNext
         \/ UNCHANGED <<up, entry # NoSpawn, promise # NoSpawn, LiveBoxes # {}>>
<1> USE DEF OneOfEach, Slot!SlotNext
<1>1. ASSUME NEW p \in Spawns, Wake(p)
      PROVE  Slot!Want
  BY <1>1, LifecycleConstants DEF Wake, Begin, LiveBoxes, Slot!Want
<1>2. ASSUME NEW p \in Spawns, SpawnFails(p)
      PROVE  Slot!GiveUp
  BY <1>2, LifecycleConstants DEF SpawnFails, Owners, LiveBoxes, Slot!GiveUp
<1>3. ASSUME NEW p \in Spawns, Spawn(p)
      PROVE  Slot!Launch
  <2>1. up /\ promise # NoSpawn /\ entry = NoSpawn
    BY <1>3, LifecycleConstants DEF Spawn, Owners
  <2>2. LiveBoxes = {}
    BY <2>1, LifecycleConstants DEF Attached, Owners, LiveBoxes
  <2>3. promise' = NoSpawn /\ entry' # NoSpawn /\ up' = up
    BY <1>3, LifecycleConstants DEF Spawn
  <2> QED BY <2>1, <2>2, <2>3 DEF Slot!Launch
<1>4. ASSUME NEW p \in Spawns, Close(p)
      PROVE  Slot!Forget
  <2>1. up /\ entry # NoSpawn /\ entry' = NoSpawn /\ up' = up /\ box' = box
    BY <1>4, OwnersClose, LifecycleConstants DEF Close, Closed
  <2>2. \A q \in Spawns : call[q] # "running"
    BY <1>4, OwnersClose DEF Close, Owners
  <2>3. LiveBoxes = {} /\ LiveBoxes' = {}
    BY <2>1, <2>2 DEF Attached, LiveBoxes
  <2> QED BY <2>1, <2>3 DEF Slot!Forget
<1>5. ASSUME NEW wanted \in BOOLEAN, Kill(wanted), UNCHANGED <<up, entry, promise>>
      PROVE  Slot!Die \/ UNCHANGED <<up, entry # NoSpawn, promise # NoSpawn,
                                     LiveBoxes # {}>>
  BY <1>5, KillStops DEF Slot!Die
<1>6. ASSUME NEW p \in Spawns, BoxExits(p)
      PROVE  Slot!Die
  <2>1. LiveBoxes = {p}
    BY <1>6 DEF BoxExits, Attached, NoDuplicate, LiveBoxes
  <2>2. LiveBoxes' = {}
    BY <1>6, <2>1 DEF BoxExits, TypeOK, LiveBoxes
  <2> QED BY <1>6, <2>1, <2>2 DEF BoxExits, Slot!Die, hostVars
<1>7. CASE HostCrash
  BY <1>7 DEF HostCrash, LiveBoxes, Slot!Crash
<1>8. CASE HostStart
  <2>1. box' = [p \in Spawns |-> "none"]
    BY <1>8 DEF HostStart
  <2>2. LiveBoxes' = {}
    BY <2>1 DEF LiveBoxes
  <2> QED BY <1>8, <2>2 DEF HostStart, Slot!Recover
<1>9. ASSUME NEW p \in Spawns, Materialize(p) \/ BoxStarts(p)
      PROVE  UNCHANGED <<up, entry, promise, LiveBoxes>>
  BY <1>9 DEF Materialize, BoxStarts, LiveBoxes, TypeOK, hostVars
<1>10. CASE KillStuck
  BY <1>5, <1>10 DEF KillStuck
<1>11. CASE Restart
  <2>1. CASE UNCHANGED box
    BY <1>11, <2>1 DEF Restart, LiveBoxes
  <2> QED BY <1>5, <1>11, <2>1 DEF Restart
<1>12. CASE ChangeConfig \/ UNCHANGED vars
  BY <1>12 DEF ChangeConfig, LiveBoxes, vars, hostVars, spawnVars
<1> QED BY <1>1, <1>2, <1>3, <1>4, <1>6, <1>7, <1>8, <1>9, <1>10, <1>11, <1>12
        DEF Next

(* Promises, client processes and events together never start a container  *)
(* beside a live one and never forget one that lives: they implement the   *)
(* slot that SessionQueue is proved to use as well.                        *)
THEOREM Implementation ==
  ASSUME Detach = FALSE
  PROVE  Spec => SlotKept
<1>1. Init => Slot!SlotInit
  BY DEF Init, Slot!SlotInit, LiveBoxes
<1>2. TypeOK /\ OneOfEach /\ [Next]_vars => [Slot!SlotNext]_(Slot!slotVars)
  BY SlotStep DEF Slot!slotVars
<1> QED BY <1>1, <1>2, ContainerInductive, PTL DEF Spec, SlotKept, Slot!SlotSpec

-----------------------------------------------------------------------------
(***************************************************************************)
(* Message numbers.                                                        *)
(***************************************************************************)

(* The two halves of the numbers. *)
Parity ==
  /\ IsEven(inMax)
  /\ \A n \in inRows : IsEven(n)
  /\ \A g \in given : ~IsEven(g.seq)
  /\ \A w \in Writers : draft[w].at = "numbered" => ~IsEven(draft[w].seq)

(* What a writer has read is still so, unless somebody has written since.  *)
Fresh ==
  \A w \in Writers \ stale :
    /\ draft[w].at = "read" => draft[w].out = outMax
    /\ draft[w].at = "numbered" => outMax < draft[w].seq

NumbersInv == NumbersTypeOK /\ Parity /\ Fresh

-----------------------------------------------------------------------------
(* Arithmetic of the numbering. *)

(* The host's next number is even and larger than the maximum. *)
LEMMA EvenNext ==
  ASSUME NEW n \in Nat
  PROVE  IsEven(NextEven(n)) /\ NextEven(n) \in Nat /\ n < NextEven(n)
BY DEF IsEven, NextEven

(* The container's next number is odd and larger than the maximum. *)
LEMMA OddNext ==
  ASSUME NEW n \in Nat
  PROVE  ~IsEven(NextOdd(n)) /\ NextOdd(n) \in Nat /\ n < NextOdd(n)
BY DEF IsEven, NextOdd

LEMMA LargerOfTwo ==
  ASSUME NEW a \in Nat, NEW b \in Nat
  PROVE  Larger(a, b) \in {a, b} /\ a <= Larger(a, b) /\ b <= Larger(a, b)
BY DEF Larger

(* What a draft may be. *)
LEMMA Drafts ==
  ASSUME NumbersTypeOK, NEW w \in Writers
  PROVE  /\ draft[w] = NotWriting \/ draft[w].at \in {"read", "numbered"}
         /\ draft[w].at = "read" => draft[w] # NotWriting /\ draft[w].out \in 0 .. MaxNumber
         /\ draft[w].at = "numbered" => draft[w] # NotWriting /\ draft[w].seq \in 1 .. MaxNumber
BY DEF NumbersTypeOK, NotWriting

-----------------------------------------------------------------------------
LEMMA NumbersStart == NumbersInit => NumbersInv
BY NumbersConstants
   DEF NumbersInit, NumbersInv, NumbersTypeOK, Parity, Fresh, IsEven, NotWriting

LEMMA HostStoresInv == NumbersInv /\ HostStores => NumbersInv'
<1> SUFFICES ASSUME NumbersInv, HostStores PROVE NumbersInv'
  OBVIOUS
<1> DEFINE n == NextEven(inMax)
<1>1. inMax \in Nat /\ n \in Nat /\ inMax < n /\ IsEven(n)
  BY EvenNext, NumbersConstants DEF NumbersInv, NumbersTypeOK
<1>2. inMax' = n /\ inRows' = inRows \cup {n} /\ n <= MaxNumber
  BY DEF HostStores
<1>3. UNCHANGED <<outRows, outMax, draft, given, stale, lost>>
  BY DEF HostStores
<1> HIDE DEF n
<1>4. NumbersTypeOK'
  BY <1>1, <1>2, <1>3, NumbersConstants DEF NumbersInv, NumbersTypeOK
<1>5. Parity'
  BY <1>1, <1>2, <1>3 DEF NumbersInv, Parity, IsEven
<1>6. Fresh'
  BY <1>3 DEF NumbersInv, Fresh
<1> QED
  BY <1>4, <1>5, <1>6 DEF NumbersInv

LEMMA HostRepliesInv == NumbersInv /\ HostReplies => NumbersInv'
<1> SUFFICES ASSUME NumbersInv, HostReplies PROVE NumbersInv'
  OBVIOUS
<1>1. outMax \in Nat /\ MaxNumber \in Nat /\ outMax + 2 <= MaxNumber
  BY NumbersConstants DEF NumbersInv, NumbersTypeOK, HostReplies
<1>2. /\ outRows' = outRows \cup {[seq |-> outMax + 2, by |-> "host"]}
      /\ outMax' = outMax + 2 /\ stale' = stale \cup Drafting
      /\ UNCHANGED <<inRows, inMax, draft, given, lost>>
  BY <1>1 DEF HostReplies, InsertOut, Larger
<1>3. Drafting \subseteq Writers
  BY DEF Drafting
<1>4. \A r \in outRows : r.seq \in Nat /\ r.seq <= outMax
  BY <1>1 DEF NumbersInv, NumbersTypeOK
<1>5. NumbersTypeOK'
  BY <1>1, <1>2, <1>3, <1>4 DEF NumbersInv, NumbersTypeOK
<1>6. Parity'
  BY <1>2 DEF NumbersInv, Parity, IsEven
<1>7. Fresh'
  BY <1>2, Drafts DEF NumbersInv, Fresh, Drafting, NotWriting
<1> QED
  BY <1>5, <1>6, <1>7 DEF NumbersInv

LEMMA ReadOutInv ==
  ASSUME NumbersInv, NEW w \in Writers, ReadOut(w)
  PROVE  NumbersInv'
<1>1. /\ draft' = [draft EXCEPT ![w] = [at |-> "read", out |-> outMax]]
      /\ stale' = stale \ {w}
      /\ UNCHANGED <<inRows, inMax, outRows, outMax, given, lost>>
  BY DEF ReadOut
<1>2. draft \in [Writers -> [at : {"read"}, out : 0 .. MaxNumber]
                              \cup [at : {"numbered"}, seq : 1 .. MaxNumber] \cup {NotWriting}]
  BY DEF NumbersInv, NumbersTypeOK
<1>3. NumbersTypeOK'
  BY <1>1, <1>2 DEF NumbersInv, NumbersTypeOK
<1>4. Parity'
  BY <1>1, <1>2 DEF NumbersInv, Parity, IsEven
<1>5. Fresh'
  BY <1>1, <1>2 DEF NumbersInv, Fresh
<1> QED
  BY <1>3, <1>4, <1>5 DEF NumbersInv

LEMMA ReadInInv ==
  ASSUME NumbersInv, NEW w \in Writers, ReadIn(w)
  PROVE  NumbersInv'
<1> DEFINE max == Larger(draft[w].out, inMax)
<1>1. /\ draft \in [Writers -> [at : {"read"}, out : 0 .. MaxNumber]
                              \cup [at : {"numbered"}, seq : 1 .. MaxNumber] \cup {NotWriting}]
      /\ draft[w].at = "read" /\ draft[w].out \in Nat /\ inMax \in Nat /\ MaxNumber \in Nat
  BY Drafts, NumbersConstants DEF NumbersInv, NumbersTypeOK, ReadIn
<1>2. max \in Nat /\ draft[w].out <= max
  BY <1>1, LargerOfTwo
<1>3. /\ draft' = [draft EXCEPT ![w] = [at |-> "numbered", seq |-> NextOdd(max)]]
      /\ NextOdd(max) <= MaxNumber
      /\ UNCHANGED <<inRows, inMax, outRows, outMax, given, stale, lost>>
  BY DEF ReadIn
<1> HIDE DEF max
<1>4. ~IsEven(NextOdd(max)) /\ NextOdd(max) \in 1 .. MaxNumber /\ draft[w].out < NextOdd(max)
  BY <1>1, <1>2, <1>3, OddNext
<1>5. NumbersTypeOK'
  BY <1>1, <1>3, <1>4 DEF NumbersInv, NumbersTypeOK
<1>6. Parity'
  BY <1>1, <1>3, <1>4 DEF NumbersInv, Parity, IsEven
<1>7. Fresh'
  BY <1>1, <1>3, <1>4 DEF NumbersInv, Fresh
<1> QED
  BY <1>5, <1>6, <1>7 DEF NumbersInv

LEMMA InsertInv ==
  ASSUME NumbersInv, NEW w \in Writers, Insert(w)
  PROVE  NumbersInv'
<1> DEFINE n == draft[w].seq
           taken == \E r \in outRows : r.seq = n
<1>1. /\ draft \in [Writers -> [at : {"read"}, out : 0 .. MaxNumber]
                              \cup [at : {"numbered"}, seq : 1 .. MaxNumber] \cup {NotWriting}]
      /\ draft[w].at = "numbered" /\ n \in 1 .. MaxNumber
      /\ draft' = [draft EXCEPT ![w] = NotWriting]
      /\ UNCHANGED <<inRows, inMax>>
      /\ outMax \in Nat /\ MaxNumber \in Nat /\ outMax <= MaxNumber
  BY Drafts, NumbersConstants DEF NumbersInv, NumbersTypeOK, Insert
<1>2. CASE taken
  <2>1. lost' = lost \cup {w} /\ UNCHANGED <<outRows, outMax, given, stale>>
    BY <1>2 DEF Insert
  <2>2. NumbersTypeOK'
    BY <1>1, <2>1 DEF NumbersInv, NumbersTypeOK
  <2>3. Parity'
    BY <1>1, <2>1 DEF NumbersInv, Parity, IsEven, NotWriting
  <2>4. Fresh'
    BY <1>1, <2>1 DEF NumbersInv, Fresh, NotWriting
  <2> QED
    BY <2>2, <2>3, <2>4 DEF NumbersInv
<1>3. CASE ~taken
  <2> DEFINE new == [seq |-> n, by |-> w]
  <2>1. /\ outRows' = outRows \cup {new} /\ outMax' = Larger(outMax, n)
        /\ given' = given \cup {new} /\ stale' = (stale \cup Drafting) \ {w} /\ lost' = lost
    BY <1>3 DEF Insert, InsertOut
  <2>2. outMax' \in 0 .. MaxNumber /\ outMax <= outMax' /\ n <= outMax'
    BY <1>1, <2>1, LargerOfTwo
  <2>3. ~IsEven(n)
    BY <1>1 DEF NumbersInv, Parity
  <2>4. Drafting \subseteq Writers
    BY DEF Drafting
  <2>5. NumbersTypeOK'
    <3>1. outRows' \subseteq [seq : 1 .. outMax', by : Writers \cup {"host"}]
      BY <1>1, <2>1, <2>2 DEF NumbersInv, NumbersTypeOK
    <3>2. \A r, q \in outRows' : r.seq = q.seq => r = q
      BY <1>3, <2>1 DEF NumbersInv, NumbersTypeOK
    <3>3. draft' \in [Writers -> [at : {"read"}, out : 0 .. MaxNumber]
                              \cup [at : {"numbered"}, seq : 1 .. MaxNumber] \cup {NotWriting}]
      BY <1>1
    <3>4. given' \subseteq outRows' /\ stale' \subseteq Writers /\ lost' \subseteq Writers
      BY <2>1, <2>4 DEF NumbersInv, NumbersTypeOK
    <3> QED
      BY <1>1, <2>2, <3>1, <3>2, <3>3, <3>4 DEF NumbersInv, NumbersTypeOK
  <2>6. Parity'
    BY <1>1, <2>1, <2>3 DEF NumbersInv, Parity, IsEven, NotWriting
  <2>7. Fresh'
    BY <1>1, <2>1 DEF NumbersInv, Fresh, Drafting, NotWriting
  <2> QED
    BY <2>5, <2>6, <2>7 DEF NumbersInv
<1> QED
  BY <1>2, <1>3

LEMMA NumbersStep == NumbersInv /\ [NumbersNext]_numbersVars => NumbersInv'
<1> SUFFICES ASSUME NumbersInv, [NumbersNext]_numbersVars PROVE NumbersInv'
  OBVIOUS
<1>1. CASE NumbersNext
  BY <1>1, HostStoresInv, HostRepliesInv, ReadOutInv, ReadInInv, InsertInv DEF NumbersNext
<1>2. CASE UNCHANGED numbersVars
  BY <1>2 DEF numbersVars, NumbersInv, NumbersTypeOK, Parity, Fresh, IsEven
<1> QED
  BY <1>1, <1>2

LEMMA NumbersInductive == NumbersSpec => []NumbersInv
BY NumbersStart, NumbersStep, PTL DEF NumbersSpec

-----------------------------------------------------------------------------
(* The numbers keep their types, and no number is in messages_out twice.   *)
THEOREM NumbersTyped == NumbersSpec => []NumbersTypeOK
<1>1. NumbersInv => NumbersTypeOK
  BY DEF NumbersInv
<1> QED
  BY <1>1, NumbersInductive, PTL

(* A number returned to the agent keeps naming the message it was returned *)
(* for: it is odd and its row stays, while messages_in has even ones only. *)
THEOREM NumbersMean == NumbersSpec => []NumbersDenote
<1>1. NumbersInv => NumbersDenote
  BY DEF NumbersInv, NumbersTypeOK, Parity, NumbersDenote, Denotes
<1> QED
  BY <1>1, NumbersInductive, PTL

(* Only a writer that has been overtaken since it read finds its number    *)
(* taken: every number of the table is at most the maximum it read.        *)
THEOREM LossNeedsRace == NumbersSpec => []LostOnlyInRace
<1>1. ASSUME NumbersInv, NEW w \in Writers, draft[w].at = "numbered",
             NEW r \in outRows, r.seq = draft[w].seq
      PROVE  w \in stale
  <2>1. outMax \in Nat /\ r.seq \in 1 .. outMax
    BY <1>1 DEF NumbersInv, NumbersTypeOK
  <2> QED
    BY <1>1, <2>1 DEF NumbersInv, Fresh
<1>2. NumbersInv => LostOnlyInRace
  BY <1>1 DEF LostOnlyInRace
<1> QED
  BY <1>2, NumbersInductive, PTL

(* So that no number is shared by two messages that the agent may name.    *)
THEOREM NumbersKept == NumbersSpec => []NumbersSafe
<1>1. NumbersDenote /\ LostOnlyInRace => NumbersSafe
  BY DEF NumbersSafe
<1> QED
  BY <1>1, NumbersMean, LossNeedsRace, PTL

-----------------------------------------------------------------------------
(***************************************************************************)
(* Recurring tasks.                                                        *)
(***************************************************************************)

Live == {o \in Occurrences : Alive(o)} \cup Unfollowed

(* What is over or not yet there is not worked off, and a live row recurs  *)
(* until the agent says otherwise.                                         *)
TaskRows ==
  /\ torn <= faults
  /\ \A o \in Occurrences :
       /\ occurrence[o] \in {"absent", "failed"} => ack[o] = "none"
       /\ Alive(o) /\ cron[o] = "none" => stopped

(* Nothing is left that a sweep could still follow up.                     *)
Cancelled == standing = "cancelled" /\ ~late => Live = {}

(* No row is pending, in the runner's hands, or to be followed up.         *)
Rests ==
  standing = "paused" /\ ~late =>
    /\ Unfollowed = {}
    /\ \A o \in Occurrences : occurrence[o] # "pending" /\ (Alive(o) => ack[o] = "none")

SeriesInv == SchedulingTypeOK /\ TaskRows /\ OneLive /\ Cancelled /\ Rests /\ SeriesSurvives

-----------------------------------------------------------------------------
LEMMA SchedulingNumbers == MaxOccurrences \in Nat /\ MaxOccurrences > 0 /\ MaxCommands \in Nat /\ MaxFaults \in Nat
BY SchedulingConstants, FaultBound

LEMMA LiveFinite == IsFiniteSet(Live) /\ Cardinality(Live) \in Nat
<1>1. IsFiniteSet(Occurrences)
  BY SchedulingNumbers, FS_Interval DEF Occurrences
<1>2. Live \in SUBSET Occurrences
  BY DEF Live, Unfollowed
<1>3. IsFiniteSet(Live)
  BY <1>1, <1>2, FS_Subset
<1> QED
  BY <1>3, FS_CardinalityType

(* A set that does not grow keeps its bound. *)
LEMMA NoneAdded ==
  ASSUME NEW S, NEW T, IsFiniteSet(S), T \subseteq S, NEW n \in Nat, Cardinality(S) <= n
  PROVE  Cardinality(T) <= n
<1>1. T \in SUBSET S
  OBVIOUS
<1>2. IsFiniteSet(T) /\ Cardinality(T) <= Cardinality(S)
  BY <1>1, FS_Subset
<1>3. Cardinality(T) \in Nat /\ Cardinality(S) \in Nat
  BY <1>2, FS_CardinalityType
<1> QED
  BY <1>2, <1>3

LEMMA LeastOccurrence ==
  ASSUME NEW T, T \subseteq Nat, T # {}
  PROVE  \E a \in T : \A b \in T : a <= b
<1> DEFINE R == OpToRel(<, Nat)
<1>1. IsWellFoundedOn(R, Nat)
  BY NatLessThanWellFounded, Zenon
<1>2. \A x, y \in Nat : y < x => <<y, x>> \in R
  BY Zenon DEF OpToRel
<1> HIDE DEF R
<1>3. PICK a \in T : \A b \in T : ~(<<b, a>> \in R)
  BY <1>1, WFMin
<1>4. \A b \in T : ~(b < a)
  BY <1>2, <1>3
<1> QED
  BY <1>4

(* An inserted row is a new one. *)
LEMMA NewIsUnused ==
  ASSUME Unused # {}
  PROVE  NewRow \in Unused /\ NewRow \in Occurrences /\ occurrence[NewRow] = "absent"
<1>1. Unused \subseteq Nat
  BY DEF Unused, Occurrences
<1>2. \E n \in Unused : \A m \in Unused : n <= m
  BY <1>1, LeastOccurrence
<1>3. NewRow \in Unused
  BY <1>2 DEF NewRow
<1> QED
  BY <1>3 DEF Unused

-----------------------------------------------------------------------------
LEMMA SchedulingStarts == SchedulingInit => SeriesInv
<1> SUFFICES ASSUME SchedulingInit PROVE SeriesInv
  OBVIOUS
<1>1. 1 \in Occurrences
  BY SchedulingNumbers DEF Occurrences
<1>2. Live \subseteq {1} /\ Alive(1)
  BY <1>1 DEF SchedulingInit, Live, Unfollowed, Alive
<1>3. OneLive
  <2>1. IsFiniteSet({1}) /\ Cardinality({1}) <= 1
    <3>1. IsFiniteSet({1}) /\ Cardinality({1}) = 1
      BY FS_Singleton
    <3> QED
      BY <3>1
  <2>2. Cardinality(Live) <= 1
    BY <1>2, <2>1, NoneAdded
  <2> QED
    BY <2>2 DEF OneLive, Live, SchedulingInit
<1>4. SchedulingTypeOK
  <2>1. /\ occurrence \in [Occurrences -> {"absent", "pending", "paused", "completed", "failed"}]
        /\ cron \in [Occurrences -> {"none", "cron", "nonsense"}]
        /\ ack \in [Occurrences -> {"none", "processing", "done"}]
    BY DEF SchedulingInit
  <2>2. /\ cloning = {} /\ commands \in 0 .. MaxCommands
        /\ torn \in 0 .. MaxFaults /\ faults \in 0 .. MaxFaults
    BY SchedulingNumbers DEF SchedulingInit
  <2>5. /\ synced \in BOOLEAN /\ late \in BOOLEAN /\ stopped \in BOOLEAN
        /\ standing \in {"none", "cancelled", "paused", "resumed"}
    BY Zenon DEF SchedulingInit
  <2>3. \A o \in Occurrences :
          /\ occurrence[o] = "absent" => cron[o] = "none" /\ ack[o] = "none"
          /\ o \notin cloning
    BY <2>2 DEF SchedulingInit
  <2>4. cloning \subseteq Occurrences
    BY <2>2
  <2> QED
    BY <2>1, <2>2, <2>3, <2>4, <2>5 DEF SchedulingTypeOK
<1>5. TaskRows
  BY DEF SchedulingInit, TaskRows, Alive
<1>6. Cancelled /\ Rests
  BY DEF SchedulingInit, Cancelled, Rests
<1>7. SeriesSurvives
  BY <1>1, <1>2 DEF SeriesSurvives
<1> QED
  BY <1>3, <1>4, <1>5, <1>6, <1>7 DEF SeriesInv

(* A step that makes no row live keeps the bound. *)
LEMMA LiveKept ==
  ASSUME SeriesInv, Live' \subseteq Live, torn' = torn
  PROVE  OneLive'
<1>1. torn \in Nat /\ 1 + torn \in Nat
  BY SchedulingNumbers DEF SeriesInv, SchedulingTypeOK
<1>2. Cardinality(Live) <= 1 + torn
  BY DEF SeriesInv, OneLive, Live
<1>3. Cardinality(Live') <= 1 + torn
  BY <1>1, <1>2, LiveFinite, NoneAdded
<1> QED
  BY <1>3 DEF OneLive, Live

LEMMA RunnerInv ==
  ASSUME SeriesInv, NEW o \in Occurrences, Claim(o) \/ Complete(o) \/ RunFails(o)
  PROVE  SeriesInv'
<1> USE DEF SeriesInv
<1>1. /\ SchedulingTypeOK' /\ cron' = cron
      /\ UNCHANGED <<tickVars, commands, schedHistVars>>
      /\ faults' \in {faults, faults + 1}
  BY SchedulingNumbers DEF Claim, Complete, RunFails, Fault, SchedulingTypeOK, tickVars, schedHistVars
<1>2. /\ ack[o] # "none" \/ occurrence[o] = "pending"
      /\ \A p \in Occurrences : p # o => ack'[p] = ack[p] /\ occurrence'[p] = occurrence[p]
      /\ \/ occurrence'[o] = occurrence[o]
         \/ occurrence[o] = "pending" /\ occurrence'[o] = "failed" /\ ack'[o] = "none"
      /\ ack'[o] = "processing" => occurrence[o] = "pending" /\ ack[o] = "none"
      /\ ack'[o] = "done" => ack[o] = "processing"
  BY DEF Claim, Complete, RunFails, SchedulingTypeOK
<1>3. TaskRows'
  BY <1>1, <1>2, SchedulingNumbers DEF TaskRows, Alive, SchedulingTypeOK, schedHistVars
<1>4. Live' \subseteq Live /\ Unfollowed' = Unfollowed
  BY <1>1, <1>2 DEF Live, Alive, Unfollowed, Recurs
<1>5. OneLive'
  BY <1>1, <1>4, LiveKept DEF schedHistVars
<1>6. Cancelled'
  BY <1>1, <1>4 DEF Cancelled, schedHistVars
<1>7. Rests'
  BY <1>1, <1>2, <1>4 DEF Rests, Alive, schedHistVars
<1>8. SeriesSurvives'
  BY <1>1, <1>2, <1>4 DEF SeriesSurvives, Alive, schedHistVars
<1> QED
  BY <1>1, <1>3, <1>5, <1>6, <1>7, <1>8

LEMMA SyncInv ==
  ASSUME SeriesInv, SyncAcks
  PROVE  SeriesInv'
<1> USE DEF SeriesInv
<1>1. /\ SchedulingTypeOK' /\ UNCHANGED <<cron, ack, schedHistVars, faults>>
  BY DEF SyncAcks, SchedulingTypeOK, schedHistVars, TaskRows
<1>2. \A p \in Occurrences :
        \/ occurrence'[p] = occurrence[p]
        \/ /\ occurrence'[p] = "completed" /\ ack[p] = "done"
           /\ occurrence[p] \in {"pending", "paused"}
  BY DEF SyncAcks, SchedulingTypeOK, TaskRows
<1>3. TaskRows'
  BY <1>1, <1>2 DEF TaskRows, Alive, schedHistVars
<1>4. Live' \subseteq Live
  BY <1>1, <1>2 DEF Live, Alive, Unfollowed, Recurs
<1>5. OneLive'
  BY <1>1, <1>4, LiveKept DEF schedHistVars
<1>6. Cancelled'
  BY <1>1, <1>4 DEF Cancelled, schedHistVars
<1>7. Rests'
  BY <1>1, <1>2 DEF Rests, Alive, Unfollowed, Recurs, schedHistVars
<1>8. SeriesSurvives'
  BY <1>1, <1>2 DEF SeriesSurvives, TaskRows, Alive, Unfollowed, Recurs, schedHistVars
<1> QED
  BY <1>1, <1>3, <1>5, <1>6, <1>7, <1>8

(* A step that leaves the rows alone. *)
LEMMA SameRows ==
  ASSUME SeriesInv, SchedulingTypeOK', UNCHANGED <<seriesVars, schedHistVars>>,
         faults' \in {faults, faults + 1}
  PROVE  SeriesInv'
<1>1. torn <= faults'
  BY SchedulingNumbers DEF SeriesInv, TaskRows, SchedulingTypeOK
<1> QED
  BY <1>1 DEF SeriesInv, TaskRows, OneLive, Cancelled, Rests, SeriesSurvives, Alive, Unfollowed, Recurs,
              Live, seriesVars, schedHistVars

LEMMA QuietInv ==
  ASSUME SeriesInv,
         ReadCompleted \/ HostDiesSweeping \/ \E o \in Occurrences : CloneFails(o)
  PROVE  SeriesInv'
<1>1. /\ UNCHANGED <<seriesVars, schedHistVars>>
      /\ faults' \in {faults, faults + 1}
  BY DEF ReadCompleted, HostDiesSweeping, CloneFails, Fault
<1>2. SchedulingTypeOK'
  <2>1. synced' \in BOOLEAN /\ commands' = commands
    BY DEF SeriesInv, ReadCompleted, HostDiesSweeping, CloneFails, SchedulingTypeOK
  <2>2. cloning' \subseteq cloning \cup Unfollowed
    BY DEF ReadCompleted, HostDiesSweeping, CloneFails
  <2>3. faults' \in 0 .. MaxFaults
    BY SchedulingNumbers DEF SeriesInv, ReadCompleted, HostDiesSweeping, CloneFails, Fault, SchedulingTypeOK
  <2> QED
    BY <1>1, <2>1, <2>2, <2>3 DEF SeriesInv, SchedulingTypeOK, seriesVars, schedHistVars, Unfollowed
<1> QED
  BY <1>1, <1>2, SameRows

LEMMA CloneInv ==
  ASSUME SeriesInv, NEW o \in Occurrences, Clone(o) \/ CloneTorn(o)
  PROVE  SeriesInv'
<1> DEFINE n == NewRow
<1> USE DEF SeriesInv
<1>1. /\ n \in Occurrences /\ occurrence[n] = "absent"
      /\ o \in cloning /\ cron[o] = "cron" /\ occurrence[o] = "completed"
  BY NewIsUnused DEF Clone, CloneTorn, SchedulingTypeOK
<1>2. /\ occurrence' = [occurrence EXCEPT ![n] = "pending"]
      /\ ack' = ack /\ standing' = standing /\ late' = late /\ stopped' = stopped
  BY DEF Clone, CloneTorn, InsertNext, schedHistVars
<1> HIDE DEF n
<1>3. \/ Clone(o) /\ cron' = [cron EXCEPT ![n] = "cron", ![o] = "none"] /\ torn' = torn /\ faults' = faults
      \/ CloneTorn(o) /\ cron' = [cron EXCEPT ![n] = "cron"] /\ torn' = torn + 1 /\ faults' = faults + 1
  BY DEF Clone, CloneTorn, Fault, schedHistVars, n
<1>4. o # n
  BY <1>1
<1>5. SchedulingTypeOK'
  <2>1. cloning' \subseteq cloning /\ synced' \in BOOLEAN /\ commands' = commands
    BY DEF Clone, CloneTorn, SchedulingTypeOK
  <2>2. torn' \in 0 .. MaxFaults /\ faults' \in 0 .. MaxFaults
    BY <1>3, SchedulingNumbers DEF TaskRows, SchedulingTypeOK, CloneTorn, Fault
  <2>3. /\ occurrence' \in [Occurrences -> {"absent", "pending", "paused", "completed", "failed"}]
        /\ cron' \in [Occurrences -> {"none", "cron", "nonsense"}]
    BY <1>1, <1>2, <1>3 DEF SchedulingTypeOK
  <2>4. \A p \in Occurrences :
          /\ occurrence'[p] = "absent" => cron'[p] = "none" /\ ack'[p] = "none"
          /\ p \in cloning => occurrence'[p] = "completed"
    BY <1>1, <1>2, <1>3, <1>4 DEF SchedulingTypeOK
  <2> QED
    BY <1>2, <2>1, <2>2, <2>3, <2>4 DEF SchedulingTypeOK
<1>6. \A p \in Occurrences : p \notin {n, o} => occurrence'[p] = occurrence[p] /\ cron'[p] = cron[p]
  BY <1>1, <1>2, <1>3 DEF SchedulingTypeOK
<1>7. /\ occurrence'[n] = "pending" /\ cron'[n] = "cron"
      /\ occurrence'[o] = "completed" /\ cron'[o] \in {"none", "cron"}
      /\ torn' = torn => cron'[o] = "none"
  <2>1. torn + 1 # torn
    BY SchedulingNumbers DEF SchedulingTypeOK
  <2>2. occurrence'[n] = "pending" /\ occurrence'[o] = "completed"
    BY <1>1, <1>2, <1>4 DEF SchedulingTypeOK
  <2>3. cron'[n] = "cron" /\ cron'[o] \in {"none", "cron"} /\ (torn' = torn => cron'[o] = "none")
    BY <1>1, <1>3, <1>4, <2>1 DEF SchedulingTypeOK
  <2> QED
    BY <2>2, <2>3
<1>8. TaskRows'
  <2>1. torn' <= faults'
    BY <1>3, SchedulingNumbers DEF TaskRows, SchedulingTypeOK
  <2> QED
    BY <1>1, <1>2, <1>6, <1>7, <2>1 DEF TaskRows, Alive, SchedulingTypeOK
<1>9. o \in Live /\ o \in Unfollowed /\ n \notin Live
  BY <1>1 DEF Live, Unfollowed, Recurs, Alive
<1>10. OneLive'
  <2>1. Cardinality(Live) \in Nat /\ Cardinality(Live) <= 1 + torn /\ torn \in Nat
    BY LiveFinite, SchedulingNumbers DEF OneLive, Live, SchedulingTypeOK
  <2>2. IsFiniteSet(Live)
    BY LiveFinite
  <2>3. CASE torn' = torn
    <3>1. Live' \subseteq (Live \ {o}) \cup {n}
      BY <1>6, <1>7, <2>3 DEF Live, Alive, Unfollowed, Recurs
    <3>2. IsFiniteSet(Live \ {o}) /\ Cardinality(Live \ {o}) = Cardinality(Live) - 1
      BY <1>9, <2>2, FS_RemoveElement
    <3>3. /\ IsFiniteSet((Live \ {o}) \cup {n})
          /\ Cardinality((Live \ {o}) \cup {n}) = Cardinality(Live)
      BY <1>9, <2>1, <3>2, FS_AddElement
    <3>4. Cardinality(Live') <= 1 + torn
      <4>1. 1 + torn \in Nat /\ Cardinality((Live \ {o}) \cup {n}) <= 1 + torn
        BY <2>1, <3>3
      <4> QED
        BY <3>1, <3>3, <4>1, NoneAdded
    <3> QED
      BY <2>3, <3>4 DEF OneLive, Live
  <2>4. CASE torn' = torn + 1
    <3>1. Live' \subseteq Live \cup {n}
      BY <1>6, <1>7, <1>9 DEF Live, Alive, Unfollowed, Recurs
    <3>2. IsFiniteSet(Live \cup {n}) /\ Cardinality(Live \cup {n}) = Cardinality(Live) + 1
      BY <1>9, <2>2, FS_AddElement
    <3>3. Cardinality(Live') <= 1 + torn'
      <4>1. 1 + torn' \in Nat /\ Cardinality(Live \cup {n}) <= 1 + torn'
        BY <2>1, <2>4, <3>2
      <4> QED
        BY <3>1, <3>2, <4>1, NoneAdded
    <3> QED
      BY <3>3 DEF OneLive, Live
  <2> QED
    BY <1>3, <2>3, <2>4
<1>11. Cancelled'
  BY <1>2, <1>9 DEF Cancelled
<1>12. Rests'
  BY <1>2, <1>9 DEF Rests
<1>13. SeriesSurvives'
  BY <1>1, <1>7 DEF SeriesSurvives, Alive
<1> QED
  BY <1>5, <1>8, <1>10, <1>11, <1>12, <1>13

LEMMA CancelInv ==
  ASSUME SeriesInv, Cancel
  PROVE  SeriesInv'
<1> USE DEF SeriesInv
<1>1. /\ ack' = ack /\ torn' = torn /\ faults' = faults
      /\ standing' = "cancelled" /\ late' = (Unfollowed # {}) /\ stopped' = TRUE
  BY DEF Cancel, SuccessorDue
<1>2. \A p \in Occurrences :
        /\ Alive(p) => occurrence'[p] = "completed" /\ cron'[p] = "none"
        /\ ~Alive(p) => occurrence'[p] = occurrence[p] /\ cron'[p] = cron[p]
  BY DEF Cancel, Alive
<1>3. SchedulingTypeOK'
  <2>1. /\ occurrence' \in [Occurrences -> {"absent", "pending", "paused", "completed", "failed"}]
        /\ cron' \in [Occurrences -> {"none", "cron", "nonsense"}]
    BY DEF Cancel, SchedulingTypeOK
  <2>2. /\ commands' \in 0 .. MaxCommands /\ late' \in BOOLEAN
        /\ synced' = synced /\ cloning' = cloning
    BY <1>1, SchedulingNumbers DEF Cancel, Command, SchedulingTypeOK, tickVars
  <2>3. \A p \in Occurrences :
          /\ occurrence'[p] = "absent" => cron'[p] = "none" /\ ack[p] = "none"
          /\ p \in cloning => occurrence'[p] = "completed"
    BY <1>2 DEF SchedulingTypeOK
  <2> QED
    BY <1>1, <2>1, <2>2, <2>3 DEF SchedulingTypeOK
<1>4. Live' = Unfollowed /\ Unfollowed \subseteq Live /\ Unfollowed' = Unfollowed
  BY <1>2 DEF Live, Alive, Unfollowed, Recurs
<1>5. OneLive'
  BY <1>1, <1>4, LiveKept
<1>6. TaskRows'
  BY <1>1, <1>2 DEF TaskRows, Alive
<1>7. Cancelled'
  BY <1>1, <1>4 DEF Cancelled
<1>8. Rests'
  BY <1>1 DEF Rests
<1>9. SeriesSurvives'
  BY <1>1 DEF SeriesSurvives
<1> QED
  BY <1>3, <1>5, <1>6, <1>7, <1>8, <1>9

LEMMA PauseInv ==
  ASSUME SeriesInv, Pause
  PROVE  SeriesInv'
<1> USE DEF SeriesInv
<1>1. cron' = cron /\ ack' = ack /\ torn' = torn /\ stopped' = stopped /\ faults' = faults
  BY DEF Pause
<1>2. \A p \in Occurrences :
        /\ occurrence[p] = "pending" => occurrence'[p] = "paused"
        /\ occurrence[p] # "pending" => occurrence'[p] = occurrence[p]
  BY DEF Pause
<1>3. /\ standing = "cancelled" => standing' = "cancelled" /\ late' = late
      /\ standing # "cancelled" => standing' = "paused" /\ late' = (SuccessorDue \/ InHand)
  BY DEF Pause
<1>4. SchedulingTypeOK'
  <2>1. occurrence' \in [Occurrences -> {"absent", "pending", "paused", "completed", "failed"}]
    BY DEF Pause, SchedulingTypeOK
  <2>2. /\ commands' \in 0 .. MaxCommands /\ synced' = synced /\ cloning' = cloning
    BY SchedulingNumbers DEF Pause, Command, SchedulingTypeOK, tickVars
  <2>3. late' \in BOOLEAN /\ standing' \in {"none", "cancelled", "paused", "resumed"}
    BY <1>3 DEF SchedulingTypeOK, SuccessorDue, InHand
  <2>4. \A p \in Occurrences :
          /\ occurrence'[p] = "absent" => cron[p] = "none" /\ ack[p] = "none"
          /\ p \in cloning => occurrence'[p] = "completed"
    BY <1>2 DEF SchedulingTypeOK
  <2> QED
    BY <1>1, <2>1, <2>2, <2>3, <2>4 DEF SchedulingTypeOK
<1>5. Live' = Live /\ Unfollowed' = Unfollowed
  BY <1>1, <1>2 DEF Live, Alive, Unfollowed, Recurs
<1>6. OneLive'
  BY <1>1, <1>5, LiveKept
<1>7. TaskRows'
  BY <1>1, <1>2 DEF TaskRows, Alive
<1>8. Cancelled'
  BY <1>3, <1>5 DEF Cancelled
<1>9. Rests'
  <2> SUFFICES ASSUME standing' = "paused", ~late'
               PROVE  /\ Unfollowed' = {}
                      /\ \A p \in Occurrences :
                           occurrence'[p] # "pending" /\ (Alive(p)' => ack'[p] = "none")
    BY DEF Rests
  <2>1. Unfollowed = {} /\ \A p \in Occurrences : Alive(p) => ack[p] = "none"
    BY <1>3 DEF SuccessorDue, InHand
  <2> QED
    BY <1>1, <1>2, <1>5, <2>1 DEF Alive
<1>10. SeriesSurvives'
  BY <1>1, <1>2, <1>5 DEF SeriesSurvives, Alive
<1> QED
  BY <1>4, <1>6, <1>7, <1>8, <1>9, <1>10

LEMMA ResumeInv ==
  ASSUME SeriesInv, Resume
  PROVE  SeriesInv'
<1> USE DEF SeriesInv
<1>1. cron' = cron /\ ack' = ack /\ torn' = torn /\ stopped' = stopped /\ faults' = faults /\ late' = late
  BY DEF Resume
<1>2. \A p \in Occurrences :
        /\ occurrence[p] = "paused" => occurrence'[p] = "pending"
        /\ occurrence[p] # "paused" => occurrence'[p] = occurrence[p]
  BY DEF Resume
<1>3. /\ standing = "cancelled" => standing' = "cancelled"
      /\ standing # "cancelled" => standing' = "resumed"
  BY DEF Resume
<1>4. SchedulingTypeOK'
  <2>1. occurrence' \in [Occurrences -> {"absent", "pending", "paused", "completed", "failed"}]
    BY DEF Resume, SchedulingTypeOK
  <2>2. /\ commands' \in 0 .. MaxCommands /\ synced' = synced /\ cloning' = cloning
    BY SchedulingNumbers DEF Resume, Command, SchedulingTypeOK, tickVars
  <2>3. \A p \in Occurrences :
          /\ occurrence'[p] = "absent" => cron[p] = "none" /\ ack[p] = "none"
          /\ p \in cloning => occurrence'[p] = "completed"
    BY <1>2 DEF SchedulingTypeOK
  <2> QED
    BY <1>1, <1>3, <2>1, <2>2, <2>3 DEF SchedulingTypeOK
<1>5. Live' = Live /\ Unfollowed' = Unfollowed
  BY <1>1, <1>2 DEF Live, Alive, Unfollowed, Recurs
<1>6. OneLive'
  BY <1>1, <1>5, LiveKept
<1>7. TaskRows'
  BY <1>1, <1>2 DEF TaskRows, Alive
<1>8. Cancelled' /\ Rests'
  BY <1>1, <1>3, <1>5 DEF Cancelled, Rests
<1>9. SeriesSurvives'
  BY <1>1, <1>2, <1>5 DEF SeriesSurvives, Alive
<1> QED
  BY <1>4, <1>6, <1>7, <1>8, <1>9

LEMMA UpdateInv ==
  ASSUME SeriesInv, NEW c \in {"none", "cron", "nonsense"}, Update(c)
  PROVE  SeriesInv'
<1> USE DEF SeriesInv
<1>1. /\ occurrence' = occurrence /\ ack' = ack /\ torn' = torn /\ faults' = faults
      /\ standing' = standing /\ late' = late
      /\ stopped' = (stopped \/ (c = "none" /\ \E p \in Occurrences : Alive(p)))
  BY DEF Update
<1>2. \A p \in Occurrences : cron'[p] = IF Alive(p) THEN c ELSE cron[p]
  BY DEF Update
<1>3. SchedulingTypeOK'
  <2>1. cron' \in [Occurrences -> {"none", "cron", "nonsense"}]
    BY DEF Update, SchedulingTypeOK
  <2>2. /\ commands' \in 0 .. MaxCommands /\ synced' = synced /\ cloning' = cloning
    BY SchedulingNumbers DEF Update, Command, SchedulingTypeOK, tickVars
  <2>3. stopped' \in BOOLEAN
    BY <1>1 DEF SchedulingTypeOK
  <2>4. \A p \in Occurrences : occurrence[p] = "absent" => cron'[p] = "none"
    BY <1>2 DEF SchedulingTypeOK, Alive
  <2> QED
    BY <1>1, <2>1, <2>2, <2>3, <2>4 DEF SchedulingTypeOK
<1>4. Live' = Live /\ Unfollowed' = Unfollowed
  BY <1>1, <1>2 DEF Live, Alive, Unfollowed, Recurs
<1>5. OneLive'
  BY <1>1, <1>4, LiveKept
<1>6. TaskRows'
  BY <1>1, <1>2 DEF TaskRows, Alive
<1>7. Cancelled' /\ Rests'
  BY <1>1, <1>4 DEF Cancelled, Rests, Alive
<1>8. SeriesSurvives'
  BY <1>1, <1>4 DEF SeriesSurvives, Alive
<1> QED
  BY <1>3, <1>5, <1>6, <1>7, <1>8

LEMMA SchedulingStep == SeriesInv /\ [SchedulingNext]_schedulingVars => SeriesInv'
<1> SUFFICES ASSUME SeriesInv, [SchedulingNext]_schedulingVars PROVE SeriesInv'
  OBVIOUS
<1>1. CASE UNCHANGED schedulingVars
  <2>1. SchedulingTypeOK'
    BY <1>1 DEF schedulingVars, seriesVars, tickVars, schedHistVars, SeriesInv, SchedulingTypeOK
  <2> QED
    BY <1>1, <2>1, SameRows DEF schedulingVars
<1>2. CASE Runner
  BY <1>2, RunnerInv DEF Runner
<1>3. CASE Tick
  BY <1>3, SyncInv, QuietInv, CloneInv DEF Tick
<1>4. CASE Commands
  BY <1>4, CancelInv, PauseInv, ResumeInv, UpdateInv DEF Commands
<1> QED
  BY <1>1, <1>2, <1>3, <1>4 DEF SchedulingNext

LEMMA SchedulingInductive == SchedulingSpec => []SeriesInv
BY SchedulingStarts, SchedulingStep, PTL DEF SchedulingSpec

(* Every variable of a series has its type; what is about to be cloned is  *)
(* completed.                                                              *)
THEOREM SchedulingTyped == SchedulingSpec => []SchedulingTypeOK
<1>1. SeriesInv => SchedulingTypeOK
  BY DEF SeriesInv
<1> QED
  BY <1>1, SchedulingInductive, PTL

(* A series lives on as one, and dies when it is cancelled, whatever is    *)
(* read before an await and cloned after it.                               *)
THEOREM SeriesStays == SchedulingSpec => []SeriesKept
<1>1. SeriesInv => SeriesKept
  BY DEF SeriesInv, SeriesKept, Cancelled, CancelHolds, Live
<1> QED
  BY <1>1, SchedulingInductive, PTL

(* A pause holds, unless an occurrence was in hand or awaited its          *)
(* successor when it came.                                                 *)
THEOREM PauseKept == SchedulingSpec => PauseHolds
<1>1. SeriesInv => (standing = "paused" /\ ~late => \A o \in Occurrences : ~Claim(o))
  BY DEF SeriesInv, Rests, Claim
<1>2. SeriesInv /\ [SchedulingNext]_schedulingVars =>
        [standing = "paused" /\ ~late => \A o \in Occurrences : ~Claim(o)]_schedulingVars
  BY <1>1
<1> QED
  BY <1>2, SchedulingInductive, PTL DEF SchedulingSpec, PauseHolds

=============================================================================
