------------------------- MODULE ContainerLifecycle -------------------------
(***************************************************************************)
(* The container runner's view of one session: the table of tracked        *)
(* containers, the promise of a spawn in flight, the calls of              *)
(* spawnContainer with their `docker run` client processes and events, and *)
(* the containers themselves.                                              *)
(*                                                                         *)
(* wakeContainer may be called at any moment by the router, a module, a    *)
(* kill's exit callback or the sweep.  Its spawn awaits a dynamic import   *)
(* and the gateway, so every other handler of the host can run in between. *)
(***************************************************************************)
EXTENDS Naturals

CONSTANTS
  Spawns,     (* identities for calls of spawnContainer; used again when   *)
              (* nothing of an earlier call is left                        *)
  NoSpawn,    (* no entry in a table of the host                           *)
  MaxConf,    (* changes of the container configuration (bound)            *)
  MaxCrashes, (* crashes of the host (bound)                               *)
  Detach      (* TRUE when a container may outlive its killed client       *)

ASSUME LifecycleConstants ==
  /\ NoSpawn \notin Spawns
  /\ MaxConf \in Nat /\ MaxCrashes \in Nat
  /\ Detach \in BOOLEAN

VARIABLES
  up,       (* the host process runs                                       *)
  entry,    (* activeContainers: the spawn the session's entry stems from  *)
  promise,  (* wakePromises: the spawn in flight                           *)
  call,     (* each call of spawnContainer, then its client process        *)
  box,      (* the container of each client                                *)
  onExit,   (* clients with a wake registered for their close event        *)
  ran,      (* the configuration each spawn has materialized               *)
  conf,     (* the configuration in the central database                   *)
  asked,    (* the configuration when a restart was last asked for         *)
  dbStatus, (* sessions.container_status                                   *)
  crashes   (* crashes used up                                             *)

hostVars == <<up, entry, promise, onExit>>
spawnVars == <<call, box, ran>>
confVars == <<conf, asked>>
vars == <<hostVars, spawnVars, confVars, dbStatus, crashes>>

(* A call awaits the import ("prep") or the gateway ("args"); its client   *)
(* runs, could not be executed, has its close event pending, or is over.   *)
Calls == {"none", "prep", "args", "running", "failed", "closing"}
Boxes == {"none", "creating", "live"}

Init ==
  /\ up = TRUE /\ entry = NoSpawn /\ promise = NoSpawn /\ onExit = {}
  /\ call = [p \in Spawns |-> "none"]
  /\ box = [p \in Spawns |-> "none"]
  /\ ran = [p \in Spawns |-> 0]
  /\ conf = 0 /\ asked = 0
  /\ dbStatus = "stopped" /\ crashes = 0

(* Every variable has its type: the tables hold spawns of this session,    *)
(* and the host sets the status to "running" or "stopped" only.            *)
TypeOK ==
  /\ up \in BOOLEAN
  /\ entry \in Spawns \cup {NoSpawn}
  /\ promise \in Spawns \cup {NoSpawn}
  /\ onExit \subseteq Spawns
  /\ call \in [Spawns -> Calls]
  /\ box \in [Spawns -> Boxes]
  /\ ran \in [Spawns -> 0 .. MaxConf]
  /\ conf \in 0 .. MaxConf /\ asked \in 0 .. MaxConf
  /\ dbStatus \in {"stopped", "running"}
  /\ crashes \in 0 .. MaxCrashes

(* Containers that live or that the daemon may still bring to life. *)
LiveBoxes == {p \in Spawns : box[p] # "none"}

-----------------------------------------------------------------------------
(* wakeContainer and spawnContainer. *)

(* A new call of spawnContainer; its promise enters the table. *)
Begin(p) ==
  /\ call[p] = "none" /\ box[p] = "none"
  /\ call' = [call EXCEPT ![p] = "prep"]
  /\ promise' = p

(* Mutant of Wake: a spawn in flight is not joined. *)
WakeAgain(p) ==
  /\ up /\ entry = NoSpawn
  /\ Begin(p)
  /\ UNCHANGED <<up, entry, onExit, box, ran, confVars, dbStatus, crashes>>

(* With an entry in the table, or a spawn in flight, wakeContainer changes *)
(* nothing.                                                                *)
Wake(p) ==
  /\ up /\ entry = NoSpawn /\ promise = NoSpawn
  /\ Begin(p)
  /\ UNCHANGED <<up, entry, onExit, box, ran, confVars, dbStatus, crashes>>

(* After its first await: container.json is written and read. *)
Materialize(p) ==
  /\ up /\ call[p] = "prep"
  /\ call' = [call EXCEPT ![p] = "args"]
  /\ ran' = [ran EXCEPT ![p] = conf]
  /\ UNCHANGED <<hostVars, box, confVars, dbStatus, crashes>>

(* The agent group is gone, the egress network or the gateway fails: the   *)
(* promise settles without an entry.                                       *)
SpawnFails(p) ==
  /\ up /\ call[p] \in {"prep", "args"}
  /\ call' = [call EXCEPT ![p] = "none"]
  /\ promise' = NoSpawn
  /\ UNCHANGED <<up, entry, onExit, box, ran, confVars, dbStatus, crashes>>

(* The client process is started; when the binary cannot be executed its   *)
(* 'error' event follows.                                                  *)
Spawn(p) ==
  /\ up /\ call[p] = "args"
  /\ promise' = NoSpawn
  /\ entry' = p /\ dbStatus' = "running"
  /\ \/ /\ call' = [call EXCEPT ![p] = "running"]
        /\ box' = [box EXCEPT ![p] = "creating"]
     \/ /\ call' = [call EXCEPT ![p] = "failed"]
        /\ UNCHANGED box
  /\ UNCHANGED <<up, onExit, ran, confVars, crashes>>

-----------------------------------------------------------------------------
(* The events of a client process. *)

(* Mutant of Respawn: the registered wake runs before the entry is gone,   *)
(* finds it, and does nothing.                                             *)
RespawnTooSoon(p) ==
  /\ call' = [call EXCEPT ![p] = "none"]
  /\ UNCHANGED promise

(* The wake registered for the exit; a spawn cannot be in flight while     *)
(* there is an entry, but is joined if there is one.                       *)
Respawn(p) ==
  IF p \in onExit /\ promise = NoSpawn
  THEN \E q \in Spawns \ {p} :
          /\ call[q] = "none" /\ box[q] = "none"
          /\ call' = [call EXCEPT ![p] = "none", ![q] = "prep"]
          /\ promise' = q
  ELSE /\ call' = [call EXCEPT ![p] = "none"]
       /\ UNCHANGED promise

(* The handlers delete the session's entry, whichever spawn it stems from. *)
Closed(p) ==
  /\ entry' = NoSpawn /\ dbStatus' = "stopped"
  /\ onExit' = onExit \ {p}

(* 'close' follows the exit of the client.  A failed spawn emits 'error'   *)
(* and at once 'close': no spawn gets through the gateway's network calls  *)
(* in between.                                                             *)
Close(p) ==
  /\ up /\ call[p] \in {"closing", "failed"}
  /\ Closed(p)
  /\ Respawn(p)
  /\ UNCHANGED <<up, box, ran, confVars, crashes>>

-----------------------------------------------------------------------------
(* killContainer. *)

(* `docker stop` ends a live container.  When it fails, for a container    *)
(* that is gone or not there yet, or because the daemon does not answer,   *)
(* the client is killed instead, and the container may stay.               *)
StopBox(p) ==
  /\ call' = [call EXCEPT ![p] = IF @ = "running" THEN "closing" ELSE @]
  /\ box' \in {[box EXCEPT ![p] = "none"]} \cup (IF Detach THEN {box} ELSE {})

Kill(wanted) ==
  /\ up /\ entry # NoSpawn
  /\ onExit' = IF wanted THEN onExit \cup {entry} ELSE onExit
  /\ StopBox(entry)

(* The sweep kills a container that is stuck, without a wake. *)
KillStuck ==
  /\ Kill(FALSE)
  /\ UNCHANGED <<up, entry, promise, ran, confVars, dbStatus, crashes>>

(* The configuration changes; nothing is restarted yet. *)
ChangeConfig ==
  /\ up /\ conf < MaxConf
  /\ conf' = conf + 1
  /\ UNCHANGED <<hostVars, spawnVars, asked, dbStatus, crashes>>

(* A restart is asked for: the container in the table is killed and, when  *)
(* there is something to do, respawned at its close event.                 *)
Restart ==
  /\ up
  /\ asked' = conf
  /\ \/ \E wanted \in BOOLEAN : Kill(wanted)
     \/ entry = NoSpawn /\ UNCHANGED <<onExit, call, box>>
  /\ UNCHANGED <<up, entry, promise, ran, conf, dbStatus, crashes>>

-----------------------------------------------------------------------------
(* The containers, and the host as a process. *)

BoxStarts(p) ==
  /\ box[p] = "creating"
  /\ box' = [box EXCEPT ![p] = "live"]
  /\ UNCHANGED <<hostVars, call, ran, confVars, dbStatus, crashes>>

(* The runner exits, crashes or never gets to run. *)
BoxExits(p) ==
  /\ p \in LiveBoxes
  /\ box' = [box EXCEPT ![p] = "none"]
  /\ call' = [call EXCEPT ![p] = IF @ = "running" THEN "closing" ELSE @]
  /\ UNCHANGED <<hostVars, ran, confVars, dbStatus, crashes>>

(* Calls and events of a dead host are gone; the containers are not. *)
HostCrash ==
  /\ up /\ crashes < MaxCrashes
  /\ up' = FALSE /\ entry' = NoSpawn /\ promise' = NoSpawn /\ onExit' = {}
  /\ call' = [p \in Spawns |-> "none"]
  /\ crashes' = crashes + 1
  /\ UNCHANGED <<box, ran, confVars, dbStatus>>

(* cleanupOrphans stops what runs; a stop that fails is passed over. *)
HostStart ==
  /\ ~up
  /\ up' = TRUE
  /\ \E kept \in SUBSET LiveBoxes :
        /\ kept # {} => Detach
        /\ box' = [p \in Spawns |-> IF p \in kept THEN box[p] ELSE "none"]
  /\ UNCHANGED <<entry, promise, onExit, call, ran, confVars, dbStatus, crashes>>

Next ==
  \/ \E p \in Spawns :
        \/ Wake(p) \/ Materialize(p) \/ SpawnFails(p) \/ Spawn(p)
        \/ Close(p) \/ BoxStarts(p) \/ BoxExits(p)
  \/ KillStuck \/ ChangeConfig \/ Restart
  \/ HostCrash \/ HostStart

Spec == Init /\ [][Next]_vars

(* The host's event loop dispatches every pending event, and the calls in  *)
(* flight settle: the import returns and the gateway answers or fails.     *)
Fairness ==
  \A p \in Spawns :
     /\ WF_vars(Close(p)) /\ WF_vars(Materialize(p))
     /\ WF_vars(SpawnFails(p) \/ Spawn(p))

FairSpec == Spec /\ Fairness

-----------------------------------------------------------------------------
(* Properties. *)

(* Two runners never share the files of the session ("spawns a duplicate   *)
(* container against the same session directory").                         *)
NoDuplicate == \A p, q \in LiveBoxes : p = q

(* ... and while the host runs, the one that lives is the tracked one,     *)
(* however wakes, kills, exits and crashes interleave.                     *)
OneLiveContainer == NoDuplicate /\ (up => LiveBoxes \subseteq {entry})

(* The session's status is "running" while it has an entry, and otherwise  *)
(* only as a remainder of a crash: the active delivery poll, which selects *)
(* by status, misses no running container.                                 *)
StatusFollows ==
  up => /\ entry # NoSpawn => dbStatus = "running"
        /\ entry = NoSpawn /\ dbStatus = "running" => crashes > 0

(* The host knows its container, and its status.                           *)
ContainerSafe == OneLiveContainer /\ StatusFollows

(* The slot as its users see it. *)
Slot == INSTANCE ContainerSlot
          WITH known <- (entry # NoSpawn), starting <- (promise # NoSpawn),
               live <- (LiveBoxes # {})

(* Promises, processes and events implement the container slot that the    *)
(* session queue builds on.                                                *)
SlotKept == Slot!SlotSpec

(* The wake a kill registered is acted on, unless the host crashes: after  *)
(* the exit a spawn is in flight.                                          *)
KillRespawns ==
  \A p \in Spawns : (p \in onExit /\ entry = p) ~> (promise # NoSpawn \/ ~up)

(* After a restart nothing runs on the configuration from before it        *)
(* ("Called at spawn time so the container always sees fresh config").     *)
NewConfigRuns ==
  \A p \in Spawns : up /\ entry = p /\ box[p] = "live" => ran[p] >= asked

=============================================================================
