------------------------------ MODULE Startup ------------------------------
(***************************************************************************)
(* The life of the host process: the circuit breaker that delays it after  *)
(* crashes, the gates it passes, the orphans it removes, the channels it   *)
(* joins one after the other, and its shutdown.  The service manager       *)
(* restarts it whenever it ends, unless an operator stopped it.            *)
(***************************************************************************)
EXTENDS Naturals, FiniteSets, Sequences, Faults

CONSTANTS
  Schedule,    (* BACKOFF_SCHEDULE_S: the delay of each attempt            *)
  Window,      (* RESET_WINDOW_MS, in the unit of Schedule                 *)
  RunLimit,    (* runs that may begin within one window                    *)
  MaxChannels, (* channel adapters registered                              *)
  Unset,       (* those whose credentials are missing                      *)
  Retries,     (* length of SETUP_RETRY_DELAYS_MS                          *)
  MaxOrders    (* signals, upgrades and outages (bound)                    *)

Channels == 1 .. MaxChannels

ASSUME StartupConstants ==
  /\ Schedule \in Seq(Nat) /\ Schedule # <<>>
  /\ Window \in Nat \ {0} /\ RunLimit \in Nat
  /\ MaxChannels \in Nat /\ Unset \subseteq Channels
  /\ Retries \in Nat /\ MaxOrders \in Nat

VARIABLES
  host,      (* where the process is                                       *)
  attempt,   (* circuit-breaker.json: its attempt, 0 without a file        *)
  age,       (* time since its timestamp, at most Window                   *)
  left,      (* what is left of the delay                                  *)
  marker,    (* upgrade-state.json names the version of the code           *)
  docker,    (* the container runtime answers                              *)
  joined,    (* each channel: its failed tries, or what became of it       *)
  boxes,     (* containers: started by this process, or by an earlier one  *)
  orders,    (* orders used up                                             *)
  begun,     (* history: the ages of the runs since the last forgiveness   *)
  crashes,   (* history: ends that were no shutdown, since then, up to two *)
  spared     (* history: an orphan could not be stopped                    *)

breakerVars == <<attempt, age, left>>
worldVars == <<marker, docker, orders>>
startHistVars == <<begun, crashes, spared>>
startupVars == <<host, breakerVars, worldVars, joined, boxes, startHistVars, faults>>

StartupInit ==
  /\ host = "down" /\ attempt = 0 /\ age = 0 /\ left = 0
  /\ marker = TRUE /\ docker = TRUE
  /\ joined = [c \in Channels |-> 0]
  /\ boxes = {} /\ orders = 0
  /\ begun = <<>> /\ crashes = 0 /\ spared = FALSE
  /\ faults = 0

(* What becomes of a channel, numbered beyond its failed tries.            *)
Live == Retries + 1
Dead == Retries + 2

Awake == {"waiting", "loading", "joining", "running", "hung"}

(* Every variable has its type.                                            *)
StartupTypeOK ==
  /\ host \in Awake \cup {"off", "down"}
  /\ attempt \in 0 .. Len(Schedule) + 1 /\ age \in 0 .. Window
  /\ \E i \in DOMAIN Schedule : left \in 0 .. Schedule[i]
  /\ marker \in BOOLEAN /\ docker \in BOOLEAN
  /\ joined \in [Channels -> 0 .. Dead]
  /\ boxes \subseteq {"own", "orphan"}
  /\ orders \in 0 .. MaxOrders
  /\ begun \in Seq(0 .. Window - 1) /\ crashes \in 0 .. 2 /\ spared \in BOOLEAN
  /\ faults \in 0 .. MaxFaults

-----------------------------------------------------------------------------
(* The circuit breaker.                                                    *)

(* Mutant of Delay: the index is not cut at the end of the schedule. *)
DelayUncut(n) == IF n \in DOMAIN Schedule THEN Schedule[n] ELSE 0

(* getDelay.                                                               *)
Delay(n) == Schedule[IF n <= Len(Schedule) THEN n ELSE Len(Schedule)]

(* Attempts are counted up to the first that the schedule does not list    *)
(* (bound): from there on they are alike.                                  *)
Attempt ==
  IF attempt = 0 \/ age >= Window THEN 1
  ELSE IF attempt <= Len(Schedule) THEN attempt + 1 ELSE attempt

(* enforceStartupBackoff up to its timer: the attempt is counted and saved *)
(* before the delay.                                                       *)
Start ==
  /\ host = "down"
  /\ attempt' = Attempt /\ age' = 0 /\ left' = Delay(Attempt)
  /\ crashes' = IF Attempt = 1 THEN 0 ELSE crashes
  /\ host' = "waiting"
  /\ joined' = [c \in Channels |-> 0]
  /\ UNCHANGED <<worldVars, boxes, begun, spared, faults>>

(* The process dies while it writes the file: what is left does not parse. *)
StartTorn ==
  /\ Fault /\ host = "down"
  /\ attempt' = 0 /\ age' = 0 /\ begun' = <<>> /\ crashes' = 0
  /\ UNCHANGED <<host, left, worldVars, joined, boxes, spared>>

(* The runs are kept oldest first; the first k leave the window.           *)
Leaving(k) == \A i \in DOMAIN begun : i <= k <=> begun[i] + 1 >= Window

Aged(k) == [i \in 1 .. Len(begun) - k |-> begun[i + k] + 1]

(* Time passes; a timer that is due fires first.                           *)
StartupTick ==
  /\ host = "waiting" => left > 0
  /\ age' = IF age < Window THEN age + 1 ELSE age
  /\ left' = IF left > 0 THEN left - 1 ELSE 0
  /\ \E k \in 0 .. Len(begun) : Leaving(k) /\ begun' = Aged(k)
  /\ <<age, left, begun>>' # <<age, left, begun>>
  /\ UNCHANGED <<host, attempt, worldVars, joined, boxes, crashes, spared, faults>>

BackoffOver ==
  /\ host = "waiting" /\ left = 0
  /\ host' = "loading"
  /\ begun' = Append(begun, 0)
  /\ UNCHANGED <<breakerVars, worldVars, joined, boxes, crashes, spared, faults>>

-----------------------------------------------------------------------------
(* Ends.                                                                   *)

(* Containers run on under the container runtime.                          *)
Orphaned == IF boxes = {} THEN {} ELSE {"orphan"}

Dies(to) ==
  /\ host' = to /\ left' = 0
  /\ boxes' = Orphaned
  /\ crashes' = IF crashes < 2 THEN crashes + 1 ELSE crashes
  /\ UNCHANGED <<attempt, age, worldVars, joined, begun, spared>>

(* The tripwire, or a runtime that does not answer: exit code 1.           *)
Refused ==
  /\ host = "loading" /\ ~(marker /\ docker)
  /\ Dies("down") /\ UNCHANGED faults

Crash == Fault /\ host \in Awake /\ Dies("down")

Order == orders < MaxOrders /\ orders' = orders + 1

(* shutdown once its awaits have settled, teardown failed or not: the file *)
(* is removed.  Containers are left alone.                                 *)
Exits(to) ==
  /\ host' = to /\ left' = 0
  /\ boxes' = Orphaned
  /\ attempt' = 0 /\ crashes' = 0 /\ begun' = <<>>
  /\ UNCHANGED <<age, marker, docker, joined, spared>>

(* SIGTERM: an operator stops or restarts the host; the synchronous part   *)
(* of the start cannot be interrupted.  A second one overtakes a shutdown  *)
(* that hangs, since the socket server is forgotten before it is awaited.  *)
Stop ==
  /\ Order /\ host \in {"waiting", "joining", "running", "hung"}
  /\ \E to \in {"off", "down"} : Exits(to)
  /\ UNCHANGED faults

(* The shutdown waits for the connections of the socket server, or for an  *)
(* adapter, and until the service manager kills the process.               *)
StopHangs ==
  /\ Order /\ Fault /\ host = "running"
  /\ host' = "hung"
  /\ UNCHANGED <<breakerVars, marker, docker, joined, boxes, startHistVars>>

Killed == host = "hung" /\ (\E to \in {"off", "down"} : Dies(to)) /\ UNCHANGED faults

OperatorStarts ==
  /\ host = "off" /\ host' = "down"
  /\ UNCHANGED <<breakerVars, worldVars, joined, boxes, startHistVars, faults>>

-----------------------------------------------------------------------------
(* The start.                                                              *)

(* Gates, database, runtime and cleanupOrphans, which stops the containers *)
(* with the label of this install and goes on when that fails.             *)
Load ==
  /\ host = "loading" /\ marker /\ docker
  /\ host' = "joining"
  /\ \/ boxes' = {} /\ UNCHANGED <<spared, faults>>
     \/ Fault /\ UNCHANGED boxes /\ spared' = TRUE
  /\ UNCHANGED <<breakerVars, worldVars, joined, begun, crashes>>

Settled(c) == joined[c] \in {Live, Dead}

(* initChannelAdapters takes one channel after the other.                  *)
IsNext(c) == ~Settled(c) /\ \A d \in Channels : d < c => Settled(d)

Becomes(c, fate) ==
  /\ joined' = [joined EXCEPT ![c] = fate]
  /\ UNCHANGED <<host, breakerVars, worldVars, boxes, startHistVars>>

Join(c) ==
  /\ host = "joining" /\ IsNext(c) /\ c \notin Unset
  /\ Becomes(c, Live) /\ UNCHANGED faults

(* Mutant of Skip: missing credentials end the start. *)
SkipAborts(c) ==
  /\ host = "joining" /\ IsNext(c) /\ c \in Unset
  /\ Dies("down") /\ UNCHANGED faults

Skip(c) ==
  /\ host = "joining" /\ IsNext(c) /\ c \in Unset
  /\ Becomes(c, Dead) /\ UNCHANGED faults

(* A network error is retried, any other one is not.                       *)
JoinFails(c) ==
  /\ Fault /\ host = "joining" /\ IsNext(c) /\ c \notin Unset
  /\ \/ joined[c] < Retries /\ Becomes(c, joined[c] + 1)
     \/ Becomes(c, Dead)

(* Delivery, sweep and the socket server start.                            *)
Open ==
  /\ host = "joining" /\ \A c \in Channels : Settled(c)
  /\ host' = "running"
  /\ UNCHANGED <<breakerVars, worldVars, joined, boxes, startHistVars, faults>>

(* A message of a channel that is live, or the sweep, wakes a container.   *)
Wake ==
  /\ host = "running" \/ (host = "joining" /\ \E c \in Channels : joined[c] = Live)
  /\ docker /\ boxes' = boxes \cup {"own"}
  /\ UNCHANGED <<host, breakerVars, worldVars, joined, startHistVars, faults>>

BoxEnds ==
  /\ \E b \in boxes : boxes' = boxes \ {b}
  /\ UNCHANGED <<host, breakerVars, worldVars, joined, startHistVars, faults>>

(* The code is pulled by hand, or upgraded as it should be; the container  *)
(* runtime goes away with its containers, or comes back.                   *)
Upgrade ==
  /\ Order /\ marker' = ~marker
  /\ UNCHANGED <<host, breakerVars, docker, joined, boxes, startHistVars, faults>>

Outage ==
  /\ Order /\ docker' = ~docker /\ boxes' = {}
  /\ UNCHANGED <<host, breakerVars, marker, joined, startHistVars, faults>>

-----------------------------------------------------------------------------
Boot == Start \/ BackoffOver \/ Refused \/ Load \/ Open
        \/ \E c \in Channels : Join(c) \/ Skip(c)

StartupNext ==
  \/ Boot \/ StartTorn \/ StartupTick
  \/ Crash \/ Stop \/ StopHangs \/ Killed \/ OperatorStarts
  \/ \E c \in Channels : JoinFails(c)
  \/ Wake \/ BoxEnds \/ Upgrade \/ Outage

StartupSpec == StartupInit /\ [][StartupNext]_startupVars

(* Time passes, the process proceeds, and the service manager restarts it  *)
(* (Restart=always, KeepAlive) and kills it when its stop takes too long.  *)
StartupFairness ==
  WF_startupVars(StartupTick) /\ WF_startupVars(Boot) /\ WF_startupVars(Killed)

StartupFairSpec == StartupSpec /\ StartupFairness

-----------------------------------------------------------------------------
(***************************************************************************)
(* Properties.                                                             *)
(***************************************************************************)

(* However the host crashes, at whatever point of its start, only so many  *)
(* runs begin within one window (unless it was stopped properly in         *)
(* between, or the file was lost).                                         *)
RunsBounded == Len(begun) <= RunLimit

(* Only crashes delay a start: ends by SIGTERM are forgiven, even when the *)
(* teardown throws.                                                        *)
OnlyCrashesDelay == left > 0 => crashes >= 2

(* A session of an earlier process never keeps its container beside a new  *)
(* one, unless that container could not be stopped.                        *)
NoTwins == spared \/ Cardinality(boxes) <= 1

(* A host that has started comes up in the end, however often it crashes   *)
(* and whatever channels cannot be joined, unless it is stopped, the       *)
(* marker is wrong or the runtime does not answer.                         *)
ComesUp ==
  host \in Awake ~> (host \in {"running", "off"} \/ ~marker \/ ~docker)

(* The host may crash as often as it likes: it is neither started in a     *)
(* tight loop nor held back without need, and containers have no twins.    *)
StartupSafe == StartupTypeOK /\ RunsBounded /\ OnlyCrashesDelay /\ NoTwins

=============================================================================
