------------------------ MODULE Installation_proofs -------------------------
(***************************************************************************)
(* Theorems of what happens around the running host: of Startup, for any   *)
(* schedule, window and channels and any number of crashes and orders; of  *)
(* Migrations, for any processes and faults; and of the two together.      *)
(***************************************************************************)
EXTENDS MCInstallation, SequenceTheorems, FiniteSetTheorems, WellFoundedInduction, TLAPS

-----------------------------------------------------------------------------
(***************************************************************************)
(* The start of the host.                                                  *)
(***************************************************************************)

Last == Schedule[Len(Schedule)]

(* Where the delay comes from, and that only crashes lead to it.           *)
BackoffFollows ==
  /\ left \in Nat /\ (host # "waiting" => left = 0)
  /\ host \in Awake => attempt >= 1
  /\ host = "waiting" => left <= Delay(attempt)
  /\ host = "waiting" => age >= Window \/ age + left >= Delay(attempt)
  /\ attempt >= 2 => crashes >= 1
  /\ attempt >= 3 => crashes >= 2
  /\ host \notin Awake /\ attempt >= 1 => crashes >= 1
  /\ host \notin Awake /\ attempt >= 2 => crashes >= 2

(* The runs are listed by age.  All but the last are older than the latest *)
(* start, and there are no more than attempts and one.                     *)
RunsFollow ==
  /\ \A i, j \in DOMAIN begun : i <= j => begun[i] >= begun[j]
  /\ \A i \in DOMAIN begun : i < Len(begun) \/ host = "waiting" => begun[i] >= age
  /\ attempt = 0 => Len(begun) = 0
  /\ attempt <= Len(Schedule) => Len(begun) <= attempt + 1
  /\ attempt <= Len(Schedule) /\ host = "waiting" => Len(begun) <= attempt

(* How far the runs lie apart.  Either each began after the delay of its   *)
(* place in the list, or the first one is left over from before the window *)
(* passed without a start: then it was a window ago, but for a delay, that *)
(* the second one began, and the others are one place behind.              *)
Regular ==
  /\ \A i \in Nat : {i, i + 1} \subseteq DOMAIN begun => begun[i] >= begun[i + 1] + Delay(i + 1)
  /\ attempt <= Len(Schedule) =>
       Len(begun) <= attempt /\ (host = "waiting" => Len(begun) < attempt)

LeftOver ==
  /\ Len(begun) >= 1 => begun[1] + Last >= Window
  /\ Len(begun) >= 2 => begun[1] + Last >= begun[2] + Window
  /\ \A i \in Nat \ {0, 1} : {i, i + 1} \subseteq DOMAIN begun => begun[i] >= begun[i + 1] + Delay(i)

(* A run begins when the delay since its start is over.                    *)
OnTime ==
  /\ host = "waiting" => age + left <= Delay(attempt)
  /\ \A i \in DOMAIN begun : begun[i] + Last >= age

Spacing == (Regular \/ LeftOver) /\ OnTime

(* The containers of an earlier process are gone once orphans were.        *)
BoxesFollow ==
  \/ spared
  \/ /\ host \in {"joining", "running", "hung"} => "orphan" \notin boxes
     /\ host \in {"off", "down", "waiting", "loading"} => "own" \notin boxes

StartTyped ==
  /\ host \in Awake \cup {"off", "down"}
  /\ attempt \in 0 .. Len(Schedule) + 1 /\ age \in 0 .. Window
  /\ marker \in BOOLEAN /\ docker \in BOOLEAN
  /\ joined \in [Channels -> 0 .. Dead]
  /\ boxes \subseteq {"own", "orphan"}
  /\ orders \in 0 .. MaxOrders
  /\ begun \in Seq(0 .. Window - 1) /\ crashes \in 0 .. 2 /\ spared \in BOOLEAN
  /\ faults \in 0 .. MaxFaults

StartupInv == StartTyped /\ BackoffFollows /\ RunsFollow /\ BoxesFollow

-----------------------------------------------------------------------------
(* The constants.                                                          *)
LEMMA StartBounds ==
  /\ Len(Schedule) \in Nat \ {0} /\ DOMAIN Schedule = 1 .. Len(Schedule)
  /\ \A i \in DOMAIN Schedule : Schedule[i] \in Nat
  /\ Last \in Nat
  /\ Window \in Nat \ {0} /\ RunLimit \in Nat
  /\ MaxChannels \in Nat /\ Retries \in Nat /\ MaxOrders \in Nat /\ MaxFaults \in Nat
<1>1. /\ Schedule \in Seq(Nat) /\ Schedule # <<>>
      /\ Window \in Nat \ {0} /\ RunLimit \in Nat
      /\ MaxChannels \in Nat /\ Retries \in Nat /\ MaxOrders \in Nat /\ MaxFaults \in Nat
  BY StartupConstants, FaultBound
<1>2. /\ Len(Schedule) \in Nat \ {0} /\ DOMAIN Schedule = 1 .. Len(Schedule)
      /\ \A i \in DOMAIN Schedule : Schedule[i] \in Nat
  BY <1>1
<1> QED
  BY <1>1, <1>2 DEF Last

LEMMA DelayIs ==
  ASSUME NEW n \in Nat \ {0}
  PROVE  /\ Delay(n) \in Nat
         /\ n >= Len(Schedule) => Delay(n) = Last
         /\ \E i \in DOMAIN Schedule : Delay(n) = Schedule[i]
         /\ n <= Len(Schedule) => Delay(n) = Schedule[n]
BY StartBounds DEF Delay, Last

LEMMA AttemptIs ==
  ASSUME StartTyped
  PROVE  /\ Attempt \in 1 .. Len(Schedule) + 1
         /\ Attempt = 1 \/ (attempt >= 1 /\ age < Window /\ attempt <= Attempt /\ Attempt <= attempt + 1)
         /\ attempt = 0 => Attempt = 1
         /\ attempt \in 1 .. Len(Schedule) /\ age < Window => Attempt = attempt + 1
         /\ age >= Window => Attempt = 1
BY StartBounds DEF Attempt, StartTyped

(* What is left of the delay is part of one in the schedule.               *)
LEMMA LeftTyped ==
  ASSUME StartTyped, BackoffFollows
  PROVE  \E i \in DOMAIN Schedule : left \in 0 .. Schedule[i]
<1>1. CASE host = "waiting"
  <2>1. attempt \in Nat \ {0}
    BY <1>1, StartBounds DEF StartTyped, BackoffFollows, Awake
  <2>2. PICK i \in DOMAIN Schedule : Delay(attempt) = Schedule[i]
    BY <2>1, DelayIs
  <2> QED
    BY <1>1, <2>2, StartBounds DEF BackoffFollows
<1>2. CASE host # "waiting"
  <2>1. left = 0 /\ 1 \in DOMAIN Schedule
    BY <1>2, StartBounds DEF BackoffFollows
  <2> QED
    BY <2>1, StartBounds
<1> QED
  BY <1>1, <1>2

LEMMA FunctionIsSeq ==
  ASSUME NEW S, NEW n \in Nat, NEW f \in [1 .. n -> S]
  PROVE  f \in Seq(S) /\ Len(f) = n /\ DOMAIN f = 1 .. n
OBVIOUS

(* The ages after time has passed.                                         *)
LEMMA AgedIs ==
  ASSUME StartTyped, NEW k \in 0 .. Len(begun), Leaving(k), begun' = Aged(k)
  PROVE  /\ begun' \in Seq(0 .. Window - 1)
         /\ Len(begun') = Len(begun) - k
         /\ DOMAIN begun' = 1 .. Len(begun) - k
         /\ \A i \in DOMAIN begun' : i + k \in DOMAIN begun /\ begun'[i] = begun[i + k] + 1
<1>1. begun \in Seq(0 .. Window - 1) /\ DOMAIN begun = 1 .. Len(begun) /\ Len(begun) \in Nat
  BY LenProperties DEF StartTyped
<1>0. \A i \in DOMAIN begun : begun[i] \in 0 .. Window - 1
  BY <1>1, ElementOfSeq
<1> DEFINE n == Len(begun) - k
<1>2. n \in Nat
  BY <1>1
<1>3. begun' = [i \in 1 .. n |-> begun[i + k] + 1]
  BY DEF Aged
<1>4. ASSUME NEW i \in 1 .. n PROVE i + k \in DOMAIN begun /\ begun[i + k] + 1 \in 0 .. Window - 1
  <2>1. i + k \in DOMAIN begun /\ ~(i + k <= k)
    BY <1>1, <1>2
  <2>2. begun[i + k] \in 0 .. Window - 1
    BY <1>0, <2>1
  <2>3. ~(begun[i + k] + 1 >= Window)
    BY <2>1 DEF Leaving
  <2> QED
    BY <2>1, <2>2, <2>3, StartBounds
<1> HIDE DEF n
<1>5. begun' \in Seq(0 .. Window - 1) /\ Len(begun') = n /\ DOMAIN begun' = 1 .. n
  <2>1. begun' \in [1 .. n -> 0 .. Window - 1]
    BY <1>3, <1>4
  <2> QED
    BY <2>1, <1>2, FunctionIsSeq
<1>6. \A i \in 1 .. n : i + k \in DOMAIN begun /\ begun'[i] = begun[i + k] + 1
  BY <1>3, <1>4
<1> QED
  BY <1>5, <1>6 DEF n

-----------------------------------------------------------------------------
(* The steps by what they do to the breaker and to the runs.               *)
Unhurt ==
  /\ UNCHANGED <<host, attempt, age, left, begun, crashes>>

Proceeds ==
  /\ UNCHANGED <<attempt, age, left, begun, crashes>>
  /\ \/ host = "loading" /\ host' = "joining"
     \/ host = "joining" /\ host' = "running"
     \/ host = "running" /\ host' = "hung"
     \/ host = "off" /\ host' = "down"

EndsBadly ==
  /\ host \in Awake /\ host' \in {"off", "down"} /\ left' = 0
  /\ crashes' = (IF crashes < 2 THEN crashes + 1 ELSE crashes)
  /\ UNCHANGED <<attempt, age, begun>>

Forgiven ==
  /\ host' \in {"off", "down"} /\ left' = 0
  /\ attempt' = 0 /\ crashes' = 0 /\ begun' = <<>>
  /\ age' \in {0, age}

Steps ==
  Start \/ StartupTick \/ BackoffOver \/ Unhurt \/ Proceeds \/ EndsBadly \/ Forgiven

LEMMA StepsAre ==
  ASSUME StartupInv, [StartupNext]_startupVars
  PROVE  Steps
<1>1. CASE Start \/ StartupTick \/ BackoffOver
  BY <1>1 DEF Steps
<1>2. CASE Load \/ Open \/ StopHangs \/ OperatorStarts
  <2>1. Proceeds
    BY <1>2 DEF Load, Open, StopHangs, OperatorStarts, Proceeds, breakerVars, startHistVars
  <2> QED
    BY <2>1 DEF Steps
<1>3. CASE Refused \/ Crash \/ Killed
  <2>1. EndsBadly
    BY <1>3 DEF Refused, Crash, Killed, Dies, EndsBadly, Awake
  <2> QED
    BY <2>1 DEF Steps
<1>4. CASE Stop
  <2>1. Forgiven
    BY <1>4 DEF Stop, Exits, Forgiven
  <2> QED
    BY <2>1 DEF Steps
<1>5. CASE StartTorn
  <2>1. left = 0
    BY <1>5 DEF StartTorn, StartupInv, BackoffFollows
  <2>2. Forgiven
    BY <1>5, <2>1 DEF StartTorn, Forgiven
  <2> QED
    BY <2>2 DEF Steps
<1>6. CASE \E c \in Channels : Join(c) \/ Skip(c) \/ JoinFails(c)
  <2>1. Unhurt
    BY <1>6 DEF Join, Skip, JoinFails, Becomes, Unhurt, breakerVars, startHistVars
  <2> QED
    BY <2>1 DEF Steps
<1>7. CASE Wake \/ BoxEnds \/ Upgrade \/ Outage \/ UNCHANGED startupVars
  <2>1. Unhurt
    BY <1>7 DEF Wake, BoxEnds, Upgrade, Outage, Unhurt, startupVars, breakerVars, startHistVars
  <2> QED
    BY <2>1 DEF Steps
<1> QED
  BY <1>1, <1>2, <1>3, <1>4, <1>5, <1>6, <1>7 DEF StartupNext, Boot

LEMMA TypeStep ==
  ASSUME StartupInv, [StartupNext]_startupVars
  PROVE  StartTyped'
<1> USE StartBounds DEF StartTyped, Awake
<1>0. StartTyped
  BY DEF StartupInv
<1>1. begun \in Seq(0 .. Window - 1) /\ <<>> \in Seq(0 .. Window - 1)
  BY <1>0, EmptySeq
<1>2. faults' \in 0 .. MaxFaults
  <2>1. faults' = faults \/ (faults < MaxFaults /\ faults' = faults + 1)
    BY DEF StartupNext, Boot, Start, BackoffOver, Refused, Load, Open, Join, Skip, StartTorn,
           StartupTick, Crash, Stop, StopHangs, Killed, OperatorStarts, JoinFails, Wake, BoxEnds,
           Upgrade, Outage, Fault, startupVars
  <2> QED
    BY <2>1, <1>0
<1>3. orders' \in 0 .. MaxOrders
  <2>1. orders' = orders \/ (orders < MaxOrders /\ orders' = orders + 1)
    BY DEF StartupNext, Boot, Start, BackoffOver, Refused, Load, Open, Join, Skip, StartTorn,
           StartupTick, Crash, Stop, StopHangs, Killed, OperatorStarts, JoinFails, Wake, BoxEnds,
           Upgrade, Outage, Order, Dies, Becomes, worldVars, startupVars
  <2> QED
    BY <2>1, <1>0
<1>4. marker' \in BOOLEAN /\ docker' \in BOOLEAN
  <2>1. marker' = marker \/ marker' = ~marker
    BY DEF StartupNext, Boot, Start, BackoffOver, Refused, Load, Open, Join, Skip, StartTorn,
           StartupTick, Crash, Stop, StopHangs, Killed, OperatorStarts, JoinFails, Wake, BoxEnds,
           Upgrade, Outage, Dies, Exits, Becomes, worldVars, startupVars
  <2>2. docker' = docker \/ docker' = ~docker
    BY DEF StartupNext, Boot, Start, BackoffOver, Refused, Load, Open, Join, Skip, StartTorn,
           StartupTick, Crash, Stop, StopHangs, Killed, OperatorStarts, JoinFails, Wake, BoxEnds,
           Upgrade, Outage, Dies, Exits, Becomes, worldVars, startupVars
  <2> QED
    BY <2>1, <2>2, <1>0, Zenon
<1>5. spared' \in BOOLEAN
  <2>1. spared' = spared \/ spared' = TRUE
    BY DEF StartupNext, Boot, Start, BackoffOver, Refused, Load, Open, Join, Skip, StartTorn,
           StartupTick, Crash, Stop, StopHangs, Killed, OperatorStarts, JoinFails, Wake, BoxEnds,
           Upgrade, Outage, Dies, Exits, Becomes, startHistVars, startupVars
  <2> QED
    BY <2>1, <1>0, Zenon
<1>6. boxes' \subseteq {"own", "orphan"}
  <2>1. \/ boxes' = boxes \/ boxes' = {} \/ boxes' = Orphaned \/ boxes' = boxes \cup {"own"}
        \/ \E b \in boxes : boxes' = boxes \ {b}
    BY DEF StartupNext, Boot, Start, BackoffOver, Refused, Load, Open, Join, Skip, StartTorn,
           StartupTick, Crash, Stop, StopHangs, Killed, OperatorStarts, JoinFails, Wake, BoxEnds,
           Upgrade, Outage, Dies, Exits, Becomes, startupVars
  <2> QED
    BY <2>1, <1>0 DEF Orphaned
<1>7. joined' \in [Channels -> 0 .. Dead]
  <2>1. \/ joined' = joined \/ joined' = [c \in Channels |-> 0]
        \/ \E c \in Channels : joined' = [joined EXCEPT ![c] = Live] \/ joined' = [joined EXCEPT ![c] = Dead]
        \/ \E c \in Channels : joined[c] < Retries /\ joined' = [joined EXCEPT ![c] = joined[c] + 1]
    BY DEF StartupNext, Boot, Start, BackoffOver, Refused, Load, Open, Join, Skip, StartTorn,
           StartupTick, Crash, Stop, StopHangs, Killed, OperatorStarts, JoinFails, Wake, BoxEnds,
           Upgrade, Outage, Dies, Exits, Becomes, startupVars
  <2>2. Live \in 0 .. Dead /\ Dead \in 0 .. Dead /\ 0 \in 0 .. Dead
    BY DEF Live, Dead
  <2>3. ASSUME NEW c \in Channels, joined[c] < Retries PROVE joined[c] + 1 \in 0 .. Dead
    BY <2>3, <1>0 DEF Dead
  <2>4. joined \in [Channels -> 0 .. Dead]
    BY <1>0
  <2> QED
    BY <2>1, <2>2, <2>3, <2>4, Zenon
<1>8. /\ host' \in Awake \cup {"off", "down"}
      /\ attempt' \in 0 .. Len(Schedule) + 1 /\ age' \in 0 .. Window /\ crashes' \in 0 .. 2
      /\ begun' \in Seq(0 .. Window - 1)
  <2>1. CASE Start
    <3>1. Attempt \in 0 .. Len(Schedule) + 1
      BY <1>0, AttemptIs
    <3> QED
      BY <2>1, <3>1, <1>0 DEF Start
  <2>2. CASE StartupTick
    <3>1. begun' \in Seq(0 .. Window - 1)
      BY <2>2, <1>0, AgedIs DEF StartupTick
    <3> QED
      BY <2>2, <3>1, <1>0 DEF StartupTick
  <2>3. CASE BackoffOver
    <3>1. 0 \in 0 .. Window - 1
      OBVIOUS
    <3>2. Append(begun, 0) \in Seq(0 .. Window - 1)
      BY <1>1, <3>1, AppendProperties
    <3> QED
      BY <2>3, <3>2, <1>0 DEF BackoffOver, breakerVars
  <2>4. CASE Unhurt \/ Proceeds \/ EndsBadly
    BY <2>4, <1>0 DEF Unhurt, Proceeds, EndsBadly
  <2>5. CASE Forgiven
    BY <2>5, <1>0, <1>1 DEF Forgiven
  <2> QED
    BY <2>1, <2>2, <2>3, <2>4, <2>5, StepsAre DEF Steps
<1> QED
  BY <1>2, <1>3, <1>4, <1>5, <1>6, <1>7, <1>8

LEMMA BackoffStep ==
  ASSUME StartupInv, [StartupNext]_startupVars
  PROVE  BackoffFollows'
<1>0. StartTyped /\ BackoffFollows
  BY DEF StartupInv
<1>1. CASE Start
  <2>1. Attempt \in Nat \ {0} /\ Attempt \in 1 .. Len(Schedule) + 1
    BY <1>0, AttemptIs, StartBounds
  <2>2. Delay(Attempt) \in Nat
    BY <2>1, DelayIs
  <2>3. ASSUME NEW a, a = Attempt
        PROVE  /\ a >= 2 => crashes' >= 1
               /\ a >= 3 => crashes' >= 2
    <3>1. a \in Nat /\ (a = 1 \/ (attempt >= 1 /\ a <= attempt + 1))
      BY <2>1, <2>3, <1>0, AttemptIs
    <3>2. host \notin Awake
      BY <1>1 DEF Start, Awake
    <3>3. a # 1 => crashes' = crashes
      BY <1>1, <2>3 DEF Start
    <3>4. /\ attempt \in Nat /\ crashes \in Nat
          /\ attempt >= 1 => crashes >= 1
          /\ attempt >= 2 => crashes >= 2
      BY <1>0, <3>2, StartBounds DEF StartTyped, BackoffFollows
    <3> QED
      BY <3>1, <3>3, <3>4
  <2>4. /\ host' = "waiting" /\ attempt' = Attempt /\ age' = 0 /\ left' = Delay(Attempt)
    BY <1>1 DEF Start
  <2> DEFINE a == Attempt
             d == Delay(Attempt)
  <2>5. a \in Nat \ {0} /\ d \in Nat /\ attempt' = a /\ left' = d /\ Delay(attempt') = d
    BY <2>1, <2>2, <2>4
  <2>6. /\ a >= 2 => crashes' >= 1
        /\ a >= 3 => crashes' >= 2
    BY <2>3
  <2> HIDE DEF a, d
  <2>7. 0 + d >= d
    BY <2>5
  <2>8. /\ left' \in Nat /\ (host' # "waiting" => left' = 0)
        /\ attempt' >= 1
        /\ left' <= Delay(attempt')
        /\ age' + left' >= Delay(attempt')
        /\ host' \in Awake
    BY <2>4, <2>5, <2>7 DEF Awake
  <2> QED
    BY <2>5, <2>6, <2>8 DEF BackoffFollows
<1>2. CASE StartupTick
  <2>1. UNCHANGED <<host, attempt, crashes>>
    BY <1>2 DEF StartupTick
  <2>2. /\ host = "waiting" => left > 0
        /\ age' = (IF age < Window THEN age + 1 ELSE age)
        /\ left' = (IF left > 0 THEN left - 1 ELSE 0)
    BY <1>2 DEF StartupTick
  <2>3. age \in Nat /\ left \in Nat /\ Window \in Nat
    BY <1>0, StartBounds DEF StartTyped, BackoffFollows
  <2>4. left' \in Nat /\ (host # "waiting" => left' = 0)
    BY <2>2, <2>3, <1>0 DEF BackoffFollows
  <2>5. ASSUME host = "waiting"
        PROVE  left' <= Delay(attempt) /\ (age' >= Window \/ age' + left' >= Delay(attempt))
    <3>1. attempt \in Nat \ {0}
      BY <2>5, <1>0, StartBounds DEF StartTyped, BackoffFollows, Awake
    <3>2. Delay(attempt) \in Nat
      BY <3>1, DelayIs
    <3>3. /\ left <= Delay(attempt)
          /\ age >= Window \/ age + left >= Delay(attempt)
      BY <2>5, <1>0 DEF BackoffFollows
    <3> QED
      BY <3>2, <3>3, <2>2, <2>3, <2>5
  <2> QED
    BY <2>1, <2>4, <2>5, <1>0 DEF BackoffFollows
<1>3. CASE BackoffOver
  <2>1. /\ host = "waiting" /\ host' = "loading" /\ left' = 0
        /\ UNCHANGED <<attempt, age, crashes>>
    BY <1>3 DEF BackoffOver, breakerVars
  <2> QED
    BY <2>1, <1>0 DEF BackoffFollows, Awake
<1>4. CASE Unhurt
  BY <1>4, <1>0 DEF Unhurt, BackoffFollows
<1>5. CASE Proceeds
  <2>1. host # "waiting" /\ host' # "waiting" /\ (host \in Awake <=> host' \in Awake)
    BY <1>5 DEF Proceeds, Awake
  <2> QED
    BY <2>1, <1>5, <1>0 DEF Proceeds, BackoffFollows
<1>6. CASE EndsBadly
  <2>1. host' \notin Awake /\ host' # "waiting"
    BY <1>6 DEF EndsBadly, Awake
  <2>2. attempt \in Nat /\ crashes \in Nat
    BY <1>0, StartBounds DEF StartTyped
  <2>3. /\ attempt >= 1 => crashes' >= 1
        /\ attempt >= 2 => crashes' >= 2
        /\ attempt' = attempt /\ left' = 0
    BY <1>6, <1>0, <2>2 DEF EndsBadly, BackoffFollows
  <2> QED
    BY <2>1, <2>2, <2>3 DEF BackoffFollows
<1>7. CASE Forgiven
  <2>1. /\ host' \notin Awake /\ host' # "waiting" /\ left' = 0 /\ attempt' = 0 /\ crashes' = 0
    BY <1>7 DEF Forgiven, Awake
  <2> QED
    BY <2>1 DEF BackoffFollows
<1> QED
  BY <1>1, <1>2, <1>3, <1>4, <1>5, <1>6, <1>7, StepsAre DEF Steps

LEMMA TickKeepsRuns ==
  ASSUME StartupInv, StartupTick
  PROVE  RunsFollow'
<1>0. StartTyped /\ BackoffFollows /\ RunsFollow
  BY DEF StartupInv
<1>1. PICK k \in 0 .. Len(begun) : Leaving(k) /\ begun' = Aged(k)
  BY DEF StartupTick
<1>2. /\ begun' \in Seq(0 .. Window - 1)
      /\ Len(begun') = Len(begun) - k
      /\ DOMAIN begun' = 1 .. Len(begun) - k
      /\ \A i \in DOMAIN begun' : i + k \in DOMAIN begun /\ begun'[i] = begun[i + k] + 1
  BY <1>0, <1>1, AgedIs
<1>3. begun \in Seq(0 .. Window - 1) /\ DOMAIN begun = 1 .. Len(begun) /\ Len(begun) \in Nat /\ k \in Nat
  BY <1>0, <1>1, LenProperties DEF StartTyped
<1>4. \A i \in DOMAIN begun : begun[i] \in Nat
  <2>1. \A i \in DOMAIN begun : begun[i] \in 0 .. Window - 1
    BY <1>3, ElementOfSeq
  <2> QED
    BY <2>1, StartBounds
<1>5. /\ UNCHANGED <<host, attempt>>
      /\ age' = (IF age < Window THEN age + 1 ELSE age) /\ age \in Nat
  BY <1>0 DEF StartupTick, StartTyped
<1>6. ASSUME NEW i \in DOMAIN begun', NEW j \in DOMAIN begun', i <= j
      PROVE  begun'[i] >= begun'[j]
  <2>1. i \in Nat /\ j \in Nat /\ i + k <= j + k
    BY <1>2, <1>3, <1>6
  <2>2. begun[i + k] >= begun[j + k]
    BY <2>1, <1>2, <1>0 DEF RunsFollow
  <2>3. begun[i + k] \in Nat /\ begun[j + k] \in Nat /\ begun'[i] = begun[i + k] + 1 /\ begun'[j] = begun[j + k] + 1
    BY <1>2, <1>4
  <2> QED
    BY <2>2, <2>3
<1>7. ASSUME NEW i \in DOMAIN begun', i < Len(begun') \/ host' = "waiting"
      PROVE  begun'[i] >= age'
  <2>1. i + k \in DOMAIN begun /\ (i + k < Len(begun) \/ host = "waiting")
    BY <1>2, <1>3, <1>5, <1>7
  <2>2. begun[i + k] >= age
    BY <2>1, <1>0 DEF RunsFollow
  <2>3. begun'[i] = begun[i + k] + 1 /\ begun[i + k] \in Nat
    BY <1>2, <1>4, <2>1
  <2> QED
    BY <2>2, <2>3, <1>5, StartBounds
<1>8. Len(begun') \in Nat /\ Len(begun') <= Len(begun) /\ attempt \in Nat
  BY <1>2, <1>3, <1>0, StartBounds DEF StartTyped
<1>9. /\ attempt = 0 => Len(begun) = 0
      /\ attempt <= Len(Schedule) => Len(begun) <= attempt + 1
      /\ attempt <= Len(Schedule) /\ host = "waiting" => Len(begun) <= attempt
  BY <1>0 DEF RunsFollow
<1>10. /\ attempt' = 0 => Len(begun') = 0
       /\ attempt' <= Len(Schedule) => Len(begun') <= attempt' + 1
       /\ attempt' <= Len(Schedule) /\ host' = "waiting" => Len(begun') <= attempt'
  BY <1>3, <1>5, <1>8, <1>9, StartBounds
<1> QED
  BY <1>6, <1>7, <1>10 DEF RunsFollow

LEMMA BeginKeepsRuns ==
  ASSUME StartupInv, BackoffOver
  PROVE  RunsFollow'
<1>0. StartTyped /\ BackoffFollows /\ RunsFollow
  BY DEF StartupInv
<1> DEFINE n == Len(begun)
<1>1. begun \in Seq(0 .. Window - 1) /\ DOMAIN begun = 1 .. n /\ n \in Nat
  BY <1>0, LenProperties DEF StartTyped
<1>2. \A i \in DOMAIN begun : begun[i] \in Nat /\ begun[i] < Window
  BY <1>1, ElementOfSeq, StartBounds
<1>3. /\ host = "waiting" /\ left = 0 /\ host' = "loading"
      /\ begun' = Append(begun, 0) /\ UNCHANGED <<attempt, age>>
  BY DEF BackoffOver, breakerVars
<1>4. /\ Len(begun') = n + 1 /\ DOMAIN begun' = 1 .. n + 1
      /\ \A i \in 1 .. n : begun'[i] = begun[i]
      /\ begun'[n + 1] = 0
  <2>1. 0 \in 0 .. Window - 1
    BY StartBounds
  <2>2. /\ Append(begun, 0) \in Seq(0 .. Window - 1) /\ Len(Append(begun, 0)) = n + 1
        /\ \A i \in 1 .. n : Append(begun, 0)[i] = begun[i]
        /\ Append(begun, 0)[n + 1] = 0
    BY <1>1, <2>1, AppendProperties
  <2> QED
    BY <2>2, <1>3, LenProperties
<1>5. /\ attempt \in Nat \ {0} /\ attempt <= Len(Schedule) + 1 /\ age \in Nat
      /\ Len(Schedule) \in Nat \ {0} /\ Last \in Nat /\ Window \in Nat
  BY <1>0, <1>3, StartBounds DEF StartTyped, BackoffFollows, Awake
<1>6. \A i \in 1 .. n : begun[i] >= age
  BY <1>0, <1>1, <1>3 DEF RunsFollow
<1>7. attempt <= Len(Schedule) => n <= attempt
  BY <1>0, <1>3 DEF RunsFollow
<1> HIDE DEF n
<1>9. ASSUME NEW i \in 1 .. n + 1, NEW j \in 1 .. n + 1, i <= j
      PROVE  begun'[i] >= begun'[j]
  <2>1. CASE j <= n
    <3>1. i \in 1 .. n /\ j \in 1 .. n
      BY <2>1, <1>1, <1>9
    <3>2. begun[i] >= begun[j]
      BY <3>1, <1>0, <1>1, <1>9 DEF RunsFollow
    <3> QED
      BY <3>1, <3>2, <1>4
  <2>2. CASE j = n + 1
    <3>1. i = n + 1 \/ i \in 1 .. n
      BY <1>1, <1>9
    <3> QED
      BY <2>2, <3>1, <1>2, <1>1, <1>4
  <2> QED
    BY <2>1, <2>2, <1>1, <1>9
<1>10. ASSUME NEW i \in 1 .. n + 1, i < n + 1 PROVE begun'[i] >= age
  BY <1>10, <1>1, <1>4, <1>6
<1>11. /\ attempt' # 0
       /\ attempt' <= Len(Schedule) => Len(begun') <= attempt' + 1
       /\ host' # "waiting"
  BY <1>1, <1>3, <1>4, <1>5, <1>7
<1>12. \A i, j \in DOMAIN begun' : i <= j => begun'[i] >= begun'[j]
  BY <1>4, <1>9
<1>13. \A i \in DOMAIN begun' : i < Len(begun') \/ host' = "waiting" => begun'[i] >= age'
  BY <1>3, <1>4, <1>10
<1> QED
  BY <1>11, <1>12, <1>13 DEF RunsFollow

LEMMA StartKeepsRuns ==
  ASSUME StartupInv, Start
  PROVE  RunsFollow'
<1>0. StartTyped /\ BackoffFollows /\ RunsFollow
  BY DEF StartupInv
<1>1. begun \in Seq(0 .. Window - 1) /\ DOMAIN begun = 1 .. Len(begun) /\ Len(begun) \in Nat
  BY <1>0, LenProperties DEF StartTyped
<1>2. \A i \in DOMAIN begun : begun[i] \in Nat /\ begun[i] < Window
  BY <1>1, ElementOfSeq, StartBounds
<1>3. host' = "waiting" /\ attempt' = Attempt /\ age' = 0 /\ begun' = begun
  BY DEF Start
<1>4. ASSUME NEW a, a = Attempt, a <= Len(Schedule)
      PROVE  Len(begun) <= a
  <2>1. /\ a \in Nat \ {0} /\ attempt \in Nat /\ attempt <= Len(Schedule) + 1
        /\ age \in Nat /\ Window \in Nat /\ Len(Schedule) \in Nat
        /\ a = 1 \/ (attempt >= 1 /\ age < Window)
    BY <1>0, <1>4, AttemptIs, StartBounds DEF StartTyped
  <2>2. CASE attempt = 0
    BY <2>1, <2>2, <1>0 DEF RunsFollow
  <2>3. CASE attempt # 0 /\ age >= Window
    <3>1. \A i \in DOMAIN begun : ~(i < Len(begun))
      BY <2>1, <2>3, <1>0, <1>2 DEF RunsFollow
    <3>2. ~(1 \in DOMAIN begun /\ 1 < Len(begun))
      BY <3>1
    <3>3. Len(begun) <= 1
      BY <3>2, <1>1
    <3> QED
      BY <3>3, <2>1, <1>1
  <2>4. CASE attempt # 0 /\ age < Window
    <3>1. attempt <= Len(Schedule) => a = attempt + 1
      BY <2>1, <2>4, <1>0, <1>4, AttemptIs
    <3>2. attempt = Len(Schedule) + 1 => a = attempt
      BY <2>1, <2>4, <1>4 DEF Attempt
    <3>3. a = attempt + 1 /\ attempt <= Len(Schedule)
      BY <2>1, <3>1, <3>2, <1>4
    <3> QED
      BY <3>3, <1>0 DEF RunsFollow
  <2> QED
    BY <2>1, <2>2, <2>3, <2>4
<1>5. attempt' # 0 /\ attempt' \in Nat
  BY <1>0, <1>3, AttemptIs, StartBounds
<1>6. attempt' <= Len(Schedule) => Len(begun') <= attempt'
  BY <1>3, <1>4
<1>7. attempt' <= Len(Schedule) => Len(begun') <= attempt' + 1
  BY <1>5, <1>6, <1>1, <1>3, StartBounds
<1>8. \A i \in DOMAIN begun' : begun'[i] >= age'
  BY <1>2, <1>3
<1> QED
  BY <1>0, <1>3, <1>5, <1>6, <1>7, <1>8 DEF RunsFollow

LEMMA RunsStep ==
  ASSUME StartupInv, [StartupNext]_startupVars
  PROVE  RunsFollow'
<1>0. StartTyped /\ BackoffFollows /\ RunsFollow
  BY DEF StartupInv
<1>1. CASE Unhurt
  BY <1>1, <1>0 DEF Unhurt, RunsFollow
<1>2. CASE Proceeds \/ EndsBadly
  <2>1. UNCHANGED <<attempt, age, begun>> /\ host' # "waiting"
    BY <1>2 DEF Proceeds, EndsBadly
  <2> QED
    BY <2>1, <1>0 DEF RunsFollow
<1>3. CASE Forgiven
  <2>1. begun' = <<>> /\ Len(begun') = 0 /\ DOMAIN begun' = {} /\ host' # "waiting" /\ attempt' = 0
    BY <1>3 DEF Forgiven
  <2> QED
    BY <2>1, StartBounds DEF RunsFollow
<1> QED
  BY <1>1, <1>2, <1>3, StepsAre, StartKeepsRuns, TickKeepsRuns, BeginKeepsRuns DEF Steps

LEMMA BoxesStep ==
  ASSUME StartupInv, [StartupNext]_startupVars
  PROVE  BoxesFollow'
<1> USE DEF BoxesFollow
<1>0. boxes \subseteq {"own", "orphan"} /\ BoxesFollow
  BY DEF StartupInv, StartTyped
<1>1. CASE Start
  BY <1>1, <1>0 DEF Start
<1>2. CASE StartTorn
  BY <1>2, <1>0 DEF StartTorn
<1>3. CASE StartupTick
  BY <1>3, <1>0 DEF StartupTick
<1>4. CASE BackoffOver
  BY <1>4, <1>0 DEF BackoffOver
<1>5. CASE Refused \/ Crash \/ Killed \/ Stop
  <2>1. host' \in {"off", "down"} /\ boxes' = Orphaned
    BY <1>5 DEF Refused, Crash, Killed, Stop, Dies, Exits
  <2> QED
    BY <2>1 DEF Orphaned
<1>6. CASE Load
  BY <1>6, <1>0 DEF Load
<1>7. CASE Open \/ StopHangs \/ OperatorStarts
  BY <1>7, <1>0 DEF Open, StopHangs, OperatorStarts, startHistVars
<1>8. CASE \E c \in Channels : Join(c) \/ Skip(c) \/ JoinFails(c)
  BY <1>8, <1>0 DEF Join, Skip, JoinFails, Becomes, startHistVars
<1>9. CASE Wake
  BY <1>9, <1>0 DEF Wake, startHistVars
<1>10. CASE BoxEnds \/ Outage
  BY <1>10, <1>0 DEF BoxEnds, Outage, startHistVars
<1>11. CASE Upgrade \/ UNCHANGED startupVars
  BY <1>11, <1>0 DEF Upgrade, startupVars, startHistVars
<1> QED
  BY <1>1, <1>2, <1>3, <1>4, <1>5, <1>6, <1>7, <1>8, <1>9, <1>10, <1>11 DEF StartupNext, Boot

LEMMA StartupStep == StartupInv /\ [StartupNext]_startupVars => StartupInv'
BY TypeStep, BackoffStep, RunsStep, BoxesStep DEF StartupInv

LEMMA StartupBegins == StartupInit => StartupInv
<1> SUFFICES ASSUME StartupInit PROVE StartupInv
  OBVIOUS
<1>1. StartTyped
  <2>1. <<>> \in Seq(0 .. Window - 1)
    BY EmptySeq
  <2>2. joined \in [Channels -> 0 .. Dead]
    BY StartBounds DEF StartupInit, Dead
  <2>3. marker \in BOOLEAN /\ docker \in BOOLEAN /\ spared \in BOOLEAN
    BY Zenon DEF StartupInit
  <2>4. begun \in Seq(0 .. Window - 1)
    BY <2>1 DEF StartupInit
  <2>5. /\ attempt \in 0 .. Len(Schedule) + 1 /\ age \in 0 .. Window
        /\ orders \in 0 .. MaxOrders /\ crashes \in 0 .. 2 /\ faults \in 0 .. MaxFaults
    BY StartBounds DEF StartupInit
  <2> QED
    BY <2>2, <2>3, <2>4, <2>5 DEF StartupInit, StartTyped
<1>2. BackoffFollows
  BY DEF StartupInit, BackoffFollows, Awake
<1>3. RunsFollow
  BY StartBounds DEF StartupInit, RunsFollow
<1>4. BoxesFollow
  BY DEF StartupInit, BoxesFollow
<1> QED
  BY <1>1, <1>2, <1>3, <1>4 DEF StartupInv

THEOREM StartupKeeps == StartupSpec => []StartupInv
BY StartupBegins, StartupStep, PTL DEF StartupSpec

-----------------------------------------------------------------------------
(* What the schedule of the code is like: the first two attempts are not   *)
(* delayed (BACKOFF_SCHEDULE_S begins with two zeros).                     *)
FirstUndelayed ==
  Len(Schedule) >= 2 /\ Schedule[1] = 0 /\ Schedule[2] = 0

(* The later an attempt the longer its delay, as in BACKOFF_SCHEDULE_S.    *)
ScheduleGrows == \A i, j \in DOMAIN Schedule : i <= j => Schedule[i] <= Schedule[j]

(* As many runs as RunLimit and one need more than a window: total adds up *)
(* the delays between the first run and each later one.  A run left over   *)
(* from before an idle window takes the last delay's time off the next.    *)
LimitFitsWindow ==
  /\ RunLimit >= 1
  /\ \E total \in [1 .. RunLimit + 1 -> Nat] :
       /\ total[1] = 0 /\ \A n \in 1 .. RunLimit : total[n + 1] = total[n] + Delay(n + 1)
       /\ total[RunLimit + 1] >= Window /\ total[RunLimit] >= Last

LEMMA InvTypeOK == StartupInv => StartupTypeOK
BY LeftTyped DEF StartupInv, StartTyped, StartupTypeOK

LEMMA InvNoTwins == StartupInv => NoTwins
<1> SUFFICES ASSUME StartupInv, ~spared PROVE Cardinality(boxes) <= 1
  BY DEF NoTwins
<1>1. boxes \subseteq {"own"} \/ boxes \subseteq {"orphan"}
  BY DEF StartupInv, StartTyped, BoxesFollow, Awake
<1>2. boxes = {} \/ boxes = {"own"} \/ boxes = {"orphan"}
  BY <1>1
<1>3. Cardinality({}) = 0 /\ Cardinality({"own"}) = 1 /\ Cardinality({"orphan"}) = 1
  BY FS_EmptySet, FS_Singleton
<1> QED
  BY <1>2, <1>3

LEMMA InvDelay == FirstUndelayed /\ StartupInv => OnlyCrashesDelay
<1> SUFFICES ASSUME FirstUndelayed, StartupInv, left > 0 PROVE crashes >= 2
  BY DEF OnlyCrashesDelay
<1>1. host = "waiting" /\ left \in Nat /\ left <= Delay(attempt) /\ attempt \in Nat \ {0}
  BY StartBounds DEF StartupInv, BackoffFollows, StartTyped, Awake
<1>2. attempt # 1 /\ attempt # 2
  <2>1. 1 \in Nat \ {0} /\ 2 \in Nat \ {0} /\ 1 <= Len(Schedule) /\ 2 <= Len(Schedule)
    BY StartBounds DEF FirstUndelayed
  <2>2. Delay(1) = Schedule[1] /\ Delay(2) = Schedule[2]
    BY <2>1, DelayIs
  <2>3. ASSUME NEW n \in {1, 2} PROVE Delay(n) = 0
    BY <2>2 DEF FirstUndelayed
  <2>4. ~(Delay(attempt) = 0)
    BY <1>1
  <2> QED
    BY <2>3, <2>4
<1> QED
  BY <1>1, <1>2 DEF StartupInv, BackoffFollows

-----------------------------------------------------------------------------
(* How far the runs lie apart. *)

LEMMA DelayGrows ==
  ASSUME ScheduleGrows, NEW m \in Nat \ {0}, NEW n \in Nat \ {0}, m <= n \/ n >= Len(Schedule)
  PROVE  Delay(m) <= Delay(n) /\ Delay(m) \in Nat /\ Delay(n) \in Nat
<1> DEFINE Cut(k) == IF k <= Len(Schedule) THEN k ELSE Len(Schedule)
<1>1. Cut(m) \in DOMAIN Schedule /\ Cut(n) \in DOMAIN Schedule /\ Cut(m) <= Cut(n)
  BY StartBounds
<1>2. Delay(m) = Schedule[Cut(m)] /\ Delay(n) = Schedule[Cut(n)]
  BY DEF Delay
<1> HIDE DEF Cut
<1> QED
  BY <1>1, <1>2, StartBounds DEF ScheduleGrows

LEMMA BegunTyped ==
  ASSUME StartTyped
  PROVE  /\ begun \in Seq(0 .. Window - 1) /\ DOMAIN begun = 1 .. Len(begun) /\ Len(begun) \in Nat
         /\ \A i \in DOMAIN begun : begun[i] \in Nat /\ begun[i] < Window
         /\ age \in Nat /\ age <= Window /\ attempt \in Nat /\ attempt <= Len(Schedule) + 1
<1>1. begun \in Seq(0 .. Window - 1) /\ DOMAIN begun = 1 .. Len(begun) /\ Len(begun) \in Nat
  BY LenProperties DEF StartTyped
<1>2. \A i \in DOMAIN begun : begun[i] \in 0 .. Window - 1
  BY <1>1, ElementOfSeq
<1> QED
  BY <1>1, <1>2, StartBounds DEF StartTyped

LEMMA SpacingBegins == StartupInit => Spacing
<1> SUFFICES ASSUME StartupInit PROVE Spacing
  OBVIOUS
<1>1. Len(begun) = 0 /\ DOMAIN begun = {} /\ attempt = 0 /\ host # "waiting"
  BY DEF StartupInit
<1> QED
  BY <1>1 DEF Spacing, Regular, OnTime

LEMMA TickKeepsSpacing ==
  ASSUME ScheduleGrows, StartupInv, Spacing, StartupTick
  PROVE  Spacing'
<1>0. StartTyped /\ BackoffFollows /\ RunsFollow
  BY DEF StartupInv
<1>1. PICK k \in 0 .. Len(begun) : Leaving(k) /\ begun' = Aged(k)
  BY DEF StartupTick
<1>2. /\ Len(begun') = Len(begun) - k
      /\ DOMAIN begun' = 1 .. Len(begun) - k
      /\ \A i \in DOMAIN begun' : i + k \in DOMAIN begun /\ begun'[i] = begun[i + k] + 1
  BY <1>0, <1>1, AgedIs
<1>3. /\ DOMAIN begun = 1 .. Len(begun) /\ Len(begun) \in Nat /\ k \in Nat /\ k <= Len(begun)
      /\ \A i \in DOMAIN begun : begun[i] \in Nat
      /\ age \in Nat /\ left \in Nat /\ Last \in Nat /\ Window \in Nat /\ attempt \in Nat
  BY <1>0, BegunTyped, StartBounds DEF BackoffFollows
<1>4. /\ host' = host /\ attempt' = attempt
      /\ host = "waiting" => left > 0 /\ left' = left - 1
      /\ age' = (IF age < Window THEN age + 1 ELSE age)
  BY DEF StartupTick
<1>5. OnTime'
  <2>1. host = "waiting" => age' + left' <= Delay(attempt)
    <3> SUFFICES ASSUME host = "waiting" PROVE age' + left' <= Delay(attempt)
      OBVIOUS
    <3>1. age + left <= Delay(attempt) /\ attempt \in Nat \ {0}
      BY <1>0, <1>3 DEF Spacing, OnTime, BackoffFollows, Awake
    <3>2. Delay(attempt) \in Nat
      BY <3>1, DelayIs
    <3> QED
      BY <3>1, <3>2, <1>3, <1>4
  <2>2. ASSUME NEW i \in DOMAIN begun' PROVE begun'[i] + Last >= age'
    <3>1. begun[i + k] + Last >= age /\ begun[i + k] \in Nat /\ begun'[i] = begun[i + k] + 1
      BY <1>2, <1>3 DEF Spacing, OnTime
    <3> QED
      BY <3>1, <1>3, <1>4
  <2>3. host' = "waiting" => age' + left' <= Delay(attempt')
    BY <2>1, <1>4
  <2> QED
    BY <2>2, <2>3 DEF OnTime, Delay
(* The gap behind the run that comes to be the i-th.                       *)
<1>6. ASSUME NEW i \in Nat, {i, i + 1} \subseteq DOMAIN begun'
      PROVE  /\ i \in Nat \ {0} /\ i + k \in Nat /\ {i + k, (i + k) + 1} \subseteq DOMAIN begun
             /\ begun'[i] = begun[i + k] + 1 /\ begun'[i + 1] = begun[(i + k) + 1] + 1
             /\ begun[i + k] \in Nat /\ begun[(i + k) + 1] \in Nat
  <2>1. (i + 1) + k = (i + k) + 1 /\ i + k \in Nat /\ i \in Nat \ {0}
    BY <1>2, <1>3, <1>6
  <2>2. i + k \in DOMAIN begun /\ (i + 1) + k \in DOMAIN begun
    BY <1>2, <1>6
  <2>3. begun'[i] = begun[i + k] + 1 /\ begun'[i + 1] = begun[(i + 1) + k] + 1
    BY <1>2, <1>6
  <2>4. {i + k, (i + k) + 1} \subseteq DOMAIN begun
    BY <2>1, <2>2
  <2>5. begun'[i + 1] = begun[(i + k) + 1] + 1
    BY <2>1, <2>3
  <2>6. begun[i + k] \in Nat /\ begun[(i + k) + 1] \in Nat
    BY <2>4, <1>3
  <2> QED
    BY <2>1, <2>3, <2>4, <2>5, <2>6
<1>7. CASE Regular
  <2>1. ASSUME NEW i \in Nat, {i, i + 1} \subseteq DOMAIN begun'
        PROVE  begun'[i] >= begun'[i + 1] + Delay(i + 1)
    <3>1. begun[i + k] >= begun[(i + k) + 1] + Delay((i + k) + 1)
      BY <1>6, <1>7, <2>1 DEF Regular
    <3>2. /\ Delay(i + 1) <= Delay((i + k) + 1)
          /\ Delay(i + 1) \in Nat /\ Delay((i + k) + 1) \in Nat
      <4>1. i + 1 \in Nat \ {0} /\ (i + k) + 1 \in Nat \ {0} /\ i + 1 <= (i + k) + 1
        BY <1>3
      <4> QED
        BY <4>1, DelayGrows
    <3> QED
      BY <3>1, <3>2, <1>6, <2>1
  <2>2. attempt <= Len(Schedule) =>
          Len(begun') <= attempt /\ (host = "waiting" => Len(begun') < attempt)
    BY <1>2, <1>3, <1>7 DEF Regular
  <2>3. Regular'
    BY <2>1, <2>2, <1>4 DEF Regular, Delay
  <2> QED
    BY <2>3, <1>5 DEF Spacing
<1>8. CASE LeftOver /\ k = 0
  <2>1. Len(begun') = Len(begun) /\ \A i \in DOMAIN begun : begun'[i] = begun[i] + 1
    <3>1. \A i \in DOMAIN begun : i + k = i /\ i \in DOMAIN begun'
      BY <1>2, <1>3, <1>8
    <3> QED
      BY <3>1, <1>2, <1>3, <1>8
  <2>2. Len(begun') >= 1 => begun'[1] + Last >= Window
    <3> SUFFICES ASSUME Len(begun') >= 1 PROVE begun'[1] + Last >= Window
      OBVIOUS
    <3>1. 1 \in DOMAIN begun /\ begun[1] + Last >= Window
      BY <1>3, <1>8, <2>1 DEF LeftOver
    <3> QED
      BY <3>1, <2>1, <1>3
  <2>3. Len(begun') >= 2 => begun'[1] + Last >= begun'[2] + Window
    <3> SUFFICES ASSUME Len(begun') >= 2 PROVE begun'[1] + Last >= begun'[2] + Window
      OBVIOUS
    <3>1. 1 \in DOMAIN begun /\ 2 \in DOMAIN begun /\ begun[1] + Last >= begun[2] + Window
      BY <1>3, <1>8, <2>1 DEF LeftOver
    <3>2. begun'[1] = begun[1] + 1 /\ begun'[2] = begun[2] + 1 /\ begun[1] \in Nat /\ begun[2] \in Nat
      BY <3>1, <2>1, <1>3
    <3> QED
      BY <3>1, <3>2, <1>3
  <2>4. ASSUME NEW i \in Nat \ {0, 1}, {i, i + 1} \subseteq DOMAIN begun'
        PROVE  begun'[i] >= begun'[i + 1] + Delay(i)
    <3>1. {i, i + 1} \subseteq DOMAIN begun
      BY <2>4, <1>2, <1>3, <1>8
    <3>2. begun[i] >= begun[i + 1] + Delay(i) /\ Delay(i) \in Nat
      BY <3>1, <1>8, DelayIs DEF LeftOver
    <3> QED
      BY <3>1, <3>2, <2>1, <1>3
  <2>5. LeftOver'
    BY <2>2, <2>3, <2>4 DEF LeftOver, Last, Delay
  <2> QED
    BY <2>5, <1>5 DEF Spacing
<1>9. CASE LeftOver /\ k # 0
  <2>1. ASSUME NEW i \in Nat, {i, i + 1} \subseteq DOMAIN begun'
        PROVE  begun'[i] >= begun'[i + 1] + Delay(i + 1)
    <3>1. i + k \in Nat \ {0, 1}
      BY <1>3, <1>6, <1>9, <2>1
    <3>2. begun[i + k] >= begun[(i + k) + 1] + Delay(i + k)
      BY <3>1, <1>6, <1>9, <2>1 DEF LeftOver
    <3>3. /\ Delay(i + 1) <= Delay(i + k)
          /\ Delay(i + 1) \in Nat /\ Delay(i + k) \in Nat
      <4>1. i + 1 \in Nat \ {0} /\ i + k \in Nat \ {0} /\ i + 1 <= i + k
        BY <3>1, <1>3, <1>9
      <4> QED
        BY <4>1, DelayGrows
    <3> QED
      BY <3>2, <3>3, <1>6, <2>1
  <2>2. attempt <= Len(Schedule) =>
          Len(begun') <= attempt /\ (host = "waiting" => Len(begun') < attempt)
    BY <1>0, <1>2, <1>3, <1>9 DEF RunsFollow
  <2>3. Regular'
    BY <2>1, <2>2, <1>4 DEF Regular, Delay
  <2> QED
    BY <2>3, <1>5 DEF Spacing
<1> QED
  BY <1>7, <1>8, <1>9 DEF Spacing

LEMMA BeginKeepsSpacing ==
  ASSUME ScheduleGrows, StartupInv, Spacing, BackoffOver
  PROVE  Spacing'
<1>0. StartTyped /\ BackoffFollows /\ RunsFollow
  BY DEF StartupInv
<1> DEFINE n == Len(begun)
<1>1. /\ begun \in Seq(0 .. Window - 1) /\ DOMAIN begun = 1 .. n /\ n \in Nat
      /\ \A i \in DOMAIN begun : begun[i] \in Nat /\ begun[i] < Window
      /\ age \in Nat /\ attempt \in Nat /\ attempt <= Len(Schedule) + 1
  BY <1>0, BegunTyped
<1>2. /\ host = "waiting" /\ left = 0 /\ host' = "loading"
      /\ begun' = Append(begun, 0) /\ attempt' = attempt /\ age' = age
  BY DEF BackoffOver, breakerVars
<1>3. attempt \in Nat \ {0} /\ Len(Schedule) \in Nat /\ Last \in Nat /\ Window \in Nat
  BY <1>0, <1>1, <1>2, StartBounds DEF BackoffFollows, Awake
<1>4. /\ Len(begun') = n + 1 /\ DOMAIN begun' = 1 .. n + 1
      /\ \A i \in 1 .. n : begun'[i] = begun[i]
      /\ begun'[n + 1] = 0
  <2>1. 0 \in 0 .. Window - 1
    BY StartBounds
  <2>2. /\ Append(begun, 0) \in Seq(0 .. Window - 1) /\ Len(Append(begun, 0)) = n + 1
        /\ \A i \in 1 .. n : Append(begun, 0)[i] = begun[i]
        /\ Append(begun, 0)[n + 1] = 0
    BY <1>1, <2>1, AppendProperties
  <2> QED
    BY <2>2, <1>2, LenProperties
<1>5. Delay(attempt) \in Nat /\ Delay(attempt) <= Last
  <2>1. Delay(Len(Schedule)) = Last /\ Len(Schedule) \in Nat \ {0}
    BY StartBounds, DelayIs
  <2> QED
    BY <2>1, <1>3, DelayGrows
<1>6. age <= Delay(attempt)
  BY <1>1, <1>2 DEF Spacing, OnTime
<1>7. OnTime'
  <2>1. ASSUME NEW i \in 1 .. n + 1 PROVE begun'[i] + Last >= age
    <3>1. CASE i = n + 1
      BY <3>1, <1>1, <1>3, <1>4, <1>5, <1>6
    <3>2. CASE i # n + 1
      <4>1. i \in 1 .. n
        BY <3>2, <1>1
      <4> QED
        BY <4>1, <1>1, <1>4 DEF Spacing, OnTime
    <3> QED
      BY <3>1, <3>2
  <2> QED
    BY <2>1, <1>2, <1>4 DEF OnTime, Last
(* The last run is a whole delay behind.                                   *)
<1>8. ASSUME n >= 1 PROVE begun[n] >= Delay(attempt) /\ begun[n] \in Nat
  <2>1. n \in DOMAIN begun
    BY <1>1, <1>8
  <2>2. begun[n] >= age /\ begun[n] \in Nat /\ begun[n] < Window
    BY <2>1, <1>0, <1>1, <1>2 DEF RunsFollow
  <2>3. age >= Window \/ age + 0 >= Delay(attempt)
    BY <1>0, <1>2 DEF BackoffFollows
  <2> QED
    BY <2>2, <2>3, <1>1, <1>3, <1>5
<1>9. CASE n = 0
  <2>1. \A i \in Nat : ~({i, i + 1} \subseteq DOMAIN begun')
    BY <1>4, <1>9
  <2>2. Regular'
    BY <2>1, <1>2, <1>3, <1>4, <1>9 DEF Regular
  <2> QED
    BY <2>2, <1>7 DEF Spacing
<1> HIDE DEF n
<1>10. ASSUME NEW i \in Nat, {i, i + 1} \subseteq DOMAIN begun'
       PROVE  /\ i \in Nat \ {0} /\ begun'[i] = begun[i]
              /\ \/ i = n /\ begun'[i + 1] = 0
                 \/ i < n /\ begun'[i + 1] = begun[i + 1] /\ {i, i + 1} \subseteq DOMAIN begun
  <2>1. i \in 1 .. n /\ i \in Nat \ {0}
    <3>1. i \in 1 .. n + 1 /\ i + 1 \in 1 .. n + 1
      BY <1>4, <1>10
    <3> QED
      BY <3>1, <1>1
  <2>2. n \in Nat
    BY <1>1
  <2>3. i = n \/ (i < n /\ i + 1 \in 1 .. n)
    BY <2>1, <2>2
  <2> QED
    BY <2>1, <2>3, <1>1, <1>4
<1>11. CASE n # 0 /\ Regular
  <2>1. attempt <= Len(Schedule) => n < attempt
    BY <1>2, <1>11 DEF Regular, n
  <2>2. ASSUME NEW i \in Nat, {i, i + 1} \subseteq DOMAIN begun'
        PROVE  begun'[i] >= begun'[i + 1] + Delay(i + 1)
    <3>1. CASE i = n /\ begun'[i + 1] = 0
      <4>1. n + 1 \in Nat \ {0} /\ (n + 1 <= attempt \/ attempt >= Len(Schedule))
        BY <2>1, <1>1, <1>3
      <4>2. Delay(n + 1) <= Delay(attempt) /\ Delay(n + 1) \in Nat
        BY <4>1, <1>3, DelayGrows
      <4>3. begun[n] >= Delay(attempt) /\ begun[n] \in Nat
        BY <1>1, <1>8, <1>11
      <4>4. begun'[i] = begun[n]
        BY <3>1, <2>2, <1>10
      <4>5. begun[n] >= 0 + Delay(n + 1)
        BY <4>2, <4>3, <1>5
      <4> QED
        BY <3>1, <4>4, <4>5
    <3>2. CASE i < n /\ begun'[i + 1] = begun[i + 1] /\ {i, i + 1} \subseteq DOMAIN begun
      <4>1. begun[i] >= begun[i + 1] + Delay(i + 1)
        BY <3>2, <1>11 DEF Regular
      <4> QED
        BY <4>1, <3>2, <2>2, <1>10
    <3> QED
      BY <3>1, <3>2, <2>2, <1>10
  <2>3. attempt <= Len(Schedule) => n + 1 <= attempt
    BY <2>1, <1>1, <1>3
  <2>4. Regular'
    BY <2>2, <2>3, <1>2, <1>4 DEF Regular, Delay
  <2> QED
    BY <2>4, <1>7 DEF Spacing
<1>12. CASE n # 0 /\ LeftOver
  <2>1. 1 \in 1 .. n /\ n >= 1 /\ begun'[1] = begun[1] /\ begun[1] \in Nat /\ begun[1] + Last >= Window
    BY <1>1, <1>4, <1>12 DEF LeftOver, n
  <2>2. Len(begun') >= 2 => begun'[1] + Last >= begun'[2] + Window
    <3>1. CASE n = 1
      <4>1. begun'[2] = 0
        BY <3>1, <1>4
      <4> QED
        BY <4>1, <2>1, <1>3
    <3>2. CASE n # 1
      <4>1. 2 \in 1 .. n /\ Len(begun) >= 2
        BY <3>2, <2>1, <1>1 DEF n
      <4>2. begun'[2] = begun[2] /\ begun[1] + Last >= begun[2] + Window
        BY <4>1, <1>4, <1>12 DEF LeftOver
      <4> QED
        BY <4>2, <2>1
    <3> QED
      BY <3>1, <3>2
  <2>3. attempt <= Len(Schedule) => n <= attempt
    BY <1>0, <1>2 DEF RunsFollow, n
  <2>4. ASSUME NEW i \in Nat \ {0, 1}, {i, i + 1} \subseteq DOMAIN begun'
        PROVE  begun'[i] >= begun'[i + 1] + Delay(i)
    <3>1. CASE i = n /\ begun'[i + 1] = 0
      <4>1. n \in Nat \ {0} /\ (n <= attempt \/ attempt >= Len(Schedule))
        BY <2>3, <1>1, <1>3, <1>12
      <4>2. Delay(n) <= Delay(attempt) /\ Delay(n) \in Nat
        BY <4>1, <1>3, DelayGrows
      <4>3. begun[n] >= Delay(attempt) /\ begun[n] \in Nat
        BY <2>1, <1>8
      <4>4. begun'[i] = begun[n]
        BY <3>1, <2>4, <1>10
      <4>5. begun[n] >= 0 + Delay(n)
        BY <4>2, <4>3, <1>5
      <4> QED
        BY <3>1, <4>4, <4>5
    <3>2. CASE i < n /\ begun'[i + 1] = begun[i + 1] /\ {i, i + 1} \subseteq DOMAIN begun
      <4>1. begun[i] >= begun[i + 1] + Delay(i)
        BY <3>2, <1>12 DEF LeftOver
      <4> QED
        BY <4>1, <3>2, <2>4, <1>10
    <3> QED
      BY <3>1, <3>2, <2>4, <1>10
  <2>5. LeftOver'
    BY <2>1, <2>2, <2>4 DEF LeftOver, Last, Delay
  <2> QED
    BY <2>5, <1>7 DEF Spacing
<1> QED
  BY <1>9, <1>11, <1>12 DEF Spacing

(* A window without a start leaves one run at most, and that began with    *)
(* the delay of the start before.                                          *)
LEMMA StartKeepsSpacing ==
  ASSUME ScheduleGrows, StartupInv, Spacing, Start
  PROVE  Spacing'
<1>0. StartTyped /\ BackoffFollows /\ RunsFollow
  BY DEF StartupInv
<1>1. /\ DOMAIN begun = 1 .. Len(begun) /\ Len(begun) \in Nat
      /\ \A i \in DOMAIN begun : begun[i] \in Nat /\ begun[i] < Window
      /\ age \in Nat /\ age <= Window /\ attempt \in Nat /\ attempt <= Len(Schedule) + 1
      /\ Len(Schedule) \in Nat \ {0} /\ Last \in Nat /\ Window \in Nat
  BY <1>0, BegunTyped, StartBounds
<1>2. /\ host' = "waiting" /\ attempt' = Attempt /\ age' = 0 /\ left' = Delay(Attempt) /\ begun' = begun
  BY DEF Start
<1>3. Attempt \in Nat \ {0} /\ Delay(Attempt) \in Nat
  <2>1. Attempt \in Nat \ {0}
    BY <1>0, <1>1, AttemptIs
  <2> QED
    BY <2>1, DelayIs
<1>4. OnTime'
  <2>1. age' + left' <= Delay(attempt')
    BY <1>2, <1>3
  <2>2. \A i \in DOMAIN begun' : begun'[i] + Last >= age'
    BY <1>1, <1>2
  <2> QED
    BY <2>1, <2>2 DEF OnTime, Delay, Last
<1>5. CASE attempt = 0
  <2>1. Len(begun) = 0
    BY <1>0, <1>5 DEF RunsFollow
  <2>2. \A i \in Nat : ~({i, i + 1} \subseteq DOMAIN begun')
    BY <2>1, <1>1, <1>2
  <2>3. Len(begun') < attempt' /\ Len(begun') <= attempt'
    BY <2>1, <1>2, <1>3
  <2>4. Regular'
    BY <2>2, <2>3 DEF Regular
  <2> QED
    BY <2>4, <1>4 DEF Spacing
<1>6. CASE attempt # 0 /\ age >= Window
  <2>1. ~(1 \in DOMAIN begun /\ 1 < Len(begun))
    BY <1>0, <1>1, <1>6 DEF RunsFollow
  <2>2. Len(begun) <= 1
    BY <2>1, <1>1
  <2>3. Len(begun') >= 1 => begun'[1] + Last >= Window
    <3> SUFFICES ASSUME Len(begun') >= 1 PROVE begun'[1] + Last >= Window
      OBVIOUS
    <3>1. 1 \in DOMAIN begun
      BY <1>1, <1>2
    <3>2. begun[1] + Last >= age
      BY <3>1 DEF Spacing, OnTime
    <3> QED
      BY <3>1, <3>2, <1>1, <1>2, <1>6
  <2>4. \A i \in Nat \ {0, 1} : ~({i, i + 1} \subseteq DOMAIN begun')
    BY <2>2, <1>1, <1>2
  <2>5. ~(Len(begun') >= 2)
    BY <2>2, <1>1, <1>2
  <2>6. LeftOver'
    BY <2>3, <2>4, <2>5 DEF LeftOver, Last
  <2> QED
    BY <2>6, <1>4 DEF Spacing
<1>7. CASE attempt # 0 /\ age < Window
  <2>1. attempt <= Len(Schedule) => Attempt = attempt + 1
    BY <1>1, <1>7 DEF Attempt
  <2>2. ~(attempt <= Len(Schedule)) => Attempt = attempt
    BY <1>1, <1>7 DEF Attempt
  <2>3. CASE Regular
    <3>1. attempt' <= Len(Schedule) => Len(begun') < attempt' /\ Len(begun') <= attempt'
      BY <2>1, <2>2, <2>3, <1>1, <1>2 DEF Regular
    <3>2. \A i \in Nat : {i, i + 1} \subseteq DOMAIN begun' => begun'[i] >= begun'[i + 1] + Delay(i + 1)
      BY <2>3, <1>2 DEF Regular
    <3>3. Regular'
      BY <3>1, <3>2 DEF Regular, Delay
    <3> QED
      BY <3>3, <1>4 DEF Spacing
  <2>4. CASE LeftOver
    <3>1. LeftOver'
      BY <2>4, <1>2 DEF LeftOver, Last, Delay
    <3> QED
      BY <3>1, <1>4 DEF Spacing
  <2> QED
    BY <2>3, <2>4 DEF Spacing
<1> QED
  BY <1>1, <1>5, <1>6, <1>7

LEMMA SpacingFrame ==
  ASSUME StartupInv, Spacing, UNCHANGED <<attempt, age, begun>>, host' # "waiting" \/ UNCHANGED <<host, left>>
  PROVE  Spacing'
<1>1. OnTime'
  BY DEF Spacing, OnTime, Delay, Last
<1>2. ASSUME Regular PROVE Regular'
  <2>1. \A i \in Nat : {i, i + 1} \subseteq DOMAIN begun' => begun'[i] >= begun'[i + 1] + Delay(i + 1)
    BY <1>2 DEF Regular
  <2>2. attempt' <= Len(Schedule) =>
          Len(begun') <= attempt' /\ (host' = "waiting" => Len(begun') < attempt')
    BY <1>2 DEF Regular
  <2> QED
    BY <2>1, <2>2 DEF Regular, Delay
<1>3. ASSUME LeftOver PROVE LeftOver'
  BY <1>3 DEF LeftOver, Last, Delay
<1> QED
  BY <1>1, <1>2, <1>3 DEF Spacing

LEMMA SpacingStep ==
  ASSUME ScheduleGrows, StartupInv, Spacing, [StartupNext]_startupVars
  PROVE  Spacing'
<1>1. CASE Unhurt
  BY <1>1, SpacingFrame DEF Unhurt
<1>2. CASE Proceeds \/ EndsBadly
  <2>1. UNCHANGED <<attempt, age, begun>> /\ host' # "waiting"
    BY <1>2 DEF Proceeds, EndsBadly
  <2> QED
    BY <2>1, SpacingFrame
<1>3. CASE Forgiven
  <2>1. Len(begun') = 0 /\ DOMAIN begun' = {} /\ host' # "waiting" /\ attempt' = 0
    BY <1>3 DEF Forgiven
  <2> QED
    BY <2>1 DEF Spacing, Regular, OnTime
<1> QED
  BY <1>1, <1>2, <1>3, StepsAre, StartKeepsSpacing, TickKeepsSpacing, BeginKeepsSpacing DEF Steps

-----------------------------------------------------------------------------
(* As many runs as are one too many take longer than a window. *)

LEMMA LeastNat ==
  ASSUME NEW T, T \subseteq Nat, T # {}
  PROVE  \E a \in T : \A b \in T : a <= b
<1> DEFINE R == OpToRel(<, Nat)
<1>1. IsWellFoundedOn(R, Nat)
  BY NatLessThanWellFounded, Zenon
<1>2. \A x, y \in Nat : y < x => <<y, x>> \in R
  BY Zenon DEF OpToRel
<1> HIDE DEF R
<1>3. PICK a \in T : \A b \in T : ~(<<b, a>> \in R)
  BY <1>1, WFMin
<1>4. \A b \in T : ~(b < a)
  BY <1>2, <1>3
<1> QED
  BY <1>4

(* Runs that are each d[i] older than the next are as old as the sum.      *)
LEMMA GapsAddUp ==
  ASSUME NEW m \in Nat \ {0}, NEW runs \in [1 .. m -> Nat], NEW total \in [1 .. m -> Nat],
         NEW from \in 1 .. m,
         \A i \in from .. m - 1 : runs[i] + total[i] >= runs[i + 1] + total[i + 1]
  PROVE  \A j \in from .. m : runs[from] + total[from] >= runs[j] + total[j]
<1> DEFINE T == {j \in from .. m : ~(runs[from] + total[from] >= runs[j] + total[j])}
<1> SUFFICES ASSUME T # {} PROVE FALSE
  OBVIOUS
<1>1. PICK a \in T : \A b \in T : a <= b
  <2>1. T \subseteq Nat
    OBVIOUS
  <2> HIDE DEF T
  <2> QED
    BY <2>1, LeastNat
<1>2. a # from
  OBVIOUS
<1>3. PICK p \in from .. m - 1 : p + 1 = a /\ p \in from .. m /\ p \notin T
  <2>1. a - 1 \in from .. m - 1 /\ (a - 1) + 1 = a /\ a - 1 \in from .. m /\ ~(a <= a - 1)
    BY <1>1, <1>2
  <2> QED
    BY <1>1, <2>1
<1>4. runs[from] + total[from] >= runs[p] + total[p]
  BY <1>3
<1>5. runs[p] + total[p] >= runs[a] + total[a]
  BY <1>3
<1>6. /\ runs[from] \in Nat /\ runs[p] \in Nat /\ runs[a] \in Nat
      /\ total[from] \in Nat /\ total[p] \in Nat /\ total[a] \in Nat
  <2>1. p \in 1 .. m /\ a \in 1 .. m
    BY <1>3
  <2> QED
    BY <2>1
<1>7. runs[from] + total[from] >= runs[a] + total[a]
  BY <1>4, <1>5, <1>6
<1> QED
  BY <1>7

LEMMA InvRuns == LimitFitsWindow /\ StartupInv /\ Spacing => RunsBounded
<1> SUFFICES ASSUME LimitFitsWindow, StartupInv, Spacing, ~(Len(begun) <= RunLimit) PROVE FALSE
  BY DEF RunsBounded
<1>1. /\ DOMAIN begun = 1 .. Len(begun) /\ Len(begun) \in Nat
      /\ \A i \in DOMAIN begun : begun[i] \in Nat /\ begun[i] < Window
  BY BegunTyped DEF StartupInv
<1> DEFINE m == RunLimit + 1
<1>2. m \in Nat \ {0, 1} /\ 1 .. m \subseteq DOMAIN begun /\ RunLimit \in Nat \ {0}
      /\ Window \in Nat /\ Last \in Nat
  BY <1>1, StartBounds DEF LimitFitsWindow
<1>3. PICK total \in [1 .. m -> Nat] :
        /\ total[1] = 0 /\ \A i \in 1 .. RunLimit : total[i + 1] = total[i] + Delay(i + 1)
        /\ total[m] >= Window /\ total[RunLimit] >= Last
  BY DEF LimitFitsWindow
<1> DEFINE runs == [i \in 1 .. m |-> begun[i]]
<1>4. runs \in [1 .. m -> Nat] /\ \A i \in 1 .. m : runs[i] = begun[i]
  BY <1>1, <1>2
<1>5. 1 \in DOMAIN begun /\ begun[1] \in Nat /\ begun[1] < Window
  BY <1>1, <1>2
<1> HIDE DEF runs
<1>6. CASE Regular
  <2>1. ASSUME NEW i \in 1 .. m - 1 PROVE runs[i] + total[i] >= runs[i + 1] + total[i + 1]
    <3>1. i \in Nat /\ i \in 1 .. RunLimit /\ i \in 1 .. m /\ i + 1 \in 1 .. m
      BY <1>2
    <3>2. begun[i] >= begun[i + 1] + Delay(i + 1)
      BY <3>1, <1>2, <1>6 DEF Regular
    <3>3. total[i + 1] = total[i] + Delay(i + 1) /\ total[i] \in Nat /\ Delay(i + 1) \in Nat
      <4>1. i + 1 \in Nat \ {0}
        BY <3>1
      <4> HIDE DEF m
      <4> QED
        BY <4>1, <3>1, <1>3, DelayIs
    <3>4. begun[i] \in Nat /\ begun[i + 1] \in Nat /\ runs[i] = begun[i] /\ runs[i + 1] = begun[i + 1]
      BY <3>1, <1>1, <1>2, <1>4
    <3>5. begun[i] + total[i] >= begun[i + 1] + (total[i] + Delay(i + 1))
      BY <3>2, <3>3, <3>4
    <3> QED
      BY <3>3, <3>4, <3>5
  <2>2. 1 \in 1 .. m /\ m \in 1 .. m
    BY <1>2
  <2>3. runs[1] + total[1] >= runs[m] + total[m]
    <3>1. m \in Nat \ {0}
      BY <1>2
    <3> HIDE DEF m
    <3> QED
      BY <2>1, <2>2, <3>1, <1>3, <1>4, GapsAddUp
  <2>4. runs[1] = begun[1] /\ runs[m] \in Nat /\ total[m] \in Nat
    BY <2>2, <1>3, <1>4
  <2> QED
    BY <2>3, <2>4, <1>2, <1>3, <1>5
<1>7. CASE LeftOver
  <2> DEFINE less == [i \in 1 .. m |-> IF i = 1 THEN 0 ELSE total[i - 1]]
  <2>1. less \in [1 .. m -> Nat] /\ less[2] = 0 /\ less[m] = total[RunLimit]
    <3>1. \A i \in 1 .. m : i # 1 => i - 1 \in 1 .. m
      BY <1>2
    <3>2. m # 1 /\ m - 1 = RunLimit /\ m \in 1 .. m /\ 2 \in 1 .. m /\ 2 - 1 = 1
      BY <1>2
    <3> QED
      BY <3>1, <3>2, <1>3
  <2>2. ASSUME NEW i \in 2 .. m - 1 PROVE runs[i] + less[i] >= runs[i + 1] + less[i + 1]
    <3>1. /\ i \in Nat \ {0, 1} /\ i \in 1 .. m /\ i + 1 \in 1 .. m /\ i - 1 \in 1 .. RunLimit
          /\ (i - 1) + 1 = i /\ (i + 1) - 1 = i /\ i + 1 # 1
      BY <1>2
    <3>2. begun[i] >= begun[i + 1] + Delay(i)
      BY <3>1, <1>2, <1>7 DEF LeftOver
    <3>3. total[i] = total[i - 1] + Delay(i) /\ Delay(i) \in Nat /\ total[i - 1] \in Nat
      <4>1. total[(i - 1) + 1] = total[i - 1] + Delay((i - 1) + 1)
        BY <3>1, <1>3
      <4>2. i - 1 \in 1 .. m
        BY <3>1, <1>2
      <4> QED
        BY <4>1, <4>2, <3>1, <1>3, DelayIs
    <3>4. less[i] = total[i - 1] /\ less[i + 1] = total[i]
      BY <3>1
    <3>5. begun[i] \in Nat /\ begun[i + 1] \in Nat /\ runs[i] = begun[i] /\ runs[i + 1] = begun[i + 1]
      BY <3>1, <1>1, <1>2, <1>4
    <3>6. begun[i] + total[i - 1] >= begun[i + 1] + (total[i - 1] + Delay(i))
      BY <3>2, <3>3, <3>5
    <3> HIDE DEF less
    <3> QED
      BY <3>3, <3>4, <3>5, <3>6
  <2>3. 2 \in 1 .. m /\ m \in 2 .. m /\ 1 \in 1 .. m /\ Len(begun) >= 2
    BY <1>1, <1>2
  <2> HIDE DEF less
  <2>4. runs[2] + less[2] >= runs[m] + less[m]
    <3>1. m \in Nat \ {0}
      BY <1>2
    <3> HIDE DEF m
    <3> QED
      BY <2>1, <2>2, <2>3, <3>1, <1>4, GapsAddUp
  <2>5. begun[1] + Last >= begun[2] + Window
    BY <2>3, <1>7 DEF LeftOver
  <2>6. runs[2] = begun[2] /\ runs[m] \in Nat /\ begun[2] \in Nat
    BY <2>3, <1>1, <1>2, <1>4
  <2>7. total[RunLimit] \in Nat
    <3>1. RunLimit \in 1 .. m
      BY <1>2
    <3> QED
      BY <3>1, <1>3
  <2>8. begun[2] + 0 >= runs[m] + total[RunLimit]
    BY <2>1, <2>4, <2>6
  <2>9. begun[2] >= Last
    BY <2>6, <2>7, <2>8, <1>2, <1>3
  <2> QED
    BY <2>5, <2>6, <2>9, <1>2, <1>5
<1> QED
  BY <1>6, <1>7 DEF Spacing

LEMMA InvSafe == FirstUndelayed /\ LimitFitsWindow /\ StartupInv /\ Spacing => StartupSafe
BY InvTypeOK, InvNoTwins, InvDelay, InvRuns DEF StartupSafe

(* However the host crashes, at whatever point of its start: it is neither *)
(* started in a tight loop nor held back without need (getDelay), and the  *)
(* containers of an earlier process are gone before it starts its own      *)
(* (cleanupOrphans).                                                       *)
THEOREM StartupIsSafe ==
  ASSUME FirstUndelayed, ScheduleGrows, LimitFitsWindow
  PROVE  StartupSpec => []StartupSafe
<1>1. StartupInit => StartupInv /\ Spacing
  BY StartupBegins, SpacingBegins
<1>2. StartupInv /\ Spacing /\ [StartupNext]_startupVars => (StartupInv /\ Spacing)'
  BY StartupStep, SpacingStep
<1>3. StartupInv /\ Spacing => StartupSafe
  BY InvSafe
<1> QED
  BY <1>1, <1>2, <1>3, PTL DEF StartupSpec

-----------------------------------------------------------------------------
(***************************************************************************)
(* The migrations of the central database.                                 *)
(***************************************************************************)

(* What a migration that is recorded has left, whatever came after it.  The *)
(* titles of approvals are the one thing that an old database may lack     *)
(* although the migration that adds them now is recorded; the place of     *)
(* that migration in the list is the third.                                *)
Leaves(i) == List[i].adds \ (Legacy \cup (IF i = 3 THEN {"approval titles"} ELSE {}))

SchemaFollows ==
  /\ \A i \in DOMAIN List : List[i].name \in recorded => Leaves(i) \subseteq schema
  /\ "drop-pending-credentials" \in recorded => "pending_credentials" \notin schema
  /\ "engage-modes" \in recorded =>
       "trigger_rules" \notin schema /\ "initial-v2-schema" \in recorded
  /\ "trigger_rules" \in schema => "initial-v2-schema" \in recorded
  /\ "initial-v2-schema" \in recorded => chats
  /\ "new" \notin orphans

(* What is not recorded is before a runner, or it has not begun.           *)
NoneForgotten ==
  \A r \in Runners : \A i \in DOMAIN List :
    /\ runner[r] = "running" => List[i].name \in recorded \/ i \in todo[r]
    /\ runner[r] = "up" => List[i].name \in recorded

MigrationsInv == MigrationsTypeOK /\ OnceEach /\ SchemaFollows /\ NoneForgotten

-----------------------------------------------------------------------------
(* The list.  Nothing but the columns that engage modes replace and a      *)
(* table of a migration gone since is ever dropped.                        *)
Entry(m, i) ==
  /\ m.drops \subseteq Legacy \cup {"pending_credentials"}
  /\ "pending_credentials" \notin m.adds
  /\ "trigger_rules" \in m.adds => m.name = "initial-v2-schema"
  /\ m.name = "initial-v2-schema" => m.version = 1
  /\ m.name = "engage-modes" =>
       m.drops = Legacy /\ Legacy \subseteq m.needs /\ m.version = 10
  /\ m.name = "drop-pending-credentials" =>
       m.drops = {"pending_credentials"} /\ m.version = 9 /\ m.adds = {}
  /\ "approval titles" \in m.adds /\ i # 3 => m.version \notin 0 .. 6
  /\ m.version \in Nat

LEMMA ListIs ==
  /\ DOMAIN List = 1 .. 16
  /\ \A i \in DOMAIN List : Entry(List[i], i)
  /\ \A i, j \in DOMAIN List : List[i].name = List[j].name => i = j
  /\ List[1].name = "initial-v2-schema" /\ List[1].version = 1
  /\ List[6].adds = {"approval titles"}
  /\ List[9].name = "drop-pending-credentials" /\ List[10].name = "engage-modes"
<1>1. DOMAIN List = 1 .. 16
  BY DEF List
<1>2. List[1] = Migration001 /\ List[2] = Migration002
  BY SMTT(30) DEF List
<1>3. List[3] = PendingApprovals /\ List[4] = Destinations
  BY SMTT(30) DEF List
<1>4. List[5] = Migration017 /\ List[6] = TitleOptions
  BY SMTT(30) DEF List
<1>5. List[7] = Migration018 /\ List[8] = Migration008
  BY SMTT(30) DEF List
<1>6. List[9] = Migration009 /\ List[10] = Migration010
  BY SMTT(30) DEF List
<1>7. List[11] = Migration011 /\ List[12] = Migration012
  BY SMTT(30) DEF List
<1>8. List[13] = Migration013 /\ List[14] = Migration014
  BY SMTT(30) DEF List
<1>9. List[15] = Migration015 /\ List[16] = Migration016
  BY SMTT(30) DEF List
<1>10. Entry(List[1], 1) /\ List[1].name = "initial-v2-schema"
  <2> SUFFICES ASSUME NEW m, m = Migration001 PROVE Entry(m, 1) /\ m.name = "initial-v2-schema"
    BY <1>2
  <2>1. m.name = "initial-v2-schema" /\ m.version = 1
    BY DEF M, Migration001
  <2> QED
    BY <2>1 DEF Entry, M, Legacy, Migration001
<1>11. Entry(List[2], 2) /\ List[2].name = "chat-sdk-state"
  <2> SUFFICES ASSUME NEW m, m = Migration002 PROVE Entry(m, 2) /\ m.name = "chat-sdk-state"
    BY <1>2
  <2>1. m.name = "chat-sdk-state" /\ m.version = 2
    BY DEF M, Migration002
  <2> QED
    BY <2>1 DEF Entry, M, Legacy, Migration002
<1>12. Entry(List[3], 3) /\ List[3].name = "pending-approvals"
  <2> SUFFICES ASSUME NEW m, m = PendingApprovals PROVE Entry(m, 3) /\ m.name = "pending-approvals"
    BY <1>3
  <2>1. m.name = "pending-approvals" /\ m.version = 3
    BY DEF M, PendingApprovals
  <2> QED
    BY <2>1 DEF Entry, M, Legacy, PendingApprovals
<1>13. Entry(List[4], 4) /\ List[4].name = "agent-destinations"
  <2> SUFFICES ASSUME NEW m, m = Destinations PROVE Entry(m, 4) /\ m.name = "agent-destinations"
    BY <1>3
  <2>1. m.name = "agent-destinations" /\ m.version = 4
    BY DEF M, Destinations
  <2> QED
    BY <2>1 DEF Entry, M, Legacy, Destinations
<1>14. Entry(List[5], 5) /\ List[5].name = "agent-message-policies"
  <2> SUFFICES ASSUME NEW m, m = Migration017 PROVE Entry(m, 5) /\ m.name = "agent-message-policies"
    BY <1>4
  <2>1. m.name = "agent-message-policies" /\ m.version = 17
    BY DEF M, Migration017
  <2> QED
    BY <2>1 DEF Entry, M, Legacy, Migration017
<1>15. Entry(List[6], 6) /\ List[6].name = "pending-approvals-title-options"
  <2> SUFFICES ASSUME NEW m, m = TitleOptions PROVE Entry(m, 6) /\ m.name = "pending-approvals-title-options"
    BY <1>4
  <2>1. m.name = "pending-approvals-title-options" /\ m.version = 7
    BY DEF M, TitleOptions
  <2>2. m.drops = {} /\ m.adds = {"approval titles"}
    BY DEF M, TitleOptions
  <2>3. /\ m.drops \subseteq Legacy \cup {"pending_credentials"} /\ "pending_credentials" \notin m.adds
        /\ "trigger_rules" \notin m.adds
    BY <2>2
  <2>4. m.version \in Nat /\ m.version \notin 0 .. 6
    BY <2>1
  <2>5. /\ m.name # "initial-v2-schema" /\ m.name # "engage-modes"
        /\ m.name # "drop-pending-credentials"
    BY <2>1
  <2> QED
    BY <2>1, <2>3, <2>4, <2>5 DEF Entry
<1>16. Entry(List[7], 7) /\ List[7].name = "approvals-approver-user-id"
  <2> SUFFICES ASSUME NEW m, m = Migration018 PROVE Entry(m, 7) /\ m.name = "approvals-approver-user-id"
    BY <1>5
  <2>1. m.name = "approvals-approver-user-id" /\ m.version = 18
    BY DEF M, Migration018
  <2> QED
    BY <2>1 DEF Entry, M, Legacy, Migration018
<1>17. Entry(List[8], 8) /\ List[8].name = "dropped-messages"
  <2> SUFFICES ASSUME NEW m, m = Migration008 PROVE Entry(m, 8) /\ m.name = "dropped-messages"
    BY <1>5
  <2>1. m.name = "dropped-messages" /\ m.version = 8
    BY DEF M, Migration008
  <2> QED
    BY <2>1 DEF Entry, M, Legacy, Migration008
<1>18. Entry(List[9], 9) /\ List[9].name = "drop-pending-credentials"
  <2> SUFFICES ASSUME NEW m, m = Migration009 PROVE Entry(m, 9) /\ m.name = "drop-pending-credentials"
    BY <1>6
  <2>1. m.name = "drop-pending-credentials" /\ m.version = 9
    BY DEF M, Migration009
  <2> QED
    BY <2>1 DEF Entry, M, Legacy, Migration009
<1>19. Entry(List[10], 10) /\ List[10].name = "engage-modes"
  <2> SUFFICES ASSUME NEW m, m = Migration010 PROVE Entry(m, 10) /\ m.name = "engage-modes"
    BY <1>6
  <2>1. m.name = "engage-modes" /\ m.version = 10
    BY DEF M, Migration010
  <2> QED
    BY <2>1 DEF Entry, M, Legacy, Migration010
<1>20. Entry(List[11], 11) /\ List[11].name = "pending-sender-approvals"
  <2> SUFFICES ASSUME NEW m, m = Migration011 PROVE Entry(m, 11) /\ m.name = "pending-sender-approvals"
    BY <1>7
  <2>1. m.name = "pending-sender-approvals" /\ m.version = 11
    BY DEF M, Migration011
  <2> QED
    BY <2>1 DEF Entry, M, Legacy, Migration011
<1>21. Entry(List[12], 12) /\ List[12].name = "channel-registration"
  <2> SUFFICES ASSUME NEW m, m = Migration012 PROVE Entry(m, 12) /\ m.name = "channel-registration"
    BY <1>7
  <2>1. m.name = "channel-registration" /\ m.version = 12
    BY DEF M, Migration012
  <2> QED
    BY <2>1 DEF Entry, M, Legacy, Migration012
<1>22. Entry(List[13], 13) /\ List[13].name = "approval-render-metadata"
  <2> SUFFICES ASSUME NEW m, m = Migration013 PROVE Entry(m, 13) /\ m.name = "approval-render-metadata"
    BY <1>8
  <2>1. m.name = "approval-render-metadata" /\ m.version = 13
    BY DEF M, Migration013
  <2> QED
    BY <2>1 DEF Entry, M, Legacy, Migration013
<1>23. Entry(List[14], 14) /\ List[14].name = "container-configs"
  <2> SUFFICES ASSUME NEW m, m = Migration014 PROVE Entry(m, 14) /\ m.name = "container-configs"
    BY <1>8
  <2>1. m.name = "container-configs" /\ m.version = 14
    BY DEF M, Migration014
  <2> QED
    BY <2>1 DEF Entry, M, Legacy, Migration014
<1>24. Entry(List[15], 15) /\ List[15].name = "cli-scope"
  <2> SUFFICES ASSUME NEW m, m = Migration015 PROVE Entry(m, 15) /\ m.name = "cli-scope"
    BY <1>9
  <2>1. m.name = "cli-scope" /\ m.version = 15
    BY DEF M, Migration015
  <2> QED
    BY <2>1 DEF Entry, M, Legacy, Migration015
<1>25. Entry(List[16], 16) /\ List[16].name = "messaging-group-instance"
  <2> SUFFICES ASSUME NEW m, m = Migration016 PROVE Entry(m, 16) /\ m.name = "messaging-group-instance"
    BY <1>9
  <2>1. m.name = "messaging-group-instance" /\ m.version = 16
    BY DEF M, Migration016
  <2> QED
    BY <2>1 DEF Entry, M, Legacy, Migration016
<1>26. ASSUME NEW i \in DOMAIN List PROVE Entry(List[i], i)
  <2>1. \/ i = 1 \/ i = 2 \/ i = 3 \/ i = 4 \/ i = 5 \/ i = 6 \/ i = 7 \/ i = 8
        \/ i = 9 \/ i = 10 \/ i = 11 \/ i = 12 \/ i = 13 \/ i = 14 \/ i = 15 \/ i = 16
    BY <1>1
  <2> QED
    BY <2>1, <1>10, <1>11, <1>12, <1>13, <1>14, <1>15, <1>16, <1>17, <1>18, <1>19, <1>20, <1>21, <1>22, <1>23, <1>24, <1>25
<1>27. ASSUME NEW i \in DOMAIN List, NEW j \in DOMAIN List, List[i].name = List[j].name PROVE i = j
  <2>1. i \in 1 .. 16 /\ j \in 1 .. 16
    BY <1>1
  <2>2. i = 1 \/ i = 2 \/ i = 3 \/ i = 4 \/ i = 5 \/ i = 6 \/ i = 7 \/ i = 8
        \/ i = 9 \/ i = 10 \/ i = 11 \/ i = 12 \/ i = 13 \/ i = 14 \/ i = 15 \/ i = 16
    BY <2>1
  <2>3. CASE i = 1
    BY <2>1, <2>3, <1>27, <1>10, <1>11, <1>12, <1>13, <1>14, <1>15, <1>16, <1>17, <1>18, <1>19, <1>20, <1>21, <1>22, <1>23, <1>24, <1>25
  <2>4. CASE i = 2
    BY <2>1, <2>4, <1>27, <1>10, <1>11, <1>12, <1>13, <1>14, <1>15, <1>16, <1>17, <1>18, <1>19, <1>20, <1>21, <1>22, <1>23, <1>24, <1>25
  <2>5. CASE i = 3
    BY <2>1, <2>5, <1>27, <1>10, <1>11, <1>12, <1>13, <1>14, <1>15, <1>16, <1>17, <1>18, <1>19, <1>20, <1>21, <1>22, <1>23, <1>24, <1>25
  <2>6. CASE i = 4
    BY <2>1, <2>6, <1>27, <1>10, <1>11, <1>12, <1>13, <1>14, <1>15, <1>16, <1>17, <1>18, <1>19, <1>20, <1>21, <1>22, <1>23, <1>24, <1>25
  <2>7. CASE i = 5
    BY <2>1, <2>7, <1>27, <1>10, <1>11, <1>12, <1>13, <1>14, <1>15, <1>16, <1>17, <1>18, <1>19, <1>20, <1>21, <1>22, <1>23, <1>24, <1>25
  <2>8. CASE i = 6
    BY <2>1, <2>8, <1>27, <1>10, <1>11, <1>12, <1>13, <1>14, <1>15, <1>16, <1>17, <1>18, <1>19, <1>20, <1>21, <1>22, <1>23, <1>24, <1>25
  <2>9. CASE i = 7
    BY <2>1, <2>9, <1>27, <1>10, <1>11, <1>12, <1>13, <1>14, <1>15, <1>16, <1>17, <1>18, <1>19, <1>20, <1>21, <1>22, <1>23, <1>24, <1>25
  <2>10. CASE i = 8
    BY <2>1, <2>10, <1>27, <1>10, <1>11, <1>12, <1>13, <1>14, <1>15, <1>16, <1>17, <1>18, <1>19, <1>20, <1>21, <1>22, <1>23, <1>24, <1>25
  <2>11. CASE i = 9
    BY <2>1, <2>11, <1>27, <1>10, <1>11, <1>12, <1>13, <1>14, <1>15, <1>16, <1>17, <1>18, <1>19, <1>20, <1>21, <1>22, <1>23, <1>24, <1>25
  <2>12. CASE i = 10
    BY <2>1, <2>12, <1>27, <1>10, <1>11, <1>12, <1>13, <1>14, <1>15, <1>16, <1>17, <1>18, <1>19, <1>20, <1>21, <1>22, <1>23, <1>24, <1>25
  <2>13. CASE i = 11
    BY <2>1, <2>13, <1>27, <1>10, <1>11, <1>12, <1>13, <1>14, <1>15, <1>16, <1>17, <1>18, <1>19, <1>20, <1>21, <1>22, <1>23, <1>24, <1>25
  <2>14. CASE i = 12
    BY <2>1, <2>14, <1>27, <1>10, <1>11, <1>12, <1>13, <1>14, <1>15, <1>16, <1>17, <1>18, <1>19, <1>20, <1>21, <1>22, <1>23, <1>24, <1>25
  <2>15. CASE i = 13
    BY <2>1, <2>15, <1>27, <1>10, <1>11, <1>12, <1>13, <1>14, <1>15, <1>16, <1>17, <1>18, <1>19, <1>20, <1>21, <1>22, <1>23, <1>24, <1>25
  <2>16. CASE i = 14
    BY <2>1, <2>16, <1>27, <1>10, <1>11, <1>12, <1>13, <1>14, <1>15, <1>16, <1>17, <1>18, <1>19, <1>20, <1>21, <1>22, <1>23, <1>24, <1>25
  <2>17. CASE i = 15
    BY <2>1, <2>17, <1>27, <1>10, <1>11, <1>12, <1>13, <1>14, <1>15, <1>16, <1>17, <1>18, <1>19, <1>20, <1>21, <1>22, <1>23, <1>24, <1>25
  <2>18. CASE i = 16
    BY <2>1, <2>18, <1>27, <1>10, <1>11, <1>12, <1>13, <1>14, <1>15, <1>16, <1>17, <1>18, <1>19, <1>20, <1>21, <1>22, <1>23, <1>24, <1>25
  <2> QED
    BY <2>2, <2>3, <2>4, <2>5, <2>6, <2>7, <2>8, <2>9, <2>10, <2>11, <2>12, <2>13, <2>14, <2>15, <2>16, <2>17, <2>18
<1>28. List[1].version = 1 /\ List[6].adds = {"approval titles"}
  <2>1. ASSUME NEW m, m = TitleOptions PROVE m.adds = {"approval titles"}
    BY <2>1 DEF M, TitleOptions
  <2>2. List[1].version = 1
    BY <1>2 DEF M, Migration001
  <2> QED
    BY <2>1, <2>2, <1>4
<1> QED
  BY <1>1, <1>26, <1>27, <1>28, <1>10, <1>18, <1>19

(* What names an entry of the list.                                        *)
LEMMA OfNames ==
  /\ \A i \in DOMAIN List : List[i].name \in Names
  /\ \A m \in Names : \E i \in DOMAIN List : List[i].name = m
BY DEF Names

LEMMA AddedBy ==
  ASSUME NEW S
  PROVE  \A x : x \in UNION {List[i].adds : i \in S} <=> \E i \in S : x \in List[i].adds
OBVIOUS

LEMMA DroppedBy ==
  ASSUME NEW S
  PROVE  \A x : x \in UNION {List[i].drops : i \in S} <=> \E i \in S : x \in List[i].drops
OBVIOUS

(* The facts of the list, one by one.                                      *)
LEMMA Entries ==
  /\ 1 \in DOMAIN List /\ 6 \in DOMAIN List /\ 9 \in DOMAIN List /\ 10 \in DOMAIN List
  /\ \A i \in DOMAIN List : List[i].version \in Nat
  /\ \A i \in DOMAIN List : List[i].drops \subseteq Legacy \cup {"pending_credentials"}
  /\ \A i \in DOMAIN List : "pending_credentials" \notin List[i].adds
  /\ \A i \in DOMAIN List :
       "trigger_rules" \in List[i].adds => List[i].name = "initial-v2-schema"
  /\ \A i \in DOMAIN List :
       "approval titles" \in List[i].adds /\ i # 3 => List[i].version \notin 0 .. 6
  /\ List[1].version = 1 /\ List[9].version = 9 /\ List[10].version = 10
  /\ List[10].drops = Legacy /\ Legacy \subseteq List[10].needs
  /\ List[9].drops = {"pending_credentials"}
<1>0. DOMAIN List = 1 .. 16
  BY ListIs
<1>1. 1 \in DOMAIN List /\ 6 \in DOMAIN List /\ 9 \in DOMAIN List /\ 10 \in DOMAIN List
  BY <1>0
<1>2. \A i \in DOMAIN List : Entry(List[i], i)
  BY ListIs
<1>3. List[9].version = 9 /\ List[9].drops = {"pending_credentials"}
  BY <1>1, <1>2, ListIs DEF Entry
<1>4. List[10].version = 10 /\ List[10].drops = Legacy /\ Legacy \subseteq List[10].needs
  BY <1>1, <1>2, ListIs DEF Entry
<1>5. ASSUME NEW i \in DOMAIN List
      PROVE  /\ List[i].version \in Nat
             /\ List[i].drops \subseteq Legacy \cup {"pending_credentials"}
             /\ "pending_credentials" \notin List[i].adds
             /\ "trigger_rules" \in List[i].adds => List[i].name = "initial-v2-schema"
             /\ "approval titles" \in List[i].adds /\ i # 3 => List[i].version \notin 0 .. 6
  BY <1>2 DEF Entry
<1> QED
  BY <1>1, <1>3, <1>4, <1>5, ListIs

LEMMA FullSchemaIs ==
  /\ \A x : x \in FullSchema <=> (x \notin Legacy /\ \E i \in DOMAIN List : x \in List[i].adds)
  /\ "pending_credentials" \notin FullSchema
<1>1. \A x : x \in FullSchema <=> (x \notin Legacy /\ \E i \in DOMAIN List : x \in List[i].adds)
  <2> DEFINE A == UNION {List[i].adds : i \in DOMAIN List}
  <2>1. FullSchema = A \ Legacy
    BY DEF FullSchema
  <2>2. \A x : x \in A <=> \E i \in DOMAIN List : x \in List[i].adds
    BY AddedBy
  <2> HIDE DEF A
  <2> QED
    BY <2>1, <2>2, Zenon
<1>2. \A i \in DOMAIN List : "pending_credentials" \notin List[i].adds
  BY Entries
<1> QED
  BY <1>1, <1>2

-----------------------------------------------------------------------------
(* The database of an earlier version: what its migrations added, what     *)
(* they dropped.                                                           *)
Added(n) == UNION {List[i].adds : i \in Upto(n)}

Dropped(n) == UNION {List[i].drops : i \in Upto(n)}

LEMMA AddedIs ==
  ASSUME NEW n
  PROVE  /\ \A x : x \in Added(n) <=> \E i \in Upto(n) : x \in List[i].adds
         /\ \A x : x \in Dropped(n) <=> \E i \in Upto(n) : x \in List[i].drops
<1>1. \A x : x \in Added(n) <=> \E i \in Upto(n) : x \in List[i].adds
  BY AddedBy DEF Added
<1>2. \A x : x \in Dropped(n) <=> \E i \in Upto(n) : x \in List[i].drops
  BY DroppedBy DEF Dropped
<1> QED
  BY <1>1, <1>2

LEMMA OldSchemaIs ==
  ASSUME NEW n \in 0 .. 18
  PROVE  \A x : x \in OldSchema(n) <=>
           \/ x \in Added(n) /\ x \notin Dropped(n) /\ ~(n < 7 /\ x = "approval titles")
           \/ n \in 5 .. 8 /\ x = "pending_credentials"
<1>1. OldSchema(n) =
        (Added(n) \ (Dropped(n) \cup (IF n < 7 THEN {"approval titles"} ELSE {})))
        \cup (IF n \in 5 .. 8 THEN {"pending_credentials"} ELSE {})
  BY DEF OldSchema, Added, Dropped
<1> QED
  BY <1>1

LEMMA UptoIs ==
  ASSUME NEW n \in 0 .. 18
  PROVE  /\ Upto(n) \subseteq DOMAIN List
         /\ \A i \in DOMAIN List : i \in Upto(n) <=> List[i].version <= n
BY DEF Upto

LEMMA MigrationsStart == MigrationsInit => MigrationsInv
<1> SUFFICES ASSUME MigrationsInit PROVE MigrationsInv
  OBVIOUS
<1>1. PICK n \in 0 .. 18 :
        /\ schema = OldSchema(n)
        /\ recorded = {List[i].name : i \in Upto(n)}
        /\ chats = (n >= 1)
        /\ orphans \in IF n >= 1 THEN {{}, {"old"}} ELSE {{}}
  BY DEF MigrationsInit
<1>2. \A i \in DOMAIN List : List[i].name \in recorded <=> i \in Upto(n)
  BY <1>1, ListIs, UptoIs
<1>3. recorded \subseteq Names
  BY <1>1, UptoIs, OfNames
<1>4. /\ 1 \in DOMAIN List /\ 9 \in DOMAIN List /\ 10 \in DOMAIN List
  BY Entries
<1>5. schema \subseteq FullSchema \cup Legacy \cup {"pending_credentials"}
  BY <1>1, OldSchemaIs, AddedIs, UptoIs, FullSchemaIs
<1>6. orphans \subseteq {"old"}
  <2>1. CASE n >= 1
    BY <1>1, <2>1
  <2>2. CASE ~(n >= 1)
    BY <1>1, <2>2
  <2> QED
    BY <2>1, <2>2
<1>7. chats \in BOOLEAN
  <2>1. (n >= 1) \in BOOLEAN
    OBVIOUS
  <2> QED
    BY <2>1, <1>1, Zenon
<1>8. ran \in [Names -> Nat] /\ recorded = {m \in Names : ran[m] > 0} /\ OnceEach
  <2>1. ran = [m \in Names |-> IF m \in recorded THEN 1 ELSE 0]
    BY DEF MigrationsInit
  <2>2. \A m \in Names : ran[m] = (IF m \in recorded THEN 1 ELSE 0)
    BY <2>1, Zenon
  <2>3. \A m \in Names : (m \in recorded <=> ran[m] > 0) /\ ran[m] <= 1 /\ ran[m] \in Nat
    BY <2>2
  <2> QED
    BY <2>1, <2>3, <1>3 DEF OnceEach
<1>12. \A x : x \in schema <=>
           \/ x \in Added(n) /\ x \notin Dropped(n) /\ ~(n < 7 /\ x = "approval titles")
           \/ n \in 5 .. 8 /\ x = "pending_credentials"
  BY <1>1, OldSchemaIs, Zenon
<1>13. "trigger_rules" \in schema => "trigger_rules" \in Added(n) /\ "trigger_rules" \notin Dropped(n)
  <2>1. ASSUME NEW x, x \in schema, x # "pending_credentials" PROVE x \in Added(n)
    BY <2>1, <1>12
  <2>2. ASSUME NEW x, x \in schema, x # "pending_credentials" PROVE x \notin Dropped(n)
    BY <2>2, <1>12
  <2>3. "trigger_rules" # "pending_credentials"
    OBVIOUS
  <2> QED
    BY <2>1, <2>2, <2>3, Zenon
<1>9. MigrationsTypeOK
  <2>1. /\ todo \in [Runners -> SUBSET DOMAIN List]
        /\ runner \in [Runners -> {"off", "running", "up"}]
        /\ faults \in 0 .. MaxFaults
    BY FaultBound DEF MigrationsInit
  <2> QED
    BY <2>1, <1>3, <1>5, <1>6, <1>7, <1>8 DEF MigrationsTypeOK
<1>10. NoneForgotten
  BY DEF NoneForgotten, MigrationsInit
<1>11. SchemaFollows
  <2>1. ASSUME NEW i \in DOMAIN List, List[i].name \in recorded, NEW x \in Leaves(i) PROVE x \in schema
    <3>1. i \in Upto(n) /\ x \in List[i].adds /\ x \notin Legacy
      BY <2>1, <1>2 DEF Leaves
    <3>2. x # "pending_credentials"
      BY <3>1, Entries
    <3>3. \A j \in Upto(n) : x \notin List[j].drops
      BY <3>1, <3>2, Entries, UptoIs
    <3>4. ASSUME n < 7, x = "approval titles" PROVE FALSE
      <4>1. i # 3
        BY <3>4, <2>1 DEF Leaves
      <4>2. List[i].version \notin 0 .. 6
        BY <4>1, <3>4, <3>1, Entries
      <4>3. List[i].version <= n
        BY <3>1, UptoIs
      <4>4. List[i].version \in Nat
        BY Entries
      <4> HIDE DEF List
      <4>5. \A v \in Nat : v <= n /\ n < 7 => v \in 0 .. 6
        OBVIOUS
      <4> QED
        BY <4>2, <4>3, <4>4, <4>5, <3>4
    <3> QED
      BY <3>1, <3>3, <3>4, <1>12, AddedIs
  <2>2. ASSUME "drop-pending-credentials" \in recorded PROVE "pending_credentials" \notin schema
    <3>1. 9 \in Upto(n) /\ List[9].version = 9
      BY <2>2, <1>2, <1>4, ListIs, Entries
    <3>2. n >= 9
      BY <3>1, <1>4, Entries, UptoIs
    <3>3. \A i \in Upto(n) : "pending_credentials" \notin List[i].adds
      BY Entries, UptoIs
    <3>4. n \notin 5 .. 8
      BY <3>2
    <3> QED
      BY <3>3, <3>4, <1>12, AddedIs
  <2>3. 1 \in Upto(n) <=> "initial-v2-schema" \in recorded
    BY <1>2, <1>4, ListIs
  <2>4. 1 \in Upto(n) <=> n >= 1
    BY <1>4, Entries, UptoIs
  <2>5. ASSUME "engage-modes" \in recorded PROVE "trigger_rules" \notin schema /\ n >= 1
    <3>1. 10 \in Upto(n) /\ List[10].version = 10 /\ List[10].drops = Legacy
      BY <2>5, <1>2, <1>4, ListIs, Entries
    <3>2. n >= 10
      BY <3>1, <1>4, Entries, UptoIs
    <3>3. "trigger_rules" \in List[10].drops
      BY <3>1 DEF Legacy
    <3>4. "trigger_rules" \in Dropped(n)
      BY <3>1, <3>3, AddedIs
    <3>5. n >= 1
      BY <3>2
    <3> QED
      BY <3>4, <3>5, <1>13
  <2>6. ASSUME "trigger_rules" \in schema PROVE "initial-v2-schema" \in recorded
    <3>1. PICK i \in Upto(n) : "trigger_rules" \in List[i].adds
      BY <2>6, <1>13, AddedIs
    <3>2. i \in DOMAIN List
      BY UptoIs
    <3>3. List[i].name = "initial-v2-schema"
      BY <3>1, <3>2, Entries
    <3> QED
      BY <3>2, <3>3, <1>2
  <2> QED
    BY <2>1, <2>2, <2>3, <2>4, <2>5, <2>6, <1>1, <1>6 DEF SchemaFollows
<1> QED
  BY <1>8, <1>9, <1>10, <1>11 DEF MigrationsInv

-----------------------------------------------------------------------------
(* A migration that takes effect was not recorded, and keeps what the      *)
(* schema follows from.                                                    *)
LEMMA MigrationRuns ==
  ASSUME MigrationsInv, NEW r \in Runners, Run(r)
  PROVE  MigrationsInv'
<1>1. PICK k \in DOMAIN List :
        /\ Upcoming(r, k) /\ ~RolledBack(List[k]) /\ TakesEffect(List[k])
        /\ recorded' = recorded \cup {List[k].name}
        /\ todo' = [todo EXCEPT ![r] = @ \ {k}]
        /\ UNCHANGED <<runner, faults>>
  BY DEF Run
<1> DEFINE m == List[k].name
<1>2. m \notin recorded /\ m \in Names
  BY <1>1, OfNames DEF RolledBack
<1>3. List[k].needs \subseteq schema
  BY <1>1 DEF RolledBack, Throws
<1>4. /\ schema' = (schema \cup List[k].adds) \ List[k].drops
      /\ chats' = (chats \/ m = "initial-v2-schema")
      /\ ran' = [ran EXCEPT ![m] = @ + 1]
      /\ orphans' = orphans
  BY <1>1 DEF TakesEffect
<1>5. /\ schema \subseteq FullSchema \cup Legacy \cup {"pending_credentials"}
      /\ recorded \subseteq Names /\ chats \in BOOLEAN /\ orphans \subseteq {"old", "new"}
      /\ todo \in [Runners -> SUBSET DOMAIN List]
      /\ runner \in [Runners -> {"off", "running", "up"}]
      /\ ran \in [Names -> Nat] /\ recorded = {x \in Names : ran[x] > 0}
      /\ faults \in 0 .. MaxFaults
      /\ \A x \in Names : ran[x] <= 1
  BY DEF MigrationsInv, MigrationsTypeOK, OnceEach
<1>6. MigrationsTypeOK' /\ OnceEach'
  <2>1. ran[m] = 0
    BY <1>2, <1>5
  <2>2. \A x \in Names : ran'[x] = IF x = m THEN 1 ELSE ran[x]
    BY <1>2, <1>4, <1>5, <2>1
  <2>3. ran' \in [Names -> Nat]
    BY <1>2, <1>4, <1>5, <2>1
  <2>4. recorded' = {x \in Names : ran'[x] > 0}
    <3>1. \A x \in Names : ran'[x] > 0 <=> (x = m \/ ran[x] > 0)
      BY <2>2
    <3>2. \A x : x \in recorded' <=> x \in Names /\ (x = m \/ ran[x] > 0)
      BY <1>1, <1>2, <1>5
    <3> QED
      BY <3>1, <3>2, Zenon
  <2>5. OnceEach'
    BY <2>2, <1>5 DEF OnceEach
  <2>6. schema' \subseteq FullSchema \cup Legacy \cup {"pending_credentials"}
    <3>1. List[k].adds \subseteq FullSchema \cup Legacy
      BY FullSchemaIs
    <3> QED
      BY <3>1, <1>4, <1>5
  <2>7. chats' \in BOOLEAN
    BY <1>4, Zenon
  <2>8. todo' \in [Runners -> SUBSET DOMAIN List]
    BY <1>1, <1>5
  <2> QED
    BY <2>3, <2>4, <2>5, <2>6, <2>7, <2>8, <1>1, <1>2, <1>4, <1>5 DEF MigrationsTypeOK
<1>7. SchemaFollows'
  <2>0. SchemaFollows
    BY DEF MigrationsInv
  <2>1. ASSUME NEW i \in DOMAIN List, List[i].name \in recorded', NEW x \in Leaves(i) PROVE x \in schema'
    <3>1. x \in List[i].adds /\ x \notin Legacy
      BY <2>1 DEF Leaves
    <3>2. x # "pending_credentials"
      BY <3>1, Entries
    <3>3. x \notin List[k].drops
      BY <3>1, <3>2, Entries
    <3>4. CASE i = k
      BY <3>1, <3>3, <3>4, <1>4
    <3>5. CASE i # k
      <4>1. List[i].name # m
        BY <3>5, ListIs
      <4>2. List[i].name \in recorded
        BY <4>1, <2>1, <1>1
      <4>3. x \in schema
        BY <4>2, <2>0, <2>1 DEF SchemaFollows
      <4> QED
        BY <4>3, <3>3, <1>4
    <3> QED
      BY <3>4, <3>5
  <2>2. ASSUME "drop-pending-credentials" \in recorded' PROVE "pending_credentials" \notin schema'
    <3>1. "pending_credentials" \notin List[k].adds
      BY Entries
    <3>2. CASE m = "drop-pending-credentials"
      <4>1. k = 9
        BY <3>2, ListIs, Entries
      <4>2. "pending_credentials" \in List[k].drops
        BY <4>1, Entries
      <4> QED
        BY <4>2, <1>4
    <3>3. CASE m # "drop-pending-credentials"
      <4>1. "drop-pending-credentials" \in recorded
        BY <3>3, <2>2, <1>1
      <4>2. "pending_credentials" \notin schema
        BY <4>1, <2>0 DEF SchemaFollows
      <4> QED
        BY <4>2, <3>1, <1>4
    <3> QED
      BY <3>2, <3>3
  <2>3. "trigger_rules" \in schema' => "initial-v2-schema" \in recorded'
    <3>1. ASSUME "trigger_rules" \in schema PROVE "initial-v2-schema" \in recorded'
      BY <3>1, <2>0, <1>1 DEF SchemaFollows
    <3>2. ASSUME "trigger_rules" \in List[k].adds PROVE "initial-v2-schema" \in recorded'
      BY <3>2, <1>1, Entries
    <3> QED
      BY <3>1, <3>2, <1>4
  <2>4. "initial-v2-schema" \in recorded' => chats'
    BY <2>0, <1>1, <1>4 DEF SchemaFollows
  <2>5. ASSUME "engage-modes" \in recorded'
        PROVE  "trigger_rules" \notin schema' /\ "initial-v2-schema" \in recorded'
    <3>1. CASE m = "engage-modes"
      <4>1. k = 10
        BY <3>1, ListIs, Entries
      <4>2. "trigger_rules" \in List[k].drops /\ "trigger_rules" \in List[k].needs
        BY <4>1, Entries DEF Legacy
      <4>3. "trigger_rules" \in schema
        BY <4>2, <1>3
      <4>4. "initial-v2-schema" \in recorded
        BY <4>3, <2>0 DEF SchemaFollows
      <4> QED
        BY <4>2, <4>4, <1>1, <1>4
    <3>2. CASE m # "engage-modes"
      <4>1. "engage-modes" \in recorded
        BY <3>2, <2>5, <1>1
      <4>2. "trigger_rules" \notin schema /\ "initial-v2-schema" \in recorded
        BY <4>1, <2>0 DEF SchemaFollows
      <4>3. "trigger_rules" \notin List[k].adds
        BY <4>2, <1>2, Entries
      <4> QED
        BY <4>2, <4>3, <1>1, <1>4
    <3> QED
      BY <3>1, <3>2
  <2>6. "new" \notin orphans'
    BY <2>0, <1>4 DEF SchemaFollows
  <2> QED
    BY <2>1, <2>2, <2>3, <2>4, <2>5, <2>6 DEF SchemaFollows
<1>8. NoneForgotten'
  <2> SUFFICES ASSUME NEW q \in Runners, NEW i \in DOMAIN List
               PROVE  /\ runner'[q] = "running" => List[i].name \in recorded' \/ i \in todo'[q]
                      /\ runner'[q] = "up" => List[i].name \in recorded'
    BY DEF NoneForgotten
  <2>1. /\ runner[q] = "running" => List[i].name \in recorded \/ i \in todo[q]
        /\ runner[q] = "up" => List[i].name \in recorded
    BY DEF MigrationsInv, NoneForgotten
  <2>2. i \in todo[q] => i \in todo'[q] \/ i = k
    BY <1>1, <1>5
  <2> QED
    BY <2>1, <2>2, <1>1
<1> QED
  BY <1>6, <1>7, <1>8 DEF MigrationsInv

(* The other steps leave the database alone.                               *)
LEMMA OthersIdle ==
  ASSUME MigrationsInv, NEW r \in Runners,
         OpenDatabase(r) \/ Fails(r) \/ Finish(r) \/ RunnerDies(r)
  PROVE  MigrationsInv'
<1>1. UNCHANGED <<schema, recorded, chats, orphans, ran>>
  BY DEF OpenDatabase, Fails, Finish, RunnerDies
<1>2. /\ todo \in [Runners -> SUBSET DOMAIN List]
      /\ runner \in [Runners -> {"off", "running", "up"}]
      /\ faults \in 0 .. MaxFaults
  BY DEF MigrationsInv, MigrationsTypeOK
<1>3. PICK t \in SUBSET DOMAIN List, w \in {"off", "running", "up"} :
        /\ todo' = [todo EXCEPT ![r] = t] /\ runner' = [runner EXCEPT ![r] = w]
        /\ \A i \in DOMAIN List :
             /\ w = "running" => List[i].name \in recorded \/ i \in t
             /\ w = "up" => List[i].name \in recorded
  <2>1. CASE OpenDatabase(r)
    <3>1. Pending \in SUBSET DOMAIN List /\ \A i \in DOMAIN List : List[i].name \in recorded \/ i \in Pending
      BY DEF Pending
    <3> QED
      BY <2>1, <3>1 DEF OpenDatabase
  <2>2. CASE Fails(r)
    BY <2>2 DEF Fails
  <2>3. CASE Finish(r)
    <3>1. todo' = [todo EXCEPT ![r] = {}]
      BY <2>3, <1>2 DEF Finish
    <3>2. \A i \in DOMAIN List : List[i].name \in recorded
      BY <2>3 DEF Finish, MigrationsInv, NoneForgotten
    <3> QED
      BY <2>3, <3>1, <3>2 DEF Finish
  <2>4. CASE RunnerDies(r)
    BY <2>4 DEF RunnerDies
  <2> QED
    BY <2>1, <2>2, <2>3, <2>4
<1>4. faults' \in 0 .. MaxFaults
  <2>1. faults' = faults \/ (faults < MaxFaults /\ faults' = faults + 1)
    BY DEF OpenDatabase, Fails, Finish, RunnerDies, Fault
  <2> QED
    BY <2>1, <1>2, FaultBound
<1>5. MigrationsTypeOK'
  <2>1. todo' \in [Runners -> SUBSET DOMAIN List] /\ runner' \in [Runners -> {"off", "running", "up"}]
    BY <1>2, <1>3
  <2> QED
    BY <1>1, <1>4, <2>1 DEF MigrationsInv, MigrationsTypeOK
<1>6. OnceEach' /\ SchemaFollows'
  BY <1>1 DEF MigrationsInv, OnceEach, SchemaFollows
<1>7. NoneForgotten'
  BY <1>1, <1>2, <1>3 DEF MigrationsInv, NoneForgotten
<1> QED
  BY <1>5, <1>6, <1>7 DEF MigrationsInv

LEMMA MigrationsStep == MigrationsInv /\ [MigrationsNext]_migrationVars => MigrationsInv'
<1> SUFFICES ASSUME MigrationsInv, [MigrationsNext]_migrationVars PROVE MigrationsInv'
  OBVIOUS
<1>1. CASE MigrationsNext
  BY <1>1, MigrationRuns, OthersIdle DEF MigrationsNext
<1>2. CASE UNCHANGED migrationVars
  BY <1>2 DEF migrationVars, MigrationsInv, MigrationsTypeOK, OnceEach, SchemaFollows, NoneForgotten
<1> QED
  BY <1>1, <1>2

(* Who has finished finds everything recorded, and with it the schema.     *)
LEMMA MigrationsInvSafe == MigrationsInv => MigrationsSafe
<1> SUFFICES ASSUME MigrationsInv, NEW r \in Runners, runner[r] = "up"
             PROVE  schema = FullSchema /\ chats /\ "new" \notin orphans
  BY DEF MigrationsInv, MigrationsSafe, WholeSchema
<1>1. \A i \in DOMAIN List : List[i].name \in recorded
  BY DEF MigrationsInv, NoneForgotten
<1>2. \A i \in DOMAIN List : Leaves(i) \subseteq schema
  BY <1>1 DEF MigrationsInv, SchemaFollows
<1>3. "initial-v2-schema" \in recorded /\ "engage-modes" \in recorded /\ "drop-pending-credentials" \in recorded
  <2>1. List[1].name \in recorded /\ List[10].name \in recorded /\ List[9].name \in recorded
    BY <1>1, Entries
  <2>2. /\ List[1].name = "initial-v2-schema" /\ List[10].name = "engage-modes"
        /\ List[9].name = "drop-pending-credentials"
    BY ListIs
  <2> QED
    BY <2>1, <2>2
<1>4. chats /\ "new" \notin orphans /\ "trigger_rules" \notin schema /\ "pending_credentials" \notin schema
  BY <1>3 DEF MigrationsInv, SchemaFollows
<1>5. schema \subseteq FullSchema \cup Legacy \cup {"pending_credentials"}
  BY DEF MigrationsInv, MigrationsTypeOK
<1>6. "approval titles" \in schema
  <2>0. List[6].adds = {"approval titles"}
    BY ListIs
  <2>1. "approval titles" \in List[6].adds
    BY <2>0
  <2>3. Leaves(6) = List[6].adds \ (Legacy \cup {})
    BY 6 # 3, Zenon DEF Leaves
  <2>4. "approval titles" \notin Legacy
    BY DEF Legacy
  <2>2. "approval titles" \in Leaves(6)
    BY <2>1, <2>3, <2>4
  <2> QED
    BY <2>2, <1>2, Entries
<1>7. ASSUME NEW x \in FullSchema PROVE x \in schema
  <2>1. PICK i \in DOMAIN List : x \in List[i].adds
    BY FullSchemaIs
  <2>2. x \notin Legacy
    BY FullSchemaIs
  <2>3. x # "approval titles" => x \in Leaves(i)
    BY <2>1, <2>2 DEF Leaves
  <2> QED
    BY <2>3, <1>2, <1>6
<1>8. schema \subseteq FullSchema
  BY <1>4, <1>5 DEF Legacy
<1> QED
  BY <1>4, <1>7, <1>8

(* Whichever processes migrate beside each other, from whatever version,   *)
(* and wherever one dies: nothing is applied twice, and who is up has the  *)
(* whole schema (runMigrations).                                           *)
THEOREM MigrationsAreSafe == MigrationsSpec => []MigrationsSafe
<1>1. MigrationsSpec => []MigrationsInv
  BY MigrationsStart, MigrationsStep, PTL DEF MigrationsSpec
<1> QED
  BY <1>1, MigrationsInvSafe, PTL

-----------------------------------------------------------------------------
(***************************************************************************)
(* The installation: a behaviour is one of the start or one of the         *)
(* migrations, and both have their invariant throughout.                   *)
(***************************************************************************)

InstallationInv == StartupInv /\ Spacing /\ MigrationsInv

LEMMA StartupFrame ==
  ASSUME StartupInv, Spacing, UNCHANGED bootVars, faults' \in 0 .. MaxFaults
  PROVE  StartupInv' /\ Spacing'
<1>1. /\ UNCHANGED <<host, attempt, age, left, marker, docker, orders, joined, boxes>>
      /\ UNCHANGED <<begun, crashes, spared>>
  BY DEF bootVars, breakerVars, worldVars, startHistVars
<1>2. StartTyped'
  BY <1>1 DEF StartupInv, StartTyped
<1>3. BackoffFollows' /\ RunsFollow' /\ BoxesFollow'
  BY <1>1 DEF StartupInv, BackoffFollows, RunsFollow, BoxesFollow
<1>4. Spacing'
  BY <1>1, SpacingFrame
<1> QED
  BY <1>2, <1>3, <1>4 DEF StartupInv

LEMMA MigrationsFrame ==
  ASSUME MigrationsInv, UNCHANGED schemaVars, faults' \in 0 .. MaxFaults
  PROVE  MigrationsInv'
<1>1. UNCHANGED <<schema, recorded, chats, orphans, todo, runner, ran>>
  BY DEF schemaVars
<1>2. MigrationsTypeOK'
  BY <1>1 DEF MigrationsInv, MigrationsTypeOK
<1> QED
  BY <1>1, <1>2 DEF MigrationsInv, OnceEach, SchemaFollows, NoneForgotten

installationVars == <<bootVars, schemaVars, faults, part>>

LEMMA InstallationStep ==
  ASSUME ScheduleGrows, InstallationInv, [InstallationNext]_installationVars
  PROVE  InstallationInv'
<1> USE DEF InstallationInv
<1>1. CASE StartupNext /\ UNCHANGED schemaVars
  <2>1. StartupInv' /\ Spacing'
    BY <1>1, StartupStep, SpacingStep
  <2>2. faults' \in 0 .. MaxFaults
    BY <2>1 DEF StartupInv, StartTyped
  <2> QED
    BY <1>1, <2>1, <2>2, MigrationsFrame
<1>2. CASE MigrationsNext /\ UNCHANGED bootVars
  <2>1. MigrationsInv'
    BY <1>2, MigrationsStep
  <2>2. faults' \in 0 .. MaxFaults
    BY <2>1 DEF MigrationsInv, MigrationsTypeOK
  <2> QED
    BY <1>2, <2>1, <2>2, StartupFrame
<1>3. CASE UNCHANGED installationVars
  <2>1. UNCHANGED bootVars /\ UNCHANGED schemaVars /\ UNCHANGED faults
    BY <1>3 DEF installationVars
  <2>2. faults' \in 0 .. MaxFaults
    BY <2>1 DEF MigrationsInv, MigrationsTypeOK
  <2> QED
    BY <2>1, <2>2, StartupFrame, MigrationsFrame
<1> QED
  BY <1>1, <1>2, <1>3 DEF InstallationNext

(* What is checked of the host's start and of the migrations holds for the *)
(* two of them together.                                                   *)
THEOREM InstallationIsSafe ==
  ASSUME FirstUndelayed, ScheduleGrows, LimitFitsWindow
  PROVE  InstallationSpec => [](StartupSafe /\ MigrationsSafe)
<1>1. InstallationInit => InstallationInv
  BY StartupBegins, SpacingBegins, MigrationsStart DEF InstallationInit, InstallationInv
<1>2. InstallationInv => StartupSafe /\ MigrationsSafe
  BY InvSafe, MigrationsInvSafe DEF InstallationInv
<1>3. InstallationInv /\ [InstallationNext]_installationVars => InstallationInv'
  BY InstallationStep
<1> QED
  BY <1>1, <1>2, <1>3, PTL DEF InstallationSpec, installationVars

=============================================================================
