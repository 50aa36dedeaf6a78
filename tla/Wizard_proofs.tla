--------------------------- MODULE Wizard_proofs ----------------------------
(***************************************************************************)
(* Theorems of what a user runs by hand: of Setup, for any runtimes and any*)
(* number of launches and troubles; of ChannelSetup, for any choice of the *)
(* channels and any number of visits and mishaps; of Uninstall, for any    *)
(* number of tries, slips and boxes; and of the three side by side.        *)
(***************************************************************************)
EXTENDS MCWizard, WellFoundedInduction, TLAPS

-----------------------------------------------------------------------------
(***************************************************************************)
(* The setup wizard.                                                       *)
(***************************************************************************)

(* How far the wizard is when at p; at "end" every step is behind it.      *)
Rank(p) ==
  IF p \in StepNames THEN Number(p)
  ELSE CASE p = "sign-in" -> 4 [] p = "timezone-save" -> 8 [] p = "end" -> 11
         [] p = "idle" -> 0 [] OTHER -> 7

(* Steps that may be behind the wizard without being counted.              *)
Uncounted == {"auth", "timezone", "channel"}

(* What is behind the wizard w was counted, or is passed over.             *)
BehindIsCounted(w, a) ==
  \A j \in 1 .. 10 :
    j < Rank(w.at) => \/ Steps[j] \in w.skip \cup w.done \cup Uncounted
                      \/ Steps[j] = "cli-agent" /\ Registered(a)

(* What was completed is behind it, and what it is at is still to be done. *)
DoneIsBehind(w) == \A j \in 1 .. 10 : Steps[j] \in w.done => j <= Rank(w.at)

AtIsToDo(w, a) ==
  /\ w.at \in StepNames => w.at \notin w.skip \cup w.done
  /\ w.at = "sign-in" => "auth" \notin w.skip \cup w.done
  /\ w.at = "cli-agent" => ~Registered(a)
  /\ w.at \in {"ping", "cleanup", "next"} => "cli-agent" \in w.done
  /\ "verify" \notin w.skip

(* Where it has failed.                                                    *)
FailedAtStep(w) ==
  w.failed # "none" =>
    /\ w.at \notin {"idle", "ping", "cleanup", "verify", "end"}
    /\ Rank(w.at) = Number(Failures[w.failed])
    /\ w.failed \notin {"timezone", "create-terminal-agent"}
         => Failures[w.failed] \notin w.skip \cup w.done

(* What is completed, in this process or one before, is on the machine.    *)
CountedIsThere(w, m) ==
  /\ "container" \in w.skip \cup w.done => m.image /\ (m.docker = "ok" \/ w.sg)
  /\ "onecli" \in w.skip \cup w.done => m.vault = "known"
  /\ "mounts" \in w.skip \cup w.done => m.rules

(* The test agent is there between its making and its removal, or is half  *)
(* made and the wizard is to make it again.                                *)
TestIsOnTheWay ==
  agents["test"].made /\ ~strayed =>
    \/ wizard.at \in {"ping", "cleanup"}
    \/ /\ wizard.at # "idle" /\ "cli-agent" \notin wizard.skip \cup wizard.done
       /\ ~Registered(agents)

(* The wizard goes by the runtime that was picked last.                    *)
PickIsWished == wizard.at # "idle" => wizard.pick = wish

(* A group that was not made yet would get the default runtime.            *)
UnmadeAreDefault == \A n \in AgentNames : ~agents[n].made => agents[n].runtime = "claude"

SetupInv ==
  /\ SetupTypeOK
  /\ BehindIsCounted(wizard, agents) /\ DoneIsBehind(wizard) /\ AtIsToDo(wizard, agents)
  /\ FailedAtStep(wizard) /\ CountedIsThere(wizard, machine) /\ ReadyIsInstalled
  /\ TestIsOnTheWay /\ PickIsWished /\ UnmadeAreDefault

-----------------------------------------------------------------------------
(* The wizard's steps and their order.                                     *)

LEMMA StepsAt ==
  /\ DOMAIN Steps = 1 .. 10
  /\ Steps[1] = "environment" /\ Steps[2] = "container" /\ Steps[3] = "onecli"
  /\ Steps[4] = "auth" /\ Steps[5] = "mounts" /\ Steps[6] = "service"
  /\ Steps[7] = "cli-agent" /\ Steps[8] = "timezone" /\ Steps[9] = "channel"
  /\ Steps[10] = "verify"
BY DEF Steps

LEMMA NamesAre ==
  StepNames = {"environment", "container", "onecli", "auth", "mounts", "service",
               "cli-agent", "timezone", "channel", "verify"}
<1>1. \A e \in StepNames : e \in {"environment", "container", "onecli", "auth", "mounts",
                                  "service", "cli-agent", "timezone", "channel", "verify"}
  <2> TAKE e \in StepNames
  <2>1. PICK i \in 1 .. 10 : e = Steps[i] BY StepsAt DEF StepNames
  <2>2. i \in {1, 2, 3, 4, 5, 6, 7, 8, 9, 10} BY <2>1
  <2> QED BY <2>1, <2>2, StepsAt
<1>2. \A i \in 1 .. 10 : Steps[i] \in StepNames BY StepsAt DEF StepNames
<1> QED BY <1>1, <1>2, StepsAt

LEMMA StepsDiffer == \A i, j \in 1 .. 10 : Steps[i] = Steps[j] => i = j
<1> TAKE i, j \in 1 .. 10
<1>1. i \in {1, 2, 3, 4, 5, 6, 7, 8, 9, 10} /\ j \in {1, 2, 3, 4, 5, 6, 7, 8, 9, 10}
  OBVIOUS
<1>2. i \in {1, 2, 3, 4, 5} => (Steps[i] = Steps[j] => i = j) BY <1>1, StepsAt
<1>3. i \in {6, 7, 8, 9, 10} => (Steps[i] = Steps[j] => i = j) BY <1>1, StepsAt
<1> QED BY <1>1, <1>2, <1>3

LEMMA StepNumber == \A i \in 1 .. 10 : Steps[i] \in StepNames /\ Number(Steps[i]) = i
<1> TAKE i \in 1 .. 10
<1>1. Steps[i] \in StepNames BY StepsAt DEF StepNames
<1>2. \E j \in DOMAIN Steps : Steps[j] = Steps[i] BY StepsAt
<1>3. Number(Steps[i]) \in DOMAIN Steps /\ Steps[Number(Steps[i])] = Steps[i] BY <1>2 DEF Number
<1> QED BY <1>1, <1>3, StepsAt, StepsDiffer

LEMMA NameNumber == \A e \in StepNames : Number(e) \in 1 .. 10 /\ Steps[Number(e)] = e
<1> TAKE e \in StepNames
<1>1. PICK i \in 1 .. 10 : e = Steps[i] BY StepsAt DEF StepNames
<1> QED BY <1>1, StepNumber

LEMMA NumberIs ==
  /\ Number("environment") = 1 /\ Number("container") = 2 /\ Number("onecli") = 3
  /\ Number("auth") = 4 /\ Number("mounts") = 5 /\ Number("service") = 6
  /\ Number("cli-agent") = 7 /\ Number("timezone") = 8 /\ Number("channel") = 9
  /\ Number("verify") = 10
BY StepsAt, StepNumber

LEMMA RankIs ==
  /\ \A i \in 1 .. 10 : Rank(Steps[i]) = i
  /\ \A e \in StepNames : Rank(e) = Number(e)
  /\ Rank("sign-in") = 4 /\ Rank("ping") = 7 /\ Rank("cleanup") = 7 /\ Rank("next") = 7
  /\ Rank("timezone-save") = 8 /\ Rank("end") = 11 /\ Rank("idle") = 0
<1>1. \A i \in 1 .. 10 : Rank(Steps[i]) = i BY StepNumber DEF Rank
<1>2. \A e \in StepNames : Rank(e) = Number(e) BY DEF Rank
<1>3. "sign-in" \notin StepNames /\ "ping" \notin StepNames BY NamesAre
<1>4. "cleanup" \notin StepNames /\ "next" \notin StepNames BY NamesAre
<1>5. "timezone-save" \notin StepNames /\ "end" \notin StepNames BY NamesAre
<1>6. "idle" \notin StepNames BY NamesAre
<1>7. Rank("sign-in") = 4 BY <1>3 DEF Rank
<1>8. Rank("ping") = 7 BY <1>3 DEF Rank
<1>9. Rank("cleanup") = 7 BY <1>4 DEF Rank
<1>10. Rank("next") = 7 BY <1>4 DEF Rank
<1>11. Rank("timezone-save") = 8 BY <1>5 DEF Rank
<1>12. Rank("end") = 11 BY <1>5 DEF Rank
<1>13. Rank("idle") = 0 BY <1>6 DEF Rank
<1> QED BY <1>1, <1>2, <1>7, <1>8, <1>9, <1>10, <1>11, <1>12, <1>13

LEMMA PlacesAre ==
  /\ Places = StepNames \cup {"sign-in", "ping", "cleanup", "next", "timezone-save", "end"}
  /\ "idle" \notin Places
  /\ \A p \in Places \cup {"idle"} : Rank(p) \in 0 .. 11
<1>1. "idle" \notin StepNames BY NamesAre
<1>2. \A e \in StepNames : Rank(e) \in 1 .. 10 BY RankIs, NameNumber
<1>3. \A p \in {"sign-in", "ping", "cleanup", "next", "timezone-save", "end", "idle"} :
        Rank(p) \in 0 .. 11 BY RankIs
<1> QED BY <1>1, <1>2, <1>3 DEF Places

(* A place that is no step's name.                                         *)
LEMMA NoSteps ==
  /\ "sign-in" \notin StepNames /\ "ping" \notin StepNames /\ "cleanup" \notin StepNames
  /\ "next" \notin StepNames /\ "timezone-save" \notin StepNames
  /\ "end" \notin StepNames /\ "idle" \notin StepNames
<1>1. "sign-in" \notin StepNames /\ "ping" \notin StepNames BY NamesAre
<1>2. "cleanup" \notin StepNames /\ "next" \notin StepNames BY NamesAre
<1>3. "timezone-save" \notin StepNames /\ "end" \notin StepNames BY NamesAre
<1>4. "idle" \notin StepNames BY NamesAre
<1> QED BY <1>1, <1>2, <1>3, <1>4

LEMMA FailuresAre ==
  /\ DOMAIN Failures = StepNames \cup {"add-runtime", "create-terminal-agent", "init-first-agent"}
  /\ \A e \in StepNames : Failures[e] = e
  /\ Failures["add-runtime"] = "auth" /\ Failures["create-terminal-agent"] = "cli-agent"
  /\ Failures["init-first-agent"] = "channel"
  /\ "none" \notin DOMAIN Failures
<1>1. DOMAIN Failures = StepNames \cup {"add-runtime", "create-terminal-agent", "init-first-agent"}
  BY DEF Failures
<1>2. "add-runtime" \notin StepNames /\ "create-terminal-agent" \notin StepNames
  BY NamesAre
<1>3. "init-first-agent" \notin StepNames /\ "none" \notin StepNames BY NamesAre
<1>4. \A e \in StepNames : Failures[e] = e
  <2> TAKE e \in StepNames
  <2>1. e # "add-runtime" /\ e # "create-terminal-agent" /\ e # "init-first-agent"
    BY <1>2, <1>3
  <2> QED BY <2>1 DEF Failures
<1>5. Failures["add-runtime"] = "auth" BY DEF Failures
<1>6. Failures["create-terminal-agent"] = "cli-agent" BY DEF Failures
<1>7. Failures["init-first-agent"] = "channel" BY DEF Failures
<1>8. "none" \notin {"add-runtime", "create-terminal-agent", "init-first-agent"} OBVIOUS
<1> QED BY <1>1, <1>3, <1>4, <1>5, <1>6, <1>7, <1>8

-----------------------------------------------------------------------------
(* Moves of the driver.                                                    *)

Drivers == [at : Places \cup {"idle"}, skip : SUBSET StepNames,
            done : SUBSET StepNames, sg : BOOLEAN, pick : Runtimes,
            failed : DOMAIN Failures \cup {"none"}]

(* The driver's part of the invariant.                                     *)
DriverInv(w, a) ==
  /\ w \in Drivers
  /\ BehindIsCounted(w, a) /\ DoneIsBehind(w) /\ AtIsToDo(w, a) /\ FailedAtStep(w)

LEMMA DriverFields ==
  ASSUME NEW w \in Drivers
  PROVE  /\ w.at \in Places \cup {"idle"} /\ w.skip \in SUBSET StepNames
         /\ w.done \in SUBSET StepNames /\ w.sg \in BOOLEAN /\ w.pick \in Runtimes
         /\ w.failed \in DOMAIN Failures \cup {"none"}
BY DEF Drivers

(* The wizard put at p, with nothing else changed.                         *)
LEMMA PutAt ==
  ASSUME NEW w \in Drivers, NEW p \in Places \cup {"idle"}
  PROVE  LET g == [w EXCEPT !.at = p]
         IN /\ g \in Drivers /\ g.at = p /\ g.skip = w.skip /\ g.done = w.done
            /\ g.sg = w.sg /\ g.pick = w.pick /\ g.failed = w.failed
BY DEF Drivers

LEMMA CompletedIs ==
  ASSUME NEW w \in Drivers, NEW e \in StepNames
  PROVE  /\ Completed(w, e) \in Drivers /\ Completed(w, e).at = w.at
         /\ Completed(w, e).skip = w.skip /\ Completed(w, e).done = w.done \cup {e}
         /\ Completed(w, e).sg = w.sg /\ Completed(w, e).pick = w.pick
         /\ Completed(w, e).failed = w.failed
<1>1. PICK D \in SUBSET StepNames : D = w.done \cup {e} BY DEF Drivers
<1>2. Completed(w, e) = [w EXCEPT !.done = D] BY <1>1 DEF Completed
<1> HIDE DEF Completed
<1> QED BY <1>1, <1>2 DEF Drivers

LEMMA IdleIs ==
  ASSUME SetupConstants
  PROVE  /\ Idle \in Drivers /\ Idle.at = "idle" /\ Idle.skip = {} /\ Idle.done = {}
         /\ Idle.pick = "claude" /\ Idle.failed = "none"
BY DEF Idle, Drivers, SetupConstants

(* The least of a set of steps, as From chooses it.                        *)
LEMMA LeastStep ==
  ASSUME NEW R \in SUBSET (1 .. 10), R # {}
  PROVE  /\ (CHOOSE j \in R : \A k \in R : j <= k) \in R
         /\ \A k \in R : (CHOOSE j \in R : \A k2 \in R : j <= k2) <= k
<1>1. PICK m \in R : \A k \in R : ~(k < m)
  <2>1. R \subseteq Nat OBVIOUS
  <2>2. PICK m \in R : \A k \in R : ~(<<k, m>> \in OpToRel(<, Nat))
    BY <2>1, NatLessThanWellFounded, WFMin, Zenon
  <2> QED BY <2>1, <2>2 DEF OpToRel
<1>2. \E j \in R : \A k \in R : j <= k BY <1>1
<1> QED BY <1>2

LEMMA FromIs ==
  ASSUME NEW w \in Drivers, NEW a, NEW i \in 1 .. 10, "verify" \notin w.skip
  PROVE  \E k \in 1 .. 10 :
           /\ From(w, i, a) = [w EXCEPT !.at = Steps[k]]
           /\ k >= i /\ Steps[k] \notin Passed(w, a)
           /\ \A j \in 1 .. 10 : i <= j /\ j < k => Steps[j] \in Passed(w, a)
<1> DEFINE rest == {j \in DOMAIN Steps : j >= i /\ Steps[j] \notin Passed(w, a)}
           k == CHOOSE j \in rest : \A l \in rest : j <= l
<1>1. "verify" \notin Passed(w, a) BY DEF Passed
<1>2. rest \in SUBSET (1 .. 10) /\ 10 \in rest BY <1>1, StepsAt
<1>3. rest # {} BY <1>2
<1>4. k \in rest /\ \A l \in rest : k <= l BY <1>2, <1>3, LeastStep
<1>5. From(w, i, a) = [w EXCEPT !.at = Steps[k]] BY <1>3 DEF From
<1>6. k \in 1 .. 10 /\ k >= i /\ Steps[k] \notin Passed(w, a) BY <1>4, StepsAt
<1> HIDE DEF k
<1>7. \A j \in 1 .. 10 : i <= j /\ j < k => Steps[j] \in Passed(w, a)
  <2> SUFFICES ASSUME NEW j \in 1 .. 10, i <= j, j < k, Steps[j] \notin Passed(w, a)
               PROVE  FALSE
    OBVIOUS
  <2>1. j \in rest BY StepsAt
  <2> HIDE DEF rest
  <2> QED BY <2>1, <1>4, <1>6
<1> QED BY <1>5, <1>6, <1>7

(* Going on from step i with what is before it behind.                     *)
LEMMA GoesOn ==
  ASSUME NEW w \in Drivers, NEW a, NEW i \in 1 .. 10, NEW g,
         g = From(w, i, a), "verify" \notin w.skip, w.failed = "none",
         \A j \in 1 .. 10 : j < i => \/ Steps[j] \in w.skip \cup w.done \cup Uncounted
                                     \/ Steps[j] = "cli-agent" /\ Registered(a),
         \A j \in 1 .. 10 : Steps[j] \in w.done => j < i
  PROVE  /\ DriverInv(g, a) /\ g.at \in StepNames /\ Number(g.at) >= i
         /\ g.skip = w.skip /\ g.done = w.done /\ g.sg = w.sg /\ g.pick = w.pick
         /\ g.failed = "none"
         /\ \A j \in 1 .. 10 : i <= j /\ j < Number(g.at) => Steps[j] \in Passed(w, a)
<1>1. PICK k \in 1 .. 10 :
        /\ From(w, i, a) = [w EXCEPT !.at = Steps[k]]
        /\ k >= i /\ Steps[k] \notin Passed(w, a)
        /\ \A j \in 1 .. 10 : i <= j /\ j < k => Steps[j] \in Passed(w, a)
  BY FromIs
<1>2. Steps[k] \in StepNames /\ Number(Steps[k]) = k /\ Rank(Steps[k]) = k
  BY StepNumber, RankIs
<1>3. Steps[k] \in Places \cup {"idle"} BY <1>2, PlacesAre
<1>4. g = [w EXCEPT !.at = Steps[k]] BY <1>1
<1>5. /\ g \in Drivers /\ g.at = Steps[k] /\ g.skip = w.skip /\ g.done = w.done
      /\ g.sg = w.sg /\ g.pick = w.pick /\ g.failed = "none"
  BY <1>3, <1>4, PutAt
<1>6. BehindIsCounted(g, a)
  <2> SUFFICES ASSUME NEW j \in 1 .. 10, j < k
               PROVE  \/ Steps[j] \in w.skip \cup w.done \cup Uncounted
                      \/ Steps[j] = "cli-agent" /\ Registered(a)
    BY <1>2, <1>5 DEF BehindIsCounted
  <2>1. CASE j < i BY <2>1
  <2>2. CASE i <= j
    <3>1. Steps[j] \in Passed(w, a) BY <2>2, <1>1
    <3> QED BY <3>1 DEF Passed
  <2> QED BY <2>1, <2>2
<1>7. DoneIsBehind(g) BY <1>1, <1>2, <1>5 DEF DoneIsBehind
<1>8. AtIsToDo(g, a)
  <2>1. Steps[k] \notin w.skip /\ (Steps[k] = "cli-agent" => ~Registered(a))
    BY <1>1 DEF Passed
  <2>2. Steps[k] \notin w.done BY <1>1
  <2>3. g.at \notin {"sign-in", "ping", "cleanup", "next"} BY <1>2, <1>5, NoSteps
  <2> QED BY <2>1, <2>2, <2>3, <1>5 DEF AtIsToDo
<1>9. FailedAtStep(g) BY <1>5 DEF FailedAtStep
<1> QED BY <1>1, <1>2, <1>5, <1>6, <1>7, <1>8, <1>9 DEF DriverInv

(* Another state of the agents: what a group's registration was to excuse  *)
(* stays excused.                                                          *)
LEMMA OtherAgents ==
  ASSUME NEW w, NEW a, NEW b, DriverInv(w, a),
         Registered(a) => Registered(b) \/ "cli-agent" \in w.done,
         w.at = "cli-agent" => ~Registered(b)
  PROVE  DriverInv(w, b)
<1>1. BehindIsCounted(w, b)
  BY DEF DriverInv, BehindIsCounted
<1>2. AtIsToDo(w, b) BY DEF DriverInv, AtIsToDo
<1> QED BY <1>1, <1>2 DEF DriverInv

(* The driver goes on to the step after e, which it counts or need not.    *)
LEMMA OnwardKeeps ==
  ASSUME NEW e \in StepNames \ {"verify"}, NEW w, NEW g,
         DriverInv(wizard, agents), wizard.failed = "none", Rank(wizard.at) = Number(e),
         \/ w = Completed(wizard, e)
         \/ w = wizard /\ (e \in Uncounted \/ e \in wizard.done),
         g = From(w, Number(e) + 1, agents)
  PROVE  /\ DriverInv(g, agents) /\ g.at \in StepNames /\ Number(g.at) > Number(e)
         /\ g.skip = wizard.skip /\ g.done = w.done
         /\ wizard.done \subseteq g.done /\ g.done \subseteq wizard.done \cup {e}
         /\ g.sg = wizard.sg /\ g.pick = wizard.pick /\ g.failed = "none"
<1> DEFINE n == Number(e)
<1>1. n \in 1 .. 10 /\ Steps[n] = e BY NameNumber
<1>2. n # 10 BY <1>1, StepsAt
<1>3. n + 1 \in 1 .. 10 BY <1>1, <1>2
<1>4. wizard \in Drivers /\ "verify" \notin wizard.skip BY DEF DriverInv, AtIsToDo
<1>5. /\ w \in Drivers /\ w.skip = wizard.skip
      /\ w.done = wizard.done \/ w.done = wizard.done \cup {e}
      /\ w.sg = wizard.sg /\ w.pick = wizard.pick /\ w.failed = "none"
      /\ e \in w.done \cup Uncounted
  BY <1>4, CompletedIs
<1>6. ASSUME NEW j \in 1 .. 10, j < n + 1
      PROVE  \/ Steps[j] \in w.skip \cup w.done \cup Uncounted
             \/ Steps[j] = "cli-agent" /\ Registered(agents)
  <2>1. CASE j = n BY <2>1, <1>1, <1>5
  <2>2. CASE j < n
    <3>1. \/ Steps[j] \in wizard.skip \cup wizard.done \cup Uncounted
          \/ Steps[j] = "cli-agent" /\ Registered(agents)
      BY <2>2 DEF DriverInv, BehindIsCounted
    <3> QED BY <3>1, <1>5
  <2> QED BY <1>1, <1>6, <2>1, <2>2
<1>7. ASSUME NEW j \in 1 .. 10, Steps[j] \in w.done PROVE j < n + 1
  <2>1. CASE Steps[j] = e BY <2>1, <1>1, StepsDiffer
  <2>2. CASE Steps[j] # e
    <3>1. Steps[j] \in wizard.done BY <2>2, <1>5, <1>7
    <3>2. j <= n BY <3>1, <1>1 DEF DriverInv, DoneIsBehind
    <3> QED BY <3>2, <1>1
  <2> QED BY <2>1, <2>2
<1>8. /\ DriverInv(g, agents) /\ g.at \in StepNames /\ Number(g.at) >= n + 1
      /\ g.skip = w.skip /\ g.done = w.done /\ g.sg = w.sg /\ g.pick = w.pick
      /\ g.failed = "none"
  BY <1>3, <1>4, <1>5, <1>6, <1>7, GoesOn
<1>9. Number(g.at) > n BY <1>1, <1>8, NameNumber
<1> QED BY <1>5, <1>8, <1>9

(* Nothing the driver at a place counts as done is "verify".               *)
LEMMA VerifyIsLast ==
  ASSUME NEW w, NEW a, DriverInv(w, a), w.at # "end"
  PROVE  "verify" \notin w.skip \cup w.done
<1>1. w.at \in Places \cup {"idle"} /\ "verify" \notin w.skip BY DEF DriverInv, Drivers, AtIsToDo
<1>2. SUFFICES ASSUME "verify" \in w.done PROVE FALSE BY <1>1
<1>3. Rank(w.at) >= 10 BY <1>2, StepsAt DEF DriverInv, DoneIsBehind
<1>4. w.at \in StepNames BY <1>1, <1>3, PlacesAre, RankIs
<1>5. Number(w.at) = 10 /\ Steps[Number(w.at)] = w.at BY <1>3, <1>4, RankIs, NameNumber
<1>6. w.at = "verify" BY <1>5, StepsAt
<1> QED BY <1>2, <1>6, <1>4 DEF DriverInv, AtIsToDo

(* The process that takes over.                                            *)
LEMMA SuccessorKeeps ==
  ASSUME NEW w \in Drivers, NEW g, g = Successor(w),
         "verify" \notin w.skip \cup w.done
  PROVE  /\ DriverInv(g, agents) /\ g.at \in StepNames
         /\ g.skip = w.skip \cup w.done /\ g.done = {} /\ g.sg = w.sg /\ g.pick = w.pick
         /\ g.failed = "none"
         /\ \A j \in 1 .. 10 : j < Number(g.at) => Steps[j] \in Passed(g, agents)
<1>1. PICK S \in SUBSET StepNames : S = w.skip \cup w.done BY DEF Drivers
<1> DEFINE v == [w EXCEPT !.skip = S, !.done = {}, !.failed = "none"]
<1>2. /\ v \in Drivers /\ v.skip = S /\ v.done = {} /\ v.failed = "none"
      /\ v.sg = w.sg /\ v.pick = w.pick
  BY DEF Drivers
<1>3. g = From(v, 1, agents) BY <1>1 DEF Successor
<1> HIDE DEF v
<1>4. \A j \in 1 .. 10 : ~(j < 1) OBVIOUS
<1>5. /\ DriverInv(g, agents) /\ g.at \in StepNames
      /\ g.skip = v.skip /\ g.done = v.done /\ g.sg = v.sg /\ g.pick = v.pick
      /\ g.failed = "none"
      /\ \A j \in 1 .. 10 : 1 <= j /\ j < Number(g.at) => Steps[j] \in Passed(v, agents)
  BY <1>1, <1>2, <1>3, <1>4, GoesOn
<1>6. \A j \in 1 .. 10 : j < Number(g.at) => Steps[j] \in Passed(g, agents)
  BY <1>5 DEF Passed
<1> QED BY <1>1, <1>2, <1>5, <1>6

-----------------------------------------------------------------------------
(* What the steps share.                                                   *)

Machines == [docker : {"down", "denied", "ok"}, image : BOOLEAN,
             vault : {"none", "there", "known"}, secret : BOOLEAN, rules : BOOLEAN,
             manager : Managers, service : {"absent", "installed", "running"},
             payload : BOOLEAN]

AgentRecords == [made : BOOLEAN, wired : BOOLEAN, runtime : Runtimes]

(* The variables but the wizard itself have their types.                   *)
RestTyped ==
  /\ machine \in Machines /\ agents \in [AgentNames -> AgentRecords]
  /\ launches \in 0 .. MaxLaunches /\ troubles \in 0 .. MaxTroubles
  /\ wish \in Runtimes /\ strayed \in BOOLEAN

(* What a process may rely on is never lost.                               *)
Grows(m, n) ==
  /\ m.image => n.image
  /\ m.docker = "ok" => n.docker = "ok"
  /\ m.vault = "known" => n.vault = "known"
  /\ m.rules => n.rules

(* What step e is counted for.                                             *)
LeavesIt(e, g, m) ==
  /\ e = "container" => m.image /\ (m.docker = "ok" \/ g.sg)
  /\ e = "onecli" => m.vault = "known"
  /\ e = "mounts" => m.rules

LEMMA InvParts ==
  SetupInv <=>
    /\ DriverInv(wizard, agents) /\ RestTyped /\ CountedIsThere(wizard, machine)
    /\ ReadyIsInstalled /\ TestIsOnTheWay /\ PickIsWished /\ UnmadeAreDefault
BY DEF SetupInv, SetupTypeOK, DriverInv, RestTyped, Drivers, Machines, AgentRecords

LEMMA InvPartsNext ==
  SetupInv' <=>
    /\ DriverInv(wizard', agents') /\ RestTyped' /\ CountedIsThere(wizard', machine')
    /\ ReadyIsInstalled' /\ TestIsOnTheWay' /\ PickIsWished' /\ UnmadeAreDefault'
BY DEF SetupInv, SetupTypeOK, DriverInv, RestTyped, Drivers, Machines, AgentRecords,
       BehindIsCounted, DoneIsBehind, AtIsToDo, FailedAtStep, CountedIsThere, Registered

LEMMA CountedStays ==
  ASSUME NEW w, NEW m, NEW g, NEW n, NEW e,
         CountedIsThere(w, m), Grows(m, n), w.sg => g.sg,
         g.skip \cup g.done \subseteq w.skip \cup w.done \cup {e},
         e \in g.skip \cup g.done => e \in w.skip \cup w.done \/ LeavesIt(e, g, n)
  PROVE  CountedIsThere(g, n)
<1>1. "container" \in g.skip \cup g.done => n.image /\ (n.docker = "ok" \/ g.sg)
  <2>1. CASE "container" \in w.skip \cup w.done BY <2>1 DEF CountedIsThere, Grows
  <2>2. CASE "container" \notin w.skip \cup w.done
    <3>1. "container" \in g.skip \cup g.done => e = "container" BY <2>2
    <3> QED BY <2>2, <3>1 DEF LeavesIt
  <2> QED BY <2>1, <2>2
<1>2. "onecli" \in g.skip \cup g.done => n.vault = "known"
  <2>1. CASE "onecli" \in w.skip \cup w.done BY <2>1 DEF CountedIsThere, Grows
  <2>2. CASE "onecli" \notin w.skip \cup w.done
    <3>1. "onecli" \in g.skip \cup g.done => e = "onecli" BY <2>2
    <3> QED BY <2>2, <3>1 DEF LeavesIt
  <2> QED BY <2>1, <2>2
<1>3. "mounts" \in g.skip \cup g.done => n.rules
  <2>1. CASE "mounts" \in w.skip \cup w.done BY <2>1 DEF CountedIsThere, Grows
  <2>2. CASE "mounts" \notin w.skip \cup w.done
    <3>1. "mounts" \in g.skip \cup g.done => e = "mounts" BY <2>2
    <3> QED BY <2>2, <3>1 DEF LeavesIt
  <2> QED BY <2>1, <2>2
<1> QED BY <1>1, <1>2, <1>3 DEF CountedIsThere

(* Past its step, a test agent that is still there has been left behind.   *)
LEMMA PastTest ==
  ASSUME DriverInv(wizard, agents), TestIsOnTheWay,
         wizard.at = "next" \/ Rank(wizard.at) > 7, agents["test"].made
  PROVE  strayed
<1> SUFFICES ASSUME ~strayed PROVE FALSE OBVIOUS
<1>1. wizard.at \notin {"ping", "cleanup"} BY RankIs
<1>2. "cli-agent" \notin wizard.skip \cup wizard.done /\ ~Registered(agents)
  BY <1>1 DEF TestIsOnTheWay
<1>3. wizard.at # "next" BY <1>2 DEF DriverInv, AtIsToDo
<1>4. Steps[7] \in wizard.skip \cup wizard.done \cup Uncounted
  BY <1>2, <1>3 DEF DriverInv, BehindIsCounted
<1> QED BY <1>2, <1>4, StepsAt DEF Uncounted

(* The test agent's whereabouts when the wizard moves elsewhere.           *)
LEMMA TestKeeps ==
  ASSUME TestIsOnTheWay, NEW e, e # "cli-agent", wizard.at \notin {"ping", "cleanup"},
         agents'["test"].made => agents["test"].made, strayed => strayed',
         Registered(agents') => Registered(agents), wizard'.at # "idle",
         wizard'.skip \cup wizard'.done \subseteq wizard.skip \cup wizard.done \cup {e}
  PROVE  TestIsOnTheWay'
<1> SUFFICES ASSUME agents'["test"].made, ~strayed'
             PROVE  "cli-agent" \notin wizard'.skip \cup wizard'.done /\ ~Registered(agents')
  BY DEF TestIsOnTheWay
<1>1. "cli-agent" \notin wizard.skip \cup wizard.done /\ ~Registered(agents)
  BY DEF TestIsOnTheWay
<1> QED BY <1>1

-----------------------------------------------------------------------------
(* Kinds of steps.                                                         *)

(* On to the next step, with the agents as they were.                      *)
LEMMA OnwardStep ==
  ASSUME SetupInv, NEW e \in StepNames \ {"verify", "cli-agent"}, NEW w,
         wizard.failed = "none", Rank(wizard.at) = Number(e),
         wizard.at \notin {"ping", "cleanup"},
         \/ w = Completed(wizard, e)
         \/ w = wizard /\ e \in Uncounted,
         wizard' = From(w, Number(e) + 1, agents),
         machine' \in Machines, Grows(machine, machine'), LeavesIt(e, wizard, machine'),
         troubles' \in 0 .. MaxTroubles,
         UNCHANGED <<agents, launches, setupHistVars>>
  PROVE  SetupInv'
<1>1. /\ DriverInv(wizard, agents) /\ RestTyped /\ CountedIsThere(wizard, machine)
      /\ TestIsOnTheWay /\ PickIsWished /\ UnmadeAreDefault
  BY InvParts
<1>2. /\ DriverInv(wizard', agents) /\ wizard'.at \in StepNames
      /\ wizard'.skip = wizard.skip
      /\ wizard'.done \subseteq wizard.done \cup {e}
      /\ wizard'.sg = wizard.sg /\ wizard'.pick = wizard.pick
  BY <1>1, OnwardKeeps
<1>3. wizard'.at \notin {"idle", "end"} BY <1>2, NoSteps
<1>4. agents' = agents /\ wish' = wish /\ strayed' = strayed /\ launches' = launches
  BY DEF setupHistVars
<1>5. DriverInv(wizard', agents') BY <1>2, <1>4
<1>6. RestTyped' BY <1>1, <1>4 DEF RestTyped
<1>7. CountedIsThere(wizard', machine')
  <2>1. LeavesIt(e, wizard', machine') BY <1>2 DEF LeavesIt
  <2> QED BY <1>1, <1>2, <2>1, CountedStays
<1>8. ReadyIsInstalled' BY <1>3 DEF ReadyIsInstalled
<1>9. TestIsOnTheWay' BY <1>1, <1>2, <1>3, <1>4, TestKeeps
<1>10. PickIsWished'
  <2>1. wizard.at # "idle" BY RankIs, NameNumber
  <2> QED BY <1>1, <1>2, <1>4, <2>1 DEF PickIsWished
<1>11. UnmadeAreDefault' BY <1>1, <1>4 DEF UnmadeAreDefault
<1> QED BY <1>5, <1>6, <1>7, <1>8, <1>9, <1>10, <1>11, InvPartsNext

(* The wizard w as it was, but failed with e.                              *)
LEMMA FailedIs ==
  ASSUME NEW w, NEW a, NEW e \in DOMAIN Failures, DriverInv(w, a),
         w.at \notin {"idle", "ping", "cleanup", "verify", "end"},
         Rank(w.at) = Number(Failures[e]),
         e \notin {"timezone", "create-terminal-agent"} => Failures[e] \notin w.skip \cup w.done
  PROVE  LET g == [w EXCEPT !.failed = e]
         IN /\ DriverInv(g, a)
            /\ g.at = w.at /\ g.skip = w.skip /\ g.done = w.done
            /\ g.sg = w.sg /\ g.pick = w.pick /\ g.failed = e
<1> DEFINE g == [w EXCEPT !.failed = e]
<1>1. w \in Drivers BY DEF DriverInv
<1>2. /\ g \in Drivers /\ g.at = w.at /\ g.skip = w.skip /\ g.done = w.done
      /\ g.sg = w.sg /\ g.pick = w.pick /\ g.failed = e
  BY <1>1 DEF Drivers
<1> HIDE DEF g
<1>3. BehindIsCounted(g, a) BY <1>2 DEF DriverInv, BehindIsCounted
<1>4. DoneIsBehind(g) BY <1>2 DEF DriverInv, DoneIsBehind
<1>5. AtIsToDo(g, a) BY <1>2 DEF DriverInv, AtIsToDo
<1>6. FailedAtStep(g) BY <1>2 DEF FailedAtStep
<1>7. DriverInv(g, a) BY <1>2, <1>3, <1>4, <1>5, <1>6 DEF DriverInv
<1> QED BY <1>2, <1>7 DEF g

(* A step fails, with the agents and their groups as far as they got.      *)
LEMMA FailStep ==
  ASSUME SetupInv, NEW e \in DOMAIN Failures,
         wizard' = [wizard EXCEPT !.failed = e],
         wizard.at \notin {"idle", "ping", "cleanup", "verify", "end"},
         Rank(wizard.at) = Number(Failures[e]),
         e \notin {"timezone", "create-terminal-agent"}
           => Failures[e] \notin wizard.skip \cup wizard.done,
         machine' \in Machines, Grows(machine, machine'),
         troubles' \in 0 .. MaxTroubles,
         agents' \in [AgentNames -> AgentRecords], UnmadeAreDefault',
         Registered(agents) => Registered(agents'),
         wizard.at = "cli-agent" => ~Registered(agents'),
         \/ wizard.at = "cli-agent"
         \/ wizard.at = "next" \/ Rank(wizard.at) > 7
         \/ agents' = agents,
         agents'["test"].made => agents["test"].made \/ wizard.at = "cli-agent",
         UNCHANGED <<launches, setupHistVars>>
  PROVE  SetupInv'
<1>1. /\ DriverInv(wizard, agents) /\ RestTyped /\ CountedIsThere(wizard, machine)
      /\ TestIsOnTheWay /\ PickIsWished
  BY InvParts
<1>2. /\ DriverInv(wizard', agents)
      /\ wizard'.at = wizard.at /\ wizard'.skip = wizard.skip /\ wizard'.done = wizard.done
      /\ wizard'.sg = wizard.sg /\ wizard'.pick = wizard.pick
  BY <1>1, FailedIs
<1>3. wish' = wish /\ strayed' = strayed /\ launches' = launches BY DEF setupHistVars
<1>4. DriverInv(wizard', agents') BY <1>2, OtherAgents
<1>5. RestTyped' BY <1>1, <1>3 DEF RestTyped
<1>6. CountedIsThere(wizard', machine')
  BY <1>1, <1>2 DEF CountedIsThere, Grows
<1>7. ReadyIsInstalled' BY <1>2 DEF ReadyIsInstalled
<1>8. TestIsOnTheWay'
  <2>1. CASE wizard.at = "cli-agent"
    <3>1. "cli-agent" \notin wizard.skip \cup wizard.done
      BY <1>1, <2>1, NamesAre DEF DriverInv, AtIsToDo
    <3> QED BY <1>2, <2>1, <3>1 DEF TestIsOnTheWay
  <2>2. CASE wizard.at # "cli-agent" /\ (wizard.at = "next" \/ Rank(wizard.at) > 7)
    BY <1>1, <1>3, <2>2, PastTest DEF TestIsOnTheWay
  <2>3. CASE agents' = agents BY <1>1, <1>2, <1>3, <2>3 DEF TestIsOnTheWay
  <2> QED BY <2>1, <2>2, <2>3
<1>9. PickIsWished' BY <1>1, <1>2, <1>3 DEF PickIsWished
<1> QED BY <1>4, <1>5, <1>6, <1>7, <1>8, <1>9, InvPartsNext

(* The same, of a step that has to do with no group.                       *)
LEMMA BreakStep ==
  ASSUME SetupInv, SetupConstants, NEW e \in StepNames \ {"verify"},
         Breaks(e), wizard.at \notin {"idle", "ping", "cleanup", "end"},
         wizard.at # "cli-agent", wizard.failed = "none", Rank(wizard.at) = Number(e),
         e # "timezone" => e \notin wizard.skip \cup wizard.done,
         machine' \in Machines, Grows(machine, machine'),
         UNCHANGED <<agents, launches, setupHistVars>>
  PROVE  SetupInv'
<1>1. RestTyped /\ UnmadeAreDefault BY InvParts
<1>2. wizard' = [wizard EXCEPT !.failed = e] BY DEF Breaks
<1>3. troubles' \in 0 .. MaxTroubles
  BY <1>1 DEF Breaks, Trouble, RestTyped, SetupConstants
<1>4. e \in DOMAIN Failures /\ Failures[e] = e BY FailuresAre
<1>5. wizard.at # "verify" BY RankIs, NameNumber, StepsAt, NumberIs
<1>6. agents' \in [AgentNames -> AgentRecords] /\ UnmadeAreDefault'
  BY <1>1 DEF RestTyped, UnmadeAreDefault
<1>7. UNCHANGED <<launches, setupHistVars>> /\ agents' = agents OBVIOUS
<1> QED BY <1>2, <1>3, <1>4, <1>5, <1>6, <1>7, FailStep

LEMMA IdleKeeps ==
  ASSUME SetupConstants, NEW a
  PROVE  DriverInv(Idle, a)
<1>1. BehindIsCounted(Idle, a) BY IdleIs, RankIs DEF BehindIsCounted
<1>2. DoneIsBehind(Idle) BY IdleIs DEF DoneIsBehind
<1>3. AtIsToDo(Idle, a)
  BY IdleIs, NoSteps DEF AtIsToDo
<1> QED BY <1>1, <1>2, <1>3, IdleIs DEF DriverInv, FailedAtStep

(* The wizard is gone, and has not left a test agent unnoticed.            *)
LEMMA IdleStep ==
  ASSUME SetupInv, SetupConstants, wizard' = Idle,
         troubles' \in 0 .. MaxTroubles, strayed' \in BOOLEAN,
         agents["test"].made => strayed',
         UNCHANGED <<machine, agents, launches, wish>>
  PROVE  SetupInv'
<1>1. RestTyped /\ UnmadeAreDefault BY InvParts
<1>2. DriverInv(wizard', agents') BY IdleKeeps
<1>3. RestTyped' BY <1>1 DEF RestTyped
<1>4. CountedIsThere(wizard', machine') BY IdleIs DEF CountedIsThere
<1>5. ReadyIsInstalled' BY IdleIs DEF ReadyIsInstalled
<1>6. TestIsOnTheWay' BY DEF TestIsOnTheWay
<1>7. PickIsWished' BY IdleIs DEF PickIsWished
<1>8. UnmadeAreDefault' BY <1>1 DEF UnmadeAreDefault
<1> QED BY <1>2, <1>3, <1>4, <1>5, <1>6, <1>7, <1>8, InvPartsNext

LEMMA SetupInit_Inv == ASSUME SetupInit, SetupConstants PROVE SetupInv
<1>1. wizard = Idle /\ agents = [n \in AgentNames |-> NoAgent] BY DEF SetupInit
<1>2. DriverInv(wizard, agents) BY <1>1, IdleKeeps
<1>3. machine \in Machines
  <2>1. machine \in [docker : {"down", "ok"}, image : {FALSE},
                     vault : {"none", "there"}, secret : {FALSE}, rules : {FALSE},
                     manager : Managers, service : {"absent"}, payload : {FALSE}]
    BY DEF SetupInit
  <2> QED BY <2>1 DEF Machines
<1>4. NoAgent \in AgentRecords /\ NoAgent.made = FALSE /\ NoAgent.runtime = "claude"
  BY DEF NoAgent, AgentRecords, SetupConstants
<1>5. RestTyped
  <2>1. agents \in [AgentNames -> AgentRecords] BY <1>1, <1>4
  <2>2. launches \in 0 .. MaxLaunches /\ troubles \in 0 .. MaxTroubles
    BY DEF SetupInit, SetupConstants
  <2>3. wish \in Runtimes /\ strayed \in BOOLEAN BY DEF SetupInit, SetupConstants
  <2> QED BY <1>3, <2>1, <2>2, <2>3 DEF RestTyped
<1>6. CountedIsThere(wizard, machine) BY <1>1, IdleIs DEF CountedIsThere
<1>7. ReadyIsInstalled BY <1>1, IdleIs DEF ReadyIsInstalled
<1>8. TestIsOnTheWay BY <1>1, <1>4 DEF TestIsOnTheWay, AgentNames
<1>9. PickIsWished BY <1>1, IdleIs DEF PickIsWished
<1>10. UnmadeAreDefault BY <1>1, <1>4 DEF UnmadeAreDefault
<1> QED BY <1>2, <1>5, <1>6, <1>7, <1>8, <1>9, <1>10, InvParts

-----------------------------------------------------------------------------
(* The driver's own actions.                                               *)

LEMMA PlaceOf ==
  ASSUME SetupInv
  PROVE  /\ wizard \in Drivers /\ DriverInv(wizard, agents) /\ RestTyped
         /\ CountedIsThere(wizard, machine) /\ ReadyIsInstalled /\ TestIsOnTheWay
         /\ PickIsWished /\ UnmadeAreDefault
BY InvParts DEF DriverInv

LEMMA LaunchKeeps == ASSUME SetupInv, SetupConstants, Launch PROVE SetupInv'
<1>1. RestTyped /\ TestIsOnTheWay /\ UnmadeAreDefault BY InvParts
<1>2. /\ wizard.at = "idle" /\ launches' = launches + 1 /\ launches < MaxLaunches
      /\ wizard' = From(Idle, 1, agents) /\ wish' = "claude"
      /\ UNCHANGED <<machine, agents, troubles, strayed>>
  BY DEF Launch
<1>3. \A j \in 1 .. 10 : ~(j < 1) OBVIOUS
<1>4. /\ DriverInv(wizard', agents) /\ wizard'.at \in StepNames
      /\ wizard'.skip = {} /\ wizard'.done = {} /\ wizard'.pick = "claude"
  BY <1>2, <1>3, IdleIs, GoesOn
<1>5. wizard'.at # "end" BY <1>4, NoSteps
<1>6. DriverInv(wizard', agents') BY <1>2, <1>4
<1>7. launches' \in 0 .. MaxLaunches BY <1>1, <1>2 DEF RestTyped, SetupConstants
<1>8. RestTyped' BY <1>1, <1>2, <1>7 DEF RestTyped, SetupConstants
<1>9. CountedIsThere(wizard', machine') BY <1>4 DEF CountedIsThere
<1>10. ReadyIsInstalled' BY <1>5 DEF ReadyIsInstalled
<1>11. TestIsOnTheWay' BY <1>1, <1>2 DEF TestIsOnTheWay
<1>12. PickIsWished' BY <1>2, <1>4 DEF PickIsWished
<1>13. UnmadeAreDefault' BY <1>1, <1>2 DEF UnmadeAreDefault
<1> QED BY <1>6, <1>8, <1>9, <1>10, <1>11, <1>12, <1>13, InvPartsNext

(* A new process takes over from w, which is the wizard, or the wizard     *)
(* with the container step completed.                                      *)
LEMMA TakeOverStep ==
  ASSUME SetupInv, NEW w \in Drivers, NEW e, wizard.at \notin {"idle", "ping", "cleanup", "end"},
         w.skip \cup w.done \subseteq wizard.skip \cup wizard.done \cup {e},
         w.pick = wizard.pick, wizard.sg => w.sg,
         e \notin {"cli-agent", "verify"}, LeavesIt(e, w, machine'),
         wizard' = Successor(w),
         machine' \in Machines, Grows(machine, machine'),
         UNCHANGED <<agents, launches, troubles, setupHistVars>>
  PROVE  SetupInv'
<1>1. /\ DriverInv(wizard, agents) /\ RestTyped /\ CountedIsThere(wizard, machine)
      /\ TestIsOnTheWay /\ PickIsWished /\ UnmadeAreDefault
  BY InvParts
<1>2. "verify" \notin wizard.skip \cup wizard.done BY <1>1, VerifyIsLast
<1>3. "verify" \notin w.skip \cup w.done BY <1>2
<1>4. /\ DriverInv(wizard', agents) /\ wizard'.at \in StepNames
      /\ wizard'.skip = w.skip \cup w.done /\ wizard'.done = {} /\ wizard'.sg = w.sg
      /\ wizard'.pick = w.pick
  BY <1>3, SuccessorKeeps
<1>5. wizard'.at \notin {"idle", "end"} BY <1>4, NoSteps
<1>6. /\ agents' = agents /\ wish' = wish /\ strayed' = strayed
      /\ launches' = launches /\ troubles' = troubles
  BY DEF setupHistVars
<1>7. DriverInv(wizard', agents') BY <1>4, <1>6
<1>8. RestTyped' BY <1>1, <1>6 DEF RestTyped
<1>9. CountedIsThere(wizard', machine')
  <2>1. LeavesIt(e, wizard', machine') BY <1>4 DEF LeavesIt
  <2> QED BY <1>1, <1>4, <2>1, CountedStays
<1>10. ReadyIsInstalled' BY <1>5 DEF ReadyIsInstalled
<1>11. TestIsOnTheWay' BY <1>1, <1>4, <1>5, <1>6, TestKeeps
<1>12. PickIsWished' BY <1>1, <1>4, <1>6 DEF PickIsWished
<1>13. UnmadeAreDefault' BY <1>1, <1>6 DEF UnmadeAreDefault
<1> QED BY <1>7, <1>8, <1>9, <1>10, <1>11, <1>12, <1>13, InvPartsNext

LEMMA RetryKeeps == ASSUME SetupInv, Retry PROVE SetupInv'
<1>1. wizard \in Drivers /\ FailedAtStep(wizard) /\ RestTyped
  BY InvParts DEF DriverInv
<1>2. wizard.at \notin {"idle", "ping", "cleanup", "end"} BY <1>1 DEF Retry, FailedAtStep
<1>3. LeavesIt("none", wizard, machine') BY DEF LeavesIt
<1>4. machine' \in Machines /\ Grows(machine, machine')
  BY <1>1 DEF Retry, RestTyped, Grows
<1>5. wizard' = Successor(wizard) /\ UNCHANGED <<agents, launches, troubles, setupHistVars>>
  BY DEF Retry
<1>6. "none" \notin {"cli-agent", "verify"} OBVIOUS
<1> QED BY <1>1, <1>2, <1>3, <1>4, <1>5, <1>6, TakeOverStep

LEMMA AbortKeeps == ASSUME SetupInv, SetupConstants, Abort PROVE SetupInv'
<1>1. RestTyped BY InvParts
<1>2. agents["test"].made \in BOOLEAN BY <1>1 DEF RestTyped, AgentRecords, AgentNames
<1>3. strayed' = (strayed \/ agents["test"].made) /\ strayed \in BOOLEAN
  BY <1>1 DEF Abort, RestTyped
<1>4. strayed' \in BOOLEAN /\ (agents["test"].made => strayed') BY <1>2, <1>3
<1>5. troubles' \in 0 .. MaxTroubles BY <1>1 DEF Abort, RestTyped
<1> QED BY <1>4, <1>5, IdleStep DEF Abort

LEMMA LeaveKeeps == ASSUME SetupInv, SetupConstants, Leave PROVE SetupInv'
<1>1. RestTyped BY InvParts
<1>2. agents["test"].made \in BOOLEAN BY <1>1 DEF RestTyped, AgentRecords, AgentNames
<1>3. strayed' = (strayed \/ agents["test"].made) /\ strayed \in BOOLEAN
  BY <1>1 DEF Leave, RestTyped
<1>4. strayed' \in BOOLEAN /\ (agents["test"].made => strayed') BY <1>2, <1>3
<1>5. troubles' \in 0 .. MaxTroubles
  BY <1>1 DEF Leave, Trouble, RestTyped, SetupConstants
<1> QED BY <1>4, <1>5, IdleStep DEF Leave

LEMMA EndKeeps == ASSUME SetupInv, SetupConstants, End PROVE SetupInv'
<1>1. DriverInv(wizard, agents) /\ RestTyped /\ TestIsOnTheWay BY InvParts
<1>2. Rank(wizard.at) > 7 BY RankIs DEF End, At
<1>3. agents["test"].made => strayed' BY <1>1, <1>2, PastTest DEF End, setupHistVars
<1>4. troubles' \in 0 .. MaxTroubles /\ strayed' \in BOOLEAN
  BY <1>1 DEF End, RestTyped, setupHistVars
<1> QED BY <1>3, <1>4, IdleStep DEF End, setupHistVars

(* The closing check passes only on what was counted and found.            *)
LEMMA VerifyKeeps == ASSUME SetupInv, SetupConstants, Verify PROVE SetupInv'
<1>1. /\ DriverInv(wizard, agents) /\ RestTyped /\ CountedIsThere(wizard, machine)
      /\ TestIsOnTheWay /\ PickIsWished /\ UnmadeAreDefault /\ wizard \in Drivers
  BY PlaceOf
<1>2. wizard.at = "verify" /\ wizard.failed = "none" BY DEF Verify, At
<1>3. Rank(wizard.at) = 10 BY <1>2, RankIs, StepsAt
<1>4. agents["test"].made => strayed BY <1>1, <1>3, PastTest
<1>5. /\ machine' = machine /\ agents' = agents /\ launches' = launches
      /\ troubles' = troubles /\ wish' = wish /\ strayed' = strayed
  BY DEF Verify, setupHistVars
<1>6. CASE ~Healthy
  <2>1. wizard' = Idle BY <1>6 DEF Verify
  <2>2. troubles' \in 0 .. MaxTroubles /\ strayed' \in BOOLEAN BY <1>1, <1>5 DEF RestTyped
  <2> QED BY <1>4, <1>5, <2>1, <2>2, IdleStep
<1>7. CASE Healthy
  <2> DEFINE w == Completed(wizard, "verify")
  <2>1. "verify" \in StepNames BY NamesAre
  <2>2. /\ w \in Drivers /\ w.skip = wizard.skip /\ w.done = wizard.done \cup {"verify"}
        /\ w.sg = wizard.sg /\ w.pick = wizard.pick /\ w.failed = "none"
    BY <1>1, <1>2, <2>1, CompletedIs
  <2>3. wizard' = [w EXCEPT !.at = "end"] BY <1>7 DEF Verify
  <2> HIDE DEF w
  <2>4. "end" \in Places \cup {"idle"} BY PlacesAre
  <2>5. /\ wizard' \in Drivers /\ wizard'.at = "end" /\ wizard'.skip = wizard.skip
        /\ wizard'.done = wizard.done \cup {"verify"}
        /\ wizard'.sg = wizard.sg /\ wizard'.pick = wizard.pick /\ wizard'.failed = "none"
    BY <2>2, <2>3, <2>4, PutAt
  <2>6. BehindIsCounted(wizard', agents)
    <3> SUFFICES ASSUME NEW j \in 1 .. 10
                 PROVE  \/ Steps[j] \in wizard.skip \cup wizard'.done \cup Uncounted
                        \/ Steps[j] = "cli-agent" /\ Registered(agents)
      BY <2>5 DEF BehindIsCounted
    <3>1. CASE j = 10 BY <3>1, <2>5, StepsAt
    <3>2. CASE j < 10
      <4>1. \/ Steps[j] \in wizard.skip \cup wizard.done \cup Uncounted
            \/ Steps[j] = "cli-agent" /\ Registered(agents)
        BY <1>1, <1>3, <3>2 DEF DriverInv, BehindIsCounted
      <4> QED BY <2>5, <4>1
    <3> QED BY <3>1, <3>2
  <2>7. DoneIsBehind(wizard') BY <2>5, RankIs DEF DoneIsBehind
  <2>8. AtIsToDo(wizard', agents)
    <3>1. "verify" \notin wizard.skip BY <1>1 DEF DriverInv, AtIsToDo
    <3>2. "end" \notin StepNames BY NoSteps
    <3> QED BY <2>5, <3>1, <3>2 DEF AtIsToDo
  <2>9. FailedAtStep(wizard') BY <2>5 DEF FailedAtStep
  <2>10. DriverInv(wizard', agents') BY <1>5, <2>5, <2>6, <2>7, <2>8, <2>9 DEF DriverInv
  <2>11. RestTyped' BY <1>1, <1>5 DEF RestTyped
  <2>12. CountedIsThere(wizard', machine') BY <1>1, <1>5, <2>5 DEF CountedIsThere
  <2>13. ReadyIsInstalled'
    <3>1. Steps[2] \in wizard.skip \cup wizard.done \cup Uncounted
      BY <1>1, <1>3, StepsAt DEF DriverInv, BehindIsCounted
    <3>2. Steps[5] \in wizard.skip \cup wizard.done \cup Uncounted
      BY <1>1, <1>3, StepsAt DEF DriverInv, BehindIsCounted
    <3>3. machine.image BY <1>1, <3>1, StepsAt DEF Uncounted, CountedIsThere
    <3>4. machine.rules BY <1>1, <3>2, StepsAt DEF Uncounted, CountedIsThere
    <3> QED BY <1>5, <1>7, <3>3, <3>4 DEF ReadyIsInstalled, Healthy, Serving, Registered
  <2>14. TestIsOnTheWay' BY <1>4, <1>5 DEF TestIsOnTheWay
  <2>15. PickIsWished' BY <1>1, <1>2, <1>5, <2>5 DEF PickIsWished
  <2>16. UnmadeAreDefault' BY <1>1, <1>5 DEF UnmadeAreDefault
  <2> QED BY <2>10, <2>11, <2>12, <2>13, <2>14, <2>15, <2>16, InvPartsNext
<1> QED BY <1>6, <1>7

-----------------------------------------------------------------------------
(* The steps that work on the machine.                                     *)

LEMMA AtStep ==
  ASSUME SetupInv, NEW e \in StepNames, At(e)
  PROVE  /\ wizard.failed = "none" /\ wizard.at = e /\ Rank(wizard.at) = Number(e)
         /\ wizard.at \notin {"idle", "ping", "cleanup", "next", "end"}
         /\ wizard.at \notin {"sign-in", "timezone-save"}
         /\ e \notin wizard.skip \cup wizard.done
<1>1. wizard.at = e /\ wizard.failed = "none" BY DEF At
<1>2. Rank(wizard.at) = Number(e) BY <1>1, RankIs
<1>3. wizard.at \notin {"idle", "ping", "cleanup", "next", "end"} BY <1>1, NoSteps
<1>4. wizard.at \notin {"sign-in", "timezone-save"} BY <1>1, NoSteps
<1>5. e \notin wizard.skip \cup wizard.done BY <1>1, InvParts DEF DriverInv, AtIsToDo
<1> QED BY <1>1, <1>2, <1>3, <1>4, <1>5

LEMMA SameRest ==
  ASSUME SetupInv
  PROVE  /\ machine \in Machines /\ Grows(machine, machine)
         /\ troubles \in 0 .. MaxTroubles /\ launches \in 0 .. MaxLaunches
         /\ agents \in [AgentNames -> AgentRecords]
         /\ strayed \in BOOLEAN
BY InvParts DEF RestTyped, Grows

LEMMA TroubleTyped ==
  ASSUME SetupInv, SetupConstants, Trouble
  PROVE  troubles' \in 0 .. MaxTroubles
BY SameRest DEF Trouble, SetupConstants

LEMMA EnvironmentKeeps == ASSUME SetupInv, SetupConstants, Environment PROVE SetupInv'
<1> DEFINE e == "environment"
<1>1. e \in StepNames \ {"verify", "cli-agent"} BY NamesAre
<1>2. At(e) /\ UNCHANGED <<machine, agents, launches, setupHistVars>> BY DEF Environment
<1>3. machine' \in Machines /\ Grows(machine, machine') BY <1>2, SameRest
<1>4. LeavesIt(e, wizard, machine') BY DEF LeavesIt
<1>5. CASE Onward(Completed(wizard, e), e) /\ UNCHANGED troubles
  <2>1. troubles' \in 0 .. MaxTroubles BY <1>5, SameRest
  <2> QED BY <1>1, <1>2, <1>3, <1>4, <1>5, <2>1, AtStep, OnwardStep DEF Onward
<1>6. CASE Breaks(e)
  BY <1>1, <1>2, <1>3, <1>6, AtStep, BreakStep
<1> QED BY <1>5, <1>6 DEF Environment

(* Docker's socket once the daemon has been seen to.                       *)
LEMMA DockerSet ==
  ASSUME NEW m \in Machines, NEW d \in {m.docker} \cup DockerUp(m)
  PROVE  /\ [m EXCEPT !.docker = d] \in Machines
         /\ Grows(m, [m EXCEPT !.docker = d])
         /\ [m EXCEPT !.docker = d].docker = d
         /\ [m EXCEPT !.docker = d, !.image = TRUE] \in Machines
         /\ Grows(m, [m EXCEPT !.docker = d, !.image = TRUE])
         /\ [m EXCEPT !.docker = d, !.image = TRUE].docker = d
         /\ [m EXCEPT !.docker = d, !.image = TRUE].image
<1>1. m.docker \in {"down", "denied", "ok"} BY DEF Machines
<1>2. d \in {"down", "denied", "ok"} BY <1>1 DEF DockerUp
<1>3. m.docker = "ok" => d = "ok" BY DEF DockerUp
<1>4. [m EXCEPT !.docker = d] \in Machines BY <1>2 DEF Machines
<1>5. Grows(m, [m EXCEPT !.docker = d]) /\ [m EXCEPT !.docker = d].docker = d
  BY <1>3 DEF Machines, Grows
<1>6. [m EXCEPT !.docker = d, !.image = TRUE] \in Machines BY <1>2 DEF Machines
<1>7. /\ Grows(m, [m EXCEPT !.docker = d, !.image = TRUE])
      /\ [m EXCEPT !.docker = d, !.image = TRUE].docker = d
      /\ [m EXCEPT !.docker = d, !.image = TRUE].image
  BY <1>3 DEF Machines, Grows
<1> QED BY <1>4, <1>5, <1>6, <1>7

LEMMA ContainerKeeps == ASSUME SetupInv, SetupConstants, Container PROVE SetupInv'
<1> DEFINE e == "container"
<1>1. e \in StepNames \ {"verify", "cli-agent"} BY NamesAre
<1>2. At(e) /\ UNCHANGED <<agents, launches, troubles, setupHistVars>> BY DEF Container
<1>3. wizard \in Drivers /\ machine \in Machines BY PlaceOf, SameRest
<1>4. PICK d \in DockerUp(machine) :
        LET m == [machine EXCEPT !.docker = d, !.image = TRUE]
            w == Completed(wizard, "container")
        IN /\ machine' = m
           /\ IF SgNeeded(wizard, m)
              THEN wizard' = Successor([w EXCEPT !.sg = TRUE])
              ELSE Onward(w, "container")
  BY DEF Container
<1>5. /\ machine' \in Machines /\ Grows(machine, machine')
      /\ machine'.docker = d /\ machine'.image
  BY <1>3, <1>4, DockerSet
<1>6. troubles' \in 0 .. MaxTroubles BY <1>2, SameRest
<1>7. d \in {"denied", "ok"}
  <2>1. machine.docker \in {"down", "denied", "ok"} BY <1>3 DEF Machines
  <2> QED BY <2>1, <1>4 DEF DockerUp
<1>8. CASE SgNeeded(wizard, machine')
  <2> DEFINE w == Completed(wizard, e)
  <2>1. /\ w \in Drivers /\ w.skip = wizard.skip /\ w.done = wizard.done \cup {e}
        /\ w.pick = wizard.pick
    BY <1>1, <1>3, CompletedIs
  <2> DEFINE v == [w EXCEPT !.sg = TRUE]
  <2>2. wizard' = Successor(v) BY <1>4, <1>8
  <2> HIDE DEF w
  <2>3. /\ v \in Drivers /\ v.skip = wizard.skip /\ v.done = wizard.done \cup {e}
        /\ v.pick = wizard.pick /\ v.sg
    BY <2>1 DEF Drivers
  <2> HIDE DEF v
  <2>4. LeavesIt(e, v, machine') BY <1>5, <2>3 DEF LeavesIt
  <2>5. v.skip \cup v.done \subseteq wizard.skip \cup wizard.done \cup {e} BY <2>3
  <2> QED BY <1>1, <1>2, <1>5, <2>2, <2>3, <2>4, <2>5, AtStep, TakeOverStep
<1>9. CASE ~SgNeeded(wizard, machine')
  <2>1. Onward(Completed(wizard, e), e) BY <1>4, <1>9
  <2>2. LeavesIt(e, wizard, machine') BY <1>5, <1>7, <1>9 DEF LeavesIt, SgNeeded
  <2> QED BY <1>1, <1>2, <1>5, <1>6, <2>1, <2>2, AtStep, OnwardStep DEF Onward
<1> QED BY <1>8, <1>9

LEMMA ContainerFailsKeeps == ASSUME SetupInv, SetupConstants, ContainerFails PROVE SetupInv'
<1>1. "container" \in StepNames \ {"verify", "cli-agent"} BY NamesAre
<1>2. /\ At("container") /\ Breaks("container")
      /\ UNCHANGED <<agents, launches, setupHistVars>>
  BY DEF ContainerFails
<1>3. PICK d \in {machine.docker} \cup DockerUp(machine) : machine' = [machine EXCEPT !.docker = d]
  BY DEF ContainerFails
<1>4. machine' \in Machines /\ Grows(machine, machine') BY <1>3, SameRest, DockerSet
<1> QED BY <1>1, <1>2, <1>4, AtStep, BreakStep

LEMMA OnecliKeeps ==
  ASSUME SetupInv, SetupConstants, OnecliRemote \/ OnecliReused \/ OnecliFresh
  PROVE  SetupInv'
<1> DEFINE e == "onecli"
<1>1. e \in StepNames \ {"verify", "cli-agent"} BY NamesAre
<1>2. At(e) /\ VaultKnown BY DEF OnecliRemote, OnecliReused, OnecliFresh
<1>3. /\ Onward(Completed(wizard, e), e) /\ machine' = [machine EXCEPT !.vault = "known"]
      /\ UNCHANGED <<agents, launches, troubles, setupHistVars>>
  BY <1>2 DEF VaultKnown
<1>4. machine \in Machines BY SameRest
<1>5. machine' \in Machines /\ Grows(machine, machine') /\ machine'.vault = "known"
  BY <1>3, <1>4 DEF Machines, Grows
<1>6. LeavesIt(e, wizard, machine') BY <1>5 DEF LeavesIt
<1>7. troubles' \in 0 .. MaxTroubles BY <1>3, SameRest
<1> QED BY <1>1, <1>2, <1>3, <1>5, <1>6, <1>7, AtStep, OnwardStep DEF Onward

LEMMA OnecliFailsKeeps == ASSUME SetupInv, SetupConstants, OnecliFails PROVE SetupInv'
<1>1. "onecli" \in StepNames \ {"verify", "cli-agent"} BY NamesAre
<1>2. /\ At("onecli") /\ Breaks("onecli")
      /\ UNCHANGED <<agents, launches, setupHistVars>>
  BY DEF OnecliFails
<1>3. PICK v \in VaultLeft : machine' = [machine EXCEPT !.vault = v] BY DEF OnecliFails
<1>4. machine \in Machines BY SameRest
<1>5. machine.vault \in {"none", "there", "known"} BY <1>4 DEF Machines
<1>6. v \in {"none", "there", "known"} /\ (machine.vault = "known" => v = "known")
  BY <1>5 DEF VaultLeft
<1>7. machine' \in Machines /\ Grows(machine, machine')
  BY <1>3, <1>4, <1>6 DEF Machines, Grows
<1> QED BY <1>1, <1>2, <1>7, AtStep, BreakStep

LEMMA MountsKeeps == ASSUME SetupInv, SetupConstants, Mounts PROVE SetupInv'
<1> DEFINE e == "mounts"
<1>1. e \in StepNames \ {"verify", "cli-agent"} BY NamesAre
<1>2. At(e) /\ UNCHANGED <<agents, launches, setupHistVars>> BY DEF Mounts
<1>3. machine \in Machines /\ Grows(machine, machine) BY SameRest
<1>4. CASE /\ Onward(Completed(wizard, e), e)
           /\ machine' = [machine EXCEPT !.rules = TRUE]
           /\ UNCHANGED troubles
  <2>1. machine' \in Machines /\ Grows(machine, machine') /\ machine'.rules
    BY <1>3, <1>4 DEF Machines, Grows
  <2>2. LeavesIt(e, wizard, machine') BY <2>1 DEF LeavesIt
  <2>3. troubles' \in 0 .. MaxTroubles BY <1>4, SameRest
  <2> QED BY <1>1, <1>2, <1>4, <2>1, <2>2, <2>3, AtStep, OnwardStep DEF Onward
<1>5. CASE Breaks(e) /\ UNCHANGED machine
  <2>1. machine' \in Machines /\ Grows(machine, machine') BY <1>3, <1>5
  <2> QED BY <1>1, <1>2, <1>5, <2>1, AtStep, BreakStep
<1> QED BY <1>4, <1>5 DEF Mounts

(* The service, whatever starts it.                                        *)
LEMMA ServiceKeeps ==
  ASSUME SetupInv, SetupConstants, Launchd \/ Systemd \/ Nohup
  PROVE  SetupInv'
<1> DEFINE e == "service"
<1>1. e \in StepNames \ {"verify", "cli-agent"} BY NamesAre
<1>2. machine \in Machines BY SameRest
<1>3. At(e) BY DEF Launchd, Systemd, Nohup
<1>4. PICK s \in {"absent", "installed", "running"} : Serviced(s)
  <2>1. machine.service \in {"absent", "installed", "running"} BY <1>2 DEF Machines
  <2> QED BY <2>1 DEF Launchd, Systemd, Nohup
<1>5. troubles' \in 0 .. MaxTroubles
  <2>1. UNCHANGED troubles \/ Trouble BY DEF Launchd, Systemd, Nohup
  <2> QED BY <2>1, SameRest, TroubleTyped
<1>6. /\ Onward(Completed(wizard, e), e) /\ machine' = [machine EXCEPT !.service = s]
      /\ UNCHANGED <<agents, launches, setupHistVars>>
  BY <1>4 DEF Serviced
<1>7. machine' \in Machines /\ Grows(machine, machine')
  BY <1>2, <1>6 DEF Machines, Grows
<1>8. LeavesIt(e, wizard, machine') BY DEF LeavesIt
<1> QED BY <1>1, <1>3, <1>5, <1>6, <1>7, <1>8, AtStep, OnwardStep DEF Onward

LEMMA ServiceFailsKeeps == ASSUME SetupInv, SetupConstants, ServiceFails PROVE SetupInv'
<1>1. "service" \in StepNames \ {"verify", "cli-agent"} BY NamesAre
<1>2. /\ At("service") /\ Breaks("service")
      /\ UNCHANGED <<machine, agents, launches, setupHistVars>>
  BY DEF ServiceFails
<1>3. machine' \in Machines /\ Grows(machine, machine') BY <1>2, SameRest
<1> QED BY <1>1, <1>2, <1>3, AtStep, BreakStep

LEMMA StartByHandKeeps == ASSUME SetupInv, StartByHand PROVE SetupInv'
<1>1. /\ wizard \in Drivers /\ DriverInv(wizard, agents) /\ RestTyped
      /\ CountedIsThere(wizard, machine) /\ TestIsOnTheWay /\ PickIsWished /\ UnmadeAreDefault
  BY PlaceOf
<1>2. /\ wizard.at = "idle" /\ machine' = [machine EXCEPT !.service = "running"]
      /\ UNCHANGED <<wizard, agents, launches, troubles>> /\ wish' = wish /\ strayed' = strayed
  BY DEF StartByHand, setupHistVars
<1>3. machine' \in Machines /\ Grows(machine, machine')
  BY <1>1, <1>2 DEF RestTyped, Machines, Grows
<1>4. RestTyped' BY <1>1, <1>2, <1>3 DEF RestTyped
<1>5. CountedIsThere(wizard', machine') BY <1>1, <1>2, <1>3 DEF CountedIsThere, Grows
<1>6. ReadyIsInstalled' BY <1>2 DEF ReadyIsInstalled
<1>7. TestIsOnTheWay' BY <1>1, <1>2 DEF TestIsOnTheWay
<1>8. PickIsWished' BY <1>2 DEF PickIsWished
<1>9. UnmadeAreDefault' BY <1>1, <1>2 DEF UnmadeAreDefault
<1> QED BY <1>1, <1>2, <1>4, <1>5, <1>6, <1>7, <1>8, <1>9, InvPartsNext

-----------------------------------------------------------------------------
(* The account and the runtime.                                            *)

(* From one place of a step to another.                                    *)
LEMMA WithinStep ==
  ASSUME DriverInv(wizard, agents),
         NEW p \in {"sign-in", "ping", "cleanup", "next", "timezone-save"},
         Rank(p) = Rank(wizard.at),
         NEW g \in Drivers, g.at = p, g.skip = wizard.skip,
         wizard.done \subseteq g.done, g.done \subseteq wizard.done \cup {Steps[Rank(p)]},
         p = "sign-in" => "auth" \notin g.skip \cup g.done,
         p \in {"ping", "cleanup", "next"} => "cli-agent" \in g.done,
         g.failed = "none" \/ FailedAtStep(g)
  PROVE  DriverInv(g, agents)
<1>1. BehindIsCounted(g, agents) BY DEF DriverInv, BehindIsCounted
<1>2. DoneIsBehind(g)
  <2> SUFFICES ASSUME NEW j \in 1 .. 10, Steps[j] \in g.done PROVE j <= Rank(p)
    BY DEF DoneIsBehind
  <2>1. Rank(p) \in 1 .. 10 BY RankIs
  <2>2. CASE Steps[j] = Steps[Rank(p)] BY <2>1, <2>2, StepsDiffer
  <2>3. CASE Steps[j] \in wizard.done BY <2>3 DEF DriverInv, DoneIsBehind
  <2> QED BY <2>2, <2>3
<1>3. AtIsToDo(g, agents)
  <2>1. p \notin StepNames BY NoSteps
  <2>2. "verify" \notin g.skip BY DEF DriverInv, AtIsToDo
  <2>3. p # "cli-agent" OBVIOUS
  <2> QED BY <2>1, <2>2, <2>3 DEF AtIsToDo
<1>4. FailedAtStep(g) BY DEF FailedAtStep
<1> QED BY <1>1, <1>2, <1>3, <1>4 DEF DriverInv

(* A wizard with another pick, or another thing completed, put elsewhere.  *)
LEMMA PickedIs ==
  ASSUME NEW w \in Drivers, NEW r \in Runtimes
  PROVE  /\ Picked(w, r) \in Drivers /\ Picked(w, r).at = w.at
         /\ Picked(w, r).skip = w.skip /\ Picked(w, r).done = w.done
         /\ Picked(w, r).sg = w.sg /\ Picked(w, r).pick = r /\ Picked(w, r).failed = w.failed
BY DEF Picked, Drivers

LEMMA PickRuntimeKeeps == ASSUME SetupInv, SetupConstants, PickRuntime PROVE SetupInv'
<1>1. /\ wizard \in Drivers /\ DriverInv(wizard, agents) /\ RestTyped
      /\ CountedIsThere(wizard, machine) /\ TestIsOnTheWay /\ PickIsWished /\ UnmadeAreDefault
  BY PlaceOf
<1>2. "auth" \in StepNames BY NamesAre
<1>3. At("auth") /\ UNCHANGED <<agents, launches, strayed>> BY DEF PickRuntime
<1>4. /\ wizard.failed = "none" /\ wizard.at = "auth"
      /\ "auth" \notin wizard.skip \cup wizard.done
  BY <1>2, <1>3, AtStep
<1>5. PICK r \in Runtimes :
        /\ wish' = r
        /\ \/ /\ wizard' = [Picked(wizard, r) EXCEPT !.at = "sign-in"]
              /\ machine' = [machine EXCEPT !.payload = @ \/ r # "claude"]
              /\ UNCHANGED troubles
           \/ /\ r # "claude" /\ ~machine.payload
              /\ Trouble
              /\ wizard' = [Picked(wizard, r) EXCEPT !.failed = "add-runtime"]
              /\ UNCHANGED machine
  BY DEF PickRuntime
<1>6. machine \in Machines BY <1>1 DEF RestTyped
<1> DEFINE w == Picked(wizard, r)
<1>7. /\ w \in Drivers /\ w.at = "auth" /\ w.skip = wizard.skip /\ w.done = wizard.done
      /\ w.sg = wizard.sg /\ w.pick = r /\ w.failed = "none"
  BY <1>1, <1>4, PickedIs
<1>8. Rank("auth") = 4 /\ Rank("sign-in") = 4 /\ Failures["add-runtime"] = "auth"
  BY RankIs, StepsAt, FailuresAre
<1> HIDE DEF w
<1>9. /\ DriverInv(wizard', agents) /\ wizard'.at \in {"auth", "sign-in"}
      /\ wizard'.skip = wizard.skip /\ wizard'.done = wizard.done /\ wizard'.sg = wizard.sg
      /\ wizard'.pick = r
      /\ machine' \in Machines /\ Grows(machine, machine') /\ troubles' \in 0 .. MaxTroubles
  <2>1. CASE /\ wizard' = [w EXCEPT !.at = "sign-in"]
             /\ machine' = [machine EXCEPT !.payload = @ \/ r # "claude"]
             /\ UNCHANGED troubles
    <3>1. "sign-in" \in Places \cup {"idle"} BY PlacesAre
    <3>2. /\ wizard' \in Drivers /\ wizard'.at = "sign-in" /\ wizard'.skip = wizard.skip
          /\ wizard'.done = wizard.done /\ wizard'.sg = wizard.sg /\ wizard'.pick = r
          /\ wizard'.failed = "none"
      BY <1>7, <2>1, <3>1, PutAt
    <3>3. DriverInv(wizard', agents)
      BY <1>1, <1>4, <1>8, <3>2, WithinStep
    <3>4. PICK b \in BOOLEAN : machine' = [machine EXCEPT !.payload = b]
      <4>1. machine.payload \in BOOLEAN BY <1>6 DEF Machines
      <4>2. (machine.payload \/ r # "claude") \in BOOLEAN BY <4>1
      <4> QED BY <2>1, <4>2
    <3>5. machine' \in Machines /\ Grows(machine, machine')
      BY <1>6, <3>4 DEF Machines, Grows
    <3> QED BY <1>1, <2>1, <3>2, <3>3, <3>5 DEF RestTyped
  <2>2. CASE /\ Trouble
             /\ wizard' = [w EXCEPT !.failed = "add-runtime"]
             /\ UNCHANGED machine
    <3>1. "add-runtime" \in DOMAIN Failures BY FailuresAre
    <3>2. DriverInv(w, agents)
      BY <1>1, <1>4, <1>7 DEF DriverInv, BehindIsCounted, DoneIsBehind, AtIsToDo, FailedAtStep
    <3>3. /\ DriverInv(wizard', agents) /\ wizard'.at = "auth" /\ wizard'.skip = wizard.skip
          /\ wizard'.done = wizard.done /\ wizard'.sg = wizard.sg /\ wizard'.pick = r
      <4>1. Number("auth") = 4 BY NumberIs
      <4> QED BY <1>4, <1>7, <1>8, <2>2, <3>1, <3>2, <4>1, FailedIs
    <3>4. Grows(machine, machine') BY <2>2 DEF Grows
    <3>5. troubles' \in 0 .. MaxTroubles BY <2>2, TroubleTyped
    <3> QED BY <1>6, <2>2, <3>3, <3>4, <3>5
  <2> QED BY <1>5, <2>1, <2>2 DEF w
<1>10. DriverInv(wizard', agents') BY <1>3, <1>9
<1>11. RestTyped' BY <1>1, <1>3, <1>5, <1>9 DEF RestTyped
<1>12. CountedIsThere(wizard', machine') BY <1>1, <1>9 DEF CountedIsThere, Grows
<1>13. ReadyIsInstalled' BY <1>9 DEF ReadyIsInstalled
<1>14. TestIsOnTheWay' BY <1>1, <1>3, <1>4, <1>9 DEF TestIsOnTheWay
<1>15. PickIsWished' BY <1>5, <1>9 DEF PickIsWished
<1>16. UnmadeAreDefault' BY <1>1, <1>3 DEF UnmadeAreDefault
<1> QED BY <1>10, <1>11, <1>12, <1>13, <1>14, <1>15, <1>16, InvPartsNext

LEMMA AtSignIn ==
  ASSUME SetupInv, At("sign-in")
  PROVE  /\ wizard.failed = "none" /\ wizard.at = "sign-in" /\ Rank(wizard.at) = Number("auth")
         /\ "auth" \notin wizard.skip \cup wizard.done
BY PlaceOf, RankIs, NumberIs DEF At, DriverInv, AtIsToDo

(* The account is connected, or will be later.                             *)
LEMMA AuthKeeps ==
  ASSUME SetupInv, SetupConstants,
         AuthFound \/ SignIn \/ PasteAuth \/ CustomAuth \/ PayloadAuth \/ AuthSkipped
  PROVE  SetupInv'
<1> DEFINE e == "auth"
<1>1. e \in StepNames \ {"verify", "cli-agent"} /\ e \in Uncounted BY NamesAre DEF Uncounted
<1>2. At("sign-in")
  BY DEF AuthFound, SignIn, PasteAuth, CustomAuth, PayloadAuth, AuthSkipped, SigningIn
<1>3. machine \in Machines BY SameRest
<1>4. /\ Onward(Completed(wizard, e), e) \/ Onward(wizard, e)
      /\ machine' = [machine EXCEPT !.secret = TRUE] \/ machine' = machine
      /\ UNCHANGED <<agents, launches, troubles, setupHistVars>>
  <2>1. CASE \E c \in BOOLEAN : Connected(c) BY <2>1 DEF Connected
  <2>2. CASE AuthSkipped BY <2>2 DEF AuthSkipped
  <2> QED BY <2>1, <2>2 DEF AuthFound, SignIn, PasteAuth, CustomAuth, PayloadAuth
<1>5. machine' \in Machines /\ Grows(machine, machine')
  BY <1>3, <1>4 DEF Machines, Grows
<1>6. LeavesIt(e, wizard, machine') BY DEF LeavesIt
<1>7. troubles' \in 0 .. MaxTroubles BY <1>4, SameRest
<1>8. PICK w : /\ w = Completed(wizard, e) \/ w = wizard
               /\ wizard' = From(w, Number(e) + 1, agents)
  BY <1>4 DEF Onward
<1>9. wizard.at \notin {"ping", "cleanup"} BY <1>2, AtSignIn
<1> QED BY <1>1, <1>2, <1>4, <1>5, <1>6, <1>7, <1>8, <1>9, AtSignIn, OnwardStep

LEMMA AuthFailsKeeps == ASSUME SetupInv, SetupConstants, AuthFails PROVE SetupInv'
<1>1. "auth" \in StepNames \ {"verify"} BY NamesAre
<1>2. /\ At("sign-in") /\ Breaks("auth") /\ UNCHANGED <<machine, agents, launches, setupHistVars>>
  BY DEF AuthFails
<1>3. machine' \in Machines /\ Grows(machine, machine') BY <1>2, SameRest
<1>4. /\ wizard.at \notin {"idle", "ping", "cleanup", "end"} /\ wizard.at # "cli-agent"
      /\ wizard.failed = "none" /\ Rank(wizard.at) = Number("auth")
      /\ "auth" \notin wizard.skip \cup wizard.done
  BY <1>2, AtSignIn
<1> QED BY <1>1, <1>2, <1>3, <1>4, BreakStep

-----------------------------------------------------------------------------
(* The agents.                                                             *)

LEMMA CreatedIs ==
  ASSUME SetupInv, NEW n \in AgentNames
  PROVE  /\ Created(n) \in AgentRecords /\ Created(n).made /\ Created(n).wired
         /\ agents[n] \in AgentRecords
         /\ \A a \in HalfMade(n) : /\ a \in AgentRecords
                                   /\ a.wired = agents[n].wired
                                   /\ ~a.made => a = agents[n]
<1>1. wizard.pick \in Runtimes /\ agents[n] \in AgentRecords
  BY PlaceOf, SameRest DEF Drivers
<1>2. Created(n) \in AgentRecords /\ Created(n).made /\ Created(n).wired
  BY <1>1 DEF Created, AgentRecords
<1>3. PICK b \in BOOLEAN : b = agents[n].wired BY <1>1 DEF AgentRecords
<1> DEFINE h == [Created(n) EXCEPT !.wired = b]
<1> HIDE DEF Created
<1>4. h \in AgentRecords /\ h.made /\ h.wired = b BY <1>2, <1>3 DEF AgentRecords
<1> HIDE DEF h
<1>5. \A a \in HalfMade(n) : a = agents[n] \/ a = h BY <1>3 DEF HalfMade, h
<1> QED BY <1>1, <1>2, <1>3, <1>4, <1>5

(* One group's record changes.                                             *)
LEMMA OneAgent ==
  ASSUME SetupInv, NEW n \in AgentNames, NEW a \in AgentRecords,
         agents' = [agents EXCEPT ![n] = a], ~a.made => a.runtime = "claude"
  PROVE  /\ agents' \in [AgentNames -> AgentRecords] /\ UnmadeAreDefault'
         /\ agents'[n] = a /\ \A m \in AgentNames : m # n => agents'[m] = agents[m]
<1>1. agents \in [AgentNames -> AgentRecords] /\ UnmadeAreDefault BY PlaceOf, SameRest
<1>2. /\ agents' \in [AgentNames -> AgentRecords] /\ agents'[n] = a
      /\ \A m \in AgentNames : m # n => agents'[m] = agents[m]
  BY <1>1
<1>3. UnmadeAreDefault' BY <1>1, <1>2 DEF UnmadeAreDefault
<1> QED BY <1>2, <1>3

LEMMA HalfMadeStep ==
  ASSUME SetupInv, NEW n \in AgentNames, NEW a \in HalfMade(n),
         agents' = [agents EXCEPT ![n] = a]
  PROVE  /\ agents' \in [AgentNames -> AgentRecords] /\ UnmadeAreDefault'
         /\ Registered(agents') <=> Registered(agents)
         /\ \A m \in AgentNames : m # n => agents'[m] = agents[m]
<1>1. a \in AgentRecords /\ a.wired = agents[n].wired /\ (~a.made => a = agents[n])
  BY CreatedIs
<1>2. ~a.made => a.runtime = "claude" BY <1>1, PlaceOf DEF UnmadeAreDefault
<1>3. /\ agents' \in [AgentNames -> AgentRecords] /\ UnmadeAreDefault'
      /\ agents'[n] = a /\ \A m \in AgentNames : m # n => agents'[m] = agents[m]
  BY <1>1, <1>2, OneAgent
<1>4. \A m \in AgentNames : agents'[m].wired = agents[m].wired BY <1>1, <1>3
<1> QED BY <1>3, <1>4 DEF Registered

LEMMA CreatedStep ==
  ASSUME SetupInv, NEW n \in AgentNames, agents' = [agents EXCEPT ![n] = Created(n)]
  PROVE  /\ agents' \in [AgentNames -> AgentRecords] /\ UnmadeAreDefault'
         /\ Registered(agents')
         /\ \A m \in AgentNames : m # n => agents'[m] = agents[m]
<1>1. Created(n) \in AgentRecords /\ Created(n).made /\ Created(n).wired BY CreatedIs
<1> HIDE DEF Created
<1>2. /\ agents' \in [AgentNames -> AgentRecords] /\ UnmadeAreDefault'
      /\ agents'[n] = Created(n) /\ \A m \in AgentNames : m # n => agents'[m] = agents[m]
  BY <1>1, OneAgent
<1> QED BY <1>1, <1>2 DEF Registered

(* The wizard moves within its step; agents, troubles and strays as given. *)
LEMMA InnerStep ==
  ASSUME SetupInv, DriverInv(wizard', agents'),
         wizard'.at \notin {"idle", "end"}, wizard.at # "idle",
         wizard'.skip = wizard.skip, wizard'.done \subseteq wizard.done \cup {"cli-agent", "timezone"},
         wizard'.sg = wizard.sg, wizard'.pick = wizard.pick,
         agents' \in [AgentNames -> AgentRecords], UnmadeAreDefault',
         troubles' \in 0 .. MaxTroubles, strayed' \in BOOLEAN, TestIsOnTheWay',
         UNCHANGED <<machine, launches, wish>>
  PROVE  SetupInv'
<1>1. RestTyped /\ CountedIsThere(wizard, machine) /\ PickIsWished BY PlaceOf
<1>2. RestTyped' BY <1>1 DEF RestTyped
<1>3. CountedIsThere(wizard', machine') BY <1>1 DEF CountedIsThere
<1>4. ReadyIsInstalled' BY DEF ReadyIsInstalled
<1>5. PickIsWished' BY <1>1 DEF PickIsWished
<1> QED BY <1>2, <1>3, <1>4, <1>5, InvPartsNext

LEMMA CliAgentKeeps == ASSUME SetupInv, SetupConstants, CliAgent PROVE SetupInv'
<1> DEFINE e == "cli-agent"
<1>1. e \in StepNames /\ "test" \in AgentNames BY NamesAre DEF AgentNames
<1>2. /\ At(e) /\ machine' = machine /\ launches' = launches
      /\ wish' = wish /\ strayed' = strayed /\ UNCHANGED setupHistVars
  BY DEF CliAgent, setupHistVars
<1>3. /\ wizard.failed = "none" /\ wizard.at = e /\ Rank(wizard.at) = 7
      /\ e \notin wizard.skip \cup wizard.done
  BY <1>1, <1>2, AtStep, NumberIs
<1>4. wizard \in Drivers /\ DriverInv(wizard, agents) BY PlaceOf
<1>5. CASE /\ agents' = [agents EXCEPT !["test"] = Created("test")]
           /\ wizard' = [Completed(wizard, e) EXCEPT !.at = "ping"]
           /\ UNCHANGED troubles
  <2>1. agents' \in [AgentNames -> AgentRecords] /\ UnmadeAreDefault' /\ Registered(agents')
    BY <1>1, <1>5, CreatedStep
  <2> DEFINE w == Completed(wizard, e)
  <2>2. /\ w \in Drivers /\ w.skip = wizard.skip /\ w.done = wizard.done \cup {e}
        /\ w.sg = wizard.sg /\ w.pick = wizard.pick /\ w.failed = "none"
    BY <1>1, <1>3, <1>4, CompletedIs
  <2>3. wizard' = [w EXCEPT !.at = "ping"] BY <1>5
  <2> HIDE DEF w
  <2>4. /\ wizard' \in Drivers /\ wizard'.at = "ping" /\ wizard'.skip = wizard.skip
        /\ wizard'.done = wizard.done \cup {e}
        /\ wizard'.sg = wizard.sg /\ wizard'.pick = wizard.pick /\ wizard'.failed = "none"
    BY <2>2, <2>3, PlacesAre, PutAt
  <2>5. Rank("ping") = 7 /\ Steps[7] = e BY RankIs, StepsAt
  <2>6. DriverInv(wizard', agents) BY <1>3, <1>4, <2>4, <2>5, WithinStep
  <2>7. DriverInv(wizard', agents') BY <2>1, <2>4, <2>6, OtherAgents
  <2>8. TestIsOnTheWay' BY <2>4 DEF TestIsOnTheWay
  <2>9. troubles' \in 0 .. MaxTroubles /\ strayed' \in BOOLEAN BY <1>2, <1>5, SameRest
  <2>10. wizard'.done \subseteq wizard.done \cup {"cli-agent", "timezone"} BY <2>4
  <2>11. wizard'.at \notin {"idle", "end"} /\ wizard.at # "idle" BY <1>3, <2>4
  <2> QED BY <1>2, <2>1, <2>4, <2>7, <2>8, <2>9, <2>10, <2>11, InnerStep
<1>6. CASE /\ Breaks(e)
           /\ \E a \in HalfMade("test") : agents' = [agents EXCEPT !["test"] = a]
  <2>1. PICK a \in HalfMade("test") : agents' = [agents EXCEPT !["test"] = a] BY <1>6
  <2>2. /\ agents' \in [AgentNames -> AgentRecords] /\ UnmadeAreDefault'
        /\ Registered(agents') <=> Registered(agents)
    BY <1>1, <2>1, HalfMadeStep
  <2>3. ~Registered(agents') BY <1>3, <1>4, <2>2 DEF DriverInv, AtIsToDo
  <2>4. machine' \in Machines /\ Grows(machine, machine') BY <1>2, SameRest
  <2>5. troubles' \in 0 .. MaxTroubles BY <1>6, TroubleTyped DEF Breaks
  <2>6. e \in DOMAIN Failures /\ Failures[e] = e /\ Number(e) = 7
    BY <1>1, FailuresAre, NumberIs
  <2>7. wizard' = [wizard EXCEPT !.failed = e] BY <1>6 DEF Breaks
  <2>8. wizard.at \notin {"idle", "ping", "cleanup", "verify", "end"} BY <1>3
  <2> QED BY <1>2, <1>3, <2>2, <2>3, <2>4, <2>5, <2>6, <2>7, <2>8, FailStep
<1> QED BY <1>5, <1>6 DEF CliAgent

(* The wizard w put at another place of its step.                          *)
LEMMA MovedStep ==
  ASSUME SetupInv, NEW w \in Drivers, wizard.failed = "none",
         NEW p \in {"ping", "cleanup", "next", "timezone-save"}, wizard' = [w EXCEPT !.at = p],
         Rank(p) = Rank(wizard.at), w.skip = wizard.skip,
         wizard.done \subseteq w.done, w.done \subseteq wizard.done \cup {Steps[Rank(p)]},
         p \in {"ping", "cleanup", "next"} => "cli-agent" \in wizard.done,
         w.sg = wizard.sg, w.pick = wizard.pick, w.failed = "none"
  PROVE  /\ DriverInv(wizard', agents) /\ wizard'.at = p
         /\ wizard'.skip = wizard.skip /\ wizard'.done = w.done
         /\ wizard'.sg = wizard.sg /\ wizard'.pick = wizard.pick /\ wizard'.failed = "none"
<1>1. p \in Places \cup {"idle"} /\ p # "sign-in" BY PlacesAre
<1>2. /\ wizard' \in Drivers /\ wizard'.at = p
      /\ wizard'.skip = wizard.skip /\ wizard'.done = w.done
      /\ wizard'.sg = wizard.sg /\ wizard'.pick = wizard.pick /\ wizard'.failed = "none"
  BY <1>1, PutAt
<1>3. DriverInv(wizard, agents) BY PlaceOf
<1>4. DriverInv(wizard', agents)
  <2>1. p \in {"sign-in", "ping", "cleanup", "next", "timezone-save"} OBVIOUS
  <2>2. p \in {"ping", "cleanup", "next"} => "cli-agent" \in wizard'.done BY <1>2
  <2> QED BY <1>1, <1>2, <1>3, <2>1, <2>2, WithinStep
<1> QED BY <1>2, <1>4

LEMMA RepliesKeeps == ASSUME SetupInv, Replies PROVE SetupInv'
<1>1. /\ wizard.at = "ping" /\ wizard.failed = "none"
      /\ wizard' = [wizard EXCEPT !.at = "cleanup"]
      /\ UNCHANGED <<machine, agents, launches, troubles>> /\ wish' = wish /\ strayed' = strayed
  BY DEF Replies, At, setupHistVars
<1>2. wizard \in Drivers /\ DriverInv(wizard, agents) /\ UnmadeAreDefault BY PlaceOf
<1>3. "cli-agent" \in wizard.done BY <1>1, <1>2 DEF DriverInv, AtIsToDo
<1>4. Rank("ping") = 7 /\ Rank("cleanup") = 7 BY RankIs
<1>5. /\ DriverInv(wizard', agents) /\ wizard'.at = "cleanup"
      /\ wizard'.skip = wizard.skip /\ wizard'.done = wizard.done
      /\ wizard'.sg = wizard.sg /\ wizard'.pick = wizard.pick
  BY <1>1, <1>2, <1>3, <1>4, MovedStep
<1>6. DriverInv(wizard', agents') BY <1>1, <1>5
<1>7. TestIsOnTheWay' BY <1>5 DEF TestIsOnTheWay
<1>8. UnmadeAreDefault' BY <1>1, <1>2 DEF UnmadeAreDefault
<1>9. wizard'.at \notin {"idle", "end"} /\ wizard.at # "idle" BY <1>1, <1>5
<1> QED BY <1>1, <1>5, <1>6, <1>7, <1>8, <1>9, SameRest, InnerStep

(* No reply, or the choice to go on: the next step is the one after the    *)
(* terminal's agent, and no test agent is there unnoticed.                 *)
LEMMA PastCliAgent ==
  ASSUME SetupInv, wizard.at \in {"ping", "next"}, wizard.failed = "none",
         Onward(wizard, "cli-agent"),
         agents["test"].made => strayed', strayed' \in BOOLEAN,
         agents' \in [AgentNames -> AgentRecords], UnmadeAreDefault',
         agents'["test"] = agents["test"],
         Registered(agents) => Registered(agents'),
         troubles' \in 0 .. MaxTroubles, UNCHANGED <<machine, launches, wish>>
  PROVE  SetupInv'
<1>1. wizard \in Drivers /\ DriverInv(wizard, agents) BY PlaceOf
<1>2. "cli-agent" \in wizard.done BY <1>1 DEF DriverInv, AtIsToDo
<1>3. "cli-agent" \in StepNames \ {"verify"} BY NamesAre
<1>4. Rank(wizard.at) = Number("cli-agent") BY RankIs, NumberIs
<1>5. /\ DriverInv(wizard', agents) /\ wizard'.at \in StepNames
      /\ Number(wizard'.at) > Number("cli-agent")
      /\ wizard'.skip = wizard.skip /\ wizard'.done = wizard.done
      /\ wizard'.sg = wizard.sg /\ wizard'.pick = wizard.pick
  BY <1>1, <1>2, <1>3, <1>4, OnwardKeeps DEF Onward
<1>6. wizard'.at # "cli-agent" BY <1>5, NumberIs
<1>7. DriverInv(wizard', agents') BY <1>5, <1>6, OtherAgents
<1>8. wizard'.at \notin {"idle", "end"} /\ wizard.at # "idle" BY <1>5, NoSteps
<1>9. TestIsOnTheWay' BY DEF TestIsOnTheWay
<1> QED BY <1>5, <1>7, <1>8, <1>9, InnerStep

LEMMA NoReplyKeeps == ASSUME SetupInv, SetupConstants, NoReply PROVE SetupInv'
<1>1. /\ wizard.at = "ping" /\ wizard.failed = "none" /\ Onward(wizard, "cli-agent")
      /\ strayed' = TRUE /\ UNCHANGED <<machine, agents, launches, wish>>
  BY DEF NoReply, At
<1>2. troubles' \in 0 .. MaxTroubles
  <2>1. Trouble \/ UNCHANGED troubles BY DEF NoReply
  <2> QED BY <2>1, SameRest, TroubleTyped
<1>3. UnmadeAreDefault' BY <1>1, PlaceOf DEF UnmadeAreDefault
<1>4. agents' \in [AgentNames -> AgentRecords] BY <1>1, SameRest
<1> QED BY <1>1, <1>2, <1>3, <1>4, PastCliAgent

LEMMA CleanupKeeps == ASSUME SetupInv, SetupConstants, Cleanup PROVE SetupInv'
<1>1. /\ wizard.at = "cleanup" /\ wizard.failed = "none"
      /\ wizard' = [wizard EXCEPT !.at = "next"]
      /\ UNCHANGED <<machine, launches, wish>>
  BY DEF Cleanup, At
<1>2. /\ wizard \in Drivers /\ DriverInv(wizard, agents) /\ UnmadeAreDefault
      /\ agents \in [AgentNames -> AgentRecords]
  BY PlaceOf, SameRest
<1>3. "cli-agent" \in wizard.done BY <1>1, <1>2 DEF DriverInv, AtIsToDo
<1>4. Rank("cleanup") = 7 /\ Rank("next") = 7 BY RankIs
<1>5. /\ DriverInv(wizard', agents) /\ wizard'.at = "next"
      /\ wizard'.skip = wizard.skip /\ wizard'.done = wizard.done
      /\ wizard'.sg = wizard.sg /\ wizard'.pick = wizard.pick
  BY <1>1, <1>2, <1>3, <1>4, MovedStep
<1>6. DriverInv(wizard', agents')
  BY <1>3, <1>5, OtherAgents
<1>7. /\ agents' \in [AgentNames -> AgentRecords] /\ UnmadeAreDefault'
      /\ troubles' \in 0 .. MaxTroubles /\ strayed' \in BOOLEAN /\ TestIsOnTheWay'
  <2>1. CASE agents' = [agents EXCEPT !["test"] = NoAgent] /\ UNCHANGED <<troubles, strayed>>
    <3>1. "test" \in AgentNames BY DEF AgentNames
    <3>2. NoAgent \in AgentRecords /\ ~NoAgent.made /\ NoAgent.runtime = "claude"
      BY DEF NoAgent, AgentRecords, SetupConstants
    <3>3. /\ agents' \in [AgentNames -> AgentRecords] /\ UnmadeAreDefault'
          /\ agents'["test"] = NoAgent
      BY <2>1, <3>1, <3>2, OneAgent
    <3>4. TestIsOnTheWay' BY <3>2, <3>3 DEF TestIsOnTheWay
    <3> QED BY <2>1, <3>3, <3>4, SameRest
  <2>2. CASE Trouble /\ strayed' = TRUE /\ UNCHANGED agents
    <3>1. UnmadeAreDefault' BY <1>2, <2>2 DEF UnmadeAreDefault
    <3>2. TestIsOnTheWay' BY <2>2 DEF TestIsOnTheWay
    <3> QED BY <1>2, <2>2, <3>1, <3>2, TroubleTyped
  <2> QED BY <2>1, <2>2 DEF Cleanup
<1>8. wizard'.at \notin {"idle", "end"} /\ wizard.at # "idle" BY <1>1, <1>5
<1> QED BY <1>1, <1>5, <1>6, <1>7, <1>8, InnerStep

LEMMA WhatNextKeeps == ASSUME SetupInv, SetupConstants, WhatNext PROVE SetupInv'
<1>1. /\ wizard.at = "next" /\ wizard.failed = "none"
      /\ machine' = machine /\ launches' = launches /\ UNCHANGED setupHistVars
      /\ wish' = wish /\ strayed' = strayed
  BY DEF WhatNext, At, setupHistVars
<1>2. agents["test"].made => strayed BY <1>1, PlaceOf, PastTest
<1>3. "terminal" \in AgentNames /\ "test" \in AgentNames /\ "terminal" # "test"
  BY DEF AgentNames
<1>4. agents \in [AgentNames -> AgentRecords] /\ UnmadeAreDefault /\ strayed' \in BOOLEAN
  BY <1>1, PlaceOf, SameRest
<1>5. CASE Onward(wizard, "cli-agent") /\ UNCHANGED <<agents, troubles>>
  <2>1. UnmadeAreDefault' BY <1>4, <1>5 DEF UnmadeAreDefault
  <2>2. troubles' \in 0 .. MaxTroubles BY <1>5, SameRest
  <2> QED BY <1>1, <1>2, <1>4, <1>5, <2>1, <2>2, PastCliAgent
<1>6. CASE /\ agents' = [agents EXCEPT !["terminal"] = Created("terminal")]
           /\ Onward(wizard, "cli-agent") /\ UNCHANGED troubles
  <2>1. /\ agents' \in [AgentNames -> AgentRecords] /\ UnmadeAreDefault' /\ Registered(agents')
        /\ agents'["test"] = agents["test"]
    BY <1>3, <1>6, CreatedStep
  <2>2. troubles' \in 0 .. MaxTroubles BY <1>6, SameRest
  <2> QED BY <1>1, <1>2, <1>4, <1>6, <2>1, <2>2, PastCliAgent
<1>7. CASE /\ Breaks("create-terminal-agent")
           /\ \E a \in HalfMade("terminal") : agents' = [agents EXCEPT !["terminal"] = a]
  <2> DEFINE e == "create-terminal-agent"
  <2>1. PICK a \in HalfMade("terminal") : agents' = [agents EXCEPT !["terminal"] = a] BY <1>7
  <2>2. /\ agents' \in [AgentNames -> AgentRecords] /\ UnmadeAreDefault'
        /\ Registered(agents') <=> Registered(agents)
        /\ agents'["test"] = agents["test"]
    BY <1>3, <2>1, HalfMadeStep
  <2>3. machine' \in Machines /\ Grows(machine, machine') BY <1>1, SameRest
  <2>4. troubles' \in 0 .. MaxTroubles BY <1>7, TroubleTyped DEF Breaks
  <2>5. e \in DOMAIN Failures /\ Failures[e] = "cli-agent" BY FailuresAre
  <2>6. Rank(wizard.at) = Number(Failures[e]) BY <1>1, <2>5, RankIs, NumberIs
  <2>7. wizard' = [wizard EXCEPT !.failed = e] BY <1>7 DEF Breaks
  <2>8. wizard.at \notin {"idle", "ping", "cleanup", "verify", "end"} BY <1>1
  <2>9. wizard.at # "cli-agent" BY <1>1
  <2> QED BY <1>1, <2>2, <2>3, <2>4, <2>5, <2>6, <2>7, <2>8, <2>9, FailStep
<1> QED BY <1>5, <1>6, <1>7 DEF WhatNext

LEMMA TimezoneKeeps ==
  ASSUME SetupInv, SetupConstants, Timezone \/ TimezoneSave
  PROVE  SetupInv'
<1> DEFINE e == "timezone"
<1>1. e \in StepNames \ {"verify", "cli-agent"} /\ e \in Uncounted BY NamesAre DEF Uncounted
<1>2. /\ wizard.at = e \/ wizard.at = "timezone-save"
      /\ wizard.failed = "none"
      /\ UNCHANGED <<machine, agents, launches, setupHistVars>>
  BY DEF Timezone, TimezoneSave, At
<1>3. Rank(wizard.at) = 8 /\ Number(e) = 8 /\ Rank("timezone-save") = 8 /\ Steps[8] = e
  BY <1>1, <1>2, RankIs, NumberIs, StepsAt
<1>4. wizard \in Drivers BY PlaceOf
<1>5. machine' \in Machines /\ Grows(machine, machine') BY <1>2, SameRest
<1>6. LeavesIt(e, wizard, machine') BY DEF LeavesIt
<1>7. wizard.at \notin {"idle", "ping", "cleanup", "end"} /\ wizard.at # "cli-agent" BY <1>2
<1>8. ASSUME NEW w, w = Completed(wizard, e) \/ w = wizard, Onward(w, e), UNCHANGED troubles
      PROVE SetupInv'
  <2>1. troubles' \in 0 .. MaxTroubles BY <1>8, SameRest
  <2>2. wizard' = From(w, Number(e) + 1, agents) BY <1>8 DEF Onward
  <2>3. \/ w = Completed(wizard, e)
        \/ w = wizard /\ e \in Uncounted
    BY <1>1, <1>8
  <2> QED BY <1>1, <1>2, <1>3, <1>5, <1>6, <1>7, <2>1, <2>2, <2>3, OnwardStep
<1>9. CASE Breaks(e)
  BY <1>1, <1>2, <1>3, <1>5, <1>7, <1>9, BreakStep
<1>10. ASSUME NEW w, w = Completed(wizard, e) \/ w = wizard,
              wizard' = [w EXCEPT !.at = "timezone-save"], UNCHANGED troubles
       PROVE  SetupInv'
  <2>1. /\ w \in Drivers /\ w.skip = wizard.skip
        /\ wizard.done \subseteq w.done /\ w.done \subseteq wizard.done \cup {e}
        /\ w.sg = wizard.sg /\ w.pick = wizard.pick /\ w.failed = "none"
    BY <1>1, <1>2, <1>4, <1>10, CompletedIs
  <2>2. /\ DriverInv(wizard', agents) /\ wizard'.at = "timezone-save"
        /\ wizard'.skip = wizard.skip /\ wizard'.done = w.done
        /\ wizard'.sg = wizard.sg /\ wizard'.pick = wizard.pick
    <3>1. "timezone-save" \notin {"ping", "cleanup", "next"} OBVIOUS
    <3> QED BY <1>2, <1>3, <1>10, <2>1, <3>1, MovedStep
  <2>3. DriverInv(wizard', agents') BY <1>2, <2>2
  <2>4. agents["test"].made => strayed BY <1>3, PlaceOf, PastTest
  <2>5. TestIsOnTheWay' BY <1>2, <2>4 DEF TestIsOnTheWay, setupHistVars
  <2>6. UnmadeAreDefault' BY <1>2, PlaceOf DEF UnmadeAreDefault
  <2>7. wizard'.at \notin {"idle", "end"} /\ wizard.at # "idle" BY <1>7, <2>2
  <2>8. /\ troubles' \in 0 .. MaxTroubles /\ strayed' \in BOOLEAN
        /\ agents' \in [AgentNames -> AgentRecords]
        /\ UNCHANGED <<machine, launches, wish>>
    BY <1>2, <1>10, SameRest DEF setupHistVars
  <2>9. wizard'.done \subseteq wizard.done \cup {"cli-agent", "timezone"} BY <2>1, <2>2
  <2> QED BY <2>2, <2>3, <2>5, <2>6, <2>7, <2>8, <2>9, InnerStep
<1>11. \/ Breaks(e)
       \/ \E w \in {wizard, Completed(wizard, e)} :
            /\ Onward(w, e) \/ wizard' = [w EXCEPT !.at = "timezone-save"]
            /\ UNCHANGED troubles
  <2>1. CASE Timezone BY <2>1 DEF Timezone
  <2>2. CASE TimezoneSave BY <2>2 DEF TimezoneSave
  <2> QED BY <2>1, <2>2
<1> QED BY <1>8, <1>9, <1>10, <1>11

LEMMA ChannelKeeps == ASSUME SetupInv, SetupConstants, Channel PROVE SetupInv'
<1> DEFINE e == "channel"
<1>1. e \in StepNames \ {"verify"} /\ e \in Uncounted BY NamesAre DEF Uncounted
<1>2. /\ At(e) /\ machine' = machine /\ launches' = launches /\ UNCHANGED setupHistVars
      /\ wish' = wish /\ strayed' = strayed
  BY DEF Channel, setupHistVars
<1>3. /\ wizard.failed = "none" /\ wizard.at = e /\ Rank(wizard.at) = Number(e)
      /\ e \notin wizard.skip \cup wizard.done
  BY <1>1, <1>2, AtStep
<1>4. Number(e) = 9 /\ e # "cli-agent" BY NumberIs
<1>5. wizard \in Drivers /\ DriverInv(wizard, agents) /\ UnmadeAreDefault /\ RestTyped
  BY PlaceOf
<1>6. agents["test"].made => strayed BY <1>3, <1>4, PlaceOf, PastTest
<1>7. "first" \in AgentNames /\ "test" \in AgentNames /\ "first" # "test" BY DEF AgentNames
<1>8. ASSUME Onward(wizard, e), agents' \in [AgentNames -> AgentRecords], UnmadeAreDefault',
             Registered(agents) => Registered(agents'), agents'["test"] = agents["test"],
             UNCHANGED troubles
      PROVE  SetupInv'
  <2>1. /\ DriverInv(wizard', agents) /\ wizard'.at \in StepNames
        /\ Number(wizard'.at) > Number(e)
        /\ wizard'.skip = wizard.skip /\ wizard'.done = wizard.done
        /\ wizard'.sg = wizard.sg /\ wizard'.pick = wizard.pick
    BY <1>1, <1>3, <1>5, <1>8, OnwardKeeps DEF Onward
  <2>2. wizard'.at # "cli-agent" BY <1>4, <2>1, NumberIs
  <2>3. DriverInv(wizard', agents') BY <1>8, <2>1, <2>2, OtherAgents
  <2>4. wizard'.at \notin {"idle", "end"} /\ wizard.at # "idle" BY <1>3, <2>1, NoSteps
  <2>5. TestIsOnTheWay' BY <1>2, <1>6, <1>8 DEF TestIsOnTheWay
  <2>6. troubles' \in 0 .. MaxTroubles /\ strayed' \in BOOLEAN BY <1>2, <1>8, SameRest
  <2>7. UNCHANGED <<machine, launches, wish>> BY <1>2
  <2> QED BY <1>8, <2>1, <2>3, <2>4, <2>5, <2>6, <2>7, InnerStep
<1>9. CASE Onward(wizard, e) /\ UNCHANGED <<agents, troubles>>
  <2>1. UnmadeAreDefault' BY <1>5, <1>9 DEF UnmadeAreDefault
  <2>2. agents' \in [AgentNames -> AgentRecords] BY <1>9, SameRest
  <2> QED BY <1>8, <1>9, <2>1, <2>2
<1>10. CASE /\ agents' = [agents EXCEPT !["first"] = Created("first")]
            /\ Onward(wizard, e) /\ UNCHANGED troubles
  <2>1. /\ agents' \in [AgentNames -> AgentRecords] /\ UnmadeAreDefault' /\ Registered(agents')
        /\ agents'["test"] = agents["test"]
    BY <1>7, <1>10, CreatedStep
  <2> QED BY <1>8, <1>10, <2>1
<1>11. CASE /\ Breaks("init-first-agent")
            /\ \E a \in HalfMade("first") \cup {Created("first")} :
                 agents' = [agents EXCEPT !["first"] = a]
  <2>1. /\ agents' \in [AgentNames -> AgentRecords] /\ UnmadeAreDefault'
        /\ Registered(agents) => Registered(agents')
        /\ agents'["test"] = agents["test"]
    <3>1. CASE agents' = [agents EXCEPT !["first"] = Created("first")]
      BY <1>7, <3>1, CreatedStep
    <3>2. CASE \E a \in HalfMade("first") : agents' = [agents EXCEPT !["first"] = a]
      BY <1>7, <3>2, HalfMadeStep
    <3> QED BY <1>11, <3>1, <3>2
  <2>2. machine' \in Machines /\ Grows(machine, machine') BY <1>2, SameRest
  <2>3. troubles' \in 0 .. MaxTroubles BY <1>11, TroubleTyped DEF Breaks
  <2>4. "init-first-agent" \in DOMAIN Failures /\ Failures["init-first-agent"] = e
    BY FailuresAre
  <2>5. wizard' = [wizard EXCEPT !.failed = "init-first-agent"] BY <1>11 DEF Breaks
  <2>6. wizard.at \notin {"idle", "ping", "cleanup", "verify", "end"} BY <1>3
  <2>7. wizard.at # "cli-agent" /\ Rank(wizard.at) > 7 BY <1>3, <1>4
  <2> QED BY <1>2, <1>3, <2>1, <2>2, <2>3, <2>4, <2>5, <2>6, <2>7, FailStep
<1> QED BY <1>9, <1>10, <1>11 DEF Channel

-----------------------------------------------------------------------------
LEMMA SetupNext_Inv == ASSUME SetupInv, SetupConstants, SetupNext PROVE SetupInv'
BY LaunchKeeps, RetryKeeps, AbortKeeps, LeaveKeeps, EndKeeps, VerifyKeeps, EnvironmentKeeps,
   ContainerKeeps, ContainerFailsKeeps, OnecliKeeps, OnecliFailsKeeps, PickRuntimeKeeps,
   AuthKeeps, AuthFailsKeeps, MountsKeeps, ServiceKeeps, ServiceFailsKeeps, StartByHandKeeps,
   CliAgentKeeps, RepliesKeeps, NoReplyKeeps, CleanupKeeps, WhatNextKeeps, TimezoneKeeps,
   ChannelKeeps
   DEF SetupNext, WizardStep

LEMMA SetupStutters == ASSUME SetupInv, UNCHANGED setupVars PROVE SetupInv'
<1>1. /\ wizard' = wizard /\ machine' = machine /\ agents' = agents /\ launches' = launches
      /\ troubles' = troubles /\ wish' = wish /\ strayed' = strayed
  BY DEF setupVars, setupHistVars
<1>2. /\ DriverInv(wizard, agents) /\ RestTyped /\ CountedIsThere(wizard, machine)
      /\ ReadyIsInstalled /\ TestIsOnTheWay /\ PickIsWished /\ UnmadeAreDefault
  BY InvParts
<1>3. RestTyped' BY <1>1, <1>2 DEF RestTyped
<1>4. ReadyIsInstalled' BY <1>1, <1>2 DEF ReadyIsInstalled, Registered
<1>5. TestIsOnTheWay' BY <1>1, <1>2 DEF TestIsOnTheWay
<1>6. PickIsWished' /\ UnmadeAreDefault' BY <1>1, <1>2 DEF PickIsWished, UnmadeAreDefault
<1> QED BY <1>1, <1>2, <1>3, <1>4, <1>5, <1>6, InvPartsNext

LEMMA SetupInv_Safe == ASSUME SetupInv PROVE SetupSafe
<1>1. /\ DriverInv(wizard, agents) /\ CountedIsThere(wizard, machine) /\ TestIsOnTheWay
      /\ SetupTypeOK /\ ReadyIsInstalled
  BY InvParts DEF SetupInv
<1>2. DockerReached
  <2> SUFFICES ASSUME wizard.at \in {"onecli", "auth", "sign-in", "mounts", "service", "ping",
                                     "verify", "end"}
               PROVE  machine.docker = "ok" \/ wizard.sg
    BY DEF DockerReached
  <2>1. Rank(wizard.at) > 2
    <3>1. CASE wizard.at \in {"sign-in", "ping", "end"} BY <3>1, RankIs
    <3>2. CASE wizard.at \in {"onecli", "auth", "mounts", "service", "verify"}
      <4>1. wizard.at \in StepNames BY <3>2, NamesAre
      <4>2. Number(wizard.at) > 2
        <5>1. CASE wizard.at \in {"onecli", "auth", "mounts"} BY <5>1, NumberIs
        <5>2. CASE wizard.at \in {"service", "verify"} BY <5>2, NumberIs
        <5> QED BY <3>2, <5>1, <5>2
      <4> QED BY <4>1, <4>2, RankIs
    <3> QED BY <3>1, <3>2
  <2>2. Steps[2] \in wizard.skip \cup wizard.done \cup Uncounted
    BY <1>1, <2>1, StepsAt DEF DriverInv, BehindIsCounted
  <2> QED BY <1>1, <2>2, StepsAt DEF Uncounted, CountedIsThere
<1>3. TestAgentGoes
  <2> SUFFICES ASSUME wizard.at = "end", agents["test"].made PROVE strayed
    BY DEF TestAgentGoes
  <2> QED BY <1>1, RankIs, PastTest
<1> QED BY <1>1, <1>2, <1>3 DEF SetupSafe

LEMMA SetupInductive == SetupInit /\ [][SetupNext]_setupVars => []SetupInv
<1>1. SetupInit => SetupInv BY SetupInit_Inv, SetupConstants
<1>2. SetupInv /\ [SetupNext]_setupVars => SetupInv'
  BY SetupNext_Inv, SetupStutters, SetupConstants
<1> QED BY <1>1, <1>2, PTL

(* What the wizard leaves behind, whatever fails, is left or is retried:   *)
(* docker is reached past its step, "ready" is said of what is installed,  *)
(* and the test agent goes (setup/auto.ts).                                *)
THEOREM SetupIsSafe == SetupSpec => []SetupSafe
<1>1. SetupInv => SetupSafe BY SetupInv_Safe
<1> QED BY <1>1, SetupInductive, PTL DEF SetupSpec

-----------------------------------------------------------------------------
(* What a step may not do.                                                 *)

LEMMA AgentsChange ==
  ASSUME SetupInv, SetupNext
  PROVE  \/ agents' = agents
         \/ agents' = [agents EXCEPT !["test"] = NoAgent]
         \/ /\ wizard.at # "idle"
            /\ \E n \in AgentNames, a \in AgentRecords :
                 /\ agents' = [agents EXCEPT ![n] = a]
                 /\ a = Created(n) \/ a.wired = agents[n].wired
<1>1. "test" \in AgentNames /\ "terminal" \in AgentNames /\ "first" \in AgentNames
  BY DEF AgentNames
<1>2. \A n \in AgentNames : /\ Created(n) \in AgentRecords
                            /\ \A a \in HalfMade(n) : a \in AgentRecords /\ a.wired = agents[n].wired
  BY CreatedIs
<1>3. CASE CliAgent
  <2>1. wizard.at # "idle" BY <1>3 DEF CliAgent, At
  <2> QED BY <1>1, <1>2, <1>3, <2>1 DEF CliAgent
<1>4. CASE WhatNext
  <2>1. wizard.at # "idle" BY <1>4 DEF WhatNext, At
  <2> QED BY <1>1, <1>2, <1>4, <2>1 DEF WhatNext
<1>5. CASE Channel
  <2>1. wizard.at # "idle" BY <1>5 DEF Channel, At
  <2>2. \/ agents' = agents \/ agents' = [agents EXCEPT !["first"] = Created("first")]
        \/ \E a \in HalfMade("first") : agents' = [agents EXCEPT !["first"] = a]
    BY <1>5 DEF Channel
  <2> QED BY <1>1, <1>2, <2>1, <2>2
<1>6. CASE Cleanup BY <1>6 DEF Cleanup
<1>7. CASE Replies \/ NoReply BY <1>7 DEF Replies, NoReply
<1>8. CASE Timezone \/ TimezoneSave BY <1>8 DEF Timezone, TimezoneSave
<1>9. CASE Retry \/ Abort \/ End \/ Verify BY <1>9 DEF Retry, Abort, End, Verify
<1>10. CASE Launch \/ Leave \/ StartByHand BY <1>10 DEF Launch, Leave, StartByHand
<1>11. CASE Environment \/ Container \/ ContainerFails
  BY <1>11 DEF Environment, Container, ContainerFails
<1>12. CASE OnecliRemote \/ OnecliReused \/ OnecliFresh \/ OnecliFails
  BY <1>12 DEF OnecliRemote, OnecliReused, OnecliFresh, VaultKnown, OnecliFails
<1>13. CASE PickRuntime \/ AuthSkipped \/ AuthFails
  BY <1>13 DEF PickRuntime, AuthSkipped, AuthFails
<1>14. CASE AuthFound \/ SignIn \/ PasteAuth \/ CustomAuth \/ PayloadAuth
  BY <1>14 DEF AuthFound, SignIn, PasteAuth, CustomAuth, PayloadAuth, Connected
<1>15. CASE Mounts \/ ServiceFails BY <1>15 DEF Mounts, ServiceFails
<1>16. CASE Launchd \/ Systemd \/ Nohup BY <1>16 DEF Launchd, Systemd, Nohup, Serviced
<1> QED BY <1>3, <1>4, <1>5, <1>6, <1>7, <1>8, <1>9, <1>10, <1>11, <1>12, <1>13, <1>14,
           <1>15, <1>16 DEF SetupNext, WizardStep

LEMMA PickStep ==
  ASSUME SetupInv, SetupNext, NEW n \in AgentNames,
         agents'[n].wired, ~agents[n].wired, ~agents[n].made
  PROVE  agents'[n].runtime = wish
<1>1. agents \in [AgentNames -> AgentRecords] BY SameRest
<1>2. UnmadeAreDefault /\ PickIsWished BY PlaceOf
<1>3. CASE agents' = agents BY <1>3
<1>4. CASE agents' = [agents EXCEPT !["test"] = NoAgent]
  <2>1. ~NoAgent.wired BY DEF NoAgent
  <2>2. agents'[n] = NoAgent \/ agents'[n] = agents[n] BY <1>1, <1>4
  <2> QED BY <2>1, <2>2
<1>5. ASSUME wizard.at # "idle", NEW m \in AgentNames, NEW a \in AgentRecords,
             agents' = [agents EXCEPT ![m] = a], a = Created(m) \/ a.wired = agents[m].wired
      PROVE  agents'[n].runtime = wish
  <2>1. n = m /\ agents'[n] = a BY <1>1, <1>5
  <2>2. agents'[n] = Created(n) BY <1>5, <2>1
  <2>3. agents[n].runtime = "claude" BY <1>2 DEF UnmadeAreDefault
  <2>4. Created(n).runtime = wizard.pick BY <2>3 DEF Created
  <2> QED BY <1>2, <1>5, <2>2, <2>4 DEF PickIsWished
<1> QED BY <1>3, <1>4, <1>5, AgentsChange

(* Of a wizard that has failed nothing is heard but a retry or an end.     *)
LEMMA FailedMoves ==
  ASSUME SetupInv, SetupConstants, SetupNext, wizard.failed # "none"
  PROVE  Retry \/ wizard'.at = "idle" \/ wizard' = wizard
<1>1. wizard.at # "idle" BY PlaceOf DEF DriverInv, FailedAtStep
<1>2. ~Launch BY <1>1 DEF Launch
<1>3. CASE Abort \/ Leave BY <1>3, IdleIs DEF Abort, Leave
<1>4. CASE StartByHand BY <1>4 DEF StartByHand
<1>5. ~(End \/ Environment \/ Container \/ ContainerFails)
  BY DEF End, Environment, Container, ContainerFails, At
<1>6. ~(OnecliRemote \/ OnecliReused \/ OnecliFresh \/ OnecliFails)
  BY DEF OnecliRemote, OnecliReused, OnecliFresh, OnecliFails, At
<1>7. ~(PickRuntime \/ AuthFound \/ SignIn \/ PasteAuth \/ CustomAuth \/ PayloadAuth
        \/ AuthSkipped \/ AuthFails)
  BY DEF PickRuntime, AuthFound, SignIn, PasteAuth, CustomAuth, PayloadAuth, AuthSkipped,
         AuthFails, SigningIn, At
<1>8. ~(Mounts \/ Launchd \/ Systemd \/ Nohup \/ ServiceFails)
  BY DEF Mounts, Launchd, Systemd, Nohup, ServiceFails, At
<1>9. ~(CliAgent \/ Replies \/ NoReply \/ Cleanup \/ WhatNext)
  BY DEF CliAgent, Replies, NoReply, Cleanup, WhatNext, At
<1>10. ~(Timezone \/ TimezoneSave \/ Channel \/ Verify)
  BY DEF Timezone, TimezoneSave, Channel, Verify, At
<1> QED BY <1>2, <1>3, <1>4, <1>5, <1>6, <1>7, <1>8, <1>9, <1>10 DEF SetupNext, WizardStep

LEMMA RetryStep ==
  ASSUME SetupInv, SetupConstants, SetupNext,
         NEW e \in DOMAIN Failures \ {"timezone", "create-terminal-agent"},
         wizard.failed = e, wizard'.failed = "none", wizard'.at # "idle"
  PROVE  \/ wizard'.at = Failures[e]
         \/ wizard'.at \in {"auth", "timezone"} /\ Number(wizard'.at) < Number(Failures[e])
<1>1. wizard \in Drivers /\ DriverInv(wizard, agents) BY PlaceOf
<1>2. wizard.failed # "none" BY FailuresAre
<1>3. Retry BY <1>2, FailedMoves
<1>4. /\ wizard.at \notin {"idle", "ping", "cleanup", "verify", "end"}
      /\ Rank(wizard.at) = Number(Failures[e])
      /\ Failures[e] \notin wizard.skip \cup wizard.done
  BY <1>1, <1>2 DEF DriverInv, FailedAtStep
<1>5. "verify" \notin wizard.skip \cup wizard.done BY <1>1, <1>4, VerifyIsLast
<1>6. /\ DriverInv(wizard', agents) /\ wizard'.at \in StepNames
      /\ wizard'.skip = wizard.skip \cup wizard.done
      /\ \A j \in 1 .. 10 : j < Number(wizard'.at) => Steps[j] \in Passed(wizard', agents)
  BY <1>1, <1>3, <1>5, SuccessorKeeps DEF Retry
<1> DEFINE k == Number(wizard'.at)
           n == Number(Failures[e])
<1>7. Failures[e] \in StepNames
  <2>1. CASE e \in StepNames BY <2>1, FailuresAre
  <2>2. CASE e = "add-runtime" BY <2>2, FailuresAre, NamesAre
  <2>3. CASE e = "init-first-agent" BY <2>3, FailuresAre, NamesAre
  <2> QED BY <2>1, <2>2, <2>3, FailuresAre
<1>8. k \in 1 .. 10 /\ n \in 1 .. 10 /\ Steps[k] = wizard'.at /\ Steps[n] = Failures[e]
  BY <1>6, <1>7, NameNumber
<1>9. Steps[k] \notin wizard.skip \cup wizard.done /\ (Steps[k] = "cli-agent" => ~Registered(agents))
  BY <1>6, <1>8 DEF DriverInv, AtIsToDo
<1>10. CASE n < k
  <2>1. Steps[n] \in Passed(wizard', agents) BY <1>6, <1>8, <1>10
  <2>2. Steps[n] = "cli-agent" /\ Registered(agents) BY <1>4, <1>6, <1>8, <2>1 DEF Passed
  <2>3. Rank(wizard.at) = 7 BY <1>4, <1>8, <2>2, NumberIs
  <2>4. wizard.at # "cli-agent" BY <1>1, <2>2 DEF DriverInv, AtIsToDo
  <2>5. wizard.at # "next" BY <1>1, <1>4, <1>8, <2>2 DEF DriverInv, AtIsToDo
  <2>6. wizard.at \notin StepNames
    <3>1. CASE wizard.at \in StepNames
      <4>1. Steps[7] = wizard.at BY <2>3, <3>1, RankIs, NameNumber
      <4> QED BY <2>4, <4>1, StepsAt
    <3> QED BY <3>1
  <2>7. wizard.at \in {"sign-in", "timezone-save"}
    <3>1. wizard.at \in Places BY <1>1, <1>4 DEF Drivers
    <3> QED BY <1>4, <2>5, <2>6, <3>1, PlacesAre
  <2> QED BY <2>3, <2>7, RankIs
<1>11. CASE k = n BY <1>8, <1>11
<1>12. CASE k < n
  <2>1. \/ Steps[k] \in wizard.skip \cup wizard.done \cup Uncounted
        \/ Steps[k] = "cli-agent" /\ Registered(agents)
    BY <1>1, <1>4, <1>8, <1>12 DEF DriverInv, BehindIsCounted
  <2>2. wizard'.at \in Uncounted BY <1>8, <1>9, <2>1
  <2>3. wizard'.at # "channel"
    <3> SUFFICES ASSUME wizard'.at = "channel" PROVE FALSE OBVIOUS
    <3>1. n = 10 BY <1>8, <1>12, NumberIs
    <3>2. Rank(wizard.at) = 10 BY <1>4, <3>1
    <3>3. wizard.at \in StepNames
      <4>1. wizard.at \in Places BY <1>1, <1>4 DEF Drivers
      <4>2. wizard.at \notin {"sign-in", "ping", "cleanup", "next", "timezone-save", "end"}
        BY <3>2, RankIs
      <4> QED BY <4>1, <4>2, PlacesAre
    <3>4. Steps[10] = wizard.at BY <3>2, <3>3, RankIs, NameNumber
    <3> QED BY <1>4, <3>4, StepsAt
  <2> QED BY <1>12, <2>2, <2>3 DEF Uncounted
<1> QED BY <1>8, <1>10, <1>11, <1>12

LEMMA SetupSteps ==
  SetupInit /\ [][SetupNext]_setupVars => PickArrives /\ RetryResumes
<1>1. SetupInv /\ [SetupNext]_setupVars =>
        [\A n \in AgentNames :
           agents'[n].wired /\ ~agents[n].wired /\ ~agents[n].made
             => agents'[n].runtime = wish]_setupVars
  BY PickStep
<1>2. SetupInv /\ [SetupNext]_setupVars =>
        [\A e \in DOMAIN Failures \ {"timezone", "create-terminal-agent"} :
           wizard.failed = e /\ wizard'.failed = "none" /\ wizard'.at # "idle"
             => \/ wizard'.at = Failures[e]
                \/ wizard'.at \in {"auth", "timezone"}
                   /\ Number(wizard'.at) < Number(Failures[e])]_setupVars
  BY RetryStep, SetupConstants
<1> QED BY <1>1, <1>2, SetupInductive, PTL DEF PickArrives, RetryResumes

(* Every step: a group that becomes wired has the runtime its user picked  *)
(* last, also in a process that skips the question; and a retry resumes at *)
(* the step that failed or before it (setup/auto.ts).                      *)
THEOREM SetupKept == SetupSpec => PickArrives /\ RetryResumes
BY SetupSteps DEF SetupSpec

-----------------------------------------------------------------------------
(***************************************************************************)
(* The channel flows.                                                      *)
(***************************************************************************)

(* The step by which a flow has the service started on its channel.        *)
RestartAt ==
  [c \in ChannelNames |->
     CASE c = "telegram" -> 3 [] c = "discord" -> 8 [] c = "whatsapp" -> 5
       [] c = "signal" -> 5 [] c = "slack" -> 5 [] c = "imessage" -> 4 [] OTHER -> 9]

(* A flow is in its channel; before what touches the plant, but for the     *)
(* Teams app package, nothing has.                                         *)
InIsIn == (flow.how = "in") <=> (flow.chan # "none")

Untouched ==
  \/ flow.chan # "none" /\ flow.step = 1
  \/ flow.chan = "teams" /\ flow.step < 9
  => Bare(plant) = Bare(found)

(* The mode is chosen before its keys are written.                         *)
ModeChosen == flow.chan = "imessage" /\ flow.step > 1 => flow.mode \in {"local", "remote"}

(* What is built is in the tree, and a service that is down misses a       *)
(* package, which no later install brings.                                 *)
BuiltFromTree == plant.dist \subseteq plant.tree
DownForGood == Compiles(plant) => plant.service.up

(* The linked account and the adapter a flow has passed, so long as no     *)
(* failure was gone on from.                                               *)
LinkedOnTheWay ==
  flow.asides = {} =>
    /\ flow.chan = "whatsapp" /\ flow.step > 2 => "whatsapp" \in plant.tree
    /\ flow.chan = "whatsapp" /\ flow.step > 4 => plant.link = "linked"
    /\ flow.chan = "signal" /\ flow.step > 3 => "signal" \in plant.tree

(* Past its restart a flow's channel is in the tree, and the service has   *)
(* its adapter if that was built.                                          *)
StartedOnIt ==
  flow.chan # "none" /\ flow.asides = {} /\ ~unstarted /\ flow.step > RestartAt[flow.chan]
    => /\ flow.chan \in plant.tree
       /\ flow.chan \in plant.service.adapters \/ flow.chan \notin plant.dist

FlowType ==
  [chan : Offered \cup {"none"}, step : Nat, failed : BOOLEAN,
   asides : SUBSET (UNION {StepsOf(c) : c \in ChannelNames}), tries : 0 .. 5,
   mode : {"none", "local", "remote"}, how : {"start", "in", "done", "back", "gone"}]

PlantType ==
  [tree : SUBSET Offered, packages : SUBSET Packaged, dist : SUBSET Offered,
   app : {"none", "part", "whole"},
   keys : SUBSET Offered, says : {"none", "local", "remote"},
   modes : SUBSET {"local", "remote"}, cut : BOOLEAN,
   link : {"none", "half", "linked"}, account : BOOLEAN, cli : BOOLEAN,
   mac : BOOLEAN, wired : SUBSET Offered,
   service : [up : BOOLEAN, adapters : SUBSET Offered]]

FlowsInv ==
  /\ ChannelSetupTypeOK
  /\ InIsIn /\ Untouched /\ BackLeavesNoTrace /\ ModeChosen /\ OneMode
  /\ BuiltFromTree /\ DownForGood /\ LinkedOnTheWay /\ StartedOnIt

-----------------------------------------------------------------------------
(* The flows' steps by number.                                             *)
LEMMA FlowsAre ==
  /\ FlowOf["telegram"] = Telegram /\ FlowOf["discord"] = Discord
  /\ FlowOf["whatsapp"] = WhatsApp /\ FlowOf["signal"] = SignalApp
  /\ FlowOf["slack"] = Slack /\ FlowOf["imessage"] = IMessage /\ FlowOf["teams"] = Teams
<1>1. FlowOf["telegram"] = Telegram /\ FlowOf["discord"] = Discord
  BY DEF FlowOf, ChannelNames
<1>2. FlowOf["whatsapp"] = WhatsApp /\ FlowOf["signal"] = SignalApp
  BY DEF FlowOf, ChannelNames
<1>3. FlowOf["slack"] = Slack /\ FlowOf["imessage"] = IMessage
  BY DEF FlowOf, ChannelNames
<1>4. FlowOf["teams"] = Teams
  BY DEF FlowOf, ChannelNames
<1> QED
  BY <1>1, <1>2, <1>3, <1>4

LEMMA FlowLengths ==
  ASSUME NEW c \in ChannelNames
  PROVE  Len(FlowOf[c]) \in Nat \ {0} /\ DOMAIN FlowOf[c] = 1 .. Len(FlowOf[c])
<1>1. c = "telegram" \/ c = "discord" \/ c = "whatsapp" \/ c = "signal" \/ c = "slack"
      \/ c = "imessage" \/ c = "teams"
  BY DEF ChannelNames
<1>2. CASE c = "telegram"
  BY <1>2, FlowsAre DEF Telegram
<1>3. CASE c = "discord"
  BY <1>3, FlowsAre DEF Discord
<1>4. CASE c = "whatsapp"
  BY <1>4, FlowsAre DEF WhatsApp
<1>5. CASE c = "signal"
  BY <1>5, FlowsAre DEF SignalApp
<1>6. CASE c = "slack"
  BY <1>6, FlowsAre DEF Slack
<1>7. CASE c = "imessage"
  BY <1>7, FlowsAre DEF IMessage
<1>8. CASE c = "teams"
  BY <1>8, FlowsAre DEF Teams
<1> QED
  BY <1>1, <1>2, <1>3, <1>4, <1>5, <1>6, <1>7, <1>8

(* The steps after which something is relied on.                           *)
Critical == {"install", "mode", "number", "restart", "account"}

LEMMA CriticalSteps ==
  /\ FlowOf["telegram"][3] = "install" /\ FlowOf["discord"][8] = "install"
  /\ FlowOf["slack"][5] = "install" /\ FlowOf["imessage"][4] = "install"
  /\ FlowOf["teams"][9] = "install"
  /\ FlowOf["whatsapp"][5] = "restart" /\ FlowOf["whatsapp"][2] = "install"
  /\ FlowOf["whatsapp"][4] = "number"
  /\ FlowOf["signal"][3] = "install" /\ FlowOf["signal"][5] = "account"
  /\ FlowOf["imessage"][1] = "mode"
<1>1. FlowOf["telegram"][3] = "install" /\ FlowOf["discord"][8] = "install"
  BY FlowsAre DEF Telegram, Discord
<1>2. FlowOf["slack"][5] = "install" /\ FlowOf["imessage"][4] = "install"
  BY FlowsAre DEF Slack, IMessage
<1>3. FlowOf["teams"][9] = "install"
  BY FlowsAre DEF Teams
<1>4. FlowOf["whatsapp"][5] = "restart" /\ FlowOf["whatsapp"][2] = "install"
  BY FlowsAre DEF WhatsApp
<1>5. FlowOf["whatsapp"][4] = "number"
  BY FlowsAre DEF WhatsApp
<1>6. FlowOf["signal"][3] = "install" /\ FlowOf["signal"][5] = "account"
  BY FlowsAre DEF SignalApp
<1>7. FlowOf["imessage"][1] = "mode"
  BY FlowsAre DEF IMessage
<1> QED
  BY <1>1, <1>2, <1>3, <1>4, <1>5, <1>6, <1>7

LEMMA RestartSteps ==
  ASSUME NEW c \in ChannelNames
  PROVE  RestartAt[c] \in 2 .. 9 /\ FlowOf[c][RestartAt[c]] \in Critical
<1>1. c = "telegram" \/ c = "discord" \/ c = "whatsapp" \/ c = "signal" \/ c = "slack"
      \/ c = "imessage" \/ c = "teams"
  BY DEF ChannelNames
<1>2. CASE c = "telegram"
  <2>1. RestartAt[c] = 3
    BY <1>2 DEF RestartAt
  <2> QED
    BY <1>2, <2>1, CriticalSteps DEF Critical
<1>3. CASE c = "discord"
  <2>1. RestartAt[c] = 8
    BY <1>3 DEF RestartAt
  <2> QED
    BY <1>3, <2>1, CriticalSteps DEF Critical
<1>4. CASE c = "whatsapp"
  <2>1. RestartAt[c] = 5
    BY <1>4 DEF RestartAt
  <2> QED
    BY <1>4, <2>1, CriticalSteps DEF Critical
<1>5. CASE c = "signal"
  <2>1. RestartAt[c] = 5
    BY <1>5 DEF RestartAt
  <2> QED
    BY <1>5, <2>1, CriticalSteps DEF Critical
<1>6. CASE c = "slack"
  <2>1. RestartAt[c] = 5
    BY <1>6 DEF RestartAt
  <2> QED
    BY <1>6, <2>1, CriticalSteps DEF Critical
<1>7. CASE c = "imessage"
  <2>1. RestartAt[c] = 4
    BY <1>7 DEF RestartAt
  <2> QED
    BY <1>7, <2>1, CriticalSteps DEF Critical
<1>8. CASE c = "teams"
  <2>1. RestartAt[c] = 9
    BY <1>8 DEF RestartAt
  <2> QED
    BY <1>8, <2>1, CriticalSteps DEF Critical
<1> QED
  BY <1>1, <1>2, <1>3, <1>4, <1>5, <1>6, <1>7, <1>8

(* The questions that can be gone back from come before anything is done.  *)
LEMMA FirstQuestions ==
  /\ \A i \in DOMAIN FlowOf["telegram"] : FlowOf["telegram"][i] = "token" => i = 1
  /\ \A i \in DOMAIN FlowOf["discord"] : FlowOf["discord"][i] = "ask-bot" => i = 1
  /\ \A i \in DOMAIN FlowOf["whatsapp"] : FlowOf["whatsapp"][i] = "method" => i = 1
  /\ \A i \in DOMAIN FlowOf["signal"] : FlowOf["signal"][i] = "ready" => i = 1
  /\ \A i \in DOMAIN FlowOf["slack"] : FlowOf["slack"][i] = "app" => i = 1
  /\ \A i \in DOMAIN FlowOf["imessage"] : FlowOf["imessage"][i] = "mode" => i = 1
  /\ \A i \in DOMAIN FlowOf["teams"] : i < 9 \/ FlowOf["teams"][i] \in {"install", "finish"}
<1>1. \A i \in DOMAIN FlowOf["telegram"] : FlowOf["telegram"][i] = "token" => i = 1
  BY FlowsAre DEF Telegram
<1>2. \A i \in DOMAIN FlowOf["discord"] : FlowOf["discord"][i] = "ask-bot" => i = 1
  BY FlowsAre DEF Discord
<1>3. \A i \in DOMAIN FlowOf["whatsapp"] : FlowOf["whatsapp"][i] = "method" => i = 1
  BY FlowsAre DEF WhatsApp
<1>4. \A i \in DOMAIN FlowOf["signal"] : FlowOf["signal"][i] = "ready" => i = 1
  BY FlowsAre DEF SignalApp
<1>5. \A i \in DOMAIN FlowOf["slack"] : FlowOf["slack"][i] = "app" => i = 1
  BY FlowsAre DEF Slack
<1>6. \A i \in DOMAIN FlowOf["imessage"] : FlowOf["imessage"][i] = "mode" => i = 1
  BY FlowsAre DEF IMessage
<1>7. \A i \in DOMAIN FlowOf["teams"] : i < 9 \/ FlowOf["teams"][i] \in {"install", "finish"}
  BY FlowsAre DEF Teams
<1> QED
  BY <1>1, <1>2, <1>3, <1>4, <1>5, <1>6, <1>7

(* What touches the plant comes later.                                     *)
Touching == {"install", "restart", "link", "cli", "account", "init", "finish"}

LEMMA TouchingSteps ==
  ASSUME NEW c \in ChannelNames, NEW i \in DOMAIN FlowOf[c], FlowOf[c][i] \in Touching
  PROVE  i > 1 /\ (c = "teams" => i >= 9)
<1>0. i \in Nat \ {0}
  BY FlowLengths
<1>1. c = "telegram" \/ c = "discord" \/ c = "whatsapp" \/ c = "signal" \/ c = "slack"
      \/ c = "imessage" \/ c = "teams"
  BY DEF ChannelNames
<1>2. FlowOf[c][1] \notin Touching
  <2>1. "token" \notin Touching /\ "ask-bot" \notin Touching
    BY DEF Touching
  <2>2. "method" \notin Touching /\ "ready" \notin Touching
    BY DEF Touching
  <2>3. "app" \notin Touching /\ "mode" \notin Touching /\ "prereqs" \notin Touching
    BY DEF Touching
  <2>4. CASE c = "telegram" \/ c = "discord"
    BY <2>1, <2>4, FlowsAre DEF Telegram, Discord
  <2>5. CASE c = "whatsapp" \/ c = "signal"
    BY <2>2, <2>5, FlowsAre DEF WhatsApp, SignalApp
  <2>6. CASE c = "slack" \/ c = "imessage" \/ c = "teams"
    BY <2>3, <2>6, FlowsAre DEF Slack, IMessage, Teams
  <2> QED
    BY <1>1, <2>4, <2>5, <2>6
<1>3. CASE c = "teams"
  <2>1. "url" \notin Touching /\ "registration" \notin Touching /\ "secret" \notin Touching
    BY DEF Touching
  <2>2. "bot" \notin Touching /\ "enable" \notin Touching
    BY DEF Touching
  <2>3. "manifest" \notin Touching /\ "sideload" \notin Touching
    BY DEF Touching
  <2>4. /\ FlowOf[c][2] = "url" /\ FlowOf[c][3] = "registration" /\ FlowOf[c][4] = "secret"
    BY <1>3, FlowsAre DEF Teams
  <2>5. /\ FlowOf[c][5] = "bot" /\ FlowOf[c][6] = "enable"
    BY <1>3, FlowsAre DEF Teams
  <2>6. /\ FlowOf[c][7] = "manifest" /\ FlowOf[c][8] = "sideload"
    BY <1>3, FlowsAre DEF Teams
  <2>7. i # 1 /\ i # 2 /\ i # 3 /\ i # 4
    BY <1>2, <2>1, <2>4
  <2>8. i # 5 /\ i # 6 /\ i # 7 /\ i # 8
    BY <2>2, <2>3, <2>5, <2>6
  <2> QED
    BY <1>0, <2>7, <2>8
<1> QED
  BY <1>0, <1>2, <1>3

LEMMA OwnSteps ==
  /\ \A i \in DOMAIN FlowOf["whatsapp"] :
       /\ FlowOf["whatsapp"][i] = "install" => i = 2
       /\ FlowOf["whatsapp"][i] = "number" => i = 4
       /\ FlowOf["whatsapp"][i] = "restart" => i = 5
  /\ \A i \in DOMAIN FlowOf["signal"] :
       /\ FlowOf["signal"][i] = "install" => i = 3
       /\ FlowOf["signal"][i] = "account" => i = 5
  /\ 9 \in DOMAIN FlowOf["teams"]
<1>1. \A i \in DOMAIN FlowOf["whatsapp"] : FlowOf["whatsapp"][i] = "install" => i = 2
  BY FlowsAre DEF WhatsApp
<1>2. \A i \in DOMAIN FlowOf["whatsapp"] : FlowOf["whatsapp"][i] = "number" => i = 4
  BY FlowsAre DEF WhatsApp
<1>3. \A i \in DOMAIN FlowOf["whatsapp"] : FlowOf["whatsapp"][i] = "restart" => i = 5
  BY FlowsAre DEF WhatsApp
<1>4. \A i \in DOMAIN FlowOf["signal"] : FlowOf["signal"][i] = "install" => i = 3
  BY FlowsAre DEF SignalApp
<1>5. \A i \in DOMAIN FlowOf["signal"] : FlowOf["signal"][i] = "account" => i = 5
  BY FlowsAre DEF SignalApp
<1>6. 9 \in DOMAIN FlowOf["teams"]
  BY FlowsAre DEF Teams
<1> QED
  BY <1>1, <1>2, <1>3, <1>4, <1>5, <1>6

LEMMA ChannelBounds == Offered \subseteq ChannelNames /\ MaxVisits \in Nat /\ MaxMishaps \in Nat
BY ChannelConstants

LEMMA NoneIsNone == "none" \notin ChannelNames
BY DEF ChannelNames

LEMMA FlowTypeParts ==
  ASSUME ChannelSetupTypeOK
  PROVE  /\ flow \in FlowType /\ plant \in PlantType
         /\ flow.chan # "none" => flow.step \in DOMAIN FlowOf[flow.chan]
                                  /\ flow.asides \subseteq StepsOf(flow.chan)
         /\ visits \in 0 .. MaxVisits /\ mishaps \in 0 .. MaxMishaps /\ unstarted \in BOOLEAN
BY DEF ChannelSetupTypeOK, FlowType, PlantType

LEMMA FlowFields ==
  ASSUME NEW f \in FlowType
  PROVE  /\ f.chan \in Offered \cup {"none"} /\ f.step \in Nat /\ f.failed \in BOOLEAN
         /\ f.asides \in SUBSET (UNION {StepsOf(c) : c \in ChannelNames}) /\ f.tries \in 0 .. 5
         /\ f.mode \in {"none", "local", "remote"}
         /\ f.how \in {"start", "in", "done", "back", "gone"}
BY DEF FlowType

(* A flow over.                                                            *)
Over(g, how) ==
  g \in FlowType /\ g.chan = "none" /\ g.asides = {} /\ g.how = how

LEMMA EndedIs ==
  ASSUME NEW how \in {"start", "in", "done", "back", "gone"}, NEW g, g = Ended(how)
  PROVE  Over(g, how)
<1>1. g = [chan |-> "none", step |-> 0, failed |-> FALSE, asides |-> {}, tries |-> 0,
           mode |-> "none", how |-> how]
  BY DEF Ended, NoFlow
<1> QED
  BY <1>1 DEF Over, FlowType

(* The flow g goes on from f, at the same step or one that follows.        *)
OnTheWay(f, g) ==
  /\ g \in FlowType /\ g.chan = f.chan /\ g.how = f.how
  /\ g.step \in DOMAIN FlowOf[g.chan] /\ g.asides \subseteq StepsOf(g.chan)

LEMMA AheadIs ==
  ASSUME NEW f \in FlowType, f.chan # "none", f.step \in DOMAIN FlowOf[f.chan],
         f.asides \subseteq StepsOf(f.chan), NEW g, g = Ahead(f)
  PROVE  \/ Over(g, "done")
         \/ OnTheWay(f, g) /\ g.step = f.step + 1 /\ g.asides = f.asides /\ g.mode = f.mode
<1>1. f.chan \in ChannelNames
  BY FlowFields, ChannelBounds
<1>2. Len(FlowOf[f.chan]) \in Nat /\ DOMAIN FlowOf[f.chan] = 1 .. Len(FlowOf[f.chan])
  BY <1>1, FlowLengths
<1>3. CASE f.step = Len(FlowOf[f.chan])
  <2>1. g = Ended("done")
    BY <1>3 DEF Ahead
  <2> QED
    BY <2>1, EndedIs
<1>4. CASE f.step # Len(FlowOf[f.chan])
  <2>1. PICK k \in DOMAIN FlowOf[f.chan] : k = f.step + 1 /\ k \in Nat
    BY <1>2, <1>4
  <2>2. g = [f EXCEPT !.step = k]
    BY <1>4, <2>1 DEF Ahead
  <2>3. /\ g \in FlowType /\ g.chan = f.chan /\ g.how = f.how /\ g.step = k
        /\ g.asides = f.asides /\ g.mode = f.mode
    BY <2>1, <2>2 DEF FlowType
  <2> QED
    BY <2>1, <2>3 DEF OnTheWay
<1> QED
  BY <1>3, <1>4

LEMMA StumbledIs ==
  ASSUME NEW f \in FlowType, f.chan # "none", f.step \in DOMAIN FlowOf[f.chan],
         f.asides \subseteq StepsOf(f.chan), NEW g, g = Stumbled(f)
  PROVE  \/ Over(g, "done")
         \/ OnTheWay(f, g) /\ g.mode = f.mode /\ g.step = f.step + 1 /\ g.asides # {}
         \/ OnTheWay(f, g) /\ g.mode = f.mode /\ g.step = f.step /\ g.asides = f.asides
<1>1. f.chan \in ChannelNames
  BY FlowFields, ChannelBounds
<1>2. CASE f.chan \in Heedless
  <2>1. PICK x : x = FlowOf[f.chan][f.step]
    OBVIOUS
  <2>2. x \in StepsOf(f.chan)
    BY <2>1 DEF StepsOf
  <2>3. PICK S \in SUBSET (UNION {StepsOf(c) : c \in ChannelNames}) :
          S = f.asides \cup {x} /\ S \subseteq StepsOf(f.chan) /\ S # {}
    BY <1>1, <2>2
  <2>4. PICK h : h = [f EXCEPT !.asides = S]
    OBVIOUS
  <2>5. /\ h \in FlowType /\ h.chan = f.chan /\ h.how = f.how /\ h.step = f.step
        /\ h.asides = S /\ h.mode = f.mode
    BY <2>4 DEF FlowType
  <2>6. g = Ahead(h)
    BY <1>2, <2>1, <2>3, <2>4, Zenon DEF Stumbled
  <2>7. \/ Over(g, "done")
        \/ OnTheWay(h, g) /\ g.step = h.step + 1 /\ g.asides = h.asides /\ g.mode = h.mode
    BY <2>3, <2>5, <2>6, AheadIs
  <2> QED
    BY <2>3, <2>5, <2>7 DEF OnTheWay
<1>3. CASE f.chan \notin Heedless
  <2>1. g = [f EXCEPT !.failed = TRUE]
    BY <1>3 DEF Stumbled
  <2>2. /\ g \in FlowType /\ g.chan = f.chan /\ g.how = f.how /\ g.step = f.step
        /\ g.asides = f.asides /\ g.mode = f.mode
    BY <2>1 DEF FlowType
  <2> QED
    BY <2>2 DEF OnTheWay
<1> QED
  BY <1>2, <1>3

-----------------------------------------------------------------------------
(* A flow that is over, or goes on, keeps the invariant when the plant     *)
(* does.                                                                   *)
PlantOK(m) ==
  /\ m \in PlantType
  /\ m.cut \/ m.modes \subseteq {m.says}
  /\ m.dist \subseteq m.tree
  /\ Compiles(m) => m.service.up

PlantFollows == PlantOK(plant)

LEMMA OverKeeps ==
  ASSUME FlowsInv, NEW how \in {"done", "back", "gone"}, Over(flow', how),
         PlantFollows', how = "back" => Bare(plant') = Bare(found'),
         visits' \in 0 .. MaxVisits, mishaps' \in 0 .. MaxMishaps, unstarted' \in BOOLEAN
  PROVE  FlowsInv'
<1>0. flow' \in FlowType /\ flow'.chan = "none" /\ flow'.asides = {} /\ flow'.how = how
  BY DEF Over
<1>1. ChannelSetupTypeOK'
  BY <1>0 DEF ChannelSetupTypeOK, PlantFollows, PlantOK, FlowType, PlantType
<1>2. InIsIn'
  BY <1>0 DEF InIsIn
<1>3. Untouched'
  BY <1>0 DEF Untouched
<1>4. ModeChosen'
  BY <1>0 DEF ModeChosen
<1>5. LinkedOnTheWay'
  BY <1>0 DEF LinkedOnTheWay
<1>6. StartedOnIt'
  BY <1>0 DEF StartedOnIt
<1>7. BackLeavesNoTrace'
  BY <1>0 DEF BackLeavesNoTrace
<1> QED
  BY <1>1, <1>2, <1>3, <1>4, <1>5, <1>6, <1>7
     DEF FlowsInv, PlantFollows, PlantOK, OneMode, BuiltFromTree, DownForGood

LEMMA OnTheWayKeeps ==
  ASSUME FlowsInv, flow.chan # "none", OnTheWay(flow, flow'), PlantFollows',
         Untouched', ModeChosen', LinkedOnTheWay', StartedOnIt',
         visits' \in 0 .. MaxVisits, mishaps' \in 0 .. MaxMishaps, unstarted' \in BOOLEAN
  PROVE  FlowsInv'
<1>0. /\ flow' \in FlowType /\ flow'.chan = flow.chan /\ flow'.how = flow.how
      /\ flow'.step \in DOMAIN FlowOf[flow'.chan] /\ flow'.asides \subseteq StepsOf(flow'.chan)
  BY DEF OnTheWay
<1>1. ChannelSetupTypeOK'
  BY <1>0 DEF ChannelSetupTypeOK, PlantFollows, PlantOK, FlowType, PlantType
<1>2. flow.how = "in"
  BY DEF FlowsInv, InIsIn
<1>3. InIsIn' /\ BackLeavesNoTrace'
  BY <1>0, <1>2 DEF InIsIn, BackLeavesNoTrace
<1> QED
  BY <1>1, <1>3 DEF FlowsInv, PlantFollows, PlantOK, OneMode, BuiltFromTree, DownForGood

LEMMA PlantStays ==
  ASSUME FlowsInv, plant' = plant PROVE PlantFollows'
BY FlowTypeParts DEF FlowsInv, PlantFollows, PlantOK, OneMode, BuiltFromTree, DownForGood

(* What a step does to the plant, if anything, does not bear on its        *)
(* adapters.                                                               *)
Alike ==
  /\ PlantFollows'
  /\ plant'.tree = plant.tree /\ plant'.dist = plant.dist
  /\ plant'.service.adapters = plant.service.adapters
  /\ plant.link = "linked" => plant'.link = "linked"
  /\ Bare(plant') = Bare(plant) \/ FlowOf[flow.chan][flow.step] \in Touching

LEMMA StayingAlike ==
  ASSUME FlowsInv, plant' = plant PROVE Alike
BY PlantStays DEF Alike

(* The flow stays at its step, or stumbles on.                             *)
LEMMA StumblingKeeps ==
  ASSUME FlowsInv, flow.chan # "none", OnTheWay(flow, flow'), flow'.mode = flow.mode,
         \/ flow'.step = flow.step /\ flow'.asides = flow.asides
         \/ flow'.step = flow.step + 1 /\ flow'.asides # {},
         Alike, found' = found, unstarted' = unstarted,
         visits' \in 0 .. MaxVisits, mishaps' \in 0 .. MaxMishaps,
         flow.step = 1 => flow'.step = 1 \/ flow.chan # "imessage"
  PROVE  FlowsInv'
<1>0. /\ flow'.chan = flow.chan /\ flow.step \in Nat /\ flow'.step \in Nat
      /\ flow.step \in DOMAIN FlowOf[flow.chan] /\ flow.chan \in ChannelNames
      /\ unstarted \in BOOLEAN
  BY FlowTypeParts, FlowFields, ChannelBounds DEF FlowsInv, OnTheWay
<1>1. flow.step >= 1
  BY <1>0, FlowLengths
<1>2. PlantFollows'
  BY DEF Alike
<1>3. Untouched'
  BY <1>0, <1>1, TouchingSteps DEF FlowsInv, Untouched, Alike
<1>4. ModeChosen'
  BY <1>0, <1>1 DEF FlowsInv, ModeChosen
<1>5. LinkedOnTheWay'
  BY <1>0 DEF FlowsInv, LinkedOnTheWay, Alike
<1>6. StartedOnIt'
  BY <1>0 DEF FlowsInv, StartedOnIt, Alike
<1> QED
  BY <1>0, <1>2, <1>3, <1>4, <1>5, <1>6, OnTheWayKeeps

(* A step on which nothing that follows relies is gone on from.            *)
LEMMA PlainGoesKeeps ==
  ASSUME FlowsInv, flow.chan # "none", Goes, FlowOf[flow.chan][flow.step] \notin Critical,
         Alike, found' = found, unstarted' = unstarted,
         visits' \in 0 .. MaxVisits, mishaps' \in 0 .. MaxMishaps
  PROVE  FlowsInv'
<1>0. /\ flow.step \in Nat /\ flow \in FlowType
      /\ flow.step \in DOMAIN FlowOf[flow.chan] /\ flow.chan \in ChannelNames
      /\ flow.asides \subseteq StepsOf(flow.chan)
      /\ unstarted \in BOOLEAN
  BY FlowTypeParts, FlowFields, ChannelBounds DEF FlowsInv
<1>1. flow.step >= 1
  BY <1>0, FlowLengths
<1>2. PlantFollows'
  BY DEF Alike
<1>3. \/ Over(flow', "done")
      \/ /\ OnTheWay(flow, flow') /\ flow'.step = flow.step + 1
         /\ flow'.asides = flow.asides /\ flow'.mode = flow.mode
  BY <1>0, AheadIs DEF Goes
<1>4. CASE Over(flow', "done")
  BY <1>0, <1>2, <1>4, OverKeeps
<1>5. CASE /\ OnTheWay(flow, flow') /\ flow'.step = flow.step + 1
           /\ flow'.asides = flow.asides /\ flow'.mode = flow.mode
  <2>0. flow'.chan = flow.chan
    BY <1>5 DEF OnTheWay
  <2>1. Untouched'
    BY <1>0, <1>1, <1>5, <2>0, TouchingSteps DEF FlowsInv, Untouched, Alike
  <2>2. flow.chan = "imessage" => flow.step # 1
    BY CriticalSteps DEF Critical
  <2>3. ModeChosen'
    BY <1>0, <1>1, <1>5, <2>0, <2>2 DEF FlowsInv, ModeChosen
  <2>4. /\ flow.chan = "whatsapp" => flow.step # 2 /\ flow.step # 4
        /\ flow.chan = "signal" => flow.step # 3
    BY CriticalSteps DEF Critical
  <2>5. LinkedOnTheWay'
    <3>1. flow.chan = "whatsapp" /\ flow.step + 1 > 2 => flow.step > 2
      BY <1>0, <2>4
    <3>2. flow.chan = "whatsapp" /\ flow.step + 1 > 4 => flow.step > 4
      BY <1>0, <2>4
    <3>3. flow.chan = "signal" /\ flow.step + 1 > 3 => flow.step > 3
      BY <1>0, <2>4
    <3> QED
      BY <1>5, <2>0, <3>1, <3>2, <3>3 DEF FlowsInv, LinkedOnTheWay, Alike
  <2>6. StartedOnIt'
    <3>1. RestartAt[flow.chan] \in 2 .. 9 /\ flow.step # RestartAt[flow.chan]
      BY <1>0, RestartSteps
    <3>2. flow.step + 1 > RestartAt[flow.chan] => flow.step > RestartAt[flow.chan]
      BY <1>0, <3>1
    <3> QED
      BY <1>5, <2>0, <3>2 DEF FlowsInv, StartedOnIt, Alike
  <2> QED
    BY <1>0, <1>2, <1>5, <2>1, <2>3, <2>5, <2>6, OnTheWayKeeps
<1> QED
  BY <1>3, <1>4, <1>5

-----------------------------------------------------------------------------
(* What the scripts make of the plant.                                     *)
LEMMA PlantFields ==
  ASSUME NEW m \in PlantType
  PROVE  /\ m.tree \subseteq Offered /\ m.packages \subseteq Packaged /\ m.dist \subseteq Offered
         /\ m.keys \subseteq Offered /\ m.modes \subseteq {"local", "remote"}
         /\ m.link \in {"none", "half", "linked"} /\ m.wired \subseteq Offered
         /\ m.service \in [up : BOOLEAN, adapters : SUBSET Offered]
BY DEF PlantType

LEMMA CopiedIs ==
  ASSUME NEW m \in PlantType, NEW c \in Offered, NEW n, n = Copied(m, c)
  PROVE  /\ n \in PlantType /\ n.tree = m.tree \cup {c}
         /\ n.packages = m.packages /\ n.dist = m.dist /\ n.keys = m.keys /\ n.modes = m.modes /\ n.says = m.says /\ n.cut = m.cut
         /\ n.link = m.link /\ n.wired = m.wired /\ n.service = m.service
<1>1. PICK T \in SUBSET Offered : T = m.tree \cup {c}
  BY PlantFields
<1>2. n = [m EXCEPT !.tree = T]
  BY <1>1 DEF Copied
<1> QED
  BY <1>1, <1>2 DEF PlantType

LEMMA PackedIs ==
  ASSUME NEW m \in PlantType, NEW c \in Offered, NEW n, n = Packed(m, c)
  PROVE  /\ n \in PlantType /\ n.tree = m.tree \cup {c}
         /\ n.packages = m.packages \cup ({c} \cap Packaged)
         /\ n.dist = m.dist /\ n.keys = m.keys /\ n.modes = m.modes /\ n.says = m.says /\ n.cut = m.cut
         /\ n.link = m.link /\ n.wired = m.wired /\ n.service = m.service
<1>1. PICK k : k = Copied(m, c)
  OBVIOUS
<1>2. /\ k \in PlantType /\ k.tree = m.tree \cup {c}
      /\ k.packages = m.packages /\ k.dist = m.dist /\ k.keys = m.keys /\ k.modes = m.modes /\ k.says = m.says /\ k.cut = m.cut
      /\ k.link = m.link /\ k.wired = m.wired /\ k.service = m.service
  BY <1>1, CopiedIs
<1>3. PICK P \in SUBSET Packaged : P = k.packages \cup ({c} \cap Packaged)
  BY <1>2, PlantFields
<1>4. n = [k EXCEPT !.packages = P]
  BY <1>1, <1>3, Zenon DEF Packed
<1>5. /\ n \in PlantType /\ n.tree = k.tree /\ n.packages = P
      /\ n.dist = k.dist /\ n.keys = k.keys /\ n.modes = k.modes /\ n.says = k.says /\ n.cut = k.cut
      /\ n.link = k.link /\ n.wired = k.wired /\ n.service = k.service
  BY <1>2, <1>4 DEF PlantType
<1> QED
  BY <1>2, <1>3, <1>5

LEMMA CompiledIs ==
  ASSUME NEW m \in PlantType, NEW n, n = Compiled(m)
  PROVE  /\ n \in PlantType /\ n.tree = m.tree /\ n.packages = m.packages
         /\ n.dist = m.tree /\ n.keys = m.keys /\ n.modes = m.modes /\ n.says = m.says /\ n.cut = m.cut
         /\ n.link = m.link /\ n.wired = m.wired /\ n.service = m.service
<1>1. PICK T \in SUBSET Offered : T = m.tree
  BY PlantFields
<1>2. n = [m EXCEPT !.dist = T]
  BY <1>1 DEF Compiled
<1> QED
  BY <1>1, <1>2 DEF PlantType

(* What naming the mode, giving its keys, and all of it make of .env.      *)
LEMMA KeyedIs ==
  ASSUME NEW m \in PlantType, NEW c \in Offered,
         c = "imessage" => flow.mode \in {"local", "remote"}, NEW n, n = Keyed(m, c)
  PROVE  /\ n \in PlantType /\ n.tree = m.tree /\ n.packages = m.packages
         /\ n.dist = m.dist /\ n.keys = m.keys \cup {c}
         /\ n.modes \subseteq {n.says} \/ (n.modes = m.modes /\ n.says = m.says /\ n.cut = m.cut)
         /\ n.link = m.link /\ n.wired = m.wired /\ n.service = m.service
<1>1. PICK K \in SUBSET Offered : K = m.keys \cup {c}
  BY PlantFields
<1>2. CASE c = "imessage"
  <2>1. PICK s \in {"local", "remote"} : s = flow.mode
    BY <1>2
  <2>2. n = [m EXCEPT !.keys = K, !.says = s, !.modes = {s}, !.cut = FALSE]
    BY <1>1, <1>2, <2>1 DEF Keyed
  <2>3. PICK M \in SUBSET {"local", "remote"} : M = {s}
    OBVIOUS
  <2>4. PICK j : j = [m EXCEPT !.keys = K, !.says = s]
    OBVIOUS
  <2>5. /\ j \in PlantType /\ j.tree = m.tree /\ j.packages = m.packages /\ j.dist = m.dist
        /\ j.keys = K /\ j.says = s
        /\ j.link = m.link /\ j.wired = m.wired /\ j.service = m.service
    BY <2>4 DEF PlantType
  <2>6. PICK k : k = [j EXCEPT !.modes = M]
    OBVIOUS
  <2>7. /\ k \in PlantType /\ k.tree = m.tree /\ k.packages = m.packages /\ k.dist = m.dist
        /\ k.keys = K /\ k.says = s /\ k.modes = M
        /\ k.link = m.link /\ k.wired = m.wired /\ k.service = m.service
    BY <2>5, <2>6 DEF PlantType
  <2>8. n = [k EXCEPT !.cut = FALSE]
    BY <2>2, <2>3, <2>4, <2>6 DEF PlantType
  <2>9. /\ n \in PlantType /\ n.tree = k.tree /\ n.packages = k.packages /\ n.dist = k.dist
        /\ n.keys = k.keys /\ n.says = k.says /\ n.modes = k.modes
        /\ n.link = k.link /\ n.wired = k.wired /\ n.service = k.service
    BY <2>7, <2>8 DEF PlantType
  <2> QED
    BY <1>1, <2>3, <2>7, <2>9
<1>3. CASE c # "imessage"
  <2>1. n = [m EXCEPT !.keys = K]
    BY <1>1, <1>3 DEF Keyed
  <2> QED
    BY <1>1, <2>1 DEF PlantType
<1> QED
  BY <1>2, <1>3

LEMMA NamedIs ==
  ASSUME NEW m \in PlantType, "imessage" \in Offered, flow.mode \in {"local", "remote"},
         NEW n \in {Named(m), Given(m)}
  PROVE  /\ n \in PlantType /\ n.tree = m.tree /\ n.packages = m.packages /\ n.dist = m.dist
         /\ n.cut /\ n.wired = m.wired /\ n.service = m.service
<1>1. PICK s \in {"local", "remote"} : s = flow.mode
  OBVIOUS
<1>2. \E K \in SUBSET Offered, M \in SUBSET {"local", "remote"} :
        n = [m EXCEPT !.keys = K, !.says = s, !.modes = M, !.cut = TRUE]
  <2>1. CASE n = Named(m)
    <3>1. PICK K \in SUBSET Offered :
            K = IF s \in m.modes THEN m.keys \cup {"imessage"} ELSE m.keys \ {"imessage"}
      BY PlantFields
    <3>2. n = [m EXCEPT !.says = s, !.cut = TRUE, !.keys = K]
      BY <1>1, <2>1, <3>1, Zenon DEF Named
    <3>3. n = [m EXCEPT !.keys = K, !.says = s, !.modes = m.modes, !.cut = TRUE]
      BY <3>2 DEF PlantType
    <3>4. m.modes \in SUBSET {"local", "remote"}
      BY PlantFields
    <3> QED
      BY <3>3, <3>4
  <2>2. CASE n = Given(m)
    <3>1. PICK K \in SUBSET Offered : K = m.keys \cup {"imessage"}
      BY PlantFields
    <3>2. PICK M \in SUBSET {"local", "remote"} : M = m.modes \cup {s}
      BY PlantFields
    <3>3. n = [m EXCEPT !.says = s, !.cut = TRUE, !.keys = K, !.modes = M]
      BY <1>1, <2>2, <3>1, <3>2, Zenon DEF Given
    <3>4. n = [m EXCEPT !.keys = K, !.says = s, !.modes = M, !.cut = TRUE]
      BY <3>3 DEF PlantType
    <3> QED
      BY <3>4
  <2> QED
    BY <2>1, <2>2
<1>3. PICK K \in SUBSET Offered, M \in SUBSET {"local", "remote"} :
        n = [m EXCEPT !.keys = K, !.says = s, !.modes = M, !.cut = TRUE]
  BY <1>2
<1>4. PICK j : j = [m EXCEPT !.keys = K, !.says = s]
  OBVIOUS
<1>5. /\ j \in PlantType /\ j.tree = m.tree /\ j.packages = m.packages /\ j.dist = m.dist
      /\ j.wired = m.wired /\ j.service = m.service
  BY <1>4 DEF PlantType
<1>6. PICK k : k = [j EXCEPT !.modes = M]
  OBVIOUS
<1>7. /\ k \in PlantType /\ k.tree = m.tree /\ k.packages = m.packages /\ k.dist = m.dist
      /\ k.wired = m.wired /\ k.service = m.service
  BY <1>5, <1>6 DEF PlantType
<1>8. n = [k EXCEPT !.cut = TRUE]
  BY <1>3, <1>4, <1>6 DEF PlantType
<1>9. /\ n \in PlantType /\ n.tree = k.tree /\ n.packages = k.packages /\ n.dist = k.dist
      /\ n.cut /\ n.wired = k.wired /\ n.service = k.service
  BY <1>7, <1>8 DEF PlantType
<1> QED
  BY <1>7, <1>9

LEMMA RestartedIs ==
  ASSUME NEW m \in PlantType, NEW n, n = Restarted(m)
  PROVE  /\ n \in PlantType /\ n.tree = m.tree /\ n.packages = m.packages
         /\ n.dist = m.dist /\ n.keys = m.keys /\ n.modes = m.modes /\ n.says = m.says /\ n.cut = m.cut
         /\ n.link = m.link /\ n.wired = m.wired
         /\ n.service.up = (m.dist \cap Packaged \subseteq m.packages)
         /\ \A c \in m.dist : c \in n.service.adapters <=>
              IF c = "whatsapp" THEN m.link = "linked" ELSE c \in m.keys
<1>1. PICK U \in BOOLEAN : U = (m.dist \cap Packaged \subseteq m.packages)
  OBVIOUS
<1>2. PICK A \in SUBSET Offered :
        A = {c \in m.dist : IF c = "whatsapp" THEN m.link = "linked" ELSE c \in m.keys}
  BY PlantFields
<1>3. PICK s : s = [up |-> U, adapters |-> A]
  OBVIOUS
<1>4. n = [m EXCEPT !.service = s]
  BY <1>1, <1>2, <1>3, Zenon DEF Restarted
<1>5. /\ s \in [up : BOOLEAN, adapters : SUBSET Offered]
      /\ s.up = U /\ s.adapters = A
  BY <1>3
<1>6. /\ n \in PlantType /\ n.tree = m.tree /\ n.packages = m.packages
      /\ n.dist = m.dist /\ n.keys = m.keys /\ n.modes = m.modes /\ n.says = m.says /\ n.cut = m.cut
      /\ n.link = m.link /\ n.wired = m.wired /\ n.service = s
  BY <1>4, <1>5 DEF PlantType
<1>7. \A c \in m.dist : c \in A <=> IF c = "whatsapp" THEN m.link = "linked" ELSE c \in m.keys
  BY <1>2
<1> QED
  BY <1>1, <1>5, <1>6, <1>7

LEMMA WiredIs ==
  ASSUME NEW m \in PlantType, NEW c \in Offered, NEW n, n = Wired(m, c)
  PROVE  /\ n \in PlantType /\ n.tree = m.tree /\ n.packages = m.packages
         /\ n.dist = m.dist /\ n.keys = m.keys /\ n.modes = m.modes /\ n.says = m.says /\ n.cut = m.cut
         /\ n.link = m.link /\ n.wired = m.wired \cup {c} /\ n.service = m.service
<1>1. PICK W \in SUBSET Offered : W = m.wired \cup {c}
  BY PlantFields
<1>2. n = [m EXCEPT !.wired = W]
  BY <1>1 DEF Wired
<1> QED
  BY <1>1, <1>2 DEF PlantType

(* The service's package is missing for good.                              *)
LEMMA PackedOK ==
  ASSUME NEW m, PlantOK(m), NEW c \in Offered, NeedsInstall(m, c) \/ c = "signal",
         NEW n \in {Copied(m, c), Packed(m, c), Compiled(Packed(m, c))}
  PROVE  /\ PlantOK(n) /\ n.tree = m.tree \cup {c} /\ n.wired = m.wired /\ n.link = m.link
         /\ n.keys = m.keys /\ n.modes = m.modes /\ n.says = m.says /\ n.cut = m.cut /\ n.service = m.service
<1>0. m \in PlantType /\ m.dist \subseteq m.tree /\ (Compiles(m) => m.service.up)
      /\ (m.cut \/ m.modes \subseteq {m.says})
  BY DEF PlantOK
<1>1. PICK p : p = Packed(m, c)
  OBVIOUS
<1>2. /\ p \in PlantType /\ p.tree = m.tree \cup {c}
      /\ p.packages = m.packages \cup ({c} \cap Packaged)
      /\ p.dist = m.dist /\ p.keys = m.keys /\ p.modes = m.modes /\ p.says = m.says /\ p.cut = m.cut
      /\ p.link = m.link /\ p.wired = m.wired /\ p.service = m.service
  BY <1>0, <1>1, PackedIs
<1>3. /\ n \in PlantType /\ n.tree = m.tree \cup {c} /\ n.dist \subseteq n.tree
      /\ n.packages \subseteq m.packages \cup ({c} \cap Packaged)
      /\ n.keys = m.keys /\ n.modes = m.modes /\ n.says = m.says /\ n.cut = m.cut
      /\ n.link = m.link /\ n.wired = m.wired /\ n.service = m.service
  <2>1. CASE n = Copied(m, c)
    BY <1>0, <2>1, CopiedIs
  <2>2. CASE n = p
    BY <1>0, <1>2, <2>2
  <2>3. CASE n = Compiled(p)
    BY <1>2, <2>3, CompiledIs
  <2> QED
    BY <1>1, <2>1, <2>2, <2>3
<1>4. c \notin m.tree \/ c \notin Packaged
  BY DEF NeedsInstall, Packaged
<1>5. Compiles(n) => Compiles(m)
  BY <1>3, <1>4 DEF Compiles
<1> QED
  BY <1>0, <1>3, <1>5 DEF PlantOK

LEMMA InstalledOK ==
  ASSUME NEW m, PlantOK(m), NEW c \in Offered, NEW n \in InstalledTo(m, c)
  PROVE  /\ PlantOK(n) /\ c \in n.tree /\ n.wired = m.wired /\ n.link = m.link
         /\ n.keys = m.keys /\ n.modes = m.modes /\ n.says = m.says /\ n.cut = m.cut /\ n.service = m.service
<1>1. CASE NeedsInstall(m, c) \/ c = "signal"
  <2>1. n = Compiled(Packed(m, c))
    BY <1>1 DEF InstalledTo
  <2> QED
    BY <1>1, <2>1, PackedOK
<1>2. CASE ~(NeedsInstall(m, c) \/ c = "signal")
  BY <1>2 DEF InstalledTo, NeedsInstall
<1> QED
  BY <1>1, <1>2

LEMMA StoppedOK ==
  ASSUME NEW m, PlantOK(m), NEW c \in Offered, NEW n \in StoppedAt(m, c)
  PROVE  PlantOK(n) /\ n.wired = m.wired
<1>1. NeedsInstall(m, c) \/ c = "signal"
  BY DEF StoppedAt
<1>2. n = m \/ n \in {Copied(m, c), Packed(m, c), Compiled(Packed(m, c))}
  BY <1>1 DEF StoppedAt
<1> QED
  BY <1>1, <1>2, PackedOK

LEMMA KeyedOK ==
  ASSUME NEW m, PlantOK(m), NEW c \in Offered,
         c = "imessage" => flow.mode \in {"local", "remote"}, NEW n, n = Keyed(m, c)
  PROVE  PlantOK(n)
<1>0. m \in PlantType /\ m.dist \subseteq m.tree /\ (Compiles(m) => m.service.up)
      /\ (m.cut \/ m.modes \subseteq {m.says})
  BY DEF PlantOK
<1>1. /\ n \in PlantType /\ n.tree = m.tree /\ n.packages = m.packages
      /\ n.dist = m.dist /\ n.keys = m.keys \cup {c}
      /\ n.modes \subseteq {n.says} \/ (n.modes = m.modes /\ n.says = m.says /\ n.cut = m.cut)
      /\ n.service.up = m.service.up
  <2>1. CASE c = "imessage"
    <3>1. flow.mode \in {"local", "remote"}
      BY <2>1
    <3> QED
      BY <1>0, <2>1, <3>1, KeyedIs
  <2>2. CASE c # "imessage"
    BY <1>0, <2>2, KeyedIs
  <2> QED
    BY <2>1, <2>2
<1>2. n.cut \/ n.modes \subseteq {n.says}
  BY <1>0, <1>1
<1>3. Compiles(n) => n.service.up
  BY <1>0, <1>1 DEF Compiles
<1> QED
  BY <1>0, <1>1, <1>2, <1>3 DEF PlantOK

(* Wherever the script is stopped, what is built is in the tree.           *)
LEMMA CutsOK ==
  ASSUME PlantOK(plant), NEW c \in Offered,
         c = "imessage" => flow.mode \in {"local", "remote"}, NEW n \in Cuts(c)
  PROVE  PlantOK(n) /\ n.wired = plant.wired
<1>1. CASE n \in StoppedAt(plant, c)
  BY <1>1, StoppedOK
<1>2. ASSUME NEW m \in InstalledTo(plant, c), n \in KeyStops(m, c)
      PROVE  PlantOK(n) /\ n.wired = plant.wired
  <2>1. PlantOK(m) /\ m.wired = plant.wired /\ m \in PlantType
    BY InstalledOK DEF PlantOK
  <2>2. CASE n = m
    BY <2>1, <2>2
  <2>3. CASE n = Keyed(m, c)
    <3>1. n.wired = m.wired
      BY <2>1, <2>3, KeyedIs
    <3>2. PlantOK(n)
      BY <2>1, <2>3, KeyedOK
    <3> QED
      BY <2>1, <3>1, <3>2
  <2>4. CASE c = "imessage" /\ n \in {Named(m), Given(m)}
    <3>1. /\ n \in PlantType /\ n.tree = m.tree /\ n.packages = m.packages /\ n.dist = m.dist
          /\ n.cut /\ n.wired = m.wired /\ n.service = m.service
      BY <2>1, <2>4, NamedIs
    <3>2. m.dist \subseteq m.tree /\ (Compiles(m) => m.service.up)
      BY <2>1 DEF PlantOK
    <3>3. Compiles(n) => n.service.up
      BY <3>1, <3>2 DEF Compiles
    <3> QED
      BY <2>1, <3>1, <3>2, <3>3 DEF PlantOK
  <2> QED
    BY <1>2, <2>2, <2>3, <2>4 DEF KeyStops
<1> QED
  BY <1>1, <1>2 DEF Cuts

LEMMA RestartedOK ==
  ASSUME NEW m, PlantOK(m), NEW n, n = Restarted(m)
  PROVE  PlantOK(n)
<1>0. m \in PlantType /\ m.dist \subseteq m.tree
      /\ (m.cut \/ m.modes \subseteq {m.says})
  BY DEF PlantOK
<1>1. /\ n \in PlantType /\ n.tree = m.tree /\ n.packages = m.packages
      /\ n.dist = m.dist /\ n.keys = m.keys /\ n.modes = m.modes /\ n.says = m.says /\ n.cut = m.cut
      /\ n.service.up = (m.dist \cap Packaged \subseteq m.packages)
  BY <1>0, RestartedIs
<1>2. Compiles(n) => n.service.up
  BY <1>0, <1>1 DEF Compiles
<1> QED
  BY <1>0, <1>1, <1>2 DEF PlantOK

LEMMA WiredOK ==
  ASSUME NEW m, PlantOK(m), NEW c \in Offered, NEW n, n = Wired(m, c)
  PROVE  PlantOK(n)
<1>0. m \in PlantType /\ m.dist \subseteq m.tree /\ (Compiles(m) => m.service.up)
      /\ (m.cut \/ m.modes \subseteq {m.says})
  BY DEF PlantOK
<1>1. /\ n \in PlantType /\ n.tree = m.tree /\ n.packages = m.packages
      /\ n.dist = m.dist /\ n.keys = m.keys /\ n.modes = m.modes /\ n.says = m.says /\ n.cut = m.cut /\ n.service = m.service
  BY <1>0, WiredIs
<1>2. Compiles(n) => n.service.up
  BY <1>0, <1>1 DEF Compiles
<1> QED
  BY <1>0, <1>1, <1>2 DEF PlantOK

-----------------------------------------------------------------------------
(* The questions.                                                          *)
LEMMA FlowsTyped ==
  ASSUME FlowsInv
  PROVE  /\ flow \in FlowType /\ PlantFollows
         /\ flow.chan # "none" => /\ flow.chan \in Offered /\ flow.chan \in ChannelNames
                                  /\ flow.step \in DOMAIN FlowOf[flow.chan] /\ flow.step \in Nat
                                  /\ flow.asides \subseteq StepsOf(flow.chan)
         /\ visits \in 0 .. MaxVisits /\ mishaps \in 0 .. MaxMishaps /\ unstarted \in BOOLEAN
BY FlowTypeParts, FlowFields, ChannelBounds
   DEF FlowsInv, PlantFollows, PlantOK, OneMode, BuiltFromTree, DownForGood

LEMMA AskingIs ==
  ASSUME NEW c \in ChannelNames, NEW s, Asking(c, s)
  PROVE  flow.chan # "none" /\ flow.chan = c /\ FlowOf[flow.chan][flow.step] = s
BY NoneIsNone DEF Asking

LEMMA MishapTyped ==
  ASSUME FlowsInv, Mishap PROVE mishaps' \in 0 .. MaxMishaps
BY FlowsTyped, ChannelBounds DEF Mishap

LEMMA GoneKeeps ==
  ASSUME FlowsInv, NEW how \in {"gone", "back"}, flow' = Ended(how), PlantFollows',
         how = "back" => Bare(plant') = Bare(found),
         UNCHANGED <<visits, found, unstarted>>, mishaps' \in 0 .. MaxMishaps
  PROVE  FlowsInv'
<1>1. Over(flow', how)
  BY EndedIs
<1>2. visits' \in 0 .. MaxVisits /\ unstarted' \in BOOLEAN
  BY FlowsTyped
<1> QED
  BY <1>1, <1>2, OverKeeps

LEMMA QuestionKeeps ==
  ASSUME FlowsInv, NEW c \in ChannelNames, NEW s, s \notin Critical, Question(c, s)
  PROVE  FlowsInv'
<1>1. Asking(c, s) /\ Goes /\ UNCHANGED <<plant, visits, mishaps, found, unstarted>>
  BY DEF Question, Plain
<1>2. visits' \in 0 .. MaxVisits /\ mishaps' \in 0 .. MaxMishaps
  BY <1>1, FlowsTyped
<1> QED
  BY <1>1, <1>2, AskingIs, StayingAlike, PlainGoesKeeps

LEMMA BackQuestionKeeps ==
  ASSUME FlowsInv, NEW c \in ChannelNames, NEW s, s \notin Critical, BackQuestion(c, s),
         flow.step = 1 \/ (c = "teams" /\ flow.step < 9)
  PROVE  FlowsInv'
<1>1. /\ Asking(c, s) /\ (Goes \/ BacksOut)
      /\ UNCHANGED <<plant, visits, mishaps, found, unstarted>>
  BY DEF BackQuestion, Plain
<1>2. visits' \in 0 .. MaxVisits /\ mishaps' \in 0 .. MaxMishaps
  BY <1>1, FlowsTyped
<1>3. CASE Goes
  BY <1>1, <1>2, <1>3, AskingIs, StayingAlike, PlainGoesKeeps
<1>4. CASE BacksOut
  <2>1. Bare(plant) = Bare(found)
    BY <1>1, AskingIs DEF FlowsInv, Untouched
  <2> QED
    BY <1>1, <1>2, <1>4, <2>1, PlantStays, GoneKeeps DEF BacksOut
<1> QED
  BY <1>1, <1>3, <1>4

(* A step that fails.                                                      *)
LEMMA StumbledKeeps ==
  ASSUME FlowsInv, flow.chan # "none", flow' = Stumbled(flow),
         FlowOf[flow.chan][flow.step] # "mode",
         Alike, UNCHANGED <<visits, found, unstarted>>, mishaps' \in 0 .. MaxMishaps
  PROVE  FlowsInv'
<1>1. \/ Over(flow', "done")
      \/ OnTheWay(flow, flow') /\ flow'.mode = flow.mode /\ flow'.step = flow.step + 1
         /\ flow'.asides # {}
      \/ OnTheWay(flow, flow') /\ flow'.mode = flow.mode /\ flow'.step = flow.step
         /\ flow'.asides = flow.asides
  BY FlowsTyped, StumbledIs
<1>2. PlantFollows' /\ visits' \in 0 .. MaxVisits /\ unstarted' \in BOOLEAN
  BY FlowsTyped DEF Alike
<1>3. flow.step = 1 => flow.chan # "imessage"
  BY CriticalSteps
<1>4. CASE Over(flow', "done")
  BY <1>2, <1>4, OverKeeps
<1>5. CASE OnTheWay(flow, flow') /\ flow'.mode = flow.mode /\ flow'.step = flow.step + 1
           /\ flow'.asides # {}
  BY <1>2, <1>3, <1>5, StumblingKeeps
<1>6. CASE OnTheWay(flow, flow') /\ flow'.mode = flow.mode /\ flow'.step = flow.step
           /\ flow'.asides = flow.asides
  BY <1>2, <1>3, <1>6, StumblingKeeps
<1> QED
  BY <1>1, <1>4, <1>5, <1>6

LEMMA LookupKeeps ==
  ASSUME FlowsInv, NEW c \in ChannelNames, NEW s, s \notin Critical, Lookup(c, s)
  PROVE  FlowsInv'
<1>1. Asking(c, s) /\ UNCHANGED <<plant, visits, found, unstarted>>
  BY DEF Lookup
<1>2. visits' \in 0 .. MaxVisits /\ mishaps' \in 0 .. MaxMishaps
  BY <1>1, FlowsTyped, MishapTyped DEF Lookup
<1>3. s # "mode"
  BY DEF Critical
<1>4. CASE Goes
  BY <1>1, <1>2, <1>4, AskingIs, StayingAlike, PlainGoesKeeps
<1>5. CASE flow' = Stumbled(flow)
  BY <1>1, <1>2, <1>3, <1>5, AskingIs, StayingAlike, StumbledKeeps
<1> QED
  BY <1>4, <1>5 DEF Lookup

LEMMA ChooseKeeps ==
  ASSUME FlowsInv, NEW c \in Offered, Choose(c)
  PROVE  FlowsInv'
<1>0. c \in ChannelNames /\ c # "none"
  BY ChannelBounds, NoneIsNone
<1>1. flow' = [chan |-> c, step |-> 1, failed |-> FALSE, asides |-> {}, tries |-> 0,
               mode |-> "none", how |-> "in"]
  BY DEF Choose, NoFlow
<1>2. /\ flow' \in FlowType /\ flow'.chan = c /\ flow'.step = 1 /\ flow'.how = "in"
      /\ flow'.asides = {}
  BY <1>1 DEF FlowType
<1>3. plant' = plant /\ found' = plant /\ UNCHANGED <<mishaps, unstarted>>
  BY DEF Choose
<1>4. visits' \in 0 .. MaxVisits
  BY FlowsTyped, ChannelBounds DEF Choose
<1>5. PlantFollows'
  BY <1>3, PlantStays
<1>6. 1 \in DOMAIN FlowOf[c]
  BY <1>0, FlowLengths
<1>7. ChannelSetupTypeOK'
  BY <1>0, <1>2, <1>3, <1>4, <1>5, <1>6, FlowsTyped
     DEF ChannelSetupTypeOK, PlantFollows, PlantOK, FlowType, PlantType
<1>8. InIsIn' /\ Untouched' /\ BackLeavesNoTrace'
  BY <1>0, <1>2, <1>3 DEF InIsIn, Untouched, BackLeavesNoTrace
<1>9. ModeChosen' /\ LinkedOnTheWay'
  BY <1>2 DEF ModeChosen, LinkedOnTheWay
<1>10. StartedOnIt'
  BY <1>0, <1>2, RestartSteps DEF StartedOnIt
<1> QED
  BY <1>5, <1>7, <1>8, <1>9, <1>10
     DEF FlowsInv, PlantFollows, PlantOK, OneMode, BuiltFromTree, DownForGood

(* The mode is chosen where iMessage's script runs.                        *)
LEMMA ModeAtInstall ==
  ASSUME FlowsInv, NEW c \in ChannelNames, Asking(c, "install")
  PROVE  c = "imessage" => flow.mode \in {"local", "remote"}
<1>1. flow.chan = c /\ flow.chan # "none" /\ FlowOf[flow.chan][flow.step] = "install"
      /\ "install" \in Touching
  BY AskingIs DEF Touching
<1>2. flow.step > 1
  BY <1>1, FlowsTyped, TouchingSteps
<1> QED
  BY <1>1, <1>2 DEF FlowsInv, ModeChosen

LEMMA StopsKeep ==
  ASSUME FlowsInv, Stops \/ Quits PROVE FlowsInv'
<1>1. flow' = Ended("gone") /\ UNCHANGED <<visits, found, unstarted>>
  BY DEF Stops, Quits, Plain
<1>2. mishaps' \in 0 .. MaxMishaps
  BY FlowsTyped, MishapTyped DEF Stops, Quits, Plain
<1>3. PlantFollows'
  <2>1. CASE plant' = plant
    BY <2>1, PlantStays
  <2>2. ASSUME flow.chan # "none", Asking(flow.chan, "install"), plant' \in Cuts(flow.chan)
        PROVE  PlantFollows'
    <3>1. flow.chan \in Offered /\ flow.chan \in ChannelNames /\ PlantOK(plant)
      BY <2>2, FlowsTyped DEF PlantFollows
    <3>2. flow.chan = "imessage" => flow.mode \in {"local", "remote"}
      BY <2>2, <3>1, ModeAtInstall
    <3>3. PlantOK(plant')
      BY <2>2, <3>1, <3>2, CutsOK
    <3> QED
      BY <3>3 DEF PlantFollows
  <2> QED
    BY <2>1, <2>2 DEF Stops, Quits, Plain
<1> QED
  BY <1>1, <1>2, <1>3, GoneKeeps

-----------------------------------------------------------------------------
(* The installs.                                                           *)

(* The flow goes on from where it may; the plant changes with it.          *)
LEMMA GoesKeeps ==
  ASSUME FlowsInv, flow.chan # "none", Goes, PlantFollows', found' = found,
         FlowOf[flow.chan][flow.step] \in Touching \cup {"number"},
         FlowOf[flow.chan][flow.step] \in Touching \/ plant' = plant,
         visits' \in 0 .. MaxVisits, mishaps' \in 0 .. MaxMishaps, unstarted' \in BOOLEAN,
         ASSUME flow'.chan = flow.chan, flow'.step = flow.step + 1, flow'.asides = flow.asides
         PROVE  LinkedOnTheWay' /\ StartedOnIt'
  PROVE  FlowsInv'
<1>0. /\ flow.step \in Nat /\ flow \in FlowType
      /\ flow.step \in DOMAIN FlowOf[flow.chan] /\ flow.chan \in ChannelNames
      /\ flow.asides \subseteq StepsOf(flow.chan)
  BY FlowsTyped
<1>1. flow.step >= 1
  BY <1>0, FlowLengths
<1>2. \/ Over(flow', "done")
      \/ /\ OnTheWay(flow, flow') /\ flow'.step = flow.step + 1
         /\ flow'.asides = flow.asides /\ flow'.mode = flow.mode
  BY <1>0, AheadIs DEF Goes
<1>3. CASE Over(flow', "done")
  BY <1>3, OverKeeps
<1>4. CASE /\ OnTheWay(flow, flow') /\ flow'.step = flow.step + 1
           /\ flow'.asides = flow.asides /\ flow'.mode = flow.mode
  <2>0. flow'.chan = flow.chan
    BY <1>4 DEF OnTheWay
  <2>1. Untouched'
    BY <1>0, <1>1, <1>4, <2>0, TouchingSteps DEF FlowsInv, Untouched
  <2>2. flow.chan = "imessage" => flow.step # 1
    <3>1. "mode" \notin Touching \cup {"number"}
      BY DEF Touching
    <3> QED
      BY <3>1, CriticalSteps
  <2>3. ModeChosen'
    BY <1>0, <1>1, <1>4, <2>0, <2>2 DEF FlowsInv, ModeChosen
  <2>4. LinkedOnTheWay' /\ StartedOnIt'
    BY <1>4, <2>0
  <2> QED
    BY <1>4, <2>1, <2>3, <2>4, OnTheWayKeeps
<1> QED
  BY <1>2, <1>3, <1>4

(* The script that installs is the one that restarts, but for two channels. *)
LEMMA InstallIsRestart ==
  ASSUME NEW c \in ChannelNames \ {"whatsapp", "signal"}, NEW i \in DOMAIN FlowOf[c],
         FlowOf[c][i] = "install"
  PROVE  i = RestartAt[c]
<1>1. c = "telegram" \/ c = "discord" \/ c = "slack" \/ c = "imessage" \/ c = "teams"
  BY DEF ChannelNames
<1>2. CASE c = "telegram"
  <2>1. RestartAt[c] = 3
    BY <1>2 DEF RestartAt
  <2> QED
    BY <1>2, <2>1, FlowsAre DEF Telegram
<1>3. CASE c = "discord"
  <2>1. RestartAt[c] = 8
    BY <1>3 DEF RestartAt
  <2> QED
    BY <1>3, <2>1, FlowsAre DEF Discord
<1>4. CASE c = "slack"
  <2>1. RestartAt[c] = 5
    BY <1>4 DEF RestartAt
  <2> QED
    BY <1>4, <2>1, FlowsAre DEF Slack
<1>5. CASE c = "imessage"
  <2>1. RestartAt[c] = 4
    BY <1>5 DEF RestartAt
  <2> QED
    BY <1>5, <2>1, FlowsAre DEF IMessage
<1>6. CASE c = "teams"
  <2>1. RestartAt[c] = 9
    BY <1>6 DEF RestartAt
  <2> QED
    BY <1>6, <2>1, FlowsAre DEF Teams
<1> QED
  BY <1>1, <1>2, <1>3, <1>4, <1>5, <1>6

LEMMA InstallRestartKeeps ==
  ASSUME FlowsInv, NEW c \in Offered \ {"whatsapp", "signal"}, InstallRestart(c)
  PROVE  FlowsInv'
<1>0. /\ c \in ChannelNames /\ flow.chan = c /\ flow.chan # "none" /\ Asking(c, "install")
      /\ FlowOf[flow.chan][flow.step] = "install" /\ PlantOK(plant)
      /\ "install" \in Touching /\ "install" # "mode"
  BY ChannelBounds, AskingIs, FlowsTyped DEF InstallRestart, PlantFollows, Touching
<1>1. UNCHANGED <<visits, found>> /\ visits' \in 0 .. MaxVisits /\ unstarted \in BOOLEAN
      /\ mishaps \in 0 .. MaxMishaps
  BY FlowsTyped DEF InstallRestart
<1>2. c = "imessage" => flow.mode \in {"local", "remote"}
  BY <1>0, ModeAtInstall
<1>3. ASSUME NEW m \in InstalledTo(plant, c), Goes,
             \/ plant' = Restarted(Keyed(m, c)) /\ UNCHANGED <<mishaps, unstarted>>
             \/ plant' = Keyed(m, c) /\ Mishap /\ unstarted' = TRUE
      PROVE  FlowsInv'
  <2>1. PlantOK(m) /\ c \in m.tree
    BY <1>0, <1>3, InstalledOK
  <2>2. PICK k : k = Keyed(m, c)
    OBVIOUS
  <2>3. PlantOK(k)
    BY <1>2, <2>1, <2>2, KeyedOK
  <2>4. m \in PlantType /\ k \in PlantType
    BY <2>1, <2>3 DEF PlantOK
  <2>5. k.tree = m.tree /\ c \in k.keys
    <3>1. CASE c = "imessage"
      <4>1. flow.mode \in {"local", "remote"}
        BY <1>2, <3>1
      <4> QED
        BY <2>2, <2>4, <3>1, <4>1, KeyedIs
    <3>2. CASE c # "imessage"
      BY <2>2, <2>4, <3>2, KeyedIs
    <3> QED
      BY <3>1, <3>2
  <2>6. PlantOK(plant')
    BY <1>3, <2>2, <2>3, RestartedOK
  <2>7. plant' = Restarted(k) => plant'.tree = k.tree /\ (c \in k.dist => c \in plant'.service.adapters)
                                 /\ plant'.dist = k.dist
    BY <2>4, <2>5, RestartedIs
  <2>8. unstarted' \in BOOLEAN /\ mishaps' \in 0 .. MaxMishaps
    BY <1>1, <1>3, MishapTyped
  <2>9. /\ c \in plant'.tree
        /\ unstarted' \/ c \in plant'.service.adapters \/ c \notin plant'.dist
    BY <1>3, <2>1, <2>2, <2>5, <2>7
  <2>10. ASSUME flow'.chan = flow.chan PROVE LinkedOnTheWay' /\ StartedOnIt'
    BY <1>0, <2>9, <2>10 DEF LinkedOnTheWay, StartedOnIt
  <2>11. PlantFollows'
    BY <2>6 DEF PlantFollows
  <2> QED
    BY <1>0, <1>1, <1>3, <2>8, <2>10, <2>11, GoesKeeps
<1>4. ASSUME plant' \in Cuts(c), flow' = Stumbled(flow),
             UNCHANGED mishaps \/ Mishap, UNCHANGED unstarted
      PROVE  FlowsInv'
  <2>1. PlantOK(plant')
    BY <1>0, <1>2, <1>4, CutsOK
  <2>2. PlantFollows' /\ mishaps' \in 0 .. MaxMishaps /\ unstarted' \in BOOLEAN
    BY <1>1, <1>4, <2>1, MishapTyped DEF PlantFollows
  <2>3. \/ Over(flow', "done")
        \/ OnTheWay(flow, flow') /\ flow'.mode = flow.mode /\ flow'.step = flow.step + 1
           /\ flow'.asides # {}
        \/ OnTheWay(flow, flow') /\ flow'.mode = flow.mode /\ flow'.step = flow.step
           /\ flow'.asides = flow.asides
    BY <1>0, <1>4, FlowsTyped, StumbledIs
  <2>4. CASE Over(flow', "done")
    BY <1>1, <2>2, <2>4, OverKeeps
  <2>5. CASE OnTheWay(flow, flow') /\ flow'.mode = flow.mode
             /\ ((flow'.step = flow.step + 1 /\ flow'.asides # {})
                  \/ (flow'.step = flow.step /\ flow'.asides = flow.asides))
    <3>0. flow'.chan = c /\ flow.step \in Nat /\ flow.step > 1 /\ (c = "teams" => flow.step >= 9)
      BY <1>0, <2>5, FlowsTyped, TouchingSteps DEF OnTheWay
    <3>1. Untouched'
      BY <1>0, <2>5, <3>0 DEF Untouched
    <3>2. ModeChosen'
      BY <1>0, <2>5, <3>0 DEF FlowsInv, ModeChosen
    <3>3. LinkedOnTheWay'
      BY <1>0, <3>0 DEF LinkedOnTheWay
    <3>4. StartedOnIt'
      <4>1. flow.step = RestartAt[c]
        BY <1>0, FlowsTyped, InstallIsRestart
      <4>2. ~(flow.step > RestartAt[c])
        BY <3>0, <4>1
      <4> QED
        BY <2>5, <3>0, <4>2 DEF StartedOnIt
    <3> QED
      BY <1>0, <1>1, <2>2, <2>5, <3>1, <3>2, <3>3, <3>4, OnTheWayKeeps
  <2> QED
    BY <2>3, <2>4, <2>5
<1> QED
  BY <1>3, <1>4 DEF InstallRestart

LEMMA InstallOnlyKeeps ==
  ASSUME FlowsInv, NEW c \in Offered \cap {"whatsapp", "signal"}, InstallOnly(c)
  PROVE  FlowsInv'
<1>0. /\ c \in ChannelNames /\ flow.chan = c /\ flow.chan # "none" /\ Asking(c, "install")
      /\ FlowOf[flow.chan][flow.step] = "install" /\ PlantOK(plant)
      /\ "install" \in Touching
  BY ChannelBounds, AskingIs, FlowsTyped DEF InstallOnly, PlantFollows, Touching
<1>1. /\ visits' \in 0 .. MaxVisits /\ mishaps' \in 0 .. MaxMishaps /\ unstarted' \in BOOLEAN
      /\ found' = found
  BY FlowsTyped, MishapTyped DEF InstallOnly
<1>2. flow.step = IF c = "whatsapp" THEN 2 ELSE 3
  BY <1>0, FlowsTyped, OwnSteps
<1>3. RestartAt[c] = 5
  <2>1. RestartAt["whatsapp"] = 5 /\ RestartAt["signal"] = 5
    BY DEF RestartAt, ChannelNames
  <2> QED
    BY <2>1
<1>4. ASSUME plant' \in InstalledTo(plant, c), Goes
      PROVE  FlowsInv'
  <2>1. PlantOK(plant') /\ c \in plant'.tree
    BY <1>0, <1>4, InstalledOK
  <2>2. ASSUME flow'.chan = flow.chan, flow'.step = flow.step + 1
        PROVE  LinkedOnTheWay' /\ StartedOnIt'
    <3>1. LinkedOnTheWay'
      BY <1>0, <1>2, <2>1, <2>2 DEF LinkedOnTheWay
    <3>2. StartedOnIt'
      BY <1>0, <1>2, <1>3, <2>2 DEF StartedOnIt
    <3> QED
      BY <3>1, <3>2
  <2>3. PlantFollows'
    BY <2>1 DEF PlantFollows
  <2> QED
    BY <1>0, <1>1, <1>4, <2>2, <2>3, GoesKeeps
<1>5. ASSUME plant' \in Cuts(c), flow' = Stumbled(flow)
      PROVE  FlowsInv'
  <2>1. PlantFollows'
    BY <1>0, <1>5, CutsOK DEF PlantFollows
  <2>2. \/ Over(flow', "done")
        \/ OnTheWay(flow, flow') /\ flow'.mode = flow.mode /\ flow'.step = flow.step + 1
           /\ flow'.asides # {}
        \/ OnTheWay(flow, flow') /\ flow'.mode = flow.mode /\ flow'.step = flow.step
           /\ flow'.asides = flow.asides
    BY <1>0, <1>5, FlowsTyped, StumbledIs
  <2>3. CASE Over(flow', "done")
    BY <1>1, <2>1, <2>3, OverKeeps
  <2>4. CASE OnTheWay(flow, flow')
             /\ ((flow'.step = flow.step + 1 /\ flow'.asides # {})
                  \/ (flow'.step = flow.step /\ flow'.asides = flow.asides))
    <3>0. flow'.chan = c
      BY <1>0, <2>4 DEF OnTheWay
    <3>1. Untouched'
      BY <1>2, <2>4, <3>0 DEF Untouched
    <3>2. ModeChosen'
      BY <3>0 DEF ModeChosen
    <3>3. LinkedOnTheWay'
      BY <1>2, <2>4, <3>0 DEF LinkedOnTheWay
    <3>4. StartedOnIt'
      BY <1>2, <1>3, <2>4, <3>0 DEF StartedOnIt
    <3> QED
      BY <1>0, <1>1, <2>1, <2>4, <3>1, <3>2, <3>3, <3>4, OnTheWayKeeps
  <2> QED
    BY <2>2, <2>3, <2>4
<1> QED
  BY <1>4, <1>5 DEF InstallOnly

LEMMA RoleKeeps ==
  ASSUME FlowsInv, NEW c \in Offered, Role(c) PROVE FlowsInv'
<1>1. "role" \notin Critical /\ c \in ChannelNames
  BY ChannelBounds DEF Critical
<1> QED
  BY <1>1, QuestionKeeps DEF Role

LEMMA WiredAlike ==
  ASSUME FlowsInv, NEW c \in Offered, plant' \in {plant, Wired(plant, c)},
         FlowOf[flow.chan][flow.step] \in Touching
  PROVE  Alike
<1>1. PlantOK(plant) /\ plant \in PlantType
  BY FlowsTyped DEF PlantFollows, PlantOK
<1>2. PlantOK(plant')
  BY <1>1, WiredOK
<1>3. /\ plant'.tree = plant.tree /\ plant'.dist = plant.dist
      /\ plant'.service = plant.service /\ plant'.link = plant.link
  BY <1>1, WiredIs
<1> QED
  BY <1>2, <1>3 DEF Alike, PlantFollows

LEMMA InitFirstAgentKeeps ==
  ASSUME FlowsInv, NEW c \in Offered, InitFirstAgent(c) PROVE FlowsInv'
<1>0. /\ c \in ChannelNames /\ flow.chan = c /\ flow.chan # "none"
      /\ FlowOf[flow.chan][flow.step] = "init"
  BY ChannelBounds, AskingIs DEF InitFirstAgent
<1>1. "init" \in Touching /\ "init" \notin Critical /\ "init" # "mode"
  BY DEF Touching, Critical
<1>2. /\ visits' \in 0 .. MaxVisits /\ mishaps' \in 0 .. MaxMishaps
      /\ UNCHANGED <<visits, found, unstarted>> /\ plant' \in {plant, Wired(plant, c)}
  BY FlowsTyped, MishapTyped DEF InitFirstAgent
<1>3. Alike
  BY <1>0, <1>1, <1>2, WiredAlike
<1>4. CASE Goes
  BY <1>0, <1>1, <1>2, <1>3, <1>4, PlainGoesKeeps
<1>5. CASE flow' = Stumbled(flow)
  BY <1>0, <1>1, <1>2, <1>3, <1>5, StumbledKeeps
<1> QED
  BY <1>4, <1>5 DEF InitFirstAgent

-----------------------------------------------------------------------------
(* The channels' own steps.                                                *)
LEMMA TriesTyped ==
  ASSUME FlowsInv, flow.chan # "none", flow.tries < 5,
         flow' = [flow EXCEPT !.tries = @ + 1],
         UNCHANGED <<plant, visits, mishaps, found, unstarted>>
  PROVE  FlowsInv'
<1>0. flow \in FlowType /\ flow.tries \in 0 .. 5
  BY FlowsTyped, FlowFields
<1>1. PICK t \in 0 .. 5 : t = flow.tries + 1
  BY <1>0
<1>2. flow' = [flow EXCEPT !.tries = t]
  BY <1>1
<1>3. /\ flow' \in FlowType /\ flow'.chan = flow.chan /\ flow'.step = flow.step
      /\ flow'.asides = flow.asides /\ flow'.mode = flow.mode /\ flow'.how = flow.how
  BY <1>0, <1>2 DEF FlowType
<1>4. OnTheWay(flow, flow')
  BY <1>3, FlowsTyped DEF OnTheWay
<1> QED
  BY <1>3, <1>4, FlowsTyped, StayingAlike, StumblingKeeps

LEMMA TelegramKeeps ==
  ASSUME FlowsInv, TelegramStep PROVE FlowsInv'
<1>0. "telegram" \in ChannelNames /\ "telegram" # "teams"
  BY DEF ChannelNames
<1>1. "token" \notin Critical /\ "check" \notin Critical /\ "pair" \notin Critical /\ "pair" # "mode"
  BY DEF Critical
<1>2. CASE TelegramToken
  <2>1. flow.step = 1
    BY <1>0, <1>2, AskingIs, FlowsTyped, FirstQuestions DEF TelegramToken, BackQuestion
  <2> QED
    BY <1>0, <1>1, <1>2, <2>1, BackQuestionKeeps DEF TelegramToken
<1>3. CASE TelegramCheck
  BY <1>0, <1>1, <1>3, LookupKeeps DEF TelegramCheck
<1>4. ASSUME Asking("telegram", "pair"), UNCHANGED <<plant, visits, found, unstarted>>,
             Goes \/ flow' = Stumbled(flow), mishaps' \in 0 .. MaxMishaps
      PROVE  FlowsInv'
  <2>1. flow.chan # "none" /\ FlowOf[flow.chan][flow.step] = "pair" /\ Alike
    BY <1>0, <1>4, AskingIs, StayingAlike
  <2>2. CASE Goes
    BY <1>1, <1>4, <2>1, <2>2, FlowsTyped, PlainGoesKeeps
  <2>3. CASE flow' = Stumbled(flow)
    BY <1>1, <1>4, <2>1, <2>3, StumbledKeeps
  <2> QED
    BY <1>4, <2>2, <2>3
<1>5. CASE PairRight
  BY <1>4, <1>5, FlowsTyped DEF PairRight, Plain
<1>6. CASE PairWrong
  <2>1. CASE flow.tries < 5
    BY <1>0, <1>6, <2>1, AskingIs, TriesTyped DEF PairWrong, Plain
  <2>2. CASE ~(flow.tries < 5)
    BY <1>4, <1>6, <2>2, FlowsTyped DEF PairWrong, Plain
  <2> QED
    BY <2>1, <2>2
<1>7. CASE PairFails
  <2>1. mishaps' \in 0 .. MaxMishaps
    BY <1>7, FlowsTyped, MishapTyped DEF PairFails
  <2> QED
    BY <1>4, <1>7, <2>1 DEF PairFails
<1> QED
  BY <1>2, <1>3, <1>5, <1>6, <1>7 DEF TelegramStep

LEMMA DiscordKeeps ==
  ASSUME FlowsInv, DiscordStep PROVE FlowsInv'
<1>0. "discord" \in ChannelNames
  BY DEF ChannelNames
<1>1. "ask-bot" \notin Critical /\ "token" \notin Critical /\ "check" \notin Critical
  BY DEF Critical
<1>2. "app-info" \notin Critical /\ "owner" \notin Critical /\ "server" \notin Critical
  BY DEF Critical
<1>3. "invite" \notin Critical /\ "open-dm" \notin Critical
  BY DEF Critical
<1>4. CASE DiscordAskBot
  <2>1. flow.step = 1
    BY <1>0, <1>4, AskingIs, FlowsTyped, FirstQuestions DEF DiscordAskBot, BackQuestion
  <2> QED
    BY <1>0, <1>1, <1>4, <2>1, BackQuestionKeeps DEF DiscordAskBot
<1>5. CASE DiscordToken \/ DiscordOwner
  BY <1>0, <1>1, <1>2, <1>5, QuestionKeeps DEF DiscordToken, DiscordOwner
<1>6. CASE DiscordServer \/ DiscordInvite
  BY <1>0, <1>2, <1>3, <1>6, QuestionKeeps DEF DiscordServer, DiscordInvite
<1>7. CASE DiscordCheck \/ DiscordAppInfo
  BY <1>0, <1>1, <1>2, <1>7, LookupKeeps DEF DiscordCheck, DiscordAppInfo
<1>8. CASE DiscordOpenDm
  BY <1>0, <1>3, <1>8, LookupKeeps DEF DiscordOpenDm
<1> QED
  BY <1>4, <1>5, <1>6, <1>7, <1>8 DEF DiscordStep

LEMMA SlackKeeps ==
  ASSUME FlowsInv, SlackStep PROVE FlowsInv'
<1>0. "slack" \in ChannelNames
  BY DEF ChannelNames
<1>1. "app" \notin Critical /\ "token" \notin Critical /\ "secret" \notin Critical
  BY DEF Critical
<1>2. "check" \notin Critical /\ "owner" \notin Critical /\ "open-dm" \notin Critical
  BY DEF Critical
<1>3. CASE SlackApp
  <2>1. flow.step = 1
    BY <1>0, <1>3, AskingIs, FlowsTyped, FirstQuestions DEF SlackApp, BackQuestion
  <2> QED
    BY <1>0, <1>1, <1>3, <2>1, BackQuestionKeeps DEF SlackApp
<1>4. CASE SlackToken \/ SlackSecret
  BY <1>0, <1>1, <1>4, QuestionKeeps DEF SlackToken, SlackSecret
<1>5. CASE SlackOwner
  BY <1>0, <1>2, <1>5, QuestionKeeps DEF SlackOwner
<1>6. CASE SlackCheck \/ SlackOpenDm
  BY <1>0, <1>2, <1>6, LookupKeeps DEF SlackCheck, SlackOpenDm
<1> QED
  BY <1>3, <1>4, <1>5, <1>6 DEF SlackStep

(* The plant's other fields.                                               *)
LEMMA SameAlike ==
  ASSUME FlowsInv, plant' \in PlantType, plant'.tree = plant.tree, plant'.dist = plant.dist,
         plant'.packages = plant.packages, plant'.keys = plant.keys, plant'.modes = plant.modes, plant'.says = plant.says, plant'.cut = plant.cut,
         plant'.service.up = plant.service.up,
         plant'.service.adapters = plant.service.adapters,
         plant.link = "linked" => plant'.link = "linked",
         FlowOf[flow.chan][flow.step] \in Touching
  PROVE  Alike
<1>1. /\ plant.dist \subseteq plant.tree /\ (Compiles(plant) => plant.service.up)
      /\ (plant.cut \/ plant.modes \subseteq {plant.says})
  BY FlowsTyped DEF PlantFollows, PlantOK
<1>2. Compiles(plant') => Compiles(plant)
  BY DEF Compiles
<1>3. PlantOK(plant')
  BY <1>1, <1>2 DEF PlantOK
<1> QED
  BY <1>3 DEF Alike, PlantFollows

LEMMA PlantTyped ==
  ASSUME FlowsInv PROVE PlantOK(plant) /\ plant \in PlantType
BY FlowsTyped DEF PlantFollows, PlantOK

LEMMA WhatsAppLinkKeeps ==
  ASSUME FlowsInv, WhatsAppLinkSkipped \/ WhatsAppLinks \/ WhatsAppLinkFails PROVE FlowsInv'
<1>0. "whatsapp" \in ChannelNames
  BY DEF ChannelNames
<1>1. "link" \notin Critical /\ "link" \in Touching /\ "link" # "mode"
  BY DEF Critical, Touching
<1>2. flow.chan # "none" /\ FlowOf[flow.chan][flow.step] = "link"
  BY <1>0, AskingIs DEF WhatsAppLinkSkipped, WhatsAppLinks, WhatsAppLinkFails
<1>3. Alike
  <2>1. CASE plant' = plant
    BY <2>1, StayingAlike
  <2>2. ASSUME NEW l \in {"none", "half", "linked"}, plant' = [plant EXCEPT !.link = l],
               plant.link = "none"
        PROVE  Alike
    <3>1. /\ plant' \in PlantType /\ plant'.tree = plant.tree /\ plant'.dist = plant.dist
          /\ plant'.packages = plant.packages /\ plant'.keys = plant.keys
          /\ plant'.modes = plant.modes /\ plant'.says = plant.says /\ plant'.cut = plant.cut /\ plant'.service = plant.service
      BY <2>2, PlantTyped DEF PlantType
    <3> QED
      BY <1>1, <1>2, <2>2, <3>1, SameAlike
  <2> QED
    BY <2>1, <2>2 DEF WhatsAppLinkSkipped, WhatsAppLinks, WhatsAppLinkFails, Plain
<1>4. /\ UNCHANGED <<visits, found, unstarted>> /\ visits' \in 0 .. MaxVisits
      /\ mishaps' \in 0 .. MaxMishaps
  BY FlowsTyped, MishapTyped DEF WhatsAppLinkSkipped, WhatsAppLinks, WhatsAppLinkFails, Plain
<1>5. CASE Goes
  BY <1>1, <1>2, <1>3, <1>4, <1>5, PlainGoesKeeps
<1>6. CASE flow' = Stumbled(flow)
  BY <1>1, <1>2, <1>3, <1>4, <1>6, StumbledKeeps
<1> QED
  BY <1>5, <1>6 DEF WhatsAppLinkSkipped, WhatsAppLinks, WhatsAppLinkFails

LEMMA RestartAtFive == RestartAt["whatsapp"] = 5 /\ RestartAt["signal"] = 5
BY DEF RestartAt, ChannelNames

LEMMA WhatsAppNumberKeeps ==
  ASSUME FlowsInv, WhatsAppNumber PROVE FlowsInv'
<1>0. "whatsapp" \in ChannelNames
  BY DEF ChannelNames
<1>1. /\ flow.chan = "whatsapp" /\ flow.chan # "none"
      /\ FlowOf[flow.chan][flow.step] = "number" /\ "number" # "mode"
      /\ UNCHANGED <<plant, visits, mishaps, found, unstarted>>
  BY <1>0, AskingIs DEF WhatsAppNumber, Plain
<1>2. flow.step = 4
  BY <1>1, FlowsTyped, OwnSteps
<1>3. CASE plant.link = "linked"
  <2>1. Goes
    BY <1>3 DEF WhatsAppNumber, Goes
  <2>2. ASSUME flow'.chan = flow.chan, flow'.step = flow.step + 1, flow'.asides = flow.asides
        PROVE  LinkedOnTheWay' /\ StartedOnIt'
    <3>1. LinkedOnTheWay'
      BY <1>1, <1>2, <1>3, <2>2 DEF FlowsInv, LinkedOnTheWay
    <3>2. StartedOnIt'
      BY <1>1, <1>2, <2>2, RestartAtFive DEF StartedOnIt
    <3> QED
      BY <3>1, <3>2
  <2>3. PlantFollows'
    BY <1>1, PlantStays
  <2> QED
    BY <1>1, <2>1, <2>2, <2>3, FlowsTyped, GoesKeeps
<1>4. CASE plant.link # "linked"
  <2>1. flow' = Stumbled(flow)
    BY <1>4 DEF WhatsAppNumber
  <2> QED
    BY <1>1, <2>1, FlowsTyped, StayingAlike, StumbledKeeps
<1> QED
  BY <1>3, <1>4

LEMMA WhatsAppRestartKeeps ==
  ASSUME FlowsInv, WhatsAppRestart PROVE FlowsInv'
<1>0. "whatsapp" \in ChannelNames /\ "restart" \in Touching
  BY DEF ChannelNames, Touching
<1>1. /\ flow.chan = "whatsapp" /\ flow.chan # "none"
      /\ FlowOf[flow.chan][flow.step] = "restart"
      /\ Goes /\ RestartService(plant) /\ UNCHANGED <<visits, found>>
  BY <1>0, AskingIs DEF WhatsAppRestart
<1>2. flow.step = 5
  BY <1>1, FlowsTyped, OwnSteps
<1>3. mishaps' \in 0 .. MaxMishaps /\ unstarted' \in BOOLEAN /\ visits' \in 0 .. MaxVisits
  BY <1>1, FlowsTyped, MishapTyped DEF RestartService
<1>4. PlantFollows'
  BY <1>1, PlantTyped, RestartedOK DEF RestartService, PlantFollows
<1>5. /\ plant'.tree = plant.tree /\ plant'.link = plant.link
  BY <1>1, PlantTyped, RestartedIs DEF RestartService
<1>6. unstarted' \/ plant' = Restarted(plant)
  BY <1>1 DEF RestartService
<1>7. plant' = Restarted(plant) /\ plant.link = "linked" /\ "whatsapp" \in plant'.dist
        => "whatsapp" \in plant'.service.adapters
  BY PlantTyped, RestartedIs
<1>8. ASSUME flow'.chan = flow.chan, flow'.step = flow.step + 1, flow'.asides = flow.asides
      PROVE  LinkedOnTheWay' /\ StartedOnIt'
  <2>1. flow.asides = {} => "whatsapp" \in plant.tree /\ plant.link = "linked"
    BY <1>1, <1>2 DEF FlowsInv, LinkedOnTheWay
  <2>2. LinkedOnTheWay'
    BY <1>1, <1>5, <1>8, <2>1 DEF LinkedOnTheWay
  <2>3. StartedOnIt'
    BY <1>1, <1>5, <1>6, <1>7, <1>8, <2>1 DEF StartedOnIt
  <2> QED
    BY <2>2, <2>3
<1> QED
  BY <1>0, <1>1, <1>3, <1>4, <1>8, GoesKeeps

LEMMA WhatsAppChatNumberKeeps ==
  ASSUME FlowsInv, WhatsAppChatNumber PROVE FlowsInv'
<1>1. "whatsapp" \in ChannelNames /\ "chat-number" \notin Critical
  BY DEF ChannelNames, Critical
<1> QED
  BY <1>1, QuestionKeeps DEF WhatsAppChatNumber

LEMMA WhatsAppKeeps ==
  ASSUME FlowsInv, WhatsAppStep PROVE FlowsInv'
<1>1. CASE WhatsAppMethod
  <2>0. "whatsapp" \in ChannelNames
    BY DEF ChannelNames
  <2>1. flow.step = 1
    BY <1>1, <2>0, AskingIs, FlowsTyped, FirstQuestions DEF WhatsAppMethod, BackQuestion
  <2>2. "method" \notin Critical
    BY DEF Critical
  <2> QED
    BY <1>1, <2>0, <2>1, <2>2, BackQuestionKeeps DEF WhatsAppMethod
<1> QED
  BY <1>1, WhatsAppLinkKeeps, WhatsAppNumberKeeps, WhatsAppRestartKeeps, WhatsAppChatNumberKeeps
     DEF WhatsAppStep

LEMMA SignalCliKeeps ==
  ASSUME FlowsInv, SignalCli PROVE FlowsInv'
<1>0. "signal" \in ChannelNames
  BY DEF ChannelNames
<1>1. "cli" \in Touching /\ "cli" \notin Critical /\ "cli" # "mode"
  BY DEF Touching, Critical
<1>2. /\ flow.chan # "none" /\ FlowOf[flow.chan][flow.step] = "cli"
      /\ UNCHANGED <<visits, found, unstarted>>
  BY <1>0, AskingIs DEF SignalCli
<1>3. mishaps' \in 0 .. MaxMishaps /\ visits' \in 0 .. MaxVisits
  BY <1>2, FlowsTyped, MishapTyped DEF SignalCli
<1>4. Alike
  <2>1. CASE plant' = plant
    BY <2>1, StayingAlike
  <2>2. CASE plant' = [plant EXCEPT !.cli = TRUE]
    <3>1. /\ plant' \in PlantType /\ plant'.tree = plant.tree /\ plant'.dist = plant.dist
          /\ plant'.packages = plant.packages /\ plant'.keys = plant.keys
          /\ plant'.modes = plant.modes /\ plant'.says = plant.says /\ plant'.cut = plant.cut /\ plant'.link = plant.link
          /\ plant'.service = plant.service
      BY <2>2, PlantTyped DEF PlantType
    <3> QED
      BY <1>1, <1>2, <3>1, SameAlike
  <2> QED
    BY <2>1, <2>2 DEF SignalCli
<1>5. CASE Goes
  BY <1>1, <1>2, <1>3, <1>4, <1>5, PlainGoesKeeps
<1>6. CASE flow' = Stumbled(flow)
  BY <1>1, <1>2, <1>3, <1>4, <1>6, StumbledKeeps
<1> QED
  BY <1>5, <1>6 DEF SignalCli

LEMMA SignalLinkKeeps ==
  ASSUME FlowsInv, SignalLinkSkipped \/ SignalLinks \/ SignalLinkFails PROVE FlowsInv'
<1>0. "signal" \in ChannelNames
  BY DEF ChannelNames
<1>1. "link" \in Touching /\ "link" \notin Critical /\ "link" # "mode"
  BY DEF Touching, Critical
<1>2. /\ flow.chan # "none" /\ FlowOf[flow.chan][flow.step] = "link"
      /\ UNCHANGED <<visits, found, unstarted>>
  BY <1>0, AskingIs DEF SignalLinkSkipped, SignalLinks, SignalLinkFails, Plain
<1>3. mishaps' \in 0 .. MaxMishaps /\ visits' \in 0 .. MaxVisits
  BY <1>2, FlowsTyped, MishapTyped DEF SignalLinkSkipped, SignalLinks, SignalLinkFails, Plain
<1>4. Alike
  <2>1. CASE plant' = plant
    BY <2>1, StayingAlike
  <2>2. CASE plant' = [plant EXCEPT !.account = TRUE]
    <3>1. /\ plant' \in PlantType /\ plant'.tree = plant.tree /\ plant'.dist = plant.dist
          /\ plant'.packages = plant.packages /\ plant'.keys = plant.keys
          /\ plant'.modes = plant.modes /\ plant'.says = plant.says /\ plant'.cut = plant.cut /\ plant'.link = plant.link
          /\ plant'.service = plant.service
      BY <2>2, PlantTyped DEF PlantType
    <3> QED
      BY <1>1, <1>2, <3>1, SameAlike
  <2> QED
    BY <2>1, <2>2 DEF SignalLinkSkipped, SignalLinks, SignalLinkFails, Plain
<1>5. CASE Goes
  BY <1>1, <1>2, <1>3, <1>4, <1>5, PlainGoesKeeps
<1>6. CASE flow' = Stumbled(flow)
  BY <1>1, <1>2, <1>3, <1>4, <1>6, StumbledKeeps
<1> QED
  BY <1>5, <1>6 DEF SignalLinkSkipped, SignalLinks, SignalLinkFails

LEMMA SignalAccountKeeps ==
  ASSUME FlowsInv, SignalAccount PROVE FlowsInv'
<1>0. "signal" \in ChannelNames /\ "account" \in Touching
  BY DEF ChannelNames, Touching
<1>1. /\ flow.chan = "signal" /\ flow.chan # "none" /\ "signal" \in Offered
      /\ FlowOf[flow.chan][flow.step] = "account"
      /\ Goes /\ RestartService(Keyed(plant, "signal")) /\ UNCHANGED <<visits, found>>
  BY <1>0, AskingIs, FlowsTyped DEF SignalAccount
<1>2. flow.step = 5
  BY <1>1, FlowsTyped, OwnSteps
<1>3. mishaps' \in 0 .. MaxMishaps /\ unstarted' \in BOOLEAN /\ visits' \in 0 .. MaxVisits
  BY <1>1, FlowsTyped, MishapTyped DEF RestartService
<1>4. PICK k : k = Keyed(plant, "signal")
  OBVIOUS
<1>5. PlantOK(k) /\ k \in PlantType
  BY <1>1, <1>4, PlantTyped, KeyedOK DEF PlantOK
<1>6. k.tree = plant.tree /\ "signal" \in k.keys
  BY <1>1, <1>4, PlantTyped, KeyedIs
<1>7. PlantFollows'
  BY <1>1, <1>4, <1>5, RestartedOK DEF RestartService, PlantFollows
<1>8. plant'.tree = plant.tree
  BY <1>1, <1>4, <1>5, <1>6, RestartedIs DEF RestartService
<1>9. unstarted' \/ plant' = Restarted(k)
  BY <1>1, <1>4 DEF RestartService
<1>10. plant' = Restarted(k) /\ "signal" \in plant'.dist => "signal" \in plant'.service.adapters
  BY <1>5, <1>6, RestartedIs
<1>11. ASSUME flow'.chan = flow.chan, flow'.step = flow.step + 1, flow'.asides = flow.asides
       PROVE  LinkedOnTheWay' /\ StartedOnIt'
  <2>1. flow.asides = {} => "signal" \in plant.tree
    BY <1>1, <1>2 DEF FlowsInv, LinkedOnTheWay
  <2>2. LinkedOnTheWay'
    BY <1>1, <1>8, <1>11, <2>1 DEF LinkedOnTheWay
  <2>3. StartedOnIt'
    BY <1>1, <1>8, <1>9, <1>10, <1>11, <2>1 DEF StartedOnIt
  <2> QED
    BY <2>2, <2>3
<1> QED
  BY <1>0, <1>1, <1>3, <1>7, <1>11, GoesKeeps

LEMMA SignalKeeps ==
  ASSUME FlowsInv, SignalStep PROVE FlowsInv'
<1>1. CASE SignalReady
  <2>0. "signal" \in ChannelNames
    BY DEF ChannelNames
  <2>1. flow.step = 1
    BY <1>1, <2>0, AskingIs, FlowsTyped, FirstQuestions DEF SignalReady, BackQuestion
  <2>2. "ready" \notin Critical
    BY DEF Critical
  <2> QED
    BY <1>1, <2>0, <2>1, <2>2, BackQuestionKeeps DEF SignalReady
<1> QED
  BY <1>1, SignalCliKeeps, SignalLinkKeeps, SignalAccountKeeps DEF SignalStep

LEMMA IMessageKeeps ==
  ASSUME FlowsInv, IMessageStep PROVE FlowsInv'
<1>0. "imessage" \in ChannelNames
  BY DEF ChannelNames
<1>1. "access" \notin Critical /\ "handle" \notin Critical
  BY DEF Critical
<1>2. CASE IMessageMode
  <2>1. /\ flow.chan = "imessage" /\ flow.chan # "none"
        /\ FlowOf[flow.chan][flow.step] = "mode"
        /\ UNCHANGED <<plant, visits, mishaps, found, unstarted>>
    BY <1>0, <1>2, AskingIs DEF IMessageMode, Plain
  <2>2. flow.step = 1
    BY <2>1, FlowsTyped, FirstQuestions
  <2>3. CASE BacksOut
    <3>1. Bare(plant) = Bare(found)
      BY <2>1, <2>2 DEF FlowsInv, Untouched
    <3> QED
      BY <2>1, <2>3, <3>1, FlowsTyped, PlantStays, GoneKeeps DEF BacksOut
  <2>4. ASSUME NEW m \in {"local", "remote"}, flow' = [Ahead(flow) EXCEPT !.mode = m]
        PROVE  FlowsInv'
    <3>1. PICK g : g = Ahead(flow)
      OBVIOUS
    <3>2. \/ Over(g, "done")
          \/ OnTheWay(flow, g) /\ g.step = flow.step + 1 /\ g.asides = flow.asides
      BY <2>1, <3>1, FlowsTyped, AheadIs
    <3>3. g \in FlowType
      BY <3>2 DEF Over, OnTheWay
    <3>4. /\ flow' \in FlowType /\ flow'.chan = g.chan /\ flow'.step = g.step
          /\ flow'.asides = g.asides /\ flow'.mode = m /\ flow'.how = g.how
      BY <2>4, <3>1, <3>3 DEF FlowType
    <3>5. PlantFollows'
      BY <2>1, PlantStays
    <3>6. CASE Over(g, "done")
      <4>1. Over(flow', "done")
        BY <3>4, <3>6 DEF Over
      <4> QED
        BY <2>1, <3>5, <4>1, FlowsTyped, OverKeeps
    <3>7. CASE OnTheWay(flow, g) /\ g.step = flow.step + 1 /\ g.asides = flow.asides
      <4>1. OnTheWay(flow, flow') /\ flow'.chan = "imessage" /\ flow'.step = 2
        BY <2>1, <2>2, <3>4, <3>7 DEF OnTheWay
      <4>2. Untouched'
        BY <4>1 DEF Untouched
      <4>3. ModeChosen'
        BY <3>4 DEF ModeChosen
      <4>4. LinkedOnTheWay'
        BY <4>1 DEF LinkedOnTheWay
      <4>5. RestartAt["imessage"] = 4
        BY DEF RestartAt, ChannelNames
      <4>6. StartedOnIt'
        BY <4>1, <4>5 DEF StartedOnIt
      <4> QED
        BY <2>1, <3>5, <4>1, <4>2, <4>3, <4>4, <4>6, FlowsTyped, OnTheWayKeeps
    <3> QED
      BY <3>2, <3>6, <3>7
  <2> QED
    BY <1>2, <2>3, <2>4 DEF IMessageMode
<1>3. CASE IMessageDisk \/ IMessageRemote
  BY <1>0, <1>1, <1>3, QuestionKeeps DEF IMessageDisk, IMessageRemote
<1>4. CASE IMessageHandle
  BY <1>0, <1>1, <1>4, QuestionKeeps DEF IMessageHandle
<1> QED
  BY <1>2, <1>3, <1>4 DEF IMessageStep

LEMMA TeamsQuestion ==
  ASSUME FlowsInv, NEW s, s \notin Critical, s # "finish", BackQuestion("teams", s)
  PROVE  FlowsInv'
<1>0. "teams" \in ChannelNames
  BY DEF ChannelNames
<1>1. s # "install"
  BY DEF Critical
<1>2. flow.step < 9
  BY <1>0, <1>1, AskingIs, FlowsTyped, FirstQuestions DEF BackQuestion
<1> QED
  BY <1>0, <1>2, BackQuestionKeeps

(* The app package bears on nothing else.                                  *)
LEMMA PackageAlike ==
  ASSUME FlowsInv, NEW a \in {"part", "whole"}, plant' = [plant EXCEPT !.app = a]
  PROVE  Alike
<1>1. PlantOK(plant) /\ plant \in PlantType
  BY PlantTyped
<1>2. /\ plant' \in PlantType /\ plant'.tree = plant.tree /\ plant'.dist = plant.dist
      /\ plant'.packages = plant.packages /\ plant'.modes = plant.modes
      /\ plant'.says = plant.says /\ plant'.cut = plant.cut
      /\ plant'.link = plant.link /\ plant'.service = plant.service
  BY <1>1 DEF PlantType
<1>3. Compiles(plant') => Compiles(plant)
  BY <1>2 DEF Compiles
<1>4. PlantOK(plant')
  BY <1>1, <1>2, <1>3 DEF PlantOK
<1>5. Bare(plant') = Bare(plant)
  BY <1>1 DEF Bare, PlantType
<1> QED
  BY <1>2, <1>4, <1>5 DEF Alike, PlantFollows

LEMMA TeamsKeeps ==
  ASSUME FlowsInv, TeamsStep PROVE FlowsInv'
<1>0. "teams" \in ChannelNames
  BY DEF ChannelNames
<1>1. CASE TeamsReuse
  <2>1. /\ flow.chan = "teams" /\ flow.chan # "none"
        /\ UNCHANGED <<plant, visits, mishaps, found, unstarted>>
        /\ flow' = [flow EXCEPT !.step = 9]
    BY <1>0, <1>1, AskingIs DEF TeamsReuse, Plain
  <2>2. /\ flow' \in FlowType /\ flow'.chan = flow.chan /\ flow'.step = 9
        /\ flow'.asides = flow.asides /\ flow'.mode = flow.mode /\ flow'.how = flow.how
    BY <2>1, FlowsTyped DEF FlowType
  <2>3. OnTheWay(flow, flow')
    BY <2>1, <2>2, FlowsTyped, OwnSteps DEF OnTheWay
  <2>4. Untouched'
    BY <2>2 DEF Untouched
  <2>5. ModeChosen'
    BY <2>1, <2>2 DEF ModeChosen
  <2>6. LinkedOnTheWay'
    BY <2>1, <2>2 DEF LinkedOnTheWay
  <2>7. RestartAt["teams"] = 9
    BY DEF RestartAt, ChannelNames
  <2>8. StartedOnIt'
    BY <2>1, <2>2, <2>7 DEF StartedOnIt
  <2>9. PlantFollows'
    BY <2>1, PlantStays
  <2> QED
    BY <2>1, <2>3, <2>4, <2>5, <2>6, <2>8, <2>9, FlowsTyped, OnTheWayKeeps
<1>2. CASE TeamsPrereqs \/ TeamsRegistration
  <2>1. "prereqs" \notin Critical /\ "registration" \notin Critical
    BY DEF Critical
  <2> QED
    BY <1>2, <2>1, TeamsQuestion DEF TeamsPrereqs, TeamsRegistration
<1>3. CASE TeamsSecret \/ TeamsBot
  <2>1. "secret" \notin Critical /\ "bot" \notin Critical
    BY DEF Critical
  <2> QED
    BY <1>3, <2>1, TeamsQuestion DEF TeamsSecret, TeamsBot
<1>4. CASE TeamsEnable \/ TeamsSideload
  <2>1. "enable" \notin Critical /\ "sideload" \notin Critical
    BY DEF Critical
  <2> QED
    BY <1>4, <2>1, TeamsQuestion DEF TeamsEnable, TeamsSideload
<1>5. CASE TeamsPublicUrl
  <2>1. "url" \notin Critical
    BY DEF Critical
  <2> QED
    BY <1>0, <1>5, <2>1, QuestionKeeps DEF TeamsPublicUrl
<1>6. CASE TeamsManifest
  <2>1. /\ flow.chan # "none" /\ FlowOf[flow.chan][flow.step] = "manifest"
        /\ UNCHANGED <<visits, found, unstarted>>
    BY <1>0, <1>6, AskingIs DEF TeamsManifest
  <2>2. mishaps' \in 0 .. MaxMishaps
    BY <1>6, FlowsTyped, MishapTyped DEF TeamsManifest
  <2>3. "manifest" \notin Critical
    BY DEF Critical
  <2>4. Alike
    <3>1. CASE plant' = plant
      BY <3>1, StayingAlike
    <3>2. ASSUME NEW a \in {"part", "whole"}, plant' = [plant EXCEPT !.app = a]
          PROVE  Alike
      BY <3>2, PackageAlike
    <3> QED
      BY <1>6, <3>1, <3>2 DEF TeamsManifest
  <2>5. CASE Goes
    BY <2>1, <2>2, <2>3, <2>4, <2>5, FlowsTyped, PlainGoesKeeps
  <2>6. CASE flow' = Ended("gone")
    <3>1. PlantFollows'
      BY <2>4 DEF Alike
    <3> QED
      BY <2>1, <2>2, <2>6, <3>1, GoneKeeps
  <2> QED
    BY <1>6, <2>5, <2>6 DEF TeamsManifest
<1>7. CASE TeamsInstall
  <2>1. "teams" \in Offered \ {"whatsapp", "signal"}
    BY <1>0, <1>7, AskingIs, FlowsTyped DEF TeamsInstall, InstallRestart
  <2> QED
    BY <1>7, <2>1, InstallRestartKeeps DEF TeamsInstall
<1>8. CASE TeamsFinish
  <2>1. /\ flow.chan # "none" /\ "teams" \in Offered /\ FlowOf[flow.chan][flow.step] = "finish"
        /\ Goes /\ UNCHANGED <<visits, mishaps, found, unstarted>>
        /\ plant' \in {plant, Wired(plant, "teams")}
    BY <1>0, <1>8, AskingIs, FlowsTyped DEF TeamsFinish
  <2>2. "finish" \in Touching /\ "finish" \notin Critical
    BY DEF Touching, Critical
  <2> QED
    BY <2>1, <2>2, FlowsTyped, WiredAlike, PlainGoesKeeps
<1> QED
  BY <1>1, <1>2, <1>3, <1>4, <1>5, <1>6, <1>7, <1>8 DEF TeamsStep

-----------------------------------------------------------------------------
LEMMA ChannelSetupInit_Inv == ASSUME ChannelSetupInit PROVE FlowsInv
<1>1. flow = [chan |-> "none", step |-> 0, failed |-> FALSE, asides |-> {}, tries |-> 0,
              mode |-> "none", how |-> "start"]
  BY DEF ChannelSetupInit, NoFlow
<1>2. /\ flow \in FlowType /\ flow.chan = "none" /\ flow.step = 0 /\ flow.how = "start"
  BY <1>1 DEF FlowType
<1>3. /\ plant.tree = {} /\ plant.dist = {} /\ plant.keys = {} /\ plant.packages = {}
      /\ plant.modes = {} /\ plant.wired = {}
      /\ plant.service = [up |-> TRUE, adapters |-> {}]
  BY DEF ChannelSetupInit
<1>4. plant \in PlantType
  <2>1. /\ plant.app = "none" /\ plant.says = "none" /\ plant.cut = FALSE
        /\ plant.link = "none" /\ plant.account = FALSE
        /\ plant.cli \in BOOLEAN /\ plant.mac \in BOOLEAN
    BY DEF ChannelSetupInit
  <2>2. plant = [tree |-> plant.tree, packages |-> plant.packages, dist |-> plant.dist,
                 app |-> plant.app, keys |-> plant.keys, says |-> plant.says,
                 modes |-> plant.modes, cut |-> plant.cut, link |-> plant.link,
                 account |-> plant.account, cli |-> plant.cli, mac |-> plant.mac,
                 wired |-> plant.wired, service |-> plant.service]
    BY DEF ChannelSetupInit
  <2>3. plant.service \in [up : BOOLEAN, adapters : SUBSET Offered]
    BY <1>3
  <2> QED
    BY <1>3, <2>1, <2>2, <2>3 DEF PlantType
<1>5. ChannelSetupTypeOK
  <2>1. visits = 0 /\ mishaps = 0 /\ unstarted = FALSE
    BY DEF ChannelSetupInit
  <2>2. visits \in 0 .. MaxVisits /\ mishaps \in 0 .. MaxMishaps
    BY <2>1, ChannelBounds
  <2>3. unstarted \in BOOLEAN
    BY <2>1, Zenon
  <2> QED
    BY <1>2, <1>4, <2>2, <2>3 DEF ChannelSetupTypeOK, FlowType, PlantType
<1>6. InIsIn /\ Untouched /\ BackLeavesNoTrace
  BY <1>2 DEF InIsIn, Untouched, BackLeavesNoTrace
<1>7. ModeChosen /\ LinkedOnTheWay /\ StartedOnIt
  BY <1>2 DEF ModeChosen, LinkedOnTheWay, StartedOnIt
<1>8. OneMode /\ BuiltFromTree /\ DownForGood
  BY <1>3 DEF OneMode, BuiltFromTree, DownForGood
<1> QED
  BY <1>5, <1>6, <1>7, <1>8 DEF FlowsInv

LEMMA ChannelSetupNext_Inv ==
  ASSUME FlowsInv, [ChannelSetupNext]_flowVars PROVE FlowsInv'
<1>1. CASE UNCHANGED flowVars
  BY <1>1 DEF flowVars, FlowsInv, ChannelSetupTypeOK, InIsIn, Untouched, BackLeavesNoTrace,
     ModeChosen, OneMode, BuiltFromTree, DownForGood, LinkedOnTheWay, StartedOnIt, Compiles
<1>2. CASE Stops \/ Quits
  BY <1>2, StopsKeep
<1>3. ASSUME NEW c \in Offered, Choose(c) PROVE FlowsInv'
  BY <1>3, ChooseKeeps
<1>4. ASSUME NEW c \in Offered \ {"whatsapp", "signal", "teams"}, InstallRestart(c)
      PROVE  FlowsInv'
  BY <1>4, InstallRestartKeeps
<1>5. ASSUME NEW c \in Offered \cap {"whatsapp", "signal"}, InstallOnly(c) PROVE FlowsInv'
  BY <1>5, InstallOnlyKeeps
<1>6. ASSUME NEW c \in Offered, Role(c) PROVE FlowsInv'
  BY <1>6, RoleKeeps
<1>7. ASSUME NEW c \in Offered \ {"teams"}, InitFirstAgent(c) PROVE FlowsInv'
  BY <1>7, InitFirstAgentKeeps
<1>8. CASE TelegramStep \/ DiscordStep \/ SlackStep \/ WhatsAppStep
  BY <1>8, TelegramKeeps, DiscordKeeps, SlackKeeps, WhatsAppKeeps
<1>9. CASE SignalStep \/ IMessageStep \/ TeamsStep
  BY <1>9, SignalKeeps, IMessageKeeps, TeamsKeeps
<1> QED
  BY <1>1, <1>2, <1>3, <1>4, <1>5, <1>6, <1>7, <1>8, <1>9 DEF ChannelSetupNext, FlowStep

LEMMA TornIs ==
  ASSUME Torn(plant) = {}
  PROVE  Compiles(plant) /\ plant.tree \subseteq plant.dist
BY DEF Torn, Compiles

LEMMA FlowsInv_Safe == ASSUME FlowsInv PROVE FlowsSafe
<1>1. ServiceSurvives
  BY TornIs DEF FlowsInv, DownForGood, ServiceSurvives
<1> QED
  BY <1>1 DEF FlowsInv, FlowsSafe

(* An agent is wired after the service was started on the channel.         *)
LEMMA InitIsLate ==
  ASSUME NEW c \in ChannelNames \ {"teams"}, NEW i \in DOMAIN FlowOf[c], FlowOf[c][i] = "init"
  PROVE  i > RestartAt[c]
<1>1. c = "telegram" \/ c = "discord" \/ c = "whatsapp" \/ c = "signal" \/ c = "slack"
      \/ c = "imessage"
  BY DEF ChannelNames
<1>2. CASE c = "telegram"
  <2>1. RestartAt[c] = 3
    BY <1>2 DEF RestartAt
  <2> QED
    BY <1>2, <2>1, FlowsAre DEF Telegram
<1>3. CASE c = "discord"
  <2>1. RestartAt[c] = 8
    BY <1>3 DEF RestartAt
  <2> QED
    BY <1>3, <2>1, FlowsAre DEF Discord
<1>4. CASE c = "whatsapp"
  <2>1. RestartAt[c] = 5
    BY <1>4 DEF RestartAt
  <2> QED
    BY <1>4, <2>1, FlowsAre DEF WhatsApp
<1>5. CASE c = "signal"
  <2>1. RestartAt[c] = 5
    BY <1>5 DEF RestartAt
  <2> QED
    BY <1>5, <2>1, FlowsAre DEF SignalApp
<1>6. CASE c = "slack"
  <2>1. RestartAt[c] = 5
    BY <1>6 DEF RestartAt
  <2> QED
    BY <1>6, <2>1, FlowsAre DEF Slack
<1>7. CASE c = "imessage"
  <2>1. RestartAt[c] = 4
    BY <1>7 DEF RestartAt
  <2> QED
    BY <1>7, <2>1, FlowsAre DEF IMessage
<1> QED
  BY <1>1, <1>2, <1>3, <1>4, <1>5, <1>6, <1>7

(* What is not installing or wiring leaves the wirings alone.              *)
LEMMA OthersDoNotWire ==
  ASSUME FlowsInv, plant'.wired # plant.wired, [ChannelSetupNext]_flowVars
  PROVE  \/ \E d \in Offered \ {"teams"} : InitFirstAgent(d)
         \/ TeamsFinish
         \/ \E d \in Offered : InstallRestart(d) \/ InstallOnly(d)
         \/ Quits
<1>0. plant \in PlantType /\ plant' # plant
  BY PlantTyped
<1>1. ASSUME WhatsAppLinks \/ WhatsAppLinkFails PROVE FALSE
  BY <1>0, <1>1 DEF WhatsAppLinks, WhatsAppLinkFails, PlantType
<1>2. ASSUME WhatsAppRestart PROVE FALSE
  BY <1>0, <1>2, RestartedIs DEF WhatsAppRestart, RestartService
<1>3. ASSUME WhatsAppChatNumber PROVE FALSE
  BY <1>0, <1>3 DEF WhatsAppChatNumber, Question, Plain
<1>4. ASSUME SignalCli \/ SignalLinks PROVE FALSE
  BY <1>0, <1>4 DEF SignalCli, SignalLinks, PlantType
<1>5. ASSUME SignalAccount PROVE FALSE
  <2>0. "signal" \in ChannelNames
    BY DEF ChannelNames
  <2>1. "signal" \in Offered
    BY <1>5, <2>0, AskingIs, FlowsTyped DEF SignalAccount
  <2>2. PICK k : k = Keyed(plant, "signal")
    OBVIOUS
  <2>3. k \in PlantType /\ k.wired = plant.wired
    BY <1>0, <2>1, <2>2, KeyedIs
  <2>4. plant' = k \/ plant' = Restarted(k)
    BY <1>5, <2>2 DEF SignalAccount, RestartService
  <2> QED
    BY <2>3, <2>4, RestartedIs
<1>6. ASSUME SignalStep \/ WhatsAppStep PROVE FALSE
  BY <1>0, <1>1, <1>2, <1>3, <1>4, <1>5, <1>6
     DEF WhatsAppStep, WhatsAppMethod, WhatsAppLinkSkipped, WhatsAppNumber, BackQuestion, Plain,
         SignalStep, SignalReady, SignalLinkSkipped, SignalLinkFails
<1>7. ASSUME TelegramStep PROVE FALSE
  BY <1>0, <1>7 DEF TelegramStep, TelegramToken, TelegramCheck, PairRight, PairWrong, PairFails,
     BackQuestion, Lookup, Plain
<1>8. ASSUME DiscordStep \/ SlackStep PROVE FALSE
  BY <1>0, <1>8 DEF DiscordStep, DiscordAskBot, DiscordToken, DiscordCheck, DiscordAppInfo,
     DiscordOwner, DiscordServer, DiscordInvite, DiscordOpenDm, SlackStep, SlackApp, SlackToken,
     SlackSecret, SlackCheck, SlackOwner, SlackOpenDm, Question, BackQuestion, Lookup, Plain
<1>9. ASSUME IMessageStep PROVE FALSE
  BY <1>0, <1>9 DEF IMessageStep, IMessageMode, IMessageDisk, IMessageRemote, IMessageHandle,
     Question, Plain
<1>10. ASSUME TeamsStep, ~TeamsInstall, ~TeamsFinish PROVE FALSE
  <2>1. ~TeamsManifest
    BY <1>0 DEF TeamsManifest, PlantType
  <2> QED
    BY <1>0, <1>10, <2>1 DEF TeamsStep, TeamsReuse, TeamsPrereqs, TeamsPublicUrl,
       TeamsRegistration, TeamsSecret, TeamsBot, TeamsEnable, TeamsSideload, Question,
       BackQuestion, Plain
<1>11. ASSUME Stops \/ (\E c \in Offered : Role(c) \/ Choose(c)) PROVE FALSE
  BY <1>0, <1>11 DEF Stops, Role, Choose, Question, Plain
<1>12. ASSUME TeamsInstall PROVE \E d \in Offered : InstallRestart(d)
  <2>0. "teams" \in ChannelNames
    BY DEF ChannelNames
  <2>1. "teams" \in Offered
    BY <1>12, <2>0, AskingIs, FlowsTyped DEF TeamsInstall, InstallRestart
  <2> QED
    BY <1>12, <2>1 DEF TeamsInstall
<1>13. ~UNCHANGED flowVars
  BY <1>0 DEF flowVars
<1> QED
  BY <1>6, <1>7, <1>8, <1>9, <1>10, <1>11, <1>12, <1>13 DEF ChannelSetupNext, FlowStep

(* Whatever wires a chat in this plant has its adapter in the service.     *)
LEMMA WiringStep ==
  ASSUME FlowsInv, [ChannelSetupNext]_flowVars, NEW c \in Offered,
         c \in plant'.wired \ plant.wired, Torn(plant) = {}, ~unstarted, flow.asides = {}
  PROVE  Served(plant, c)
<1>0. PlantOK(plant) /\ plant \in PlantType /\ Compiles(plant) /\ plant.service.up
  BY PlantTyped, TornIs DEF PlantOK
<1>1. ASSUME NEW d \in Offered, plant' \in {plant, Wired(plant, d)} PROVE c = d
  BY <1>0, <1>1, WiredIs
<1>2. ASSUME NEW d \in Offered \ {"teams"}, InitFirstAgent(d) PROVE Served(plant, c)
  <2>1. /\ d \in ChannelNames /\ flow.chan = d /\ flow.chan # "none"
        /\ FlowOf[flow.chan][flow.step] = "init" /\ c = d
    BY <1>1, <1>2, ChannelBounds, AskingIs DEF InitFirstAgent
  <2>2. flow.step > RestartAt[d]
    BY <2>1, FlowsTyped, InitIsLate
  <2>3. c \in plant.tree /\ (c \in plant.service.adapters \/ c \notin plant.dist)
    BY <2>1, <2>2 DEF FlowsInv, StartedOnIt
  <2> QED
    BY <1>0, <2>3, TornIs DEF Served
<1>3. ASSUME TeamsFinish PROVE Served(plant, c)
  <2>1. "teams" \in Offered
    <3>1. "teams" \in ChannelNames
      BY DEF ChannelNames
    <3> QED
      BY <1>3, <3>1, AskingIs, FlowsTyped DEF TeamsFinish
  <2>2. plant' = plant \/ (plant' = Wired(plant, "teams") /\ Served(plant, "teams"))
    BY <1>3 DEF TeamsFinish
  <2>3. c = "teams"
    BY <1>1, <2>1, <2>2
  <2> QED
    BY <2>2, <2>3
<1>4. ASSUME NEW d \in Offered, Asking(d, "install"), plant' \in Cuts(d) PROVE FALSE
  <2>1. d = "imessage" => flow.mode \in {"local", "remote"}
    BY <1>4, ChannelBounds, ModeAtInstall
  <2> QED
    BY <1>0, <1>4, <2>1, CutsOK
<1>5. ASSUME NEW d \in Offered, InstallRestart(d) PROVE FALSE
  <2>1. d = "imessage" => flow.mode \in {"local", "remote"}
    BY <1>5, ChannelBounds, ModeAtInstall DEF InstallRestart
  <2>2. ASSUME NEW m \in InstalledTo(plant, d) PROVE /\ Keyed(m, d).wired = plant.wired
                                                     /\ Restarted(Keyed(m, d)).wired = plant.wired
    <3>1. m \in PlantType /\ m.wired = plant.wired
      BY <1>0, InstalledOK DEF PlantOK
    <3>2. Keyed(m, d) \in PlantType /\ Keyed(m, d).wired = m.wired
      BY <2>1, <3>1, KeyedIs
    <3> QED
      BY <3>1, <3>2, RestartedIs
  <2> QED
    BY <1>4, <1>5, <2>2 DEF InstallRestart
<1>6. ASSUME NEW d \in Offered, InstallOnly(d) PROVE FALSE
  <2>1. plant' \in InstalledTo(plant, d) \/ plant' \in Cuts(d)
    BY <1>6 DEF InstallOnly
  <2> QED
    BY <1>0, <1>4, <1>6, <2>1, InstalledOK DEF InstallOnly
<1>7. ASSUME Quits PROVE FALSE
  <2>1. plant' = plant \/ (Asking(flow.chan, "install") /\ plant' \in Cuts(flow.chan))
    BY <1>7 DEF Quits
  <2>2. flow.chan \in Offered
    BY <1>7, FlowsTyped DEF Quits
  <2> QED
    BY <1>4, <2>1, <2>2
<1>8. plant'.wired # plant.wired
  OBVIOUS
<1> QED
  BY <1>2, <1>3, <1>5, <1>6, <1>7, <1>8, OthersDoNotWire

LEMMA FlowsInductive == ChannelSetupInit /\ [][ChannelSetupNext]_flowVars => []FlowsInv
<1>1. ChannelSetupInit => FlowsInv
  BY ChannelSetupInit_Inv
<1>2. FlowsInv /\ [ChannelSetupNext]_flowVars => FlowsInv'
  BY ChannelSetupNext_Inv
<1> QED
  BY <1>1, <1>2, PTL

(* ChannelSetup.FlowsSafe (setup/channels): wherever a flow is left, going *)
(* back has touched nothing but the Teams app package, the service is up   *)
(* unless an install was torn, and .env has keys of no iMessage mode but    *)
(* the one it names, unless the script was stopped while it wrote them and *)
(* has not got through since.                                              *)
THEOREM FlowsAreSafe == ChannelSetupSpec => []FlowsSafe
<1>1. FlowsInv => FlowsSafe
  BY FlowsInv_Safe
<1> QED
  BY <1>1, FlowsInductive, PTL DEF ChannelSetupSpec

LEMMA FlowSteps == ChannelSetupInit /\ [][ChannelSetupNext]_flowVars => WiringIsServed
<1>1. FlowsInv /\ [ChannelSetupNext]_flowVars =>
        [\A c \in Offered :
           c \in plant'.wired \ plant.wired /\ Torn(plant) = {} /\ ~unstarted /\ flow.asides = {}
             => Served(plant, c)]_flowVars
  BY WiringStep
<1> QED
  BY <1>1, FlowsInductive, PTL DEF WiringIsServed

(* ChannelSetup (setup/channels/run-*.ts): an agent is wired over a channel *)
(* only when the running service has that channel's adapter and its keys.  *)
THEOREM FlowsKept == ChannelSetupSpec => WiringIsServed
BY FlowSteps DEF ChannelSetupSpec

-----------------------------------------------------------------------------
(***************************************************************************)
(* The uninstaller.                                                        *)
(***************************************************************************)

Askings == GroupNames \cup {"cancelled"}

(* While it asks, nothing is planned and all that was found is still       *)
(* there, and so is the database if it has told whose agents there are.    *)
AskingFollows ==
  remover.at \in Askings =>
    /\ remover.inv.found \cap Things \subseteq things
    /\ remover.inv.mine # {} => "ids" \in things
    /\ owed = {} /\ remover.plan = {} /\ remover.notes = {}

(* What the host that still runs puts back, and what only stops it.        *)
PutBack == {"data", "pid", "pkill", "boxes"}

(* What b was to remove is among the files t, the agents v or is a service  *)
(* of c.                                                                   *)
StillThere(b, t, v, c) ==
  b \in t \/ b \in v \/ (b = "unit" /\ (c.unit # "none" \/ c.loaded))

(* What is owed is still in the plan, and what has been through is gone,   *)
(* noted, or its command failed without a word, which no file's does.      *)
PlanFollows ==
  /\ remover.at = "removing" => owed \subseteq remover.plan
  /\ remover.at = "done" => remover.plan = {}
  /\ remover.at \in {"removing", "done"} =>
       \A a \in remover.chosen \ PutBack :
         \/ a \in remover.plan \/ a \in remover.notes \/ a \in missed
         \/ ~StillThere(a, things, vault, copy)
MissedAreCommands == missed \cap Things = {}

(* Once this checkout's host was told to stop it is no longer up, but for  *)
(* one that its manager starts again; the manager's turn was before.       *)
HostFollows ==
  /\ remover.at = "removing"
  /\ "pkill" \in remover.chosen \ missed /\ "pkill" \notin remover.plan
  => "unit" \notin remover.plan /\ (copy.loaded \/ copy.host # "up")

(* An agent of unknown owner is chosen only with its user's word.          *)
TheirsAreTold == Theirs \cap remover.chosen \subseteq told

UninstallInv ==
  /\ UninstallTypeOK /\ AskingFollows /\ PlanFollows /\ MissedAreCommands
  /\ HostFollows /\ TheirsAreTold
  /\ KeysKept /\ OthersStay /\ OwedIsKnown

-----------------------------------------------------------------------------
(* The order of the removal, and the groups.                               *)
LEMMA UninstallBounds == MaxTries \in Nat /\ MaxSlips \in Nat /\ MaxBoxes \in Nat
BY UninstallConstants

LEMMA OrderIs ==
  /\ DOMAIN Order = 1 .. 11
  /\ Order[1] = "unit" /\ Order[2] = "pid" /\ Order[3] = "pkill" /\ Order[4] = "boxes"
  /\ Order[5] = "image" /\ Order[6] = "our agent" /\ Order[7] = "their agent"
  /\ Order[8] = ".env" /\ Order[9] = "data" /\ Order[10] = "groups" /\ Order[11] = "node_modules"
BY DEF Order

LEMMA ActionsAre ==
  Actions = {"unit", "pid", "pkill", "boxes", "image", "our agent", "their agent",
             ".env", "data", "groups", "node_modules"}
<1>1. ASSUME NEW x \in Actions
      PROVE  x \in {"unit", "pid", "pkill", "boxes", "image", "our agent", "their agent",
                    ".env", "data", "groups", "node_modules"}
  <2>1. PICK i \in 1 .. 11 : x = Order[i]
    BY OrderIs DEF Actions
  <2>2. \/ i = 1 \/ i = 2 \/ i = 3 \/ i = 4 \/ i = 5 \/ i = 6
        \/ i = 7 \/ i = 8 \/ i = 9 \/ i = 10 \/ i = 11
    OBVIOUS
  <2> QED
    BY <2>1, <2>2, OrderIs
<1>2. \A i \in 1 .. 11 : Order[i] \in Actions
  BY OrderIs DEF Actions
<1>3. /\ Order[1] \in Actions /\ Order[2] \in Actions /\ Order[3] \in Actions
      /\ Order[4] \in Actions /\ Order[5] \in Actions /\ Order[6] \in Actions
      /\ Order[7] \in Actions /\ Order[8] \in Actions /\ Order[9] \in Actions
      /\ Order[10] \in Actions /\ Order[11] \in Actions
  BY <1>2
<1>4. "unit" \in Actions /\ "pid" \in Actions /\ "pkill" \in Actions
  BY <1>3, OrderIs
<1>5. "boxes" \in Actions /\ "image" \in Actions /\ "our agent" \in Actions
  BY <1>3, OrderIs
<1>6. "their agent" \in Actions /\ ".env" \in Actions /\ "data" \in Actions
  BY <1>3, OrderIs
<1>7. "groups" \in Actions /\ "node_modules" \in Actions
  BY <1>3, OrderIs
<1> QED
  BY <1>1, <1>4, <1>5, <1>6, <1>7

LEMMA GroupsAre ==
  GroupNames = {"service", "data", "user", "mine", "orphans"}
<1>0. /\ DOMAIN Groups = 1 .. 5
      /\ Groups[1] = "service" /\ Groups[2] = "data" /\ Groups[3] = "user"
      /\ Groups[4] = "mine" /\ Groups[5] = "orphans"
  BY DEF Groups
<1>1. ASSUME NEW x \in GroupNames PROVE x \in {"service", "data", "user", "mine", "orphans"}
  <2>1. PICK i \in 1 .. 5 : x = Groups[i]
    BY <1>0 DEF GroupNames
  <2>2. \/ i = 1 \/ i = 2 \/ i = 3 \/ i = 4 \/ i = 5
    OBVIOUS
  <2> QED
    BY <2>1, <2>2, <1>0
<1>2. \A i \in 1 .. 5 : Groups[i] \in GroupNames
  BY <1>0 DEF GroupNames
<1>3. /\ "service" \in GroupNames /\ "data" \in GroupNames /\ "user" \in GroupNames
      /\ "mine" \in GroupNames /\ "orphans" \in GroupNames
  BY <1>0, <1>2
<1> QED
  BY <1>1, <1>3

(* Of groups that are left, one is the first.                              *)
LEMMA FirstGroup ==
  ASSUME NEW S \in SUBSET GroupNames, S # {}
  PROVE  (CHOOSE g \in S : IsFirst(g, S, Groups)) \in S
<1>0. /\ DOMAIN Groups = 1 .. 5
      /\ Groups[1] = "service" /\ Groups[2] = "data" /\ Groups[3] = "user"
      /\ Groups[4] = "mine" /\ Groups[5] = "orphans"
  BY DEF Groups
<1>1. ASSUME NEW i \in 1 .. 5, Groups[i] \in S, \A j \in 1 .. i - 1 : Groups[j] \notin S
      PROVE  \E g \in S : IsFirst(g, S, Groups)
  BY <1>0, <1>1 DEF IsFirst
<1>2. \/ "service" \in S \/ "data" \in S \/ "user" \in S \/ "mine" \in S \/ "orphans" \in S
  BY GroupsAre
<1>3. \E i \in 1 .. 5 : Groups[i] \in S /\ \A j \in 1 .. i - 1 : Groups[j] \notin S
  <2>1. CASE Groups[1] \in S
    BY <2>1
  <2>2. CASE Groups[1] \notin S /\ Groups[2] \in S
    BY <2>2
  <2>3. CASE Groups[1] \notin S /\ Groups[2] \notin S /\ Groups[3] \in S
    BY <2>3
  <2>4. CASE Groups[1] \notin S /\ Groups[2] \notin S /\ Groups[3] \notin S /\ Groups[4] \in S
    BY <2>4
  <2>5. CASE /\ Groups[1] \notin S /\ Groups[2] \notin S /\ Groups[3] \notin S
             /\ Groups[4] \notin S /\ Groups[5] \in S
    BY <2>5
  <2> QED
    BY <2>1, <2>2, <2>3, <2>4, <2>5, <1>0, <1>2
<1>4. \E g \in S : IsFirst(g, S, Groups)
  BY <1>1, <1>3
<1> QED
  BY <1>4

(* What an action that is executed has before it.                          *)
LEMMA ExecutingIs ==
  ASSUME NEW a, Executing(a)
  PROVE  /\ remover.at = "removing" /\ a \in remover.plan
         /\ a = "pkill" => "unit" \notin remover.plan
         /\ a = ".env" => "pkill" \notin remover.plan
         /\ a = "data" => "pkill" \notin remover.plan /\ "our agent" \notin remover.plan
<1>1. PICK i \in 1 .. 11 : Order[i] = a /\ \A j \in 1 .. i - 1 : Order[j] \notin remover.plan
  BY OrderIs DEF Executing, IsFirst
<1>2. remover.at = "removing" /\ a \in remover.plan
  BY DEF Executing, IsFirst
<1>3. \/ i = 1 \/ i = 2 \/ i = 3 \/ i = 4 \/ i = 5 \/ i = 6
      \/ i = 7 \/ i = 8 \/ i = 9 \/ i = 10 \/ i = 11
  OBVIOUS
<1>4. a = "pkill" => i = 3
  BY <1>1, <1>3, OrderIs
<1>5. a = ".env" => i = 8
  BY <1>1, <1>3, OrderIs
<1>6. a = "data" => i = 9
  BY <1>1, <1>3, OrderIs
<1>7. a = "pkill" => Order[1] \notin remover.plan
  BY <1>1, <1>4
<1>8. a = ".env" => Order[3] \notin remover.plan
  BY <1>1, <1>5
<1>9. a = "data" => Order[3] \notin remover.plan /\ Order[6] \notin remover.plan
  BY <1>1, <1>6
<1> QED
  BY <1>2, <1>7, <1>8, <1>9, OrderIs

-----------------------------------------------------------------------------
(* How the asking goes on and ends.                                        *)
RemoverType ==
  [at : {"idle", "removing", "done", "cancelled"} \cup GroupNames,
   inv : [found : SUBSET (Things \cup ServiceGroup),
          mine : SUBSET Ours, orphans : SUBSET (Ours \cup Theirs)],
   chosen : SUBSET Actions, plan : SUBSET Actions, notes : SUBSET Actions]

(* The remover r asks on, has nothing to do, or begins to remove.          *)
Settles(r, s) ==
  /\ s \in RemoverType /\ s.chosen = r.chosen /\ s.notes = r.notes
  /\ \/ /\ s.inv = r.inv /\ s.plan = r.plan
        /\ s.at \in GroupNames \/ (s.at = "done" /\ r.chosen = {})
     \/ s.at = "removing" /\ s.plan = r.chosen

LEMMA RemoverFields ==
  ASSUME NEW r \in RemoverType
  PROVE  /\ r.at \in {"idle", "removing", "done", "cancelled"} \cup GroupNames
         /\ r.inv \in [found : SUBSET (Things \cup ServiceGroup),
                       mine : SUBSET Ours, orphans : SUBSET (Ours \cup Theirs)]
         /\ r.chosen \in SUBSET Actions /\ r.plan \in SUBSET Actions
         /\ r.notes \in SUBSET Actions
BY DEF RemoverType

LEMMA NoInventoryTyped ==
  NoInventory \in [found : SUBSET (Things \cup ServiceGroup),
                   mine : SUBSET Ours, orphans : SUBSET (Ours \cup Theirs)]
BY DEF NoInventory

LEMMA RemoverRow ==
  ASSUME NEW at \in {"idle", "removing", "done", "cancelled"} \cup GroupNames,
         NEW inv \in [found : SUBSET (Things \cup ServiceGroup),
                      mine : SUBSET Ours, orphans : SUBSET (Ours \cup Theirs)],
         NEW chosen \in SUBSET Actions, NEW plan \in SUBSET Actions, NEW notes \in SUBSET Actions,
         NEW s, s = [at |-> at, inv |-> inv, chosen |-> chosen, plan |-> plan, notes |-> notes]
  PROVE  /\ s \in RemoverType
         /\ s.at = at /\ s.inv = inv /\ s.chosen = chosen /\ s.plan = plan /\ s.notes = notes
BY DEF RemoverType

LEMMA AtIs ==
  ASSUME NEW r \in RemoverType, NEW at \in {"idle", "removing", "done", "cancelled"} \cup GroupNames,
         NEW s, s = [r EXCEPT !.at = at]
  PROVE  /\ s \in RemoverType
         /\ s.at = at /\ s.inv = r.inv /\ s.chosen = r.chosen /\ s.plan = r.plan
         /\ s.notes = r.notes
<1>1. s = [at |-> at, inv |-> r.inv, chosen |-> r.chosen, plan |-> r.plan, notes |-> r.notes]
  BY DEF RemoverType
<1> QED
  BY <1>1, RemoverFields, RemoverRow

LEMMA DecidedIs ==
  ASSUME NEW r \in RemoverType, NEW s, s = Decided(r)
  PROVE  Settles(r, s)
<1>1. CASE r.chosen = {}
  <2>1. s = [r EXCEPT !.at = "done"]
    BY <1>1 DEF Decided
  <2>2. /\ s \in RemoverType
        /\ s.at = "done" /\ s.inv = r.inv /\ s.chosen = r.chosen /\ s.plan = r.plan
        /\ s.notes = r.notes
    BY <2>1, AtIs
  <2> QED
    BY <1>1, <2>2 DEF Settles
<1>2. CASE r.chosen # {}
  <2>1. s = [r EXCEPT !.at = "removing", !.plan = r.chosen, !.inv = NoInventory]
    BY <1>2 DEF Decided
  <2>2. s = [at |-> "removing", inv |-> NoInventory, chosen |-> r.chosen, plan |-> r.chosen,
             notes |-> r.notes]
    BY <2>1 DEF RemoverType
  <2>3. /\ s \in RemoverType
        /\ s.at = "removing" /\ s.chosen = r.chosen /\ s.plan = r.chosen /\ s.notes = r.notes
    BY <2>2, RemoverFields, NoInventoryTyped, RemoverRow
  <2> QED
    BY <2>3 DEF Settles
<1> QED
  BY <1>1, <1>2

LEMMA NextGroupIs ==
  ASSUME NEW r \in RemoverType, NEW past, NEW s, s = NextGroup(r, past)
  PROVE  Settles(r, s)
<1> DEFINE rest == Asked(r.inv) \ past
<1>0. rest \in SUBSET GroupNames
  BY DEF Asked
<1>1. CASE rest = {}
  BY <1>1, DecidedIs DEF NextGroup
<1>2. CASE rest # {}
  <2>1. PICK g \in GroupNames : g = CHOOSE h \in rest : IsFirst(h, rest, Groups)
    BY <1>0, <1>2, FirstGroup
  <2>2. s = [r EXCEPT !.at = g]
    BY <1>2, <2>1 DEF NextGroup
  <2> QED
    BY <2>2, AtIs DEF Settles
<1> QED
  BY <1>1, <1>2

(* What is chosen is an action, and it is another's agent only by name.    *)
LEMMA MembersTyped ==
  ASSUME NEW inv \in [found : SUBSET (Things \cup ServiceGroup),
                      mine : SUBSET Ours, orphans : SUBSET (Ours \cup Theirs)],
         NEW g \in GroupNames
  PROVE  /\ Members(inv, g) \subseteq Actions
         /\ Theirs \cap Members(inv, g) \subseteq IF g = "orphans" THEN inv.orphans ELSE {}
<1>0. /\ inv.found \subseteq Things \cup ServiceGroup /\ inv.mine \subseteq Ours
      /\ inv.orphans \subseteq Ours \cup Theirs
  OBVIOUS
<1>1. ServiceGroup \cup {"pkill", "boxes"} \subseteq Actions
  BY ActionsAre, Zenon DEF ServiceGroup
<1>2. DataGroup \subseteq Actions
  BY ActionsAre, Zenon DEF DataGroup, AppData, Runtime
<1>3. AgentFiles \subseteq Actions /\ Ours \subseteq Actions /\ Theirs \subseteq Actions
  BY ActionsAre, Zenon DEF AgentFiles, Ours, Theirs
<1>4. "their agent" \notin ServiceGroup \cup {"pkill", "boxes"}
  BY DEF ServiceGroup
<1>5. "their agent" \notin DataGroup
  BY DEF DataGroup, AppData, Runtime
<1>6. "their agent" \notin AgentFiles /\ "their agent" \notin Ours
  BY DEF AgentFiles, Ours
<1>7. CASE g = "service"
  <2>1. Members(inv, g) \subseteq ServiceGroup \cup {"pkill", "boxes"}
    BY <1>7 DEF Members
  <2> QED
    BY <1>1, <1>4, <2>1 DEF Theirs
<1>8. CASE g = "data"
  <2>1. Members(inv, g) \subseteq DataGroup
    BY <1>8 DEF Members
  <2> QED
    BY <1>2, <1>5, <2>1 DEF Theirs
<1>9. CASE g = "user"
  <2>1. Members(inv, g) \subseteq AgentFiles
    BY <1>9 DEF Members
  <2> QED
    BY <1>3, <1>6, <2>1 DEF Theirs
<1>10. CASE g = "mine"
  <2>1. Members(inv, g) \subseteq Ours
    BY <1>0, <1>10 DEF Members
  <2> QED
    BY <1>3, <1>6, <2>1 DEF Theirs
<1>11. CASE g = "orphans"
  <2>1. Members(inv, g) = inv.orphans
    BY <1>11 DEF Members
  <2>2. inv.orphans \subseteq Actions
    BY <1>0, <1>3
  <2> QED
    BY <2>1, <2>2, <1>11
<1> QED
  BY <1>7, <1>8, <1>9, <1>10, <1>11, GroupsAre

LEMMA AllAgreedTyped ==
  ASSUME NEW inv \in [found : SUBSET (Things \cup ServiceGroup),
                      mine : SUBSET Ours, orphans : SUBSET (Ours \cup Theirs)]
  PROVE  AllAgreed(inv) \subseteq Actions /\ Theirs \cap AllAgreed(inv) = {}
<1>1. ASSUME NEW x \in AllAgreed(inv) PROVE x \in Actions /\ x \notin Theirs
  <2>1. PICK g \in Asked(inv) \ {"orphans"} : x \in Members(inv, g)
    BY DEF AllAgreed
  <2>2. g \in GroupNames /\ g # "orphans"
    BY DEF Asked
  <2> QED
    BY <2>1, <2>2, MembersTyped
<1> QED
  BY <1>1

LEMMA InventoryTyped ==
  ASSUME UninstallTypeOK, NEW docker \in BOOLEAN, NEW listed \in {vault, {}},
         NEW inv, inv = Inventory(docker, listed)
  PROVE  /\ inv \in [found : SUBSET (Things \cup ServiceGroup),
                     mine : SUBSET Ours, orphans : SUBSET (Ours \cup Theirs)]
         /\ inv.found \cap Things \subseteq things
         /\ inv.mine # {} => "ids" \in things
<1>0. things \subseteq Things /\ listed \subseteq Ours \cup Theirs
  BY DEF UninstallTypeOK
<1> DEFINE finds == (things \ {"ids", "image"})
             \cup (IF copy.unit # "none" THEN {"unit"} ELSE {})
             \cup (IF copy.pid THEN {"pid"} ELSE {})
             \cup (IF docker /\ copy.boxes > 0 THEN {"boxes"} ELSE {})
             \cup (IF docker THEN things \cap {"image"} ELSE {})
<1>1. inv.found = finds /\ inv.mine = Mine(listed) /\ inv.orphans = listed \ Mine(listed)
  BY DEF Inventory
<1>2. finds \subseteq things \cup {"unit", "pid", "boxes"}
  OBVIOUS
<1>3. {"unit", "pid", "boxes"} \subseteq ServiceGroup
  BY DEF ServiceGroup
<1>4. "unit" \notin Things /\ "pid" \notin Things
  BY DEF Things, AppData, AgentFiles, Runtime
<1>5. "boxes" \notin Things
  BY DEF Things, AppData, AgentFiles, Runtime
<1>6. Mine(listed) \subseteq Ours /\ Mine(listed) \subseteq listed
      /\ (Mine(listed) # {} => "ids" \in things)
  BY DEF Mine
<1>7. inv = [found |-> finds, mine |-> Mine(listed), orphans |-> listed \ Mine(listed)]
  BY DEF Inventory
<1>8. finds \in SUBSET (Things \cup ServiceGroup)
  BY <1>0, <1>2, <1>3
<1>9. Mine(listed) \in SUBSET Ours /\ listed \ Mine(listed) \in SUBSET (Ours \cup Theirs)
  BY <1>0, <1>6
<1> HIDE DEF finds
<1>10. inv \in [found : SUBSET (Things \cup ServiceGroup),
               mine : SUBSET Ours, orphans : SUBSET (Ours \cup Theirs)]
  BY <1>7, <1>8, <1>9
<1> QED
  BY <1>1, <1>2, <1>4, <1>5, <1>6, <1>10

LEMMA TypeParts ==
  ASSUME UninstallTypeOK
  PROVE  /\ copy \in [unit : {"none", "launchd", "user", "system"}, loaded : BOOLEAN,
                      host : {"up", "stopping", "down"}, boxes : 0 .. MaxBoxes, pid : BOOLEAN]
         /\ things \subseteq Things /\ vault \subseteq Ours \cup Theirs
         /\ kept \subseteq {"older", "current"}
         /\ remover \in RemoverType
         /\ remover.plan \subseteq remover.chosen /\ remover.notes \subseteq remover.chosen
         /\ tries \in 0 .. MaxTries /\ slips \in 0 .. MaxSlips
         /\ told \subseteq Ours \cup Theirs /\ owed \subseteq Ours \cup Theirs
         /\ missed \subseteq Actions
BY DEF UninstallTypeOK, RemoverType

LEMMA SlipTyped ==
  ASSUME slips \in 0 .. MaxSlips, Slip PROVE slips' \in 0 .. MaxSlips
BY UninstallBounds DEF Slip

LEMMA WordsApart ==
  /\ "removing" \notin Askings /\ "done" \notin Askings /\ "idle" \notin Askings
  /\ "cancelled" \notin GroupNames
<1>1. "removing" \notin GroupNames /\ "done" \notin GroupNames
  BY GroupsAre
<1>2. "idle" \notin GroupNames /\ "cancelled" \notin GroupNames
  BY GroupsAre
<1> QED
  BY <1>1, <1>2 DEF Askings

(* A question asked or answered, from a remover r that has removed nothing. *)
LEMMA AskingKeeps ==
  ASSUME UninstallInv, UNCHANGED <<copy, things, vault, kept>>,
         tries' \in 0 .. MaxTries, slips' \in 0 .. MaxSlips,
         told \subseteq told', told' \subseteq Ours \cup Theirs, missed' \subseteq missed,
         NEW r \in RemoverType, NEW s, Settles(r, s), remover' = s, owed' = Owing(r.inv, s),
         r.plan = {}, r.notes = {}, r.inv.found \cap Things \subseteq things,
         r.inv.mine # {} => "ids" \in things,
         Theirs \cap r.chosen \subseteq told'
  PROVE  UninstallInv'
<1>1. /\ s \in RemoverType /\ s.chosen = r.chosen /\ s.notes = {} /\ s.plan \subseteq s.chosen
      /\ s.at # "removing" => s.inv = r.inv /\ s.plan = {}
      /\ s.at = "done" => s.chosen = {}
      /\ s.at = "removing" => s.plan = s.chosen
      /\ s.at \in GroupNames \cup {"done", "removing"}
  BY WordsApart DEF Settles, Askings
<1>2. r.inv.mine \subseteq Ours
  BY RemoverFields
<1>3. /\ owed' \subseteq Ours \cap r.chosen
      /\ owed' # {} => s.at = "removing" /\ r.inv.mine # {}
  BY <1>1, <1>2 DEF Owing
<1>4. UninstallTypeOK'
  <2>1. s \in [at : {"idle", "removing", "done", "cancelled"} \cup GroupNames,
               inv : [found : SUBSET (Things \cup ServiceGroup),
                      mine : SUBSET Ours, orphans : SUBSET (Ours \cup Theirs)],
               chosen : SUBSET Actions, plan : SUBSET Actions, notes : SUBSET Actions]
    BY <1>1 DEF RemoverType
  <2>2. s.plan \subseteq s.chosen /\ s.notes \subseteq s.chosen
    BY <1>1
  <2>3. owed' \subseteq Ours \cup Theirs
    BY <1>3
  <2>4. missed' \subseteq Actions
    BY TypeParts DEF UninstallInv
  <2> QED
    BY <2>1, <2>2, <2>3, <2>4, TypeParts DEF UninstallInv, UninstallTypeOK
<1>5. AskingFollows'
  BY <1>1, <1>3, WordsApart DEF AskingFollows
<1>6. PlanFollows'
  <2>1. s.at = "removing" => owed' \subseteq s.plan
    BY <1>1, <1>3
  <2>2. s.at \in {"removing", "done"} => s.chosen \subseteq s.plan
    BY <1>1
  <2>3. s.at = "done" => s.plan = {}
    BY <1>1
  <2> QED
    BY <2>1, <2>2, <2>3, Zenon DEF PlanFollows
<1>7. HostFollows' /\ MissedAreCommands'
  BY <1>1 DEF HostFollows, UninstallInv, MissedAreCommands
<1>8. TheirsAreTold'
  BY <1>1 DEF TheirsAreTold
<1>9. KeysKept'
  BY DEF UninstallInv, KeysKept
<1>10. OthersStay'
  BY DEF UninstallInv, OthersStay
<1>11. OwedIsKnown'
  BY <1>3 DEF OwedIsKnown
<1> QED
  BY <1>4, <1>5, <1>6, <1>7, <1>8, <1>9, <1>10, <1>11 DEF UninstallInv

LEMMA BeginKeeps ==
  ASSUME UninstallInv, Begin PROVE UninstallInv'
<1>0. UninstallTypeOK
  BY DEF UninstallInv
<1>1. PICK docker \in BOOLEAN, listed \in {vault, {}}, yes \in BOOLEAN :
        LET inv == Inventory(docker, listed)
            r == [NoRemover EXCEPT !.inv = inv]
            s == IF yes THEN Decided([r EXCEPT !.chosen = AllAgreed(inv)]) ELSE NextGroup(r, {})
        IN /\ remover' = s
           /\ owed' = Owing(r.inv, s) /\ missed' = {}
           /\ IF docker /\ listed = vault THEN UNCHANGED slips ELSE Slip
  BY DEF Begin
<1>2. PICK inv : inv = Inventory(docker, listed)
  OBVIOUS
<1>3. /\ inv \in [found : SUBSET (Things \cup ServiceGroup),
                  mine : SUBSET Ours, orphans : SUBSET (Ours \cup Theirs)]
      /\ inv.found \cap Things \subseteq things
      /\ inv.mine # {} => "ids" \in things
  BY <1>0, <1>2, InventoryTyped
<1>4. /\ UNCHANGED <<copy, things, vault, kept>> /\ told' = told /\ missed' \subseteq missed
      /\ tries' \in 0 .. MaxTries /\ slips' \in 0 .. MaxSlips
      /\ told \subseteq Ours \cup Theirs
  <2>1. tries' \in 0 .. MaxTries
    BY <1>0, TypeParts, UninstallBounds DEF Begin
  <2>2. slips' \in 0 .. MaxSlips
    BY <1>0, <1>1, TypeParts, SlipTyped
  <2> QED
    BY <1>0, <2>1, <2>2, TypeParts DEF Begin
<1>5. [NoRemover EXCEPT !.inv = inv]
        = [at |-> "idle", inv |-> inv, chosen |-> {}, plan |-> {}, notes |-> {}]
  BY DEF NoRemover
<1>6. PICK r : r = [NoRemover EXCEPT !.inv = inv]
  OBVIOUS
<1>7. /\ r \in RemoverType
      /\ r.inv = inv /\ r.chosen = {} /\ r.plan = {} /\ r.notes = {}
  BY <1>3, <1>5, <1>6, RemoverRow
<1>8. CASE yes
  <2>1. PICK q : q = [r EXCEPT !.chosen = AllAgreed(inv)]
    OBVIOUS
  <2>2. q = [at |-> "idle", inv |-> inv, chosen |-> AllAgreed(inv), plan |-> {}, notes |-> {}]
    BY <1>5, <1>6, <2>1
  <2>3. AllAgreed(inv) \in SUBSET Actions /\ Theirs \cap AllAgreed(inv) = {}
    BY <1>3, AllAgreedTyped
  <2>4. /\ q \in RemoverType
        /\ q.inv = inv /\ q.chosen = AllAgreed(inv) /\ q.plan = {} /\ q.notes = {}
    BY <1>3, <2>2, <2>3, RemoverRow
  <2>5. remover' = Decided(q) /\ owed' = Owing(inv, remover')
    BY <1>1, <1>2, <1>6, <1>7, <1>8, <2>1
  <2>6. Settles(q, remover')
    BY <2>4, <2>5, DecidedIs
  <2> QED
    BY <1>3, <1>4, <2>3, <2>4, <2>5, <2>6, AskingKeeps
<1>9. CASE ~yes
  <2>1. remover' = NextGroup(r, {}) /\ owed' = Owing(inv, remover')
    BY <1>1, <1>2, <1>6, <1>7, <1>9
  <2>2. Settles(r, remover')
    BY <1>7, <2>1, NextGroupIs
  <2> QED
    BY <1>3, <1>4, <1>7, <2>1, <2>2, AskingKeeps
<1> QED
  BY <1>8, <1>9

LEMMA AnswerKeeps ==
  ASSUME UninstallInv, NEW g \in GroupNames, Answer(g) PROVE UninstallInv'
<1>0. UninstallTypeOK /\ remover \in RemoverType
  BY TypeParts DEF UninstallInv
<1>1. PICK yes \in BOOLEAN :
        LET r == [remover EXCEPT !.chosen = IF yes THEN @ \cup Members(remover.inv, g) ELSE @]
            s == NextGroup(r, Before(g))
        IN /\ remover' = s
           /\ owed' = Owing(r.inv, s)
           /\ told' = IF yes /\ g = "orphans" THEN told \cup remover.inv.orphans ELSE told
  BY DEF Answer
<1> DEFINE chosen == IF yes THEN remover.chosen \cup Members(remover.inv, g) ELSE remover.chosen
<1>2. /\ remover.inv.found \cap Things \subseteq things
      /\ remover.inv.mine # {} => "ids" \in things
      /\ remover.plan = {} /\ remover.notes = {}
  BY DEF Answer, UninstallInv, AskingFollows, Askings
<1>3. /\ UNCHANGED <<copy, things, vault, kept, missed>>
      /\ tries' \in 0 .. MaxTries /\ slips' \in 0 .. MaxSlips
  BY <1>0, TypeParts DEF Answer
<1>4. /\ remover.inv \in [found : SUBSET (Things \cup ServiceGroup),
                          mine : SUBSET Ours, orphans : SUBSET (Ours \cup Theirs)]
      /\ remover.at \in {"idle", "removing", "done", "cancelled"} \cup GroupNames
      /\ remover.chosen \subseteq Actions
  BY <1>0, RemoverFields
<1>5. /\ Members(remover.inv, g) \subseteq Actions
      /\ Theirs \cap Members(remover.inv, g) \subseteq IF g = "orphans" THEN remover.inv.orphans ELSE {}
  BY <1>4, MembersTyped
<1>6. chosen \in SUBSET Actions
  BY <1>4, <1>5
<1>7. PICK r : r = [remover EXCEPT !.chosen = chosen]
  OBVIOUS
<1>8. r = [at |-> remover.at, inv |-> remover.inv, chosen |-> chosen, plan |-> remover.plan,
           notes |-> remover.notes]
  BY <1>0, <1>7 DEF RemoverType
<1>9. /\ r \in RemoverType
      /\ r.inv = remover.inv /\ r.chosen = chosen /\ r.plan = {} /\ r.notes = {}
  <2>1. remover.plan \in SUBSET Actions /\ remover.notes \in SUBSET Actions
    BY <1>2
  <2> HIDE DEF chosen
  <2> QED
    BY <1>2, <1>4, <1>6, <1>8, <2>1, RemoverRow
<1>10. /\ told \subseteq told' /\ told' \subseteq Ours \cup Theirs
       /\ Theirs \cap chosen \subseteq told'
  <2>1. told \subseteq Ours \cup Theirs /\ remover.inv.orphans \subseteq Ours \cup Theirs
    BY <1>0, <1>4, TypeParts
  <2>2. told' = IF yes /\ g = "orphans" THEN told \cup remover.inv.orphans ELSE told
    BY <1>1
  <2>3. Theirs \cap remover.chosen \subseteq told
    BY DEF UninstallInv, TheirsAreTold
  <2> QED
    BY <1>5, <2>1, <2>2, <2>3
<1>11. remover' = NextGroup(r, Before(g)) /\ owed' = Owing(r.inv, remover')
  BY <1>1, <1>7
<1>12. Settles(r, remover')
  BY <1>9, <1>11, NextGroupIs
<1> HIDE DEF chosen
<1> QED
  BY <1>2, <1>3, <1>9, <1>10, <1>11, <1>12, AskingKeeps

LEMMA NoRemoverIs ==
  /\ NoRemover \in RemoverType
  /\ NoRemover.at = "idle" /\ NoRemover.chosen = {} /\ NoRemover.plan = {}
  /\ NoRemover.notes = {}
BY NoInventoryTyped, RemoverRow DEF NoRemover

(* The uninstaller leaves, by itself or killed.                            *)
LEMMA LeavingKeeps ==
  ASSUME UninstallInv, remover' = NoRemover, slips' \in 0 .. MaxSlips,
         UNCHANGED <<copy, things, vault, kept, tries, uninstallHistVars>>
  PROVE  UninstallInv'
<1>0. UninstallTypeOK
  BY DEF UninstallInv
<1>1. /\ remover' \in RemoverType
      /\ remover'.at = "idle" /\ remover'.chosen = {} /\ remover'.plan = {}
      /\ remover'.notes = {}
  BY NoRemoverIs
<1>2. UNCHANGED <<copy, things, vault, kept, tries, told, owed, missed>>
  BY DEF uninstallHistVars
<1>3. UninstallTypeOK'
  BY <1>0, <1>1, <1>2 DEF UninstallTypeOK, RemoverType
<1>4. AskingFollows'
  BY <1>1, WordsApart DEF AskingFollows
<1>5. PlanFollows'
  BY <1>1 DEF PlanFollows
<1>6. HostFollows'
  BY <1>1 DEF HostFollows
<1>7. TheirsAreTold'
  BY <1>1 DEF TheirsAreTold
<1>8. KeysKept' /\ OthersStay' /\ OwedIsKnown' /\ MissedAreCommands'
  BY <1>2 DEF UninstallInv, KeysKept, OthersStay, OwedIsKnown, MissedAreCommands
<1> QED
  BY <1>3, <1>4, <1>5, <1>6, <1>7, <1>8 DEF UninstallInv

LEMMA CancelKeeps ==
  ASSUME UninstallInv, Cancel PROVE UninstallInv'
<1>0. UninstallTypeOK /\ remover \in RemoverType /\ remover.at \in GroupNames
  BY TypeParts DEF UninstallInv, Cancel
<1>1. remover' = [remover EXCEPT !.at = "cancelled"]
  BY DEF Cancel
<1>2. /\ remover' \in RemoverType
      /\ remover'.at = "cancelled" /\ remover'.inv = remover.inv
      /\ remover'.chosen = remover.chosen /\ remover'.plan = remover.plan
      /\ remover'.notes = remover.notes
  BY <1>0, <1>1, AtIs
<1>3. UNCHANGED <<copy, things, vault, kept, tries, slips, told, owed, missed>>
  BY DEF Cancel, uninstallHistVars
<1>4. UninstallTypeOK'
  BY <1>0, <1>2, <1>3 DEF UninstallTypeOK, RemoverType
<1>5. AskingFollows'
  BY <1>0, <1>2, <1>3 DEF AskingFollows, Askings, UninstallInv
<1>6. PlanFollows' /\ HostFollows'
  BY <1>2 DEF PlanFollows, HostFollows
<1>7. TheirsAreTold'
  BY <1>2, <1>3 DEF UninstallInv, TheirsAreTold
<1>8. KeysKept' /\ OthersStay' /\ OwedIsKnown' /\ MissedAreCommands'
  BY <1>3 DEF UninstallInv, KeysKept, OthersStay, OwedIsKnown, MissedAreCommands
<1> QED
  BY <1>4, <1>5, <1>6, <1>7, <1>8 DEF UninstallInv

(* What the host does meanwhile.                                           *)
LEMMA HostKeeps ==
  ASSUME UninstallInv, UNCHANGED <<vault, kept, remover, tries, slips, uninstallHistVars>>,
         copy' \in [unit : {"none", "launchd", "user", "system"}, loaded : BOOLEAN,
                    host : {"up", "stopping", "down"}, boxes : 0 .. MaxBoxes, pid : BOOLEAN],
         copy'.loaded = copy.loaded, copy'.unit = copy.unit,
         copy'.host = "up" => copy.host = "up" \/ copy.loaded,
         things \subseteq things', things' \subseteq things \cup {"data", "ids"}
  PROVE  UninstallInv'
<1>0. UninstallTypeOK
  BY DEF UninstallInv
<1>1. UNCHANGED <<vault, kept, remover, tries, slips, told, owed, missed>>
  BY DEF uninstallHistVars
<1>2. UninstallTypeOK'
  <2>1. {"data", "ids"} \subseteq Things
    BY DEF Things, AppData
  <2>2. things' \subseteq Things
    BY <1>0, <2>1 DEF UninstallTypeOK
  <2> QED
    BY <1>0, <1>1, <2>2 DEF UninstallTypeOK
<1>3. AskingFollows'
  BY <1>1 DEF UninstallInv, AskingFollows
<1>4. PlanFollows'
  <2>1. ASSUME NEW a \in remover.chosen \ PutBack PROVE a \notin {"data", "ids"}
    <3>1. "ids" \notin Actions
      BY ActionsAre
    <3>2. remover.chosen \subseteq Actions
      BY <1>0, TypeParts, RemoverFields
    <3> QED
      BY <3>1, <3>2 DEF PutBack
  <2>2. ASSUME NEW a \in remover.chosen \ PutBack, ~StillThere(a, things, vault, copy)
        PROVE  ~StillThere(a, things', vault', copy')
    BY <1>1, <2>1, <2>2 DEF StillThere
  <2>3. remover.at = "removing" => owed' \subseteq remover.plan
    BY <1>1 DEF UninstallInv, PlanFollows
  <2>4. remover.at = "done" => remover.plan = {}
    BY DEF UninstallInv, PlanFollows
  <2>5. ASSUME remover.at \in {"removing", "done"}, NEW a \in remover.chosen \ PutBack
        PROVE  \/ a \in remover.plan \/ a \in remover.notes \/ a \in missed
               \/ ~StillThere(a, things', vault', copy')
    <3>1. \/ a \in remover.plan \/ a \in remover.notes \/ a \in missed
          \/ ~StillThere(a, things, vault, copy)
      BY <2>5, Zenon DEF UninstallInv, PlanFollows
    <3> QED
      BY <3>1, <2>2
  <2> QED
    BY <1>1, <2>3, <2>4, <2>5, Zenon DEF PlanFollows
<1>5. HostFollows'
  BY <1>1 DEF UninstallInv, HostFollows
<1>6. TheirsAreTold' /\ OthersStay'
  BY <1>1 DEF UninstallInv, TheirsAreTold, OthersStay
<1>7. KeysKept' /\ OwedIsKnown' /\ MissedAreCommands'
  BY <1>1 DEF UninstallInv, KeysKept, OwedIsKnown, MissedAreCommands
<1> QED
  BY <1>2, <1>3, <1>4, <1>5, <1>6, <1>7 DEF UninstallInv

LEMMA HostStepsKeep ==
  ASSUME UninstallInv, HostSpawns \/ HostExits \/ HostRestarts PROVE UninstallInv'
<1>0. UninstallTypeOK
  BY DEF UninstallInv
<1>1. CASE HostSpawns
  <2>1. PICK n \in 0 .. MaxBoxes : n = copy.boxes + 1
    BY <1>0, <1>1, UninstallBounds, TypeParts DEF HostSpawns
  <2>2. copy' = [copy EXCEPT !.boxes = n] /\ things' = things \cup {"data"}
    BY <1>1, <2>1 DEF HostSpawns
  <2>3. /\ copy' \in [unit : {"none", "launchd", "user", "system"}, loaded : BOOLEAN,
                      host : {"up", "stopping", "down"}, boxes : 0 .. MaxBoxes, pid : BOOLEAN]
        /\ copy'.loaded = copy.loaded /\ copy'.unit = copy.unit /\ copy'.host = copy.host
    BY <1>0, <2>2, TypeParts
  <2> QED
    BY <1>1, <2>2, <2>3, HostKeeps DEF HostSpawns
<1>2. CASE HostExits
  <2>1. copy' = [copy EXCEPT !.host = "down"] /\ things' = things
    BY <1>2 DEF HostExits
  <2>2. /\ copy' \in [unit : {"none", "launchd", "user", "system"}, loaded : BOOLEAN,
                      host : {"up", "stopping", "down"}, boxes : 0 .. MaxBoxes, pid : BOOLEAN]
        /\ copy'.loaded = copy.loaded /\ copy'.unit = copy.unit /\ copy'.host = "down"
    BY <1>0, <2>1, TypeParts
  <2> QED
    BY <1>2, <2>1, <2>2, HostKeeps DEF HostExits
<1>3. CASE HostRestarts
  <2>1. /\ copy' = [copy EXCEPT !.host = "up"] /\ things' = things \cup {"data", "ids"}
        /\ copy.loaded
    BY <1>3 DEF HostRestarts
  <2>2. /\ copy' \in [unit : {"none", "launchd", "user", "system"}, loaded : BOOLEAN,
                      host : {"up", "stopping", "down"}, boxes : 0 .. MaxBoxes, pid : BOOLEAN]
        /\ copy'.loaded = copy.loaded /\ copy'.unit = copy.unit
    BY <1>0, <2>1, TypeParts
  <2> QED
    BY <1>3, <2>1, <2>2, HostKeeps DEF HostRestarts
<1> QED
  BY <1>1, <1>2, <1>3

-----------------------------------------------------------------------------
(* One action of the plan.                                                 *)
LEMMA PastIs ==
  ASSUME UninstallTypeOK, NEW a, Executing(a), Through(a) \/ Noted(a) \/ Missed(a)
  PROVE  /\ remover' \in RemoverType
         /\ remover'.at \in {"removing", "done"} /\ (remover'.at = "done" => remover'.plan = {})
         /\ remover'.chosen = remover.chosen /\ remover'.plan = remover.plan \ {a}
         /\ remover.notes \subseteq remover'.notes
         /\ remover'.notes \subseteq remover.notes \cup {a}
         /\ Noted(a) => a \in remover'.notes
         /\ missed' = missed \/ Missed(a)
<1>0. remover \in RemoverType /\ remover.at = "removing" /\ a \in remover.plan
  BY TypeParts, ExecutingIs
<1> DEFINE at == IF remover.plan = {a} THEN "done" ELSE "removing"
<1>1. at \in {"removing", "done"} /\ (at = "done" => remover.plan \ {a} = {})
  OBVIOUS
<1>2. at \in {"idle", "removing", "done", "cancelled"} \cup GroupNames
  BY <1>1
<1>3. /\ remover.inv \in [found : SUBSET (Things \cup ServiceGroup),
                          mine : SUBSET Ours, orphans : SUBSET (Ours \cup Theirs)]
      /\ remover.chosen \in SUBSET Actions /\ remover.plan \in SUBSET Actions
      /\ remover.notes \in SUBSET Actions
  BY <1>0, RemoverFields
<1>4. PICK p : p = Past(remover, a)
  OBVIOUS
<1>5. p = [at |-> at, inv |-> remover.inv, chosen |-> remover.chosen,
           plan |-> remover.plan \ {a}, notes |-> remover.notes]
  BY <1>0, <1>4 DEF Past, RemoverType
<1>6. remover.plan \ {a} \in SUBSET Actions /\ remover.notes \cup {a} \in SUBSET Actions
  BY <1>0, <1>3
<1> HIDE DEF at
<1>7. CASE Through(a) \/ Missed(a)
  <2>1. remover' = p
    BY <1>4, <1>7 DEF Through, Missed
  <2>2. /\ p \in RemoverType
        /\ p.at = at /\ p.chosen = remover.chosen
        /\ p.plan = remover.plan \ {a} /\ p.notes = remover.notes
    BY <1>2, <1>3, <1>5, <1>6, RemoverRow
  <2>3. ~ Noted(a) \/ a \in remover'.notes
    <3>1. SUFFICES ASSUME Noted(a) PROVE a \in remover'.notes
      OBVIOUS
    <3>2. remover' = [p EXCEPT !.notes = remover.notes \cup {a}]
      BY <3>1, <1>4, <1>5 DEF Noted
    <3> QED
      BY <3>2, <1>5
  <2>4. missed' = missed \/ Missed(a)
    BY <1>7 DEF Through
  <2> QED
    BY <1>1, <2>1, <2>2, <2>3, <2>4
<1>8. CASE Noted(a)
  <2>0. PICK notes \in SUBSET Actions : notes = remover.notes \cup {a}
    BY <1>6
  <2>1. p.notes = remover.notes
    BY <1>5
  <2>2. remover' = [p EXCEPT !.notes = p.notes \cup {a}]
    BY <1>4, <1>8, Zenon DEF Noted
  <2>3. remover' = [p EXCEPT !.notes = notes]
    BY <2>0, <2>1, <2>2
  <2>4. remover' = [at |-> at, inv |-> remover.inv, chosen |-> remover.chosen,
                    plan |-> remover.plan \ {a}, notes |-> notes]
    BY <1>5, <2>3
  <2>5. /\ remover' \in RemoverType
        /\ remover'.at = at /\ remover'.chosen = remover.chosen
        /\ remover'.plan = remover.plan \ {a} /\ remover'.notes = notes
    BY <1>2, <1>3, <1>6, <2>4, RemoverRow
  <2>6. missed' = missed
    BY <1>8 DEF Noted
  <2> QED
    BY <1>1, <2>0, <2>5, <2>6
<1> QED
  BY <1>7, <1>8

LEMMA RemovalKeeps ==
  ASSUME UninstallInv, NEW a, Executing(a), Through(a) \/ Noted(a) \/ Missed(a),
         copy' \in [unit : {"none", "launchd", "user", "system"}, loaded : BOOLEAN,
                    host : {"up", "stopping", "down"}, boxes : 0 .. MaxBoxes, pid : BOOLEAN],
         a # "unit" => copy'.unit = copy.unit /\ copy'.loaded = copy.loaded
                       /\ (copy'.host = "up" => copy.host = "up"),
         a = "pkill" => copy'.host # "up" \/ Missed(a),
         things' \subseteq things, Missed(a) => a \notin Things,
         a \notin PutBack => Noted(a) \/ Missed(a) \/ ~StillThere(a, things', vault', copy'),
         vault' \subseteq vault, kept' \subseteq {"older", "current"},
         UNCHANGED <<tries, told>>, slips' \in 0 .. MaxSlips, owed' \subseteq owed \ {a},
         KeysKept', OthersStay', OwedIsKnown'
  PROVE  UninstallInv'
<1>0. UninstallTypeOK
  BY DEF UninstallInv
<1>1. /\ remover' \in RemoverType
      /\ remover'.at \in {"removing", "done"} /\ (remover'.at = "done" => remover'.plan = {})
      /\ remover'.chosen = remover.chosen /\ remover'.plan = remover.plan \ {a}
      /\ remover.notes \subseteq remover'.notes
      /\ remover'.notes \subseteq remover.notes \cup {a}
      /\ Noted(a) => a \in remover'.notes
      /\ missed' = missed \/ Missed(a)
  BY <1>0, PastIs
<1>2. /\ remover.at = "removing" /\ a \in remover.plan
      /\ a = "pkill" => "unit" \notin remover.plan
  BY ExecutingIs
<1>8. (Missed(a) => a \in missed') /\ missed \subseteq missed' /\ missed' \subseteq missed \cup {a}
  BY <1>1 DEF Missed
<1>3. UninstallTypeOK'
  <2>1. remover.plan \subseteq remover.chosen /\ remover.notes \subseteq remover.chosen
    BY <1>0, TypeParts
  <2>2. remover'.plan \subseteq remover'.chosen /\ remover'.notes \subseteq remover'.chosen
    BY <1>1, <1>2, <2>1
  <2>3. remover' \in [at : {"idle", "removing", "done", "cancelled"} \cup GroupNames,
                      inv : [found : SUBSET (Things \cup ServiceGroup),
                             mine : SUBSET Ours, orphans : SUBSET (Ours \cup Theirs)],
                      chosen : SUBSET Actions, plan : SUBSET Actions, notes : SUBSET Actions]
    BY <1>1 DEF RemoverType
  <2>4. /\ things' \subseteq Things /\ vault' \subseteq Ours \cup Theirs
        /\ owed' \subseteq Ours \cup Theirs /\ told' \subseteq Ours \cup Theirs
        /\ tries' \in 0 .. MaxTries
    BY <1>0, TypeParts
  <2>5. missed' \subseteq Actions
    BY <1>0, <1>2, <1>8, TypeParts, RemoverFields
  <2> QED
    BY <2>2, <2>3, <2>4, <2>5 DEF UninstallTypeOK
<1>4. AskingFollows'
  BY <1>1, WordsApart DEF AskingFollows
<1>5. PlanFollows'
  <2>1. owed' \subseteq remover'.plan
    BY <1>1, <1>2 DEF UninstallInv, PlanFollows
  <2>2. ASSUME NEW b \in remover.chosen \ PutBack
        PROVE  \/ b \in remover'.plan \/ b \in remover'.notes \/ b \in missed'
               \/ ~StillThere(b, things', vault', copy')
    <3>1. \/ b \in remover.plan \/ b \in remover.notes \/ b \in missed
          \/ ~StillThere(b, things, vault, copy)
      BY <1>2, Zenon DEF UninstallInv, PlanFollows
    <3>2. CASE b = a
      BY <3>2, <1>1, <1>8
    <3>3. CASE b # a
      <4>1. b = "unit" => a # "unit"
        BY <3>3
      <4>2. ~StillThere(b, things, vault, copy) => ~StillThere(b, things', vault', copy')
        BY <4>1 DEF StillThere
      <4> QED
        BY <3>1, <3>3, <4>2, <1>1, <1>8
    <3> QED
      BY <3>2, <3>3
  <2> QED
    BY <1>1, <2>1, <2>2, Zenon DEF PlanFollows
<1>6. HostFollows'
  <2>1. SUFFICES ASSUME "pkill" \in remover.chosen \ missed', "pkill" \notin remover.plan \ {a}
                 PROVE  "unit" \notin remover.plan \ {a} /\ (copy'.loaded \/ copy'.host # "up")
    BY <1>1 DEF HostFollows
  <2>2. CASE a = "pkill"
    BY <2>1, <2>2, <1>2, <1>8
  <2>3. CASE a # "pkill"
    <3>1. "unit" \notin remover.plan /\ (copy.loaded \/ copy.host # "up")
      BY <2>1, <2>3, <1>2, <1>8 DEF UninstallInv, HostFollows
    <3>2. a # "unit"
      BY <3>1, <1>2
    <3> QED
      BY <3>1, <3>2
  <2> QED
    BY <2>2, <2>3
<1>7. TheirsAreTold'
  BY <1>1 DEF UninstallInv, TheirsAreTold
<1>9. MissedAreCommands'
  <2>1. missed \cap Things = {}
    BY DEF UninstallInv, MissedAreCommands
  <2>2. CASE Missed(a)
    <3>1. missed' \cap Things = {}
      BY <1>8, <2>1, <2>2
    <3> QED
      BY <3>1 DEF MissedAreCommands
  <2>3. CASE missed' = missed
    BY <2>1, <2>3 DEF MissedAreCommands
  <2> QED
    BY <1>1, <2>2, <2>3
<1> QED
  BY <1>3, <1>4, <1>5, <1>6, <1>7, <1>9 DEF UninstallInv

(* The same of an action whose command told.                               *)
LEMMA RemovalSpares ==
  ASSUME UninstallInv, NEW a, Executing(a), Through(a) \/ Noted(a),
         UNCHANGED copy, a \in Things,
         things' \subseteq things,
         a \notin PutBack => Noted(a) \/ ~StillThere(a, things', vault', copy'),
         vault' \subseteq vault, kept' \subseteq {"older", "current"},
         UNCHANGED <<tries, told>>, slips' \in 0 .. MaxSlips, owed' \subseteq owed \ {a},
         KeysKept', OthersStay', OwedIsKnown'
  PROVE  UninstallInv'
<1>1. ~Missed(a)
  <2>1. missed' = missed
    BY DEF Through, Noted
  <2>2. a \notin missed
    BY DEF UninstallInv, MissedAreCommands
  <2> QED
    BY <2>1, <2>2 DEF Missed
<1>2. a # "pkill" /\ a # "unit"
  BY DEF Things, AppData, AgentFiles, Runtime
<1> QED
  BY <1>1, <1>2, TypeParts, RemovalKeeps DEF UninstallInv

LEMMA UnloadServiceKeeps ==
  ASSUME UninstallInv, UnloadService PROVE UninstallInv'
<1>0. UninstallTypeOK
  BY DEF UninstallInv
<1>1. /\ Executing("unit") /\ (Through("unit") \/ Noted("unit") \/ Missed("unit"))
      /\ UNCHANGED <<things, vault, kept, tries, told, owed>>
  BY DEF UnloadService
<1>2. slips' \in 0 .. MaxSlips
  BY <1>0, TypeParts, SlipTyped DEF UnloadService, Missed
<1>3. copy' \in [unit : {"none", "launchd", "user", "system"}, loaded : BOOLEAN,
                 host : {"up", "stopping", "down"}, boxes : 0 .. MaxBoxes, pid : BOOLEAN]
  <2>1. \/ copy' = copy
        \/ copy' = [copy EXCEPT !.unit = "none"]
        \/ \E h \in {"up", "stopping", "down"} :
             copy' = [copy EXCEPT !.unit = "none", !.loaded = FALSE, !.host = h]
    <3>1. CASE copy' = [copy EXCEPT !.unit = "none", !.loaded = FALSE,
                          !.host = IF copy.unit = "launchd" /\ @ = "up" THEN "stopping"
                                   ELSE IF copy.unit = "launchd" THEN @ ELSE "down"]
      <4>1. PICK h : h = IF copy.unit = "launchd" /\ copy.host = "up" THEN "stopping"
                         ELSE IF copy.unit = "launchd" THEN copy.host ELSE "down"
        OBVIOUS
      <4>2. h \in {"up", "stopping", "down"}
        BY <1>0, <4>1, TypeParts
      <4>3. copy' = [copy EXCEPT !.unit = "none", !.loaded = FALSE, !.host = h]
        BY <3>1, <4>1, Zenon
      <4> QED
        BY <4>2, <4>3
    <3> QED
      BY <3>1 DEF UnloadService
  <2> QED
    BY <1>0, <2>1, TypeParts
<1>4. "unit" \notin Things /\ "unit" # "pkill"
  BY DEF Things, AppData, AgentFiles, Runtime
<1>5. "unit" \notin Ours /\ "unit" \notin Theirs
  BY DEF Ours, Theirs
<1>6. owed' \subseteq owed \ {"unit"}
  BY <1>0, <1>1, <1>5, TypeParts
<1>7. KeysKept' /\ OthersStay' /\ OwedIsKnown'
  BY <1>1 DEF UninstallInv, KeysKept, OthersStay, OwedIsKnown
<1>8. Noted("unit") \/ Missed("unit") \/ ~StillThere("unit", things', vault', copy')
  <2>1. SUFFICES ASSUME ~Noted("unit"), ~Missed("unit")
                 PROVE  ~StillThere("unit", things', vault', copy')
    OBVIOUS
  <2>2. copy'.unit = "none" /\ copy'.loaded = FALSE
    BY <1>0, <2>1, TypeParts DEF UnloadService
  <2>3. "unit" \notin things' /\ "unit" \notin vault'
    BY <1>0, <1>1, <1>4, <1>5, TypeParts
  <2> QED
    BY <2>2, <2>3 DEF StillThere
<1> QED
  BY <1>0, <1>1, <1>2, <1>3, <1>4, <1>6, <1>7, <1>8, TypeParts, RemovalKeeps

LEMMA StopHostKeeps ==
  ASSUME UninstallInv, NEW a, StopHost(a) PROVE UninstallInv'
<1>0. UninstallTypeOK
  BY DEF UninstallInv
<1>1. /\ Executing(a) /\ (Through(a) \/ Missed(a)) /\ a \in {"pid", "pkill"}
      /\ UNCHANGED <<things, vault, kept, tries, told, owed>>
  BY DEF StopHost
<1>2. slips' \in 0 .. MaxSlips
  BY <1>0, TypeParts, SlipTyped DEF StopHost, Missed
<1>3. /\ copy' \in [unit : {"none", "launchd", "user", "system"}, loaded : BOOLEAN,
                    host : {"up", "stopping", "down"}, boxes : 0 .. MaxBoxes, pid : BOOLEAN]
      /\ copy'.unit = copy.unit /\ copy'.loaded = copy.loaded
      /\ copy'.host = "up" => copy.host = "up"
      /\ copy'.host # "up" \/ Missed(a)
  <2>1. CASE copy' = [copy EXCEPT !.host = IF @ = "up" THEN "stopping" ELSE @]
    <3>1. PICK h : h = IF copy.host = "up" THEN "stopping" ELSE copy.host
      OBVIOUS
    <3>2. h \in {"up", "stopping", "down"} /\ h # "up"
      BY <1>0, <3>1, TypeParts
    <3>3. copy' = [copy EXCEPT !.host = h]
      BY <2>1, <3>1, Zenon
    <3> QED
      BY <1>0, <3>2, <3>3, TypeParts
  <2>2. CASE Missed(a) /\ UNCHANGED copy
    BY <1>0, <2>2, TypeParts
  <2> QED
    BY <2>1, <2>2 DEF StopHost
<1>6. a \notin Things
  BY <1>1 DEF Things, AppData, AgentFiles, Runtime
<1>7. a \notin Ours /\ a \notin Theirs /\ a \in PutBack
  BY <1>1 DEF Ours, Theirs, PutBack
<1>8. owed' \subseteq owed \ {a}
  BY <1>0, <1>1, <1>7, TypeParts
<1>9. KeysKept' /\ OthersStay' /\ OwedIsKnown'
  BY <1>1 DEF UninstallInv, KeysKept, OthersStay, OwedIsKnown
<1> QED
  BY <1>0, <1>1, <1>2, <1>3, <1>6, <1>7, <1>8, <1>9, TypeParts, RemovalKeeps

LEMMA RemoveContainersKeeps ==
  ASSUME UninstallInv, RemoveContainers PROVE UninstallInv'
<1>0. UninstallTypeOK
  BY DEF UninstallInv
<1>1. /\ Executing("boxes") /\ (Through("boxes") \/ Noted("boxes") \/ Missed("boxes"))
      /\ UNCHANGED <<things, vault, kept, tries, told, owed>>
      /\ copy' = [copy EXCEPT !.boxes = 0] \/ copy' = copy
  BY DEF RemoveContainers
<1>2. slips' \in 0 .. MaxSlips
  BY <1>0, TypeParts, SlipTyped DEF RemoveContainers, Missed
<1>3. 0 \in 0 .. MaxBoxes
  BY UninstallBounds
<1>4. /\ copy' \in [unit : {"none", "launchd", "user", "system"}, loaded : BOOLEAN,
                    host : {"up", "stopping", "down"}, boxes : 0 .. MaxBoxes, pid : BOOLEAN]
      /\ copy'.unit = copy.unit /\ copy'.loaded = copy.loaded /\ copy'.host = copy.host
  BY <1>0, <1>1, <1>3, TypeParts
<1>5. "boxes" \notin Things /\ "boxes" # "pkill"
  BY DEF Things, AppData, AgentFiles, Runtime
<1>6. "boxes" \notin Ours /\ "boxes" \notin Theirs /\ "boxes" \in PutBack
  BY DEF Ours, Theirs, PutBack
<1>7. owed' \subseteq owed \ {"boxes"}
  BY <1>0, <1>1, <1>6, TypeParts
<1>8. KeysKept' /\ OthersStay' /\ OwedIsKnown'
  BY <1>1 DEF UninstallInv, KeysKept, OthersStay, OwedIsKnown
<1> QED
  BY <1>0, <1>1, <1>2, <1>4, <1>5, <1>6, <1>7, <1>8, TypeParts, RemovalKeeps

LEMMA RemoveImageKeeps ==
  ASSUME UninstallInv, RemoveImage PROVE UninstallInv'
<1>0. UninstallTypeOK
  BY DEF UninstallInv
<1>1. /\ Executing("image") /\ (Through("image") \/ Noted("image"))
      /\ UNCHANGED <<copy, vault, kept, tries, told, owed>>
      /\ (things' = things \ {"image"}) \/ (Noted("image") /\ things' = things)
  BY DEF RemoveImage, uninstallHistVars
<1>2. slips' \in 0 .. MaxSlips
  BY <1>0, TypeParts, SlipTyped DEF RemoveImage
<1>3. "image" \notin Ours /\ "image" \notin Theirs
  BY DEF Ours, Theirs
<1>4. owed' \subseteq owed \ {"image"}
  BY <1>0, <1>1, <1>3, TypeParts
<1>5. KeysKept' /\ OwedIsKnown'
  BY <1>1 DEF UninstallInv, KeysKept, OwedIsKnown
<1>6. OthersStay'
  BY <1>1 DEF UninstallInv, OthersStay
<1>7. things' \subseteq things /\ "image" # "pkill" /\ "image" # "unit"
  BY <1>1
<1>8. Noted("image") \/ ~StillThere("image", things', vault', copy')
  BY <1>0, <1>1, <1>3, <1>7, TypeParts DEF StillThere
<1>9. "image" \in Things
  BY DEF Things
<1> QED
  BY <1>0, <1>1, <1>2, <1>4, <1>5, <1>6, <1>7, <1>8, <1>9, TypeParts, RemovalSpares

LEMMA DeleteAgentKeeps ==
  ASSUME UninstallInv, NEW a, DeleteAgent(a) PROVE UninstallInv'
<1>0. UninstallTypeOK
  BY DEF UninstallInv
<1>1. /\ Executing(a) /\ (Through(a) \/ Noted(a) \/ Missed(a)) /\ a \in Ours \cup Theirs
      /\ UNCHANGED <<copy, things, kept, tries, told>> /\ owed' = owed \ {a}
      /\ vault' = vault \ {a} \/ vault' = vault
      /\ Noted(a) \/ Missed(a) \/ a \notin vault'
  BY DEF DeleteAgent
<1>2. slips' \in 0 .. MaxSlips
  BY <1>0, TypeParts, SlipTyped DEF DeleteAgent, Missed
<1>3. OthersStay'
  <2>1. CASE a \in Theirs
    <3>1. a \in remover.chosen
      BY <1>0, <1>1, ExecutingIs, TypeParts
    <3>2. Theirs \subseteq told
      BY <2>1, <3>1 DEF UninstallInv, TheirsAreTold, Theirs
    <3> QED
      BY <1>1, <3>2 DEF OthersStay
  <2>2. CASE a \notin Theirs
    BY <1>1, <2>2 DEF UninstallInv, OthersStay
  <2> QED
    BY <2>1, <2>2
<1>4. KeysKept' /\ OwedIsKnown'
  BY <1>1 DEF UninstallInv, KeysKept, OwedIsKnown
<1>5. a \notin Things
  BY <1>1 DEF Ours, Theirs, Things, AppData, AgentFiles, Runtime
<1>6. a # "pkill" /\ a # "unit"
  BY <1>1 DEF Ours, Theirs
<1>7. Noted(a) \/ Missed(a) \/ ~StillThere(a, things', vault', copy')
  BY <1>0, <1>1, <1>5, <1>6, TypeParts DEF StillThere
<1> QED
  BY <1>0, <1>1, <1>2, <1>3, <1>4, <1>5, <1>6, <1>7, TypeParts, RemovalKeeps

LEMMA BackupEnvKeeps ==
  ASSUME UninstallInv, BackupEnv PROVE UninstallInv'
<1>0. UninstallTypeOK
  BY DEF UninstallInv
<1>1. /\ Executing(".env") /\ (Through(".env") \/ Noted(".env"))
      /\ UNCHANGED <<copy, vault, tries, told, owed>>
      /\ \/ things' = things \ {".env"} /\ kept' = kept \cup {"current"}
         \/ Noted(".env") /\ things' = things /\ kept' \in {kept, kept \cup {"current"}}
  BY DEF BackupEnv, uninstallHistVars
<1>2. slips' \in 0 .. MaxSlips
  BY <1>0, TypeParts, SlipTyped DEF BackupEnv
<1>3. ".env" \notin Ours /\ ".env" \notin Theirs
  BY DEF Ours, Theirs
<1>4. owed' \subseteq owed \ {".env"}
  BY <1>0, <1>1, <1>3, TypeParts
<1>5. KeysKept' /\ OwedIsKnown'
  BY <1>1 DEF UninstallInv, KeysKept, OwedIsKnown
<1>6. OthersStay'
  BY <1>1 DEF UninstallInv, OthersStay
<1>7. kept' \subseteq {"older", "current"}
  BY <1>0, <1>1, TypeParts
<1>8. things' \subseteq things /\ ".env" \in Things
  BY <1>1 DEF Things, AppData
<1>9. Noted(".env") \/ ~StillThere(".env", things', vault', copy')
  BY <1>0, <1>1, <1>3, TypeParts DEF StillThere
<1> QED
  BY <1>0, <1>1, <1>2, <1>4, <1>5, <1>6, <1>7, <1>8, <1>9, TypeParts, RemovalSpares

LEMMA DeletePathKeeps ==
  ASSUME UninstallInv, NEW a, DeletePath(a) PROVE UninstallInv'
<1>0. UninstallTypeOK
  BY DEF UninstallInv
<1>1. /\ Executing(a) /\ (Through(a) \/ Noted(a)) /\ a \in Things \ {".env", "image", "ids"}
      /\ UNCHANGED <<copy, vault, kept, tries, told, owed>>
      /\ \/ things' = things \ (IF a = "data" THEN {"data", "ids"} ELSE {a})
         \/ Noted(a) /\ things' = things
  BY DEF DeletePath, uninstallHistVars
<1>2. slips' \in 0 .. MaxSlips
  BY <1>0, TypeParts, SlipTyped DEF DeletePath
<1>3. "our agent" \notin Things /\ "their agent" \notin Things
  BY DEF Things, AppData, AgentFiles, Runtime
<1>4. owed' \subseteq owed \ {a}
  <2>1. Ours \cap Things = {} /\ Theirs \cap Things = {}
    BY <1>3 DEF Ours, Theirs
  <2> QED
    BY <1>0, <1>1, <2>1, TypeParts
<1>5. KeysKept'
  BY <1>1 DEF UninstallInv, KeysKept
<1>6. OwedIsKnown'
  <2>1. CASE a = "data"
    <3>1. "our agent" \notin remover.plan /\ remover.at = "removing"
      BY <1>1, <2>1, ExecutingIs
    <3>2. "our agent" \notin owed
      BY <3>1 DEF UninstallInv, PlanFollows
    <3> QED
      BY <1>1, <3>2 DEF OwedIsKnown, Ours
  <2>2. CASE a # "data"
    BY <1>1, <2>2 DEF UninstallInv, OwedIsKnown
  <2> QED
    BY <2>1, <2>2
<1>7. OthersStay'
  BY <1>1 DEF UninstallInv, OthersStay
<1>8. things' \subseteq things /\ (a # "data" => a \notin things' \/ Noted(a))
  BY <1>1
<1>9. a \notin Ours \cup Theirs /\ a # "unit"
  BY <1>1 DEF Ours, Theirs, Things, AppData, AgentFiles, Runtime
<1>10. a \notin PutBack => Noted(a) \/ ~StillThere(a, things', vault', copy')
  <2>1. a \notin vault'
    BY <1>0, <1>1, <1>9, TypeParts
  <2>2. "data" \in PutBack
    BY DEF PutBack
  <2> QED
    BY <1>8, <1>9, <2>1, <2>2 DEF StillThere
<1> QED
  BY <1>0, <1>1, <1>2, <1>4, <1>5, <1>6, <1>7, <1>8, <1>10, TypeParts, RemovalSpares

-----------------------------------------------------------------------------
LEMMA UninstallInit_Inv == ASSUME UninstallInit PROVE UninstallInv
<1>1. remover = NoRemover /\ tries = 0 /\ slips = 0 /\ told = {} /\ owed = {} /\ missed = {}
      /\ things = Things /\ vault = Ours \cup Theirs /\ kept = {"older"}
  BY DEF UninstallInit
<1>2. /\ remover \in RemoverType
      /\ remover.at = "idle" /\ remover.chosen = {} /\ remover.plan = {} /\ remover.notes = {}
  BY <1>1, NoRemoverIs
<1>3. UninstallTypeOK
  <2>1. copy \in [unit : {"none", "launchd", "user", "system"}, loaded : BOOLEAN,
                  host : {"up", "stopping", "down"}, boxes : 0 .. MaxBoxes, pid : BOOLEAN]
    BY UninstallBounds DEF UninstallInit
  <2>2. tries \in 0 .. MaxTries /\ slips \in 0 .. MaxSlips
    BY <1>1, UninstallBounds
  <2> QED
    BY <1>1, <1>2, <2>1, <2>2 DEF UninstallTypeOK, RemoverType
<1>4. AskingFollows
  BY <1>2, WordsApart DEF AskingFollows
<1>5. PlanFollows /\ HostFollows /\ TheirsAreTold
  BY <1>2 DEF PlanFollows, HostFollows, TheirsAreTold
<1>6. KeysKept
  BY <1>1 DEF KeysKept, Things, AppData
<1>7. OthersStay /\ OwedIsKnown /\ MissedAreCommands
  BY <1>1 DEF OthersStay, OwedIsKnown, MissedAreCommands
<1> QED
  BY <1>3, <1>4, <1>5, <1>6, <1>7 DEF UninstallInv

LEMMA UninstallNext_Inv ==
  ASSUME UninstallInv, [UninstallNext]_uninstallVars PROVE UninstallInv'
<1>1. ASSUME NEW g \in GroupNames, Answer(g) PROVE UninstallInv'
  BY <1>1, AnswerKeeps
<1>2. ASSUME Closes \/ RemoverKilled PROVE UninstallInv'
  <2>1. slips' \in 0 .. MaxSlips
    BY <1>2, TypeParts, SlipTyped DEF UninstallInv, Closes, RemoverKilled
  <2> QED
    BY <1>2, <2>1, LeavingKeeps DEF Closes, RemoverKilled
<1>3. CASE UnloadService
  BY <1>3, UnloadServiceKeeps
<1>4. CASE RemoveContainers
  BY <1>4, RemoveContainersKeeps
<1>5. CASE RemoveImage
  BY <1>5, RemoveImageKeeps
<1>6. CASE BackupEnv
  BY <1>6, BackupEnvKeeps
<1>7. ASSUME NEW a \in Actions, StopHost(a) \/ DeleteAgent(a) \/ DeletePath(a)
      PROVE  UninstallInv'
  BY <1>7, StopHostKeeps, DeleteAgentKeeps, DeletePathKeeps
<1>8. CASE Begin
  BY <1>8, BeginKeeps
<1>9. CASE Cancel
  BY <1>9, CancelKeeps
<1>10. CASE HostSpawns \/ HostExits \/ HostRestarts
  BY <1>10, HostStepsKeep
<1>11. CASE UNCHANGED uninstallVars
  BY <1>11 DEF uninstallVars, uninstallHistVars, UninstallInv, UninstallTypeOK, AskingFollows,
     PlanFollows, StillThere, MissedAreCommands, HostFollows, TheirsAreTold, KeysKept,
     OthersStay, OwedIsKnown
<1> QED
  BY <1>1, <1>2, <1>3, <1>4, <1>5, <1>6, <1>7, <1>8, <1>9, <1>10, <1>11
     DEF UninstallNext, RemoverStep

LEMMA UninstallInv_Safe == ASSUME UninstallInv PROVE RemovalSafe
<1>1. AskingTouchesNothing
  BY DEF UninstallInv, AskingFollows, Askings, AskingTouchesNothing
<1>2. LeftIsTold
  <2>1. SUFFICES ASSUME remover.at = "done", NEW a \in remover.chosen \ PutBack
                 PROVE  /\ Remains(a) => a \in remover.notes \cup missed
                        /\ a \in missed => a \notin Things
    BY Zenon DEF LeftIsTold, PutBack
  <2>2. a \in remover.notes \/ a \in missed \/ ~StillThere(a, things, vault, copy)
    BY <2>1 DEF UninstallInv, PlanFollows
  <2>3. a \in missed => a \notin Things
    BY DEF UninstallInv, MissedAreCommands
  <2> QED
    BY <2>2, <2>3 DEF Remains, StillThere
<1> QED
  BY <1>1, <1>2 DEF UninstallInv, RemovalSafe

(* A backup stays, and files go only after the host was told to stop.      *)
LEMMA UninstallNext_Steps ==
  ASSUME UninstallInv, [UninstallNext]_uninstallVars
  PROVE  /\ kept \subseteq kept'
         /\ remover.at = "removing" /\ "pkill" \in remover.chosen \ missed /\ ~copy.loaded
              /\ (AppData \cap things) \ things' # {}
            => copy.host # "up"
<1>1. kept \subseteq kept'
  BY DEF UninstallNext, RemoverStep, Answer, Closes, UnloadService, RemoveContainers,
     RemoveImage, BackupEnv, StopHost, DeleteAgent, DeletePath, Begin, Cancel, RemoverKilled,
     HostSpawns, HostExits, HostRestarts, uninstallVars
<1>2. ASSUME (AppData \cap things) \ things' # {}
      PROVE  BackupEnv \/ DeletePath("data")
  <2>1. BackupEnv \/ (\E a \in Actions : DeletePath(a)) \/ things \subseteq things' \/ RemoveImage
    BY DEF UninstallNext, RemoverStep, Answer, Closes, UnloadService, RemoveContainers,
       StopHost, DeleteAgent, Begin, Cancel, RemoverKilled,
       HostSpawns, HostExits, HostRestarts, uninstallVars
  <2>2. ASSUME RemoveImage PROVE FALSE
    <3>1. "image" \notin AppData
      BY DEF AppData
    <3> QED
      BY <1>2, <2>2, <3>1 DEF RemoveImage
  <2>3. ASSUME NEW a \in Actions, DeletePath(a) PROVE a = "data"
    <3>1. PICK b \in AppData \cap things : b \notin things'
      BY <1>2
    <3>2. b \in (IF a = "data" THEN {"data", "ids"} ELSE {a})
      BY <2>3, <3>1 DEF DeletePath
    <3>3. a # ".env"
      BY <2>3 DEF DeletePath
    <3> QED
      BY <3>1, <3>2, <3>3 DEF AppData
  <2> QED
    BY <1>2, <2>1, <2>2, <2>3
<1>3. ASSUME remover.at = "removing", "pkill" \in remover.chosen \ missed, ~copy.loaded,
             (AppData \cap things) \ things' # {}
      PROVE  copy.host # "up"
  <2>1. Executing(".env") \/ Executing("data")
    BY <1>2, <1>3 DEF BackupEnv, DeletePath
  <2>2. "pkill" \notin remover.plan
    BY <2>1, ExecutingIs
  <2> QED
    BY <1>3, <2>2 DEF UninstallInv, HostFollows
<1> QED
  BY <1>1, <1>3

LEMMA RemovalInductive == UninstallInit /\ [][UninstallNext]_uninstallVars => []UninstallInv
<1>1. UninstallInit => UninstallInv
  BY UninstallInit_Inv
<1>2. UninstallInv /\ [UninstallNext]_uninstallVars => UninstallInv'
  BY UninstallNext_Inv
<1> QED
  BY <1>1, <1>2, PTL

(* Uninstall.RemovalSafe (setup/uninstall): wherever a removal is cut off  *)
(* the keys of .env are kept, another copy's agents stay without its       *)
(* user's word, an agent still owed is known, and what is left at the end  *)
(* of all that was chosen was noted or is a command's, which no file is,   *)
(* that failed without a word.                                             *)
THEOREM RemovalIsSafe == UninstallSpec => []RemovalSafe
<1>1. UninstallInv => RemovalSafe
  BY UninstallInv_Safe
<1> QED
  BY <1>1, RemovalInductive, PTL DEF UninstallSpec

LEMMA RemovalSteps ==
  UninstallInit /\ [][UninstallNext]_uninstallVars => RemoverSteps
<1>1. UninstallInv /\ [UninstallNext]_uninstallVars =>
        /\ [kept \subseteq kept']_uninstallVars
        /\ [remover.at = "removing" /\ "pkill" \in remover.chosen \ missed /\ ~copy.loaded
               /\ (AppData \cap things) \ things' # {}
             => copy.host # "up"]_uninstallVars
  BY UninstallNext_Steps
<1> QED
  BY <1>1, RemovalInductive, PTL DEF RemoverSteps, BackupsStay, HostStopsFirst

(* Uninstall (remove.ts): no step of a removal touches a backup of .env,   *)
(* and files go only after the host that writes them was told to stop, as  *)
(* long as pkill has found it.                                             *)
THEOREM RemovalKept == UninstallSpec => RemoverSteps
BY RemovalSteps DEF UninstallSpec

-----------------------------------------------------------------------------
(***************************************************************************)
(* The three by hand: a behaviour is one of one of them, and the others    *)
(* keep to one state.                                                      *)
(***************************************************************************)

wizardVars == <<setupVars, flowVars, uninstallVars, part>>

LEMMA WizardParts ==
  WizardSpec => /\ SetupInit /\ [][SetupNext]_setupVars
                /\ ChannelSetupInit /\ [][ChannelSetupNext]_flowVars
                /\ UninstallInit /\ [][UninstallNext]_uninstallVars
<1>1. WizardInit => SetupInit /\ ChannelSetupInit /\ UninstallInit
  BY DEF WizardInit
<1>2. [WizardNext]_wizardVars
      => [SetupNext]_setupVars /\ [ChannelSetupNext]_flowVars /\ [UninstallNext]_uninstallVars
  BY DEF WizardNext, wizardVars
<1> QED
  BY <1>1, <1>2, PTL DEF WizardSpec, wizardVars

(* What is checked of the setup wizard, of the channel flows and of the    *)
(* uninstaller holds for the three of them together.                       *)
THEOREM WizardsAreSafe == WizardSpec => [](SetupSafe /\ FlowsSafe /\ RemovalSafe)
<1>1. SetupInv => SetupSafe
  BY SetupInv_Safe
<1>2. FlowsInv => FlowsSafe
  BY FlowsInv_Safe
<1>3. UninstallInv => RemovalSafe
  BY UninstallInv_Safe
<1> QED
  BY <1>1, <1>2, <1>3, WizardParts, SetupInductive, FlowsInductive, RemovalInductive, PTL

(* No step by hand loses a choice, skips what is to be done, wires a chat  *)
(* that nobody serves, touches an older backup, or removes files under a   *)
(* host that runs though pkill has found it.                               *)
THEOREM WizardsKept == WizardSpec => WizardSteps
BY WizardParts, SetupSteps, FlowSteps, RemovalSteps DEF WizardSteps
=============================================================================
