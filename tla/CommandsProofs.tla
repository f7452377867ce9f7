--------------------------- MODULE CommandsProofs ---------------------------
(***************************************************************************)
(* Theorems about Commands, for any configuration, any commands and any    *)
(* number of faults: what nil means for a command of either verb, that a   *)
(* command fails fast, the order in which Deploy brings releases up, and   *)
(* what it still begins after a Ctrl-C.                                    *)
(***************************************************************************)
EXTENDS Commands, SequenceTheorems, TLAPS

-----------------------------------------------------------------------------
(* The inductive invariant                                                 *)

(* A deployed release will not vanish under those that come after it.      *)
Stands(r) == Complete(r) /\ namespace[Space(r)] = "active"

(* Achieved, and no step of the server will undo it.                       *)
Settled(c) ==
    IF command.verb = "deploy"
    THEN \A r \in Wanted(c) : Stands(r)
    ELSE \A r \in Releases : r[1] = c /\ r[2] \notin command.keep => Cleared(r)

(* A namespace that is not there holds no history and no objects.          *)
AbsentIsEmpty ==
    \A r \in Releases :
      namespace[Space(r)] = "absent" => record[r] = "none" /\ objects[r] = {}

(* Where a command is, and at which cluster.                               *)
PlaceInv ==
    /\ phase # "idle" => command.clusterName \in Names \cup {Unset}
    /\ phase \in {"install", "validate", "teardown"} => cluster <= Len(Selected)
    /\ phase \in {"install", "validate"} => command.verb = "deploy"
    /\ phase = "teardown" => command.verb # "deploy"
    /\ phase # "install" => inFlight = Helm!Idle
    /\ phase \in {"cluster", "validate", "teardown"} => returned = "none"
    /\ phase # "teardown" => Teardown!Idle
    /\ phase = "idle" => cluster = 1
    /\ Teardown!Idle => taken = {} /\ deleting = {}

(* What a call of Helm is for, and what a successful one has done.         *)
CallInv ==
    /\ inFlight # Helm!Idle =>
         /\ inFlight.op = "apply"
         /\ inFlight.release = <<Current, steps[step]>>
         /\ step \in DOMAIN steps
         /\ returned = "none"
         /\ inFlight.at \in {"installing", "upgrading"} =>
              namespace[Space(inFlight.release)] = "active"
    /\ phase = "install" /\ returned = "ok" =>
         step \in DOMAIN steps /\ Stands(<<Current, steps[step]>>)

(* What releaseExists said still holds when Helm reads the history again,  *)
(* unless the namespace went with it.                                      *)
ChoiceInv ==
    inFlight # Helm!Idle =>
      LET status == record[inFlight.release] IN
      /\ inFlight.at = "install" => status \in {"none", "uninstalled", "uninstalling"}
      /\ inFlight.at = "upgrade" => status \notin {"uninstalled", "uninstalling"}

(* The releases before the one at hand.                                    *)
StepsInv ==
    phase \in {"install", "validate"} =>
      \A j \in DOMAIN steps :
        (j < step \/ phase = "validate") /\ req[steps[j]] => Stands(<<Current, steps[j]>>)

(* The teardown of the cluster at hand.                                    *)
TeardownInv ==
    phase = "teardown" =>
      /\ torn = Asked(Current, command.keep) \/ Teardown!Idle
      /\ teardown \in {Level(command), "failing", "ok", "error"}
      /\ Level(command) \in Teardown!Levels
      /\ teardown = "ok" => Settled(Current)

(* The clusters before the one at hand.                                    *)
ClustersInv ==
    \A i \in DOMAIN Selected :
      (phase # "idle" /\ i < cluster) \/ (phase = "idle" /\ verdict = "ok") =>
        Settled(Selected[i])

(* The one operation begun after a Ctrl-C will fail, or has.               *)
LateInv ==
    begunLate # 0 =>
      /\ begunLate = 1
      /\ interrupted
      /\ \/ phase = "idle"
         \/ phase = "install" /\ inFlight # Helm!Idle
              /\ inFlight.at \in {"installing", "upgrading"}
         \/ phase = "install" /\ returned = "error"

IInv ==
    /\ TypeOK /\ AbsentIsEmpty
    /\ PlaceInv /\ CallInv /\ ChoiceInv /\ StepsInv
    /\ TeardownInv /\ ClustersInv /\ LateInv

-----------------------------------------------------------------------------
(* The data                                                                *)

(* The four releases are distinct, and the cleaner's plan has the same.    *)
LEMMA StepsShape ==
    /\ DOMAIN steps = 1 .. 4 /\ Len(steps) = 4
    /\ \A i, j \in 1 .. 4 : steps[i] = steps[j] => i = j
    /\ \A i \in 1 .. 4 : \E j \in 1 .. 4 : plan[i] = steps[j]
    /\ \A j \in 1 .. 4 : \E i \in 1 .. 4 : plan[i] = steps[j]
BY DEF steps, plan

(* A release is a cluster and one of the four names.                       *)
LEMMA ReleaseShape ==
    /\ \A r \in Releases :
         /\ r = <<r[1], r[2]>> /\ r[1] \in Names
         /\ \E j \in 1 .. 4 : r[2] = steps[j]
         /\ Space(r) \in Teardown!Spaces
         /\ [q \in Releases |-> Space(q)][r] = Space(r)
    /\ \A c \in Names, j \in 1 .. 4 :
         <<c, steps[j]>> \in Releases /\ <<c, steps[j]>>[1] = c /\ <<c, steps[j]>>[2] = steps[j]
<1>1. DOMAIN steps = 1 .. 4
  BY StepsShape
<1>2. Releases = Names \X {steps[j] : j \in 1 .. 4}
  BY <1>1 DEF Releases
<1>3. ASSUME NEW r \in Releases PROVE Space(r) \in Teardown!Spaces
  BY <1>3 DEF Teardown!Spaces
<1>4. QED
  BY <1>2, <1>3

Among(r, S) == \E i \in DOMAIN S : S[i] = r

(* What is in a list is in any list made by appending to it.               *)
LEMMA InConcat ==
    ASSUME NEW S \in Seq(Releases), NEW T \in Seq(Releases), NEW r,
           Among(r, S) \/ Among(r, T)
    PROVE  Among(r, S \o T)
<1>1. /\ Len(S) \in Nat /\ Len(T) \in Nat
      /\ DOMAIN S = 1 .. Len(S) /\ DOMAIN T = 1 .. Len(T)
      /\ DOMAIN (S \o T) = 1 .. Len(S) + Len(T)
      /\ \A i \in 1 .. Len(S) : (S \o T)[i] = S[i]
      /\ \A i \in 1 .. Len(T) : (S \o T)[Len(S) + i] = T[i]
  BY SMT
<1>2. CASE Among(r, S)
  BY <1>1, <1>2 DEF Among
<1>3. CASE Among(r, T)
  <2>1. PICK i \in 1 .. Len(T) : T[i] = r
    BY <1>1, <1>3 DEF Among
  <2>2. Len(S) + i \in DOMAIN (S \o T) /\ (S \o T)[Len(S) + i] = r
    BY <1>1, <2>1
  <2>3. QED
    BY <2>2 DEF Among
<1>4. QED
  BY <1>2, <1>3

(* A cleanup is asked for the releases of the plan that are not kept.      *)
LEMMA AskedShape ==
    ASSUME NEW c \in Names, NEW keep
    PROVE  /\ Asked(c, keep) \in Seq(Releases)
           /\ \A r \in Releases :
                r[1] = c /\ r[2] \notin keep => Among(r, Asked(c, keep))
<1> DEFINE One(name) == IF name \in keep THEN <<>> ELSE << <<c, name>> >>
           A == One(plan[1])
           B == One(plan[2])
           C == One(plan[3])
           D == One(plan[4])
<1>1. ASSUME NEW i \in 1 .. 4
      PROVE  /\ One(plan[i]) \in Seq(Releases)
             /\ plan[i] \notin keep => One(plan[i]) = << <<c, plan[i]>> >>
  <2>1. <<c, plan[i]>> \in Releases
    <3>1. PICK j \in 1 .. 4 : plan[i] = steps[j]
      BY StepsShape
    <3>2. QED
      BY <3>1, ReleaseShape
  <2>2. << <<c, plan[i]>> >> \in Seq(Releases) /\ <<>> \in Seq(Releases)
    <3> HIDE DEF One
    <3>1. ASSUME NEW q \in Releases PROVE <<q>> \in Seq(Releases)
      OBVIOUS
    <3>2. QED
      BY <2>1, <3>1
  <2>3. QED
    BY <2>2, Zenon
<1>2. /\ A \in Seq(Releases) /\ B \in Seq(Releases)
      /\ C \in Seq(Releases) /\ D \in Seq(Releases)
  BY <1>1
<1>3. Asked(c, keep) = ((A \o B) \o C) \o D
  BY DEF Asked
<1> HIDE DEF One, A, B, C, D
<1>4. (A \o B) \o C \in Seq(Releases) /\ A \o B \in Seq(Releases)
  BY <1>2
<1>5. Asked(c, keep) \in Seq(Releases)
  BY <1>2, <1>3, <1>4
<1>6. ASSUME NEW r \in Releases, r[1] = c, r[2] \notin keep
      PROVE  Among(r, Asked(c, keep))
  <2>1. PICK k \in 1 .. 4 : plan[k] = r[2]
    BY StepsShape, ReleaseShape
  <2>2. One(plan[k]) = <<r>>
    BY <1>1, <1>6, <2>1, ReleaseShape
  <2>3. Among(r, One(plan[k]))
    BY <2>2 DEF Among
  <2>4. Among(r, A) \/ Among(r, B) \/ Among(r, C) \/ Among(r, D)
    <3>1. k = 1 \/ k = 2 \/ k = 3 \/ k = 4
      OBVIOUS
    <3>2. QED
      BY <2>3, <3>1, Zenon DEF A, B, C, D
  <2>5. Among(r, A) \/ Among(r, B) => Among(r, A \o B)
    BY <1>2, InConcat, Zenon
  <2>6. Among(r, A \o B) \/ Among(r, C) => Among(r, (A \o B) \o C)
    BY <1>2, <1>4, InConcat, Zenon
  <2>7. Among(r, (A \o B) \o C) \/ Among(r, D) => Among(r, Asked(c, keep))
    BY <1>2, <1>3, <1>4, InConcat, Zenon
  <2>8. QED
    BY <2>4, <2>5, <2>6, <2>7, Zenon
<1>7. QED
  BY <1>5, <1>6

(* The clusters of a command that has begun are known, and no two are one. *)
LEMMA SelectedShape ==
    ASSUME command.clusterName \in Names \cup {Unset}
    PROVE  /\ Selected \in Seq(Names)
           /\ \A i, j \in DOMAIN Selected : Selected[i] = Selected[j] => i = j
<1>1. Clusters \in Seq(Names)
  BY CommandsAssumption
<1>2. CASE command.clusterName = Unset
  BY <1>1, <1>2, CommandsAssumption DEF Selected, selectClusters
<1>3. CASE command.clusterName # Unset
  <2>1. Selected = <<command.clusterName>> /\ command.clusterName \in Names
    BY <1>3 DEF Selected, selectClusters
  <2>2. Len(Selected) = 1 /\ Selected \in Seq(Names)
    <3>1. ASSUME NEW c \in Names PROVE <<c>> \in Seq(Names) /\ Len(<<c>>) = 1
      OBVIOUS
    <3>2. QED
      BY <2>1, <3>1, Zenon
  <2>3. DOMAIN Selected = 1 .. Len(Selected)
    BY <2>2, LenProperties, Zenon
  <2>4. \A i, j \in 1 .. 1 : i = j
    OBVIOUS
  <2>5. QED
    BY <2>2, <2>3, <2>4, Zenon
<1>4. QED
  BY <1>2, <1>3
-----------------------------------------------------------------------------
(* A step of a call of Helm                                                *)

ApplyCalls == [op : {"apply"}, release : Releases, at : Helm!ApplySteps]

(* The commands make no call of Helm but Apply.                            *)
LEMMA InFlightShape ==
    ASSUME TypeOK, CallInv, inFlight # Helm!Idle
    PROVE  inFlight \in ApplyCalls
<1>1. inFlight \in Helm!Calls /\ inFlight.op = "apply"
  BY DEF TypeOK, Helm!TypeOK, CallInv, Processes, inFlight
<1>2. QED
  BY <1>1 DEF Helm!Calls, ApplyCalls

(* A step of a call goes on with the same release.                         *)
LEMMA StepShape ==
    ASSUME TypeOK, inFlight \in ApplyCalls, NEW s \in Helm!ApplySteps, Helm!Step(cli, s)
    PROVE  /\ call' \in [Processes -> Helm!Calls \cup {Helm!Idle}]
           /\ result' \in [Processes -> Helm!Results]
           /\ inFlight' \in ApplyCalls
           /\ inFlight'.at = s /\ inFlight'.release = inFlight.release
           /\ returned' = returned
<1>1. call' = [call EXCEPT ![cli] = [inFlight EXCEPT !.at = s]] /\ result' = result
  BY DEF Helm!Step, inFlight
<1>2. [inFlight EXCEPT !.at = s] \in ApplyCalls
  BY DEF ApplyCalls
<1>3. ApplyCalls \subseteq Helm!Calls
  BY DEF ApplyCalls, Helm!Calls
<1>4. cli \in Processes /\ call \in [Processes -> Helm!Calls \cup {Helm!Idle}]
  BY DEF Processes, TypeOK, Helm!TypeOK
<1>5. inFlight' = [inFlight EXCEPT !.at = s]
  BY <1>1, <1>4 DEF inFlight
<1>6. result' \in [Processes -> Helm!Results] /\ returned' = returned
  BY <1>1 DEF TypeOK, Helm!TypeOK, returned
<1>7. call' \in [Processes -> Helm!Calls \cup {Helm!Idle}]
  BY <1>1, <1>2, <1>3, <1>4
<1>8. inFlight'.at = s /\ inFlight'.release = inFlight.release
  BY <1>5 DEF ApplyCalls
<1>9. QED
  BY <1>2, <1>5, <1>6, <1>7, <1>8

(* A return leaves no call in flight, and its result.                      *)
LEMMA ReturnShape ==
    ASSUME TypeOK, NEW res \in Helm!Results, Helm!Return(cli, res)
    PROVE  /\ call' \in [Processes -> Helm!Calls \cup {Helm!Idle}]
           /\ result' \in [Processes -> Helm!Results]
           /\ inFlight' = Helm!Idle /\ returned' = res
BY DEF TypeOK, Helm!TypeOK, Helm!Return, Processes, inFlight, returned

(* No call is Idle.                                                        *)
LEMMA IdleIsNoCall == Helm!Idle \notin ApplyCalls
BY DEF ApplyCalls, Helm!Idle

(* What a step of a call may do, of the release it is for.                 *)
Begins ==
    /\ inFlight.at \in {"install", "upgrade"}
    /\ inFlight'.at \in {"installing", "upgrading"}
    /\ \E status \in Helm!Pending : record' = [record EXCEPT ![inFlight.release] = status]
    /\ objects' = objects

Chooses ==
    /\ inFlight.at = "query"
    /\ inFlight'.at = IF Helm!releaseExists(inFlight.release) THEN "upgrade" ELSE "install"
    /\ UNCHANGED <<record, objects>>

EndsWell ==
    /\ inFlight.at \in {"installing", "upgrading"}
    /\ inFlight' = Helm!Idle /\ returned' = "ok"
    /\ ~interrupted
    /\ record' = [record EXCEPT ![inFlight.release] = "deployed"]
    /\ objects' = [objects EXCEPT ![inFlight.release] = Kinds]

EndsBadly ==
    /\ inFlight' = Helm!Idle /\ returned' = "error"
    /\ \/ UNCHANGED <<record, objects>>
       \/ /\ inFlight.at \in {"installing", "upgrading"}
          /\ record' = record \/ record' = [record EXCEPT ![inFlight.release] = "failed"]
          /\ \E made \in SUBSET Kinds :
               objects' = [objects EXCEPT ![inFlight.release] = @ \cup made]

Goes == inFlight' \in ApplyCalls /\ inFlight'.release = inFlight.release /\ returned' = returned

(* Every step of Helm does one of these.                                   *)
LEMMA HelmShape ==
    ASSUME TypeOK, CallInv, Helm!Running(cli)
    PROVE  /\ inFlight \in ApplyCalls
           /\ call' \in [Processes -> Helm!Calls \cup {Helm!Idle}]
           /\ result' \in [Processes -> Helm!Results]
           /\ cancelled' = cancelled
           /\ (Begins /\ Goes) \/ (Chooses /\ Goes) \/ EndsWell \/ EndsBadly
<1>1. inFlight # Helm!Idle
  BY DEF Helm!Running, Helm!ApplyQuery, Helm!runInstall, Helm!runUpgrade, Helm!HelmApplies,
     Helm!UninstallQuery, Helm!UninstallRun, Helm!HelmMarks, Helm!HelmDeletes, Helm!At,
     Helm!Idle, inFlight
<1>2. inFlight \in ApplyCalls /\ inFlight.op = "apply"
  BY <1>1, InFlightShape DEF ApplyCalls
<1>3. CASE Helm!ApplyQuery(cli)
  <2>1. inFlight.at = "query" /\ UNCHANGED <<record, objects, cancelled>>
    BY <1>3 DEF Helm!ApplyQuery, Helm!At, inFlight
  <2>2. \/ \E s \in {"install", "upgrade"} :
             /\ s = IF Helm!releaseExists(inFlight.release) THEN "upgrade" ELSE "install"
             /\ Helm!Step(cli, s)
        \/ Helm!Return(cli, "error")
    BY <1>3 DEF Helm!ApplyQuery, inFlight
  <2>3. {"install", "upgrade"} \subseteq Helm!ApplySteps /\ "error" \in Helm!Results
    BY DEF Helm!ApplySteps, Helm!Results
  <2>4. QED
    BY <1>2, <2>1, <2>2, <2>3, StepShape, ReturnShape DEF Chooses, EndsBadly, Goes
<1>4. CASE Helm!runInstall(cli) \/ Helm!runUpgrade(cli)
  <2>1. /\ inFlight.at \in {"install", "upgrade"} /\ UNCHANGED <<objects, cancelled>>
        /\ \/ /\ \E s \in {"installing", "upgrading"} : Helm!Step(cli, s)
              /\ \E status \in Helm!Pending :
                   record' = [record EXCEPT ![inFlight.release] = status]
           \/ Helm!Return(cli, "error") /\ UNCHANGED record
    BY <1>4 DEF Helm!runInstall, Helm!runUpgrade, Helm!At, Helm!Write, Helm!Pending, inFlight
  <2>2. {"installing", "upgrading"} \subseteq Helm!ApplySteps /\ "error" \in Helm!Results
    BY DEF Helm!ApplySteps, Helm!Results
  <2>3. QED
    BY <1>2, <2>1, <2>2, StepShape, ReturnShape DEF Begins, EndsBadly, Goes
<1>5. CASE Helm!HelmApplies(cli)
  <2>1. /\ inFlight.at \in {"installing", "upgrading"} /\ UNCHANGED cancelled
        /\ \/ /\ ~interrupted
              /\ Helm!Return(cli, "ok")
              /\ record' = [record EXCEPT ![inFlight.release] = "deployed"]
              /\ objects' = [objects EXCEPT ![inFlight.release] = Kinds]
           \/ /\ Helm!Return(cli, "error")
              /\ record' = record \/ record' = [record EXCEPT ![inFlight.release] = "failed"]
              /\ \E made \in SUBSET Kinds :
                   objects' = [objects EXCEPT ![inFlight.release] = @ \cup made]
    BY <1>5 DEF Helm!HelmApplies, Helm!At, Helm!Write, inFlight, interrupted
  <2>2. "ok" \in Helm!Results /\ "error" \in Helm!Results
    BY DEF Helm!Results
  <2>3. QED
    BY <1>2, <2>1, <2>2, ReturnShape DEF EndsWell, EndsBadly
<1>6. CASE \/ Helm!UninstallQuery(cli) \/ Helm!UninstallRun(cli)
           \/ Helm!HelmMarks(cli) \/ Helm!HelmDeletes(cli)
  <2>1. inFlight.op = "uninstall"
    BY <1>6 DEF Helm!UninstallQuery, Helm!UninstallRun, Helm!HelmMarks, Helm!HelmDeletes,
       Helm!At, inFlight
  <2>2. QED
    BY <1>2, <2>1
<1>7. QED
  BY <1>3, <1>4, <1>5, <1>6 DEF Helm!Running
-----------------------------------------------------------------------------
(* Types                                                                   *)

(* The selected clusters are a list.                                       *)
LEMMA SelectedLength ==
    ASSUME NEW cmd
    PROVE  /\ Len(selectClusters(cmd)) \in Nat
           /\ DOMAIN selectClusters(cmd) = 1 .. Len(selectClusters(cmd))
<1>1. CASE cmd.clusterName = Unset
  BY <1>1, CommandsAssumption, LenProperties DEF selectClusters
<1>2. CASE cmd.clusterName # Unset
  <2>1. ASSUME NEW c PROVE Len(<<c>>) \in Nat /\ DOMAIN <<c>> = 1 .. Len(<<c>>)
    OBVIOUS
  <2>2. QED
    BY <1>2, <2>1, Zenon DEF selectClusters
<1>3. QED
  BY <1>1, <1>2

(* The cluster at hand is one of the configuration, and none before it.    *)
LEMMA CurrentShape ==
    ASSUME TypeOK, PlaceInv, phase # "idle", cluster <= Len(Selected)
    PROVE  /\ Current \in Names
           /\ cluster \in DOMAIN Selected
           /\ \A i \in DOMAIN Selected : i < cluster => Selected[i] # Current
<1>1. cluster \in 1 .. Len(Selected) + 1 /\ command.clusterName \in Names \cup {Unset}
  BY DEF TypeOK, PlaceInv
<1>2. Len(Selected) \in Nat /\ DOMAIN Selected = 1 .. Len(Selected)
  BY SelectedLength DEF Selected
<1>3. cluster \in DOMAIN Selected
  BY <1>1, <1>2
<1>4. Selected[cluster] \in Names
  BY <1>1, <1>2, <1>3, SelectedShape, ElementOfSeq
<1>5. \A i \in DOMAIN Selected : i < cluster => Selected[i] # Selected[cluster]
  BY <1>1, <1>2, <1>3, SelectedShape
<1>6. QED
  BY <1>3, <1>4, <1>5 DEF Current

(* The initial states are well typed.                                      *)
LEMMA TypeInit == Init => TypeOK
<1> SUFFICES ASSUME Init PROVE TypeOK
  OBVIOUS
<1>1. command \in Given
  BY CommandsAssumption DEF Init
<1>2. Helm!TypeOK
  BY DEF Init, Helm!TypeOK, Helm!Statuses, Helm!Results
<1>3. Teardown!Torn = {}
  BY DEF Init, Teardown!Torn
<1>4. cluster \in 1 .. Len(Selected) + 1
  BY SelectedLength DEF Init, Selected
<1>5. step \in 1 .. Len(steps) + 1 /\ begunLate \in Nat /\ faults \in 0 .. MaxFaults
  BY StepsShape, CommandsAssumption DEF Init
<1>6. QED
  BY <1>1, <1>2, <1>3, <1>4, <1>5 DEF Init, TypeOK

(* Faults are counted up to their bound.                                   *)
LEMMA FaultTyped ==
    ASSUME TypeOK, Fault \/ CallFails \/ UNCHANGED faults
    PROVE  faults' \in 0 .. MaxFaults
BY CommandsAssumption DEF TypeOK, Fault, CallFails

(* The types of the state on the cluster and of the teardown.              *)
DataTyped ==
    /\ record \in [Releases -> Helm!Statuses]
    /\ objects \in [Releases -> SUBSET Kinds]
    /\ namespace \in [Teardown!Spaces -> {"absent", "active", "terminating"}]
    /\ teardown \in Teardown!Levels \cup {"none", "ok", "error", "killed", "failing"}
    /\ Teardown!Torn \subseteq Releases
    /\ taken \subseteq Releases
    /\ deleting \subseteq Releases

CallTyped ==
    /\ call \in [Processes -> Helm!Calls \cup {Helm!Idle}]
    /\ result \in [Processes -> Helm!Results]
    /\ cancelled \in [Processes -> BOOLEAN]

RunTyped ==
    /\ phase \in {"idle", "cluster", "install", "validate", "teardown"}
    /\ command \in Given
    /\ cluster \in 1 .. Len(Selected) + 1
    /\ step \in 1 .. Len(steps) + 1
    /\ verdict \in {"none", "ok", "error", "killed"}

(* TypeOK by what it is about.                                             *)
LEMMA TypeParts ==
    TypeOK <=> /\ DataTyped /\ CallTyped /\ RunTyped
               /\ begunLate \in Nat /\ faults \in 0 .. MaxFaults
BY DEF TypeOK, Helm!TypeOK, DataTyped, CallTyped, RunTyped

(* The same of the state after a step.                                     *)
LEMMA TypeAgain ==
    ASSUME DataTyped', CallTyped', RunTyped', begunLate' \in Nat, faults' \in 0 .. MaxFaults
    PROVE  TypeOK'
BY DEF TypeOK, Helm!TypeOK, DataTyped, CallTyped, RunTyped

(* What is not changed keeps its type.                                     *)
LEMMA DataFrame ==
    ASSUME DataTyped, UNCHANGED <<record, objects, tearVars>> PROVE DataTyped'
BY DEF DataTyped, tearVars, Teardown!Torn

(* A deletion in part leaves sets of objects.                              *)
LEMMA InPartTyped ==
    ASSUME DataTyped, Teardown!InPart PROVE objects' \in [Releases -> SUBSET Kinds]
BY DEF DataTyped, Teardown!InPart

(* A cleanup and the server keep the types.                                *)
LEMMA TeardownTyped ==
    ASSUME DataTyped,
           \/ TeardownStep
           \/ \E ns \in Teardown!Spaces : Vanish(ns)
           \/ Teardown!ReturnError
    PROVE  DataTyped'
<1>1. CASE \E i \in DOMAIN torn : Teardown!Take(i)
  <2>1. PICK i \in DOMAIN torn : Teardown!Take(i)
    BY <1>1
  <2>2. torn[i] \in Releases
    BY DEF DataTyped, Teardown!Torn
  <2>3. QED
    BY <2>1, <2>2 DEF DataTyped, Teardown!Take, Teardown!Torn
<1>2. CASE Teardown!BeginUninstall
  BY <1>2 DEF DataTyped, Teardown!BeginUninstall, Teardown!Torn, Helm!Statuses
<1>3. CASE Teardown!EndUninstall
  <2>1. /\ record' \in [Releases -> Helm!Statuses]
        /\ objects' \in [Releases -> SUBSET Kinds]
    BY <1>3, InPartTyped DEF DataTyped, Teardown!EndUninstall, Helm!Statuses
  <2>2. QED
    BY <1>3, <2>1 DEF DataTyped, Teardown!EndUninstall, Teardown!Torn
<1>4. CASE Teardown!Fail \/ Teardown!ReturnNil
  BY <1>4 DEF DataTyped, Teardown!Fail, Teardown!ReturnNil, Teardown!Torn
<1>5. CASE \E ns \in Teardown!Spaces : Teardown!Doom(ns)
  BY <1>5 DEF DataTyped, Teardown!Doom, Teardown!Torn
<1>6. CASE Teardown!ReturnError
  <2>1. objects' \in [Releases -> SUBSET Kinds]
    BY <1>6, InPartTyped DEF DataTyped, Teardown!ReturnError
  <2>2. QED
    BY <1>6, <2>1 DEF DataTyped, Teardown!ReturnError, Teardown!Torn
<1>7. CASE \E ns \in Teardown!Spaces : Vanish(ns)
  <2>1. PICK ns \in Teardown!Spaces : Teardown!Vanish(ns)
    BY <1>7 DEF Vanish
  <2>2. /\ record' \in [Releases -> Helm!Statuses]
        /\ objects' \in [Releases -> SUBSET Kinds]
    BY <2>1 DEF DataTyped, Teardown!Vanish, Helm!Statuses
  <2>3. QED
    BY <2>1, <2>2 DEF DataTyped, Teardown!Vanish, Teardown!Torn
<1>8. QED
  BY <1>1, <1>2, <1>3, <1>4, <1>5, <1>6, <1>7 DEF TeardownStep

(* So does a step of Helm.                                                 *)
LEMMA HelmTyped ==
    ASSUME TypeOK, CallInv, HelmStep
    PROVE  DataTyped' /\ CallTyped' /\ begunLate' \in Nat
<1>1. /\ inFlight \in ApplyCalls
      /\ call' \in [Processes -> Helm!Calls \cup {Helm!Idle}]
      /\ result' \in [Processes -> Helm!Results]
      /\ cancelled' = cancelled
      /\ Begins \/ Chooses \/ EndsWell \/ EndsBadly
  BY HelmShape DEF HelmStep
<1>2. DataTyped /\ CallTyped /\ begunLate \in Nat
  BY TypeParts
<1>3. record' \in [Releases -> Helm!Statuses]
  BY <1>1, <1>2 DEF DataTyped, Begins, Chooses, EndsWell, EndsBadly, Helm!Statuses
<1>4. objects' \in [Releases -> SUBSET Kinds]
  <2>1. inFlight.release \in Releases
    BY <1>1 DEF ApplyCalls
  <2>2. QED
    BY <1>1, <1>2, <2>1 DEF DataTyped, Begins, Chooses, EndsWell, EndsBadly
<1>5. /\ \E s \in {"active", namespace[Space(inFlight.release)]} :
           namespace' = [namespace EXCEPT ![Space(inFlight.release)] = s]
      /\ begunLate' \in {begunLate, begunLate + 1}
      /\ UNCHANGED <<teardown, torn, taken, deleting>>
  BY DEF HelmStep
<1>6. namespace' \in [Teardown!Spaces -> {"absent", "active", "terminating"}]
  <2>1. Space(inFlight.release) \in Teardown!Spaces
    BY <1>1, ReleaseShape DEF ApplyCalls
  <2>2. QED
    BY <1>2, <1>5, <2>1 DEF DataTyped
<1>7. DataTyped'
  BY <1>2, <1>3, <1>4, <1>5, <1>6 DEF DataTyped, Teardown!Torn
<1>8. QED
  BY <1>1, <1>2, <1>5, <1>7 DEF CallTyped

(* So does the end of a command, whatever it returns.                      *)
LEMMA FinishTyped ==
    ASSUME RunTyped, NEW v \in {"ok", "error", "killed"}, Finish(v) PROVE RunTyped'
<1>1. Selected' = Selected /\ Len(Selected) \in Nat
  BY SelectedLength DEF Finish, Selected, selectClusters
<1>2. QED
  BY <1>1, StepsShape DEF RunTyped, Finish

(* So does the move to another part of a cluster's work.                   *)
LEMMA GotoTyped ==
    ASSUME RunTyped, NEW place \in {"install", "validate", "teardown"}, Goto(place)
    PROVE  RunTyped'
<1>1. Selected' = Selected
  BY DEF Goto, Selected, selectClusters
<1>2. QED
  BY <1>1, StepsShape DEF RunTyped, Goto

(* So does the loop over the clusters.                                     *)
LEMMA NextClusterTyped ==
    ASSUME TypeOK, cluster <= Len(Selected), NextCluster PROVE RunTyped'
<1>1. Selected' = Selected /\ Len(Selected) \in Nat
  BY SelectedLength DEF NextCluster, Selected, selectClusters
<1>2. QED
  BY <1>1, TypeParts, StepsShape DEF RunTyped, NextCluster

(* So does the loop over the releases.                                     *)
LEMMA NextReleaseTyped ==
    ASSUME RunTyped, step \in DOMAIN steps, step' = step + 1,
           UNCHANGED <<phase, command, cluster, verdict>>
    PROVE  RunTyped'
<1>1. Selected' = Selected
  BY DEF Selected, selectClusters
<1>2. QED
  BY <1>1, StepsShape DEF RunTyped

(* A step that is not the command's own leaves its place.                  *)
LEMMA RunFrame == ASSUME RunTyped, UNCHANGED runVars PROVE RunTyped'
<1>1. Selected' = Selected
  BY DEF runVars, Selected, selectClusters
<1>2. QED
  BY <1>1 DEF RunTyped, runVars

(* Every step keeps the types.                                             *)
LEMMA TypeStep ==
    ASSUME TypeOK, PlaceInv, CallInv, [Next]_vars PROVE TypeOK'
<1> USE TypeParts, TypeAgain
<1>1. ASSUME NEW cmd \in Given, Start(cmd) PROVE TypeOK'
  <2>1. DataTyped'
    BY <1>1 DEF Start, DataTyped, Teardown!Torn
  <2>2. CallTyped'
    BY <1>1 DEF Start, CallTyped, Helm!Results
  <2>3. RunTyped'
    <3>1. cluster' = 1 /\ step' = step /\ command' = cmd
      BY <1>1 DEF Start, PlaceInv
    <3>2. Len(Selected') \in Nat
      BY SelectedLength DEF Selected
    <3>3. QED
      BY <1>1, <3>1, <3>2 DEF Start, RunTyped
  <2>4. faults' \in 0 .. MaxFaults /\ begunLate' \in Nat
    BY <1>1, FaultTyped DEF Start
  <2>5. QED
    BY <2>1, <2>2, <2>3, <2>4
<1>2. CASE DeployCluster
  <2>1. DataTyped' /\ CallTyped' /\ begunLate' \in Nat
    BY <1>2, DataFrame DEF DeployCluster, helmVars, CallTyped
  <2>2. RunTyped' /\ faults' \in 0 .. MaxFaults
    BY <1>2, FinishTyped, GotoTyped, FaultTyped DEF DeployCluster
  <2>3. QED
    BY <2>1, <2>2
<1>3. CASE CleanupCluster
  <2>1. Current \in Names
    BY <1>3, CurrentShape DEF CleanupCluster, AtCluster
  <2>2. DataTyped'
    <3>1. CASE UNCHANGED <<record, objects, tearVars>>
      BY <3>1, DataFrame
    <3>2. CASE /\ Level(command) \in Teardown!Levels
               /\ Teardown!Begin(Level(command), Asked(Current, command.keep))
      <4>1. torn' \in Seq(Releases)
        BY <2>1, <3>2, AskedShape DEF Teardown!Begin
      <4>2. \A i \in DOMAIN torn' : torn'[i] \in Releases
        BY <4>1, LenProperties, ElementOfSeq
      <4>3. (Teardown!Torn)' \subseteq Releases
        BY <4>2 DEF Teardown!Torn
      <4>4. QED
        BY <3>2, <4>3 DEF DataTyped, Teardown!Begin
    <3>3. QED
      BY <1>3, <3>1, <3>2 DEF CleanupCluster
  <2>3. CallTyped' /\ begunLate' \in Nat
    BY <1>3 DEF CleanupCluster, CallTyped
  <2>4. RunTyped' /\ faults' \in 0 .. MaxFaults
    BY <1>3, FinishTyped, GotoTyped, FaultTyped DEF CleanupCluster
  <2>5. QED
    BY <2>2, <2>3, <2>4
<1>4. CASE AllClustersDone
  <2>1. DataTyped' /\ CallTyped' /\ begunLate' \in Nat /\ faults' \in 0 .. MaxFaults
    BY <1>4, DataFrame DEF AllClustersDone, helmVars, CallTyped
  <2>2. RunTyped'
    BY <1>4, FinishTyped DEF AllClustersDone
  <2>3. QED
    BY <2>1, <2>2
<1>5. CASE InstallNext
  <2>1. PICK i \in DOMAIN steps :
          /\ Installing(i)
          /\ IF req[steps[i]]
             THEN Helm!Apply(cli, <<Current, steps[i]>>) /\ UNCHANGED runVars
             ELSE step' = i + 1 /\ UNCHANGED <<phase, command, cluster, verdict, helmVars>>
          /\ UNCHANGED <<tearVars, begunLate, faults>>
    BY <1>5 DEF InstallNext
  <2>2. DataTyped' /\ begunLate' \in Nat /\ faults' \in 0 .. MaxFaults
    BY <2>1, DataFrame DEF Helm!Apply, helmVars
  <2>3. RunTyped'
    BY <2>1, RunFrame, NextReleaseTyped DEF Installing
  <2>4. CallTyped'
    <3>1. CASE UNCHANGED helmVars
      BY <3>1 DEF helmVars, CallTyped
    <3>2. CASE Helm!Apply(cli, <<Current, steps[i]>>)
      <4>1. <<Current, steps[i]>> \in Releases
        BY <2>1, CurrentShape, ReleaseShape, StepsShape DEF Installing, PlaceInv
      <4>2. [op |-> "apply", release |-> <<Current, steps[i]>>, at |-> "query"] \in Helm!Calls
        BY <4>1 DEF Helm!Calls, Helm!ApplySteps
      <4>3. QED
        BY <3>2, <4>2 DEF Helm!Apply, CallTyped, Helm!Results
    <3>3. QED
      BY <2>1, <3>1, <3>2
  <2>5. QED
    BY <2>2, <2>3, <2>4
<1>6. CASE HelmStep
  <2>1. RunTyped' /\ faults' \in 0 .. MaxFaults
    BY <1>6, RunFrame, FaultTyped DEF HelmStep
  <2>2. QED
    BY <1>6, <2>1, HelmTyped
<1>7. CASE InstallReturns
  <2>1. DataTyped' /\ begunLate' \in Nat /\ faults' \in 0 .. MaxFaults
    BY <1>7, DataFrame DEF InstallReturns
  <2>2. CallTyped'
    BY <1>7 DEF InstallReturns, CallTyped, Helm!Results
  <2>3. RunTyped'
    BY <1>7, FinishTyped, NextReleaseTyped DEF InstallReturns, CallInv
  <2>4. QED
    BY <2>1, <2>2, <2>3
<1>8. CASE InstallsDone \/ validate
  <2>1. DataTyped' /\ CallTyped' /\ begunLate' \in Nat
    BY <1>8, DataFrame DEF InstallsDone, validate, helmVars, CallTyped
  <2>2. faults' \in 0 .. MaxFaults
    BY <1>8, FaultTyped DEF InstallsDone, validate
  <2>3. cluster <= Len(Selected)
    BY <1>8 DEF InstallsDone, validate, Installing, PlaceInv
  <2>4. RunTyped'
    BY <1>8, <2>3, FinishTyped, GotoTyped, NextClusterTyped DEF InstallsDone, validate
  <2>5. QED
    BY <2>1, <2>2, <2>4
<1>9. CASE TeardownStep
  <2>1. CallTyped' /\ RunTyped' /\ begunLate' \in Nat /\ faults' \in 0 .. MaxFaults
    BY <1>9, RunFrame, FaultTyped DEF TeardownStep, CallTyped
  <2>2. QED
    BY <1>9, <2>1, TeardownTyped
<1>10. CASE TeardownReturns
  <2>1. DataTyped'
    BY <1>10 DEF TeardownReturns, helmVars, DataTyped, Teardown!Torn
  <2>2. CallTyped' /\ begunLate' \in Nat /\ faults' \in 0 .. MaxFaults
    BY <1>10 DEF TeardownReturns, helmVars, CallTyped
  <2>3. RunTyped'
    BY <1>10, FinishTyped, NextClusterTyped DEF TeardownReturns, PlaceInv
  <2>4. QED
    BY <2>1, <2>2, <2>3
<1>11. CASE \E ns \in Teardown!Spaces : Vanish(ns)
  <2>1. CallTyped' /\ RunTyped' /\ begunLate' \in Nat /\ faults' \in 0 .. MaxFaults
    BY <1>11, RunFrame DEF Vanish, CallTyped
  <2>2. QED
    BY <1>11, <2>1, TeardownTyped
<1>12. CASE Cancel
  <2>1. DataTyped' /\ RunTyped' /\ begunLate' \in Nat /\ faults' \in 0 .. MaxFaults
    BY <1>12, DataFrame, RunFrame, FaultTyped DEF Cancel, Helm!Cancel
  <2>2. CallTyped'
    BY <1>12 DEF Cancel, Helm!Cancel, CallTyped
  <2>3. QED
    BY <2>1, <2>2
<1>13. CASE Kill
  <2>1. RunTyped' /\ begunLate' \in Nat /\ faults' \in 0 .. MaxFaults
    BY <1>13, FinishTyped, FaultTyped DEF Kill
  <2>2. CASE UNCHANGED <<helmVars, tearVars>>
    BY <2>1, <2>2, DataFrame DEF helmVars, CallTyped
  <2>3. CASE Teardown!ReturnError /\ UNCHANGED <<call, result, cancelled>>
    BY <2>1, <2>3, TeardownTyped DEF CallTyped
  <2>4. CASE inFlight # Helm!Idle /\ Helm!Kill(cli) /\ UNCHANGED tearVars
    <3>1. inFlight \in ApplyCalls
      BY <2>4, InFlightShape
    <3>2. "killed" \in Helm!Results
      BY DEF Helm!Results
    <3>3. CallTyped'
      BY <2>4, <3>2, ReturnShape DEF Helm!Kill, CallTyped
    <3>4. objects' \in [Releases -> SUBSET Kinds]
      BY <2>4, <3>1 DEF Helm!Kill, DataTyped, ApplyCalls, inFlight
    <3>5. DataTyped'
      BY <2>4, <3>4 DEF Helm!Kill, DataTyped, tearVars, Teardown!Torn
    <3>6. QED
      BY <2>1, <3>3, <3>5
  <2>5. QED
    BY <1>13, <2>2, <2>3, <2>4 DEF Kill
<1>14. CASE UNCHANGED vars
  <2>1. UNCHANGED <<helmVars, tearVars, runVars, begunLate, faults>>
    BY <1>14 DEF vars
  <2>2. DataTyped' /\ CallTyped' /\ RunTyped'
    BY <2>1, DataFrame, RunFrame DEF helmVars, CallTyped
  <2>3. QED
    BY <2>1, <2>2
<1>15. QED
  BY <1>1, <1>2, <1>3, <1>4, <1>5, <1>6, <1>7, <1>8, <1>9, <1>10, <1>11, <1>12, <1>13,
     <1>14 DEF Next, RunStep
-----------------------------------------------------------------------------
(* What no step undoes                                                     *)

StandsKept == \A r \in Releases : Stands(r) => Stands(r)'

ClearedKept == \A r \in Releases : Cleared(r) => Cleared(r)'

(* A step that leaves the cluster alone keeps what holds of it.            *)
LEMMA DataKept ==
    ASSUME UNCHANGED <<record, objects, namespace>>
    PROVE  /\ StandsKept
           /\ UNCHANGED command => ClearedKept
           /\ AbsentIsEmpty => AbsentIsEmpty'
BY DEF StandsKept, Stands, Complete, ClearedKept, Cleared, Level, Teardown!Exists, AbsentIsEmpty

(* What the server removes neither stands nor was anything but terminating. *)
LEMMA VanishKeeps ==
    ASSUME DataTyped, NEW ns \in Teardown!Spaces, Vanish(ns)
    PROVE  StandsKept /\ ClearedKept /\ (AbsentIsEmpty => AbsentIsEmpty')
<1>1. UNCHANGED command
  BY DEF Vanish, runVars
<1>2. /\ namespace[ns] = "terminating"
      /\ namespace' = [namespace EXCEPT ![ns] = "absent"]
      /\ \A r \in Releases :
           /\ record'[r] = IF Space(r) = ns THEN "none" ELSE record[r]
           /\ objects'[r] = IF Space(r) = ns THEN objects[r] \ {"namespaced"} ELSE objects[r]
  BY ReleaseShape DEF Vanish, Teardown!Vanish
<1>3. ASSUME NEW r \in Releases
      PROVE  /\ Space(r) \in Teardown!Spaces
             /\ Space(r) # ns => namespace'[Space(r)] = namespace[Space(r)]
             /\ Space(r) = ns => namespace'[Space(r)] = "absent" /\ objects'[r] = {}
  <2>1. Space(r) \in Teardown!Spaces /\ objects[r] \subseteq {"namespaced"}
    BY ReleaseShape DEF DataTyped, Kinds
  <2>2. namespace'[Space(r)] = IF Space(r) = ns THEN "absent" ELSE namespace[Space(r)]
    BY <1>2, <2>1 DEF DataTyped
  <2>3. QED
    BY <1>2, <2>1, <2>2
<1>4. StandsKept
  BY <1>2, <1>3 DEF StandsKept, Stands, Complete
<1>5. ClearedKept
  BY <1>1, <1>2, <1>3 DEF ClearedKept, Cleared, Level, Teardown!Exists
<1>6. AbsentIsEmpty => AbsentIsEmpty'
  BY <1>2, <1>3 DEF AbsentIsEmpty
<1>7. QED
  BY <1>4, <1>5, <1>6

(* A teardown touches nothing that is cleared already.                     *)
LEMMA TeardownKeeps ==
    ASSUME DataTyped, UNCHANGED command, TeardownStep \/ Teardown!ReturnError
    PROVE  ClearedKept /\ (AbsentIsEmpty => AbsentIsEmpty')
<1>1. CASE Teardown!BeginUninstall
  <2>1. PICK q : /\ Teardown!Exists(q)
                 /\ record' = [record EXCEPT ![q] = "uninstalling"]
                 /\ UNCHANGED <<objects, namespace>>
    BY <1>1 DEF Teardown!BeginUninstall
  <2>2. \A r \in Releases : record'[r] = IF r = q THEN "uninstalling" ELSE record[r]
    BY <2>1 DEF DataTyped
  <2>3. ClearedKept
    BY <2>1, <2>2 DEF ClearedKept, Cleared, Level, Teardown!Exists
  <2>4. AbsentIsEmpty => AbsentIsEmpty'
    BY <2>1, <2>2 DEF AbsentIsEmpty, Teardown!Exists
  <2>5. QED
    BY <2>3, <2>4
<1>2. CASE /\ UNCHANGED namespace
           /\ \A r \in Releases :
                record'[r] \in {record[r], "none"} /\ objects'[r] \subseteq objects[r]
  <2>1. ClearedKept
    BY <1>2 DEF ClearedKept, Cleared, Level, Teardown!Exists
  <2>2. AbsentIsEmpty => AbsentIsEmpty'
    BY <1>2 DEF AbsentIsEmpty
  <2>3. QED
    BY <2>1, <2>2
<1>3. ASSUME Teardown!InPart PROVE \A r \in Releases : objects'[r] \subseteq objects[r]
  BY <1>3 DEF Teardown!InPart, DataTyped
<1>4. CASE Teardown!EndUninstall
  <2>1. PICK q \in deleting :
          \/ /\ objects' = [objects EXCEPT ![q] = {}]
             /\ record' = [record EXCEPT ![q] = "none"]
          \/ Teardown!InPart /\ UNCHANGED record
    BY <1>4 DEF Teardown!EndUninstall
  <2>2. \A r \in Releases :
          record'[r] \in {record[r], "none"} /\ objects'[r] \subseteq objects[r]
    BY <1>3, <2>1 DEF DataTyped
  <2>3. QED
    BY <1>2, <1>4, <2>2 DEF Teardown!EndUninstall
<1>5. CASE \/ \E i \in DOMAIN torn : Teardown!Take(i)
           \/ Teardown!Fail \/ Teardown!ReturnNil \/ Teardown!ReturnError
  <2>1. UNCHANGED <<record, namespace>> /\ (UNCHANGED objects \/ Teardown!InPart)
    BY <1>5 DEF Teardown!Take, Teardown!Fail, Teardown!ReturnNil, Teardown!ReturnError
  <2>2. QED
    BY <1>2, <1>3, <2>1
<1>6. CASE \E ns \in Teardown!Spaces : Teardown!Doom(ns)
  <2>1. PICK ns \in Teardown!Spaces :
          /\ namespace[ns] = "active"
          /\ namespace' = [namespace EXCEPT ![ns] = "terminating"]
          /\ UNCHANGED <<record, objects>>
    BY <1>6 DEF Teardown!Doom
  <2>2. \A r \in Releases : namespace'[Space(r)] = "absent" <=> namespace[Space(r)] = "absent"
    BY <2>1, ReleaseShape DEF DataTyped
  <2>3. ClearedKept
    BY <2>1, <2>2 DEF ClearedKept, Cleared, Level, Teardown!Exists
  <2>4. AbsentIsEmpty => AbsentIsEmpty'
    BY <2>1, <2>2 DEF AbsentIsEmpty
  <2>5. QED
    BY <2>3, <2>4
<1>7. QED
  BY <1>1, <1>4, <1>5, <1>6 DEF TeardownStep

(* A call of Helm touches the release it is for, and makes its namespace.  *)
LEMMA HelmKeeps ==
    ASSUME TypeOK, CallInv, inFlight # Helm!Idle,
           HelmStep \/ (Helm!Kill(cli) /\ UNCHANGED namespace)
    PROVE  /\ \A r \in Releases \ {inFlight.release} : Stands(r) => Stands(r)'
           /\ AbsentIsEmpty => AbsentIsEmpty'
<1> DEFINE q == inFlight.release
<1>1. inFlight \in ApplyCalls /\ q \in Releases
  BY InFlightShape DEF ApplyCalls
<1>2. DataTyped
  BY TypeParts
<1>3. /\ \A r \in Releases \ {q} : record'[r] = record[r] /\ objects'[r] = objects[r]
      /\ \/ UNCHANGED <<record, objects>>
         \/ inFlight.at \in {"installing", "upgrading"}
         \/ inFlight'.at \in {"installing", "upgrading"}
            /\ inFlight.at \in {"install", "upgrade"} /\ inFlight' \in ApplyCalls
  <2>1. CASE HelmStep
    <3>1. (Begins /\ Goes) \/ (Chooses /\ Goes) \/ EndsWell \/ EndsBadly
      BY <2>1, HelmShape DEF HelmStep
    <3>2. QED
      BY <1>1, <1>2, <3>1 DEF DataTyped, Begins, Chooses, EndsWell, EndsBadly, Goes
  <2>2. CASE Helm!Kill(cli)
    <3>1. /\ UNCHANGED record
          /\ \/ UNCHANGED objects
             \/ /\ inFlight.at \in {"installing", "upgrading"}
                /\ \E made \in SUBSET Kinds : objects' = [objects EXCEPT ![q] = @ \cup made]
      BY <1>1, <2>2 DEF Helm!Kill, inFlight, ApplyCalls, Helm!ApplySteps
    <3>2. QED
      BY <1>1, <1>2, <3>1 DEF DataTyped
  <2>3. QED
    BY <2>1, <2>2
<1>4. /\ namespace' = namespace \/ namespace' = [namespace EXCEPT ![Space(q)] = "active"]
      /\ \/ UNCHANGED <<record, objects>>
         \/ namespace'[Space(q)] = "active"
  <2>1. namespace[Space(q)] = "active" \/ inFlight.at \notin {"installing", "upgrading"}
    BY DEF CallInv
  <2>2. Space(q) \in DOMAIN namespace
    BY <1>1, <1>2, ReleaseShape DEF DataTyped
  <2>3. CASE UNCHANGED namespace /\ ~HelmStep
    <3>1. inFlight' = Helm!Idle
      BY <2>3, ReturnShape DEF Helm!Kill, Helm!Results
    <3>2. QED
      BY <1>3, <2>1, <2>3, <3>1, IdleIsNoCall
  <2>4. CASE HelmStep
    <3>1. namespace' = [namespace EXCEPT ![Space(q)] =
                          IF inFlight.at \in {"install", "upgrade"} /\ inFlight' # Helm!Idle
                          THEN "active" ELSE @]
      BY <2>4 DEF HelmStep
    <3>2. namespace' = namespace \/ namespace' = [namespace EXCEPT ![Space(q)] = "active"]
      BY <1>2, <3>1 DEF DataTyped
    <3>3. inFlight.at \in {"install", "upgrade"} /\ inFlight' \in ApplyCalls
            => namespace'[Space(q)] = "active"
      BY <2>2, <3>1, IdleIsNoCall
    <3>4. inFlight.at \in {"installing", "upgrading"} => namespace'[Space(q)] = "active"
      BY <2>1, <2>2, <3>1
    <3>5. QED
      BY <1>3, <3>2, <3>3, <3>4
  <2>5. QED
    BY <2>3, <2>4
<1>5. \A r \in Releases :
        /\ namespace[Space(r)] = "active" => namespace'[Space(r)] = "active"
        /\ namespace'[Space(r)] = "absent" => namespace[Space(r)] = "absent"
  BY <1>1, <1>2, <1>4, ReleaseShape DEF DataTyped
<1>6. \A r \in Releases \ {q} : Stands(r) => Stands(r)'
  BY <1>3, <1>5 DEF Stands, Complete
<1>7. AbsentIsEmpty => AbsentIsEmpty'
  BY <1>3, <1>4, <1>5 DEF AbsentIsEmpty
<1>8. QED
  BY <1>6, <1>7
-----------------------------------------------------------------------------
(* The invariant, one conjunct after another                               *)

(* Helm takes steps only while a release is being installed.               *)
LEMMA HelmIsInstall ==
    ASSUME TypeOK, PlaceInv, CallInv, HelmStep
    PROVE  /\ phase = "install" /\ inFlight # Helm!Idle
           /\ UNCHANGED <<runVars, cancelled, teardown, torn, taken, deleting>>
           /\ (Begins /\ Goes) \/ (Chooses /\ Goes) \/ EndsWell \/ EndsBadly
<1>1. /\ inFlight \in ApplyCalls /\ cancelled' = cancelled
      /\ (Begins /\ Goes) \/ (Chooses /\ Goes) \/ EndsWell \/ EndsBadly
  BY HelmShape DEF HelmStep
<1>2. QED
  BY <1>1, IdleIsNoCall DEF HelmStep, PlaceInv

(* What a command selects, and its level, depend on the command alone.     *)
LEMMA SameSelection ==
    ASSUME UNCHANGED command
    PROVE  Selected' = Selected /\ Level(command)' = Level(command)
BY DEF Selected, selectClusters, Level

(* Every step keeps the command's place.                                   *)
LEMMA PlaceStep ==
    ASSUME TypeOK, PlaceInv, CallInv, [Next]_vars PROVE PlaceInv'
<1>1. ASSUME NEW cmd \in Given, Start(cmd) PROVE PlaceInv'
  <2>1. returned' = "none" /\ inFlight' = inFlight
    BY <1>1, TypeParts DEF Start, CallTyped, Processes, inFlight, returned
  <2>2. teardown' = "none" /\ taken' = {} /\ deleting' = {} /\ cluster' = 1
    BY <1>1 DEF Start, PlaceInv
  <2>3. /\ phase' \in {"idle", "cluster"} /\ inFlight = Helm!Idle
        /\ phase' = "cluster" => command'.clusterName \in Names \cup {Unset}
    BY <1>1 DEF Start, PlaceInv
  <2>4. QED
    BY <2>1, <2>2, <2>3 DEF PlaceInv, Teardown!Idle
<1>2. CASE DeployCluster
  BY <1>2, SameSelection DEF DeployCluster, AtCluster, Goto, Finish, PlaceInv, Teardown!Idle,
     helmVars, tearVars, inFlight, returned
<1>3. CASE CleanupCluster
  BY <1>3, SameSelection DEF CleanupCluster, AtCluster, Goto, Finish, PlaceInv, Teardown!Idle,
     Teardown!Begin, Teardown!Levels, tearVars, inFlight, returned
<1>4. CASE AllClustersDone
  BY <1>4 DEF AllClustersDone, Finish, PlaceInv, Teardown!Idle, helmVars, tearVars, inFlight
<1>5. CASE InstallNext
  <2>1. phase = "install" /\ UNCHANGED <<phase, command, cluster, tearVars>>
    BY <1>5 DEF InstallNext, Installing, runVars
  <2>2. QED
    BY <2>1, SameSelection DEF PlaceInv, Teardown!Idle, tearVars
<1>6. CASE HelmStep
  <2>1. phase = "install" /\ UNCHANGED <<runVars, teardown, torn, taken, deleting>>
    BY <1>6, HelmIsInstall
  <2>2. QED
    BY <2>1, SameSelection DEF PlaceInv, Teardown!Idle, runVars
<1>7. CASE InstallReturns
  <2>1. inFlight = Helm!Idle
    BY <1>7 DEF InstallReturns, CallInv
  <2>2. inFlight' = Helm!Idle /\ UNCHANGED command
    BY <1>7, <2>1 DEF InstallReturns, Finish, inFlight
  <2>3. QED
    BY <1>7, <2>2, SameSelection DEF InstallReturns, Finish, PlaceInv, Teardown!Idle, tearVars
<1>8. CASE InstallsDone \/ validate
  BY <1>8, SameSelection DEF InstallsDone, validate, Installing, Goto, NextCluster, Finish,
     PlaceInv, Teardown!Idle, helmVars, tearVars, inFlight, returned
<1>9. CASE TeardownStep
  <2>1. /\ phase = "teardown"
        /\ UNCHANGED <<call, result, runVars>>
    BY <1>9 DEF TeardownStep
  <2>2. (Teardown!Idle)' => taken' = {} /\ deleting' = {}
    BY <1>9 DEF TeardownStep, PlaceInv, Teardown!Idle, Teardown!Take,
       Teardown!BeginUninstall, Teardown!EndUninstall, Teardown!Fail, Teardown!Doom,
       Teardown!ReturnNil, Teardown!ReturnError, Teardown!Levels
  <2>3. QED
    BY <2>1, <2>2, SameSelection DEF PlaceInv, runVars, inFlight, returned
<1>10. CASE TeardownReturns
  BY <1>10 DEF TeardownReturns, NextCluster, Finish, PlaceInv, Teardown!Idle, helmVars,
     inFlight, returned
<1>11. CASE \E ns \in Teardown!Spaces : Vanish(ns)
  <2>1. UNCHANGED <<call, result, runVars, teardown, taken, deleting>>
    BY <1>11 DEF Vanish, Teardown!Vanish
  <2>2. QED
    BY <2>1, SameSelection DEF PlaceInv, Teardown!Idle, runVars, inFlight, returned
<1>12. CASE Cancel
  BY <1>12, SameSelection DEF Cancel, Helm!Cancel, PlaceInv, Teardown!Idle, runVars, tearVars,
     inFlight, returned
<1>13. CASE Kill
  <2>1. inFlight' = Helm!Idle
    <3>1. CASE inFlight # Helm!Idle /\ Helm!Kill(cli)
      <4>1. "killed" \in Helm!Results /\ Helm!Return(cli, "killed")
        BY <3>1 DEF Helm!Results, Helm!Kill
      <4>2. QED
        BY <4>1, ReturnShape
    <3>2. CASE inFlight = Helm!Idle /\ UNCHANGED call
      BY <3>2 DEF inFlight
    <3>3. QED
      BY <1>13, <3>1, <3>2 DEF Kill, PlaceInv, helmVars
  <2>2. (Teardown!Idle)' /\ taken' = {} /\ deleting' = {}
    BY <1>13 DEF Kill, PlaceInv, Teardown!Idle, Teardown!ReturnError, tearVars
  <2>3. QED
    BY <1>13, <2>1, <2>2 DEF Kill, Finish, PlaceInv
<1>14. CASE UNCHANGED vars
  BY <1>14, SameSelection DEF vars, PlaceInv, Teardown!Idle, helmVars, tearVars, runVars,
     inFlight, returned
<1>15. QED
  BY <1>1, <1>2, <1>3, <1>4, <1>5, <1>6, <1>7, <1>8, <1>9, <1>10, <1>11, <1>12, <1>13,
     <1>14 DEF Next, RunStep

(* No step puts anything into a namespace that is not there.               *)
LEMMA AbsentStep ==
    ASSUME TypeOK, AbsentIsEmpty, PlaceInv, CallInv, [Next]_vars PROVE AbsentIsEmpty'
<1> USE TypeParts
<1>1. CASE UNCHANGED <<record, objects, namespace>>
  BY <1>1, DataKept
<1>2. CASE HelmStep
  BY <1>2, HelmIsInstall, HelmKeeps
<1>3. CASE TeardownStep
  BY <1>3, TeardownKeeps DEF TeardownStep, runVars
<1>4. CASE \E ns \in Teardown!Spaces : Vanish(ns)
  BY <1>4, VanishKeeps
<1>5. CASE Kill
  BY <1>1, <1>5, HelmKeeps, TeardownKeeps DEF Kill, Finish, helmVars, tearVars
<1>6. ASSUME NEW cmd \in Given, Start(cmd) PROVE AbsentIsEmpty'
  BY <1>1, <1>6 DEF Start
<1>7. CASE DeployCluster \/ AllClustersDone \/ InstallReturns \/ InstallsDone \/ validate
  BY <1>1, <1>7 DEF DeployCluster, AllClustersDone, InstallReturns, InstallsDone, validate,
     helmVars, tearVars
<1>8. CASE CleanupCluster
  BY <1>1, <1>8 DEF CleanupCluster, Teardown!Begin, tearVars
<1>9. CASE InstallNext
  BY <1>1, <1>9 DEF InstallNext, Helm!Apply, helmVars, tearVars
<1>10. CASE TeardownReturns \/ Cancel
  BY <1>1, <1>10 DEF TeardownReturns, Cancel, Helm!Cancel, helmVars, tearVars
<1>11. CASE UNCHANGED vars
  BY <1>1, <1>11 DEF vars, helmVars, tearVars
<1>12. QED
  BY <1>2, <1>3, <1>4, <1>5, <1>6, <1>7, <1>8, <1>9, <1>10, <1>11 DEF Next, RunStep

(* What a successful step of Helm leaves.                                  *)
LEMMA EndsWellStands ==
    ASSUME TypeOK, CallInv, inFlight # Helm!Idle, EndsWell, UNCHANGED namespace,
           NEW r \in Releases, r = inFlight.release
    PROVE  Stands(r)'
<1>1. record'[r] = "deployed" /\ objects'[r] = Kinds
  BY TypeParts DEF DataTyped, EndsWell
<1>2. namespace'[Space(r)] = "active"
  BY DEF EndsWell, CallInv
<1>3. QED
  BY <1>1, <1>2 DEF Stands, Complete

(* A step of others leaves what a call in flight relies on.                *)
LEMMA CallFrame ==
    ASSUME TypeOK, CallInv, PlaceInv, StandsKept, inFlight' = inFlight, returned' = returned,
           UNCHANGED runVars,
           inFlight # Helm!Idle /\ namespace[Space(inFlight.release)] = "active"
             => namespace'[Space(inFlight.release)] = "active"
    PROVE  CallInv'
<1>1. UNCHANGED <<phase, command, cluster, step>> /\ Current' = Current
  BY DEF runVars, Current, Selected, selectClusters
<1>2. ASSUME phase = "install", returned = "ok"
      PROVE  Stands(<<Current, steps[step]>>)'
  <2>1. step \in DOMAIN steps /\ Stands(<<Current, steps[step]>>)
    BY <1>2 DEF CallInv
  <2>2. <<Current, steps[step]>> \in Releases
    BY <1>2, <2>1, CurrentShape, ReleaseShape, StepsShape DEF PlaceInv
  <2>3. PICK r \in Releases : r = <<Current, steps[step]>>
    BY <2>2
  <2>4. Stands(r)'
    BY <2>1, <2>3 DEF StandsKept
  <2>5. QED
    BY <1>1, <2>3, <2>4 DEF Stands, Complete
<1>3. QED
  BY <1>1, <1>2 DEF CallInv

(* Every step keeps what is known of the call.                             *)
LEMMA CallStep ==
    ASSUME TypeOK, PlaceInv, CallInv, [Next]_vars PROVE CallInv'
<1> USE TypeParts
<1>1. ASSUME NEW cmd \in Given, Start(cmd) PROVE CallInv'
  BY <1>1 DEF Start, PlaceInv, CallInv, inFlight
<1>2. CASE DeployCluster \/ CleanupCluster \/ AllClustersDone
  <2>1. /\ phase = "cluster" /\ inFlight = Helm!Idle /\ returned = "none"
        /\ inFlight' = inFlight /\ returned' = returned
    BY <1>2 DEF DeployCluster, CleanupCluster, AllClustersDone, AtCluster, PlaceInv, helmVars,
       inFlight, returned
  <2>2. QED
    BY <2>1 DEF CallInv
<1>3. CASE InstallNext
  <2>1. PICK i \in DOMAIN steps :
          /\ phase = "install" /\ inFlight = Helm!Idle /\ returned = "none" /\ step = i
          /\ \/ Helm!Apply(cli, <<Current, steps[i]>>) /\ UNCHANGED runVars
             \/ UNCHANGED helmVars
    BY <1>3 DEF InstallNext, Installing
  <2>2. CASE UNCHANGED helmVars
    BY <2>1, <2>2 DEF CallInv, helmVars, inFlight, returned
  <2>3. CASE Helm!Apply(cli, <<Current, steps[i]>>) /\ UNCHANGED runVars
    <3>1. /\ inFlight' = [op |-> "apply", release |-> <<Current, steps[i]>>, at |-> "query"]
          /\ returned' = "none"
      BY <2>3 DEF Helm!Apply, CallTyped, Processes, inFlight, returned
    <3>2. Current' = Current /\ step' = step
      BY <2>3 DEF runVars, Current, Selected, selectClusters
    <3>3. QED
      BY <2>1, <3>1, <3>2 DEF CallInv
  <2>4. QED
    BY <2>1, <2>2, <2>3
<1>4. CASE HelmStep
  <2>1. /\ phase = "install" /\ inFlight # Helm!Idle /\ UNCHANGED runVars
        /\ (Begins /\ Goes) \/ (Chooses /\ Goes) \/ EndsWell \/ EndsBadly
    BY <1>4, HelmIsInstall
  <2>2. /\ phase' = phase /\ step' = step /\ Current' = Current
        /\ inFlight \in ApplyCalls /\ returned = "none"
        /\ inFlight.release = <<Current, steps[step]>> /\ step \in DOMAIN steps
    BY <2>1, InFlightShape DEF CallInv, runVars, Current, Selected, selectClusters
  <2>3. CASE Begins /\ Goes
    <3>1. namespace' = [namespace EXCEPT ![Space(inFlight.release)] = "active"]
      BY <1>4, <2>3, IdleIsNoCall DEF HelmStep, Begins, Goes
    <3>2. Space(inFlight.release) \in DOMAIN namespace
      BY <2>2, ReleaseShape DEF DataTyped, ApplyCalls
    <3>3. inFlight'.op = "apply"
      BY <2>3 DEF Goes, ApplyCalls
    <3>4. namespace'[Space(inFlight'.release)] = "active"
      BY <2>3, <3>1, <3>2 DEF Goes
    <3>5. QED
      BY <2>2, <2>3, <3>3, <3>4 DEF CallInv, Goes
  <2>4. CASE Chooses /\ Goes
    <3>1. inFlight'.op = "apply" /\ inFlight'.at \notin {"installing", "upgrading"}
      BY <2>4 DEF Goes, ApplyCalls, Chooses
    <3>2. QED
      BY <2>2, <2>4, <3>1 DEF CallInv, Goes
  <2>5. CASE EndsWell
    <3>1. namespace' = namespace
      BY <1>4, <2>5 DEF HelmStep, EndsWell, DataTyped
    <3>2. Stands(<<Current, steps[step]>>)'
      <4>1. PICK r \in Releases : r = inFlight.release
        BY <2>2 DEF ApplyCalls
      <4>2. Stands(r)'
        BY <2>1, <2>5, <3>1, <4>1, EndsWellStands
      <4>3. QED
        BY <2>2, <4>1, <4>2 DEF Stands, Complete
    <3>3. QED
      BY <2>2, <2>5, <3>2 DEF CallInv, EndsWell
  <2>6. CASE EndsBadly
    BY <2>6 DEF CallInv, EndsBadly
  <2>7. QED
    BY <2>1, <2>3, <2>4, <2>5, <2>6
<1>5. CASE InstallReturns
  <2>1. inFlight = Helm!Idle
    BY <1>5 DEF InstallReturns, CallInv
  <2>2. inFlight' = Helm!Idle /\ returned' = "none"
    BY <1>5, <2>1 DEF InstallReturns, CallTyped, Processes, inFlight, returned
  <2>3. QED
    BY <2>2 DEF CallInv
<1>6. CASE InstallsDone \/ validate
  <2>1. /\ inFlight = Helm!Idle /\ returned = "none"
        /\ inFlight' = inFlight /\ returned' = returned
    BY <1>6 DEF InstallsDone, validate, Installing, PlaceInv, helmVars, inFlight, returned
  <2>2. QED
    BY <2>1 DEF CallInv
<1>7. CASE TeardownStep \/ TeardownReturns
  <2>1. /\ inFlight = Helm!Idle /\ returned = "none"
        /\ inFlight' = inFlight /\ returned' = returned
    BY <1>7 DEF TeardownStep, TeardownReturns, PlaceInv, helmVars, inFlight, returned
  <2>2. QED
    BY <2>1 DEF CallInv
<1>8. CASE \E ns \in Teardown!Spaces : Vanish(ns)
  <2>1. PICK ns \in Teardown!Spaces : Vanish(ns)
    BY <1>8
  <2>2. StandsKept /\ UNCHANGED runVars /\ inFlight' = inFlight /\ returned' = returned
    BY <2>1, VanishKeeps DEF Vanish, inFlight, returned
  <2>3. ASSUME NEW s, namespace[s] = "active", s \in Teardown!Spaces
        PROVE  namespace'[s] = "active"
    BY <2>1, <2>3 DEF Vanish, Teardown!Vanish, DataTyped
  <2>4. inFlight # Helm!Idle => Space(inFlight.release) \in Teardown!Spaces
    BY InFlightShape, ReleaseShape DEF ApplyCalls
  <2>5. QED
    BY <2>2, <2>3, <2>4, CallFrame
<1>9. CASE Cancel
  <2>1. UNCHANGED <<record, objects, namespace>> /\ UNCHANGED runVars
        /\ inFlight' = inFlight /\ returned' = returned
    BY <1>9 DEF Cancel, Helm!Cancel, tearVars, inFlight, returned
  <2>2. QED
    BY <2>1, DataKept, CallFrame
<1>10. CASE Kill
  <2>1. inFlight' = Helm!Idle /\ phase' = "idle"
    BY <1>10, PlaceStep DEF Kill, Finish, PlaceInv, Next
  <2>2. QED
    BY <2>1 DEF CallInv
<1>11. CASE UNCHANGED vars
  <2>1. UNCHANGED <<record, objects, namespace>> /\ UNCHANGED runVars
        /\ inFlight' = inFlight /\ returned' = returned
    BY <1>11 DEF vars, helmVars, tearVars, inFlight, returned
  <2>2. QED
    BY <2>1, DataKept, CallFrame
<1>12. QED
  BY <1>1, <1>2, <1>3, <1>4, <1>5, <1>6, <1>7, <1>8, <1>9, <1>10, <1>11 DEF Next, RunStep

(* The cluster at hand changes only with the command's own steps.          *)
LEMMA SameCluster ==
    ASSUME UNCHANGED <<command, cluster>> PROVE Current' = Current /\ req' = req
BY DEF Current, Selected, selectClusters, req, mergeDeployRequest

(* The release at hand.                                                    *)
AtHand(r) == step \in DOMAIN steps /\ r = <<Current, steps[step]>>

(* The releases before the one at hand still stand.                        *)
LEMMA StepsFrame ==
    ASSUME TypeOK, PlaceInv, StepsInv, UNCHANGED runVars,
           \A r \in Releases :
             Stands(r) /\ (phase = "install" => ~AtHand(r)) => Stands(r)'
    PROVE  StepsInv'
<1>1. UNCHANGED <<phase, step, command, cluster>> /\ Current' = Current /\ req' = req
  BY SameCluster DEF runVars
<1>2. ASSUME phase \in {"install", "validate"}, NEW j \in DOMAIN steps,
             j < step \/ phase = "validate", req[steps[j]]
      PROVE  Stands(<<Current, steps[j]>>)'
  <2>1. PICK r \in Releases : r = <<Current, steps[j]>>
    BY <1>2, CurrentShape, ReleaseShape, StepsShape DEF PlaceInv
  <2>2. Stands(r)
    BY <1>2, <2>1 DEF StepsInv
  <2>3. phase = "install" => ~AtHand(r)
    <3>1. phase = "install" => j < step /\ j \in 1 .. 4 /\ step \in Nat
      BY <1>2, StepsShape DEF TypeOK
    <3>2. AtHand(r) => step \in 1 .. 4 /\ steps[j] = steps[step]
      BY <2>1, StepsShape DEF AtHand
    <3>3. QED
      BY <3>1, <3>2, StepsShape
  <2>4. Stands(r)'
    BY <2>2, <2>3
  <2>5. QED
    BY <1>1, <2>1, <2>4 DEF Stands, Complete
<1>3. QED
  BY <1>1, <1>2 DEF StepsInv

(* A release is taken only when those before it stand, as they go on to.   *)
LEMMA StepsStep ==
    ASSUME TypeOK, PlaceInv, CallInv, StepsInv, [Next]_vars PROVE StepsInv'
<1> USE TypeParts
<1>1. CASE phase' \notin {"install", "validate"}
  BY <1>1 DEF StepsInv
<1>2. CASE StandsKept /\ UNCHANGED runVars
  BY <1>2, StepsFrame DEF StandsKept
<1>3. ASSUME NEW cmd \in Given, Start(cmd) PROVE StepsInv'
  BY <1>1, <1>3 DEF Start
<1>4. CASE DeployCluster
  <2>1. phase' = "install" => step' = 1
    BY <1>4 DEF DeployCluster, Goto, Finish
  <2>2. ~\E j \in DOMAIN steps : j < 1
    BY StepsShape
  <2>3. phase' # "validate"
    BY <1>4 DEF DeployCluster, Goto, Finish
  <2>4. QED
    BY <2>1, <2>2, <2>3 DEF StepsInv
<1>5. CASE CleanupCluster \/ AllClustersDone
  BY <1>1, <1>5 DEF CleanupCluster, AllClustersDone, Goto, Finish
<1>6. CASE InstallNext
  <2>1. PICK i \in DOMAIN steps :
          /\ phase = "install" /\ step = i
          /\ IF req[steps[i]]
             THEN Helm!Apply(cli, <<Current, steps[i]>>) /\ UNCHANGED runVars
             ELSE step' = i + 1 /\ UNCHANGED <<phase, command, cluster, verdict, helmVars>>
          /\ UNCHANGED tearVars
    BY <1>6 DEF InstallNext, Installing
  <2>2. StandsKept
    BY <2>1, DataKept DEF Helm!Apply, helmVars, tearVars
  <2>3. CASE req[steps[i]]
    BY <1>2, <2>1, <2>2, <2>3
  <2>4. CASE ~req[steps[i]]
    <3>1. /\ step' = step + 1 /\ phase' = "install" /\ Current' = Current /\ req' = req
          /\ UNCHANGED <<record, objects, namespace>>
      BY <2>1, <2>4, SameCluster DEF helmVars, tearVars
    <3>2. ASSUME NEW j \in DOMAIN steps, j < step + 1, req[steps[j]]
          PROVE  Stands(<<Current, steps[j]>>)
      <4>1. j < step
        BY <2>1, <2>4, <3>2, StepsShape
      <4>2. QED
        BY <2>1, <3>2, <4>1 DEF StepsInv
    <3>3. QED
      BY <3>1, <3>2 DEF StepsInv, Stands, Complete
  <2>5. QED
    BY <2>3, <2>4
<1>7. CASE HelmStep
  <2>1. phase = "install" /\ inFlight # Helm!Idle /\ UNCHANGED runVars
    BY <1>7, HelmIsInstall
  <2>2. AtHand(inFlight.release)
    BY <2>1 DEF CallInv, AtHand
  <2>3. ASSUME NEW r \in Releases, Stands(r), ~AtHand(r) PROVE Stands(r)'
    BY <1>7, <2>1, <2>2, <2>3, HelmKeeps
  <2>4. QED
    BY <2>1, <2>3, StepsFrame
<1>8. CASE InstallReturns
  <2>1. CASE returned = "error"
    BY <1>1, <1>8, <2>1 DEF InstallReturns, Finish
  <2>2. CASE returned # "error"
    <3>1. /\ phase = "install" /\ phase' = phase /\ step' = step + 1 /\ returned = "ok"
          /\ Current' = Current /\ req' = req
          /\ UNCHANGED <<record, objects, namespace>>
      BY <1>8, <2>2, SameCluster DEF InstallReturns, tearVars
    <3>2. step \in DOMAIN steps /\ Stands(<<Current, steps[step]>>)
      BY <3>1 DEF CallInv
    <3>3. ASSUME NEW j \in DOMAIN steps, j < step + 1, req[steps[j]]
          PROVE  Stands(<<Current, steps[j]>>)
      <4>1. j < step \/ j = step
        BY <3>2, <3>3, StepsShape
      <4>2. QED
        BY <3>1, <3>2, <3>3, <4>1 DEF StepsInv
    <3>4. QED
      BY <3>1, <3>3 DEF StepsInv, Stands, Complete
  <2>3. QED
    BY <2>1, <2>2
<1>9. CASE InstallsDone
  <2>1. CASE ~req["validate"]
    BY <1>1, <1>9, <2>1 DEF InstallsDone, NextCluster
  <2>2. CASE req["validate"]
    <3>1. /\ phase = "install" /\ step = 5 /\ phase' = "validate"
          /\ Current' = Current /\ req' = req
          /\ UNCHANGED <<record, objects, namespace>>
      BY <1>9, <2>2, SameCluster, StepsShape DEF InstallsDone, Installing, Goto, helmVars, tearVars
    <3>2. ASSUME NEW j \in DOMAIN steps, req[steps[j]] PROVE Stands(<<Current, steps[j]>>)
      BY <3>1, <3>2, StepsShape DEF StepsInv
    <3>3. QED
      BY <3>1, <3>2 DEF StepsInv, Stands, Complete
  <2>3. QED
    BY <2>1, <2>2
<1>10. CASE validate \/ TeardownReturns
  BY <1>1, <1>10 DEF validate, TeardownReturns, NextCluster, Finish
<1>11. CASE TeardownStep
  BY <1>1, <1>11 DEF TeardownStep, runVars
<1>12. CASE \E ns \in Teardown!Spaces : Vanish(ns)
  BY <1>2, <1>12, VanishKeeps DEF Vanish
<1>13. CASE Cancel
  BY <1>2, <1>13, DataKept DEF Cancel, Helm!Cancel, tearVars
<1>14. CASE Kill
  BY <1>1, <1>14 DEF Kill, Finish
<1>15. CASE UNCHANGED vars
  BY <1>2, <1>15, DataKept DEF vars, helmVars, tearVars
<1>16. QED
  BY <1>3, <1>4, <1>5, <1>6, <1>7, <1>8, <1>9, <1>10, <1>11, <1>12, <1>13, <1>14,
     <1>15 DEF Next, RunStep

(* A Cleanup that may return nil has done its cluster.                     *)
LEMMA DoneIsSettled ==
    ASSUME TypeOK, AbsentIsEmpty, PlaceInv, TeardownInv, phase = "teardown", Teardown!Done
    PROVE  Settled(Current)
<1>1. teardown \in Teardown!Levels
  BY DEF Teardown!Done, Teardown!Levels
<1>2. torn = Asked(Current, command.keep) /\ teardown = Level(command)
  BY <1>1 DEF TeardownInv, Teardown!Idle, Teardown!Levels
<1>3. ASSUME NEW r \in Releases, r[1] = Current, r[2] \notin command.keep
      PROVE  Cleared(r)
  <2>1. Current \in Names
    BY CurrentShape DEF PlaceInv
  <2>2. r \in Teardown!Torn
    <3>1. Among(r, torn)
      BY <1>2, <1>3, <2>1, AskedShape
    <3>2. QED
      BY <3>1 DEF Among, Teardown!Torn
  <2>3. CASE teardown = "uninstall"
    BY <1>2, <2>2, <2>3 DEF Teardown!Done, Cleared
  <2>4. CASE teardown \in {"full", "reset"}
    <3>1. namespace[Space(r)] = "absent"
      BY <2>2, <2>4, ReleaseShape DEF Teardown!Done
    <3>2. QED
      BY <1>2, <2>4, <3>1 DEF AbsentIsEmpty, Cleared
  <2>5. QED
    BY <1>1, <2>3, <2>4 DEF Teardown!Levels
<1>4. command.verb # "deploy"
  BY DEF PlaceInv
<1>5. QED
  BY <1>3, <1>4 DEF Settled

(* A cluster that is settled stays so.                                     *)
LEMMA SettledKept ==
    ASSUME NEW c, Settled(c), UNCHANGED command,
           command.verb = "deploy" => \A r \in Wanted(c) : Stands(r) => Stands(r)',
           command.verb # "deploy" => ClearedKept
    PROVE  Settled(c)'
<1>1. Wanted(c)' = Wanted(c)
  BY DEF Wanted, mergeDeployRequest
<1>2. CASE command.verb = "deploy"
  <2>1. \A r \in Wanted(c) : Stands(r)'
    BY <1>2 DEF Settled
  <2>2. QED
    BY <1>1, <1>2, <2>1 DEF Settled
<1>3. CASE command.verb # "deploy"
  BY <1>3 DEF Settled, ClearedKept
<1>4. QED
  BY <1>2, <1>3

(* A cleanup of a cluster that ends well has settled it.                   *)
LEMMA TeardownInvStep ==
    ASSUME TypeOK, AbsentIsEmpty, PlaceInv, CallInv, TeardownInv, [Next]_vars
    PROVE  TeardownInv'
<1> USE TypeParts
<1>1. CASE phase' # "teardown"
  BY <1>1 DEF TeardownInv
<1>2. ASSUME phase = "teardown", phase' = phase, UNCHANGED <<command, cluster>>, ClearedKept,
             torn' = Asked(Current, command.keep) \/ (Teardown!Idle)',
             teardown' \in {Level(command), "failing", "ok", "error"},
             teardown' = "ok" => Settled(Current)
      PROVE  TeardownInv'
  <2>1. /\ Current' = Current /\ Level(command)' = Level(command)
        /\ Asked(Current, command.keep)' = Asked(Current, command.keep)
    BY <1>2, SameCluster DEF Level, Asked
  <2>2. command.verb # "deploy" /\ Level(command) \in Teardown!Levels
    BY <1>2 DEF PlaceInv, TeardownInv
  <2>3. ASSUME teardown' = "ok" PROVE Settled(Current)'
    BY <1>2, <2>1, <2>2, <2>3 DEF Settled, ClearedKept
  <2>4. Level(command)' \in Teardown!Levels
    BY <2>1, <2>2
  <2>5. QED
    BY <1>2, <2>1, <2>3, <2>4 DEF TeardownInv
<1>3. CASE CleanupCluster
  <2>1. CASE Finish("error")
    BY <1>1, <2>1 DEF Finish
  <2>2. CASE /\ Level(command) \in Teardown!Levels
             /\ Teardown!Begin(Level(command), Asked(Current, command.keep))
             /\ Goto("teardown")
    <3>1. /\ Current' = Current /\ Level(command)' = Level(command)
          /\ Asked(Current, command.keep)' = Asked(Current, command.keep)
      BY <2>2, SameCluster DEF Goto, Level, Asked
    <3>2. /\ torn' = Asked(Current, command.keep) /\ teardown' = Level(command)
          /\ teardown' # "ok"
      BY <2>2 DEF Teardown!Begin, Teardown!Levels
    <3>3. Level(command)' \in Teardown!Levels
      BY <2>2, <3>1
    <3>4. QED
      BY <3>1, <3>2, <3>3 DEF TeardownInv
  <2>3. QED
    BY <1>3, <2>1, <2>2 DEF CleanupCluster
<1>4. CASE TeardownStep
  <2>1. phase = "teardown" /\ phase' = phase /\ UNCHANGED <<command, cluster>>
    BY <1>4 DEF TeardownStep, runVars
  <2>2. ClearedKept
    BY <1>4, <2>1, TeardownKeeps
  <2>3. torn' = torn \/ (Teardown!Idle)'
    BY <1>4 DEF TeardownStep, Teardown!Take, Teardown!BeginUninstall, Teardown!EndUninstall,
       Teardown!Fail, Teardown!Doom, Teardown!ReturnNil, Teardown!ReturnError, Teardown!Idle
  <2>4. \/ teardown' = teardown
        \/ teardown' \in {"failing", "error"}
        \/ teardown' = "ok" /\ Teardown!Done
    BY <1>4 DEF TeardownStep, Teardown!Take, Teardown!BeginUninstall, Teardown!EndUninstall,
       Teardown!Fail, Teardown!Doom, Teardown!ReturnNil
  <2>5. (Teardown!Idle) => (Teardown!Idle)'
    <3>1. Teardown!Idle => taken = {} /\ deleting = {}
      BY DEF PlaceInv
    <3>2. QED
      BY <1>4, <3>1 DEF TeardownStep, Teardown!Take, Teardown!BeginUninstall,
         Teardown!EndUninstall, Teardown!Fail, Teardown!Doom, Teardown!ReturnNil,
         Teardown!ReturnError,
         Teardown!Idle, Teardown!Levels
  <2>6. torn' = Asked(Current, command.keep) \/ (Teardown!Idle)'
    BY <2>1, <2>3, <2>5 DEF TeardownInv
  <2>7. teardown' \in {Level(command), "failing", "ok", "error"}
    BY <2>1, <2>4 DEF TeardownInv
  <2>8. teardown' = "ok" => Settled(Current)
    BY <2>1, <2>4, DoneIsSettled DEF TeardownInv
  <2>9. QED
    BY <1>2, <2>1, <2>2, <2>6, <2>7, <2>8
<1>5. CASE \E ns \in Teardown!Spaces : Vanish(ns)
  <2>1. /\ phase' = phase /\ UNCHANGED <<command, cluster, torn, teardown>>
    BY <1>5 DEF Vanish, Teardown!Vanish, runVars
  <2>2. ClearedKept
    BY <1>5, VanishKeeps
  <2>3. QED
    BY <1>1, <1>2, <2>1, <2>2 DEF TeardownInv, Teardown!Idle
<1>6. CASE UNCHANGED <<record, objects, tearVars, runVars>>
  <2>1. ClearedKept
    BY <1>6, DataKept DEF runVars, tearVars
  <2>2. QED
    BY <1>1, <1>2, <1>6, <2>1 DEF TeardownInv, Teardown!Idle, runVars, tearVars
<1>7. CASE Cancel \/ UNCHANGED vars
  BY <1>6, <1>7 DEF Cancel, Helm!Cancel, vars, helmVars
<1>8. CASE HelmStep
  BY <1>1, <1>8, HelmIsInstall DEF runVars
<1>9. ASSUME NEW cmd \in Given, Start(cmd) PROVE TeardownInv'
  BY <1>1, <1>9 DEF Start
<1>10. CASE DeployCluster \/ AllClustersDone \/ InstallsDone \/ validate \/ TeardownReturns
  BY <1>1, <1>10 DEF DeployCluster, AllClustersDone, InstallsDone, validate, TeardownReturns,
     Goto, Finish, NextCluster
<1>11. CASE InstallNext
  BY <1>1, <1>11 DEF InstallNext, Installing, runVars
<1>12. CASE InstallReturns \/ Kill
  BY <1>1, <1>12 DEF InstallReturns, Kill, Finish
<1>13. QED
  BY <1>3, <1>4, <1>5, <1>7, <1>8, <1>9, <1>10, <1>11, <1>12 DEF Next, RunStep

(* When Deploy has been through its releases, its cluster is done.         *)
LEMMA StepsSettle ==
    ASSUME TypeOK, PlaceInv, StepsInv,
           (phase = "install" /\ step = Len(steps) + 1) \/ phase = "validate"
    PROVE  Settled(Current)
<1>1. ASSUME NEW j \in DOMAIN steps, req[steps[j]] PROVE Stands(<<Current, steps[j]>>)
  BY <1>1, StepsShape DEF StepsInv
<1>2. ASSUME NEW r \in Wanted(Current) PROVE Stands(r)
  <2>1. r \in Releases /\ r[1] = Current /\ req[r[2]]
    BY <1>2 DEF Wanted, req
  <2>2. PICK j \in 1 .. 4 : r = <<Current, steps[j]>> /\ r[2] = steps[j]
    BY <2>1, ReleaseShape
  <2>3. QED
    BY <1>1, <2>1, <2>2, StepsShape
<1>3. command.verb = "deploy"
  BY DEF PlaceInv
<1>4. QED
  BY <1>2, <1>3 DEF Settled

(* A step within a cluster leaves those before it settled.                 *)
LEMMA ClustersFrame ==
    ASSUME ClustersInv, UNCHANGED <<command, cluster>>,
           (phase # "idle" /\ phase' # "idle") \/ UNCHANGED <<phase, verdict>>,
           \A i \in DOMAIN Selected :
             (phase # "idle" => i < cluster) /\ Settled(Selected[i]) =>
               \A r \in Releases :
                 /\ command.verb = "deploy" /\ r \in Wanted(Selected[i]) /\ Stands(r) => Stands(r)'
                 /\ command.verb # "deploy" /\ Cleared(r) => Cleared(r)'
    PROVE  ClustersInv'
<1>1. Selected' = Selected
  BY SameSelection
<1>2. ASSUME NEW i \in DOMAIN Selected,
             (phase' # "idle" /\ i < cluster) \/ (phase' = "idle" /\ verdict' = "ok")
      PROVE  Settled(Selected[i])'
  <2>1. (phase # "idle" => i < cluster) /\ Settled(Selected[i])
    BY <1>2 DEF ClustersInv
  <2>2. PICK c : c = Selected[i]
    OBVIOUS
  <2>3. \A r \in Wanted(c) : r \in Releases
    BY DEF Wanted
  <2>4. Settled(c)'
    BY <2>1, <2>2, <2>3, SettledKept DEF ClearedKept
  <2>5. QED
    BY <1>1, <2>2, <2>4 DEF Settled, Wanted, mergeDeployRequest
<1>3. QED
  BY <1>1, <1>2 DEF ClustersInv

(* A settled cluster joins those before the one at hand.                   *)
LEMMA ClustersAdvance ==
    ASSUME TypeOK, ClustersInv, UNCHANGED <<record, objects, namespace>>,
           phase # "idle", NextCluster, Settled(Current)
    PROVE  ClustersInv'
<1>1. Selected' = Selected /\ UNCHANGED command /\ cluster' = cluster + 1 /\ phase' # "idle"
  BY SameSelection DEF NextCluster
<1>2. DOMAIN Selected = 1 .. Len(Selected) /\ Len(Selected) \in Nat
  BY SelectedLength DEF Selected
<1>3. ASSUME NEW i \in DOMAIN Selected, i < cluster + 1 PROVE Settled(Selected[i])'
  <2>1. i < cluster \/ i = cluster
    BY <1>2, <1>3 DEF TypeOK
  <2>2. Settled(Selected[i])
    BY <2>1 DEF ClustersInv, Current
  <2>3. PICK c : c = Selected[i]
    OBVIOUS
  <2>4. StandsKept /\ ClearedKept
    BY <1>1, DataKept
  <2>5. Settled(c)'
    BY <1>1, <2>2, <2>3, <2>4, SettledKept DEF StandsKept, Wanted
  <2>6. QED
    BY <1>1, <2>3, <2>5 DEF Settled, Wanted, mergeDeployRequest
<1>4. QED
  BY <1>1, <1>3 DEF ClustersInv

(* Every step keeps the clusters before the one at hand settled.           *)
LEMMA ClustersStep ==
    ASSUME IInv, [Next]_vars PROVE ClustersInv'
<1> USE TypeParts DEF IInv
<1>1. CASE phase' = "idle" /\ verdict' # "ok"
  BY <1>1 DEF ClustersInv
<1>2. CASE /\ UNCHANGED <<command, cluster>> /\ StandsKept /\ ClearedKept
           /\ (phase # "idle" /\ phase' # "idle") \/ UNCHANGED <<phase, verdict>>
  BY <1>2, ClustersFrame DEF StandsKept, ClearedKept
<1>3. CASE /\ UNCHANGED <<record, objects, namespace, command, cluster>>
           /\ (phase # "idle" /\ phase' # "idle") \/ UNCHANGED <<phase, verdict>>
  BY <1>2, <1>3, DataKept
<1>4. ASSUME NEW cmd \in Given, Start(cmd) PROVE ClustersInv'
  <2>1. cluster' = 1 /\ (phase' # "idle" \/ verdict' # "ok")
    BY <1>4 DEF Start, PlaceInv
  <2>2. DOMAIN Selected' = 1 .. Len(Selected') /\ Len(Selected') \in Nat
    BY SelectedLength DEF Selected
  <2>3. ~\E i \in DOMAIN Selected' : i < 1
    BY <2>2
  <2>4. QED
    BY <2>1, <2>3 DEF ClustersInv
<1>5. CASE DeployCluster
  BY <1>1, <1>3, <1>5 DEF DeployCluster, AtCluster, Goto, Finish, helmVars, tearVars
<1>6. CASE CleanupCluster
  BY <1>1, <1>3, <1>6 DEF CleanupCluster, AtCluster, Goto, Finish, Teardown!Begin, tearVars
<1>7. CASE AllClustersDone
  <2>1. /\ Selected' = Selected /\ UNCHANGED command
        /\ UNCHANGED <<record, objects, namespace>>
        /\ phase = "cluster" /\ cluster > Len(Selected)
    BY <1>7, SameSelection DEF AllClustersDone, Finish, helmVars, tearVars
  <2>2. DOMAIN Selected = 1 .. Len(Selected) /\ Len(Selected) \in Nat
    BY SelectedLength DEF Selected
  <2>3. ASSUME NEW i \in DOMAIN Selected PROVE Settled(Selected[i])'
    <3>1. i < cluster
      BY <2>1, <2>2 DEF TypeOK
    <3>2. Settled(Selected[i])
      BY <2>1, <3>1 DEF ClustersInv
    <3>3. PICK c : c = Selected[i]
      OBVIOUS
    <3>4. StandsKept /\ ClearedKept
      BY <2>1, DataKept
    <3>5. Settled(c)'
      BY <2>1, <3>2, <3>3, <3>4, SettledKept DEF StandsKept, Wanted
    <3>6. QED
      BY <2>1, <3>3, <3>5 DEF Settled, Wanted, mergeDeployRequest
  <2>4. QED
    BY <2>1, <2>3 DEF ClustersInv
<1>8. CASE InstallNext
  BY <1>3, <1>8 DEF InstallNext, Installing, Helm!Apply, helmVars, runVars, tearVars
<1>9. CASE HelmStep
  <2>1. phase = "install" /\ inFlight # Helm!Idle /\ UNCHANGED runVars
    BY <1>9, HelmIsInstall
  <2>2. command.verb = "deploy" /\ inFlight.release = <<Current, steps[step]>>
        /\ inFlight.release \in Releases
    BY <2>1, InFlightShape DEF PlaceInv, CallInv, ApplyCalls
  <2>3. ASSUME NEW i \in DOMAIN Selected, i < cluster,
               NEW r \in Wanted(Selected[i]), Stands(r)
        PROVE  Stands(r)'
    <3>1. Selected[i] # Current
      BY <2>1, <2>3, CurrentShape DEF PlaceInv
    <3>2. r \in Releases /\ r # inFlight.release
      BY <2>2, <2>3, <3>1 DEF Wanted
    <3>3. QED
      BY <1>9, <2>1, <2>3, <3>2, HelmKeeps
  <2>4. QED
    BY <2>1, <2>2, <2>3, ClustersFrame DEF runVars
<1>10. CASE InstallReturns
  BY <1>1, <1>3, <1>10 DEF InstallReturns, Finish, tearVars
<1>11. CASE InstallsDone \/ validate
  <2>1. /\ UNCHANGED <<record, objects, namespace>> /\ phase \in {"install", "validate"}
        /\ phase = "install" => step = Len(steps) + 1
        /\ Goto("validate") \/ NextCluster \/ Finish("error")
    BY <1>11 DEF InstallsDone, Installing, validate, helmVars, tearVars
  <2>2. CASE NextCluster
    BY <2>1, <2>2, StepsSettle, ClustersAdvance
  <2>3. CASE Goto("validate") \/ Finish("error")
    BY <1>1, <1>3, <2>1, <2>3 DEF Goto, Finish
  <2>4. QED
    BY <2>1, <2>2, <2>3
<1>12. CASE TeardownReturns
  <2>1. /\ UNCHANGED <<record, objects, namespace>> /\ phase = "teardown"
        /\ (teardown = "ok" /\ NextCluster) \/ Finish("error")
    BY <1>12 DEF TeardownReturns, helmVars
  <2>2. CASE teardown = "ok" /\ NextCluster
    BY <2>1, <2>2, ClustersAdvance DEF TeardownInv
  <2>3. CASE Finish("error")
    BY <1>1, <2>3 DEF Finish
  <2>4. QED
    BY <2>1, <2>2, <2>3
<1>13. CASE TeardownStep
  <2>1. phase = "teardown" /\ UNCHANGED runVars /\ command.verb # "deploy"
    BY <1>13 DEF TeardownStep, PlaceInv
  <2>2. ClearedKept
    BY <1>13, <2>1, TeardownKeeps DEF runVars
  <2>3. QED
    BY <2>1, <2>2, ClustersFrame DEF ClearedKept, runVars
<1>14. CASE \E ns \in Teardown!Spaces : Vanish(ns)
  BY <1>2, <1>14, VanishKeeps DEF Vanish, runVars
<1>15. CASE Cancel \/ UNCHANGED vars
  BY <1>3, <1>15 DEF Cancel, Helm!Cancel, vars, helmVars, tearVars, runVars
<1>16. CASE Kill
  BY <1>1, <1>16 DEF Kill, Finish
<1>17. QED
  BY <1>4, <1>5, <1>6, <1>7, <1>8, <1>9, <1>10, <1>11, <1>12, <1>13, <1>14, <1>15,
     <1>16 DEF Next, RunStep

(* What releaseExists said goes on holding.                                *)
LEMMA ChoiceStep ==
    ASSUME TypeOK, PlaceInv, CallInv, ChoiceInv, [Next]_vars PROVE ChoiceInv'
<1> USE TypeParts
<1>1. CASE inFlight' = Helm!Idle
  BY <1>1 DEF ChoiceInv
<1>2. CASE inFlight' = inFlight /\ UNCHANGED record
  BY <1>2 DEF ChoiceInv
<1>3. CASE HelmStep
  <2>1. (Begins /\ Goes) \/ (Chooses /\ Goes) \/ EndsWell \/ EndsBadly
    BY <1>3, HelmIsInstall
  <2>2. CASE Begins /\ Goes
    BY <2>2 DEF ChoiceInv, Begins
  <2>3. CASE Chooses /\ Goes
    BY <2>3 DEF ChoiceInv, Chooses, Goes, Helm!releaseExists
  <2>4. CASE EndsWell \/ EndsBadly
    BY <1>1, <2>4 DEF EndsWell, EndsBadly
  <2>5. QED
    BY <2>1, <2>2, <2>3, <2>4
<1>4. CASE \E ns \in Teardown!Spaces : Vanish(ns)
  <2>1. inFlight' = inFlight /\ \A r \in Releases : record'[r] \in {record[r], "none"}
    BY <1>4 DEF Vanish, Teardown!Vanish, inFlight
  <2>2. inFlight # Helm!Idle => inFlight.release \in Releases
    BY InFlightShape DEF ApplyCalls
  <2>3. QED
    BY <2>1, <2>2 DEF ChoiceInv
<1>5. CASE InstallNext
  <2>1. CASE UNCHANGED helmVars
    BY <1>2, <2>1 DEF helmVars, inFlight
  <2>2. CASE \E r : Helm!Apply(cli, r)
    <3>1. inFlight'.at = "query"
      BY <2>2 DEF Helm!Apply, CallTyped, Processes, inFlight
    <3>2. QED
      BY <3>1 DEF ChoiceInv
  <2>3. QED
    BY <1>5, <2>1, <2>2 DEF InstallNext
<1>6. CASE phase # "install" /\ UNCHANGED call
  BY <1>1, <1>6 DEF PlaceInv, inFlight
<1>7. ASSUME NEW cmd \in Given, Start(cmd) PROVE ChoiceInv'
  BY <1>6, <1>7 DEF Start
<1>8. CASE DeployCluster \/ CleanupCluster \/ AllClustersDone
  BY <1>6, <1>8 DEF DeployCluster, CleanupCluster, AllClustersDone, AtCluster, helmVars
<1>9. CASE InstallReturns \/ InstallsDone \/ validate \/ Cancel
  BY <1>2, <1>9 DEF InstallReturns, InstallsDone, validate, Cancel, Helm!Cancel, helmVars,
     inFlight
<1>10. CASE TeardownStep \/ TeardownReturns
  BY <1>6, <1>10 DEF TeardownStep, TeardownReturns, helmVars
<1>11. CASE Kill
  <2>1. phase' # "install"
    BY <1>11 DEF Kill, Finish
  <2>2. PlaceInv'
    BY <1>11, PlaceStep DEF Next
  <2>3. QED
    BY <1>1, <2>1, <2>2 DEF PlaceInv
<1>12. CASE UNCHANGED vars
  BY <1>2, <1>12 DEF vars, helmVars, inFlight
<1>13. QED
  BY <1>3, <1>4, <1>5, <1>7, <1>8, <1>9, <1>10, <1>11, <1>12 DEF Next, RunStep

(* An operation begun late is the last.                                    *)
LEMMA LateStep ==
    ASSUME TypeOK, PlaceInv, CallInv, LateInv, [Next]_vars PROVE LateInv'
<1> USE TypeParts
<1>1. CASE begunLate' = 0
  BY <1>1 DEF LateInv
<1>2. CASE begunLate = 0 /\ UNCHANGED begunLate
  BY <1>1, <1>2
<1>3. CASE UNCHANGED <<begunLate, cancelled, phase>> /\ inFlight' = inFlight
           /\ returned' = returned
  BY <1>3 DEF LateInv, interrupted
<1>4. CASE UNCHANGED <<begunLate, cancelled>> /\ phase' = "idle"
  BY <1>4 DEF LateInv, interrupted
<1>5. CASE HelmStep
  <2>1. /\ phase = "install" /\ phase' = phase /\ interrupted' = interrupted
        /\ inFlight # Helm!Idle /\ returned = "none"
        /\ (Begins /\ Goes) \/ (Chooses /\ Goes) \/ EndsWell \/ EndsBadly
    BY <1>5, HelmIsInstall DEF CallInv, runVars, interrupted
  <2>2. begunLate' = IF /\ inFlight.at \in {"install", "upgrade"} /\ inFlight' # Helm!Idle
                        /\ interrupted
                     THEN begunLate + 1 ELSE begunLate
    BY <1>5 DEF HelmStep
  <2>3. begunLate # 0 => begunLate = 1 /\ interrupted /\ inFlight.at \in {"installing", "upgrading"}
    BY <2>1 DEF LateInv
  <2>4. CASE Begins /\ Goes
    <3>1. inFlight' # Helm!Idle
      BY <2>4, IdleIsNoCall DEF Goes
    <3>2. begunLate = 0
      BY <2>3, <2>4 DEF Begins
    <3>3. QED
      BY <2>1, <2>2, <2>4, <3>1, <3>2 DEF LateInv, Begins
  <2>5. CASE (Chooses /\ Goes) \/ EndsWell
    BY <1>1, <2>1, <2>2, <2>3, <2>5 DEF Chooses, EndsWell
  <2>6. CASE EndsBadly
    BY <2>1, <2>2, <2>3, <2>6 DEF EndsBadly, LateInv
  <2>7. QED
    BY <2>1, <2>4, <2>5, <2>6
<1>6. CASE InstallReturns
  <2>1. UNCHANGED <<begunLate, cancelled>> /\ phase = "install"
        /\ \/ returned = "ok" /\ UNCHANGED phase
           \/ phase' = "idle"
    BY <1>6 DEF InstallReturns, Finish
  <2>2. returned = "ok" => begunLate = 0
    BY <2>1 DEF LateInv, CallInv
  <2>3. QED
    BY <1>2, <1>4, <2>1, <2>2
<1>7. ASSUME NEW cmd \in Given, Start(cmd) PROVE LateInv'
  BY <1>1, <1>7 DEF Start
<1>8. CASE phase \in {"cluster", "validate", "teardown"} /\ UNCHANGED begunLate
  BY <1>2, <1>8 DEF LateInv
<1>9. CASE DeployCluster \/ CleanupCluster \/ AllClustersDone \/ validate
           \/ TeardownStep \/ TeardownReturns
  BY <1>8, <1>9 DEF DeployCluster, CleanupCluster, AllClustersDone, AtCluster, validate,
     TeardownStep, TeardownReturns
<1>10. CASE InstallNext \/ InstallsDone
  <2>1. phase = "install" /\ inFlight = Helm!Idle /\ returned = "none" /\ UNCHANGED begunLate
    BY <1>10 DEF InstallNext, InstallsDone, Installing
  <2>2. QED
    BY <1>2, <2>1 DEF LateInv
<1>11. CASE (\E ns \in Teardown!Spaces : Vanish(ns)) \/ UNCHANGED vars
  BY <1>3, <1>11 DEF Vanish, vars, helmVars, runVars, inFlight, returned
<1>12. CASE Cancel
  <2>1. ~interrupted
    BY <1>12 DEF Cancel, Helm!Cancel, interrupted
  <2>2. QED
    BY <1>2, <1>12, <2>1 DEF Cancel, LateInv
<1>13. CASE Kill
  <2>1. UNCHANGED <<begunLate, cancelled>> /\ phase' = "idle"
    BY <1>13 DEF Kill, Finish, Helm!Kill, helmVars
  <2>2. QED
    BY <1>4, <2>1
<1>14. QED
  BY <1>5, <1>6, <1>7, <1>9, <1>10, <1>11, <1>12, <1>13 DEF Next, RunStep

-----------------------------------------------------------------------------
(* The theorems                                                            *)

(* The initial states satisfy the invariant.                               *)
LEMMA InitEstablishes == Init => IInv
<1> SUFFICES ASSUME Init PROVE IInv
  OBVIOUS
<1>1. TypeOK
  BY TypeInit
<1>2. /\ phase = "idle" /\ cluster = 1 /\ verdict = "none" /\ begunLate = 0
      /\ teardown = "none" /\ taken = {} /\ deleting = {}
      /\ inFlight = Helm!Idle /\ returned = "none"
  BY DEF Init, Processes, inFlight, returned
<1>3. PICK kept \in SUBSET Kept :
        /\ record = [r \in Releases |-> IF r \in kept THEN "uninstalled" ELSE "none"]
        /\ namespace = [s \in Teardown!Spaces |->
                          IF \E r \in kept : Space(r) = s THEN "active" ELSE "absent"]
  BY DEF Init
<1>4. AbsentIsEmpty
  <2>1. \A r \in Releases : objects[r] = {}
    BY DEF Init
  <2>2. \A r \in Releases : record[r] = "none" \/ namespace[Space(r)] = "active"
    BY <1>3, ReleaseShape
  <2>3. QED
    BY <2>1, <2>2 DEF AbsentIsEmpty
<1>5. PlaceInv /\ CallInv /\ ChoiceInv
  BY <1>2 DEF PlaceInv, CallInv, ChoiceInv, Teardown!Idle
<1>6. StepsInv /\ TeardownInv /\ ClustersInv /\ LateInv
  BY <1>2 DEF StepsInv, TeardownInv, ClustersInv, LateInv
<1>7. QED
  BY <1>1, <1>4, <1>5, <1>6 DEF IInv

(* The invariant is inductive: it holds of fresh clusters and of those     *)
(* that have histories somebody kept, and every step of a command, of the  *)
(* server, of a Ctrl-C and of a kill preserves it.                         *)
THEOREM Inductive == Spec => []IInv
<1>1. IInv /\ [Next]_vars => IInv'
  BY TypeStep, AbsentStep, PlaceStep, CallStep, ChoiceStep, StepsStep, TeardownInvStep,
     ClustersStep, LateStep DEF IInv
<1>2. QED
  BY InitEstablishes, <1>1, PTL DEF Spec

(* The variables keep their types: an index never leaves its list, and no  *)
(* call is for a release that is none, whatever clusters are configured    *)
(* and whatever commands are given (selectClusters, Deploy's steps).       *)
THEOREM TypeCorrect == Spec => []TypeOK
<1>1. IInv => TypeOK
  BY DEF IInv
<1>2. QED
  BY <1>1, Inductive, PTL

(* Settled is stronger than what the properties ask.                       *)
LEMMA SettledIsAchieved == ASSUME NEW c, Settled(c) PROVE Achieved(c)
BY DEF Settled, Achieved, Stands

(* For any configuration, commands and faults: when deploy returns nil     *)
(* every release it names is deployed in full on every cluster it selects, *)
(* and when cleanup does, what its level says has been taken down; and     *)
(* that stays so until the next command.                                   *)
THEOREM NilMeansAchieved == Spec => []SuccessMeansAchieved
<1>1. IInv => SuccessMeansAchieved
  BY SettledIsAchieved DEF IInv, ClustersInv, SuccessMeansAchieved
<1>2. QED
  BY <1>1, Inductive, PTL

(* No command goes on to a cluster before it has done what it was to do on *)
(* those before: the loops of runDeploy and runCleanup return at the first *)
(* error.                                                                  *)
THEOREM FailsFast == Spec => []FailFast
<1>1. IInv => FailFast
  BY SettledIsAchieved DEF IInv, ClustersInv, FailFast
<1>2. QED
  BY <1>1, Inductive, PTL

(* Deploy, which does not look at its context, begins at most one Helm     *)
(* operation after a Ctrl-C, however many releases and clusters are left.  *)
THEOREM OneBegunLate == Spec => []AtMostOneBegunLate
<1>1. IInv => AtMostOneBegunLate
  BY DEF IInv, LateInv, AtMostOneBegunLate
<1>2. QED
  BY <1>1, Inductive, PTL

(* Objects are made only by the call in flight, for its release.           *)
LEMMA ObjectsAreMadeByTheCall ==
    ASSUME IInv, [Next]_vars, phase = "install", NEW r \in Releases,
           ~(objects'[r] \subseteq objects[r])
    PROVE  inFlight # Helm!Idle /\ r = inFlight.release
<1> USE TypeParts DEF IInv
<1>1. CASE UNCHANGED objects
  BY <1>1
<1>2. CASE HelmStep
  <2>1. /\ inFlight # Helm!Idle
        /\ (Begins /\ Goes) \/ (Chooses /\ Goes) \/ EndsWell \/ EndsBadly
    BY <1>2, HelmIsInstall
  <2>2. r # inFlight.release => objects'[r] = objects[r]
    BY <2>1 DEF DataTyped, Begins, Chooses, EndsWell, EndsBadly
  <2>3. QED
    BY <2>1, <2>2
<1>3. CASE \E ns \in Teardown!Spaces : Vanish(ns)
  <2>1. objects'[r] \subseteq objects[r]
    BY <1>3 DEF Vanish, Teardown!Vanish
  <2>2. QED
    BY <2>1
<1>4. CASE Kill
  <2>1. CASE inFlight # Helm!Idle /\ Helm!Kill(cli)
    <3>1. inFlight \in ApplyCalls
      BY <2>1, InFlightShape
    <3>2. r # inFlight.release => objects'[r] = objects[r]
      BY <2>1, <3>1 DEF Helm!Kill, inFlight, ApplyCalls, Helm!ApplySteps, DataTyped
    <3>3. QED
      BY <2>1, <3>2
  <2>2. QED
    BY <1>1, <1>4, <2>1 DEF Kill, helmVars
<1>5. CASE InstallNext \/ InstallReturns \/ InstallsDone \/ Cancel \/ UNCHANGED vars
  BY <1>1, <1>5 DEF InstallNext, Helm!Apply, InstallReturns, InstallsDone, Cancel, Helm!Cancel,
     vars, helmVars
<1>6. CASE \/ \E cmd \in Given : Start(cmd)
           \/ DeployCluster \/ CleanupCluster \/ AllClustersDone \/ validate
           \/ TeardownStep \/ TeardownReturns
  BY <1>6 DEF Start, DeployCluster, CleanupCluster, AllClustersDone, AtCluster, validate,
     TeardownStep, TeardownReturns
<1>7. QED
  BY <1>2, <1>3, <1>4, <1>5, <1>6 DEF Next, RunStep

(* For any configuration: Deploy makes no object of a release before every *)
(* release that comes earlier in its list, and has a chart, is deployed in *)
(* full.                                                                   *)
THEOREM InOrder == Spec => PrerequisitesFirst
<1> DEFINE First == \A i, j \in DOMAIN steps : \A c \in Names :
                      (/\ phase = "install"
                       /\ j < i
                       /\ ~(objects'[<<c, steps[i]>>] \subseteq objects[<<c, steps[i]>>])
                       /\ <<c, steps[j]>> \in Wanted(c))
                         => Complete(<<c, steps[j]>>)
<1>1. ASSUME IInv, [Next]_vars PROVE First
  <2>1. SUFFICES ASSUME NEW i \in DOMAIN steps, NEW j \in DOMAIN steps, NEW c \in Names,
                        phase = "install", j < i,
                        ~(objects'[<<c, steps[i]>>] \subseteq objects[<<c, steps[i]>>]),
                        <<c, steps[j]>> \in Wanted(c)
                 PROVE  Complete(<<c, steps[j]>>)
    OBVIOUS
  <2>2. <<c, steps[i]>> \in Releases
    BY ReleaseShape, StepsShape
  <2>3. inFlight # Helm!Idle /\ <<c, steps[i]>> = inFlight.release
    BY <1>1, <2>1, <2>2, ObjectsAreMadeByTheCall
  <2>4. inFlight.release = <<Current, steps[step]>> /\ step \in DOMAIN steps
    BY <1>1, <2>3 DEF IInv, CallInv
  <2>5. c = Current /\ step = i
    BY <2>3, <2>4, StepsShape
  <2>6. req[steps[j]]
    BY <2>1, <2>5 DEF Wanted, req
  <2>7. QED
    BY <1>1, <2>1, <2>5, <2>6 DEF IInv, StepsInv, Stands
<1>2. IInv /\ [Next]_vars => [First]_vars
  BY <1>1
<1>3. QED
  BY <1>2, Inductive, PTL DEF Spec, PrerequisitesFirst

(* A call of Helm that fails without a fault or a Ctrl-C was refused for   *)
(* what an earlier command left in the way: a failed or absent release is  *)
(* taken up by a retry, whatever the configuration.                        *)
THEOREM RetriesAreTakenUp == Spec => RefusedOnlyInTheWay
<1> DEFINE Refusal == inFlight # Helm!Idle /\ returned' = "error" /\ faults' = faults
           Excuse  == \/ interrupted
                      \/ InTheWay(inFlight.release)
                      \/ inFlight.at = "upgrade" /\ record[inFlight.release] = "none"
<1>1. ASSUME IInv, [Next]_vars, ~UNCHANGED vars, Refusal PROVE Excuse
  <2> USE TypeParts DEF IInv
  <2>1. phase = "install" /\ returned = "none" /\ faults \in Nat
    BY <1>1, CommandsAssumption DEF PlaceInv, CallInv
  <2>2. CASE HelmStep
    <3>1. Refused
      BY <1>1, <2>1, <2>2 DEF HelmStep, Fault
    <3>2. inFlight \in ApplyCalls /\ inFlight.release \in Releases
      BY <1>1, InFlightShape DEF ApplyCalls
    <3>3. record[inFlight.release] \in Helm!Statuses
      BY <1>1, <3>2 DEF DataTyped
    <3>4. QED
      BY <1>1, <3>1, <3>2, <3>3 DEF Refused, InTheWay, Forbidden, ChoiceInv, ApplyCalls,
         Helm!ApplySteps, Helm!Statuses, Helm!Pending
  <2>3. CASE Kill
    <3>1. Helm!Return(cli, "killed") /\ "killed" \in Helm!Results
      BY <1>1, <2>1, <2>3 DEF Kill, Helm!Kill, Helm!Results
    <3>2. QED
      BY <1>1, <3>1, ReturnShape
  <2>4. CASE (\E ns \in Teardown!Spaces : Vanish(ns)) \/ Cancel
    BY <1>1, <2>1, <2>4 DEF Vanish, Cancel, Helm!Cancel, returned
  <2>5. CASE InstallNext \/ InstallReturns \/ InstallsDone
    BY <1>1, <2>1, <2>5 DEF InstallNext, InstallReturns, InstallsDone, Installing
  <2>6. CASE \/ \E cmd \in Given : Start(cmd)
             \/ DeployCluster \/ CleanupCluster \/ AllClustersDone \/ validate
             \/ TeardownStep \/ TeardownReturns
    BY <2>1, <2>6 DEF Start, DeployCluster, CleanupCluster, AllClustersDone, AtCluster,
       validate, TeardownStep, TeardownReturns
  <2>7. QED
    BY <1>1, <2>2, <2>3, <2>4, <2>5, <2>6 DEF Next, RunStep
<1>2. IInv /\ [Next]_vars => [Refusal => Excuse]_vars
  BY <1>1
<1>3. QED
  BY <1>2, Inductive, PTL DEF Spec, RefusedOnlyInTheWay
=============================================================================
