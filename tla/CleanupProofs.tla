--------------------------- MODULE CleanupProofs ---------------------------
(***************************************************************************)
(* Theorems about Cleanup, for any namespaces, webhooks and requests, any  *)
(* number of runs and of faults: what a run that returns nil has removed,  *)
(* in which order, what the keep flags spare, and what a Ctrl-C stops.     *)
(***************************************************************************)
EXTENDS Cleanup, TLAPS

-----------------------------------------------------------------------------
(* What the theorems assume of the cluster, where they need it             *)

(* deploy put the hub where the plan looks for it.                         *)
HubIsHome == HubNamespace = "mural-system"

(* The runtime's own namespaces are none of the releases' (cleaner.go:125). *)
RuntimeIsApart == \A r \in Releases : r[2] \notin Ancillary

-----------------------------------------------------------------------------
(* The inductive invariant                                                 *)

(* Nothing is left of a release, or Cleanup can no longer know of it.      *)
Away(r) == objects[r] = {} \/ r \in lost

Deleting(r) == inFlight # Helm!Idle /\ inFlight.release = r /\ inFlight.at = "deleting"

(* What is not on record is away, but for what is just being deleted.      *)
AccountInv ==
    \A r \in Releases : ~Helm!releaseExists(r) /\ ~Deleting(r) => Away(r)

(* The call in flight is for the release at hand, which is not kept.       *)
CallInv ==
    /\ inFlight # Helm!Idle =>
         /\ phase = "uninstall"
         /\ inFlight.op = "uninstall"
         /\ next \in DOMAIN plan
         /\ inFlight.release = plan[next]
         /\ ~Skip(plan[next], req)
         /\ returned = "none"
    /\ phase = "uninstall" /\ returned \in {"ok", "notfound"} =>
         next \in DOMAIN plan /\ ~Helm!releaseExists(plan[next])

(* The releases before the one at hand are not there.                      *)
PlanInv ==
    phase = "uninstall" =>
      \A j \in DOMAIN plan :
        j < next /\ ~Skip(plan[j], req) => ~Helm!releaseExists(plan[j])

Uninstalled ==
    \A j \in DOMAIN plan : ~Skip(plan[j], req) => ~Helm!releaseExists(plan[j])

(* Once Helm is done with, all of them are gone.                           *)
UninstalledInv ==
    /\ phase \in {"list", "drop", "sweep", "hooks"} =>
         req.level # "uninstall" /\ (req.level = "full" => Uninstalled)
    /\ Succeeded({"uninstall", "full"}) => Uninstalled

(* A namespace that is gone took the releases' histories with it.          *)
GoneInv ==
    \A r \in Releases :
      r[2] \in gone => record[r] = "none" /\ "namespaced" \notin objects[r]

(* What every run that deletes namespaces deletes, and the most it does.   *)
DropInv ==
    /\ \A ns \in Namespaces : outcome[ns] = "ok" => ns \in gone
    /\ phase = "drop" =>
         namespacesFor(req, {}) \subseteq list /\ list \subseteq namespacesFor(req, Labelled)
    /\ phase \in {"sweep", "hooks"} \/ Succeeded({"full", "reset"}) =>
         namespacesFor(req, {}) \subseteq gone

(* The stale webhooks that are still there are those still to be deleted.  *)
HooksInv ==
    /\ phase = "hooks" => StaleHooks \cap hooks \subseteq sweep
    /\ Succeeded({"full", "reset"}) => StaleHooks \cap hooks = {}

IInv == TypeOK /\ AccountInv /\ CallInv /\ PlanInv /\ UninstalledInv

NInv == TypeOK /\ CallInv /\ GoneInv /\ DropInv /\ HooksInv

-----------------------------------------------------------------------------
(* The data                                                                *)

(* The plan is the hub, its CRDs, the queue and cert-manager.              *)
LEMMA PlanShape ==
    /\ DOMAIN plan = 1 .. 4 /\ Len(plan) = 4
    /\ \A i \in 1 .. 4 : plan[i] \in Releases /\ plan[i][2] \in Namespaces
    /\ plan[1] = mural /\ plan[2] = muralCRDs /\ plan[3] = queue /\ plan[4] = certManager
<1>1. DOMAIN plan = 1 .. 4 /\ Len(plan) = 4
  BY DEF plan
<1>2. \A i \in 1 .. 4 : plan[i] \in Releases
  BY <1>1 DEF Releases
<1>3. QED
  BY <1>1, <1>2 DEF Namespaces, plan

(* A kept release is the queue or cert-manager.                            *)
LEMMA SkipShape ==
    ASSUME NEW r, NEW request, Skip(r, request)
    PROVE  r \in {queue, certManager} /\ r \notin {mural, muralCRDs}
BY DEF Skip, queue, certManager, mural, muralCRDs

(* The namespaces of a run are the cluster's.                              *)
LEMMA NamespacesShape ==
    ASSUME NEW request, NEW discovered \in SUBSET Labelled
    PROVE  /\ namespacesFor(request, discovered) \subseteq Namespaces
           /\ namespacesFor(request, {}) \subseteq namespacesFor(request, discovered)
           /\ namespacesFor(request, discovered) \subseteq namespacesFor(request, Labelled)
BY PlanShape DEF namespacesFor, Namespaces

-----------------------------------------------------------------------------
(* A step of a call of Helm                                                *)

UninstallCalls ==
    [op : {"uninstall"}, release : Releases, at : Helm!UninstallSteps, hooks : BOOLEAN]

(* Cleanup makes no call of Helm but Uninstall.                            *)
LEMMA InFlightShape ==
    ASSUME TypeOK, CallInv, inFlight # Helm!Idle
    PROVE  inFlight \in UninstallCalls
<1>1. inFlight \in Helm!Calls /\ inFlight.op = "uninstall"
  BY DEF TypeOK, Helm!TypeOK, CallInv, Processes, inFlight
<1>2. QED
  BY <1>1 DEF Helm!Calls, UninstallCalls

(* A step of a call goes on with the same release.                         *)
LEMMA StepShape ==
    ASSUME TypeOK, inFlight \in UninstallCalls, NEW s \in Helm!UninstallSteps,
           Helm!Step(cli, s)
    PROVE  /\ call' \in [Processes -> Helm!Calls \cup {Helm!Idle}]
           /\ result' \in [Processes -> Helm!Results]
           /\ inFlight' \in UninstallCalls
           /\ inFlight'.at = s /\ inFlight'.release = inFlight.release
           /\ returned' = returned
<1>1. call' = [call EXCEPT ![cli] = [inFlight EXCEPT !.at = s]] /\ result' = result
  BY DEF Helm!Step, inFlight
<1>2. [inFlight EXCEPT !.at = s] \in UninstallCalls
  BY DEF UninstallCalls
<1>3. UninstallCalls \subseteq Helm!Calls
  BY DEF UninstallCalls, Helm!Calls
<1>4. cli \in Processes /\ call \in [Processes -> Helm!Calls \cup {Helm!Idle}]
  BY DEF Processes, TypeOK, Helm!TypeOK
<1>5. inFlight' = [inFlight EXCEPT !.at = s]
  BY <1>1, <1>4 DEF inFlight
<1>6. result' \in [Processes -> Helm!Results] /\ returned' = returned
  BY <1>1 DEF TypeOK, Helm!TypeOK, returned
<1>7. call' \in [Processes -> Helm!Calls \cup {Helm!Idle}]
  BY <1>1, <1>2, <1>3, <1>4
<1>8. inFlight'.at = s /\ inFlight'.release = inFlight.release
  BY <1>5 DEF UninstallCalls
<1>9. QED
  BY <1>2, <1>5, <1>6, <1>7, <1>8

(* A return leaves no call in flight, and its result.                      *)
LEMMA ReturnShape ==
    ASSUME TypeOK, NEW res \in Helm!Results, Helm!Return(cli, res)
    PROVE  /\ call' \in [Processes -> Helm!Calls \cup {Helm!Idle}]
           /\ result' \in [Processes -> Helm!Results]
           /\ inFlight' = Helm!Idle /\ returned' = res
BY DEF TypeOK, Helm!TypeOK, Helm!Return, Processes, inFlight, returned

(* No call is Idle.                                                        *)
LEMMA IdleIsNoCall == Helm!Idle \notin UninstallCalls
BY DEF UninstallCalls, Helm!Idle

(* What a step of a call may do, of the release it is for.                 *)
Goes == inFlight' \in UninstallCalls /\ inFlight'.release = inFlight.release /\ returned' = returned

FindsIt ==
    /\ inFlight.at = "query" /\ Goes
    /\ inFlight'.at = "uninstall" /\ Helm!releaseExists(inFlight.release)
    /\ UNCHANGED <<record, objects>>

HandsOver ==
    /\ inFlight.at = "uninstall" /\ Goes
    /\ inFlight'.at = "marking" /\ ~interrupted
    /\ UNCHANGED <<record, objects>>

Begins ==
    /\ inFlight.at = "marking" /\ Goes
    /\ inFlight'.at = "deleting"
    /\ record[inFlight.release] # "none"
    /\ record' = [record EXCEPT ![inFlight.release] = "uninstalling"]
    /\ objects' = objects

GivesUp ==
    /\ inFlight' = Helm!Idle /\ inFlight.at # "deleting"
    /\ \/ returned' \in {"error", "cancelled"}
       \/ /\ returned' = "notfound" /\ inFlight.at = "query"
          /\ ~Helm!releaseExists(inFlight.release)
    /\ UNCHANGED <<record, objects>>

Deletes ==
    /\ inFlight' = Helm!Idle /\ inFlight.at = "deleting" /\ returned' \in {"ok", "error"}
    /\ objects' = [objects EXCEPT ![inFlight.release] = {}]
    /\ record' = [record EXCEPT ![inFlight.release] = "none"]

DeletesInPart ==
    /\ inFlight' = Helm!Idle /\ inFlight.at = "deleting" /\ returned' = "error"
    /\ \E left \in SUBSET objects[inFlight.release] :
         objects' = [objects EXCEPT ![inFlight.release] = left]
    /\ UNCHANGED record

(* Every step of Helm does one of these.                                   *)
LEMMA HelmShape ==
    ASSUME TypeOK, CallInv, Helm!Running(cli)
    PROVE  /\ inFlight # Helm!Idle
           /\ call' \in [Processes -> Helm!Calls \cup {Helm!Idle}]
           /\ result' \in [Processes -> Helm!Results]
           /\ cancelled' = cancelled
           /\ FindsIt \/ HandsOver \/ Begins \/ GivesUp \/ Deletes \/ DeletesInPart
<1>1. inFlight # Helm!Idle
  BY DEF Helm!Running, Helm!ApplyQuery, Helm!runInstall, Helm!runUpgrade, Helm!HelmApplies,
     Helm!UninstallQuery, Helm!UninstallRun, Helm!HelmMarks, Helm!HelmDeletes, Helm!At,
     Helm!Idle, inFlight
<1>2. inFlight \in UninstallCalls /\ inFlight.op = "uninstall"
  BY <1>1, InFlightShape DEF UninstallCalls
<1>3. {"uninstall", "marking", "deleting"} \subseteq Helm!UninstallSteps
      /\ {"error", "ok", "notfound", "cancelled"} \subseteq Helm!Results
  BY DEF Helm!UninstallSteps, Helm!Results
<1>4. CASE Helm!UninstallQuery(cli)
  <2>1. inFlight.at = "query" /\ UNCHANGED <<record, objects, cancelled>>
    BY <1>4 DEF Helm!UninstallQuery, Helm!At, inFlight
  <2>2. \/ Helm!Step(cli, "uninstall") /\ Helm!releaseExists(inFlight.release)
        \/ Helm!Return(cli, "notfound") /\ ~Helm!releaseExists(inFlight.release)
        \/ Helm!Return(cli, "error")
    BY <1>4 DEF Helm!UninstallQuery, inFlight
  <2>3. QED
    BY <1>1, <1>2, <1>3, <2>1, <2>2, StepShape, ReturnShape DEF FindsIt, GivesUp, Goes
<1>5. CASE Helm!UninstallRun(cli)
  <2>1. inFlight.at = "uninstall" /\ UNCHANGED <<record, objects, cancelled>>
    BY <1>5 DEF Helm!UninstallRun, Helm!At, inFlight
  <2>2. Helm!Return(cli, "cancelled") \/ (~interrupted /\ Helm!Step(cli, "marking"))
    BY <1>5 DEF Helm!UninstallRun, interrupted
  <2>3. QED
    BY <1>1, <1>2, <1>3, <2>1, <2>2, StepShape, ReturnShape DEF HandsOver, GivesUp, Goes
<1>6. CASE Helm!HelmMarks(cli)
  <2>1. inFlight.at = "marking" /\ UNCHANGED <<objects, cancelled>>
    BY <1>6 DEF Helm!HelmMarks, Helm!At, inFlight
  <2>2. \/ Helm!Return(cli, "error") /\ UNCHANGED record
        \/ /\ record[inFlight.release] # "none"
           /\ record' = [record EXCEPT ![inFlight.release] = "uninstalling"]
           /\ Helm!Step(cli, "deleting")
    BY <1>6 DEF Helm!HelmMarks, Helm!Write, inFlight
  <2>3. QED
    BY <1>1, <1>2, <1>3, <2>1, <2>2, StepShape, ReturnShape DEF Begins, GivesUp, Goes
<1>7. CASE Helm!HelmDeletes(cli)
  <2>1. inFlight.at = "deleting" /\ UNCHANGED cancelled
    BY <1>7 DEF Helm!HelmDeletes, Helm!At, inFlight
  <2>2. \/ /\ objects' = [objects EXCEPT ![inFlight.release] = {}]
           /\ record' = [record EXCEPT ![inFlight.release] = "none"]
           /\ \E res \in {"ok", "error"} : Helm!Return(cli, res)
        \/ /\ \E left \in SUBSET objects[inFlight.release] :
                objects' = [objects EXCEPT ![inFlight.release] = left]
           /\ Helm!Return(cli, "error")
           /\ UNCHANGED record
    BY <1>7 DEF Helm!HelmDeletes, Helm!Write, inFlight
  <2>3. QED
    BY <1>1, <1>2, <1>3, <2>1, <2>2, ReturnShape DEF Deletes, DeletesInPart
<1>8. CASE Helm!ApplyQuery(cli) \/ Helm!runInstall(cli) \/ Helm!runUpgrade(cli)
           \/ Helm!HelmApplies(cli)
  <2>1. inFlight.op = "apply"
    BY <1>8 DEF Helm!ApplyQuery, Helm!runInstall, Helm!runUpgrade, Helm!HelmApplies, Helm!At,
       inFlight
  <2>2. QED
    BY <1>2, <2>1
<1>9. QED
  BY <1>4, <1>5, <1>6, <1>7, <1>8 DEF Helm!Running

(* A kill ends the call, and may leave a deletion half done.               *)
LEMMA KillShape ==
    ASSUME TypeOK, CallInv, inFlight # Helm!Idle, Helm!Kill(cli)
    PROVE  /\ call' \in [Processes -> Helm!Calls \cup {Helm!Idle}]
           /\ result' \in [Processes -> Helm!Results]
           /\ inFlight' = Helm!Idle /\ returned' = "killed"
           /\ UNCHANGED <<record, cancelled>>
           /\ \/ UNCHANGED objects /\ inFlight.at # "deleting"
              \/ /\ inFlight.at = "deleting"
                 /\ \E left \in SUBSET objects[inFlight.release] :
                      objects' = [objects EXCEPT ![inFlight.release] = left]
<1>1. inFlight \in UninstallCalls
  BY InFlightShape
<1>2. Helm!Return(cli, "killed") /\ "killed" \in Helm!Results
  BY DEF Helm!Kill, Helm!Results
<1>3. inFlight.at \notin {"installing", "upgrading"}
  BY <1>1 DEF UninstallCalls, Helm!UninstallSteps
<1>4. QED
  BY <1>2, <1>3, ReturnShape DEF Helm!Kill, inFlight

-----------------------------------------------------------------------------
(* Types                                                                   *)

(* TypeOK by what it is about.                                             *)
ClusterTyped ==
    /\ record \in [Releases -> Helm!Statuses]
    /\ objects \in [Releases -> SUBSET Kinds]
    /\ lost \subseteq Releases
    /\ doomed \subseteq Namespaces
    /\ gone \subseteq Namespaces

CallTyped ==
    /\ call \in [Processes -> Helm!Calls \cup {Helm!Idle}]
    /\ result \in [Processes -> Helm!Results]
    /\ cancelled \in [Processes -> BOOLEAN]

RunTyped ==
    /\ phase \in {"idle", "uninstall", "list", "drop", "sweep", "hooks"}
    /\ req \in Requests
    /\ next \in 1 .. Len(plan) + 1
    /\ verdict \in {"none", "ok", "error", "killed"}
    /\ list \subseteq Namespaces
    /\ outcome \in [Namespaces -> {"pending", "ok", "failed"}]
    /\ hooks \subseteq StaleHooks \cup LabelledHooks
    /\ sweep \subseteq StaleHooks \cup LabelledHooks
    /\ sent \subseteq Namespaces \cup StaleHooks \cup LabelledHooks
    /\ faults \in 0 .. MaxFaults

LEMMA TypeParts == TypeOK <=> ClusterTyped /\ CallTyped /\ RunTyped
BY DEF TypeOK, Helm!TypeOK, ClusterTyped, CallTyped, RunTyped

(* The same of the state after a step.                                     *)
LEMMA TypeAgain ==
    ASSUME ClusterTyped', CallTyped', RunTyped' PROVE TypeOK'
BY DEF TypeOK, Helm!TypeOK, ClusterTyped, CallTyped, RunTyped

(* Faults are counted up to their bound.                                   *)
LEMMA FaultTyped ==
    ASSUME TypeOK, Fault \/ CallFails \/ UNCHANGED faults
    PROVE  faults' \in 0 .. MaxFaults
BY CleanupAssumption DEF TypeOK, Fault, CallFails

(* The initial states are well typed.                                      *)
LEMMA TypeInit == Init => TypeOK
<1> SUFFICES ASSUME Init PROVE TypeOK
  OBVIOUS
<1>1. ClusterTyped
  BY CleanupAssumption DEF Init, ClusterTyped, Helm!Statuses, Helm!Pending, Namespaces
<1>2. CallTyped
  BY DEF Init, CallTyped, Helm!Results
<1>3. RunTyped
  BY PlanShape, CleanupAssumption DEF Init, RunTyped
<1>4. QED
  BY <1>1, <1>2, <1>3, TypeParts

(* The end of a run keeps the types, whatever it returns.                  *)
LEMMA FinishTyped ==
    ASSUME TypeOK, NEW v \in {"ok", "error", "killed"}, Finish(v)
    PROVE  /\ phase' = "idle" /\ req' \in Requests
           /\ next' \in 1 .. Len(plan) + 1 /\ verdict' \in {"ok", "error", "killed"}
BY PlanShape DEF TypeOK, Finish

(* So does a step of Helm, or a kill within it.                            *)
LEMMA HelmTyped ==
    ASSUME TypeOK, CallInv, CutShort, UNCHANGED <<doomed, gone>>,
           Helm!Running(cli) \/ (inFlight # Helm!Idle /\ Helm!Kill(cli))
    PROVE  ClusterTyped' /\ CallTyped'
<1>1. ClusterTyped /\ CallTyped
  BY TypeParts
<1>2. /\ inFlight # Helm!Idle
      /\ call' \in [Processes -> Helm!Calls \cup {Helm!Idle}]
      /\ result' \in [Processes -> Helm!Results]
      /\ cancelled' = cancelled
      /\ \/ UNCHANGED record
         \/ \E s \in {"uninstalling", "none"} :
              record' = [record EXCEPT ![inFlight.release] = s]
      /\ \/ UNCHANGED objects
         \/ \E left \in SUBSET objects[inFlight.release] :
              objects' = [objects EXCEPT ![inFlight.release] = left]
  BY HelmShape, KillShape DEF FindsIt, HandsOver, Begins, GivesUp, Deletes, DeletesInPart
<1>3. inFlight.release \in Releases
  BY <1>2, InFlightShape DEF UninstallCalls
<1>4. objects' \in [Releases -> SUBSET Kinds]
  BY <1>1, <1>2, <1>3 DEF ClusterTyped
<1>5. record' \in [Releases -> Helm!Statuses]
  BY <1>1, <1>2, <1>3 DEF ClusterTyped, Helm!Statuses
<1>6. lost' \subseteq Releases
  BY <1>1, <1>3 DEF ClusterTyped, CutShort
<1>7. QED
  BY <1>1, <1>2, <1>4, <1>5, <1>6 DEF ClusterTyped, CallTyped

(* Every step keeps the types.                                             *)
LEMMA TypeStep == ASSUME TypeOK, CallInv, [Next]_vars PROVE TypeOK'
<1> USE TypeParts, TypeAgain
<1>1. ASSUME UNCHANGED <<record, objects, lost, doomed, gone>> PROVE ClusterTyped'
  BY <1>1 DEF ClusterTyped
<1>2. ASSUME UNCHANGED <<call, result, cancelled>> PROVE CallTyped'
  BY <1>2 DEF CallTyped
<1>3. ASSUME UNCHANGED runVars \/ \E v \in {"ok", "error", "killed"} : Finish(v),
             UNCHANGED <<list, outcome>> \/ NoDrop,
             hooks' \subseteq hooks, sweep' \subseteq StaleHooks \cup LabelledHooks,
             sent' \subseteq sent \/ NoDrop,
             Fault \/ CallFails \/ UNCHANGED faults
      PROVE  RunTyped'
  <2>1. list' \subseteq Namespaces /\ outcome' \in [Namespaces -> {"pending", "ok", "failed"}]
    BY <1>3 DEF RunTyped, NoDrop
  <2>2. /\ phase' \in {"idle", "uninstall", "list", "drop", "sweep", "hooks"}
        /\ req' \in Requests /\ next' \in 1 .. Len(plan) + 1
        /\ verdict' \in {"none", "ok", "error", "killed"}
    BY <1>3, FinishTyped DEF RunTyped, runVars
  <2>3. sent' \subseteq Namespaces \cup StaleHooks \cup LabelledHooks
    BY <1>3 DEF RunTyped, NoDrop
  <2>4. QED
    BY <1>3, <2>1, <2>2, <2>3, FaultTyped DEF RunTyped
<1>4. ASSUME NEW request \in Requests, Start(request) PROVE TypeOK'
  <2>1. ClusterTyped'
    BY <1>1, <1>4 DEF Start, dropVars
  <2>2. CallTyped'
    BY <1>4 DEF Start, CallTyped, Helm!Results
  <2>3. RunTyped'
    BY <1>4, PlanShape, FaultTyped DEF Start, RunTyped, dropVars, hookVars
  <2>4. QED
    BY <2>1, <2>2, <2>3
<1>5. CASE UninstallNext
  <2>1. PICK i \in DOMAIN plan :
          /\ next = i /\ UNCHANGED <<dropVars, hookVars, doomed, sent, faults>>
          /\ inFlight = Helm!Idle
          /\ \/ Finish("error") /\ UNCHANGED helmVars
             \/ next' = i + 1 /\ UNCHANGED <<phase, req, verdict, helmVars>>
             \/ /\ Helm!Uninstall(cli, plan[i], RunsHooks(plan[i]))
                /\ UNCHANGED <<runVars, lost>>
    BY <1>5 DEF UninstallNext, Uninstalling
  <2>2. ClusterTyped'
    BY <1>1, <2>1 DEF helmVars, dropVars, Helm!Uninstall
  <2>3. RunTyped'
    <3>1. CASE next' = i + 1 /\ UNCHANGED <<phase, req, verdict>>
      BY <2>1, <3>1, PlanShape DEF RunTyped, dropVars, hookVars
    <3>2. CASE Finish("error") \/ UNCHANGED runVars
      BY <1>3, <2>1, <3>2 DEF RunTyped, dropVars, hookVars
    <3>3. QED
      BY <2>1, <3>1, <3>2
  <2>4. CallTyped'
    <3>1. CASE UNCHANGED helmVars
      BY <1>2, <3>1 DEF helmVars
    <3>2. CASE Helm!Uninstall(cli, plan[i], RunsHooks(plan[i]))
      <4>1. [op |-> "uninstall", release |-> plan[i], at |-> "query",
             hooks |-> RunsHooks(plan[i])] \in Helm!Calls
        BY PlanShape DEF RunsHooks, Helm!Calls, Helm!UninstallSteps
      <4>2. QED
        BY <3>2, <4>1 DEF Helm!Uninstall, CallTyped, Helm!Results
    <3>3. QED
      BY <2>1, <3>1, <3>2
  <2>5. QED
    BY <2>2, <2>3, <2>4
<1>6. CASE HelmStep
  <2>1. RunTyped'
    BY <1>3, <1>6 DEF HelmStep, RunTyped, dropVars, hookVars
  <2>2. QED
    BY <1>6, <2>1, HelmTyped DEF HelmStep, dropVars
<1>7. CASE UninstallReturns
  <2>1. ClusterTyped'
    BY <1>1, <1>7 DEF UninstallReturns, dropVars
  <2>2. CallTyped'
    BY <1>7 DEF UninstallReturns, CallTyped, Helm!Results
  <2>3. RunTyped'
    <3>1. CASE Finish("error")
      BY <1>3, <1>7, <3>1 DEF UninstallReturns, RunTyped, dropVars, hookVars
    <3>2. CASE /\ phase = "uninstall" /\ returned \in {"ok", "notfound"}
               /\ next' = next + 1 /\ UNCHANGED <<phase, req, verdict>>
      <4>1. next \in DOMAIN plan
        BY <3>2 DEF CallInv
      <4>2. QED
        BY <1>7, <3>2, <4>1, PlanShape DEF UninstallReturns, RunTyped, dropVars, hookVars
    <3>3. QED
      BY <1>7, <3>1, <3>2 DEF UninstallReturns
  <2>4. QED
    BY <2>1, <2>2, <2>3
<1>8. CASE UninstallsDone
  <2>1. ClusterTyped' /\ CallTyped'
    BY <1>1, <1>2, <1>8 DEF UninstallsDone, helmVars, dropVars
  <2>2. CASE Finish("ok")
    BY <1>3, <1>8, <2>1, <2>2 DEF UninstallsDone, RunTyped, dropVars, hookVars
  <2>3. CASE Goto("list")
    BY <1>8, <2>1, <2>3 DEF UninstallsDone, Goto, RunTyped, dropVars, hookVars
  <2>4. QED
    BY <1>8, <2>2, <2>3 DEF UninstallsDone
<1>9. CASE ListNamespaces
  <2>1. ClusterTyped' /\ CallTyped'
    BY <1>1, <1>2, <1>9 DEF ListNamespaces, helmVars, dropVars
  <2>2. CASE Fault /\ Finish("error") /\ UNCHANGED dropVars
    BY <1>3, <1>9, <2>1, <2>2 DEF ListNamespaces, RunTyped, dropVars, hookVars
  <2>3. CASE ~UNCHANGED dropVars \/ phase' = "drop"
    <3>1. /\ \E discovered \in SUBSET Labelled : list' = namespacesFor(req, discovered)
          /\ outcome' = [ns \in Namespaces |-> "pending"]
          /\ next' = 1 /\ phase' = "drop" /\ UNCHANGED <<req, verdict, hookVars, sent>>
          /\ CallFails \/ UNCHANGED faults
      BY <1>9, <2>3 DEF ListNamespaces, Finish
    <3>2. list' \subseteq Namespaces
      BY <3>1, NamespacesShape
    <3>3. RunTyped'
      BY <3>1, <3>2, PlanShape, FaultTyped DEF RunTyped, hookVars
    <3>4. QED
      BY <2>1, <3>3
  <2>4. QED
    BY <1>9, <2>2, <2>3 DEF ListNamespaces
<1>10. CASE \E ns \in Namespaces : Delete(ns) \/ DropEnds(ns)
  <2>1. PICK ns \in Namespaces : Delete(ns) \/ DropEnds(ns)
    BY <1>10
  <2>2. ClusterTyped' /\ CallTyped'
    BY <1>1, <1>2, <2>1 DEF Delete, DropEnds, Drop!Dropped, Drop!Failed, ClusterTyped, helmVars,
       dropVars
  <2>3. RunTyped'
    BY <2>1, FaultTyped DEF Delete, DropEnds, Drop!Dropped, Drop!Failed, RunTyped, dropVars,
       hookVars, runVars
  <2>4. QED
    BY <2>2, <2>3
<1>11. CASE DropReturns
  <2>1. ClusterTyped' /\ CallTyped'
    BY <1>1, <1>2, <1>11 DEF DropReturns, NoDrop, helmVars
  <2>2. CASE Finish("error")
    BY <1>3, <1>11, <2>1, <2>2 DEF DropReturns, RunTyped, hookVars
  <2>3. CASE Goto("sweep")
    BY <1>11, <2>1, <2>3 DEF DropReturns, Goto, NoDrop, RunTyped, hookVars
  <2>4. QED
    BY <1>11, <2>2, <2>3 DEF DropReturns
<1>12. CASE ListHooks
  <2>1. ClusterTyped' /\ CallTyped'
    BY <1>1, <1>2, <1>12 DEF ListHooks, helmVars, dropVars
  <2>2. RunTyped'
    BY <1>12, FaultTyped DEF ListHooks, Goto, RunTyped, dropVars
  <2>3. QED
    BY <2>1, <2>2
<1>13. CASE ClearHook \/ HooksDone
  <2>1. ClusterTyped' /\ CallTyped'
    BY <1>1, <1>2, <1>13 DEF ClearHook, HooksDone, helmVars, dropVars
  <2>2. RunTyped'
    BY <1>3, <1>13 DEF ClearHook, HooksDone, RunTyped, dropVars, hookVars
  <2>3. QED
    BY <2>1, <2>2
<1>14. CASE \E ns \in Namespaces : Vanish(ns)
  <2>1. PICK ns \in Namespaces : Vanish(ns)
    BY <1>14
  <2>2. ClusterTyped'
    BY <2>1 DEF Vanish, Drop!Vanish, ClusterTyped, Helm!Statuses
  <2>3. CallTyped' /\ RunTyped'
    BY <1>2, <1>3, <2>1 DEF Vanish, Drop!Vanish, RunTyped, hookVars
  <2>4. QED
    BY <2>2, <2>3
<1>15. CASE Cancel
  <2>1. ClusterTyped'
    BY <1>1, <1>15 DEF Cancel, Helm!Cancel, dropVars
  <2>2. CallTyped'
    BY <1>15 DEF Cancel, Helm!Cancel, CallTyped
  <2>3. RunTyped'
    <3>1. sent' \subseteq Namespaces \cup StaleHooks \cup LabelledHooks
      BY <1>15 DEF Cancel, Unanswered, RunTyped
    <3>2. QED
      BY <1>15, <3>1, FaultTyped DEF Cancel, RunTyped, runVars, dropVars, hookVars
  <2>4. QED
    BY <2>1, <2>2, <2>3
<1>16. CASE Kill
  <2>1. RunTyped'
    BY <1>3, <1>16 DEF Kill
  <2>2. CASE inFlight # Helm!Idle
    BY <1>16, <2>1, <2>2, HelmTyped DEF Kill, NoDrop
  <2>3. CASE inFlight = Helm!Idle
    BY <1>1, <1>2, <1>16, <2>1, <2>3 DEF Kill, NoDrop, helmVars
  <2>4. QED
    BY <2>2, <2>3
<1>17. CASE UNCHANGED vars
  BY <1>1, <1>2, <1>3, <1>17 DEF vars, helmVars, dropVars, hookVars, RunTyped
<1>18. QED
  BY <1>4, <1>5, <1>6, <1>7, <1>8, <1>9, <1>10, <1>11, <1>12, <1>13, <1>14, <1>15, <1>16,
     <1>17 DEF Next, RunStep

-----------------------------------------------------------------------------
(* Releases only go                                                        *)

(* Who changes histories, objects or the call.                             *)
LEMMA Quiet ==
    ASSUME TypeOK, CallInv, [Next]_vars
    PROVE  \/ UNCHANGED <<record, objects, lost, call>>
           \/ HelmStep
           \/ Kill /\ inFlight # Helm!Idle /\ Helm!Kill(cli) /\ CutShort
           \/ \E ns \in Namespaces : Vanish(ns)
           \/ /\ inFlight = Helm!Idle /\ inFlight'.at = "query"
              /\ UNCHANGED <<record, objects, lost>>
<1>1. CASE UninstallNext
  <2>1. PICK i \in DOMAIN plan :
          \/ UNCHANGED helmVars
          \/ /\ inFlight = Helm!Idle /\ UNCHANGED lost
             /\ Helm!Uninstall(cli, plan[i], RunsHooks(plan[i]))
    BY <1>1 DEF UninstallNext, Uninstalling
  <2>2. CASE Helm!Uninstall(cli, plan[i], RunsHooks(plan[i])) /\ UNCHANGED lost
    <3>1. UNCHANGED <<record, objects>> /\ (UNCHANGED call \/ inFlight'.at = "query")
      BY <2>2, TypeParts DEF Helm!Uninstall, CallTyped, Processes, inFlight
    <3>2. QED
      BY <2>1, <2>2, <3>1 DEF helmVars
  <2>3. QED
    BY <2>1, <2>2 DEF helmVars
<1>2. CASE Kill
  BY <1>2 DEF Kill, helmVars
<1>3. ASSUME NEW request \in Requests, Start(request)
      PROVE  UNCHANGED <<record, objects, lost, call>>
  BY <1>3 DEF Start
<1>4. CASE UninstallReturns \/ UninstallsDone \/ ListNamespaces \/ DropReturns \/ ListHooks
           \/ ClearHook \/ HooksDone \/ Cancel \/ UNCHANGED vars
           \/ \E ns \in Namespaces : Delete(ns) \/ DropEnds(ns)
  BY <1>4 DEF UninstallReturns, UninstallsDone, ListNamespaces, DropReturns, ListHooks,
     ClearHook, HooksDone, Cancel, Helm!Cancel, Delete, DropEnds, vars, helmVars
<1>5. QED
  BY <1>1, <1>2, <1>3, <1>4 DEF Next, RunStep

(* No step brings a release or an object back.                             *)
LEMMA OnlyRemoves ==
    ASSUME TypeOK, CallInv, [Next]_vars
    PROVE  /\ \A r \in Releases : /\ record'[r] \in {record[r], "none", "uninstalling"}
                                  /\ record[r] = "none" => record'[r] = "none"
                                  /\ objects'[r] \subseteq objects[r]
           /\ lost \subseteq lost'
<1>1. CASE UNCHANGED <<record, objects, lost>>
  BY <1>1
<1>2. CASE HelmStep \/ (inFlight # Helm!Idle /\ Helm!Kill(cli) /\ CutShort)
  <2>1. /\ \/ UNCHANGED record
           \/ record' = [record EXCEPT ![inFlight.release] = "none"]
           \/ /\ record' = [record EXCEPT ![inFlight.release] = "uninstalling"]
              /\ record[inFlight.release] # "none"
        /\ \/ UNCHANGED objects
           \/ \E left \in SUBSET objects[inFlight.release] :
                objects' = [objects EXCEPT ![inFlight.release] = left]
    BY <1>2, HelmShape, KillShape
       DEF HelmStep, FindsIt, HandsOver, Begins, GivesUp, Deletes, DeletesInPart
  <2>2. lost \subseteq lost'
    BY <1>2 DEF HelmStep, CutShort
  <2>3. QED
    BY <2>1, <2>2, TypeParts DEF ClusterTyped
<1>3. CASE \E ns \in Namespaces : Vanish(ns)
  BY <1>3 DEF Vanish
<1>4. QED
  BY <1>1, <1>2, <1>3, Quiet

(* So what is not on record, and what is away, stays so.                   *)
LEMMA StaysAway ==
    ASSUME TypeOK, CallInv, [Next]_vars, NEW r \in Releases
    PROVE  /\ ~Helm!releaseExists(r) => ~Helm!releaseExists(r)'
           /\ Away(r) => Away(r)'
BY OnlyRemoves DEF Helm!releaseExists, Away

(* Every step keeps the account: what was cut short is in lost.            *)
LEMMA AccountStep ==
    ASSUME TypeOK, CallInv, AccountInv, [Next]_vars PROVE AccountInv'
<1> SUFFICES ASSUME NEW r \in Releases, ~Helm!releaseExists(r)', ~Deleting(r)'
             PROVE  Away(r)'
  BY DEF AccountInv
<1>1. CASE Away(r)
  BY <1>1, StaysAway
<1>2. CASE ~Away(r)
  <2>1. Helm!releaseExists(r) \/ Deleting(r)
    BY <1>2 DEF AccountInv
  <2>2. CASE UNCHANGED <<record, call>>
    BY <2>1, <2>2 DEF Helm!releaseExists, Deleting, inFlight
  <2>3. CASE HelmStep \/ (inFlight # Helm!Idle /\ Helm!Kill(cli) /\ CutShort)
    <3>1. /\ inFlight # Helm!Idle /\ inFlight \in UninstallCalls
          /\ \/ FindsIt \/ HandsOver \/ Begins \/ GivesUp \/ Deletes \/ DeletesInPart
             \/ /\ UNCHANGED record
                /\ (UNCHANGED objects /\ inFlight.at # "deleting") \/ inFlight.at = "deleting"
      BY <2>3, HelmShape, KillShape, InFlightShape DEF HelmStep
    <3>2. inFlight.release \in Releases /\ CutShort
      BY <2>3, <3>1 DEF UninstallCalls, HelmStep
    <3>3. CASE r = inFlight.release
      <4>1. CASE inFlight.at = "deleting"
        BY <3>2, <3>3, <4>1 DEF CutShort, Away
      <4>2. CASE Begins
        BY <3>3, <4>2, IdleIsNoCall DEF Begins, Goes, Deleting
      <4>3. CASE inFlight.at # "deleting" /\ ~Begins
        <5>1. UNCHANGED record
          BY <3>1, <4>3 DEF FindsIt, HandsOver, GivesUp, Deletes, DeletesInPart
        <5>2. QED
          BY <2>1, <4>3, <5>1 DEF Helm!releaseExists, Deleting
      <4>4. QED
        BY <4>1, <4>2, <4>3
    <3>4. CASE r # inFlight.release
      <4>1. record'[r] = record[r]
        BY <3>1, <3>2, <3>4, TypeParts
           DEF FindsIt, HandsOver, Begins, GivesUp, Deletes, DeletesInPart, ClusterTyped
      <4>2. QED
        BY <2>1, <3>4, <4>1 DEF Helm!releaseExists, Deleting
    <3>5. QED
      BY <3>3, <3>4
  <2>4. CASE \E ns \in Namespaces : Vanish(ns)
    <3>1. PICK ns \in Namespaces : Vanish(ns)
      BY <2>4
    <3>2. CASE r[2] = ns
      BY <3>1, <3>2 DEF Vanish, Away
    <3>3. CASE r[2] # ns
      BY <2>1, <3>1, <3>3 DEF Vanish, Helm!releaseExists, Deleting, inFlight
    <3>4. QED
      BY <3>2, <3>3
  <2>5. CASE inFlight = Helm!Idle /\ UNCHANGED record
    BY <2>1, <2>5 DEF Helm!releaseExists, Deleting
  <2>6. QED
    BY <2>2, <2>3, <2>4, <2>5, Quiet
<1>3. QED
  BY <1>1, <1>2

-----------------------------------------------------------------------------
(* The run                                                                 *)

Starts ==
    /\ phase = "idle" /\ next' = 1
    /\ \/ phase' = "uninstall" /\ verdict' = "none"
       \/ phase' = "list" /\ verdict' = "none" /\ req'.level = "reset"
       \/ phase' = "idle" /\ verdict' = "error"

(* It passes over a release that is kept, or is not there any longer.      *)
Proceeds ==
    /\ UNCHANGED <<phase, req, verdict>>
    /\ next \in DOMAIN plan /\ next' = next + 1
    /\ Skip(plan[next], req) \/ returned \in {"ok", "notfound"}

GoesOn ==
    /\ UNCHANGED <<req, verdict>>
    /\ \/ ListNamespaces /\ phase = "list" /\ phase' = "drop"
       \/ DropReturns /\ Drop!AllDropped /\ phase = "drop" /\ phase' = "sweep"
       \/ ListHooks /\ phase = "sweep" /\ phase' = "hooks"

(* What a step makes of the run.                                           *)
LEMMA RunShape ==
    ASSUME TypeOK, CallInv, [Next]_vars
    PROVE  \/ UNCHANGED runVars
           \/ Starts
           \/ Proceeds
           \/ UninstallsDone
           \/ GoesOn
           \/ HooksDone
           \/ \E v \in {"error", "killed"} : Finish(v)
<1>1. ASSUME NEW request \in Requests, Start(request) PROVE Starts
  BY <1>1 DEF Start, Starts
<1>2. CASE UninstallNext
  BY <1>2 DEF UninstallNext, Uninstalling, Proceeds
<1>3. CASE UninstallReturns
  BY <1>3 DEF UninstallReturns, Proceeds, CallInv
<1>4. CASE ListNamespaces \/ DropReturns \/ ListHooks
  BY <1>4 DEF ListNamespaces, DropReturns, ListHooks, Goto, GoesOn
<1>5. CASE HelmStep \/ ClearHook \/ Cancel \/ Kill \/ UNCHANGED vars
           \/ \E ns \in Namespaces : Delete(ns) \/ DropEnds(ns) \/ Vanish(ns)
  BY <1>5 DEF HelmStep, ClearHook, Cancel, Kill, Delete, DropEnds, Vanish, vars
<1>6. QED
  BY <1>1, <1>2, <1>3, <1>4, <1>5 DEF Next, RunStep

(* Every step keeps what is said of the call.                              *)
LEMMA CallStep == ASSUME TypeOK, CallInv, [Next]_vars PROVE CallInv'
<1>1. ASSUME NEW request \in Requests, Start(request) PROVE CallInv'
  <2>1. inFlight = Helm!Idle /\ UNCHANGED call /\ returned' = "none"
    BY <1>1, TypeParts DEF Start, CallInv, CallTyped, Processes, returned
  <2>2. QED
    BY <2>1 DEF CallInv, inFlight
<1>2. CASE UninstallNext
  <2>1. PICK i \in DOMAIN plan :
          /\ phase = "uninstall" /\ inFlight = Helm!Idle /\ returned = "none" /\ next = i
          /\ \/ UNCHANGED helmVars
             \/ /\ ~interrupted /\ ~Skip(plan[i], req) /\ UNCHANGED runVars
                /\ Helm!Uninstall(cli, plan[i], RunsHooks(plan[i]))
    BY <1>2 DEF UninstallNext, Uninstalling
  <2>2. CASE UNCHANGED helmVars
    BY <2>1, <2>2 DEF CallInv, helmVars, inFlight, returned
  <2>3. CASE /\ ~interrupted /\ ~Skip(plan[i], req) /\ UNCHANGED runVars
             /\ Helm!Uninstall(cli, plan[i], RunsHooks(plan[i]))
    <3>1. /\ inFlight'.op = "uninstall" /\ inFlight'.release = plan[i]
          /\ returned' = "none"
      BY <2>3, TypeParts DEF Helm!Uninstall, CallTyped, Processes, inFlight, returned, interrupted
    <3>2. QED
      BY <2>1, <2>3, <3>1 DEF CallInv, runVars
  <2>4. QED
    BY <2>1, <2>2, <2>3
<1>3. CASE HelmStep
  <2>1. /\ inFlight # Helm!Idle
        /\ FindsIt \/ HandsOver \/ Begins \/ GivesUp \/ Deletes \/ DeletesInPart
    BY <1>3, HelmShape DEF HelmStep
  <2>2. UNCHANGED runVars
    BY <1>3 DEF HelmStep
  <2>3. CASE FindsIt \/ HandsOver \/ Begins
    BY <2>1, <2>2, <2>3 DEF CallInv, FindsIt, HandsOver, Begins, Goes, UninstallCalls, runVars
  <2>4. CASE GivesUp \/ Deletes \/ DeletesInPart
    <3>1. inFlight' = Helm!Idle
      BY <2>4 DEF GivesUp, Deletes, DeletesInPart
    <3>2. next \in DOMAIN plan /\ inFlight.release = plan[next] /\ plan[next] \in Releases
      BY <2>1, PlanShape DEF CallInv
    <3>3. returned' \in {"ok", "notfound"} => ~Helm!releaseExists(plan[next])'
      BY <2>2, <2>4, <3>2, TypeParts
         DEF GivesUp, Deletes, DeletesInPart, Helm!releaseExists, ClusterTyped, runVars
    <3>4. QED
      BY <2>2, <3>1, <3>2, <3>3 DEF CallInv, runVars
  <2>5. QED
    BY <2>1, <2>3, <2>4
<1>4. CASE UninstallReturns
  <2>1. inFlight = Helm!Idle
    BY <1>4 DEF UninstallReturns, CallInv
  <2>2. UNCHANGED call /\ returned' = "none"
    BY <1>4, TypeParts DEF UninstallReturns, CallTyped, Processes, returned
  <2>3. QED
    BY <2>1, <2>2 DEF CallInv, inFlight
<1>5. CASE UninstallsDone \/ ListNamespaces \/ DropReturns \/ ListHooks \/ ClearHook \/ HooksDone
           \/ \E ns \in Namespaces : Delete(ns) \/ DropEnds(ns)
  <2>1. phase' # "uninstall"
    BY <1>5 DEF UninstallsDone, ListNamespaces, DropReturns, ListHooks, ClearHook, HooksDone,
       Delete, DropEnds, Finish, Goto, runVars
  <2>2. inFlight = Helm!Idle /\ UNCHANGED call
    BY <1>5 DEF UninstallsDone, Uninstalling, ListNamespaces, DropReturns, ListHooks, ClearHook,
       HooksDone, Delete, DropEnds, helmVars, CallInv
  <2>3. QED
    BY <2>1, <2>2 DEF CallInv, inFlight
<1>6. CASE Cancel \/ UNCHANGED vars \/ \E ns \in Namespaces : Vanish(ns)
  <2>1. UNCHANGED <<call, result, runVars>>
    BY <1>6 DEF Cancel, Helm!Cancel, Vanish, vars, helmVars
  <2>2. ASSUME phase = "uninstall" /\ returned \in {"ok", "notfound"}
        PROVE  ~Helm!releaseExists(plan[next])'
    BY <2>1, <2>2, PlanShape, StaysAway DEF CallInv, runVars
  <2>3. QED
    BY <2>1, <2>2 DEF CallInv, runVars, inFlight, returned
<1>7. CASE Kill
  <2>1. phase' = "idle"
    BY <1>7 DEF Kill, Finish
  <2>2. inFlight' = Helm!Idle
    BY <1>7, KillShape DEF Kill, helmVars, inFlight
  <2>3. QED
    BY <2>1, <2>2 DEF CallInv
<1>8. QED
  BY <1>1, <1>2, <1>3, <1>4, <1>5, <1>6, <1>7 DEF Next, RunStep

(* Every step keeps what is said of the releases before the one at hand.   *)
LEMMA PlanStep == ASSUME TypeOK, CallInv, PlanInv, [Next]_vars PROVE PlanInv'
<1> SUFFICES ASSUME phase' = "uninstall", NEW j \in 1 .. 4, j < next', ~Skip(plan[j], req')
             PROVE  ~Helm!releaseExists(plan[j])'
  BY PlanShape DEF PlanInv
<1>1. next \in Nat /\ plan[j] \in Releases
  BY PlanShape, TypeParts DEF RunTyped
<1>2. CASE UNCHANGED runVars
  BY <1>1, <1>2, PlanShape, StaysAway DEF PlanInv, runVars
<1>3. CASE Proceeds
  <2>1. CASE j < next
    BY <1>1, <1>3, <2>1, PlanShape, StaysAway DEF PlanInv, Proceeds
  <2>2. CASE j = next
    BY <1>1, <1>3, <2>2, StaysAway DEF CallInv, Proceeds
  <2>3. QED
    BY <1>1, <1>3, <2>1, <2>2 DEF Proceeds
<1>4. CASE Starts
  BY <1>4 DEF Starts
<1>5. CASE UninstallsDone \/ GoesOn \/ HooksDone \/ \E v \in {"error", "killed"} : Finish(v)
  BY <1>5 DEF UninstallsDone, GoesOn, HooksDone, Finish, Goto
<1>6. QED
  BY <1>2, <1>3, <1>4, <1>5, RunShape

(* Every step keeps what is said of a run that is done with Helm.          *)
LEMMA UninstalledStep ==
    ASSUME TypeOK, CallInv, PlanInv, UninstalledInv, [Next]_vars PROVE UninstalledInv'
<1>1. UNCHANGED req /\ Uninstalled => Uninstalled'
  BY PlanShape, StaysAway DEF Uninstalled
<1>2. CASE UNCHANGED runVars
  BY <1>1, <1>2 DEF UninstalledInv, Succeeded, runVars
<1>3. CASE Starts
  BY <1>3 DEF UninstalledInv, Succeeded, Starts
<1>4. CASE Proceeds
  BY <1>1, <1>4 DEF UninstalledInv, Succeeded, Proceeds
<1>5. CASE UninstallsDone
  <2>1. Uninstalled
    BY <1>5, PlanShape DEF UninstallsDone, Uninstalling, PlanInv, Uninstalled
  <2>2. UNCHANGED req
    BY <1>5 DEF UninstallsDone, Finish, Goto
  <2>3. phase' = "idle" \/ (phase' = "list" /\ req.level # "uninstall")
    BY <1>5 DEF UninstallsDone, Finish, Goto
  <2>4. QED
    BY <1>1, <2>1, <2>2, <2>3 DEF UninstalledInv, Succeeded
<1>6. CASE GoesOn
  BY <1>1, <1>6 DEF UninstalledInv, Succeeded, GoesOn
<1>7. CASE HooksDone
  BY <1>1, <1>7 DEF UninstalledInv, Succeeded, HooksDone, Finish
<1>8. CASE \E v \in {"error", "killed"} : Finish(v)
  BY <1>8 DEF UninstalledInv, Succeeded, Finish
<1>9. QED
  BY <1>2, <1>3, <1>4, <1>5, <1>6, <1>7, <1>8, RunShape

(* All of this holds of the initial states.                                *)
LEMMA InvInit == ASSUME Init PROVE IInv
<1>1. CallInv /\ inFlight = Helm!Idle
  BY DEF Init, CallInv, Processes, inFlight
<1>2. \A r \in Releases : ~Helm!releaseExists(r) => objects[r] = {}
  BY CleanupAssumption DEF Init, Helm!releaseExists
<1>3. AccountInv /\ PlanInv /\ UninstalledInv
  BY <1>1, <1>2 DEF AccountInv, Away, Deleting, Init, PlanInv, UninstalledInv, Succeeded
<1>4. QED
  BY <1>1, <1>3, TypeInit DEF IInv

-----------------------------------------------------------------------------
(* Theorems: what Helm's part of a run achieves                            *)

(* The strengthening is inductive: the account of the releases (what is    *)
(* neither on record nor being deleted is gone or lost), the call in       *)
(* flight, the releases before the one at hand, and what all of them come  *)
(* to when the loop of Cleanup (cleaner.go:274) has ended.                 *)
THEOREM Inductive == Spec => []IInv
<1>1. Init => IInv
  BY InvInit
<1>2. IInv /\ [Next]_vars => IInv'
  BY TypeStep, AccountStep, CallStep, PlanStep, UninstalledStep DEF IInv
<1>3. QED
  BY <1>1, <1>2, PTL DEF Spec

(* Every variable keeps its type, and with it every Helm call Cleanup      *)
(* makes is a well-formed one of the installer.                            *)
THEOREM TypeCorrect == Spec => []TypeOK
<1>1. IInv => TypeOK
  BY DEF IInv
<1>2. QED
  BY <1>1, Inductive, PTL

(* A run of Cleanup that goes through Helm and returns nil has left no     *)
(* object of a release it was to remove, but of those that were lost, if   *)
(* deploy put the hub where the plan (cleaner.go:105) looks for it.        *)
THEOREM NilMeansUninstalled == HubIsHome /\ Spec => []SuccessMeansUninstalled
<1> SUFFICES ASSUME HubIsHome PROVE Spec => []SuccessMeansUninstalled
  OBVIOUS
<1>1. ASSUME IInv PROVE SuccessMeansUninstalled
  <2> SUFFICES ASSUME Succeeded({"uninstall", "full"}), NEW r \in Torn \ lost
               PROVE  objects[r] = {}
    BY DEF SuccessMeansUninstalled
  <2>1. PICK j \in DOMAIN plan : r = plan[j]
    BY PlanShape DEF Torn, DeployedReleases, HubIsHome, mural, muralCRDs
  <2>2. ~Helm!releaseExists(r) /\ ~Deleting(r)
    BY <1>1, <2>1 DEF IInv, UninstalledInv, Uninstalled, Torn, CallInv, Deleting, Succeeded
  <2>3. QED
    BY <1>1, <2>2 DEF IInv, AccountInv, Away, Torn, Releases
<1>2. QED
  BY <1>1, Inductive, PTL

(* Helm removes objects of mural-crds only once mural's are gone or lost,  *)
(* wherever deploy put the hub: a run gives up at the first error, so that *)
(* the second release of the plan is reached when the first is not there.  *)
THEOREM DependentsComeDownFirst == Spec => DependentsFirst
<1>1. ASSUME IInv PROVE
        (/\ inFlight # Helm!Idle
         /\ inFlight.release = muralCRDs
         /\ inFlight.at = "deleting"
         /\ objects'[muralCRDs] # objects[muralCRDs])
           => objects[mural] = {} \/ mural \in lost
  <2> SUFFICES ASSUME inFlight # Helm!Idle, inFlight.release = muralCRDs
               PROVE  Away(mural)
    BY DEF Away
  <2>1. next = 2 /\ phase = "uninstall"
    BY <1>1, PlanShape DEF IInv, CallInv, plan, mural, muralCRDs, queue, certManager
  <2>2. ~Helm!releaseExists(mural)
    BY <1>1, <2>1, PlanShape, SkipShape DEF IInv, PlanInv
  <2>3. ~Deleting(mural) /\ mural \in Releases
    BY PlanShape DEF Deleting, mural, muralCRDs
  <2>4. QED
    BY <1>1, <2>2, <2>3 DEF IInv, AccountInv
<1>2. QED
  BY <1>1, Inductive, PTL DEF DependentsFirst

-----------------------------------------------------------------------------
(* Theorems: what a Ctrl-C stops                                           *)

(* Only Delete dooms a namespace.                                          *)
LEMMA DoomedShape ==
    ASSUME [Next]_vars PROVE doomed' \subseteq doomed \/ \E ns \in Namespaces : Delete(ns)
<1>1. ASSUME NEW request \in Requests, Start(request) PROVE UNCHANGED doomed
  BY <1>1 DEF Start
<1>2. QED
  BY <1>1 DEF Next, RunStep, UninstallNext, HelmStep, UninstallReturns, UninstallsDone,
     ListNamespaces, DropEnds, DropReturns, ListHooks, ClearHook, HooksDone, Vanish, Cancel,
     Kill, vars

(* What is out at a Ctrl-C gets no more, and webhooks go by ClearHook.     *)
LEMMA SentShape ==
    ASSUME [Next]_vars, interrupted, interrupted'
    PROVE  sent' \subseteq sent /\ hooks \subseteq hooks' \cup sent
<1>1. ASSUME NEW request \in Requests, Start(request)
      PROVE  sent' \subseteq sent /\ UNCHANGED hooks
  BY <1>1 DEF Start, hookVars
<1>2. CASE ClearHook
  BY <1>2 DEF ClearHook, hookVars
<1>3. ~Cancel
  BY DEF Cancel, Helm!Cancel, interrupted
<1>4. CASE Kill \/ UNCHANGED vars \/ \E ns \in Namespaces : Vanish(ns)
  BY <1>4 DEF Kill, NoDrop, Vanish, vars, hookVars
<1>5. CASE RunStep /\ ~ClearHook
  BY <1>5 DEF RunStep, UninstallNext, HelmStep, UninstallReturns, UninstallsDone,
     ListNamespaces, Delete, DropEnds, DropReturns, NoDrop, ListHooks, HooksDone, hookVars
<1>6. QED
  BY <1>1, <1>2, <1>3, <1>4, <1>5 DEF Next

(* After a Ctrl-C Helm is told to uninstall no other release, marks none   *)
(* but the one it was told of, and no namespace or webhook is deleted but  *)
(* those whose DELETE was out, whichever phase it comes in.                *)
THEOREM CtrlCIsHeeded == Spec => InterruptIsHeeded
<1>1. ASSUME IInv, [Next]_vars, interrupted, interrupted'
      PROVE  /\ handed' \subseteq handed
             /\ sent' \subseteq sent
             /\ doomed' \subseteq doomed \cup sent
             /\ hooks \subseteq hooks' \cup sent
             /\ \A r \in Releases \ handed :
                  record'[r] = "uninstalling" => record[r] = "uninstalling"
  <2>1. TypeOK /\ CallInv
    BY <1>1 DEF IInv
  <2>2. doomed' \subseteq doomed \cup sent
    BY <1>1, DoomedShape DEF Delete
  <2>3. handed' \subseteq handed
           /\ \A r \in Releases \ handed :
                record'[r] = "uninstalling" => record[r] = "uninstalling"
    <3>1. CASE HelmStep
      <4>1. inFlight # Helm!Idle /\ inFlight \in UninstallCalls
            /\ (GivesUp \/ FindsIt \/ Begins \/ Deletes \/ DeletesInPart)
        BY <1>1, <2>1, <3>1, HelmShape, InFlightShape DEF HelmStep, HandsOver
      <4>2. handed' \subseteq handed
        BY <4>1 DEF GivesUp, FindsIt, Begins, Deletes, DeletesInPart, Goes, handed
      <4>3. ASSUME NEW r \in Releases \ handed, record'[r] = "uninstalling"
            PROVE  record[r] = "uninstalling"
        <5>1. CASE Begins
          <6>1. handed = {inFlight.release}
            BY <4>1, <5>1 DEF Begins, handed
          <6>2. QED
            BY <2>1, <4>3, <5>1, <6>1, TypeParts DEF Begins, ClusterTyped
        <5>2. CASE GivesUp \/ FindsIt \/ Deletes \/ DeletesInPart
          BY <2>1, <4>1, <4>3, <5>2, TypeParts
             DEF GivesUp, FindsIt, Deletes, DeletesInPart, UninstallCalls, ClusterTyped
        <5>3. QED
          BY <4>1, <5>1, <5>2
      <4>4. QED
        BY <4>2, <4>3
    <3>2. CASE \E ns \in Namespaces : Vanish(ns)
      BY <3>2 DEF Vanish, handed, inFlight
    <3>3. CASE UNCHANGED <<record, call>>
      BY <3>3 DEF handed, inFlight
    <3>4. CASE inFlight = Helm!Idle /\ inFlight'.at = "query" /\ UNCHANGED record
      BY <3>4 DEF handed
    <3>5. CASE Kill /\ inFlight # Helm!Idle /\ Helm!Kill(cli)
      <4>1. UNCHANGED record /\ inFlight' = Helm!Idle
        BY <2>1, <3>5, KillShape
      <4>2. QED
        BY <4>1 DEF handed
    <3>6. QED
      BY <1>1, <2>1, <3>1, <3>2, <3>3, <3>4, <3>5, Quiet
  <2>4. QED
    BY <1>1, <2>2, <2>3, SentShape
<1>2. QED
  BY <1>1, Inductive, PTL DEF Spec, InterruptIsHeeded

-----------------------------------------------------------------------------
(* Namespaces and webhooks                                                 *)

(* A namespace that goes takes the histories and the objects in it.        *)
LEMMA GoneStep == ASSUME TypeOK, CallInv, GoneInv, [Next]_vars PROVE GoneInv'
<1> SUFFICES ASSUME NEW r \in Releases, r[2] \in gone'
             PROVE  record'[r] = "none" /\ "namespaced" \notin objects'[r]
  BY DEF GoneInv
<1>1. CASE r[2] \in gone
  BY <1>1, OnlyRemoves DEF GoneInv
<1>2. CASE \E ns \in Namespaces : Vanish(ns)
  <2>1. PICK ns \in Namespaces : Vanish(ns)
    BY <1>2
  <2>2. CASE r[2] = ns
    BY <2>1, <2>2 DEF Vanish
  <2>3. CASE r[2] # ns
    BY <1>1, <2>1, <2>3 DEF Vanish, Drop!Vanish
  <2>4. QED
    BY <2>2, <2>3
<1>3. CASE UNCHANGED gone
  BY <1>1, <1>3
<1>4. gone' = gone \/ \E ns \in Namespaces : Vanish(ns)
  <2>1. ASSUME NEW request \in Requests, Start(request) PROVE UNCHANGED gone
    BY <2>1 DEF Start, dropVars
  <2>2. CASE RunStep
    BY <2>2 DEF RunStep, UninstallNext, HelmStep, UninstallReturns, UninstallsDone,
       ListNamespaces, Delete, DropEnds, Drop!Dropped, DropReturns, NoDrop, ListHooks,
       ClearHook, HooksDone, dropVars
  <2>3. CASE Cancel \/ Kill \/ UNCHANGED vars
    BY <2>3 DEF Cancel, Kill, NoDrop, dropVars, vars
  <2>4. QED
    BY <2>1, <2>2, <2>3 DEF Next
<1>5. QED
  BY <1>2, <1>3, <1>4

(* What is gone stays so.                                                  *)
LEMMA GoneGrows == ASSUME [Next]_vars PROVE gone \subseteq gone'
<1>1. ASSUME NEW request \in Requests, Start(request) PROVE UNCHANGED gone
  BY <1>1 DEF Start, dropVars
<1>2. CASE RunStep
  BY <1>2 DEF RunStep, UninstallNext, HelmStep, UninstallReturns, UninstallsDone,
     ListNamespaces, Delete, DropEnds, Drop!Dropped, DropReturns, NoDrop, ListHooks,
     ClearHook, HooksDone, dropVars
<1>3. CASE Cancel \/ Kill \/ UNCHANGED vars \/ \E ns \in Namespaces : Vanish(ns)
  BY <1>3 DEF Cancel, Kill, Vanish, Drop!Vanish, NoDrop, dropVars, vars
<1>4. QED
  BY <1>1, <1>2, <1>3 DEF Next

(* Who changes the list and what became of it.                             *)
LEMMA ListShape ==
    ASSUME [Next]_vars
    PROVE  \/ UNCHANGED <<list, outcome>>
           \/ NoDrop /\ phase' # "drop"
           \/ ListNamespaces
           \/ \E ns \in Namespaces : Drop!Dropped(ns) \/ Drop!Failed(ns)
<1>1. ASSUME NEW request \in Requests, Start(request) PROVE UNCHANGED <<list, outcome>>
  BY <1>1 DEF Start, dropVars
<1>2. CASE \E ns \in Namespaces : DropEnds(ns)
  BY <1>2 DEF DropEnds
<1>3. CASE RunStep /\ ~\E ns \in Namespaces : DropEnds(ns)
  BY <1>3 DEF RunStep, UninstallNext, HelmStep, UninstallReturns, UninstallsDone, Delete,
     DropReturns, ListHooks, ClearHook, HooksDone, Finish, Goto, dropVars
<1>4. CASE Cancel \/ Kill \/ UNCHANGED vars \/ \E ns \in Namespaces : Vanish(ns)
  BY <1>4 DEF Cancel, Kill, Vanish, Drop!Vanish, Finish, dropVars, vars
<1>5. QED
  BY <1>1, <1>2, <1>3, <1>4 DEF Next

(* Every step keeps what is said of the namespaces of the run.             *)
LEMMA DropStep == ASSUME TypeOK, CallInv, DropInv, [Next]_vars PROVE DropInv'
<1> DEFINE Covered ==
        namespacesFor(req, {}) \subseteq list /\ list \subseteq namespacesFor(req, Labelled)
<1>1. \A ns \in Namespaces : outcome'[ns] = "ok" => ns \in gone'
  <2>1. CASE UNCHANGED <<list, outcome>> \/ NoDrop \/ ListNamespaces
    BY <2>1, GoneGrows DEF DropInv, NoDrop, ListNamespaces, dropVars
  <2>2. CASE \E ns \in Namespaces : Drop!Dropped(ns) \/ Drop!Failed(ns)
    BY <2>2, GoneGrows, TypeParts DEF DropInv, Drop!Dropped, Drop!Failed, RunTyped
  <2>3. QED
    BY <2>1, <2>2, ListShape
<1>2. ASSUME phase' = "drop" PROVE Covered'
  <2>1. CASE ListNamespaces
    <3>1. CASE Fault /\ Finish("error")
      BY <1>2, <3>1 DEF Finish
    <3>2. CASE \E discovered \in SUBSET Labelled :
                 list' = namespacesFor(req, discovered) /\ UNCHANGED req
      <4>1. namespacesFor(req, {})' = namespacesFor(req', {})
            /\ namespacesFor(req, Labelled)' = namespacesFor(req', Labelled)
        BY DEF namespacesFor
      <4>2. QED
        BY <3>2, <4>1, NamespacesShape
    <3>3. QED
      BY <2>1, <3>1, <3>2 DEF ListNamespaces
  <2>2. CASE phase = "drop" /\ UNCHANGED <<req, list>>
    BY <2>2 DEF DropInv, namespacesFor
  <2>3. (phase = "drop" /\ UNCHANGED req) \/ ListNamespaces
    <3>1. CASE UNCHANGED runVars
      BY <1>2, <3>1 DEF runVars
    <3>2. CASE ~UNCHANGED runVars
      BY <1>2, <3>2, RunShape DEF Starts, Proceeds, UninstallsDone, GoesOn, HooksDone, Finish,
         Goto
    <3>3. QED
      BY <3>1, <3>2
  <2>4. QED
    BY <1>2, <2>1, <2>2, <2>3, ListShape DEF NoDrop, Drop!Dropped, Drop!Failed
<1>3. ASSUME phase' \in {"sweep", "hooks"} \/ Succeeded({"full", "reset"})'
      PROVE  namespacesFor(req', {}) \subseteq gone'
  <2>1. CASE UNCHANGED runVars
    BY <1>3, <2>1, GoneGrows DEF DropInv, Succeeded, runVars
  <2>2. CASE GoesOn
    <3>1. CASE phase = "drop" /\ Drop!AllDropped
      <4>1. list \subseteq gone
        BY <3>1, TypeParts DEF RunTyped, DropInv, Drop!AllDropped
      <4>2. QED
        BY <2>2, <3>1, <4>1, GoneGrows DEF DropInv, GoesOn
    <3>2. CASE phase = "sweep"
      BY <2>2, <3>2, GoneGrows DEF DropInv, GoesOn
    <3>3. QED
      BY <1>3, <2>2, <3>1, <3>2 DEF GoesOn, Succeeded
  <2>3. CASE HooksDone
    BY <2>3, GoneGrows DEF DropInv, HooksDone, Finish
  <2>4. CASE UninstallsDone
    BY <1>3, <2>4 DEF UninstallsDone, Finish, Goto, Succeeded
  <2>5. CASE Proceeds
    BY <1>3, <2>5, GoneGrows DEF Proceeds, DropInv, Succeeded
  <2>6. CASE Starts \/ \E v \in {"error", "killed"} : Finish(v)
    BY <1>3, <2>6 DEF Starts, Finish, Succeeded
  <2>7. QED
    BY <2>1, <2>2, <2>3, <2>4, <2>5, <2>6, RunShape
<1>4. QED
  BY <1>1, <1>2, <1>3 DEF DropInv

(* Every step keeps what is said of the webhooks of the run.               *)
LEMMA HooksStep == ASSUME TypeOK, CallInv, HooksInv, [Next]_vars PROVE HooksInv'
<1>1. CASE ListHooks
  BY <1>1 DEF HooksInv, ListHooks, Goto, Succeeded
<1>2. CASE ClearHook
  BY <1>2 DEF HooksInv, ClearHook, Finish, Succeeded, runVars
<1>3. CASE HooksDone
  BY <1>3 DEF HooksInv, HooksDone, Finish, Succeeded, hookVars
<1>4. CASE Kill
  BY <1>4 DEF HooksInv, Kill, Finish, Succeeded
<1>5. ASSUME NEW request \in Requests, Start(request) PROVE HooksInv'
  BY <1>5 DEF HooksInv, Start, Succeeded
<1>6. ASSUME UNCHANGED hookVars, ~HooksDone, ~ListHooks PROVE HooksInv'
  BY <1>6, RunShape DEF HooksInv, hookVars, Succeeded, runVars, Starts, Proceeds, GoesOn,
     UninstallsDone, Finish, Goto
<1>7. ListHooks \/ ClearHook \/ HooksDone \/ Kill \/ UNCHANGED hookVars
      \/ \E request \in Requests : Start(request)
  BY DEF Next, RunStep, UninstallNext, HelmStep, UninstallReturns, UninstallsDone,
     ListNamespaces, Delete, DropEnds, DropReturns, Cancel, Vanish, vars
<1>8. QED
  BY <1>1, <1>2, <1>3, <1>4, <1>5, <1>6, <1>7

-----------------------------------------------------------------------------
(* Theorems: what becomes of the namespaces                                *)

(* What is said of the run's list is inductive, whatever the namespaces.   *)
LEMMA DropsInductive == Spec => [](TypeOK /\ CallInv /\ DropInv)
<1>1. Init => DropInv
  BY DEF Init, DropInv, Succeeded
<1>2. Init => TypeOK /\ CallInv
  BY InvInit DEF IInv
<1>3. TypeOK /\ CallInv /\ DropInv /\ [Next]_vars => (TypeOK /\ CallInv /\ DropInv)'
  BY TypeStep, CallStep, DropStep
<1>4. QED
  BY <1>1, <1>2, <1>3, PTL DEF Spec

(* So is the rest, if no release lives in a namespace that is gone at the  *)
(* start: what went with its namespace, and the webhooks still to clear.   *)
LEMMA NamespacesInductive == RuntimeIsApart /\ Spec => []NInv
<1> SUFFICES ASSUME RuntimeIsApart PROVE Spec => []NInv
  OBVIOUS
<1>1. Init => GoneInv /\ HooksInv
  BY DEF Init, GoneInv, RuntimeIsApart, HooksInv, Succeeded
<1>2. TypeOK /\ CallInv /\ GoneInv /\ HooksInv /\ [Next]_vars => (GoneInv /\ HooksInv)'
  BY GoneStep, HooksStep
<1>3. TypeOK /\ CallInv /\ DropInv /\ GoneInv /\ HooksInv => NInv
  BY DEF NInv
<1>4. QED
  BY <1>1, <1>2, <1>3, DropsInductive, PTL DEF Spec

(* A run of Cleanup that deletes namespaces and returns nil has left no    *)
(* history of a release it was to remove, nothing in the releases'         *)
(* namespaces, none of the runtime's namespaces and no stale webhook: the  *)
(* namespaces of the plan and of the static list are in every list,        *)
(* whatever the label query (cleaner.go:181) returned.                     *)
THEOREM NilMeansClean == HubIsHome /\ RuntimeIsApart /\ Spec => []SuccessMeansClean
<1> SUFFICES ASSUME HubIsHome, RuntimeIsApart PROVE Spec => []SuccessMeansClean
  OBVIOUS
<1>1. ASSUME NInv PROVE SuccessMeansClean
  <2> SUFFICES ASSUME Succeeded({"full", "reset"})
               PROVE  /\ \A r \in Torn : record[r] = "none" /\ "namespaced" \notin objects[r]
                      /\ Ancillary \subseteq gone
                      /\ StaleHooks \cap hooks = {}
    BY DEF SuccessMeansClean
  <2>1. namespacesFor(req, {}) \subseteq gone /\ StaleHooks \cap hooks = {}
    BY <1>1 DEF NInv, DropInv, HooksInv
  <2>2. Ancillary \subseteq gone
    BY <2>1 DEF namespacesFor
  <2>3. ASSUME NEW r \in Torn PROVE record[r] = "none" /\ "namespaced" \notin objects[r]
    <3>1. PICK j \in DOMAIN plan : r = plan[j]
      BY PlanShape DEF Torn, DeployedReleases, HubIsHome, mural, muralCRDs
    <3>2. r[2] \in gone
      BY <2>1, <3>1 DEF Torn, namespacesFor
    <3>3. QED
      BY <1>1, <3>2 DEF NInv, GoneInv, Torn, Releases
  <2>4. QED
    BY <2>1, <2>2, <2>3
<1>2. QED
  BY <1>1, NamespacesInductive, PTL

(* What a --keep flag names is not uninstalled, and its namespace is not   *)
(* deleted unless the label query can find it: plan and namespacesFor      *)
(* (cleaner.go:160) ask the same flags.                                    *)
THEOREM KeptIsNotTouched == RuntimeIsApart /\ Spec => KeptIsLeftAlone
<1> SUFFICES ASSUME RuntimeIsApart PROVE Spec => KeptIsLeftAlone
  OBVIOUS
<1>1. ASSUME TypeOK, CallInv, DropInv, [Next]_vars
      PROVE  \A r \in Releases : Skip(r, req) /\ phase # "idle" =>
               /\ r[2] \in doomed' => r[2] \in doomed \cup Labelled
               /\ inFlight' # Helm!Idle => inFlight'.release # r
  <2> SUFFICES ASSUME NEW r \in Releases, Skip(r, req), phase # "idle"
               PROVE  /\ r[2] \in doomed' => r[2] \in doomed \cup Labelled
                      /\ inFlight' # Helm!Idle => inFlight'.release # r
    OBVIOUS
  <2>1. CallInv'
    BY <1>1, CallStep
  <2>2. ASSUME r[2] \notin Labelled PROVE r[2] \notin namespacesFor(req, Labelled)
    BY <2>2, PlanShape, SkipShape
       DEF RuntimeIsApart, namespacesFor, mural, muralCRDs, queue, certManager
  <2>3. ASSUME r[2] \in doomed' PROVE r[2] \in doomed \cup Labelled
    <3>1. ASSUME NEW ns \in Namespaces, Delete(ns)
          PROVE  doomed' = doomed \cup {ns} /\ (ns = r[2] => r[2] \in Labelled)
      BY <1>1, <2>2, <3>1 DEF Delete, DropInv
    <3>2. doomed' \subseteq doomed \/ \E ns \in Namespaces : Delete(ns)
      BY <1>1, DoomedShape
    <3>3. QED
      BY <2>3, <3>1, <3>2
  <2>4. ASSUME inFlight' # Helm!Idle PROVE inFlight'.release # r
    <3>1. req' = req
      BY <1>1, RunShape DEF Starts, Proceeds, UninstallsDone, GoesOn, HooksDone, Finish, Goto,
         runVars
    <3>2. ~Skip(inFlight'.release, req)
      BY <2>1, <2>4, <3>1 DEF CallInv, Skip
    <3>3. QED
      BY <3>2
  <2>5. QED
    BY <2>3, <2>4
<1>2. QED
  BY <1>1, DropsInductive, PTL DEF Spec, KeptIsLeftAlone

-----------------------------------------------------------------------------
(* Theorems: what a cleanup does not reach                                 *)

(* The namespaces that any run may delete.                                 *)
Reach == {plan[i][2] : i \in DOMAIN plan} \cup Ancillary \cup Labelled

(* Nothing else is on its way out.                                         *)
LEMMA OnlyReachIsDoomed == Spec => [](TypeOK /\ CallInv /\ doomed \subseteq Reach)
<1>1. Init => doomed \subseteq Reach
  BY DEF Init
<1>2. TypeOK /\ CallInv /\ DropInv /\ doomed \subseteq Reach /\ [Next]_vars =>
        (doomed \subseteq Reach)'
  <2> SUFFICES ASSUME DropInv, doomed \subseteq Reach, [Next]_vars PROVE doomed' \subseteq Reach
    BY DEF Reach
  <2>1. ASSUME NEW ns \in Namespaces, Delete(ns) PROVE doomed' = doomed \cup {ns} /\ ns \in Reach
    BY <2>1 DEF Delete, DropInv, namespacesFor, Reach
  <2>2. doomed' \subseteq doomed \/ \E ns \in Namespaces : Delete(ns)
    BY DoomedShape
  <2>3. QED
    BY <2>1, <2>2
<1>3. QED
  BY <1>1, <1>2, DropsInductive, PTL DEF Spec

(* A release that the plan (cleaner.go:105) does not name, in a namespace  *)
(* that no list of the cleaner does, keeps its history and its objects:    *)
(* no run, whatever its flags and however it ends, touches a hub that was  *)
(* deployed to another namespace and has no labels there.                  *)
THEOREM OutOfReachIsUntouched ==
    Spec => [][\A r \in Releases :
                 r[2] \notin Reach => record'[r] = record[r] /\ objects'[r] = objects[r]]_vars
<1>1. ASSUME TypeOK, CallInv, doomed \subseteq Reach, [Next]_vars
      PROVE  \A r \in Releases :
               r[2] \notin Reach => record'[r] = record[r] /\ objects'[r] = objects[r]
  <2> SUFFICES ASSUME NEW r \in Releases, r[2] \notin Reach
               PROVE  record'[r] = record[r] /\ objects'[r] = objects[r]
    OBVIOUS
  <2>1. CASE UNCHANGED <<record, objects>>
    BY <2>1
  <2>2. CASE HelmStep \/ (inFlight # Helm!Idle /\ Helm!Kill(cli))
    <3>1. inFlight # Helm!Idle /\ inFlight.release = plan[next] /\ next \in DOMAIN plan
      BY <1>1, <2>2, HelmShape DEF HelmStep, CallInv
    <3>2. r # inFlight.release
      BY <1>1, <3>1 DEF Reach
    <3>3. /\ \/ UNCHANGED record
             \/ \E status : record' = [record EXCEPT ![inFlight.release] = status]
          /\ \/ UNCHANGED objects
             \/ \E left : objects' = [objects EXCEPT ![inFlight.release] = left]
      BY <1>1, <2>2, HelmShape, KillShape
         DEF HelmStep, FindsIt, HandsOver, Begins, GivesUp, Deletes, DeletesInPart
    <3>4. QED
      BY <1>1, <3>2, <3>3, TypeParts DEF ClusterTyped
  <2>3. CASE \E ns \in Namespaces : Vanish(ns)
    BY <1>1, <2>3 DEF Vanish
  <2>4. QED
    BY <1>1, <2>1, <2>2, <2>3, Quiet
<1>2. QED
  BY <1>1, OnlyReachIsDoomed, PTL DEF Spec
=============================================================================
