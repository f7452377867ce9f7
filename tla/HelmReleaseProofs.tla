------------------------- MODULE HelmReleaseProofs -------------------------
(***************************************************************************)
(* Theorems about HelmRelease, for any set of processes, any set of        *)
(* releases and any kinds of objects: whatever is on the cluster is on     *)
(* record, a release that is on record as deployed is there in full,       *)
(* however the calls before were cut short, and two processes never change *)
(* the objects of one release at a time.                                   *)
(***************************************************************************)
EXTENDS HelmRelease, TLAPS

(* Write changes the status of one release.                                *)
LEMMA WriteChangesOne ==
    ASSUME NEW p \in Processes,
           record \in [Releases -> Statuses], call[p].release \in Releases,
           NEW status \in Statuses, Write(p, status)
    PROVE  /\ record' \in [Releases -> Statuses]
           /\ record'[call[p].release] = status
           /\ \A r \in Releases \ {call[p].release} : record'[r] = record[r]
BY DEF Write

(* A call in flight names a release and is at a step of its operation.     *)
LEMMA CallShape ==
    ASSUME TypeOK, NEW p \in Processes
    PROVE  /\ call[p] # Idle => call[p].release \in Releases
           /\ \A step : At(p, "apply", step) =>
                /\ call[p] # Idle
                /\ call[p].at = step
                /\ call[p].op = "apply"
                /\ call[p] \in [op : {"apply"}, release : Releases, at : ApplySteps]
           /\ \A step : At(p, "uninstall", step) =>
                /\ call[p] # Idle
                /\ call[p].at = step
                /\ call[p].op = "uninstall"
                /\ call[p] \in [op : {"uninstall"}, release : Releases,
                                at : UninstallSteps, hooks : BOOLEAN]
<1>1. call[p] \in Calls \cup {Idle}
  BY DEF TypeOK
<1>2. QED
  BY <1>1 DEF Calls, Idle, At

(* What Step and Return do to the calls.                                   *)
LEMMA StepShape ==
    ASSUME TypeOK, NEW p \in Processes, NEW step, Step(p, step), call[p] # Idle
    PROVE  /\ call' = [call EXCEPT ![p] = call'[p]]
           /\ call'[p].at = step
           /\ call'[p].op = call[p].op
           /\ call'[p].release = call[p].release
           /\ call[p].op = "apply" /\ step \in ApplySteps => call'[p] \in Calls
           /\ call[p].op = "uninstall" /\ step \in UninstallSteps => call'[p] \in Calls
           /\ result' = result
<1>1. call[p] \in Calls
  BY DEF TypeOK
<1>2. call' = [call EXCEPT ![p] = [call[p] EXCEPT !.at = step]] /\ result' = result
  BY DEF Step
<1>3. call'[p] = [call[p] EXCEPT !.at = step]
  BY <1>2 DEF TypeOK
<1>4. QED
  BY <1>1, <1>2, <1>3 DEF Calls, TypeOK, ApplySteps, UninstallSteps

LEMMA ReturnShape ==
    ASSUME TypeOK, NEW p \in Processes, NEW res, Return(p, res)
    PROVE  /\ call' = [call EXCEPT ![p] = Idle]
           /\ call'[p] = Idle
           /\ res \in Results => result' \in [Processes -> Results]
BY DEF TypeOK, Return

(* Of call and result a step of the running process leaves the types, and  *)
(* the other processes' calls.                                             *)
LEMMA RunningShape ==
    ASSUME TypeOK, NEW p \in Processes, Running(p) \/ Kill(p)
    PROVE  /\ call' \in [Processes -> Calls \cup {Idle}]
           /\ result' \in [Processes -> Results]
           /\ \A q \in Processes \ {p} : call'[q] = call[q]
           /\ call[p] # Idle /\ call[p].release \in Releases
           /\ call'[p] # Idle => /\ call'[p].release = call[p].release
                                 /\ call'[p].op = call[p].op
<1>0. call[p] # Idle /\ call[p].release \in Releases
  BY CallShape DEF Running, Kill, ApplyQuery, runInstall, runUpgrade, HelmApplies,
     UninstallQuery, UninstallRun, HelmMarks, HelmDeletes
<1>1. CASE \E res \in Results : Return(p, res)
  BY <1>0, <1>1, ReturnShape DEF TypeOK
<1>2. CASE /\ call[p].op = "apply"
           /\ \E step \in ApplySteps : Step(p, step)
  BY <1>0, <1>2, StepShape DEF TypeOK
<1>3. CASE /\ call[p].op = "uninstall"
           /\ \E step \in UninstallSteps : Step(p, step)
  BY <1>0, <1>3, StepShape DEF TypeOK
<1>4. QED
  <2> USE DEF Results, ApplySteps, UninstallSteps
  <2>1. CASE ApplyQuery(p) \/ runInstall(p) \/ runUpgrade(p) \/ HelmApplies(p)
    <3>1. call[p].op = "apply"
      BY <2>1 DEF ApplyQuery, runInstall, runUpgrade, HelmApplies, At
    <3>2. QED
      BY <2>1, <3>1, <1>1, <1>2 DEF ApplyQuery, runInstall, runUpgrade, HelmApplies
  <2>2. CASE UninstallQuery(p) \/ UninstallRun(p) \/ HelmMarks(p) \/ HelmDeletes(p)
    <3>1. call[p].op = "uninstall"
      BY <2>2 DEF UninstallQuery, UninstallRun, HelmMarks, HelmDeletes, At
    <3>2. QED
      BY <2>2, <3>1, <1>1, <1>3 DEF UninstallQuery, UninstallRun, HelmMarks, HelmDeletes
  <2>3. CASE Kill(p)
    BY <2>3, <1>1 DEF Kill
  <2>4. QED
    BY <2>1, <2>2, <2>3 DEF Running

-----------------------------------------------------------------------------
(* Types                                                                   *)

(* The history and the objects keep their types.                           *)
LEMMA HistoryShape ==
    ASSUME TypeOK, NEW p \in Processes, Running(p) \/ Kill(p)
    PROVE  /\ record' \in [Releases -> Statuses]
           /\ objects' \in [Releases -> SUBSET Kinds]
           /\ \A r \in Releases \ {call[p].release} :
                record'[r] = record[r] /\ objects'[r] = objects[r]
           /\ cancelled' = cancelled
<1>0. call[p] # Idle /\ call[p].release \in Releases
  BY RunningShape
<1>1. CASE UNCHANGED <<record, objects, cancelled>>
  BY <1>1 DEF TypeOK
<1>2. CASE ApplyQuery(p) \/ UninstallQuery(p) \/ UninstallRun(p)
  BY <1>1, <1>2 DEF ApplyQuery, UninstallQuery, UninstallRun
<1>3. CASE runInstall(p) \/ runUpgrade(p) \/ HelmMarks(p)
  <2>1. record' = record \/ \E status \in Statuses : Write(p, status)
    BY <1>3 DEF runInstall, runUpgrade, HelmMarks, Statuses, Pending
  <2>2. UNCHANGED <<objects, cancelled>>
    BY <1>3 DEF runInstall, runUpgrade, HelmMarks
  <2>3. QED
    BY <1>0, <2>1, <2>2, WriteChangesOne DEF TypeOK
<1>4. CASE HelmApplies(p) \/ HelmDeletes(p) \/ Kill(p)
  <2>1. record' = record \/ \E status \in Statuses : Write(p, status)
    BY <1>4 DEF HelmApplies, HelmDeletes, Kill, Statuses
  <2>2. /\ objects' = objects
             \/ \E os \in SUBSET Kinds : objects' = [objects EXCEPT ![call[p].release] = os]
        /\ cancelled' = cancelled
    <3>1. objects[call[p].release] \in SUBSET Kinds
      BY <1>0 DEF TypeOK
    <3>2. QED
      BY <1>4, <3>1 DEF HelmApplies, HelmDeletes, Kill
  <2>3. QED
    BY <1>0, <2>1, <2>2, WriteChangesOne DEF TypeOK
<1>5. QED
  BY <1>2, <1>3, <1>4 DEF Running

(* TypeOK: a call is a well-formed record of its operation, and the        *)
(* history and the objects of every release keep their types.              *)
THEOREM TypeCorrect == Spec => []TypeOK
<1>1. Init => TypeOK
  BY DEF Init, TypeOK, Statuses, Idle, Results
<1>2. TypeOK /\ [Next]_vars => TypeOK'
  <2> SUFFICES ASSUME TypeOK, [Next]_vars PROVE TypeOK'
    OBVIOUS
  <2>1. ASSUME NEW p \in Processes, Running(p) \/ Kill(p) PROVE TypeOK'
    <3>1. cancelled' \in [Processes -> BOOLEAN]
      BY <2>1, HistoryShape DEF TypeOK
    <3>2. QED
      BY <2>1, <3>1, RunningShape, HistoryShape DEF TypeOK
  <2>2. ASSUME NEW p \in Processes, NEW r \in Releases, Apply(p, r) PROVE TypeOK'
    BY <2>2 DEF Apply, TypeOK, Calls, ApplySteps, Results
  <2>3. ASSUME NEW p \in Processes, NEW r \in Releases, NEW hooks \in BOOLEAN,
               Uninstall(p, r, hooks)
        PROVE  TypeOK'
    BY <2>3 DEF Uninstall, TypeOK, Calls, UninstallSteps, Results
  <2>4. ASSUME NEW p \in Processes, Cancel(p) \/ Restart(p) PROVE TypeOK'
    BY <2>4 DEF Cancel, Restart, TypeOK
  <2>5. CASE UNCHANGED vars
    BY <2>5 DEF vars, TypeOK
  <2>6. QED
    BY <2>1, <2>2, <2>3, <2>4, <2>5 DEF Next
<1>3. QED
  BY <1>1, <1>2, PTL DEF Spec

-----------------------------------------------------------------------------
(* The inductive invariant                                                 *)

(* What the invariant says of one release.                                 *)
Accounted(r) ==
    /\ record[r] \in {"none", "uninstalled"} => objects[r] = {}
    /\ record[r] = "deployed" => objects[r] = Kinds

Locks == WrittenFirst /\ UninstallsAlone /\ OneWriter

LEMMA IInvByRelease ==
    IInv <=> TypeOK /\ Locks /\ \A r \in Releases : Accounted(r)
BY DEF IInv, Locks, NoOrphans, DeployedIsComplete, Accounted

(* No other process is at the objects of the release p's call is about.    *)
NoOther(p) ==
    \A q \in Processes \ {p} : Writing(q) => call[q].release # call[p].release

(* A release that is not pending and not being uninstalled has no writer.  *)
LEMMA NoWriter ==
    ASSUME Locks, NEW p \in Processes,
           record[call[p].release] \notin Pending \cup {"uninstalling"}
    PROVE  NoOther(p)
BY DEF Locks, WrittenFirst, NoOther, Writing

LEMMA WriterIsAlone ==
    ASSUME Locks, NEW p \in Processes, call[p] # Idle,
           Writing(p) \/ call[p].op = "uninstall"
    PROVE  NoOther(p)
BY DEF Locks, OneWriter, UninstallsAlone, NoOther, Writing

(* A step of p keeps the locks if p changes the record of a release and    *)
(* becomes its writer only where it has no other, under the right record.  *)
LEMMA LocksKept ==
    ASSUME TypeOK, Locks, NEW p \in Processes, Running(p) \/ Kill(p),
           record' # record \/ Writing(p)' => NoOther(p),
           Writing(p)' =>
             record'[call[p].release] \in
               (IF call'[p].at = "deleting" THEN {"uninstalling"} ELSE Pending)
    PROVE  Locks'
<1>1. /\ \A q \in Processes \ {p} : call'[q] = call[q]
      /\ call[p] # Idle
      /\ call'[p] # Idle => /\ call'[p].release = call[p].release
                            /\ call'[p].op = call[p].op
  BY RunningShape
<1>2. \A q \in Processes \ {p} : Writing(q)' <=> Writing(q)
  BY <1>1 DEF Writing
<1>3. \A r \in Releases \ {call[p].release} : record'[r] = record[r]
  BY HistoryShape
<1>4. \A q \in Processes : call[q] # Idle => call[q].release \in Releases
  BY CallShape
<1>5. WrittenFirst'
  <2>1. ASSUME NEW q \in Processes \ {p}, Writing(q)
        PROVE  record'[call[q].release] = record[call[q].release]
    BY <2>1, <1>3, <1>4 DEF NoOther, Writing
  <2>2. ASSUME NEW q \in Processes \ {p}, Writing(q)
        PROVE  /\ call[q].at = "deleting" => record'[call[q].release] = "uninstalling"
               /\ call[q].at \in {"installing", "upgrading"} =>
                    record'[call[q].release] \in Pending
    BY <2>1, <2>2 DEF Locks, WrittenFirst, Writing
  <2>3. QED
    BY <1>1, <2>2 DEF WrittenFirst, Writing
<1>6. UninstallsAlone'
  BY <1>1 DEF Locks, UninstallsAlone
<1>7. OneWriter'
  BY <1>1, <1>2 DEF Locks, OneWriter, NoOther, Writing
<1>8. QED
  BY <1>5, <1>6, <1>7 DEF Locks

(* IInv holds: a call writes what it is about to do before the objects     *)
(* change, so wherever it is cut short the record tells that they may be   *)
(* incomplete, and no other call begins on them.                           *)
THEOREM Inductive == Spec => []IInv
<1>1. Init => IInv
  BY DEF Init, IInv, TypeOK, NoOrphans, DeployedIsComplete, WrittenFirst,
     UninstallsAlone, OneWriter, Writing, Statuses, Idle, Results
<1>2. IInv /\ TypeOK' /\ [Next]_vars => IInv'
  <2> SUFFICES ASSUME IInv, TypeOK', [Next]_vars
               PROVE  Locks' /\ \A r \in Releases : Accounted(r)'
    BY DEF IInv, Locks, NoOrphans, DeployedIsComplete, Accounted
  <2>a. TypeOK /\ Locks /\ \A r \in Releases : Accounted(r)
    BY IInvByRelease
  <2>1. ASSUME NEW p \in Processes, Running(p) \/ Kill(p)
        PROVE  Locks' /\ \A r \in Releases : Accounted(r)'
    <3>1. /\ call[p] # Idle
          /\ call[p].release \in Releases
          /\ \A r \in Releases \ {call[p].release} :
               record'[r] = record[r] /\ objects'[r] = objects[r]
      BY <2>1, <2>a, RunningShape, HistoryShape
    <3>2. PICK rel \in Releases : rel = call[p].release
      BY <3>1
    <3>3. SUFFICES Locks' /\ Accounted(rel)'
      <4>1. ASSUME NEW r \in Releases \ {rel} PROVE Accounted(r)'
        BY <3>1, <3>2, <4>1, <2>a DEF Accounted
      <4>2. QED
        BY <3>3, <4>1
    <3> USE <3>1, <3>2, <2>1, <2>a
    <3>4. CASE ApplyQuery(p) \/ UninstallQuery(p) \/ UninstallRun(p)
      <4>1. UNCHANGED <<record, objects>>
        BY <3>4 DEF ApplyQuery, UninstallQuery, UninstallRun
      <4>2. call'[p] = Idle \/ call'[p].at \in {"install", "upgrade", "uninstall", "marking"}
        BY <3>4, StepShape, ReturnShape DEF ApplyQuery, UninstallQuery, UninstallRun
      <4>3. ~Writing(p)'
        BY <4>2 DEF Writing
      <4>4. Locks'
        BY <4>1, <4>3, LocksKept
      <4>5. QED
        BY <4>1, <4>4 DEF Accounted
    <3>5. CASE runInstall(p) \/ runUpgrade(p)
      <4>1. CASE UNCHANGED record /\ Return(p, "error")
        <5>1. UNCHANGED <<record, objects>>
          BY <3>5, <4>1 DEF runInstall, runUpgrade
        <5>2. ~Writing(p)'
          BY <4>1, ReturnShape DEF Writing
        <5>3. Locks'
          BY <5>1, <5>2, LocksKept
        <5>4. QED
          BY <5>1, <5>3 DEF Accounted
      <4>2. CASE /\ record[call[p].release] \notin Pending \cup {"uninstalling"}
                 /\ \E status \in Pending : Write(p, status)
                 /\ Step(p, "installing") \/ Step(p, "upgrading")
        <5>1. NoOther(p)
          BY <4>2, NoWriter
        <5>2. record'[rel] \in Pending
          BY <4>2, WriteChangesOne DEF TypeOK, Pending, Statuses
        <5>3. call'[p].at # "deleting"
          BY <4>2, StepShape
        <5>4. Locks'
          BY <5>1, <5>2, <5>3, LocksKept
        <5>5. QED
          BY <5>2, <5>4 DEF Accounted, Pending
      <4>3. QED
        BY <3>5, <4>1, <4>2 DEF runInstall, runUpgrade, Pending
    <3>6. CASE HelmApplies(p)
      <4>1. Writing(p) /\ NoOther(p)
        <5>1. Writing(p)
          BY <3>6, CallShape DEF HelmApplies, Writing
        <5>2. QED
          BY <5>1, WriterIsAlone
      <4>2. ~Writing(p)'
        BY <3>6, ReturnShape DEF HelmApplies, Writing
      <4>3. Locks'
        BY <4>1, <4>2, LocksKept
      <4>4. CASE /\ objects' = [objects EXCEPT ![call[p].release] = Kinds]
                 /\ Write(p, "deployed")
        <5>1. objects'[rel] = Kinds
          BY <4>4 DEF TypeOK
        <5>2. record'[rel] = "deployed"
          BY <4>4, WriteChangesOne DEF TypeOK, Statuses
        <5>3. QED
          BY <4>3, <5>1, <5>2 DEF Accounted
      <4>5. CASE Write(p, "failed")
        <5>1. record'[rel] = "failed"
          BY <4>5, WriteChangesOne DEF TypeOK, Statuses
        <5>2. QED
          BY <4>3, <5>1 DEF Accounted
      <4>6. CASE UNCHANGED record
        <5>1. record[rel] \in Pending
          BY <3>6, CallShape DEF HelmApplies, Locks, WrittenFirst
        <5>2. QED
          BY <4>3, <4>6, <5>1 DEF Accounted, Pending
      <4>7. QED
        BY <3>6, <4>4, <4>5, <4>6 DEF HelmApplies
    <3>7. CASE HelmMarks(p)
      <4>1. NoOther(p)
        BY <3>7, CallShape, WriterIsAlone DEF HelmMarks
      <4>2. UNCHANGED objects
        BY <3>7 DEF HelmMarks
      <4>3. CASE UNCHANGED record /\ \E res \in Results : Return(p, res)
        <5>1. ~Writing(p)'
          BY <4>3, ReturnShape DEF Writing
        <5>2. Locks'
          BY <4>3, <5>1, LocksKept
        <5>3. QED
          BY <4>2, <4>3, <5>2 DEF Accounted
      <4>4. CASE Write(p, "uninstalling") /\ Step(p, "deleting")
        <5>1. record'[rel] = "uninstalling"
          BY <4>4, WriteChangesOne DEF TypeOK, Statuses
        <5>2. call'[p].at = "deleting"
          BY <4>4, StepShape
        <5>3. Locks'
          BY <4>1, <5>1, <5>2, LocksKept
        <5>4. QED
          BY <5>1, <5>3 DEF Accounted
      <4>5. QED
        BY <3>7, <4>3, <4>4 DEF HelmMarks, Results
    <3>8. CASE HelmDeletes(p)
      <4>1. NoOther(p) /\ record[rel] = "uninstalling"
        BY <3>8, CallShape, WriterIsAlone DEF HelmDeletes, Locks, WrittenFirst
      <4>2. ~Writing(p)'
        BY <3>8, ReturnShape DEF HelmDeletes, Writing
      <4>3. Locks'
        BY <4>1, <4>2, LocksKept
      <4>4. CASE Write(p, "none") /\ objects' = [objects EXCEPT ![call[p].release] = {}]
        <5>1. objects'[rel] = {}
          BY <4>4 DEF TypeOK
        <5>2. record'[rel] = "none"
          BY <4>4, WriteChangesOne DEF TypeOK, Statuses
        <5>3. QED
          BY <4>3, <5>1, <5>2 DEF Accounted
      <4>5. CASE UNCHANGED record
        BY <4>1, <4>3, <4>5 DEF Accounted
      <4>6. QED
        BY <3>8, <4>4, <4>5 DEF HelmDeletes
    <3>9. CASE Kill(p)
      <4>1. ~Writing(p)' /\ UNCHANGED record
        BY <3>9, ReturnShape DEF Kill, Writing
      <4>2. Locks'
        BY <4>1, LocksKept
      <4>3. CASE Writing(p)
        <5>1. record[rel] \in Pending \cup {"uninstalling"}
          BY <4>3 DEF Locks, WrittenFirst, Writing
        <5>2. QED
          BY <4>1, <4>2, <5>1 DEF Accounted, Pending
      <4>4. CASE ~Writing(p)
        <5>1. UNCHANGED objects
          BY <3>9, <4>4 DEF Kill, Writing
        <5>2. QED
          BY <4>1, <4>2, <5>1 DEF Accounted
      <4>5. QED
        BY <4>3, <4>4
    <3>10. QED
      BY <3>4, <3>5, <3>6, <3>7, <3>8, <3>9 DEF Running
  <2>2. ASSUME NEW p \in Processes, NEW r \in Releases, MayApply(r), Apply(p, r)
        PROVE  Locks' /\ \A s \in Releases : Accounted(s)'
    <3>1. /\ UNCHANGED <<record, objects>>
          /\ \A q \in Processes \ {p} : call'[q] = call[q]
          /\ call'[p] = [op |-> "apply", release |-> r, at |-> "query"]
      BY <2>2, <2>a DEF Apply, TypeOK
    <3>2. \A q \in Processes :
            call[q] # Idle /\ call[q].release = r => call[q].op # "uninstall"
      BY <2>2 DEF MayApply, Busy
    <3>3. Locks'
      BY <2>a, <3>1, <3>2 DEF Locks, WrittenFirst, UninstallsAlone, OneWriter, Writing
    <3>4. QED
      BY <2>a, <3>1, <3>3 DEF Accounted
  <2>3. ASSUME NEW p \in Processes, NEW r \in Releases, NEW hooks \in BOOLEAN,
               MayUninstall(r), Uninstall(p, r, hooks)
        PROVE  Locks' /\ \A s \in Releases : Accounted(s)'
    <3>1. /\ UNCHANGED <<record, objects>>
          /\ \A q \in Processes \ {p} : call'[q] = call[q]
          /\ \/ call'[p] = [op |-> "uninstall", release |-> r, at |-> "query",
                             hooks |-> hooks]
             \/ call'[p] = call[p]
      BY <2>3, <2>a DEF Uninstall, TypeOK
    <3>2. \A q \in Processes : call[q] # Idle => call[q].release # r
      BY <2>3 DEF MayUninstall, Busy
    <3>3. Locks'
      BY <2>a, <3>1, <3>2 DEF Locks, WrittenFirst, UninstallsAlone, OneWriter, Writing
    <3>4. QED
      BY <2>a, <3>1, <3>3 DEF Accounted
  <2>4. ASSUME UNCHANGED <<record, objects, call>>
        PROVE  Locks' /\ \A s \in Releases : Accounted(s)'
    BY <2>4, <2>a DEF Locks, WrittenFirst, UninstallsAlone, OneWriter, Writing, Accounted
  <2>5. QED
    BY <2>1, <2>2, <2>3, <2>4 DEF Next, Cancel, Restart, vars
<1>3. QED
  BY <1>1, <1>2, TypeCorrect, PTL DEF Spec

-----------------------------------------------------------------------------
(* What follows from it                                                    *)

(* NoOrphans: whatever is on the cluster is on record.                     *)
THEOREM NothingIsOrphaned == Spec => []NoOrphans
<1>1. IInv => NoOrphans
  BY DEF IInv
<1>2. QED
  BY <1>1, Inductive, PTL

(* DeployedIsComplete: a release on record as deployed is there in full.   *)
THEOREM DeployedIsWhole == Spec => []DeployedIsComplete
<1>1. IInv => DeployedIsComplete
  BY DEF IInv
<1>2. QED
  BY <1>1, Inductive, PTL

(* OneWriter: of any number of processes one at a time changes the objects *)
(* of a release, whatever releaseExists told them.                         *)
THEOREM RecordIsALock == Spec => []OneWriter
<1>1. IInv => OneWriter
  BY DEF IInv
<1>2. QED
  BY <1>1, Inductive, PTL

(* While a call is in flight there is no result of it.                     *)
NoResultYet == \A p \in Processes : call[p] # Idle => result[p] = "none"

(* A running process ends its call or has still no result; the results of  *)
(* the others stay.                                                        *)
LEMMA ResultShape ==
    ASSUME TypeOK, NEW p \in Processes, Running(p) \/ Kill(p)
    PROVE  /\ \A q \in Processes \ {p} : result'[q] = result[q]
           /\ call'[p] = Idle \/ result'[p] = result[p]
<1>1. CASE \E res : Return(p, res)
  BY <1>1 DEF Return, TypeOK
<1>2. CASE \E step : Step(p, step)
  BY <1>2 DEF Step
<1>3. QED
  BY <1>1, <1>2 DEF Running, Kill, ApplyQuery, runInstall, runUpgrade, HelmApplies,
     UninstallQuery, UninstallRun, HelmMarks, HelmDeletes

(* Every step of any process keeps that.                                   *)
LEMMA NoResultStep ==
    ASSUME TypeOK, NoResultYet, [Next]_vars PROVE NoResultYet'
<1>1. ASSUME NEW p \in Processes, Running(p) \/ Kill(p) PROVE NoResultYet'
  BY <1>1, RunningShape, ResultShape DEF NoResultYet
<1>2. ASSUME NEW p \in Processes, NEW r \in Releases,
             Apply(p, r) \/ \E hooks \in BOOLEAN : Uninstall(p, r, hooks)
      PROVE  NoResultYet'
  BY <1>2 DEF Apply, Uninstall, NoResultYet, TypeOK
<1>3. ASSUME NEW p \in Processes, Cancel(p) \/ Restart(p) PROVE NoResultYet'
  BY <1>3 DEF Cancel, Restart, NoResultYet
<1>4. CASE UNCHANGED vars
  BY <1>4 DEF vars, NoResultYet
<1>5. QED
  BY <1>1, <1>2, <1>3, <1>4 DEF Next

(* NotFoundMeansGone: when Uninstall answers ErrReleaseNotFound, which the *)
(* cleaner takes for nothing left to do, nothing of the release is left,   *)
(* or an uninstall of it was cut short.                                    *)
THEOREM NotFoundIsGone == Spec => NotFoundMeansGone
<1> DEFINE Gone == \A p \in Processes :
                     call[p] # Idle /\ result'[p] = "notfound" =>
                       \/ objects[call[p].release] = {}
                       \/ record[call[p].release] = "uninstalling"
<1>1. Init => NoResultYet
  BY DEF Init, NoResultYet
<1>2. ASSUME IInv, NoResultYet, [Next]_vars, NEW p \in Processes,
             call[p] # Idle, result'[p] = "notfound"
      PROVE  \/ objects[call[p].release] = {}
             \/ record[call[p].release] = "uninstalling"
  <2>1. TypeOK /\ NoOrphans /\ call[p].release \in Releases /\ result[p] = "none"
    BY <1>2, CallShape DEF IInv, NoResultYet
  <2>2. CASE Running(p)
    <3>1. CASE UninstallQuery(p) /\ ~releaseExists(call[p].release)
      BY <2>1, <3>1 DEF releaseExists, NoOrphans
    <3>2. CASE \E res \in {"ok", "error", "cancelled"} : Return(p, res)
      BY <1>2, <2>1, <3>2 DEF Return, TypeOK
    <3>3. CASE \E step : Step(p, step)
      BY <1>2, <2>1, <3>3 DEF Step
    <3>4. QED
      BY <2>2, <3>1, <3>2, <3>3 DEF Running, ApplyQuery, runInstall, runUpgrade, HelmApplies,
         UninstallQuery, UninstallRun, HelmMarks, HelmDeletes
  <2>3. CASE Kill(p)
    BY <1>2, <2>1, <2>3 DEF Kill, Return, TypeOK
  <2>4. ASSUME NEW q \in Processes \ {p}, Running(q) \/ Kill(q) PROVE FALSE
    BY <1>2, <2>1, <2>4, ResultShape
  <2>5. ASSUME NEW q \in Processes, NEW r \in Releases,
               Apply(q, r) \/ \E hooks \in BOOLEAN : Uninstall(q, r, hooks)
        PROVE  FALSE
    BY <1>2, <2>1, <2>5 DEF Apply, Uninstall, TypeOK
  <2>6. ASSUME NEW q \in Processes, Cancel(q) \/ Restart(q) PROVE FALSE
    BY <1>2, <2>1, <2>6 DEF Cancel, Restart
  <2>7. CASE UNCHANGED vars
    BY <1>2, <2>1, <2>7 DEF vars
  <2>8. QED
    BY <1>2, <2>2, <2>3, <2>4, <2>5, <2>6, <2>7 DEF Next
<1>3. IInv /\ NoResultYet /\ [Next]_vars => [Gone]_vars
  BY <1>2
<1>4. TypeOK /\ NoResultYet /\ [Next]_vars => NoResultYet'
  BY NoResultStep
<1>5. QED
  BY <1>1, <1>3, <1>4, Inductive, TypeCorrect, PTL DEF Spec, NotFoundMeansGone
=============================================================================
