---------------------------- MODULE HelmRelease ----------------------------
(***************************************************************************)
(* SDKInstaller.Apply and SDKInstaller.Uninstall (internal/helm) over the  *)
(* releases that Helm stores in the cluster.                               *)
(*                                                                         *)
(* A CLI process makes one call at a time, for any release.  A call reads  *)
(* the release's history (releaseExists) and then hands over to Helm,      *)
(* which reads it again, writes a record of what it is about to do, does   *)
(* it, and writes what came of it.  Several processes may share a cluster. *)
(* Any step may fail and a process may be killed between any two; the      *)
(* record it leaves is what the next call goes by.  Helm itself is a       *)
(* library: what its actions do to record and objects is modelled here and *)
(* marked external.                                                        *)
(***************************************************************************)
EXTENDS Naturals, FiniteSets

CONSTANTS
    Processes,      \* CLI processes that work on the cluster
    Releases,       \* releases, each a name in a namespace
    Kinds,          \* groups of objects a chart renders
    Interrupts      \* whether a call may be cut short: the process killed, a
                    \* deletion given up halfway, a failure not recorded

ASSUME HelmAssumption ==
    /\ Kinds # {}
    /\ Interrupts \in BOOLEAN

VARIABLES
    record,     \* status of a release's latest revision, or none
    objects,    \* which of its objects are on the cluster
    call,       \* each process's call in flight: its operation, release, step
    result,     \* what its last call returned
    cancelled   \* whether its context is cancelled

vars == <<record, objects, call, result, cancelled>>

Pending  == {"pending-install", "pending-upgrade"}
Statuses == Pending \cup {"none", "deployed", "failed", "uninstalling", "uninstalled"}

(* While a call is in flight there is no result.                           *)
Results == {"none", "ok", "notfound", "error", "cancelled", "killed"}

ApplySteps     == {"query", "install", "installing", "upgrade", "upgrading"}
UninstallSteps == {"query", "uninstall", "marking", "deleting"}

Calls == [op : {"apply"}, release : Releases, at : ApplySteps]
         \cup [op : {"uninstall"}, release : Releases, at : UninstallSteps,
               hooks : BOOLEAN]

Idle == [op |-> "none"]

TypeOK ==
    /\ record \in [Releases -> Statuses]
    /\ objects \in [Releases -> SUBSET Kinds]
    /\ call \in [Processes -> Calls \cup {Idle}]
    /\ result \in [Processes -> Results]
    /\ cancelled \in [Processes -> BOOLEAN]

(* Somebody may have uninstalled a release and kept its history.           *)
Init ==
    /\ record \in [Releases -> {"none", "uninstalled"}]
    /\ objects = [r \in Releases |-> {}]
    /\ call = [p \in Processes |-> Idle]
    /\ result = [p \in Processes |-> "none"]
    /\ cancelled = [p \in Processes |-> FALSE]

-----------------------------------------------------------------------------
(* Helpers                                                                 *)

At(p, op, step) == call[p].op = op /\ call[p].at = step

Step(p, step) == call' = [call EXCEPT ![p].at = step] /\ UNCHANGED result

Return(p, res) ==
    /\ call' = [call EXCEPT ![p] = Idle]
    /\ result' = [result EXCEPT ![p] = res]

Write(p, status) == record' = [record EXCEPT ![call[p].release] = status]

(* Mutant: only a release that is up counts.                               *)
releaseIsUp(r) == record[r] = "deployed"

(* The latest revision decides: a history that ends in an uninstall is no  *)
(* release, and one that Helm has begun to uninstall is none either.       *)
releaseExists(r) == record[r] \notin {"none", "uninstalled", "uninstalling"}

-----------------------------------------------------------------------------
(* Apply                                                                   *)

Apply(p, r) ==
    /\ call[p] = Idle
    /\ call' = [call EXCEPT ![p] = [op |-> "apply", release |-> r, at |-> "query"]]
    /\ result' = [result EXCEPT ![p] = "none"]
    /\ UNCHANGED <<record, objects, cancelled>>

(* Mutant: a release that is there is taken for one to remove.             *)
ApplyQueryMixedUp(p) ==
    /\ At(p, "apply", "query")
    /\ Step(p, IF releaseExists(call[p].release) THEN "uninstall" ELSE "install")
    /\ UNCHANGED <<record, objects, cancelled>>

(* Options, values or the query may be refused.                            *)
ApplyQuery(p) ==
    /\ At(p, "apply", "query")
    /\ \/ Step(p, IF releaseExists(call[p].release) THEN "upgrade" ELSE "install")
       \/ Return(p, "error")
    /\ UNCHANGED <<record, objects, cancelled>>

(* helm install without Replace refuses a name that has any history.       *)
runInstall(p) ==
    /\ At(p, "apply", "install")
    /\ \/ /\ record[call[p].release] = "none"
          /\ Write(p, "pending-install")
          /\ Step(p, "installing")
       \/ Return(p, "error") /\ UNCHANGED record
    /\ UNCHANGED <<objects, cancelled>>

(* Mutant: an upgrade does not ask what is pending (helm's --force of old). *)
runUpgradeForced(p) ==
    /\ At(p, "apply", "upgrade")
    /\ \/ /\ record[call[p].release] # "none"
          /\ Write(p, "pending-upgrade")
          /\ Step(p, "upgrading")
       \/ Return(p, "error") /\ UNCHANGED record
    /\ UNCHANGED <<objects, cancelled>>

(* helm upgrade refuses a release that another operation has pending, and  *)
(* one that has nothing deployed and did not fail.                         *)
runUpgrade(p) ==
    /\ At(p, "apply", "upgrade")
    /\ \/ /\ record[call[p].release] \in {"deployed", "failed"}
          /\ Write(p, "pending-upgrade")
          /\ Step(p, "upgrading")
       \/ Return(p, "error") /\ UNCHANGED record
    /\ UNCHANGED <<objects, cancelled>>

(* Mutant: what was made by the time of the error counts as deployed.      *)
HelmAppliesInPart(p) ==
    /\ At(p, "apply", "installing") \/ At(p, "apply", "upgrading")
    /\ \E made \in SUBSET Kinds :
         objects' = [objects EXCEPT ![call[p].release] = @ \cup made]
    /\ Write(p, "deployed")
    /\ Return(p, "ok")
    /\ UNCHANGED cancelled

(* The objects are created, one after another, and the outcome written; a  *)
(* cancelled context ends the wait for them as a failure.  What stops the  *)
(* objects may stop the writing of the failure too.                        *)
HelmApplies(p) ==
    /\ At(p, "apply", "installing") \/ At(p, "apply", "upgrading")
    /\ \/ /\ ~cancelled[p]
          /\ objects' = [objects EXCEPT ![call[p].release] = Kinds]
          /\ Write(p, "deployed")
          /\ Return(p, "ok")
       \/ /\ \E made \in SUBSET Kinds :
               objects' = [objects EXCEPT ![call[p].release] = @ \cup made]
          /\ Write(p, "failed") \/ (Interrupts /\ UNCHANGED record)
          /\ Return(p, "error")
    /\ UNCHANGED cancelled

-----------------------------------------------------------------------------
(* Uninstall                                                               *)

(* ctx.Err() at the entry.                                                 *)
Uninstall(p, r, hooks) ==
    /\ call[p] = Idle
    /\ \/ /\ ~cancelled[p]
          /\ call' = [call EXCEPT ![p] = [op |-> "uninstall", release |-> r,
                                         at |-> "query", hooks |-> hooks]]
          /\ result' = [result EXCEPT ![p] = "none"]
       \/ /\ cancelled[p]
          /\ result' = [result EXCEPT ![p] = "cancelled"]
          /\ UNCHANGED call
    /\ UNCHANGED <<record, objects, cancelled>>

UninstallQuery(p) ==
    /\ At(p, "uninstall", "query")
    /\ \/ Step(p, "uninstall") /\ releaseExists(call[p].release)
       \/ Return(p, "notfound") /\ ~releaseExists(call[p].release)
       \/ Return(p, "error")
    /\ UNCHANGED <<record, objects, cancelled>>

(* ctx.Err() before un.Run, which is not given ctx: what it does after     *)
(* this check it does whether or not a Ctrl-C comes.                       *)
UninstallRun(p) ==
    /\ At(p, "uninstall", "uninstall")
    /\ \/ cancelled[p] /\ Return(p, "cancelled")
       \/ ~cancelled[p] /\ Step(p, "marking")
    /\ UNCHANGED <<record, objects, cancelled>>

(* Helm reaches for the server, reads the history again, runs pre-delete   *)
(* hooks, for as long as the timeout, and then writes what it is about to  *)
(* do.  A release without a history, or a failure before that write, ends  *)
(* the call.                                                               *)
HelmMarks(p) ==
    /\ At(p, "uninstall", "marking")
    /\ \/ Return(p, "error") /\ UNCHANGED record
       \/ /\ record[call[p].release] # "none"
          /\ Write(p, "uninstalling")
          /\ Step(p, "deleting")
    /\ UNCHANGED <<objects, cancelled>>

(* Mutant: the history goes whether or not the objects could be deleted.   *)
HelmDeletesHistory(p) ==
    /\ At(p, "uninstall", "deleting")
    /\ \E left \in SUBSET objects[call[p].release] :
         objects' = [objects EXCEPT ![call[p].release] = left]
    /\ Write(p, "none")
    /\ Return(p, "error")
    /\ UNCHANGED cancelled

(* Helm deletes the objects and then the history (KeepHistory is not set). *)
(* An object that cannot be deleted is an error and the history stays, as  *)
(* it is if a pre-delete hook fails of which Helm has recorded the start;  *)
(* a failing post-delete hook is an error after everything is deleted.     *)
HelmDeletes(p) ==
    /\ At(p, "uninstall", "deleting")
    /\ \/ /\ objects' = [objects EXCEPT ![call[p].release] = {}]
          /\ Write(p, "none")
          /\ \/ Return(p, "ok")
             \/ call[p].hooks /\ Return(p, "error")
       \/ /\ Interrupts
          /\ \E left \in SUBSET objects[call[p].release] :
               objects' = [objects EXCEPT ![call[p].release] = left]
          /\ Return(p, "error")
          /\ UNCHANGED record
    /\ UNCHANGED cancelled

-----------------------------------------------------------------------------
(* The processes                                                           *)

Cancel(p) ==
    /\ ~cancelled[p]
    /\ cancelled' = [cancelled EXCEPT ![p] = TRUE]
    /\ UNCHANGED <<record, objects, call, result>>

(* SIGKILL, a lost node, or a second operator's patience: the call ends    *)
(* where it is, with some of its objects made or deleted.                  *)
Kill(p) ==
    /\ Interrupts
    /\ call[p] # Idle
    /\ Return(p, "killed")
    /\ \/ /\ call[p].at \in {"installing", "upgrading"}
          /\ \E made \in SUBSET Kinds :
               objects' = [objects EXCEPT ![call[p].release] = @ \cup made]
       \/ /\ call[p].at = "deleting"
          /\ \E left \in SUBSET objects[call[p].release] :
               objects' = [objects EXCEPT ![call[p].release] = left]
       \/ /\ call[p].at \notin {"installing", "upgrading", "deleting"}
          /\ UNCHANGED objects
    /\ UNCHANGED <<record, cancelled>>

(* The operator's next process starts with a context of its own.           *)
Restart(p) ==
    /\ call[p] = Idle
    /\ cancelled[p]
    /\ cancelled' = [cancelled EXCEPT ![p] = FALSE]
    /\ UNCHANGED <<record, objects, call, result>>

Running(p) ==
    \/ ApplyQuery(p) \/ runInstall(p) \/ runUpgrade(p) \/ HelmApplies(p)
    \/ UninstallQuery(p) \/ UninstallRun(p) \/ HelmMarks(p) \/ HelmDeletes(p)

(* The operators' part: they may apply one release from several processes, *)
(* but a release that is being uninstalled is left to one of them.  Helm   *)
(* has no lock for that, and the model no revisions to tell what it does.  *)
Busy(r) == {p \in Processes : call[p] # Idle /\ call[p].release = r}

MayApply(r) == \A p \in Busy(r) : call[p].op # "uninstall"

MayUninstall(r) == Busy(r) = {}

(* The operators make calls in any order.                                  *)
Next ==
    \E p \in Processes :
      \/ Running(p)
      \/ \E r \in Releases :
           \/ MayApply(r) /\ Apply(p, r)
           \/ MayUninstall(r) /\ \E hooks \in BOOLEAN : Uninstall(p, r, hooks)
      \/ Cancel(p)
      \/ Kill(p)
      \/ Restart(p)

Spec == Init /\ [][Next]_vars

-----------------------------------------------------------------------------
(* Properties                                                              *)

(* Whatever is on the cluster is on record: a call that failed or was      *)
(* killed leaves no objects that no history accounts for.                  *)
NoOrphans ==
    \A r \in Releases : record[r] \in {"none", "uninstalled"} => objects[r] = {}

(* A release whose latest revision is deployed has all its objects, though *)
(* earlier calls for it failed, were killed or are being repeated.         *)
DeployedIsComplete ==
    \A r \in Releases : record[r] = "deployed" => objects[r] = Kinds

(* The steps at which a call changes objects.                              *)
Writing(p) ==
    call[p] # Idle /\ call[p].at \in {"installing", "upgrading", "deleting"}

(* Two processes may both be told by releaseExists that a release is there *)
(* or that it is not, and go on from what no longer holds; Helm's record   *)
(* is the lock that lets one of them at the objects at a time.             *)
OneWriter ==
    \A p, q \in Processes :
      Writing(p) /\ Writing(q) /\ call[p].release = call[q].release => p = q

(* Why these hold: Helm writes what it is about to do before it does it,   *)
(* so the objects of a release change only under a record that says they   *)
(* may be incomplete, which no other call takes over.                      *)
WrittenFirst ==
    \A p \in Processes :
      call[p] # Idle =>
        /\ call[p].at \in {"installing", "upgrading"} =>
             record[call[p].release] \in Pending
        /\ call[p].at = "deleting" => record[call[p].release] = "uninstalling"

UninstallsAlone ==
    \A p, q \in Processes :
      /\ call[p] # Idle /\ call[p].op = "uninstall"
      /\ call[q] # Idle /\ call[q].release = call[p].release
      => p = q

IInv ==
    /\ TypeOK /\ NoOrphans /\ DeployedIsComplete
    /\ WrittenFirst /\ UninstallsAlone /\ OneWriter

(* helm.go:112: ErrReleaseNotFound "is returned by SDKInstaller.Uninstall  *)
(* when the named release doesn't exist (so the cleaner can treat it as a  *)
(* no-op)": there is nothing of it left to remove, unless an uninstall of  *)
(* it was cut short.                                                       *)
NotFoundMeansGone ==
    [][\A p \in Processes :
         call[p] # Idle /\ result'[p] = "notfound" =>
           \/ objects[call[p].release] = {}
           \/ record[call[p].release] = "uninstalling"]_vars
=============================================================================
