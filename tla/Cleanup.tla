------------------------------ MODULE Cleanup ------------------------------
(***************************************************************************)
(* Cleaner.Cleanup (internal/cleaner): one cluster torn down by one or     *)
(* more runs of `palette-ai-instance cleanup'.                             *)
(*                                                                         *)
(* A run uninstalls the releases of its plan, giving up at the first       *)
(* error, deletes the namespaces, and clears the admission webhooks.  The  *)
(* DropContract promises, which NamespaceDrop implements.  A run may fail, *)
(* be interrupted or be killed anywhere, and the operator runs cleanup     *)
(* again, with the same flags or others.                                   *)
(***************************************************************************)
EXTENDS Naturals, Sequences, FiniteSets

CONSTANTS
    HubNamespace,   \* cluster.Namespace, where deploy put mural
    Ancillary,      \* ancillaryNamespaces
    Labelled,       \* namespaces that carry the chart's labels
    StaleHooks,     \* staleWebhooks
    LabelledHooks,  \* webhooks that carry the chart's labels
    Deployed,       \* statuses of releases that earlier deploys may have left
    Requests,       \* requests the operator makes
    Interrupts,     \* whether a run may be cut short within Helm
    MaxFaults       \* how many calls fail, time out or are interrupted, at most

ASSUME CleanupAssumption ==
    /\ IsFiniteSet(Ancillary \cup Labelled \cup StaleHooks \cup LabelledHooks)
    /\ Deployed \subseteq {"deployed", "failed", "pending-install"}
    /\ Requests # {}
    /\ Requests \subseteq [level : {"uninstall", "full", "reset"},
                           keepQueue : BOOLEAN, keepCertManager : BOOLEAN]
    /\ Interrupts \in BOOLEAN
    /\ MaxFaults \in Nat

Kinds == {"namespaced", "clusterwide"}

(* One process at a time works on the cluster.                             *)
cli == "cli"

Processes == {cli}

(* A release is a name in a namespace.                                     *)
mural       == <<"mural", "mural-system">>
muralCRDs   == <<"mural-crds", "mural-system">>
queue       == <<"queue", "messaging">>
certManager == <<"cert-manager", "cert-manager">>

(* Mutant: the order in which deploy installs the hub.                     *)
planInInstallOrder == <<certManager, queue, muralCRDs, mural>>

(* Reverse install order, and the hub's namespace is written out.          *)
plan == <<mural, muralCRDs, queue, certManager>>

(* What deploy installs for this cluster.                                  *)
DeployedReleases ==
    {<<"mural", HubNamespace>>, <<"mural-crds", HubNamespace>>, queue, certManager}

Releases == DeployedReleases \cup {plan[i] : i \in DOMAIN plan}

Namespaces == {r[2] : r \in Releases} \cup Ancillary \cup Labelled

(* releaseSpec.skip: the --keep flags.                                     *)
Skip(r, request) ==
    \/ r = queue /\ request.keepQueue
    \/ r = certManager /\ request.keepCertManager

(* Only mural is uninstalled with --no-hooks.                              *)
RunsHooks(r) == r # mural

(* Mutant: the plan's namespaces are taken without asking the keep flags.  *)
namespacesForAll(request, discovered) ==
    {plan[i][2] : i \in DOMAIN plan} \cup Ancillary \cup discovered

(* The plan's namespaces but those kept, the static list, and whatever the *)
(* label query returned.                                                   *)
namespacesFor(request, discovered) ==
    {plan[i][2] : i \in {j \in DOMAIN plan : ~Skip(plan[j], request)}}
      \cup Ancillary \cup discovered

VARIABLES
    record, objects, call, result, cancelled,   \* HelmRelease's
    list, gone, outcome,                        \* DropContract's
    phase,      \* where the run is
    req,        \* the request of the run, or of the last one
    next,       \* index in the plan of the release to uninstall
    doomed,     \* namespaces the server was asked to delete and still has
    sent,       \* what the DELETEs that were out at the Ctrl-C are for
    hooks,      \* stale admission webhooks on the cluster
    sweep,      \* those the run has still to delete
    verdict,    \* what the last run returned
    faults,     \* history: faults so far
    lost        \* history: releases whose objects outlived an uninstall that
                \* was cut short, or their history

helmVars == <<record, objects, call, result, cancelled, lost>>
dropVars == <<list, gone, outcome>>
hookVars == <<hooks, sweep>>
runVars  == <<phase, req, next, verdict>>
vars == <<helmVars, dropVars, hookVars, runVars, doomed, sent, faults>>

Helm == INSTANCE HelmRelease

inFlight    == call[cli]
returned    == result[cli]
interrupted == cancelled[cli]

(* While phase is drop, dropNamespaces has not returned.                   *)
Drop == INSTANCE DropContract WITH result <- "none"

TypeOK ==
    /\ Helm!TypeOK
    /\ list \subseteq Namespaces
    /\ gone \subseteq Namespaces
    /\ outcome \in [Namespaces -> {"pending", "ok", "failed"}]
    /\ phase \in {"idle", "uninstall", "list", "drop", "sweep", "hooks"}
    /\ req \in Requests
    /\ next \in 1 .. Len(plan) + 1
    /\ verdict \in {"none", "ok", "error", "killed"}
    /\ doomed \subseteq Namespaces
    /\ sent \subseteq Namespaces \cup StaleHooks \cup LabelledHooks
    /\ hooks \subseteq StaleHooks \cup LabelledHooks
    /\ sweep \subseteq StaleHooks \cup LabelledHooks
    /\ faults \in 0 .. MaxFaults
    /\ lost \subseteq Releases

(* Any release may be there, in a state an earlier deploy left it in, and  *)
(* the mural runtime may have made its namespaces and webhooks.            *)
Init ==
    /\ record \in [Releases -> Deployed \cup {"none"}]
    /\ objects \in [Releases -> SUBSET Kinds]
    /\ \A r \in Releases :
         /\ r \notin DeployedReleases => record[r] = "none"
         /\ record[r] = "none" => objects[r] = {}
         /\ record[r] = "deployed" => objects[r] = Kinds
    /\ call = [p \in Processes |-> Helm!Idle]
    /\ result = [p \in Processes |-> "none"]
    /\ cancelled = [p \in Processes |-> FALSE]
    /\ list = {}
    /\ gone \in {{}, Ancillary \ Labelled}
    /\ outcome = [ns \in Namespaces |-> "pending"]
    /\ phase = "idle"
    /\ req = CHOOSE request \in Requests : TRUE
    /\ next = 1
    /\ verdict = "none"
    /\ doomed = {}
    /\ sent = {}
    /\ hooks \in {{}, StaleHooks \cup LabelledHooks}
    /\ sweep = {}
    /\ faults = 0
    /\ lost = {}

-----------------------------------------------------------------------------
(* A run                                                                   *)

(* A call fails for a reason of its own, one of MaxFaults, or because the  *)
(* context is cancelled.                                                   *)
Fault == faults < MaxFaults /\ faults' = faults + 1
CallFails == Fault \/ (interrupted /\ UNCHANGED faults)

(* The run returns; its loop variables go with it.                         *)
Finish(v) == phase' = "idle" /\ verdict' = v /\ next' = 1 /\ UNCHANGED req

NoDrop ==
    /\ list' = {}
    /\ outcome' = [ns \in Namespaces |-> "pending"]
    /\ sent' = {}
    /\ UNCHANGED gone

Goto(p) == phase' = p /\ UNCHANGED <<req, next, verdict>>

(* The operator starts a run; a config that does not load, or a level that *)
(* is not one, is refused before anything is done.                         *)
Start(request) ==
    /\ phase = "idle"
    /\ \/ phase' = (IF request.level = "reset" THEN "list" ELSE "uninstall")
          /\ verdict' = "none"
          /\ UNCHANGED faults
       \/ phase' = "idle" /\ verdict' = "error" /\ Fault
    /\ req' = request
    /\ next' = 1
    /\ cancelled' = [cancelled EXCEPT ![cli] = FALSE]
    /\ result' = [result EXCEPT ![cli] = "none"]
    /\ UNCHANGED <<record, objects, call, lost, dropVars, hookVars, doomed, sent>>

Uninstalling(i) ==
    phase = "uninstall" /\ inFlight = Helm!Idle /\ returned = "none" /\ next = i

(* Mutant: the release after a kept one is passed over too.                *)
UninstallNextButOne ==
    \E i \in DOMAIN plan :
      /\ Uninstalling(i)
      /\ IF Skip(plan[i], req)
         THEN next' = i + 2 /\ UNCHANGED <<phase, req, verdict, helmVars>>
         ELSE Helm!Uninstall(cli, plan[i], RunsHooks(plan[i])) /\ UNCHANGED <<runVars, lost>>
      /\ UNCHANGED <<dropVars, hookVars, doomed, sent, faults>>

(* ctx is looked at between releases.                                      *)
UninstallNext ==
    \E i \in DOMAIN plan :
      /\ Uninstalling(i)
      /\ \/ interrupted /\ Finish("error") /\ UNCHANGED helmVars
         \/ /\ ~interrupted /\ Skip(plan[i], req)
            /\ next' = i + 1
            /\ UNCHANGED <<phase, req, verdict, helmVars>>
         \/ /\ ~interrupted /\ ~Skip(plan[i], req)
            /\ Helm!Uninstall(cli, plan[i], RunsHooks(plan[i]))
            /\ UNCHANGED <<runVars, lost>>
      /\ UNCHANGED <<dropVars, hookVars, doomed, sent, faults>>

(* An uninstall that ends with objects left.                               *)
CutShort ==
    lost' = IF inFlight.at = "deleting" /\ objects'[inFlight.release] # {}
            THEN lost \cup {inFlight.release} ELSE lost

(* A step of the installer or of Helm; the errors are faults, unless the   *)
(* history vanished with its namespace.                                    *)
HelmStep ==
    /\ Helm!Running(cli)
    /\ IF returned' = "error" /\ ~(inFlight.at = "marking" /\ record[inFlight.release] = "none")
       THEN Fault ELSE UNCHANGED faults
    /\ CutShort
    /\ UNCHANGED <<dropVars, hookVars, runVars, doomed, sent>>

(* Mutant: an error is logged and the next release taken.                  *)
UninstallReturnsAnyway ==
    /\ phase = "uninstall"
    /\ returned # "none"
    /\ next' = next + 1 /\ UNCHANGED <<phase, req, verdict>>
    /\ result' = [result EXCEPT ![cli] = "none"]
    /\ UNCHANGED <<record, objects, call, cancelled, lost, dropVars, hookVars, doomed, sent,
                   faults>>

(* Mutant: a release that is not there is an error.                        *)
UninstallReturnsStrictly ==
    /\ phase = "uninstall"
    /\ \/ /\ returned = "ok"
          /\ next' = next + 1
          /\ UNCHANGED <<phase, req, verdict>>
       \/ /\ returned \in {"notfound", "error", "cancelled"}
          /\ Finish("error")
    /\ result' = [result EXCEPT ![cli] = "none"]
    /\ UNCHANGED <<record, objects, call, cancelled, lost, dropVars, hookVars, doomed, sent,
                   faults>>

(* ErrReleaseNotFound is no error.                                         *)
UninstallReturns ==
    /\ phase = "uninstall"
    /\ \/ /\ returned \in {"ok", "notfound"}
          /\ next' = next + 1
          /\ UNCHANGED <<phase, req, verdict>>
       \/ /\ returned \in {"error", "cancelled"}
          /\ Finish("error")
    /\ result' = [result EXCEPT ![cli] = "none"]
    /\ UNCHANGED <<record, objects, call, cancelled, lost, dropVars, hookVars, doomed, sent,
                   faults>>

UninstallsDone ==
    /\ Uninstalling(Len(plan) + 1)
    /\ IF req.level = "uninstall" THEN Finish("ok") ELSE Goto("list")
    /\ UNCHANGED <<helmVars, dropVars, hookVars, doomed, sent, faults>>

(* The client is built, the label query made; a query that fails finds     *)
(* nothing and is no error.                                                *)
ListNamespaces ==
    /\ phase = "list"
    /\ \/ Fault /\ Finish("error") /\ UNCHANGED dropVars
       \/ /\ \/ /\ ~interrupted /\ UNCHANGED faults
                /\ list' = namespacesFor(req, Labelled \ gone)
             \/ CallFails /\ list' = namespacesFor(req, {})
          /\ outcome' = [ns \in Namespaces |-> "pending"]
          /\ next' = 1
          /\ phase' = "drop"
          /\ UNCHANGED <<gone, req, verdict>>
    /\ UNCHANGED <<helmVars, hookVars, doomed, sent>>

(* Mutant: the deletions go on under a cancelled context.                  *)
DeleteRegardless(ns) ==
    /\ phase = "drop"
    /\ ns \in list \ gone
    /\ outcome[ns] = "pending"
    /\ doomed' = doomed \cup {ns}
    /\ sent' = sent \ {ns}
    /\ UNCHANGED <<helmVars, dropVars, hookVars, runVars, faults>>

(* dropNamespaces: a namespace is asked to go, and the server does as it   *)
(* is asked; after a Ctrl-C only if the DELETE was out, and that whether   *)
(* or not the call it belongs to has given up,                             *)
Delete(ns) ==
    /\ phase = "drop"
    /\ ns \in list \ gone
    /\ IF interrupted THEN ns \in sent ELSE outcome[ns] = "pending"
    /\ doomed' = doomed \cup {ns}
    /\ sent' = sent \ {ns}
    /\ UNCHANGED <<helmVars, dropVars, hookVars, runVars, faults>>

(* is seen to be gone, or has failed: an error, a timeout, a Ctrl-C;       *)
DropEnds(ns) ==
    /\ phase = "drop"
    /\ \/ ~interrupted /\ Drop!Dropped(ns) /\ UNCHANGED faults
       \/ gone' = gone /\ Drop!Failed(ns) /\ CallFails
    /\ UNCHANGED <<helmVars, hookVars, runVars, doomed, sent>>

(* Mutant: the error of dropNamespaces is logged and the run goes on.      *)
DropReturnsAnyway ==
    /\ phase = "drop"
    /\ Drop!AllDropped \/ Drop!SomeFailed
    /\ Goto("sweep")
    /\ NoDrop
    /\ UNCHANGED <<helmVars, hookVars, doomed, faults>>

(* and the call returns, or, interrupted, may never do so.                 *)
DropReturns ==
    /\ phase = "drop"
    /\ \/ Drop!AllDropped /\ Goto("sweep")
       \/ Drop!SomeFailed /\ Finish("error")
    /\ NoDrop
    /\ UNCHANGED <<helmVars, hookVars, doomed, faults>>

(* The webhooks are the static ones and those a label query returned.      *)
ListHooks ==
    /\ phase = "sweep"
    /\ \/ ~interrupted /\ UNCHANGED faults /\ sweep' = StaleHooks \cup (LabelledHooks \cap hooks)
       \/ CallFails /\ sweep' = StaleHooks
    /\ Goto("hooks")
    /\ UNCHANGED <<helmVars, dropVars, hooks, doomed, sent>>

(* One after another; NotFound is no error, and the first error ends it.   *)
(* A call that fails may have reached the server, after a Ctrl-C if it was *)
(* out by then.                                                            *)
ClearHook ==
    /\ phase = "hooks"
    /\ \E h \in sweep :
         \/ /\ ~interrupted
            /\ hooks' = hooks \ {h}
            /\ sweep' = sweep \ {h}
            /\ UNCHANGED <<runVars, sent, faults>>
         \/ /\ CallFails
            /\ Finish("error")
            /\ \/ hooks' = hooks
               \/ (interrupted => h \in sent) /\ hooks' = hooks \ {h}
            /\ sweep' = {}
            /\ sent' = {}
    /\ UNCHANGED <<helmVars, dropVars, doomed>>

HooksDone ==
    /\ phase = "hooks"
    /\ sweep = {}
    /\ Finish("ok")
    /\ UNCHANGED <<helmVars, dropVars, hookVars, doomed, sent, faults>>

-----------------------------------------------------------------------------
(* The surroundings                                                        *)

(* The server removes a namespace, during the run that asked for it or     *)
(* after; the objects in it go, and with them Helm's history of releases.  *)
Vanish(ns) ==
    /\ ns \in doomed
    /\ Drop!Vanish(ns)
    /\ doomed' = doomed \ {ns}
    /\ record' = [r \in Releases |-> IF r[2] = ns THEN "none" ELSE record[r]]
    /\ objects' = [r \in Releases |->
                     IF r[2] = ns THEN objects[r] \ {"namespaced"} ELSE objects[r]]
    /\ lost' = lost \cup {r \in Releases : r[2] = ns /\ objects'[r] # {}}
    /\ UNCHANGED <<call, result, cancelled, hookVars, runVars, sent, faults>>

(* The DELETEs that may be out: of any namespaces, but one webhook's only. *)
Unanswered ==
    CASE phase = "drop"  -> SUBSET {ns \in list \ (gone \cup doomed) : outcome[ns] = "pending"}
      [] phase = "hooks" -> {{}} \cup {{h} : h \in sweep \cap hooks}
      [] OTHER           -> {{}}

Cancel ==
    /\ phase # "idle"
    /\ Helm!Cancel(cli)
    /\ Fault
    /\ sent' \in Unanswered
    /\ UNCHANGED <<lost, dropVars, hookVars, runVars, doomed>>

(* The process is killed: by accident, or because it does not heed Ctrl-C. *)
Kill ==
    /\ phase # "idle"
    /\ CallFails
    /\ IF inFlight # Helm!Idle THEN Helm!Kill(cli) /\ CutShort ELSE UNCHANGED helmVars
    /\ Finish("killed")
    /\ NoDrop
    /\ sweep' = {}
    /\ UNCHANGED <<hooks, doomed>>

RunStep ==
    \/ UninstallNext \/ HelmStep \/ UninstallReturns \/ UninstallsDone
    \/ ListNamespaces
    \/ \E ns \in Namespaces : Delete(ns) \/ DropEnds(ns)
    \/ DropReturns
    \/ ListHooks \/ ClearHook \/ HooksDone

Next ==
    \/ \E request \in Requests : Start(request)
    \/ RunStep
    \/ \E ns \in Namespaces : Vanish(ns)
    \/ Cancel
    \/ Kill

Spec == Init /\ [][Next]_vars

(* The operator's next run comes, unless the last one went well; what a    *)
(* run can do it does, unless it was interrupted: an interrupted run that  *)
(* does not end is killed.  The server gets its namespaces emptied.        *)
Fairness ==
    /\ WF_vars(verdict # "ok" /\ \E request \in Requests : Start(request))
    /\ WF_vars(~interrupted /\ RunStep)
    /\ WF_vars(interrupted /\ Kill)
    /\ \A ns \in Namespaces : WF_vars(Vanish(ns))

FairSpec == Spec /\ Fairness

-----------------------------------------------------------------------------
(* Properties                                                              *)

Succeeded(levels) == phase = "idle" /\ verdict = "ok" /\ req.level \in levels

Torn == {r \in DeployedReleases : ~Skip(r, req)}

(* A run that deletes namespaces and returns nil has left no history of a  *)
(* release it was to remove, nothing in the releases' namespaces, none of  *)
(* the runtime's namespaces and none of the known webhooks, whatever       *)
(* failed runs came before it (cleaner.go:1: it "reverses what             *)
(* deployer.Deploy set up").                                               *)
SuccessMeansClean ==
    Succeeded({"full", "reset"}) =>
      /\ \A r \in Torn : record[r] = "none" /\ "namespaced" \notin objects[r]
      /\ Ancillary \subseteq gone
      /\ StaleHooks \cap hooks = {}

(* A run that goes through Helm and returns nil has left no object of the  *)
(* releases it was to remove, but of those that were lost: an uninstall of *)
(* theirs was cut short, or their namespace went with their history.       *)
SuccessMeansUninstalled ==
    Succeeded({"uninstall", "full"}) => \A r \in Torn \ lost : objects[r] = {}

(* cleaner.go:204 says of a run that failed that "partial progress is      *)
(* preserved (the operator can retry)", so that a retry that returns nil   *)
(* has removed what the failed run left; the code violates it.             *)
RetryUninstalls ==
    Succeeded({"uninstall", "full"}) => \A r \in Torn : objects[r] = {}

(* Helm removes objects of mural-crds only once mural's are gone           *)
(* (cleaner.go:89: "in reverse install order so dependents (mural) come    *)
(* down before dependencies"), unless mural is lost.                       *)
DependentsFirst ==
    [][(/\ inFlight # Helm!Idle
        /\ inFlight.release = muralCRDs
        /\ inFlight.at = "deleting"
        /\ objects'[muralCRDs] # objects[muralCRDs])
          => objects[mural] = {} \/ mural \in lost]_vars

(* What a --keep flag names is not uninstalled, and its namespace is not   *)
(* deleted unless it carries the hub's labels: the plan and the plan's     *)
(* part of the list of namespaces are told by the same flags, in a run     *)
(* that may come after others with other flags.                            *)
KeptIsLeftAlone ==
    [][\A r \in Releases : Skip(r, req) /\ phase # "idle" =>
         /\ r[2] \in doomed' => r[2] \in doomed \cup Labelled
         /\ inFlight' # Helm!Idle => inFlight'.release # r]_vars

(* cleaner.go:152 says of namespacesFor that it "respects the same Keep*   *)
(* flags as plan()"; the code violates it for what the label query finds.  *)
KeepFlagsCoverLabels ==
    [][\A r \in Releases :
         Skip(r, req) /\ phase # "idle" /\ r[2] \in doomed' => r[2] \in doomed]_vars

(* The release that Helm was told to uninstall and is at.                  *)
handed ==
    IF inFlight # Helm!Idle /\ inFlight.at \in {"marking", "deleting"}
    THEN {inFlight.release} ELSE {}

(* After a Ctrl-C nothing new is begun, in whichever phase of the run it   *)
(* comes: no release but the one that Helm was already told to uninstall   *)
(* is marked, and no namespace or webhook deleted but those whose DELETE   *)
(* was out (installer.go:130: a SIGINT "aborts at the next release         *)
(* boundary").                                                             *)
InterruptIsHeeded ==
    [][interrupted /\ interrupted' =>
         /\ handed' \subseteq handed
         /\ sent' \subseteq sent
         /\ doomed' \subseteq doomed \cup sent
         /\ hooks \subseteq hooks' \cup sent
         /\ \A r \in Releases \ handed :
              record'[r] = "uninstalling" => record[r] = "uninstalling"]_vars

(* The releases a request asks to remove, in order.                        *)
Asked(request) ==
    LET asked(i) == IF Skip(plan[i], request) THEN <<>> ELSE <<plan[i]>>
    IN  asked(1) \o asked(2) \o asked(3) \o asked(4)

(* What the contract's caller sees: the namespaces, what the run is after  *)
(* or has come to, its releases, and the one Helm is deleting.             *)
namespace ==
    [ns \in {r[2] : r \in Releases} |->
       IF ns \in doomed THEN "terminating" ELSE IF ns \in gone THEN "absent" ELSE "active"]

teardown ==
    IF phase = "idle" THEN verdict
    ELSE IF returned \in {"error", "cancelled"} THEN "failing" ELSE req.level

torn == IF phase = "idle" THEN <<>> ELSE Asked(req)

AtStep(at) ==
    IF inFlight # Helm!Idle /\ inFlight.at = at THEN {inFlight.release} ELSE {}

taken == IF interrupted THEN AtStep("marking") ELSE AtStep("uninstall") \cup AtStep("marking")

deleting == AtStep("deleting")

Contract == INSTANCE CleanupContract WITH
    Statuses    <- Helm!Statuses,
    NamespaceOf <- [r \in Releases |-> r[2]],
    Plans       <- {Asked(request) : request \in Requests},
    cancelled   <- interrupted

(* With the hub in mural-system, every step of a run, of Helm's and of the *)
(* server's is one that the command and a later deploy are told to expect: *)
(* releases come down in order and one at a time, namespaces are deleted   *)
(* once no release of the run is there, and nil means all of it is done.   *)
ImplementsContract == Contract!Spec

(* However earlier runs failed, were interrupted or killed, later ones     *)
(* succeed, and in the end everything the plan and the runtime's list name *)
(* is gone for good (cleaner.go:204: "the operator can retry").            *)
Clean ==
    /\ \A r \in Releases : record[r] = "none" /\ r[2] \in gone
    /\ Ancillary \subseteq gone
    /\ StaleHooks \cap hooks = {}

RetriesConverge == <>[]Clean /\ []<>(phase = "idle" /\ verdict = "ok")
=============================================================================
