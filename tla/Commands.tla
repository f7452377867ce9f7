------------------------------ MODULE Commands ------------------------------
(***************************************************************************)
(* The commands `palette-ai-instance deploy' and `cleanup' (internal/cli), *)
(* the Deployer.Deploy that the first calls for each cluster               *)
(* (internal/deployer), over the installer of HelmRelease, and the         *)
(* Cleaner.Cleanup that the second calls, by its CleanupContract.          *)
(*                                                                         *)
(* A command takes the clusters of its configuration in order.  For each,  *)
(* deploy merges the flags with the cluster's deploy: block, applies the   *)
(* releases whose chart is named, one after another, and validates;        *)
(* cleanup tears down at a level.  The first error ends a command.  It may *)
(* fail, be interrupted or be killed anywhere, and the operator gives      *)
(* another, of either kind, on whatever it left.                           *)
(***************************************************************************)
EXTENDS Integers, Sequences, FiniteSets

CONSTANTS
    Clusters,       \* names in cluster_config.yaml, in order
    Config,         \* the deploy: block of each cluster, absent keys as zeros
    Kept,           \* releases somebody may have uninstalled with their history
    Given,          \* commands the operator gives
    Insisted,       \* those that the operator gives again and again
    DefaultTimeout, \* what cobra gives --helm-timeout when it is not set
    MaxFaults       \* how many calls fail or are interrupted, at most

(* The releases in the order Deploy applies them.                          *)
steps == <<"cert-manager", "queue", "mural-crds", "mural">>

(* The cleaner's plan.                                                     *)
plan == <<"mural", "mural-crds", "queue", "cert-manager">>

spaceOf(name) ==
    CASE name = "cert-manager" -> "cert-manager"
      [] name = "queue"        -> "messaging"
      [] OTHER                 -> "mural-system"

(* A chart option is the name of its release: is its URI non-empty?        *)
Options == {steps[i] : i \in DOMAIN steps} \cup {"helm-timeout", "validate"}

Names == {Clusters[i] : i \in DOMAIN Clusters}

Releases == Names \X {steps[i] : i \in DOMAIN steps}

ASSUME CommandsAssumption ==
    /\ Clusters \in Seq(Names) /\ Clusters # <<>>
    /\ \A i, j \in DOMAIN Clusters : Clusters[i] = Clusters[j] => i = j
    /\ \A i \in DOMAIN Clusters : DOMAIN Config[Clusters[i]] = Options
    /\ \A c \in Given : c.verb = "deploy" => DOMAIN c.flags \subseteq Options
    /\ Kept \subseteq Releases
    /\ Given # {}
    /\ Insisted \subseteq Given
    /\ DefaultTimeout \in Int
    /\ MaxFaults \in Nat

Kinds == {"namespaced"}

cli == "cli"

Processes == {cli}

Interrupts == TRUE

VARIABLES
    record, objects, call, result, cancelled,   \* HelmRelease's
    namespace, teardown, torn, taken, deleting, \* CleanupContract's
    phase,      \* where the command is
    command,    \* the command being run, or the last one
    cluster,    \* index of the cluster, in the list the command selects
    step,       \* index of the release to apply
    verdict,    \* what the last command returned
    begunLate,  \* history: Helm operations begun after the Ctrl-C
    faults      \* history: faults so far

helmVars == <<record, objects, call, result, cancelled>>
tearVars == <<namespace, teardown, torn, taken, deleting>>
runVars  == <<phase, command, cluster, step, verdict>>
vars     == <<helmVars, tearVars, runVars, begunLate, faults>>

Helm == INSTANCE HelmRelease

inFlight    == call[cli]
returned    == result[cli]
interrupted == cancelled[cli]

(* What a cleanup of cluster c removes, in order, unless told to keep it.  *)
Asked(c, keep) ==
    LET One(name) == IF name \in keep THEN <<>> ELSE << <<c, name>> >>
    IN  One(plan[1]) \o One(plan[2]) \o One(plan[3]) \o One(plan[4])

Space(r) == <<r[1], spaceOf(r[2])>>

Teardown == INSTANCE CleanupContract WITH
    Statuses    <- Helm!Statuses,
    NamespaceOf <- [r \in Releases |-> Space(r)],
    Plans       <- {},
    cancelled   <- interrupted

(* The flags are those set on the command line (cmd.Flags().Changed).      *)
pick(flags, block, option) ==
    IF option \in DOMAIN flags THEN flags[option] ELSE block[option]

mergeDeployRequest(flags, c) ==
    [option \in Options |-> pick(flags, Config[c], option)]

(* What a string option holds that is not set.                             *)
Unset == ""

(* No name means every cluster of the file; a name it lacks is an error.   *)
selectClusters(cmd) == IF cmd.clusterName = Unset THEN Clusters ELSE <<cmd.clusterName>>

Selected == selectClusters(command)

Current == Selected[cluster]

req == mergeDeployRequest(command.flags, Current)

(* Mutant: cleanup without a level leaves the namespaces alone.            *)
LevelLenient(cmd) == IF cmd.level = Unset THEN "uninstall" ELSE cmd.level

(* No level means full.                                                    *)
Level(cmd) == IF cmd.level = Unset THEN "full" ELSE cmd.level

TypeOK ==
    /\ Helm!TypeOK
    /\ namespace \in [Teardown!Spaces -> {"absent", "active", "terminating"}]
    /\ teardown \in Teardown!Levels \cup {"none", "ok", "error", "killed", "failing"}
    /\ Teardown!Torn \subseteq Releases
    /\ taken \subseteq Releases
    /\ deleting \subseteq Releases
    /\ phase \in {"idle", "cluster", "install", "validate", "teardown"}
    /\ command \in Given
    /\ cluster \in 1 .. Len(Selected) + 1
    /\ step \in 1 .. Len(steps) + 1
    /\ verdict \in {"none", "ok", "error", "killed"}
    /\ begunLate \in Nat
    /\ faults \in 0 .. MaxFaults

(* Fresh clusters, but for the histories somebody kept; the commands       *)
(* themselves make used ones of them.                                      *)
Init ==
    /\ \E kept \in SUBSET Kept :
         /\ record = [r \in Releases |-> IF r \in kept THEN "uninstalled" ELSE "none"]
         /\ namespace = [s \in Teardown!Spaces |->
                           IF \E r \in kept : Space(r) = s THEN "active" ELSE "absent"]
    /\ objects = [r \in Releases |-> {}]
    /\ call = [p \in Processes |-> Helm!Idle]
    /\ result = [p \in Processes |-> "none"]
    /\ cancelled = [p \in Processes |-> FALSE]
    /\ teardown = "none"
    /\ torn = <<>>
    /\ taken = {}
    /\ deleting = {}
    /\ phase = "idle"
    /\ command = CHOOSE c \in Given : TRUE
    /\ cluster = 1
    /\ step = 1
    /\ verdict = "none"
    /\ begunLate = 0
    /\ faults = 0

-----------------------------------------------------------------------------
(* A command                                                               *)

Fault == faults < MaxFaults /\ faults' = faults + 1
CallFails == Fault \/ (interrupted /\ UNCHANGED faults)

Finish(v) ==
    /\ phase' = "idle"
    /\ verdict' = v
    /\ cluster' = 1
    /\ step' = 1
    /\ UNCHANGED command

Goto(p) == phase' = p /\ step' = 1 /\ UNCHANGED <<command, cluster, verdict>>

(* A configuration that does not load, or a cluster it does not name, is   *)
(* an error before anything is done.                                       *)
Start(cmd) ==
    /\ phase = "idle"
    /\ command' = cmd
    /\ \/ /\ cmd.clusterName \in Names \cup {Unset}
          /\ phase' = "cluster"
          /\ verdict' = "none"
          /\ UNCHANGED faults
       \/ /\ Fault \/ (cmd.clusterName \notin Names \cup {Unset} /\ UNCHANGED faults)
          /\ phase' = "idle"
          /\ verdict' = "error"
    /\ cancelled' = [cancelled EXCEPT ![cli] = FALSE]
    /\ result' = [result EXCEPT ![cli] = "none"]
    /\ teardown' = "none"
    /\ begunLate' = 0
    /\ UNCHANGED <<cluster, step, record, objects, call, namespace, torn, taken,
                   deleting>>

AtCluster(verb) ==
    /\ phase = "cluster"
    /\ command.verb = verb
    /\ cluster <= Len(Selected)

(* A request without a mural chart is refused.                             *)
resolveCluster == req["mural"]

(* The loop's head, and of Deploy what comes before the first release: the *)
(* configuration is loaded again, and no time for Helm is refused.         *)
DeployCluster ==
    /\ AtCluster("deploy")
    /\ \/ /\ resolveCluster /\ req["helm-timeout"] > 0
          /\ Goto("install")
          /\ UNCHANGED faults
       \/ /\ ~resolveCluster \/ req["helm-timeout"] <= 0
          /\ Finish("error")
          /\ UNCHANGED faults
       \/ Fault /\ Finish("error")
    /\ UNCHANGED <<helmVars, tearVars, begunLate>>

(* Cleanup loads it again too, and refuses a level that is none.           *)
CleanupCluster ==
    /\ AtCluster("cleanup")
    /\ \/ /\ Level(command) \in Teardown!Levels
          /\ Teardown!Begin(Level(command), Asked(Current, command.keep))
          /\ Goto("teardown")
          /\ UNCHANGED faults
       \/ /\ Fault \/ (Level(command) \notin Teardown!Levels /\ UNCHANGED faults)
          /\ Finish("error")
          /\ UNCHANGED <<record, objects, tearVars>>
    /\ UNCHANGED <<call, result, cancelled, begunLate>>

AllClustersDone ==
    /\ phase = "cluster"
    /\ cluster > Len(Selected)
    /\ Finish("ok")
    /\ UNCHANGED <<helmVars, tearVars, begunLate, faults>>

NextClusterButOne ==
    /\ phase' = "cluster"
    /\ cluster' = cluster + 2
    /\ step' = 1
    /\ UNCHANGED <<command, verdict>>

NextCluster ==
    /\ phase' = "cluster"
    /\ cluster' = cluster + 1
    /\ step' = 1
    /\ UNCHANGED <<command, verdict>>

-----------------------------------------------------------------------------
(* deploy                                                                  *)

Installing(i) ==
    phase = "install" /\ inFlight = Helm!Idle /\ returned = "none" /\ step = i

(* A release without a chart is passed over.  Nothing here looks at ctx.   *)
InstallNext ==
    \E i \in DOMAIN steps :
      /\ Installing(i)
      /\ IF req[steps[i]]
         THEN Helm!Apply(cli, <<Current, steps[i]>>) /\ UNCHANGED runVars
         ELSE step' = i + 1 /\ UNCHANGED <<phase, command, cluster, verdict, helmVars>>
      /\ UNCHANGED <<tearVars, begunLate, faults>>

(* The server takes no new object, so no new revision, in a namespace that *)
(* is terminating.                                                         *)
Forbidden(r) == namespace[Space(r)] = "terminating"

(* The error of a step of Helm is forced by a dead context, by the         *)
(* release's history or by its namespace, or it is a fault.                *)
Refused ==
    LET r == inFlight.release IN
    CASE inFlight.at = "install" -> record[r] # "none" \/ Forbidden(r)
      [] inFlight.at = "upgrade" -> record[r] \notin {"deployed", "failed"} \/ Forbidden(r)
      [] inFlight.at \in {"installing", "upgrading"} -> interrupted
      [] OTHER -> FALSE

(* An install makes the namespace.                                         *)
HelmStep ==
    /\ Helm!Running(cli)
    /\ LET r == inFlight.release
           began == inFlight.at \in {"install", "upgrade"} /\ inFlight' # Helm!Idle
       IN  /\ began => ~Forbidden(r)
           /\ namespace' = [namespace EXCEPT ![Space(r)] = IF began THEN "active" ELSE @]
           /\ begunLate' = IF began /\ interrupted THEN begunLate + 1 ELSE begunLate
    /\ IF returned' = "error" /\ ~Refused THEN Fault ELSE UNCHANGED faults
    /\ UNCHANGED <<teardown, torn, taken, deleting, runVars>>

(* Mutant: an error is logged and the next release is taken.               *)
InstallReturnsAnyway ==
    /\ phase = "install"
    /\ returned \in {"ok", "error"}
    /\ step' = step + 1
    /\ result' = [result EXCEPT ![cli] = "none"]
    /\ UNCHANGED <<phase, command, cluster, verdict, record, objects, call,
                   cancelled, tearVars, begunLate, faults>>

(* Mutant: an error ends the cluster, not the command.                     *)
InstallReturnsToLoop ==
    /\ phase = "install"
    /\ \/ returned = "ok" /\ step' = step + 1 /\ UNCHANGED <<phase, command, cluster, verdict>>
       \/ returned = "error" /\ NextCluster
    /\ result' = [result EXCEPT ![cli] = "none"]
    /\ UNCHANGED <<record, objects, call, cancelled, tearVars, begunLate, faults>>

(* The first error ends Deploy, and the command with it.                   *)
InstallReturns ==
    /\ phase = "install"
    /\ \/ returned = "ok" /\ step' = step + 1 /\ UNCHANGED <<phase, command, cluster, verdict>>
       \/ returned = "error" /\ Finish("error")
    /\ result' = [result EXCEPT ![cli] = "none"]
    /\ UNCHANGED <<record, objects, call, cancelled, tearVars, begunLate, faults>>

InstallsDone ==
    /\ Installing(Len(steps) + 1)
    /\ IF req["validate"] THEN Goto("validate") ELSE NextCluster
    /\ UNCHANGED <<helmVars, tearVars, begunLate, faults>>

(* The validation pass reads the cluster and changes nothing; Validation   *)
(* has its steps.  It fails, or all is well.                               *)
validate ==
    /\ phase = "validate"
    /\ \/ ~interrupted /\ NextCluster /\ UNCHANGED faults
       \/ CallFails /\ Finish("error")
    /\ UNCHANGED <<helmVars, tearVars, begunLate>>

-----------------------------------------------------------------------------
(* cleanup                                                                 *)

(* Cleaner.Cleanup as its contract has it; a release whose history goes    *)
(* before Helm begins on it is an error, and none of the faults.           *)
TeardownStep ==
    /\ phase = "teardown"
    /\ \/ \E i \in DOMAIN torn : Teardown!Take(i)
       \/ Teardown!BeginUninstall \/ Teardown!EndUninstall \/ Teardown!Fail
       \/ \E ns \in Teardown!Spaces : Teardown!Doom(ns)
       \/ Teardown!ReturnNil
       \/ teardown = "failing" /\ Teardown!ReturnError /\ teardown' = "error"
    /\ IF teardown' = "failing" /\ \A r \in taken : Teardown!Exists(r)
       THEN CallFails ELSE UNCHANGED faults
    /\ UNCHANGED <<call, result, cancelled, runVars, begunLate>>

TeardownReturns ==
    /\ phase = "teardown"
    /\ \/ teardown = "ok" /\ NextCluster
       \/ teardown = "error" /\ Finish("error")
    /\ teardown' = "none"
    /\ UNCHANGED <<helmVars, namespace, torn, taken, deleting, begunLate, faults>>

-----------------------------------------------------------------------------
(* The surroundings                                                        *)

(* The server removes a namespace, whatever is going on.                   *)
Vanish(ns) ==
    /\ Teardown!Vanish(ns)
    /\ UNCHANGED <<call, result, cancelled, runVars, begunLate, faults>>

Cancel ==
    /\ phase # "idle"
    /\ Helm!Cancel(cli)
    /\ Fault
    /\ UNCHANGED <<tearVars, runVars, begunLate>>

(* The process is killed: by accident, or because it does not heed Ctrl-C. *)
Kill ==
    /\ phase # "idle"
    /\ CallFails
    /\ \/ /\ inFlight # Helm!Idle
          /\ Helm!Kill(cli)
          /\ UNCHANGED tearVars
       \/ /\ phase = "teardown" /\ ~Teardown!Idle
          /\ Teardown!ReturnError
          /\ teardown' = "killed"
          /\ UNCHANGED <<call, result, cancelled>>
       \/ /\ inFlight = Helm!Idle
          /\ phase = "teardown" => Teardown!Idle
          /\ UNCHANGED <<helmVars, tearVars>>
    /\ Finish("killed")
    /\ UNCHANGED begunLate

RunStep ==
    \/ DeployCluster \/ CleanupCluster \/ AllClustersDone
    \/ InstallNext \/ HelmStep \/ InstallReturns \/ InstallsDone
    \/ validate
    \/ TeardownStep \/ TeardownReturns

Next ==
    \/ \E cmd \in Given : Start(cmd)
    \/ RunStep
    \/ \E ns \in Teardown!Spaces : Vanish(ns)
    \/ Cancel
    \/ Kill

Spec == Init /\ [][Next]_vars

(* A command that is running goes on, unless it was interrupted: one that  *)
(* does not end is killed.  The server gets its namespaces emptied.  The   *)
(* operator, with no look at what came of the last command, again and      *)
(* again gives those he insists on.                                        *)
Fairness ==
    /\ WF_vars(~interrupted /\ RunStep)
    /\ WF_vars(interrupted /\ Kill)
    /\ \A ns \in Teardown!Spaces : WF_vars(Vanish(ns))
    /\ \A cmd \in Insisted : SF_vars(Start(cmd))

FairSpec == Spec /\ Fairness

-----------------------------------------------------------------------------
(* Properties                                                              *)

Succeeded(verb) == phase = "idle" /\ verdict = "ok" /\ command.verb = verb

Wanted(c) == {r \in Releases : r[1] = c /\ mergeDeployRequest(command.flags, c)[r[2]]}

Complete(r) == record[r] = "deployed" /\ objects[r] = Kinds

Cleared(r) ==
    IF Level(command) = "uninstall" THEN ~Teardown!Exists(r)
    ELSE /\ record[r] = "none"
         /\ objects[r] = {}
         /\ namespace[Space(r)] = "absent"

(* What the command is to bring about on a cluster.                        *)
Achieved(c) ==
    IF command.verb = "deploy"
    THEN \A r \in Wanted(c) : Complete(r)
    ELSE \A r \in Releases : r[1] = c /\ r[2] \notin command.keep => Cleared(r)

(* A deploy that returns nil has left every release it names deployed in   *)
(* full, and a cleanup that does has taken down what its level says, on    *)
(* every cluster it selects, whatever earlier commands left; and it stays  *)
(* so, though the server may still be at what an earlier cleanup asked of  *)
(* it.                                                                     *)
SuccessMeansAchieved ==
    phase = "idle" /\ verdict = "ok" => \A i \in DOMAIN Selected : Achieved(Selected[i])

(* A cluster is taken only once the command has done all it was to do on   *)
(* those before it (README:59: "in order, failing fast on the first        *)
(* error"), and that holds while it goes on.                               *)
FailFast ==
    phase # "idle" => \A i \in DOMAIN Selected : i < cluster => Achieved(Selected[i])

(* Objects of a release are made only when every release that Deploy is to *)
(* apply before it is deployed in full: mural never comes up on a cluster  *)
(* whose cert-manager or CRDs failed.                                      *)
PrerequisitesFirst ==
    [][\A i, j \in DOMAIN steps : \A c \in Names :
         (/\ phase = "install"
          /\ j < i
          /\ ~(objects'[<<c, steps[i]>>] \subseteq objects[<<c, steps[i]>>])
          /\ <<c, steps[j]>> \in Wanted(c))
            => Complete(<<c, steps[j]>>)]_vars

(* After a Ctrl-C at most one more release is begun, though Deploy never   *)
(* looks at ctx between releases or clusters: the one that is begun fails. *)
AtMostOneBegunLate == begunLate <= 1

(* Whatever commands failed, were interrupted or were killed, and whatever *)
(* they left behind - pending or half uninstalled releases, kept           *)
(* histories, namespaces on their way out - an operator who goes on giving *)
(* a deploy and a cleanup of all clusters gets a deploy that returns nil.  *)
DeployComesBack == []<>Succeeded("deploy")

(* What a retried deploy cannot mend: an operation on record as going on,  *)
(* a history that ends in an uninstall, a namespace on its way out.        *)
InTheWay(r) ==
    \/ record[r] \in Helm!Pending \cup {"uninstalling", "uninstalled"}
    \/ namespace[Space(r)] = "terminating"

(* A release is refused, without a fault of this call or a Ctrl-C, only    *)
(* then, or if its namespace and history went between releaseExists and    *)
(* the upgrade it chose: what earlier commands left of the release, whole, *)
(* failed or not there, a retried deploy takes up.                         *)
RefusedOnlyInTheWay ==
    [][inFlight # Helm!Idle /\ returned' = "error" /\ faults' = faults =>
         \/ interrupted
         \/ InTheWay(inFlight.release)
         \/ inFlight.at = "upgrade" /\ record[inFlight.release] = "none"]_vars

(* README:77 and deployer.go:106: where neither a flag nor the file gives  *)
(* a timeout, cobra's default applies.                                     *)
UnsetTimeoutIsDefault ==
    AtCluster("deploy") =>
      req["helm-timeout"] =
        (IF "helm-timeout" \in DOMAIN command.flags
           THEN command.flags["helm-timeout"]
         ELSE IF Config[Current]["helm-timeout"] # 0
           THEN Config[Current]["helm-timeout"]
         ELSE DefaultTimeout)
=============================================================================
