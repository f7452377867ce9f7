----------------------------- MODULE Validation -----------------------------
(***************************************************************************)
(* The pass Deployer.validate makes after the last release, with the three *)
(* calls of kube.Client it is made of: WaitForPodsReady polls the pods of  *)
(* the namespace under a context of its own, GetIngressHost and            *)
(* GetServiceNodePort each read one object under the command's context.    *)
(*                                                                         *)
(* Meanwhile pods come, go, become ready and finish, the ingress and the   *)
(* service are filled in by their controllers, the deadline passes, the    *)
(* operator interrupts, and a call of the API server fails or is never     *)
(* answered.                                                               *)
(***************************************************************************)
EXTENDS FiniteSets

CONSTANTS Pods      \* names of pods the namespace may hold

ASSUME ValidationAssumption == IsFiniteSet(Pods)

VARIABLES
    at,         \* where the pass is
    verdict,    \* what validate returned
    waitCtx,    \* the context WaitForPodsReady derives
    cancelled,  \* whether the command's context is cancelled
    last,       \* the PodSummary of the last list
    url,        \* what the pass prints: the host and the port it read
    pods,       \* the pods of the namespace on the server
    host,       \* the first host in the ingress's rules
    nodePort,   \* the node port of the service's https port
    listed,     \* history: the pods as the last list found them
    dialled,    \* history: a list's own dial timed out
    settled     \* history: the pods were all settled at some time of the pass

client == <<at, verdict, waitCtx, last, url, listed, dialled>>
server == <<pods, host, nodePort, settled>>
vars == <<at, verdict, waitCtx, cancelled, last, url, pods, host, nodePort,
          listed, dialled, settled>>

(* An unready pod has no PodReady condition or a false one; a finished one *)
(* is in phase Succeeded or Failed.                                        *)
PodStates == {"absent", "unready", "ready", "finished"}

Summaries == [Ready : SUBSET Pods, NotReady : SUBSET Pods]

TypeOK ==
    /\ at \in {"start", "list", "evaluate", "sleep", "host", "port", "returned"}
    /\ verdict \in {"none", "ok", "timeout", "cancelled", "api"}
    /\ waitCtx \in {"none", "live", "deadline", "cancelled"}
    /\ cancelled \in BOOLEAN
    /\ last \in Summaries
    /\ url \in [host : {"none", "dex"}, port : {"none", "assigned"}]
    /\ pods \in [Pods -> PodStates]
    /\ host \in {"none", "dex"}
    /\ nodePort \in {"none", "zero", "assigned"}
    /\ listed \in [Pods -> PodStates]
    /\ dialled \in BOOLEAN
    /\ settled \in BOOLEAN

NoPods == [p \in Pods |-> "absent"]

(* What the wait is for: there are pods, and each is ready or finished.    *)
Settled(ps) ==
    /\ \E p \in Pods : ps[p] # "absent"
    /\ \A p \in Pods : ps[p] # "unready"

Init ==
    /\ at = "start"
    /\ verdict = "none"
    /\ waitCtx = "none"
    /\ cancelled \in BOOLEAN
    /\ last = [Ready |-> {}, NotReady |-> {}]
    /\ url = [host |-> "none", port |-> "none"]
    /\ pods \in [Pods -> PodStates]
    /\ host \in {"none", "dex"}
    /\ nodePort \in {"none", "zero", "assigned"}
    /\ listed = NoPods
    /\ dialled = FALSE
    /\ settled = Settled(pods)

-----------------------------------------------------------------------------
(* The pass                                                                *)

Return(v) == at' = "returned" /\ verdict' = v

Goto(place) == at' = place /\ UNCHANGED verdict

(* A call under the command's context: an error of the server, or the      *)
(* context's own.                                                          *)
CallFails == Return(IF cancelled THEN "cancelled" ELSE "api")

(* The client is built from the kubeconfig, and context.WithTimeout(ctx).  *)
Start ==
    /\ at = "start"
    /\ \/ Return("api") /\ UNCHANGED waitCtx
       \/ Goto("list") /\ waitCtx' = IF cancelled THEN "cancelled" ELSE "live"
    /\ UNCHANGED <<cancelled, last, url, listed, dialled, server>>

(* Mutant: a pod of a finished Job is not ready.                           *)
isPodReadyStrict(s) == s = "ready"

isPodReady(s) == s \in {"ready", "finished"}

summarizePods(ps) ==
    LET there == {p \in Pods : ps[p] # "absent"} IN
    [Ready    |-> {p \in there : isPodReady(ps[p])},
     NotReady |-> {p \in there : ~isPodReady(ps[p])}]

(* The error the derived context gives a call, or a sleep, that it cuts.   *)
ContextError == Return(IF waitCtx = "deadline" THEN "timeout" ELSE "cancelled")

(* The server answers the list with the pods of one moment, or with an     *)
(* error; once the context is over, a call still out is cut short.  It is  *)
(* the error that is asked and not the context: a dial that times out by   *)
(* itself is a context.DeadlineExceeded too, in Go.                        *)
List ==
    /\ at = "list"
    /\ \/ /\ waitCtx = "live"
          /\ Goto("evaluate")
          /\ last' = summarizePods(pods)
          /\ listed' = pods
          /\ UNCHANGED dialled
       \/ /\ \/ waitCtx = "live" /\ Return("api") /\ UNCHANGED dialled
             \/ waitCtx = "live" /\ Return("timeout") /\ dialled' = TRUE
             \/ waitCtx # "live" /\ ContextError /\ UNCHANGED dialled
          /\ UNCHANGED <<last, listed>>
    /\ UNCHANGED <<waitCtx, cancelled, url, server>>

(* Mutant: a namespace without pods is ready.                              *)
EvaluateEmpty ==
    /\ at = "evaluate"
    /\ Goto(IF last.NotReady = {} THEN "host" ELSE "sleep")
    /\ UNCHANGED <<waitCtx, cancelled, last, url, listed, dialled, server>>

(* last.Total > 0 && len(last.NotReady) == 0; the answer is used though    *)
(* the pods may be others by now and the context over.                     *)
Evaluate ==
    /\ at = "evaluate"
    /\ Goto(IF last.Ready # {} /\ last.NotReady = {} THEN "host" ELSE "sleep")
    /\ UNCHANGED <<waitCtx, cancelled, last, url, listed, dialled, server>>

(* Mutant: the wait only sleeps, without looking at the context.           *)
SleepBlind ==
    /\ at = "sleep"
    /\ waitCtx = "live"
    /\ Goto("list")
    /\ UNCHANGED <<waitCtx, cancelled, last, url, listed, dialled, server>>

(* The select of the timer and ctx.Done: where both are ready, either.     *)
Sleep ==
    /\ at = "sleep"
    /\ \/ Goto("list")
       \/ waitCtx # "live" /\ ContextError
    /\ UNCHANGED <<waitCtx, cancelled, last, url, listed, dialled, server>>

(* No ingress, or no rule with a host, is an error.                        *)
GetIngressHost ==
    /\ at = "host"
    /\ \/ CallFails /\ UNCHANGED url
       \/ ~cancelled /\ host = "none" /\ Return("api") /\ UNCHANGED url
       \/ /\ ~cancelled /\ host # "none"
          /\ Goto("port")
          /\ url' = [url EXCEPT !.host = host]
    /\ UNCHANGED <<waitCtx, cancelled, last, listed, dialled, server>>

(* Mutant: a node port that is still zero is returned.                     *)
GetServiceNodePortZero ==
    /\ at = "port"
    /\ \/ CallFails /\ UNCHANGED url
       \/ /\ ~cancelled /\ nodePort # "none"
          /\ Return("ok")
          /\ url' = [url EXCEPT !.port = nodePort]
    /\ UNCHANGED <<waitCtx, cancelled, last, listed, dialled, server>>

(* No service, no such port, or one without a node port, is an error.      *)
GetServiceNodePort ==
    /\ at = "port"
    /\ \/ CallFails /\ UNCHANGED url
       \/ ~cancelled /\ nodePort # "assigned" /\ Return("api") /\ UNCHANGED url
       \/ /\ ~cancelled /\ nodePort = "assigned"
          /\ Return("ok")
          /\ url' = [url EXCEPT !.port = nodePort]
    /\ UNCHANGED <<waitCtx, cancelled, last, listed, dialled, server>>

Pass == Start \/ List \/ Evaluate \/ Sleep \/ GetIngressHost \/ GetServiceNodePort

-----------------------------------------------------------------------------
(* The surroundings                                                        *)

DeadlinePasses ==
    /\ waitCtx = "live"
    /\ waitCtx' = "deadline"
    /\ UNCHANGED <<at, verdict, cancelled, last, url, listed, dialled, server>>

(* The operator's Ctrl-C.                                                  *)
Cancel ==
    /\ ~cancelled
    /\ at # "returned"
    /\ cancelled' = TRUE
    /\ waitCtx' = IF waitCtx = "live" THEN "cancelled" ELSE waitCtx
    /\ UNCHANGED <<at, verdict, last, url, listed, dialled, server>>

(* A pod is created, becomes ready or unready, finishes or is removed.     *)
PodChanges(p) ==
    /\ \E s \in PodStates :
         /\ \/ pods[p] = "absent" /\ s = "unready"
            \/ pods[p] \in {"unready", "ready"} /\ s # pods[p]
            \/ pods[p] = "finished" /\ s = "absent"
         /\ pods' = [pods EXCEPT ![p] = s]
    /\ settled' = (settled \/ Settled(pods'))
    /\ UNCHANGED <<client, cancelled, host, nodePort>>

(* Helm's or a person's change of the ingress or the service, and what the *)
(* service's controller fills in.                                          *)
DetailsChange ==
    /\ \/ host' \in {"none", "dex"} /\ UNCHANGED nodePort
       \/ nodePort' \in {"none", "zero", "assigned"} /\ UNCHANGED host
    /\ UNCHANGED <<client, cancelled, pods, settled>>

Next ==
    \/ Pass
    \/ DeadlinePasses
    \/ Cancel
    \/ \E p \in Pods : PodChanges(p)
    \/ DetailsChange

Spec == Init /\ [][Next]_vars

(* The process runs and time passes.  Of the API server nothing is         *)
(* assumed: a call it has not answered ends when its context is over.      *)
Fairness ==
    /\ WF_vars(Start \/ Evaluate \/ Sleep)
    /\ WF_vars(List /\ waitCtx # "live")
    /\ WF_vars((GetIngressHost \/ GetServiceNodePort) /\ cancelled)
    /\ WF_vars(DeadlinePasses)

FairSpec == Spec /\ Fairness

-----------------------------------------------------------------------------
(* Properties                                                              *)

(* A pass that succeeds has caught the namespace at a moment when it had   *)
(* pods and every one was ready or finished, however they changed between  *)
(* two polls, and prints an address with a host and an assigned port.      *)
SuccessMeansReachable ==
    verdict = "ok" => settled /\ url = [host |-> "dex", port |-> "assigned"]

(* The deadline, a Ctrl-C, a dial and a late answer race, and the error    *)
(* tells little of which it was: a cancellation means a Ctrl-C that came   *)
(* before the deadline or after the wait; a timeout, that the deadline     *)
(* came before any Ctrl-C or that a list could not dial the server; and    *)
(* neither the wait's cancellation nor its timeout is reported of pods     *)
(* that its last list found settled (the pods of Helm's hook Jobs,         *)
(* client.go:187, must not wedge the wait).                                *)
ErrorNamesItsCause ==
    /\ verdict = "timeout" =>
         /\ waitCtx = "deadline" \/ dialled
         /\ ~Settled(listed)
    /\ verdict = "cancelled" =>
         cancelled /\ (waitCtx = "cancelled" \/ Settled(listed))

(* WaitForPodsReady ends even if the API server never answers again        *)
(* (client.go:181: "a hung apiserver can't outrun the overall timeout").   *)
WaitEnds == at \in {"list", "evaluate", "sleep"} ~> at \in {"host", "returned"}

(* A Ctrl-C ends the pass, the reads without a deadline included.          *)
CancelReturns == cancelled ~> at = "returned"
=============================================================================
