--------------------------- MODULE NamespaceDrop ---------------------------
(***************************************************************************)
(* Cleaner.dropNamespaces and its goroutines (internal/cleaner), over the  *)
(* kube.Client calls they make (internal/kube).                            *)
(*                                                                         *)
(* A driver walks the list of namespaces.  For each one it looks for a     *)
(* recorded error, takes a token of a buffered channel and starts a        *)
(* goroutine that runs dropOneNamespace and gives the token back.  The     *)
(* goroutines share the channel, the WaitGroup and errOut; the operator's  *)
(* Ctrl-C cancels the context all of them run under; the API server, its   *)
(* namespace controller and whoever else uses the cluster move the         *)
(* namespaces underneath.                                                  *)
(*                                                                         *)
(* The list holds no duplicates (namespacesFor), so a goroutine is named   *)
(* by its namespace, and the list's order is left open: the driver takes   *)
(* any namespace it has not visited.                                       *)
(***************************************************************************)
EXTENDS Naturals, FiniteSets

CONSTANTS
    Namespaces,     \* the list namespacesFor returns, as a set
    Cap,            \* namespaceDeleteConcurrency
    ForceFinalize,  \* req.ForceFinalizeStuck || req.Level == LevelReset
    Interruptible,  \* whether the operator may cancel the context
    Recreates       \* whether others may create a namespace that is gone

ASSUME DropAssumption ==
    /\ IsFiniteSet(Namespaces)
    /\ Cap \in Nat \ {0}
    /\ ForceFinalize \in BOOLEAN
    /\ Interruptible \in BOOLEAN
    /\ Recreates \in BOOLEAN

VARIABLES
    driver,     \* where dropNamespaces is: loop, select, join or returned
    worker,     \* where the goroutine of a namespace is
    tokens,     \* tokens in the channel sem
    errOut,     \* the first error recorded
    outcome,    \* what dropOneNamespace returned
    cancelled,  \* whether ctx is cancelled
    waitCtx,    \* the context WaitForNamespaceGone derives, per goroutine
    fresh,      \* whether the resourceVersion the goroutine read is current
    phase,      \* the namespace on the API server
    fin,        \* whether its spec.finalizers is non-empty
    broke,      \* history: the select was left by its ctx.Done case
    late,       \* history: goroutines started after an error was recorded
    wasGone     \* history: namespaces absent at some time during the call

driverVars == <<driver, tokens, broke, late>>
server     == <<phase, fin, wasGone>>
vars == <<driver, worker, tokens, errOut, outcome, cancelled, waitCtx,
          fresh, phase, fin, broke, late, wasGone>>

Errors == {"cancelled", "api", "stuck"}
Places == {"idle", "exists", "delete", "wait", "finget", "finalize",
           "rewait", "release", "done"}

TypeOK ==
    /\ driver \in {"loop", "select", "join", "returned"}
    /\ worker \in [Namespaces -> Places]
    /\ tokens \in Nat
    /\ errOut \in Errors \cup {"none"}
    /\ outcome \in [Namespaces -> {"pending", "ok", "failed"}]
    /\ cancelled \in BOOLEAN
    /\ waitCtx \in [Namespaces -> {"none", "live", "deadline", "cancelled"}]
    /\ fresh \in [Namespaces -> BOOLEAN]
    /\ phase \in [Namespaces -> {"active", "terminating", "absent"}]
    /\ fin \in [Namespaces -> BOOLEAN]
    /\ broke \in BOOLEAN
    /\ late \in Nat
    /\ wasGone \in [Namespaces -> BOOLEAN]

(* Goroutines started whose deferred <-sem has not run; the WaitGroup      *)
(* counts them.                                                            *)
Running == {ns \in Namespaces : worker[ns] \notin {"idle", "done"}}

Init ==
    /\ driver = "loop"
    /\ worker = [ns \in Namespaces |-> "idle"]
    /\ tokens = 0
    /\ errOut = "none"
    /\ outcome = [ns \in Namespaces |-> "pending"]
    /\ cancelled = FALSE
    /\ waitCtx = [ns \in Namespaces |-> "none"]
    /\ fresh = [ns \in Namespaces |-> FALSE]
    /\ phase \in [Namespaces -> {"active", "terminating", "absent"}]
    /\ fin \in [Namespaces -> BOOLEAN]
    /\ \A ns \in Namespaces :
         /\ phase[ns] = "active" => fin[ns]
         /\ phase[ns] = "absent" => ~fin[ns]
    /\ broke = FALSE
    /\ late = 0
    /\ wasGone = [ns \in Namespaces |-> phase[ns] = "absent"]

-----------------------------------------------------------------------------
(* The driver                                                              *)

(* errMu guards errOut; the first error stays.                             *)
recordErr(e) == errOut' = IF errOut = "none" THEN e ELSE errOut

(* The loop's head: nothing left, or hasErr() and break.                   *)
LoopEnds ==
    /\ driver = "loop"
    /\ \/ \A ns \in Namespaces : worker[ns] # "idle"
       \/ errOut # "none"
    /\ driver' = "join"
    /\ UNCHANGED <<worker, tokens, errOut, outcome, cancelled, waitCtx, fresh,
                   broke, late, server>>

(* Mutant: the loop does not look for a recorded error.                    *)
LoopGoesOnBlind ==
    /\ driver = "loop"
    /\ \E ns \in Namespaces : worker[ns] = "idle"
    /\ driver' = "select"
    /\ UNCHANGED <<worker, tokens, errOut, outcome, cancelled, waitCtx, fresh,
                   broke, late, server>>

(* hasErr() was false.  errMu is released: the select comes later.         *)
LoopGoesOn ==
    /\ driver = "loop"
    /\ \E ns \in Namespaces : worker[ns] = "idle"
    /\ errOut = "none"
    /\ driver' = "select"
    /\ UNCHANGED <<worker, tokens, errOut, outcome, cancelled, waitCtx, fresh,
                   broke, late, server>>

(* wg.Add(1) and the go statement.                                         *)
Start(ns) ==
    /\ worker[ns] = "idle"
    /\ worker' = [worker EXCEPT ![ns] = "exists"]
    /\ driver' = "loop"

(* Mutant: a channel with room for every namespace.                        *)
SelectTokenUncapped(ns) ==
    /\ driver = "select"
    /\ tokens' = tokens + 1
    /\ Start(ns)
    /\ late' = IF errOut # "none" THEN late + 1 ELSE late
    /\ UNCHANGED <<errOut, outcome, cancelled, waitCtx, fresh, broke, server>>

(* case sem <- struct{}{}: waits while the channel is full.                *)
SelectToken(ns) ==
    /\ driver = "select"
    /\ tokens < Cap
    /\ tokens' = tokens + 1
    /\ Start(ns)
    /\ late' = IF errOut # "none" THEN late + 1 ELSE late
    /\ UNCHANGED <<errOut, outcome, cancelled, waitCtx, fresh, broke, server>>

(* case <-ctx.Done(): the break leaves the select, not the loop, so the    *)
(* goroutine is started without a token.                                   *)
SelectCancelled(ns) ==
    /\ driver = "select"
    /\ cancelled
    /\ recordErr("cancelled")
    /\ Start(ns)
    /\ broke' = TRUE
    /\ late' = late + 1
    /\ UNCHANGED <<tokens, outcome, cancelled, waitCtx, fresh, server>>

(* Mutant: errOut is read without waiting for the goroutines.              *)
ReturnAtOnce ==
    /\ driver = "join"
    /\ driver' = "returned"
    /\ UNCHANGED <<worker, tokens, errOut, outcome, cancelled, waitCtx, fresh,
                   broke, late, server>>

(* wg.Wait() and return errOut.                                            *)
Return ==
    /\ driver = "join"
    /\ Running = {}
    /\ driver' = "returned"
    /\ UNCHANGED <<worker, tokens, errOut, outcome, cancelled, waitCtx, fresh,
                   broke, late, server>>

Driver ==
    \/ LoopEnds
    \/ LoopGoesOn
    \/ \E ns \in Namespaces : SelectToken(ns) \/ SelectCancelled(ns)
    \/ Return

-----------------------------------------------------------------------------
(* The API server.  Every change of a namespace object gives it a new      *)
(* resourceVersion, so the one a goroutine holds is no longer current.     *)

SetPhase(ns, p, f) ==
    /\ phase' = [phase EXCEPT ![ns] = p]
    /\ fin' = [fin EXCEPT ![ns] = f]
    /\ wasGone' = [wasGone EXCEPT ![ns] = @ \/ p = "absent"]

(* A namespace with finalizers is left Terminating, one without is removed.*)
ServerDelete(ns) ==
    CASE phase[ns] = "active" /\ fin[ns]  -> SetPhase(ns, "terminating", TRUE)
      [] phase[ns] = "active" /\ ~fin[ns] -> SetPhase(ns, "absent", FALSE)
      [] OTHER                            -> UNCHANGED server

(* PUT /finalize with an empty list.                                       *)
ServerFinalize(ns) == SetPhase(ns, phase[ns], FALSE)

-----------------------------------------------------------------------------
(* A goroutine.  A call that returns an error ends dropOneNamespace, and   *)
(* the error is recorded before the deferred calls run.                    *)

Goto(ns, place) == worker' = [worker EXCEPT ![ns] = place]

(* Mutant: the goroutine drops the error it got.                           *)
FailUnrecorded(ns, e) ==
    /\ Goto(ns, "release")
    /\ outcome' = [outcome EXCEPT ![ns] = "failed"]
    /\ UNCHANGED errOut

Succeed(ns) ==
    /\ Goto(ns, "release")
    /\ outcome' = [outcome EXCEPT ![ns] = "ok"]
    /\ UNCHANGED errOut

Fail(ns, e) ==
    /\ Goto(ns, "release")
    /\ outcome' = [outcome EXCEPT ![ns] = "failed"]
    /\ recordErr(e)

Continue(ns, place) ==
    /\ Goto(ns, place)
    /\ UNCHANGED <<outcome, errOut>>

(* A call under a live context may fail, under a cancelled one it does.    *)
CallFails(ns) == Fail(ns, IF cancelled THEN "cancelled" ELSE "api")

NamespaceExists(ns) ==
    /\ worker[ns] = "exists"
    /\ \/ CallFails(ns)
       \/ /\ ~cancelled
          /\ IF phase[ns] = "absent" THEN Succeed(ns) ELSE Continue(ns, "delete")
    /\ UNCHANGED <<driverVars, cancelled, waitCtx, fresh, server>>

(* context.WithTimeout(ctx, wait): dead from the start if ctx is.          *)
OpenWait(ns) ==
    waitCtx' = [waitCtx EXCEPT ![ns] = IF cancelled THEN "cancelled" ELSE "live"]

CloseWait(ns) == waitCtx' = [waitCtx EXCEPT ![ns] = "none"]

(* Mutant: the error of the delete is ignored.                             *)
DeleteNamespaceIgnored(ns) ==
    /\ worker[ns] = "delete"
    /\ Continue(ns, "wait")
    /\ ServerDelete(ns) \/ UNCHANGED server
    /\ OpenWait(ns)
    /\ UNCHANGED <<driverVars, cancelled, fresh>>

(* NotFound counts as success.  A failed call may have reached the server. *)
DeleteNamespace(ns) ==
    /\ worker[ns] = "delete"
    /\ \/ /\ CallFails(ns)
          /\ ServerDelete(ns) \/ UNCHANGED server
          /\ UNCHANGED waitCtx
       \/ /\ ~cancelled
          /\ Continue(ns, "wait")
          /\ ServerDelete(ns)
          /\ OpenWait(ns)
    /\ UNCHANGED <<driverVars, cancelled, fresh>>

(* A poll that finds the namespace changes nothing, so it is no step.      *)
PollEnds(ns) ==
    /\ waitCtx[ns] = "live"
    /\ \/ phase[ns] = "absent" /\ Succeed(ns)
       \/ Fail(ns, "api")

(* The deadline has passed; or, the Get's error being asked and not the    *)
(* context, a dial of the Get has timed out by itself, which in Go is a    *)
(* context.DeadlineExceeded too.                                           *)
WaitTimesOut(ns) == waitCtx[ns] \in {"live", "deadline"}

(* ctx.Done(), or a Get cut short by it; whichever of the deadline and the *)
(* parent's cancellation came first is the context's error.                *)
WaitCancelled(ns) ==
    /\ waitCtx[ns] = "cancelled"
    /\ Fail(ns, "cancelled")

(* The first WaitForNamespaceGone.                                         *)
WaitForNamespaceGone(ns) ==
    /\ worker[ns] = "wait"
    /\ \/ PollEnds(ns)
       \/ WaitCancelled(ns)
       \/ /\ WaitTimesOut(ns)
          /\ IF ForceFinalize THEN Continue(ns, "finget") ELSE Fail(ns, "stuck")
    /\ CloseWait(ns)
    /\ UNCHANGED <<driverVars, cancelled, fresh, server>>

(* ForceFinalizeNamespace, the Get: it asks neither for the phase nor for  *)
(* the UID.  Nothing to clear is a success.                                *)
FinalizeGet(ns) ==
    /\ worker[ns] = "finget"
    /\ \/ CallFails(ns) /\ UNCHANGED <<waitCtx, fresh>>
       \/ /\ ~cancelled
          /\ phase[ns] = "absent" \/ ~fin[ns]
          /\ Continue(ns, "rewait")
          /\ OpenWait(ns)
          /\ UNCHANGED fresh
       \/ /\ ~cancelled
          /\ phase[ns] # "absent" /\ fin[ns]
          /\ Continue(ns, "finalize")
          /\ fresh' = [fresh EXCEPT ![ns] = TRUE]
          /\ UNCHANGED waitCtx
    /\ UNCHANGED <<driverVars, cancelled, server>>

(* ForceFinalizeNamespace, the update: NotFound counts as success, and a   *)
(* resourceVersion that is not current is a Conflict, an error.            *)
Finalize(ns) ==
    /\ worker[ns] = "finalize"
    /\ \/ /\ CallFails(ns)
          /\ \/ fresh[ns] /\ ServerFinalize(ns)
             \/ UNCHANGED server
          /\ UNCHANGED waitCtx
       \/ /\ ~cancelled
          /\ \/ phase[ns] = "absent" /\ UNCHANGED server
             \/ phase[ns] # "absent" /\ fresh[ns] /\ ServerFinalize(ns)
          /\ Continue(ns, "rewait")
          /\ OpenWait(ns)
    /\ fresh' = [fresh EXCEPT ![ns] = FALSE]
    /\ UNCHANGED <<driverVars, cancelled>>

(* The second WaitForNamespaceGone: its timeout is an error too.           *)
RewaitForNamespaceGone(ns) ==
    /\ worker[ns] = "rewait"
    /\ \/ PollEnds(ns)
       \/ WaitCancelled(ns)
       \/ WaitTimesOut(ns) /\ Fail(ns, "stuck")
    /\ CloseWait(ns)
    /\ UNCHANGED <<driverVars, cancelled, fresh, server>>

(* Mutant: the goroutine ends and leaves its token in the channel.         *)
ReleaseNothing(ns) ==
    /\ worker[ns] = "release"
    /\ Goto(ns, "done")
    /\ UNCHANGED <<driver, tokens, errOut, outcome, cancelled, waitCtx, fresh,
                   broke, late, server>>

(* Mutant: the token is given back at the end of the happy path only.      *)
ReleaseOnSuccess(ns) ==
    /\ worker[ns] = "release"
    /\ IF outcome[ns] = "ok" THEN tokens > 0 /\ tokens' = tokens - 1
                             ELSE UNCHANGED tokens
    /\ Goto(ns, "done")
    /\ UNCHANGED <<driver, errOut, outcome, cancelled, waitCtx, fresh, broke,
                   late, server>>

(* Mutant: a count is lowered where the code receives from a channel.      *)
ReleaseUnguarded(ns) ==
    /\ worker[ns] = "release"
    /\ tokens' = tokens - 1
    /\ Goto(ns, "done")
    /\ UNCHANGED <<driver, errOut, outcome, cancelled, waitCtx, fresh, broke,
                   late, server>>

(* The deferred <-sem blocks on an empty channel; wg.Done() comes after it.*)
Release(ns) ==
    /\ worker[ns] = "release"
    /\ tokens > 0
    /\ tokens' = tokens - 1
    /\ Goto(ns, "done")
    /\ UNCHANGED <<driver, errOut, outcome, cancelled, waitCtx, fresh, broke,
                   late, server>>

Worker(ns) ==
    \/ NamespaceExists(ns)
    \/ DeleteNamespace(ns)
    \/ WaitForNamespaceGone(ns)
    \/ FinalizeGet(ns)
    \/ Finalize(ns)
    \/ RewaitForNamespaceGone(ns)
    \/ Release(ns)

-----------------------------------------------------------------------------
(* The surroundings                                                        *)

(* req.NamespaceWait elapses.                                              *)
DeadlinePasses(ns) ==
    /\ waitCtx[ns] = "live"
    /\ waitCtx' = [waitCtx EXCEPT ![ns] = "deadline"]
    /\ UNCHANGED <<driverVars, worker, errOut, outcome, cancelled, fresh, server>>

(* The operator's Ctrl-C; the derived contexts that are alive die with it. *)
Cancel ==
    /\ Interruptible
    /\ ~cancelled
    /\ driver # "returned"
    /\ cancelled' = TRUE
    /\ waitCtx' = [ns \in Namespaces |->
                     IF waitCtx[ns] = "live" THEN "cancelled" ELSE waitCtx[ns]]
    /\ UNCHANGED <<driverVars, worker, errOut, outcome, fresh, server>>

ServerSteps(ns) ==
    /\ fresh' = [fresh EXCEPT ![ns] = FALSE]
    /\ UNCHANGED <<driverVars, worker, errOut, outcome, cancelled, waitCtx>>

(* The namespace controller has emptied a Terminating namespace, or its    *)
(* finalizers are gone and the server removes it.                          *)
NamespaceRemoved(ns) ==
    /\ phase[ns] = "terminating"
    /\ SetPhase(ns, "absent", FALSE)
    /\ ServerSteps(ns)

(* The namespace controller writes a condition into the object's status.   *)
NamespaceUpdated(ns) ==
    /\ phase[ns] # "absent"
    /\ fresh[ns]
    /\ UNCHANGED server
    /\ ServerSteps(ns)

(* A controller that is still running, or a person, creates it again.      *)
NamespaceRecreated(ns) ==
    /\ Recreates
    /\ phase[ns] = "absent"
    /\ SetPhase(ns, "active", TRUE)
    /\ ServerSteps(ns)

Environment(ns) ==
    \/ DeadlinePasses(ns)
    \/ NamespaceRemoved(ns)
    \/ NamespaceUpdated(ns)
    \/ NamespaceRecreated(ns)

Next ==
    \/ Driver
    \/ \E ns \in Namespaces : Worker(ns) \/ Environment(ns)
    \/ Cancel

(* The calls made under ctx itself, which has no deadline.                 *)
Undated == {"exists", "delete", "finget", "finalize"}

(* What is sure to happen.  A call under ctx may go unanswered for ever,   *)
(* and a poll may hang until its deadline; a context that is over ends     *)
(* either, and goroutines that can run do run.                             *)
Answered(ns) ==
    \/ worker[ns] \in Undated /\ cancelled /\ Worker(ns)
    \/ waitCtx[ns] \in {"deadline", "cancelled"} /\ Worker(ns)
    \/ Release(ns)

(* Time passes.  Nothing is assumed of the API server or of the namespace  *)
(* controller.                                                             *)
Fairness ==
    /\ WF_vars(Driver)
    /\ \A ns \in Namespaces : WF_vars(Answered(ns)) /\ WF_vars(DeadlinePasses(ns))

Spec == Init /\ [][Next]_vars

FairSpec == Spec /\ Fairness
-----------------------------------------------------------------------------
(* Safety                                                                  *)

(* A nil error means the namespaces are gone: each one on the list was     *)
(* absent at some time during the call, however many goroutines failed,    *)
(* were never started or had their replies lost.                           *)
NoErrorMeansGone ==
    driver = "returned" /\ errOut = "none" => \A ns \in Namespaces : wasGone[ns]

(* hasErr() is looked at before the token is taken, which may take as long *)
(* as another goroutine's deletion.  After an error at most one more       *)
(* goroutine is started, the one the driver was already waiting to start.  *)
AtMostOneLateStart == late <= 1

(* A goroutine that has not given its token back is paid for by a token,   *)
(* except the one the broken select starts.  Were this off by more, some   *)
(* deferred <-sem would wait for ever, or take a token not yet sent.       *)
TokenBalance ==
    Cardinality(Running) = tokens + (IF broke THEN 1 ELSE 0)

(* No more than namespaceDeleteConcurrency goroutines at once, and the one *)
(* that may exceed it after a Ctrl-C runs under a dead context.            *)
ConcurrencyCap == ~cancelled => Cardinality(Running) <= Cap

(* Finalizers are cleared only if the operator opted in, and only of a     *)
(* namespace that is Terminating, or of one that is no longer what it was  *)
(* asked to delete: whoever creates a namespace again while the call waits *)
(* for the old one to go cannot count on its finalizers (client.go:137:    *)
(* "clears spec.finalizers on a stuck Terminating namespace").             *)
FinalizersSpared ==
    [][\A ns \in Namespaces :
         fin[ns] /\ ~fin'[ns] /\ phase'[ns] # "absent"
           => /\ ForceFinalize
              /\ phase[ns] = "terminating" \/ wasGone[ns]]_vars

-----------------------------------------------------------------------------
(* Why the safety properties hold: an inductive invariant                  *)

DriverInv ==
    /\ tokens <= Cap
    /\ errOut = "none" \/ driver = "select" => late = 0
    /\ broke => cancelled /\ errOut # "none" /\ driver # "select"
    /\ driver \in {"join", "returned"} =>
         errOut # "none" \/ \A ns \in Namespaces : worker[ns] # "idle"
    /\ driver = "returned" => Running = {}

OutcomeInv ==
    /\ \A ns \in Namespaces :
         /\ outcome[ns] = "pending" <=> worker[ns] \notin {"release", "done"}
         /\ outcome[ns] = "failed" => errOut # "none"
         /\ outcome[ns] = "ok" \/ phase[ns] = "absent" => wasGone[ns]
    /\ errOut # "none" => broke \/ \E ns \in Namespaces : outcome[ns] = "failed"

(* The driver's place, errOut, the outcomes and the token count tell of    *)
(* each other what the code's comments rely on at hasErr() and wg.Wait().  *)
IInv == TypeOK /\ TokenBalance /\ AtMostOneLateStart /\ DriverInv /\ OutcomeInv

(* A goroutine goes on to finalize a namespace only if the operator opted  *)
(* in; and one past its delete faces a namespace that is not Active, or    *)
(* not the one it asked the server to delete.                              *)
SparedInv ==
    \A ns \in Namespaces :
      /\ worker[ns] \in {"finget", "finalize", "rewait"} => ForceFinalize
      /\ worker[ns] \in {"wait", "finget", "finalize", "rewait"} =>
           phase[ns] # "active" \/ wasGone[ns]

-----------------------------------------------------------------------------
(* Liveness                                                                *)

(* dropNamespaces returns whatever fails or gets stuck, with two           *)
(* exceptions: the select was left by its ctx.Done case, or some goroutine *)
(* waits for ever on a call that no deadline bounds, and no Ctrl-C came.   *)
ReturnsUnlessHung ==
    \/ <>(driver = "returned" \/ broke)
    \/ \E ns \in Namespaces : <>[](worker[ns] \in Undated /\ ~cancelled)

(* A Ctrl-C ends the call.  review.md:90 says operators expect it to be    *)
(* respected here; the code violates it.                                   *)
CancelReturns == cancelled ~> driver = "returned"

-----------------------------------------------------------------------------
(* The contract of dropNamespaces, which this module implements.           *)
Contract == INSTANCE DropContract WITH
    list   <- Namespaces,
    gone   <- {ns \in Namespaces : wasGone[ns]},
    result <- IF driver # "returned" THEN "none"
              ELSE IF errOut = "none" THEN "ok" ELSE "error"

(* The driver, its goroutines and the channel do together what the         *)
(* contract promises a caller.                                             *)
ImplementsContract == Contract!Spec
=============================================================================
