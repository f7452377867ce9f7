------------------------ MODULE NamespaceDropProofs ------------------------
(***************************************************************************)
(* Theorems about NamespaceDrop, for every list of namespaces, every cap   *)
(* and every setting of its switches.                                      *)
(***************************************************************************)
EXTENDS NamespaceDrop, FiniteSetTheorems, TLAPS

USE DropAssumption

-----------------------------------------------------------------------------
(* Typing                                                                  *)

(* What a goroutine or the server does to the variables they share keeps   *)
(* its type.                                                               *)
LEMMA WorkerTyped ==
    ASSUME TypeOK, NEW ns \in Namespaces, Worker(ns)
    PROVE  TypeOK'
<1> USE DEF TypeOK, Errors, Places, driverVars, server, Goto, Succeed, Fail,
        Continue, recordErr, CallFails, OpenWait, CloseWait, SetPhase
<1>1. CASE NamespaceExists(ns)
  BY <1>1 DEF NamespaceExists
<1>2. CASE DeleteNamespace(ns)
  <2>1. UNCHANGED <<driverVars, cancelled, fresh>>
    BY <1>2 DEF DeleteNamespace
  <2>2. /\ worker' \in [Namespaces -> Places]
        /\ outcome' \in [Namespaces -> {"pending", "ok", "failed"}]
        /\ errOut' \in Errors \cup {"none"}
        /\ waitCtx' \in [Namespaces -> {"none", "live", "deadline", "cancelled"}]
    BY <1>2 DEF DeleteNamespace
  <2>3. ServerDelete(ns) \/ UNCHANGED server
    BY <1>2 DEF DeleteNamespace
  <2>4. /\ phase' \in [Namespaces -> {"active", "terminating", "absent"}]
        /\ fin' \in [Namespaces -> BOOLEAN]
        /\ wasGone' \in [Namespaces -> BOOLEAN]
    BY <2>3 DEF ServerDelete
  <2>5. QED
    BY <2>1, <2>2, <2>4
<1>3. CASE WaitForNamespaceGone(ns)
  BY <1>3 DEF WaitForNamespaceGone, PollEnds, WaitCancelled
<1>4. CASE FinalizeGet(ns)
  BY <1>4 DEF FinalizeGet
<1>5. CASE Finalize(ns)
  BY <1>5 DEF Finalize, ServerFinalize
<1>6. CASE RewaitForNamespaceGone(ns)
  BY <1>6 DEF RewaitForNamespaceGone, PollEnds, WaitCancelled
<1>7. CASE Release(ns)
  BY <1>7 DEF Release
<1>8. QED
  BY <1>1, <1>2, <1>3, <1>4, <1>5, <1>6, <1>7 DEF Worker

LEMMA EnvironmentTyped ==
    ASSUME TypeOK, Cancel \/ \E ns \in Namespaces : Environment(ns)
    PROVE  TypeOK'
<1> USE DEF TypeOK, driverVars, server, SetPhase, ServerSteps
<1>1. CASE Cancel
  BY <1>1 DEF Cancel
<1>2. ASSUME NEW ns \in Namespaces, Environment(ns)
      PROVE  TypeOK'
  <2>1. CASE DeadlinePasses(ns)
    BY <2>1 DEF DeadlinePasses
  <2>2. CASE NamespaceRemoved(ns)
    BY <2>2 DEF NamespaceRemoved
  <2>3. CASE NamespaceUpdated(ns)
    BY <2>3 DEF NamespaceUpdated
  <2>4. CASE NamespaceRecreated(ns)
    BY <2>4 DEF NamespaceRecreated
  <2>5. QED
    BY <1>2, <2>1, <2>2, <2>3, <2>4 DEF Environment
<1>3. QED
  BY <1>1, <1>2

LEMMA DriverTyped ==
    ASSUME TypeOK, Driver
    PROVE  TypeOK'
<1> USE DEF TypeOK, Errors, Places, server, recordErr, Start
<1>1. CASE LoopEnds
  BY <1>1 DEF LoopEnds
<1>2. CASE LoopGoesOn
  BY <1>2 DEF LoopGoesOn
<1>3. ASSUME NEW ns \in Namespaces, SelectToken(ns)
      PROVE  TypeOK'
  BY <1>3 DEF SelectToken
<1>4. ASSUME NEW ns \in Namespaces, SelectCancelled(ns)
      PROVE  TypeOK'
  BY <1>4 DEF SelectCancelled
<1>5. CASE Return
  BY <1>5 DEF Return
<1>6. QED
  BY <1>1, <1>2, <1>3, <1>4, <1>5 DEF Driver

LEMMA TypeInit == Init => TypeOK
<1> SUFFICES ASSUME Init PROVE TypeOK
  OBVIOUS
<1>1. \A ns \in Namespaces : (phase[ns] = "absent") \in BOOLEAN
  BY Zenon
<1>2. wasGone \in [Namespaces -> BOOLEAN]
  BY <1>1, Zenon DEF Init
<1>3. QED
  BY <1>2 DEF Init, TypeOK, Places

(* Every variable keeps its type: the token count never goes below zero,   *)
(* whichever goroutines return their tokens.                               *)
THEOREM TypeCorrect == Spec => []TypeOK
<1>1. Init => TypeOK
  BY TypeInit
<1>2. TypeOK /\ [Next]_vars => TypeOK'
  <2>1. ASSUME TypeOK, Next PROVE TypeOK'
    BY <2>1, DriverTyped, WorkerTyped, EnvironmentTyped DEF Next
  <2>2. ASSUME TypeOK, UNCHANGED vars PROVE TypeOK'
    BY <2>2 DEF TypeOK, vars
  <2>3. QED
    BY <2>1, <2>2
<1>3. QED
  BY <1>1, <1>2, PTL DEF Spec

-----------------------------------------------------------------------------
(* The goroutines the WaitGroup counts                                     *)

(* The driver's go statement adds one.                                     *)
LEMMA RunningStarts ==
    ASSUME TypeOK, NEW ns \in Namespaces, Start(ns)
    PROVE  Cardinality(Running') = Cardinality(Running) + 1
<1>1. Running' = Running \cup {ns} /\ ns \notin Running
  BY DEF Start, Running, TypeOK
<1>2. IsFiniteSet(Running)
  BY FS_Subset DEF Running
<1>3. QED
  BY <1>1, <1>2, FS_AddElement

(* A deferred <-sem takes one away.                                        *)
LEMMA RunningEnds ==
    ASSUME TypeOK, NEW ns \in Namespaces, Release(ns)
    PROVE  Cardinality(Running') = Cardinality(Running) - 1
<1>1. Running' = Running \ {ns} /\ ns \in Running
  BY DEF Release, Goto, Running, TypeOK
<1>2. IsFiniteSet(Running)
  BY FS_Subset DEF Running
<1>3. QED
  BY <1>1, <1>2, FS_RemoveElement

(* dropOneNamespace, until it returns.                                     *)
Drops(ns) ==
    \/ NamespaceExists(ns)
    \/ DeleteNamespace(ns)
    \/ WaitForNamespaceGone(ns)
    \/ FinalizeGet(ns)
    \/ Finalize(ns)
    \/ RewaitForNamespaceGone(ns)

LEMMA DropsFacts ==
    ASSUME TypeOK, NEW ns \in Namespaces, Drops(ns)
    PROVE  /\ UNCHANGED <<driverVars, cancelled>>
           /\ worker[ns] \notin {"idle", "release", "done"}
           /\ \/ Succeed(ns) /\ phase[ns] = "absent" /\ UNCHANGED server
              \/ \E e \in Errors : Fail(ns, e)
              \/ \E place \in Places \ {"idle", "release", "done"} :
                   Continue(ns, place)
<1> USE DEF Errors, Places, CallFails
<1>1. CASE NamespaceExists(ns)
  BY <1>1 DEF NamespaceExists
<1>2. CASE DeleteNamespace(ns)
  BY <1>2 DEF DeleteNamespace
<1>3. CASE WaitForNamespaceGone(ns)
  BY <1>3 DEF WaitForNamespaceGone, PollEnds, WaitCancelled
<1>4. CASE FinalizeGet(ns)
  BY <1>4 DEF FinalizeGet
<1>5. CASE Finalize(ns)
  BY <1>5 DEF Finalize
<1>6. CASE RewaitForNamespaceGone(ns)
  BY <1>6 DEF RewaitForNamespaceGone, PollEnds, WaitCancelled
<1>7. QED
  BY <1>1, <1>2, <1>3, <1>4, <1>5, <1>6 DEF Drops

(* Neither the goroutines, before they end, nor the surroundings change    *)
(* which namespaces have been seen absent, other than to add their own.    *)
LEMMA ServerFacts ==
    ASSUME TypeOK, OutcomeInv, NEW ns \in Namespaces, Drops(ns) \/ Environment(ns)
    PROVE  \A m \in Namespaces : /\ wasGone[m] => wasGone'[m]
                                 /\ phase'[m] = "absent" => wasGone'[m]
                                 /\ wasGone'[m] # wasGone[m] => m = ns
<1> SUFFICES \/ UNCHANGED server
             \/ \E p \in {"active", "terminating", "absent"}, f \in BOOLEAN :
                  SetPhase(ns, p, f)
  BY DEF SetPhase, server, TypeOK, OutcomeInv
<1> USE DEF server, TypeOK
<1>1. CASE DeleteNamespace(ns)
  <2>1. ServerDelete(ns) \/ UNCHANGED server
    BY <1>1 DEF DeleteNamespace
  <2>2. QED
    BY <2>1 DEF ServerDelete
<1>2. CASE Finalize(ns)
  BY <1>2 DEF Finalize, ServerFinalize
<1>3. CASE NamespaceRemoved(ns) \/ NamespaceRecreated(ns)
  BY <1>3 DEF NamespaceRemoved, NamespaceRecreated
<1>4. CASE \/ NamespaceExists(ns) \/ WaitForNamespaceGone(ns) \/ FinalizeGet(ns)
           \/ RewaitForNamespaceGone(ns) \/ DeadlinePasses(ns)
           \/ NamespaceUpdated(ns)
  BY <1>4 DEF NamespaceExists, WaitForNamespaceGone, FinalizeGet,
              RewaitForNamespaceGone, DeadlinePasses, NamespaceUpdated
<1>5. QED
  BY <1>1, <1>2, <1>3, <1>4 DEF Drops, Environment

-----------------------------------------------------------------------------
(* The inductive invariant                                                 *)

LEMMA InitIInv == Init => IInv
<1> SUFFICES ASSUME Init PROVE IInv
  OBVIOUS
<1>1. TypeOK
  BY TypeInit
<1>2. Running = {}
  BY DEF Init, Running
<1>3. TokenBalance
  BY <1>2, FS_EmptySet DEF Init, TokenBalance
<1>4. DriverInv /\ AtMostOneLateStart
  BY <1>2 DEF Init, DriverInv, AtMostOneLateStart
<1>5. \A ns \in Namespaces : phase[ns] = "absent" => wasGone[ns]
  BY DEF Init
<1>6. OutcomeInv
  BY <1>5 DEF Init, OutcomeInv
<1>7. QED
  BY <1>1, <1>3, <1>4, <1>6 DEF IInv

LEMMA DriverIInv ==
    ASSUME IInv, Driver, TypeOK'
    PROVE  IInv'
<1> USE DEF IInv
<1>1. ASSUME NEW ns \in Namespaces, SelectToken(ns)
      PROVE  IInv'
  <2>1. Start(ns)
    BY <1>1 DEF SelectToken
  <2>2. TokenBalance'
    BY <1>1, <2>1, RunningStarts DEF SelectToken, TokenBalance, TypeOK
  <2>3. DriverInv' /\ AtMostOneLateStart'
    BY <1>1 DEF SelectToken, Start, DriverInv, AtMostOneLateStart, TypeOK
  <2>4. OutcomeInv'
    BY <1>1 DEF SelectToken, Start, OutcomeInv, TypeOK, server
  <2>5. QED
    BY <2>2, <2>3, <2>4
<1>2. ASSUME NEW ns \in Namespaces, SelectCancelled(ns)
      PROVE  IInv'
  <2>1. Start(ns) /\ ~broke
    BY <1>2 DEF SelectCancelled, DriverInv, TypeOK
  <2>2. TokenBalance'
    BY <1>2, <2>1, RunningStarts DEF SelectCancelled, TokenBalance, TypeOK
  <2>3. DriverInv' /\ AtMostOneLateStart'
    BY <1>2 DEF SelectCancelled, Start, recordErr, DriverInv,
                AtMostOneLateStart, TypeOK
  <2>4. OutcomeInv'
    BY <1>2 DEF SelectCancelled, Start, recordErr, OutcomeInv, TypeOK, server
  <2>5. QED
    BY <2>2, <2>3, <2>4
<1>3. CASE LoopEnds \/ LoopGoesOn \/ Return
  <2>1. UNCHANGED <<worker, tokens, errOut, outcome, cancelled, broke, late, server>>
    BY <1>3 DEF LoopEnds, LoopGoesOn, Return
  <2>2. TokenBalance' /\ OutcomeInv'
    BY <2>1 DEF TokenBalance, Running, OutcomeInv, server
  <2>3. DriverInv' /\ AtMostOneLateStart'
    BY <1>3, <2>1 DEF LoopEnds, LoopGoesOn, Return, Running, DriverInv,
                      AtMostOneLateStart
  <2>4. QED
    BY <2>2, <2>3
<1>4. QED
  BY <1>1, <1>2, <1>3 DEF Driver

LEMMA DropsIInv ==
    ASSUME IInv, NEW ns \in Namespaces, Drops(ns), TypeOK'
    PROVE  IInv'
<1> USE DEF IInv
<1>1. /\ UNCHANGED <<driver, tokens, broke, late, cancelled>>
      /\ worker[ns] \notin {"idle", "release", "done"}
  BY DropsFacts DEF driverVars
<1>2. PICK place \in Places \ {"idle", "done"} : Goto(ns, place)
  BY DropsFacts DEF Succeed, Fail, Continue, Places
<1>3. Running' = Running
  BY <1>1, <1>2 DEF Running, Goto, TypeOK
<1>4. TokenBalance'
  BY <1>1, <1>3 DEF TokenBalance
<1>5. /\ errOut' = "none" => errOut = "none"
      /\ errOut # "none" => errOut' = errOut
      /\ worker'[ns] # "idle"
      /\ \A m \in Namespaces \ {ns} : worker'[m] = worker[m] /\ outcome'[m] = outcome[m]
  <2>1. \A m \in Namespaces \ {ns} : worker'[m] = worker[m]
    BY <1>2 DEF Goto, TypeOK
  <2>2. worker'[ns] # "idle"
    BY <1>2 DEF Goto, TypeOK, Places
  <2>3. CASE Succeed(ns)
    BY <2>1, <2>2, <2>3 DEF Succeed, TypeOK
  <2>4. ASSUME NEW e \in Errors, Fail(ns, e)
        PROVE  <1>5!:
    BY <2>1, <2>2, <2>4 DEF Fail, recordErr, Errors, TypeOK
  <2>5. ASSUME NEW q \in Places, Continue(ns, q)
        PROVE  <1>5!:
    BY <2>1, <2>2, <2>5 DEF Continue, TypeOK
  <2>6. QED
    BY <2>3, <2>4, <2>5, DropsFacts
<1>6. DriverInv' /\ AtMostOneLateStart'
  BY <1>1, <1>3, <1>5 DEF DriverInv, AtMostOneLateStart
<1>7. /\ outcome'[ns] = "pending" <=> worker'[ns] \notin {"release", "done"}
      /\ outcome'[ns] = "failed" => errOut' # "none"
      /\ outcome'[ns] = "ok" => wasGone'[ns]
      /\ errOut = "none" /\ errOut' # "none" => outcome'[ns] = "failed"
  BY <1>1, DropsFacts DEF Succeed, Fail, Continue, Goto, recordErr, OutcomeInv,
                    TypeOK, Errors, Places, server
<1>8. OutcomeInv'
  BY <1>1, <1>5, <1>7, ServerFacts DEF OutcomeInv
<1>9. QED
  BY <1>4, <1>6, <1>8

LEMMA ReleaseIInv ==
    ASSUME IInv, NEW ns \in Namespaces, Release(ns), TypeOK'
    PROVE  IInv'
<1> USE DEF IInv
<1>1. TokenBalance'
  BY RunningEnds DEF Release, TokenBalance, TypeOK
<1>2. Running' \subseteq Running
  BY DEF Release, Goto, Running, TypeOK
<1>3. DriverInv' /\ AtMostOneLateStart'
  BY <1>2 DEF Release, Goto, DriverInv, AtMostOneLateStart, TypeOK
<1>4. OutcomeInv'
  BY DEF Release, Goto, OutcomeInv, TypeOK, server
<1>5. QED
  BY <1>1, <1>3, <1>4

LEMMA SurroundingsIInv ==
    ASSUME IInv, Cancel \/ \E ns \in Namespaces : Environment(ns), TypeOK'
    PROVE  IInv'
<1> USE DEF IInv
<1>1. /\ UNCHANGED <<driver, worker, tokens, errOut, outcome, broke, late>>
      /\ cancelled => cancelled'
  <2>1. CASE Cancel
    BY <2>1 DEF Cancel, driverVars
  <2>2. ASSUME NEW ns \in Namespaces, Environment(ns)
        PROVE  /\ UNCHANGED <<driver, worker, tokens, errOut, outcome, broke, late>>
               /\ cancelled => cancelled'
    <3>1. CASE DeadlinePasses(ns)
      BY <3>1 DEF DeadlinePasses, driverVars
    <3>2. CASE ServerSteps(ns)
      BY <3>2 DEF ServerSteps, driverVars
    <3>3. QED
      BY <2>2, <3>1, <3>2 DEF Environment, NamespaceRemoved, NamespaceUpdated,
                              NamespaceRecreated
  <2>3. QED
    BY <2>1, <2>2
<1>2. \A ns \in Namespaces : /\ wasGone[ns] => wasGone'[ns]
                             /\ phase'[ns] = "absent" => wasGone'[ns]
  BY ServerFacts DEF Cancel, server, OutcomeInv
<1>3. Running' = Running
  BY <1>1 DEF Running
<1>4. TokenBalance' /\ DriverInv' /\ AtMostOneLateStart'
  BY <1>1, <1>3 DEF TokenBalance, DriverInv, AtMostOneLateStart
<1>5. OutcomeInv'
  BY <1>1, <1>2 DEF OutcomeInv
<1>6. QED
  BY <1>4, <1>5

(* The invariant holds from the first step to the last.                    *)
THEOREM Inductive == Spec => []IInv
<1>1. Init => IInv
  BY InitIInv
<1>2. IInv /\ TypeOK' /\ [Next]_vars => IInv'
  <2>1. ASSUME IInv, TypeOK', Next PROVE IInv'
    BY <2>1, DriverIInv, DropsIInv, ReleaseIInv, SurroundingsIInv
       DEF Next, Worker, Drops
  <2>2. ASSUME IInv, TypeOK', UNCHANGED vars PROVE IInv'
    BY <2>2 DEF IInv, vars, TokenBalance, Running, AtMostOneLateStart, DriverInv,
                OutcomeInv
  <2>3. QED
    BY <2>1, <2>2
<1>3. QED
  BY <1>1, <1>2, TypeCorrect, PTL DEF Spec

-----------------------------------------------------------------------------
(* What follows from it                                                    *)

(* A nil error from dropNamespaces means that every namespace on the list  *)
(* has been absent since the call was made.                                *)
THEOREM NilErrorIsTrue == Spec => []NoErrorMeansGone
<1>1. IInv => NoErrorMeansGone
  BY DEF IInv, NoErrorMeansGone, DriverInv, OutcomeInv, Running, TypeOK
<1>2. QED
  BY <1>1, Inductive, PTL

(* The hasErr() check before the select lets one more goroutine through.   *)
THEOREM OneLateStart == Spec => []AtMostOneLateStart
<1>1. IInv => AtMostOneLateStart
  BY DEF IInv
<1>2. QED
  BY <1>1, Inductive, PTL

(* The tokens in the channel are those of the goroutines that run.         *)
THEOREM TokensBalance == Spec => []TokenBalance
<1>1. IInv => TokenBalance
  BY DEF IInv
<1>2. QED
  BY <1>1, Inductive, PTL

(* Until the operator interrupts, the cap on parallel deletions holds.     *)
THEOREM CapHolds == Spec => []ConcurrencyCap
<1>1. IInv => ConcurrencyCap
  BY DEF IInv, ConcurrencyCap, TokenBalance, DriverInv, TypeOK
<1>2. QED
  BY <1>1, Inductive, PTL

(* Once the driver has left its select by ctx.Done(), dropNamespaces does  *)
(* not return: one goroutine more than there are tokens waits to give one  *)
(* back, whatever the cap, the list and the server do.                     *)
THEOREM BrokenSelectHangs == Spec => [](broke => driver # "returned")
<1>1. IInv => (broke => driver # "returned")
  <2> SUFFICES ASSUME IInv, broke, driver = "returned" PROVE FALSE
    OBVIOUS
  <2>1. Cardinality(Running) = 0
    BY FS_EmptySet DEF IInv, DriverInv
  <2>2. QED
    BY <2>1 DEF IInv, TokenBalance, TypeOK
<1>2. QED
  BY <1>1, Inductive, PTL

-----------------------------------------------------------------------------
(* Finalizers                                                              *)

(* A step of one goroutine, of the driver or of the surroundings moves one *)
(* namespace and one goroutine, and only the ways listed here.             *)
LEMMA SparedStep ==
    ASSUME TypeOK, OutcomeInv, SparedInv, Next
    PROVE  /\ SparedInv'
           /\ \A ns \in Namespaces :
                fin[ns] /\ ~fin'[ns] /\ phase'[ns] # "absent"
                  => /\ ForceFinalize
                     /\ phase[ns] = "terminating" \/ wasGone[ns]
<1> DEFINE Spares ==
             \A ns \in Namespaces :
                fin[ns] /\ ~fin'[ns] /\ phase'[ns] # "absent"
                  => /\ ForceFinalize
                     /\ phase[ns] = "terminating" \/ wasGone[ns]
<1> USE DEF TypeOK, Places, SparedInv, driverVars, server, Goto, Succeed, Fail,
        Continue, CallFails, SetPhase
<1>1. CASE Driver
  <2>1. /\ UNCHANGED server
        /\ \A ns \in Namespaces : worker'[ns] \in {worker[ns], "exists"}
    BY <1>1 DEF Driver, LoopEnds, LoopGoesOn, SelectToken, SelectCancelled,
                Start, Return
  <2>2. QED
    BY <2>1
<1>2. ASSUME NEW ns \in Namespaces, Worker(ns)
      PROVE  SparedInv' /\ Spares
  <2>1. CASE NamespaceExists(ns)
    BY <2>1 DEF NamespaceExists
  <2>2. CASE DeleteNamespace(ns)
    <3>1. ServerDelete(ns) \/ UNCHANGED server
      BY <2>2 DEF DeleteNamespace
    <3>2. worker'[ns] = "wait" => ServerDelete(ns)
      BY <2>2 DEF DeleteNamespace
    <3>3. /\ worker'[ns] \in {"wait", "release"}
          /\ \A m \in Namespaces \ {ns} : worker'[m] = worker[m]
      BY <2>2 DEF DeleteNamespace
    <3>4. /\ \A m \in Namespaces \ {ns} : phase'[m] = phase[m] /\ fin'[m] = fin[m]
          /\ worker'[ns] = "wait" => phase'[ns] # "active"
          /\ \A m \in Namespaces : wasGone[m] => wasGone'[m]
          /\ fin[ns] => fin'[ns]
      BY <3>1, <3>2 DEF ServerDelete
    <3>5. QED
      BY <3>3, <3>4
  <2>3. CASE WaitForNamespaceGone(ns)
    BY <2>3 DEF WaitForNamespaceGone, PollEnds, WaitCancelled
  <2>4. CASE FinalizeGet(ns)
    BY <2>4 DEF FinalizeGet
  <2>5. CASE Finalize(ns)
    BY <2>5 DEF Finalize, ServerFinalize
  <2>6. CASE RewaitForNamespaceGone(ns)
    BY <2>6 DEF RewaitForNamespaceGone, PollEnds, WaitCancelled
  <2>7. CASE Release(ns)
    BY <2>7 DEF Release
  <2>8. QED
    BY <1>2, <2>1, <2>2, <2>3, <2>4, <2>5, <2>6, <2>7 DEF Worker
<1>3. ASSUME NEW ns \in Namespaces, Environment(ns)
      PROVE  SparedInv' /\ Spares
  <2>1. CASE DeadlinePasses(ns)
    BY <2>1 DEF DeadlinePasses
  <2>2. CASE NamespaceRemoved(ns)
    BY <2>2 DEF NamespaceRemoved, ServerSteps
  <2>3. CASE NamespaceUpdated(ns)
    BY <2>3 DEF NamespaceUpdated, ServerSteps
  <2>4. CASE NamespaceRecreated(ns)
    BY <2>4 DEF NamespaceRecreated, ServerSteps, OutcomeInv
  <2>5. QED
    BY <1>3, <2>1, <2>2, <2>3, <2>4 DEF Environment
<1>4. CASE Cancel
  BY <1>4 DEF Cancel
<1>5. QED
  BY <1>1, <1>2, <1>3, <1>4 DEF Next

(* Finalizers are cleared only if the operator opted in, and only of a     *)
(* Terminating namespace or of one created again during the call, which    *)
(* ForceFinalizeNamespace (client.go:142) does not tell from the one that  *)
(* it was called for.                                                      *)
THEOREM FinalizersAreSpared == Spec => FinalizersSpared
<1>1. Init => SparedInv
  BY DEF Init, SparedInv
<1>2. TypeOK /\ OutcomeInv /\ SparedInv /\ [Next]_vars => SparedInv'
  <2>1. ASSUME TypeOK, SparedInv, UNCHANGED vars PROVE SparedInv'
    BY <2>1 DEF SparedInv, vars
  <2>2. QED
    BY <2>1, SparedStep
<1>3. TypeOK /\ OutcomeInv /\ SparedInv /\ [Next]_vars
        => [\A ns \in Namespaces :
              fin[ns] /\ ~fin'[ns] /\ phase'[ns] # "absent"
                => /\ ForceFinalize
                   /\ phase[ns] = "terminating" \/ wasGone[ns]]_vars
  BY SparedStep
<1>4. IInv => TypeOK /\ OutcomeInv
  BY DEF IInv
<1>5. QED
  BY <1>1, <1>2, <1>3, <1>4, Inductive, PTL DEF Spec, FinalizersSpared

-----------------------------------------------------------------------------
(* The refinement                                                          *)

(* What the mapping of `gone' does when one namespace may have gone.       *)
LEMMA GoneGrows ==
    ASSUME TypeOK, TypeOK', OutcomeInv, NEW ns \in Namespaces,
           Drops(ns) \/ Environment(ns)
    PROVE  {m \in Namespaces : wasGone'[m]}
             \in {{m \in Namespaces : wasGone[m]},
                  {m \in Namespaces : wasGone[m]} \cup {ns}}
<1>1. \A m \in Namespaces : /\ wasGone[m] => wasGone'[m]
                            /\ wasGone'[m] # wasGone[m] => m = ns
  BY ServerFacts
<1>2. CASE wasGone'[ns]
  BY <1>1, <1>2 DEF TypeOK
<1>3. CASE ~wasGone'[ns]
  BY <1>1, <1>3 DEF TypeOK
<1>4. QED
  BY <1>2, <1>3

(* A step of a goroutine is a step of the contract, or none.               *)
LEMMA DropsRefine ==
    ASSUME IInv, TypeOK', NEW ns \in Namespaces, Drops(ns)
    PROVE  [Contract!Next]_Contract!cvars
<1> USE DEF IInv
<1>1. /\ driver # "returned"
      /\ driver' = driver
      /\ outcome[ns] = "pending"
  <2>1. driver' = driver /\ worker[ns] \notin {"idle", "release", "done"}
    BY DropsFacts DEF driverVars
  <2>2. ns \in Running
    BY <2>1 DEF Running
  <2>3. QED
    BY <2>1, <2>2 DEF DriverInv, OutcomeInv
<1>2. CASE Succeed(ns) /\ phase[ns] = "absent" /\ UNCHANGED server
  <2>1. wasGone[ns] /\ UNCHANGED wasGone
    BY <1>2 DEF OutcomeInv, server
  <2>2. Contract!Dropped(ns)
    BY <1>1, <1>2, <2>1 DEF Succeed, Contract!Dropped
  <2>3. QED
    BY <2>2 DEF Contract!Next
<1>3. ASSUME NEW e \in Errors, Fail(ns, e)
      PROVE  Contract!Next
  <2>1. Contract!Failed(ns)
    BY <1>1, <1>3, GoneGrows DEF Fail, Contract!Failed
  <2>2. QED
    BY <2>1 DEF Contract!Next
<1>4. ASSUME NEW place \in Places, Continue(ns, place)
      PROVE  [Contract!Next]_Contract!cvars
  <2>1. UNCHANGED <<driver, outcome, errOut>>
    BY <1>1, <1>4 DEF Continue
  <2>2. QED
    BY <2>1, GoneGrows DEF Contract!Next, Contract!Vanish, Contract!cvars
<1>5. QED
  BY <1>2, <1>3, <1>4, DropsFacts

(* wg.Wait() is over: a nil error needs every outcome good, and an error   *)
(* that is returned is a goroutine's, for the broken select never returns. *)
LEMMA ReturnRefines ==
    ASSUME IInv, Return
    PROVE  Contract!Next
<1> USE DEF IInv
<1>1. /\ Running = {}
      /\ driver = "join" /\ driver' = "returned"
      /\ UNCHANGED <<errOut, outcome, wasGone>>
  BY DEF Return, server
<1>2. ~broke
  <2>1. Cardinality(Running) = 0
    BY <1>1, FS_EmptySet
  <2>2. QED
    BY <2>1 DEF TokenBalance, TypeOK
<1>3. CASE errOut = "none"
  <2>1. \A ns \in Namespaces : outcome[ns] = "ok"
    BY <1>1, <1>3 DEF DriverInv, OutcomeInv, Running, TypeOK
  <2>2. Contract!ReturnNil
    BY <1>1, <1>3, <2>1 DEF Contract!ReturnNil, Contract!AllDropped
  <2>3. QED
    BY <2>2 DEF Contract!Next
<1>4. CASE errOut # "none"
  <2>1. \E ns \in Namespaces : outcome[ns] = "failed"
    BY <1>2, <1>4 DEF OutcomeInv
  <2>2. Contract!ReturnError
    BY <1>1, <1>4, <2>1 DEF Contract!ReturnError, Contract!SomeFailed
  <2>3. QED
    BY <2>2 DEF Contract!Next
<1>5. QED
  BY <1>3, <1>4

(* Every behaviour of the driver, its goroutines and the API server is one *)
(* that the contract of dropNamespaces allows.                             *)
THEOREM DropImplementsContract == Spec => ImplementsContract
<1>1. Init => Contract!Init
  BY DEF Init, Contract!Init
<1>2. IInv /\ TypeOK' /\ [Next]_vars => [Contract!Next]_Contract!cvars
  <2> SUFFICES ASSUME IInv, TypeOK', [Next]_vars
               PROVE  [Contract!Next]_Contract!cvars
    OBVIOUS
  <2>1. CASE Driver
    <3>1. CASE LoopEnds \/ LoopGoesOn
      BY <3>1 DEF LoopEnds, LoopGoesOn, server, Contract!cvars
    <3>2. ASSUME NEW ns \in Namespaces, SelectToken(ns) \/ SelectCancelled(ns)
          PROVE  UNCHANGED Contract!cvars
      BY <3>2 DEF SelectToken, SelectCancelled, Start, server, Contract!cvars
    <3>3. QED
      BY <2>1, <3>1, <3>2, ReturnRefines DEF Driver
  <2>2. ASSUME NEW ns \in Namespaces, Worker(ns)
        PROVE  [Contract!Next]_Contract!cvars
    <3>1. CASE Release(ns)
      BY <3>1 DEF Release, server, Contract!cvars
    <3>2. QED
      BY <2>2, <3>1, DropsRefine DEF Worker, Drops
  <2>3. ASSUME NEW ns \in Namespaces, Environment(ns)
        PROVE  [Contract!Next]_Contract!cvars
    <3>1. UNCHANGED <<driver, errOut, outcome>>
      <4>1. CASE DeadlinePasses(ns)
        BY <4>1 DEF DeadlinePasses, driverVars
      <4>2. CASE ServerSteps(ns)
        BY <4>2 DEF ServerSteps, driverVars
      <4>3. QED
        BY <2>3, <4>1, <4>2 DEF Environment, NamespaceRemoved, NamespaceUpdated,
                                NamespaceRecreated
    <3>2. QED
      BY <2>3, <3>1, GoneGrows
         DEF IInv, Contract!Next, Contract!Vanish, Contract!cvars
  <2>4. CASE Cancel
    BY <2>4 DEF Cancel, driverVars, server, Contract!cvars
  <2>5. CASE UNCHANGED vars
    BY <2>5 DEF vars, Contract!cvars
  <2>6. QED
    BY <2>1, <2>2, <2>3, <2>4, <2>5 DEF Next
<1>3. QED
  BY <1>1, <1>2, Inductive, TypeCorrect, PTL
     DEF Spec, ImplementsContract, Contract!Spec
=============================================================================
