-------------------------- MODULE ValidationProofs --------------------------
(***************************************************************************)
(* For any set of pods: what a nil, a timeout and a cancellation of the    *)
(* validation pass say of the cluster.                                     *)
(***************************************************************************)
EXTENDS Validation, TLAPS

(* Where the pass is tells what it has seen.                               *)
SeenInv ==
    /\ last = summarizePods(listed)
    /\ Settled(listed) => settled /\ at \in {"evaluate", "host", "port", "returned"}
    /\ Settled(pods) => settled
    /\ at \in {"host", "port"} => Settled(listed)
    /\ at = "port" => url.host = "dex"
    /\ at = "returned" <=> verdict # "none"
    /\ at \in {"list", "evaluate", "sleep"} => waitCtx # "none"
    /\ waitCtx = "cancelled" => cancelled

IInv == TypeOK /\ SeenInv /\ SuccessMeansReachable /\ ErrorNamesItsCause

(* The test Evaluate makes of the summary is the one the wait is for.      *)
LEMMA SummaryTells ==
    ASSUME NEW ps \in [Pods -> PodStates]
    PROVE  /\ summarizePods(ps) \in Summaries
           /\ Settled(ps) <=> /\ summarizePods(ps).Ready # {}
                              /\ summarizePods(ps).NotReady = {}
  BY DEF summarizePods, Summaries, Settled, isPodReady, PodStates

LEMMA InitIInv == Init => IInv
  <1> SUFFICES ASSUME Init PROVE IInv
    OBVIOUS
  <1>1. TypeOK
    <2>1. Settled(pods) \in BOOLEAN
      BY DEF Settled
    <2> QED
      BY <2>1 DEF Init, TypeOK, Summaries, NoPods, PodStates
  <1>2. last = summarizePods(listed) /\ ~Settled(listed)
    BY DEF Init, NoPods, Settled, summarizePods
  <1> QED
    BY <1>1, <1>2 DEF Init, IInv, SeenInv, SuccessMeansReachable, ErrorNamesItsCause

LEMMA TypeStep == TypeOK /\ [Next]_vars => TypeOK'
  <1> SUFFICES ASSUME TypeOK, [Next]_vars PROVE TypeOK'
    OBVIOUS
  <1> USE DEF TypeOK
  <1>1. CASE Start
    BY <1>1 DEF Start, Return, Goto, server
  <1>2. CASE List
    <2>1. last' \in Summaries /\ listed' \in [Pods -> PodStates]
      BY <1>2, SummaryTells DEF List
    <2> QED
      BY <1>2, <2>1 DEF List, Return, Goto, ContextError, server
  <1>3. CASE Evaluate
    BY <1>3 DEF Evaluate, Goto, server
  <1>4. CASE Sleep
    BY <1>4 DEF Sleep, Return, Goto, ContextError, server
  <1>5. CASE GetIngressHost
    BY <1>5 DEF GetIngressHost, Return, Goto, CallFails, server
  <1>6. CASE GetServiceNodePort
    BY <1>6 DEF GetServiceNodePort, Return, CallFails, server
  <1>7. CASE DeadlinePasses
    BY <1>7 DEF DeadlinePasses, server
  <1>8. CASE Cancel
    <2>1. /\ cancelled' \in BOOLEAN
          /\ waitCtx' \in {"none", "live", "deadline", "cancelled"}
      BY <1>8 DEF Cancel
    <2> QED
      BY <1>8, <2>1 DEF Cancel, server
  <1>9. ASSUME NEW p \in Pods, PodChanges(p) PROVE TypeOK'
    BY <1>9 DEF PodChanges, client, Settled
  <1>10. CASE DetailsChange
    BY <1>10 DEF DetailsChange, client
  <1>11. CASE UNCHANGED vars
    BY <1>11 DEF vars
  <1> QED
    BY <1>1, <1>2, <1>3, <1>4, <1>5, <1>6, <1>7, <1>8, <1>9, <1>10,
       <1>11 DEF Next, Pass

LEMMA StepIInv == IInv /\ [Next]_vars => IInv'
  <1> SUFFICES ASSUME IInv, [Next]_vars PROVE IInv'
    OBVIOUS
  <1>0. TypeOK'
    BY TypeStep DEF IInv
  <1> USE <1>0 DEF IInv, SeenInv, SuccessMeansReachable, ErrorNamesItsCause
  <1>1. CASE Start
    BY <1>1 DEF Start, Return, Goto, server
  <1>2. CASE List
    <2>1. CASE waitCtx = "live" /\ Goto("evaluate") /\ listed' = pods
      BY <1>2, <2>1 DEF List, Goto, Return, ContextError, server
    <2>2. CASE waitCtx = "live" /\ Return("api") /\ UNCHANGED <<last, listed>>
      BY <1>2, <2>2 DEF List, Return, server
    <2>3. CASE Return("timeout") /\ dialled' /\ UNCHANGED <<last, listed>>
      BY <1>2, <2>3 DEF List, Return, server
    <2>4. CASE waitCtx # "live" /\ ContextError /\ UNCHANGED <<last, listed>>
      BY <1>2, <2>4 DEF List, ContextError, Return, server, TypeOK
    <2> QED
      BY <1>2, <2>1, <2>2, <2>3, <2>4 DEF List
  <1>3. CASE Evaluate
    <2>1. Settled(listed) <=> last.Ready # {} /\ last.NotReady = {}
      BY SummaryTells DEF TypeOK
    <2> QED
      BY <1>3, <2>1 DEF Evaluate, Goto, server
  <1>4. CASE Sleep
    BY <1>4 DEF Sleep, Return, Goto, ContextError, server, TypeOK
  <1>5. CASE GetIngressHost
    <2>1. CASE UNCHANGED url /\ at' = "returned"
      BY <1>5, <2>1 DEF GetIngressHost, Return, Goto, CallFails, server, TypeOK
    <2>2. CASE at' = "port"
      <3>1. url'.host = "dex"
        BY <1>5, <2>2 DEF GetIngressHost, Return, Goto, CallFails, TypeOK
      <3> QED
        BY <1>5, <2>2, <3>1 DEF GetIngressHost, Return, Goto, CallFails, server
    <2> QED
      BY <1>5, <2>1, <2>2 DEF GetIngressHost, Return, Goto, CallFails
  <1>6. CASE GetServiceNodePort
    BY <1>6 DEF GetServiceNodePort, Return, CallFails, server, TypeOK
  <1>7. CASE DeadlinePasses \/ Cancel
    BY <1>7 DEF DeadlinePasses, Cancel, server, TypeOK
  <1>8. ASSUME NEW p \in Pods, PodChanges(p) PROVE IInv'
    BY <1>8 DEF PodChanges, client
  <1>9. CASE DetailsChange \/ UNCHANGED vars
    BY <1>9 DEF DetailsChange, client, vars
  <1> QED
    BY <1>1, <1>2, <1>3, <1>4, <1>5, <1>6, <1>7, <1>8, <1>9 DEF Next, Pass

(* The invariant holds of every pass.                                      *)
THEOREM Inductive == Spec => []IInv
  BY InitIInv, StepIInv, PTL DEF Spec

(* The types of the pass's and the cluster's state, for any set of pods.   *)
THEOREM TypeCorrect == Spec => []TypeOK
  <1>1. IInv => TypeOK
    BY DEF IInv
  <1> QED
    BY <1>1, Inductive, PTL

(* A nil from validate means pods that were all ready or finished at one   *)
(* moment of the pass, and an address that is whole.                       *)
THEOREM NilMeansReachable == Spec => []SuccessMeansReachable
  <1>1. IInv => SuccessMeansReachable
    BY DEF IInv
  <1> QED
    BY <1>1, Inductive, PTL

(* ErrorNamesItsCause: ErrTimeout is returned only of pods that the last   *)
(* list did not find settled, after the deadline or a dial that timed out; *)
(* a cancellation, only after a Ctrl-C, and during the wait only if it     *)
(* came before the deadline.                                               *)
THEOREM TimeoutIsEarned == Spec => []ErrorNamesItsCause
  <1>1. IInv => ErrorNamesItsCause
    BY DEF IInv
  <1> QED
    BY <1>1, Inductive, PTL
=============================================================================
