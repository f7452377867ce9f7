---------------------------- MODULE DropContract ----------------------------
(***************************************************************************)
(* What Cleaner.dropNamespaces promises its caller, Cleanup, with no word  *)
(* of goroutines, tokens or contexts: each namespace is dropped or fails   *)
(* on its own, in any order; the call reports success only if every one    *)
(* was dropped, an error only if one failed; and once it has returned it   *)
(* does nothing more.                                                      *)
(***************************************************************************)
CONSTANT Namespaces     \* every namespace a list may name

VARIABLES
    list,       \* the namespaces to drop
    gone,       \* namespaces that were absent at some time during the call
    outcome,    \* what became of each namespace
    result      \* what the call returned: none yet, ok or error

cvars == <<list, gone, outcome, result>>

Init ==
    /\ list \in SUBSET Namespaces
    /\ gone \in SUBSET Namespaces
    /\ outcome = [ns \in Namespaces |-> "pending"]
    /\ result = "none"

(* The API server removes a namespace, before or after the call returns.   *)
Vanish(ns) ==
    /\ gone' = gone \cup {ns}
    /\ UNCHANGED <<list, outcome, result>>

Dropped(ns) ==
    /\ result = "none"
    /\ ns \in list
    /\ outcome[ns] = "pending"
    /\ ns \in gone
    /\ outcome' = [outcome EXCEPT ![ns] = "ok"]
    /\ UNCHANGED <<list, gone, result>>

(* A call that failed may still have removed the namespace.                *)
Failed(ns) ==
    /\ result = "none"
    /\ ns \in list
    /\ outcome[ns] = "pending"
    /\ outcome' = [outcome EXCEPT ![ns] = "failed"]
    /\ gone' \in {gone, gone \cup {ns}}
    /\ UNCHANGED <<list, result>>

AllDropped == \A ns \in list : outcome[ns] = "ok"

SomeFailed == \E ns \in list : outcome[ns] = "failed"

ReturnNil ==
    /\ result = "none"
    /\ AllDropped
    /\ result' = "ok"
    /\ UNCHANGED <<list, gone, outcome>>

ReturnError ==
    /\ result = "none"
    /\ SomeFailed
    /\ result' = "error"
    /\ UNCHANGED <<list, gone, outcome>>

Next ==
    \/ \E ns \in Namespaces : Vanish(ns) \/ Dropped(ns) \/ Failed(ns)
    \/ ReturnNil
    \/ ReturnError

Spec == Init /\ [][Next]_cvars
=============================================================================
