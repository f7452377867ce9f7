-------------------------- MODULE CleanupContract --------------------------
(***************************************************************************)
(* What Cleaner.Cleanup does to one cluster, as its caller and a later     *)
(* deploy see it, with no word of the steps of a Helm call, of parallel    *)
(* deletions or of webhooks: releases come down one after another, the     *)
(* namespaces only then, and nil means what the level promises.  Cleanup   *)
(* implements it; Commands is built on it.                                 *)
(***************************************************************************)
EXTENDS Naturals, Sequences

CONSTANTS
    Releases,
    Kinds,          \* groups of objects of a release
    Statuses,       \* of a release's latest revision
    NamespaceOf,    \* the namespace of each release
    Plans           \* the lists of releases that a run may be told to remove

VARIABLES
    record,     \* status of a release's latest revision, or none
    objects,    \* which of its objects are on the cluster
    namespace,  \* a namespace is absent, active or terminating
    cancelled,  \* whether the context is cancelled
    teardown,   \* the level of the run, failing, or what the last one returned
    torn,       \* the releases the run is to remove, in order
    taken,      \* the release that is about to be uninstalled, if any
    deleting    \* the release whose objects Helm is deleting, if any

cvars == <<record, objects, namespace, cancelled, teardown, torn, taken,
           deleting>>

Levels == {"uninstall", "full", "reset"}

Spaces == {NamespaceOf[r] : r \in Releases}

Torn == {torn[i] : i \in DOMAIN torn}

(* What releaseExists tells the installer.                                 *)
Exists(r) == record[r] \notin {"none", "uninstalled", "uninstalling"}

Idle == teardown \in {"none", "ok", "error", "killed"}

Init ==
    /\ record \in [Releases -> Statuses]
    /\ objects \in [Releases -> SUBSET Kinds]
    /\ namespace \in [Spaces -> {"absent", "active"}]
    /\ cancelled = FALSE
    /\ teardown = "none"
    /\ torn = <<>>
    /\ taken = {}
    /\ deleting = {}

Begin(level, releases) ==
    /\ Idle
    /\ teardown' = level
    /\ torn' = releases
    /\ UNCHANGED <<record, objects, namespace, taken, deleting>>

(* A configuration that does not load, or a level that is none.            *)
Refuse ==
    /\ Idle
    /\ teardown' = "error"
    /\ UNCHANGED <<record, objects, namespace, torn, taken, deleting>>

(* A release is found and taken up once those before it are not there, and *)
(* only before a Ctrl-C;                                                   *)
Take(i) ==
    /\ teardown \in {"uninstall", "full"}
    /\ ~cancelled
    /\ taken = {}
    /\ deleting = {}
    /\ i \in DOMAIN torn
    /\ Exists(torn[i])
    /\ \A j \in 1 .. i - 1 : ~Exists(torn[j])
    /\ taken' = {torn[i]}
    /\ UNCHANGED <<record, objects, namespace, teardown, torn, deleting>>

(* Helm begins on it after one, too, if its history is still there.        *)
BeginUninstall ==
    /\ \E r \in taken :
         /\ Exists(r)
         /\ record' = [record EXCEPT ![r] = "uninstalling"]
    /\ taken' = {}
    /\ deleting' = taken
    /\ UNCHANGED <<objects, namespace, teardown, torn>>

(* What is being deleted is deleted in part.                               *)
InPart ==
    IF deleting = {} THEN UNCHANGED objects
    ELSE \E r \in deleting : \E left \in SUBSET objects[r] :
           objects' = [objects EXCEPT ![r] = left]

(* Helm's deletion succeeds, or the run is about to fail.                  *)
EndUninstall ==
    /\ \E r \in deleting :
         \/ /\ objects' = [objects EXCEPT ![r] = {}]
            /\ record' = [record EXCEPT ![r] = "none"]
            /\ teardown' \in {teardown, "failing"}
         \/ /\ InPart
            /\ teardown' = "failing"
            /\ UNCHANGED record
    /\ deleting' = {}
    /\ UNCHANGED <<namespace, torn, taken>>

Fail ==
    /\ teardown \in Levels
    /\ deleting = {}
    /\ teardown' = "failing"
    /\ taken' = {}
    /\ UNCHANGED <<record, objects, namespace, torn, deleting>>

(* Namespaces are deleted once Helm has nothing more to do, after a Ctrl-C *)
(* too: a DELETE may have been out.                                        *)
Doom(ns) ==
    /\ teardown \in {"full", "reset"}
    /\ taken = {}
    /\ deleting = {}
    /\ teardown = "full" => \A r \in Torn : ~Exists(r)
    /\ \E r \in Torn : ns = NamespaceOf[r]
    /\ namespace[ns] = "active"
    /\ namespace' = [namespace EXCEPT ![ns] = "terminating"]
    /\ UNCHANGED <<record, objects, teardown, torn, taken, deleting>>

(* The server removes it, during the run or after, with what is in it:     *)
(* objects, and Helm's history.                                            *)
Vanish(ns) ==
    /\ namespace[ns] = "terminating"
    /\ namespace' = [namespace EXCEPT ![ns] = "absent"]
    /\ record' = [r \in Releases |-> IF NamespaceOf[r] = ns THEN "none" ELSE record[r]]
    /\ objects' = [r \in Releases |->
                     IF NamespaceOf[r] = ns THEN objects[r] \ {"namespaced"} ELSE objects[r]]
    /\ UNCHANGED <<teardown, torn, taken, deleting>>

Done ==
    CASE teardown = "uninstall"         -> \A r \in Torn : ~Exists(r)
      [] teardown \in {"full", "reset"} -> \A r \in Torn : namespace[NamespaceOf[r]] = "absent"
      [] OTHER                          -> FALSE

ReturnNil ==
    /\ taken = {}
    /\ deleting = {}
    /\ Done
    /\ teardown' = "ok"
    /\ torn' = <<>>
    /\ UNCHANGED <<record, objects, namespace, taken, deleting>>

(* An error, at any time, or the end of the process.                       *)
ReturnError ==
    /\ ~Idle
    /\ \/ teardown' = "error" /\ deleting = {} /\ UNCHANGED objects
       \/ teardown' = "killed" /\ InPart
    /\ torn' = <<>>
    /\ taken' = {}
    /\ deleting' = {}
    /\ UNCHANGED <<record, namespace>>

(* A Ctrl-C: what was taken up may still be let go.                        *)
Cancel ==
    /\ ~Idle
    /\ cancelled' = TRUE
    /\ taken' \in {taken, {}}
    /\ UNCHANGED <<record, objects, namespace, teardown, torn, deleting>>

RunStep ==
    \/ \E i \in DOMAIN torn : Take(i)
    \/ BeginUninstall
    \/ EndUninstall
    \/ Fail
    \/ \E ns \in Spaces : Doom(ns)
    \/ ReturnNil
    \/ ReturnError

Next ==
    \/ /\ RunStep \/ \E ns \in Spaces : Vanish(ns)
       /\ UNCHANGED cancelled
    \/ /\ Refuse \/ \E level \in Levels, releases \in Plans : Begin(level, releases)
       /\ cancelled' = FALSE
    \/ Cancel

Spec == Init /\ [][Next]_cvars
=============================================================================
