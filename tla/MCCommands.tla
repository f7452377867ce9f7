----------------------------- MODULE MCCommands -----------------------------
(***************************************************************************)
(* Commands for TLC: two clusters, the first with all four releases and    *)
(* the validation pass, the second with two; deploys of both and of one,   *)
(* with flags that add a release or leave too little time; cleanups of     *)
(* both at the default level and of one that keeps a release.              *)
(***************************************************************************)
EXTENDS Commands, TLC

TwoClusters == <<"hub", "spoke">>

(* The keys a block does not have are zero.                                *)
Block(keys, timeout) ==
    [option \in Options |->
       IF option = "helm-timeout" THEN timeout ELSE option \in keys]

Blocks ==
    [c \in {"hub", "spoke"} |->
       IF c = "hub" THEN Block({"cert-manager", "queue", "mural-crds", "mural", "validate"}, 30)
                    ELSE Block({"mural-crds", "mural"}, 10)]

(* The deploy: block of README:114, which has no helm-timeout.             *)
ReadmeBlocks ==
    [c \in {"hub", "spoke"} |->
       Block({"cert-manager", "queue", "mural-crds", "mural", "validate"}, 0)]

Deploy(name, flags) == [verb |-> "deploy", clusterName |-> name, flags |-> flags]

Cleanup(name, level, keep) ==
    [verb |-> "cleanup", clusterName |-> name, level |-> level, keep |-> keep]

NoFlags == [option \in {} |-> TRUE]

DeployAll  == Deploy("", NoFlags)
CleanupAll == Cleanup("", "", {})

Mixed == {DeployAll, CleanupAll,
          Deploy("spoke", "queue" :> TRUE),
          Deploy("", "helm-timeout" :> 0),
          Cleanup("hub", "uninstall", {"queue"}),
          Cleanup("spoke", "reset", {}),
          Cleanup("hub", "purge", {}),
          Deploy("elsewhere", NoFlags)}

Plain == {DeployAll}

Both == {DeployAll, CleanupAll}

NoReleases == {}

HubMural == {<<"hub", "mural">>}
=============================================================================
