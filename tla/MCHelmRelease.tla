--------------------------- MODULE MCHelmRelease ---------------------------
(***************************************************************************)
(* HelmRelease for TLC: two releases, each with two groups of objects, so  *)
(* that a call may be cut short between them, and two processes, which may *)
(* be at the same release or at one each.                                  *)
(***************************************************************************)
EXTENDS HelmRelease, TLC

Symmetry ==
    Permutations(Releases) \cup Permutations(Kinds) \cup Permutations(Processes)
=============================================================================
