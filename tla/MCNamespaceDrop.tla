-------------------------- MODULE MCNamespaceDrop --------------------------
(***************************************************************************)
(* NamespaceDrop for TLC: three namespaces under a cap of two, so that the *)
(* channel fills up, the driver waits in its select and a third goroutine  *)
(* may be started late.                                                    *)
(***************************************************************************)
EXTENDS NamespaceDrop
=============================================================================
