---------------------------- MODULE MCValidation ----------------------------
(***************************************************************************)
(* Validation for TLC: two pods, so that one may become unready while the  *)
(* other becomes ready, and a namespace may be seen empty or half ready.   *)
(***************************************************************************)
EXTENDS Validation
=============================================================================
