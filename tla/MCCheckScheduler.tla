-------------------------- MODULE MCCheckScheduler --------------------------
(***************************************************************************)
(* CheckScheduler for TLC: the configurations give its constants model     *)
(* values, and liveness rules symmetry out.                                *)
(***************************************************************************)
EXTENDS CheckScheduler
=============================================================================
