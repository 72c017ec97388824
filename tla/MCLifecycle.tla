---------------------------- MODULE MCLifecycle ----------------------------
(***************************************************************************)
(* Lifecycle with a few blocks and signals.                                *)
(***************************************************************************)
EXTENDS Lifecycle
=============================================================================
