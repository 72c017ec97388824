------------------------------ MODULE MCProxy ------------------------------
(***************************************************************************)
(* Proxy with a few messages and a short clock.                            *)
(***************************************************************************)
EXTENDS Proxy
=============================================================================
