--------------------------- MODULE MCScreamServer ---------------------------
(***************************************************************************)
(* ScreamServer on a few packets and a small window.                       *)
(***************************************************************************)
EXTENDS ScreamServer
=============================================================================
