---------------------------- MODULE MCTcpServer ----------------------------
(***************************************************************************)
(* TcpServer with a few clients, messages and parts.  The clients are      *)
(* interchangeable; only the run that checks no liveness uses this.        *)

(***************************************************************************)
EXTENDS TcpServer

ClientSymmetry == Permutations(Clients)
=============================================================================
