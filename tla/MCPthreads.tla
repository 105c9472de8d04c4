----------------------------- MODULE MCPthreads -----------------------------
(***************************************************************************)
(* Instances of Pthreads for TLC.                                          *)
(***************************************************************************)
EXTENDS Pthreads
=============================================================================
