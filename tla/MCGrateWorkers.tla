--------------------------- MODULE MCGrateWorkers ---------------------------
(***************************************************************************)
(* Instances of GrateWorkers for TLC.                                      *)
(***************************************************************************)
EXTENDS GrateWorkers
=============================================================================
