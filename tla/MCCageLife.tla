----------------------------- MODULE MCCageLife -----------------------------
(***************************************************************************)
(* Instances of CageLife for TLC.  Thread 1 is special, so there is no     *)
(* symmetry to use; the instances differ only in their constants.          *)
(***************************************************************************)
EXTENDS CageLife
=============================================================================
