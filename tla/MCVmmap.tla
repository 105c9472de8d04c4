------------------------------ MODULE MCVmmap ------------------------------
(***************************************************************************)
(* Instances of Vmmap for TLC.                                             *)
(***************************************************************************)
EXTENDS Vmmap

ReadWrite == {{"r"}, {"r", "w"}}
OneCheck  == {<<0, 1, {"w"}>>}
NoChecks  == {}
=============================================================================
