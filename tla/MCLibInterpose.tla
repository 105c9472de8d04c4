--------------------------- MODULE MCLibInterpose ---------------------------
(***************************************************************************)
(* Instances of LibInterpose for TLC.  The first client cage calls f       *)
(* through grate "g", whose own library calls and system calls go to grate *)
(* "h".  f, bad and glue are of one library; m belongs to a module that is *)
(* loaded after it.                                                        *)
(***************************************************************************)
EXTENDS LibInterpose

MCLib     == [s \in Syms |-> IF s = "m" THEN 2 ELSE 1]
MCPlace   == [f |-> 1, bad |-> 2, glue |-> 3, m |-> 4]
MCWants   == <<<<1, "bad", "g">>, <<1, "f", "g">>>>
MCStacked == {<<"g", "h">>}
MCSysUses == {<<"g", "h">>}
=============================================================================
