------------------------------ MODULE MCThreeI ------------------------------
(***************************************************************************)
(* Instances of ThreeI for TLC: the guest programs of each run.            *)
(***************************************************************************)
EXTENDS ThreeI, TLC

ThreadSymmetry == Permutations(Threads)

\* Two stacked grates: the client's call and its exit_group go to cage 2, whose
\* own call goes to cage 1.  Cage 3 may inherit a route to cage 1 first.
StackedRequests ==
    {Plain, Fork, ExitGroup, Register(3, 1, 2), Register(3, 231, 2),
     Register(2, 1, 1)}

\* Multi-threaded cages that also fork; handlers come and go, so that lookups
\* fail and poison the table.
ThreadedRequests ==
    {Plain, Fork, PThread, Exit, ExitGroup, Register(2, 1, 1),
     Register(2, 1, THREEI_DEREGISTER)}
=============================================================================
