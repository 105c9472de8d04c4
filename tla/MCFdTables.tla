----------------------------- MODULE MCFdTables -----------------------------
(***************************************************************************)
(* Instances of FdTables for TLC.                                          *)
(***************************************************************************)
EXTENDS FdTables

\* Between them the parent and its child make every call.
ForkedProgram ==
    <<{"open", "fork", "close", "exit"},
      {"dup", "dupfd", "dup2", "dup3", "cloexec", "close", "exec", "exit"}>>

\* One cage whose threads open files and replace descriptors.
ReplacingProgram == <<{"open", "dup2"}>>
=============================================================================
