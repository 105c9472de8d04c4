---------------------------- MODULE GrateService ----------------------------
(***************************************************************************)
(* What a grate's worker pool promises its callers, without mutexes,       *)
(* counters or condition variables.  A call is outside, admitted, using    *)
(* one worker or leaving.  No call is admitted once the service is closed, *)
(* a worker serves one call at a time, and the service is drained only     *)
(* when every call is outside.                                             *)
(***************************************************************************)
EXTENDS Integers

CONSTANTS
    Callers,    \* threads that call into the grate
    Workers,    \* execution contexts of the grate
    NoWorker    \* what a call that uses no worker holds

VARIABLES
    open,       \* calls are still admitted
    drained,    \* the service has reported itself idle
    phase,      \* phase[c]: where caller c's call stands
    using       \* using[c]: the worker caller c runs in

vars == <<open, drained, phase, using>>

Phases == {"outside", "admitted", "using", "leaving"}

\* The workers no call runs in.
Idle == {w \in Workers : \A c \in Callers : using[c] # w}

Init ==
    /\ open \in BOOLEAN
    /\ drained = FALSE
    /\ phase = [c \in Callers |-> "outside"]
    /\ using = [c \in Callers |-> NoWorker]

Admit(c) ==
    /\ phase[c] = "outside" /\ open
    /\ phase' = [phase EXCEPT ![c] = "admitted"]
    /\ UNCHANGED <<open, drained, using>>

Start(c, w) ==
    /\ phase[c] = "admitted" /\ w \in Idle
    /\ phase' = [phase EXCEPT ![c] = "using"]
    /\ using' = [using EXCEPT ![c] = w]
    /\ UNCHANGED <<open, drained>>

Finish(c) ==
    /\ phase[c] = "using"
    /\ phase' = [phase EXCEPT ![c] = "leaving"]
    /\ using' = [using EXCEPT ![c] = NoWorker]
    /\ UNCHANGED <<open, drained>>

Leave(c) ==
    /\ phase[c] = "leaving"
    /\ phase' = [phase EXCEPT ![c] = "outside"]
    /\ UNCHANGED <<open, drained, using>>

Close ==
    /\ open /\ open' = FALSE
    /\ UNCHANGED <<drained, phase, using>>

Drain ==
    /\ ~open /\ \A c \in Callers : phase[c] = "outside"
    /\ drained' = TRUE
    /\ UNCHANGED <<open, phase, using>>

Next ==
    \/ \E c \in Callers : Admit(c) \/ Finish(c) \/ Leave(c)
    \/ \E c \in Callers, w \in Workers : Start(c, w)
    \/ Close
    \/ Drain

Spec == Init /\ [][Next]_vars
=============================================================================
