---------------------------- MODULE GrateWorkers ----------------------------
(***************************************************************************)
(* The worker pool of one grate (GrateHandler of lind-3i) and the slot of  *)
(* GRATE_POOL it is found through.                                         *)
(*                                                                         *)
(* A thread that dispatches a call into the grate clones the handler's Arc *)
(* out of the slot, registers itself in active_calls, leases a worker from *)
(* the queue (or sleeps on the condition variable cv), runs the grate      *)
(* function in it, returns the worker and deregisters.  cleanup (in        *)
(* lind-boot's host.rs) unregisters the slot, stops admission and waits    *)
(* for active_calls to reach zero.                                         *)
(*                                                                         *)
(* One action is one atomic access or one critical section of the mutex    *)
(* `inner'.  The critical sections of take_worker_blocking and             *)
(* return_worker are single steps; the one of wait_for_idle is two,        *)
(* because active_calls changes outside the mutex, and blocks the others   *)
(* in between (InnerFree).                                                 *)
(*                                                                         *)
(* Handlers are created in ConcurrencyMode::Parallel only; the Serialized  *)
(* mode of lind-3i, which nothing selects, is left out.                    *)
(***************************************************************************)
EXTENDS Integers, Sequences, FiniteSets

CONSTANTS
    Callers,             \* threads that call into the grate
    LIND_GRATE_WORKERS,  \* the environment variable; 0 when unset or malformed
    MAX_GRATE_WORKERS,   \* the largest pool
    Forked,              \* the grate is a fork child that has not called exec
    Cleanup,             \* cleanup_grate_handler is called
    MaxCalls,            \* bound: calls each thread makes
    STACK_ARENA_BASE,    \* base of the grate's stack arena
    GRATE_STACK_SLOT_SIZE,
    GRATE_STACK_GUARD_SIZE

ASSUME PoolAssumption ==
    /\ LIND_GRATE_WORKERS \in Nat
    /\ MAX_GRATE_WORKERS \in Nat \ {0}
    /\ Forked \in BOOLEAN /\ Cleanup \in BOOLEAN
    /\ MaxCalls \in Nat

ASSUME StackAssumption ==
    /\ STACK_ARENA_BASE \in Nat
    /\ GRATE_STACK_SLOT_SIZE \in Nat \ {0}
    /\ GRATE_STACK_GUARD_SIZE \in Nat

ASSUME CallersFinite == IsFiniteSet(Callers)

VARIABLES
    slot,           \* the handler is in GRATE_POOL
    workers,        \* the queue of available workers
    shutting_down, active_calls,
    pc, lease,      \* per caller: position in submit, leased worker
    calls,          \* per caller: calls started
    cleanup,        \* position of the thread in cleanup_grate_handler
    aborted         \* the host process has aborted

vars == <<slot, workers, shutting_down, active_calls, pc, lease,
          calls, cleanup, aborted>>

\* configured_grate_workers
WorkerCount ==
    IF LIND_GRATE_WORKERS = 0 THEN MAX_GRATE_WORKERS
    ELSE IF LIND_GRATE_WORKERS < MAX_GRATE_WORKERS THEN LIND_GRATE_WORKERS
    ELSE MAX_GRATE_WORKERS

Workers  == 1..WorkerCount
NoWorker == 0

\* Where a caller that active_calls counts can be.
Counted  == {"added", "take", "waiting", "run", "drop"}
Admitted == Counted \ {"added"}

PcSet      == Counted \cup {"out", "submit", "checked", "rolled", "dropped"}
CleanupSet == {"no", "unregistered", "stored", "begun", "loaded", "waiting",
               "idle"}

\* The part of the stack arena worker w runs on.
StackBase(w) ==
    STACK_ARENA_BASE
        + (w - 1) * (GRATE_STACK_GUARD_SIZE + GRATE_STACK_SLOT_SIZE)
        + GRATE_STACK_GUARD_SIZE
StackTop(w)  == StackBase(w) + GRATE_STACK_SLOT_SIZE
-----------------------------------------------------------------------------
Init ==
    /\ slot = ~Forked
    /\ workers = [i \in 1..WorkerCount |-> i]
    /\ shutting_down = FALSE
    /\ active_calls = 0
    /\ pc = [c \in Callers |-> "out"]
    /\ lease = [c \in Callers |-> NoWorker]
    /\ calls = [c \in Callers |-> 0]
    /\ cleanup = "no"
    /\ aborted = FALSE

\* The thread in wait_for_idle keeps the mutex from its load to its wait.
InnerFree == cleanup # "loaded"

\* cv.notify_all: every sleeper goes back to the mutex; P is the caller's pc.
NotifyAll(P) ==
    /\ pc' = [c \in Callers |-> IF P[c] = "waiting" THEN "take" ELSE P[c]]
    /\ cleanup' = IF cleanup = "waiting" THEN "begun" ELSE cleanup

\* cv.notify_one: any one sleeper, a submitter or the thread in cleanup.
NotifyOne(P) ==
    \/ \E c \in Callers :
          /\ P[c] = "waiting"
          /\ pc' = [P EXCEPT ![c] = "take"]
          /\ UNCHANGED cleanup
    \/ cleanup = "waiting" /\ cleanup' = "begun" /\ pc' = P
    \/ /\ cleanup # "waiting" /\ \A c \in Callers : P[c] # "waiting"
       /\ pc' = P /\ UNCHANGED cleanup

Goto(c, l) == pc' = [pc EXCEPT ![c] = l]
-----------------------------------------------------------------------------
(***************************************************************************)
(* A caller: submit_grate_request, ActiveCallGuard::new, submit, the two   *)
(* drops.                                                                  *)
(***************************************************************************)
Lookup(c) ==
    /\ ~aborted /\ pc[c] = "out" /\ calls[c] < MaxCalls /\ slot
    /\ calls' = [calls EXCEPT ![c] = @ + 1]
    /\ Goto(c, "submit")
    /\ UNCHANGED <<slot, workers, shutting_down, active_calls, lease,
                   cleanup, aborted>>

\* submit_grate_request panics under an extern "C" trampoline: the host aborts.
LookupFails(c) ==
    /\ ~aborted /\ pc[c] = "out" /\ calls[c] < MaxCalls /\ ~slot
    /\ aborted' = TRUE
    /\ UNCHANGED <<slot, workers, shutting_down, active_calls, pc,
                   lease, calls, cleanup>>

CheckShutdown(c) ==
    /\ ~aborted /\ pc[c] = "submit"
    /\ Goto(c, IF shutting_down THEN "out" ELSE "checked")
    /\ UNCHANGED <<slot, workers, shutting_down, active_calls, lease,
                   calls, cleanup, aborted>>

AddActive(c) ==
    /\ ~aborted /\ pc[c] = "checked"
    /\ active_calls' = active_calls + 1
    /\ Goto(c, "added")
    /\ UNCHANGED <<slot, workers, shutting_down, lease, calls,
                   cleanup, aborted>>

\* Mutant: shutdown is not looked at again after the increment.
DoubleCheckSkipped(c) ==
    /\ ~aborted /\ pc[c] = "added"
    /\ Goto(c, "take")
    /\ UNCHANGED <<slot, workers, shutting_down, active_calls, lease,
                   calls, cleanup, aborted>>

\* Mutant: the increment is not rolled back.
RollbackForgotten(c) ==
    /\ ~aborted /\ pc[c] = "added"
    /\ Goto(c, IF shutting_down THEN "rolled" ELSE "take")
    /\ UNCHANGED <<slot, workers, shutting_down, active_calls, lease,
                   calls, cleanup, aborted>>

DoubleCheck(c) ==
    /\ ~aborted /\ pc[c] = "added"
    /\ IF shutting_down
          THEN active_calls' = active_calls - 1 /\ Goto(c, "rolled")
          ELSE UNCHANGED active_calls /\ Goto(c, "take")
    /\ UNCHANGED <<slot, workers, shutting_down, lease, calls,
                   cleanup, aborted>>

RollbackNotify(c) ==
    /\ ~aborted /\ pc[c] = "rolled"
    /\ NotifyAll([pc EXCEPT ![c] = "out"])
    /\ UNCHANGED <<slot, workers, shutting_down, active_calls, lease,
                   calls, aborted>>

\* Mutant: the worker is looked at and left in the queue.
PeekFront(q) == q

\* The queue after take_worker_blocking has taken its first worker.
PopFront(q) == Tail(q)

Take(c) ==
    /\ ~aborted /\ pc[c] = "take" /\ InnerFree /\ workers # <<>>
    /\ lease' = [lease EXCEPT ![c] = Head(workers)]
    /\ workers' = PopFront(workers)
    /\ Goto(c, "run")
    /\ UNCHANGED <<slot, shutting_down, active_calls, calls, cleanup,
                   aborted>>

TakeWaits(c) ==
    /\ ~aborted /\ pc[c] = "take" /\ InnerFree /\ workers = <<>>
    /\ Goto(c, "waiting")
    /\ UNCHANGED <<slot, workers, shutting_down, active_calls, lease,
                   calls, cleanup, aborted>>

\* Whether return_worker notifies; q is the queue before the worker is back.
ShouldNotify(q) == q = <<>>

\* The grate function has returned or trapped; the lease is dropped.
ReturnWorker(c) ==
    /\ ~aborted /\ pc[c] = "run" /\ InnerFree
    /\ workers' = Append(workers, lease[c])
    /\ lease' = [lease EXCEPT ![c] = NoWorker]
    /\ LET P == [pc EXCEPT ![c] = "drop"]
       IN IF ShouldNotify(workers) THEN NotifyOne(P)
                                   ELSE pc' = P /\ UNCHANGED cleanup
    /\ UNCHANGED <<slot, shutting_down, active_calls, calls, aborted>>

DropActive(c) ==
    /\ ~aborted /\ pc[c] = "drop"
    /\ active_calls' = active_calls - 1
    /\ Goto(c, "dropped")
    /\ UNCHANGED <<slot, workers, shutting_down, lease, calls,
                   cleanup, aborted>>

DropNotify(c) ==
    /\ ~aborted /\ pc[c] = "dropped"
    /\ LET P == [pc EXCEPT ![c] = "out"]
       IN IF shutting_down THEN NotifyAll(P) ELSE pc' = P /\ UNCHANGED cleanup
    /\ UNCHANGED <<slot, workers, shutting_down, active_calls, lease,
                   calls, aborted>>

\* Condition variables may wake a sleeper without a notification.
SpuriousWake(c) ==
    /\ ~aborted /\ pc[c] = "waiting"
    /\ Goto(c, "take")
    /\ UNCHANGED <<slot, workers, shutting_down, active_calls, lease,
                   calls, cleanup, aborted>>
-----------------------------------------------------------------------------
(***************************************************************************)
(* cleanup_grate_handler: unregister_grate_handler, begin_shutdown,        *)
(* wait_for_idle.                                                          *)
(***************************************************************************)
Unregister ==
    /\ ~aborted /\ Cleanup /\ cleanup = "no" /\ slot
    /\ slot' = FALSE
    /\ cleanup' = "unregistered"
    /\ UNCHANGED <<workers, shutting_down, active_calls, pc, lease,
                   calls, aborted>>

BeginShutdown ==
    /\ ~aborted /\ cleanup = "unregistered"
    /\ shutting_down' = TRUE
    /\ cleanup' = "stored"
    /\ UNCHANGED <<slot, workers, active_calls, pc, lease, calls,
                   aborted>>

ShutdownNotify ==
    /\ ~aborted /\ cleanup = "stored"
    /\ pc' = [c \in Callers |-> IF pc[c] = "waiting" THEN "take" ELSE pc[c]]
    /\ cleanup' = "begun"
    /\ UNCHANGED <<slot, workers, shutting_down, active_calls, lease,
                   calls, aborted>>

\* wait_for_idle with the mutex held: the loop's load ...
IdleLoad ==
    /\ ~aborted /\ cleanup = "begun"
    /\ cleanup' = IF active_calls = 0 THEN "idle" ELSE "loaded"
    /\ UNCHANGED <<slot, workers, shutting_down, active_calls, pc,
                   lease, calls, aborted>>

\* ... and its wait, which releases the mutex.
IdleWait ==
    /\ ~aborted /\ cleanup = "loaded"
    /\ cleanup' = "waiting"
    /\ UNCHANGED <<slot, workers, shutting_down, active_calls, pc,
                   lease, calls, aborted>>

SpuriousIdle ==
    /\ ~aborted /\ cleanup = "waiting"
    /\ cleanup' = "begun"
    /\ UNCHANGED <<slot, workers, shutting_down, active_calls, pc,
                   lease, calls, aborted>>
-----------------------------------------------------------------------------
Step(c) ==
    \/ CheckShutdown(c) \/ AddActive(c) \/ DoubleCheck(c) \/ RollbackNotify(c)
    \/ Take(c) \/ TakeWaits(c) \/ ReturnWorker(c)
    \/ DropActive(c) \/ DropNotify(c)

CleanupStep ==
    BeginShutdown \/ ShutdownNotify \/ IdleLoad \/ IdleWait

Next ==
    \/ \E c \in Callers : Lookup(c) \/ LookupFails(c) \/ Step(c) \/ SpuriousWake(c)
    \/ Unregister \/ CleanupStep \/ SpuriousIdle

Spec == Init /\ [][Next]_vars

\* A thread inside submit keeps running and the grate function it calls
\* returns; cleanup, once begun, keeps running.  Nothing makes a guest issue a
\* call or a sleeper wake spuriously.
Fairness ==
    /\ \A c \in Callers : WF_vars(Step(c))
    /\ WF_vars(CleanupStep)

FairSpec == Spec /\ Fairness
-----------------------------------------------------------------------------
(***************************************************************************)
(* Properties                                                              *)
(***************************************************************************)
\* The pool, the counters and the threads have the values the code gives them;
\* active_calls, an AtomicUsize, never wraps below zero.
TypeOK ==
    /\ slot \in BOOLEAN /\ shutting_down \in BOOLEAN /\ aborted \in BOOLEAN
    /\ workers \in Seq(Workers)
    /\ active_calls \in Nat
    /\ pc \in [Callers -> PcSet]
    /\ lease \in [Callers -> Workers \cup {NoWorker}]
    /\ calls \in [Callers -> 0..MaxCalls]
    /\ cleanup \in CleanupSet

\* Grate functions that run at the same time run on disjoint parts of the
\* shared linear memory's stack arena, inside the arena: no worker is leased
\* twice, and worker_stack_base keeps the slots apart.
StacksDisjoint ==
    /\ \A c, d \in Callers :
          c # d /\ pc[c] = "run" /\ pc[d] = "run" =>
              \/ StackTop(lease[c]) <= StackBase(lease[d])
              \/ StackTop(lease[d]) <= StackBase(lease[c])
    /\ \A c \in Callers :
          pc[c] = "run" =>
              /\ StackBase(lease[c]) >= STACK_ARENA_BASE + GRATE_STACK_GUARD_SIZE
              /\ StackTop(lease[c]) <= STACK_ARENA_BASE + MAX_GRATE_WORKERS
                    * (GRATE_STACK_GUARD_SIZE + GRATE_STACK_SLOT_SIZE)

\* active_calls is the number of calls between ActiveCallGuard::new and the
\* guard's drop, rejected submissions that roll back included.
ActiveExact == active_calls = Cardinality({c \in Callers : pc[c] \in Counted})

\* Once wait_for_idle has returned no call is in the grate or can still get in:
\* the second look at shutting_down in ActiveCallGuard::new closes the window
\* between the first look and the increment.
IdleIsQuiet ==
    cleanup = "idle" => \A c \in Callers : pc[c] \notin Admitted

\* What GrateService calls the state of this pool.
Phase(l) ==
    CASE l \in {"take", "waiting"} -> "admitted"
      [] l = "run"                 -> "using"
      [] l = "drop"                -> "leaving"
      [] OTHER                     -> "outside"

Service == INSTANCE GrateService WITH
    open    <- ~shutting_down,
    drained <- cleanup = "idle",
    phase   <- [c \in Callers |-> Phase(pc[c])],
    using   <- lease

\* The pool implements the service: every step of the code is a step of
\* GrateService or is invisible to it.
ServiceSpec == Service!Spec

\* An admitted call is served and leaves: what return_worker says of itself, it
\* "ensures that blocked callers can resume when capacity becomes available."
\* The code does not keep this: it notifies only when the queue was empty, so two
\* workers returned before a woken caller runs give one wake-up to two sleepers.
AdmittedCallCompletes ==
    \A c \in Callers : pc[c] \in Admitted ~> pc[c] \notin Admitted

\* cleanup_grate_handler returns once the calls in flight have drained, unless
\* a later call aborts the host.
CleanupFinishes == cleanup = "begun" ~> (cleanup = "idle" \/ aborted)

\* A cage's handler can be called from the cage's start until cleanup takes it
\* away: a dispatch that finds the slot of GRATE_POOL empty panics.
CallableUntilCleanup == aborted => cleanup # "no"
=============================================================================
