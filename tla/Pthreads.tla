------------------------------ MODULE Pthreads ------------------------------
(***************************************************************************)
(* Threads inside one cage: the C library's pthread_create, pthread_join,  *)
(* pthread_tryjoin_np, the timed join and pthread_detach, start_thread's   *)
(* exit path, and the cache of thread stacks, over the host's side of      *)
(* thread creation and exit.                                               *)
(*                                                                         *)
(* A stack block s holds a thread's descriptor (struct pthread), its       *)
(* stack, and at its low end the buffer in which the host saves and finds  *)
(* the thread's Wasm frames (unwind).  One action is one atomic access, or *)
(* accesses with nothing of another thread in between.  The program calls  *)
(* the functions the way POSIX allows: a thread's handle is joined or      *)
(* detached once, by whoever uses it first.                                *)
(***************************************************************************)
EXTENDS Integers, FiniteSets

CONSTANTS
    MaxTid,      \* bound: the largest thread id; 1 is the main thread
    Stacks,      \* bound: stack blocks the address space has room for
    CacheMax,    \* __nptl_stack_cache_maxsize, in stacks
    Kinds,       \* attributes used: subset of {"plain", "detached", "stopped"}
    Creators,    \* threads that create threads
    Joiners,     \* threads that join others
    Detachers,   \* threads that detach others (any thread detaches itself)
    Traps        \* threads whose function may trap

ASSUME PthreadsAssumption ==
    /\ MaxTid \in Nat \ {0} /\ CacheMax \in Nat
    /\ IsFiniteSet(Stacks) /\ Stacks \subseteq Nat \ {0}
    /\ Kinds \subseteq {"plain", "detached", "stopped"}
    /\ Traps \subseteq 2..MaxTid

VARIABLES
    pd,          \* the descriptor in each stack block
    used,        \* dl_stack_used: stacks handed out
    cache,       \* dl_stack_cache: stacks queued for reuse
    unwind,      \* whose frames the buffer of each stack holds; 0: nobody's
    nthreads,    \* __nptl_nthreads
    nextTid,     \* next_threadid of the host
    pc, stk,     \* per thread: position in start_thread, its stack
    call,        \* per thread: the pthread function it is in
    handle,      \* per thread: may the program still join or detach it?
    over,        \* the process has exited
    got          \* history: what a join of this thread returned; 0: no join yet

vars == <<pd, used, cache, unwind, nthreads, nextTid, pc, stk, call, handle, over, got>>
stackVars == <<used, cache>>

Tids == 1..MaxTid
Main == 1
Failed == -1
NoStack == 0

\* joinid is NULL or the descriptor itself: the joiner is never stored there
\* (JoinEnter).  exiting and terminated are bits of cancelhandling.
Pd == [tid: -1..MaxTid, detached: BOOLEAN, exiting: BOOLEAN, terminated: BOOLEAN,
       result: 0..MaxTid, lock: BOOLEAN, stopped: BOOLEAN, setup_failed: BOOLEAN]
Zeroed == [tid |-> 0, detached |-> FALSE, exiting |-> FALSE, terminated |-> FALSE,
           result |-> 0, lock |-> FALSE, stopped |-> FALSE, setup_failed |-> FALSE]

Waits == {"join", "timedjoin", "reap"}
Fns   == {"none", "init", "clone", "spawn", "setattr", "tryjoin", "detach",
          "detach_check", "detach_free"} \cup Waits
Call  == [fn: Fns, s: Stacks \cup {NoStack}, t: 0..MaxTid, kind: Kinds \cup {"none"},
          asleep: BOOLEAN]
NoCall == [fn |-> "none", s |-> NoStack, t |-> 0, kind |-> "none", asleep |-> FALSE]

\* Positions of a thread, in the order start_thread passes them.
Living  == {"spawned", "start", "body", "returned"}
Marked  == Living \cup {"exiting", "out"}        \* pd->tid not cleared yet
OnStack == Marked \cup {"cleared", "woken"}      \* still runs on its stack
PcSet   == OnStack \cup {"none", "gone", "trapped", "astray"}

TypeOK ==
    /\ pd \in [Stacks -> Pd]
    /\ used \in SUBSET Stacks /\ cache \in SUBSET Stacks
    /\ unwind \in [Stacks -> 0..MaxTid]
    /\ nthreads \in 0..MaxTid /\ nextTid \in Tids
    /\ pc \in [Tids -> PcSet]
    /\ stk \in [Tids -> Stacks \cup {NoStack}]
    /\ call \in [Tids -> Call]
    /\ handle \in [Tids -> {"none", "owned", "spent"}]
    /\ over \in BOOLEAN
    /\ got \in [Tids -> -1..MaxTid]

Init ==
    /\ pd = [s \in Stacks |-> Zeroed]
    /\ used = {} /\ cache = {}
    /\ unwind = [s \in Stacks |-> 0]
    /\ nthreads = 1 /\ nextTid = Main
    /\ pc = [t \in Tids |-> IF t = Main THEN "body" ELSE "none"]
    /\ stk = [t \in Tids |-> NoStack]
    /\ call = [t \in Tids |-> NoCall]
    /\ handle = [t \in Tids |-> "none"]
    /\ over = FALSE
    /\ got = [t \in Tids |-> 0]

\* Thread t runs the program's code, outside the functions modelled here.
InBody(t)   == ~over /\ pc[t] = "body" /\ call[t] = NoCall
In(t, fn)   == ~over /\ call[t].fn = fn
Goto(t, l)  == pc' = [pc EXCEPT ![t] = l]
ToStep(t, fn) == call' = [call EXCEPT ![t].fn = fn]
Return(t)   == call' = [call EXCEPT ![t] = NoCall]
-----------------------------------------------------------------------------
(***************************************************************************)
(* The stack cache.                                                        *)
(***************************************************************************)
\* Mutant: a cached stack is taken without a look at its tid.
ReusableAlways(s) == s \in Stacks

\* __nptl_stack_in_use, named for the opposite of what it tests.
Reusable(s) == pd[s].tid <= 0

\* queue_stack adds s to the cache and, over the limit, unmaps as many of the
\* cached stacks that may be reused as it takes.  Which of them (the list has an
\* order) is left open.  mayReuse: the stacks whose tid says they are free.
queue_stack(s, mayReuse) ==
    LET all    == cache \cup {s}
        excess == Cardinality(all) - CacheMax
        free   == all \cap mayReuse
    IN  IF excess <= 0 THEN {all}
        ELSE {all \ drop : drop \in
                {d \in SUBSET free : \/ Cardinality(d) = excess
                                     \/ d = free /\ Cardinality(free) < excess}}

\* __nptl_deallocate_stack, under dl_stack_cache_lock.
deallocate_stack(s, mayReuse) ==
    /\ used' = used \ {s}
    /\ cache' \in queue_stack(s, mayReuse)

\* __nptl_free_tcb of a descriptor that reads p when the call begins: the
\* TERMINATED bit lets only the first caller queue the stack.
free_tcb(s, p) ==
    /\ pd' = [pd EXCEPT ![s] = [p EXCEPT !.terminated = TRUE]]
    /\ IF p.terminated THEN UNCHANGED stackVars
       ELSE deallocate_stack(s, {r \in Stacks : IF r = s THEN p.tid <= 0 ELSE Reusable(r)})
-----------------------------------------------------------------------------
(***************************************************************************)
(* pthread_create.                                                         *)
(***************************************************************************)
Creating == {c \in Tids : call[c].fn \in {"init", "clone"}}

\* get_cached_stack, under dl_stack_cache_lock.
get_cached_stack(s) ==
    /\ s \in cache /\ Reusable(s)
    /\ cache' = cache \ {s}
    /\ UNCHANGED pd

\* Nothing to reuse: fresh memory from mmap.
mmap_stack(s) ==
    /\ \A r \in cache : ~Reusable(r)
    /\ s \notin used \cup cache
    /\ pd' = [pd EXCEPT ![s] = Zeroed]
    /\ UNCHANGED cache

\* allocate_stack.  Without a stack the call returns EAGAIN and nothing changes.
AllocateStack(c, k) ==
    /\ InBody(c) /\ c \in Creators /\ nextTid + Cardinality(Creating) < MaxTid
    /\ \E s \in Stacks :
         /\ get_cached_stack(s) \/ mmap_stack(s)
         /\ used' = used \cup {s}
         /\ call' = [call EXCEPT ![c] = [NoCall EXCEPT !.fn = "init", !.s = s, !.kind = k]]
    /\ UNCHANGED <<unwind, nthreads, nextTid, pc, stk, handle, over, got>>

\* The descriptor is set up (the fields get_cached_stack resets once it has left
\* the lock included) and the thread counted.  tid and result keep what the last
\* owner left.
InitPd(c) ==
    LET s == call[c].s IN
    /\ In(c, "init")
    /\ pd' = [pd EXCEPT ![s] = [Zeroed EXCEPT !.tid = pd[s].tid, !.result = pd[s].result,
                                              !.detached = (call[c].kind = "detached")]]
    /\ nthreads' = nthreads + 1
    /\ ToStep(c, "clone")
    /\ UNCHANGED <<used, cache, unwind, nextTid, pc, stk, handle, over, got>>

\* clone: the host writes the thread id before the thread exists.  With
\* scheduling attributes the creator holds pd->lock.
Clone(c) ==
    LET s == call[c].s
        k == call[c].kind = "stopped"
    IN
    /\ In(c, "clone")
    /\ nextTid' = nextTid + 1
    /\ pd' = [pd EXCEPT ![s].tid = nextTid + 1, ![s].stopped = k, ![s].lock = k]
    /\ call' = [call EXCEPT ![c].fn = "spawn", ![c].t = nextTid + 1]
    /\ UNCHANGED <<used, cache, unwind, nthreads, pc, stk, handle, over, got>>

\* Mutant: the count is kept.
CloneFailsCounted(c) ==
    LET s == call[c].s IN
    /\ In(c, "clone")
    /\ deallocate_stack(s, {r \in Stacks : Reusable(r)})
    /\ Return(c)
    /\ UNCHANGED <<pd, unwind, nthreads, nextTid, pc, stk, handle, over, got>>

\* clone fails (a grate may refuse it): the count and the stack are given back.
CloneFails(c) ==
    LET s == call[c].s IN
    /\ In(c, "clone")
    /\ nthreads' = nthreads - 1
    /\ deallocate_stack(s, {r \in Stacks : Reusable(r)})
    /\ Return(c)
    /\ UNCHANGED <<pd, unwind, nextTid, pc, stk, handle, over, got>>

\* When the creator's frames are unwound the host copies them to the low end of
\* the new stack and starts the host thread.
Spawn(c) ==
    LET s == call[c].s
        n == call[c].t
        k == call[c].kind
    IN
    /\ In(c, "spawn")
    /\ unwind' = [unwind EXCEPT ![s] = n]
    /\ Goto(n, "spawned")
    /\ stk' = [stk EXCEPT ![n] = s]
    /\ handle' = [handle EXCEPT ![n] = CASE k = "plain" -> "owned"
                                         [] k = "detached" -> "spent"
                                         [] k = "stopped" -> "none"]
    /\ IF k = "stopped" THEN ToStep(c, "setattr") ELSE Return(c)
    /\ UNCHANGED <<pd, used, cache, nthreads, nextTid, over, got>>

\* sched_setaffinity or sched_setscheduler on the new thread, which waits for
\* pd->lock.  Failed: it is told to leave and the creator waits for that.
SetAttr(c, ok) ==
    LET s == call[c].s IN
    /\ In(c, "setattr")
    /\ pd' = [pd EXCEPT ![s].lock = FALSE, ![s].setup_failed = ~ok]
    /\ IF ok THEN /\ handle' = [handle EXCEPT ![call[c].t] = "owned"]
                  /\ Return(c)
             ELSE ToStep(c, "reap") /\ UNCHANGED handle
    /\ UNCHANGED <<used, cache, unwind, nthreads, nextTid, pc, stk, over, got>>

\* The failed thread has cleared its tid: its stack goes straight to the cache.
Reap(c) ==
    LET s == call[c].s IN
    /\ In(c, "reap") /\ ~call[c].asleep /\ pd[s].tid = 0
    /\ nthreads' = nthreads - 1
    /\ deallocate_stack(s, {r \in Stacks : Reusable(r)})
    /\ Return(c)
    /\ UNCHANGED <<pd, unwind, nextTid, pc, stk, handle, over, got>>
-----------------------------------------------------------------------------
(***************************************************************************)
(* pthread_join and its variants, pthread_detach.                          *)
(***************************************************************************)
\* The compare-and-swap on joinid expects the joiner's own descriptor there, so
\* it fails on a joinable thread, stores nothing, and the call goes on.
JoinEnter(j, t, fn) ==
    LET s == stk[t] IN
    /\ InBody(j) /\ j \in Joiners /\ j # t /\ handle[t] = "owned"
    /\ IF pd[s].tid < 0 \/ pd[s].detached
       THEN /\ got' = [got EXCEPT ![t] = Failed]               \* ESRCH, EINVAL
            /\ handle' = [handle EXCEPT ![t] = "spent"]
            /\ UNCHANGED call
       ELSE /\ call' = [call EXCEPT ![j] = [NoCall EXCEPT !.fn = fn, !.s = s, !.t = t]]
            /\ handle' = [handle EXCEPT ![t] = "spent"]
            /\ UNCHANGED got
    /\ UNCHANGED <<pd, used, cache, unwind, nthreads, nextTid, pc, stk, over>>

\* pthread_tryjoin_np goes on only if the thread has cleared its tid (else EBUSY,
\* and nothing changes).
TryJoinEnter(j, t) ==
    /\ handle[t] = "owned" /\ pd[stk[t]].tid = 0
    /\ JoinEnter(j, t, "tryjoin")

\* Mutant: the wait does not compare the tid.
FutexWaitBlind(j) ==
    /\ ~over /\ call[j].fn \in Waits /\ ~call[j].asleep
    /\ call' = [call EXCEPT ![j].asleep = TRUE]
    /\ UNCHANGED <<pd, used, cache, unwind, nthreads, nextTid, pc, stk, handle, over, got>>

\* futex_wait on pd->tid: the kernel compares and sleeps in one step.
FutexWait(j) ==
    /\ ~over /\ call[j].fn \in Waits /\ ~call[j].asleep
    /\ pd[call[j].s].tid # 0
    /\ call' = [call EXCEPT ![j].asleep = TRUE]
    /\ UNCHANGED <<pd, used, cache, unwind, nthreads, nextTid, pc, stk, handle, over, got>>

\* A signal ends the wait early (EINTR); the caller looks at tid again.
FutexInterrupted(j) ==
    /\ ~over /\ call[j].asleep
    /\ call' = [call EXCEPT ![j].asleep = FALSE]
    /\ UNCHANGED <<pd, used, cache, unwind, nthreads, nextTid, pc, stk, handle, over, got>>

\* The timed join gives up: joinid is reset and the handle may be used again.
JoinTimesOut(j) ==
    LET s == call[j].s IN
    /\ In(j, "timedjoin") /\ call[j].asleep
    /\ pd' = [pd EXCEPT ![s].detached = FALSE]
    /\ handle' = [handle EXCEPT ![call[j].t] = "owned"]
    /\ Return(j)
    /\ UNCHANGED <<used, cache, unwind, nthreads, nextTid, pc, stk, over, got>>

\* Mutant: any wake-up counts as the thread's end.
JoinDoneUnchecked(j) ==
    LET s == call[j].s IN
    /\ ~over /\ call[j].fn \in {"join", "timedjoin", "tryjoin"} /\ ~call[j].asleep
    /\ got' = [got EXCEPT ![call[j].t] = pd[s].result]
    /\ free_tcb(s, [pd[s] EXCEPT !.tid = -1])
    /\ Return(j)
    /\ UNCHANGED <<unwind, nthreads, nextTid, pc, stk, handle, over>>

\* The thread's tid is cleared: take its result, mark it joined, free it.
JoinDone(j) ==
    LET s == call[j].s IN
    /\ ~over /\ call[j].fn \in {"join", "timedjoin", "tryjoin"} /\ ~call[j].asleep
    /\ call[j].fn = "tryjoin" \/ pd[s].tid = 0
    /\ got' = [got EXCEPT ![call[j].t] = pd[s].result]
    /\ free_tcb(s, [pd[s] EXCEPT !.tid = -1])
    /\ Return(j)
    /\ UNCHANGED <<unwind, nthreads, nextTid, pc, stk, handle, over>>

\* pthread_detach marks the descriptor as its own joiner ...
Detach(d, t) ==
    LET s == stk[t] IN
    /\ InBody(d) /\ handle[t] = "owned" /\ (d \in Detachers \/ d = t)
    /\ handle' = [handle EXCEPT ![t] = "spent"]
    /\ IF pd[s].tid < 0 THEN UNCHANGED <<pd, call>>             \* ESRCH
       ELSE /\ pd' = [pd EXCEPT ![s].detached = TRUE]
            /\ call' = [call EXCEPT ![d] = [NoCall EXCEPT !.fn = "detach_check", !.s = s,
                                                          !.t = t]]
    /\ UNCHANGED <<used, cache, unwind, nthreads, nextTid, pc, stk, over, got>>

\* Mutants: the detacher leaves it to the thread, or never looks.
DetachLeaves(d) ==
    /\ In(d, "detach_check")
    /\ Return(d)
    /\ UNCHANGED <<pd, used, cache, unwind, nthreads, nextTid, pc, stk, handle, over, got>>

DetachUnseen(d) ==
    /\ In(d, "detach_check")
    /\ ToStep(d, "detach_free")
    /\ UNCHANGED <<pd, used, cache, unwind, nthreads, nextTid, pc, stk, handle, over, got>>

\* ... and then looks whether the thread was already past its own look at it.
DetachCheck(d) ==
    /\ In(d, "detach_check")
    /\ IF pd[call[d].s].exiting THEN ToStep(d, "detach_free") ELSE Return(d)
    /\ UNCHANGED <<pd, used, cache, unwind, nthreads, nextTid, pc, stk, handle, over, got>>

DetachFree(d) ==
    /\ In(d, "detach_free")
    /\ free_tcb(call[d].s, pd[call[d].s])
    /\ Return(d)
    /\ UNCHANGED <<unwind, nthreads, nextTid, pc, stk, handle, over, got>>
-----------------------------------------------------------------------------
(***************************************************************************)
(* A thread's life: the host's start, start_thread, the host's exit.       *)
(***************************************************************************)
At(t, l) == ~over /\ t # Main /\ pc[t] = l

\* The host rewinds the thread from the frames found on its stack.  Frames that
\* somebody else has written there take it elsewhere.
Rewind(t) ==
    /\ At(t, "spawned")
    /\ Goto(t, IF unwind[stk[t]] = t THEN "start" ELSE "astray")
    /\ UNCHANGED <<pd, used, cache, unwind, nthreads, nextTid, stk, call, handle, over, got>>

\* A thread created stopped takes pd->lock first, and leaves if told to.
Start(t) ==
    LET s == stk[t] IN
    /\ At(t, "start")
    /\ pd[s].stopped => ~pd[s].lock
    /\ IF pd[s].stopped /\ pd[s].setup_failed
       THEN Goto(t, "out") /\ pd' = [pd EXCEPT ![s].detached = FALSE]
       ELSE Goto(t, "body") /\ UNCHANGED pd
    /\ UNCHANGED <<used, cache, unwind, nthreads, nextTid, stk, call, handle, over, got>>

\* The thread's function returns its result.
Returns(t) ==
    /\ At(t, "body") /\ InBody(t)
    /\ Goto(t, "returned")
    /\ pd' = [pd EXCEPT ![stk[t]].result = t]
    /\ UNCHANGED <<used, cache, unwind, nthreads, nextTid, stk, call, handle, over, got>>

\* The EXITING bit, and the count: the last thread ends the process.
SetExiting(t) ==
    /\ At(t, "returned")
    /\ Goto(t, "exiting")
    /\ pd' = [pd EXCEPT ![stk[t]].exiting = TRUE]
    /\ nthreads' = nthreads - 1
    /\ over' = (nthreads = 1)
    /\ UNCHANGED <<used, cache, unwind, nextTid, stk, call, handle, got>>

\* A detached thread queues its own stack while it runs on it; its tid keeps it
\* from being reused.
FreeIfDetached(t) ==
    LET s == stk[t] IN
    /\ At(t, "exiting")
    /\ Goto(t, "out")
    /\ IF pd[s].detached THEN free_tcb(s, pd[s]) ELSE UNCHANGED <<pd, used, cache>>
    /\ UNCHANGED <<unwind, nthreads, nextTid, stk, call, handle, over, got>>

\* The thread itself stores 0 to its tid ...
ClearTid(t) ==
    /\ At(t, "out")
    /\ Goto(t, "cleared")
    /\ pd' = [pd EXCEPT ![stk[t]].tid = 0]
    /\ UNCHANGED <<used, cache, unwind, nthreads, nextTid, stk, call, handle, over, got>>

\* ... wakes one thread that waits on it ...
WakeJoiner(t) ==
    LET asleep == {j \in Tids : call[j].asleep /\ call[j].s = stk[t]} IN
    /\ At(t, "cleared")
    /\ Goto(t, "woken")
    /\ \/ asleep = {} /\ UNCHANGED call
       \/ \E j \in asleep : call' = [call EXCEPT ![j].asleep = FALSE]
    /\ UNCHANGED <<pd, used, cache, unwind, nthreads, nextTid, stk, handle, over, got>>

\* ... and asks the host to end it, which saves its frames on its stack first.
HostExit(t) ==
    /\ At(t, "woken")
    /\ Goto(t, "gone")
    /\ unwind' = [unwind EXCEPT ![stk[t]] = t]
    /\ UNCHANGED <<pd, used, cache, nthreads, nextTid, stk, call, handle, over, got>>

\* The thread's function traps: the host drops the thread and nothing else.
Trap(t) ==
    /\ At(t, "body") /\ InBody(t) /\ t \in Traps
    /\ Goto(t, "trapped")
    /\ UNCHANGED <<pd, used, cache, unwind, nthreads, nextTid, stk, call, handle, over, got>>

\* The main thread returns from main: exit_group ends everything.
MainReturns ==
    /\ InBody(Main)
    /\ over' = TRUE
    /\ UNCHANGED <<pd, used, cache, unwind, nthreads, nextTid, pc, stk, call, handle, got>>
-----------------------------------------------------------------------------
\* Steps of functions already entered: the scheduler gets to them.
CallStep(t) ==
    \/ InitPd(t) \/ Clone(t) \/ CloneFails(t) \/ Spawn(t)
    \/ \E ok \in BOOLEAN : SetAttr(t, ok)
    \/ Reap(t) \/ FutexWait(t) \/ JoinDone(t) \/ DetachCheck(t) \/ DetachFree(t)

ThreadStep(t) ==
    \/ Rewind(t) \/ Start(t) \/ SetExiting(t) \/ FreeIfDetached(t)
    \/ ClearTid(t) \/ WakeJoiner(t) \/ HostExit(t)

\* What the program, a signal or a clock may do, or never do.
Program(t) ==
    \/ \E k \in Kinds : AllocateStack(t, k)
    \/ \E u \in Tids : \/ JoinEnter(t, u, "join") \/ JoinEnter(t, u, "timedjoin")
                       \/ TryJoinEnter(t, u) \/ Detach(t, u)
    \/ FutexInterrupted(t) \/ JoinTimesOut(t)
    \/ Returns(t) \/ Trap(t)

Next ==
    \/ \E t \in Tids : CallStep(t) \/ ThreadStep(t) \/ Program(t)
    \/ MainReturns

Spec == Init /\ [][Next]_vars
FairSpec == Spec /\ \A t \in Tids : WF_vars(CallStep(t)) /\ WF_vars(ThreadStep(t))
-----------------------------------------------------------------------------
(***************************************************************************)
(* Properties.                                                             *)
(***************************************************************************)
Cleared == {"cleared", "woken", "gone"}

\* pthread_join hands out the result of the thread it was asked for, and only
\* when that thread's function has returned and start_thread is done with the
\* descriptor: no joiner of a reused stack, or woken by the late FUTEX_WAKE of its
\* last owner, takes another thread's result.
JoinRight ==
    \A t \in Tids : got[t] # 0 => got[t] = t /\ pc[t] \in Cleared

\* Who will still give a stack back: a creator that has not started its thread or
\* is reaping it, a thread that has not passed its own look at joinid, whoever
\* holds the handle, and the join or detach in progress.  (A trapped or astray
\* thread never does: known leaks.)
Held == {call[c].s : c \in Tids}
        \cup {stk[t] : t \in {u \in Tids : \/ pc[u] \in Living \cup {"exiting", "trapped", "astray"}
                                         \/ handle[u] = "owned"}}

\* No stack is leaked: pthread_detach and the exiting thread each look at what the
\* other has written, and whichever comes second frees the TCB.
NoStackLeak == ~over => used \subseteq Held

\* A stack on the cache list belongs to no thread that still runs the program's
\* code or has its result to deliver: the detacher frees only a thread it has seen
\* exiting.
CachedIsDone ==
    \A t \in Tids : pc[t] \in Living => stk[t] \notin cache

\* As long as start_thread has not cleared its tid, no other thread has its stack,
\* although a detached thread has already queued it: get_cached_stack looks at tid.
MarkedExclusive ==
    \A t, u \in Tids : t # u /\ pc[t] \in Marked /\ pc[u] \in Marked => stk[t] # stk[u]

\* __nptl_nthreads counts the threads that have not begun to exit, and the ones
\* being created, through a failed clone and a failed setup too; so no thread but
\* the last takes the "last thread" branch.
NThreadsExact ==
    LET reaping == {call[c].t : c \in {d \in Tids : call[d].fn = "reap"}}
    IN  nthreads = Cardinality({t \in Tids : pc[t] \in Living \cup {"trapped", "astray"}} \ reaping)
                   + Cardinality({c \in Tids : call[c].fn \in {"clone", "spawn", "reap"}})

\* A thread whose function has returned is not waited for for ever: pthread_join,
\* and pthread_create after a failed setup, return.
JoinReturns ==
    \A t \in Tids \ {Main} :
        LET WaitedFor == \E j \in Tids : call[j].fn \in {"join", "reap"} /\ call[j].t = t
        IN  WaitedFor /\ pc[t] \in {"returned", "exiting", "out", "cleared", "woken", "gone"}
                ~> over \/ ~WaitedFor

\* What the comment in queue_stack says: a cached stack is not reused while it is
\* in use.  A thread is on its stack until the host has ended it.
StackExclusive ==
    \A t, u \in Tids : t # u /\ pc[t] \in OnStack /\ pc[u] \in OnStack => stk[t] # stk[u]

\* The consequence for the new thread: the frames on its stack are the ones its
\* creator put there.
OwnContext == \A t \in Tids : pc[t] = "spawned" => unwind[stk[t]] = t
=============================================================================
