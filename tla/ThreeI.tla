------------------------------- MODULE ThreeI -------------------------------
(***************************************************************************)
(* The 3i router of lind-wasm and the cage teardown it races with.         *)
(*                                                                         *)
(* A thread of a cage issues a system call with make_syscall, which looks  *)
(* the handler up in HANDLERTABLE and runs it on the same thread: a        *)
(* RawPOSIX function, a 3i function, or a function of another cage (a      *)
(* grate), which may itself issue calls.  A thread therefore carries a     *)
(* stack of calls in progress, frame[t, 1] .. frame[t, depth[t]].          *)
(* Concurrently other threads register handlers, fork, and tear cages      *)
(* down with exit_group, thread exit or a crash.                           *)
(*                                                                         *)
(* One action is one access to shared state: a table operation under the   *)
(* HANDLERTABLE mutex, one atomic load or store, one CAGE_MAP access.      *)
(* Function pointers, arguments and return values are abstracted away: a   *)
(* route to grate g stands for the pair (g, function in g).                *)
(***************************************************************************)
EXTENDS Integers, FiniteSets

CONSTANTS
    MaxCageId,   \* the largest cage id alloc_cage_id hands out
    Threads,     \* OS threads that can be started
    MaxDepth,    \* bound on nested grate calls of one thread
    Requests,    \* the system calls the guest programs issue
    CanCrash     \* threads whose Wasm code may trap

INIT_CAGEID        == 1
RAWPOSIX_CAGEID    == 777777
THREEI_CAGEID      == 999999
THREEI_DEREGISTER  == 500
MAX_CAGEID         == 2048

CLONE_SYSCALL            == 56
EXIT_SYSCALL             == 60
EXIT_GROUP_SYSCALL       == 231
REGISTER_HANDLER_SYSCALL == 1001

Cages  == 1..MaxCageId
Dests  == Cages \cup {RAWPOSIX_CAGEID, THREEI_CAGEID}
Levels == 1..MaxDepth

(***************************************************************************)
(* A request is the part of a system call the router and the modelled      *)
(* handlers look at: its number, what the RawPOSIX or 3i function behind   *)
(* it does, and for register_handler its three arguments.                  *)
(***************************************************************************)
CallNums == {1, CLONE_SYSCALL, EXIT_SYSCALL, EXIT_GROUP_SYSCALL,
             REGISTER_HANDLER_SYSCALL}
Ops      == {"plain", "fork", "thread", "exit", "exit_group", "register"}

Request == [num: CallNums, op: Ops, targetcage: Cages, targetcallnum: CallNums,
            handlefunccage: Cages \cup {THREEI_DEREGISTER}]

Basic(n, o) == [num |-> n, op |-> o, targetcage |-> INIT_CAGEID,
                targetcallnum |-> 1, handlefunccage |-> INIT_CAGEID]
Plain     == Basic(1, "plain")
Fork      == Basic(CLONE_SYSCALL, "fork")
PThread   == Basic(CLONE_SYSCALL, "thread")
Exit      == Basic(EXIT_SYSCALL, "exit")
ExitGroup == Basic(EXIT_GROUP_SYSCALL, "exit_group")
Register(c, n, g) == [num |-> REGISTER_HANDLER_SYSCALL, op |-> "register",
                      targetcage |-> c, targetcallnum |-> n,
                      handlefunccage |-> g]

ASSUME ConstantsAssumption ==
    /\ MaxCageId \in Nat \ {0}
    /\ MaxCageId < MAX_CAGEID
    /\ MaxDepth \in Nat \ {0}
    /\ Requests \subseteq Request
    /\ CanCrash \subseteq Threads

ASSUME ThreadsFinite == IsFiniteSet(Threads) /\ Threads # {}

VARIABLES
    slots,       \* HANDLERTABLE: the (cage, call) pairs that have a target_map
    route,       \* HANDLERTABLE: the (cage, call, destination) entries
    poisoned,    \* the HANDLERTABLE mutex is poisoned
    exiting,     \* EXITING_TABLE
    cages,       \* CAGE_MAP: the ids that hold a cage
    nextId,      \* NEXT_CAGEID
    runtime,     \* GRATE_RUNTIME_TABLE: the cages with a runtime
    dead,        \* Cage.is_dead
    initiated,   \* Cage.exit_group_initiated
    inflight,    \* Cage.grate_inflight
    registered,  \* Cage.epoch_handler: the threads registered with the cage
    killed,      \* threads whose epoch is EPOCH_KILLED
    home,        \* the cage each started thread belongs to, 0 if not started
    mains,       \* the threads that run a cage's _start
    step,        \* where each thread is outside its calls
    birth,       \* the child a forking thread has to start, 0 if none
    depth,       \* number of calls in progress on each thread
    frame        \* those calls

tableVars  == <<slots, route, poisoned>>
cageVars   == <<exiting, cages, nextId, runtime, dead, initiated, inflight>>
threadVars == <<registered, killed, home, mains, step, birth>>
callVars   == <<depth, frame>>
vars == <<tableVars, cageVars, threadVars, callVars>>

Pcs == {"none", "check", "lookup", "recheck", "raw", "mark", "kill", "purge",
        "copytable", "threei", "reg", "borrow", "inc", "chk", "run", "freed"}
Frame == [self: Cages, req: Request, target: Cages, dest: Dests, pc: Pcs]
NoFrame == [self |-> INIT_CAGEID, req |-> Plain, target |-> INIT_CAGEID,
            dest |-> RAWPOSIX_CAGEID, pc |-> "none"]

Steps == {"none", "starting", "run", "unwind", "crash_mark", "crash_purge",
          "crash_exit", "drain", "remove", "gone", "panicked"}

(***************************************************************************)
(* The calls in progress.                                                  *)
(***************************************************************************)
Top(t)     == frame[<<t, depth[t]>>]
At(t, pc)  == depth[t] > 0 /\ Top(t).pc = pc /\ step[t] # "panicked"
Goto(t, pc) == /\ frame' = [frame EXCEPT ![<<t, depth[t]>>].pc = pc]
               /\ UNCHANGED depth

\* The top call of t returns to its caller (with a result or an errno).
Return(t) == /\ frame' = [frame EXCEPT ![<<t, depth[t]>>] = NoFrame]
             /\ depth' = [depth EXCEPT ![t] = @ - 1]

\* A Rust panic: the thread dies where it stands, no frame below is resumed.
Panic(t) == /\ step' = [step EXCEPT ![t] = "panicked"]
            /\ UNCHANGED callVars

(***************************************************************************)
(* HANDLERTABLE (handler_table/hashmap_impl.rs).                           *)
(***************************************************************************)
HasTable(c)   == \E n \in CallNums : <<c, n>> \in slots
Handlers(c, n) == {d \in Dests : <<c, n, d>> \in route}

\* route without the entries whose destination is g (_rm_grate_from_handler).
Purged(g) == {e \in route : e[3] # g}

\* route with the target_map of (c, n) cleared.
ClearedKept(c, n) == route   \* mutant: the clear() is forgotten
Cleared(c, n) == {e \in route : ~(e[1] = c /\ e[2] = n)}

\* register_handler_impl: deregister, or clear and insert.  A grate whose id is
\* THREEI_DEREGISTER, which alloc_cage_id hands out like any other, deregisters.
RegisterImpl(c, n, g) ==
    IF g = THREEI_DEREGISTER
    THEN /\ slots' = slots \ {<<c, n>>}
         /\ route' = Cleared(c, n)
    ELSE /\ slots' = slots \cup {<<c, n>>}
         /\ route' = Cleared(c, n) \cup {<<c, n, g>>}

\* copy_handler_table_to_cage with its EXITING check; a failure leaves the
\* table as it is, and fork_syscall ignores the returned code.
CopyTable(src, dst) ==
    IF src \in exiting \/ dst \in exiting \/ ~HasTable(src)
    THEN UNCHANGED <<slots, route>>
    ELSE /\ slots' = {s \in slots : s[1] # dst}
                     \cup {<<dst, n>> : n \in {m \in CallNums : <<src, m>> \in slots}}
         /\ route' = {e \in route : e[1] # dst}
                     \cup {<<dst, e[2], e[3]>> : e \in {x \in route : x[1] = src}}

-----------------------------------------------------------------------------
(***************************************************************************)
(* Guest code.  At depth 0 a thread runs its own cage's program and issues *)
(* calls with self = target = its cage; inside a grate function it either  *)
(* forwards the intercepted call on behalf of the original target, or      *)
(* makes a call of the grate's own.                                        *)
(***************************************************************************)
Push(t, self, r, target) ==
    /\ depth[t] < MaxDepth
    /\ depth' = [depth EXCEPT ![t] = @ + 1]
    /\ frame' = [frame EXCEPT ![<<t, depth[t] + 1>>] =
                    [self |-> self, req |-> r, target |-> target,
                     dest |-> RAWPOSIX_CAGEID, pc |-> "check"]]
    /\ UNCHANGED <<tableVars, cageVars, threadVars>>

\* glibc issues exit (60) only from a thread that is not the main one, and
\* fork only works from the main one.
Issues(t, r) == /\ r.op = "exit" => t \notin mains
                /\ r.op = "fork" => t \in mains

CageCall(t) ==
    /\ step[t] = "run" /\ depth[t] = 0 /\ birth[t] = 0
    /\ \E r \in Requests : Issues(t, r) /\ Push(t, home[t], r, home[t])

GrateForwards(t) ==
    /\ step[t] = "run" /\ birth[t] = 0 /\ At(t, "run")
    /\ Push(t, Top(t).dest, Top(t).req, Top(t).target)

GrateCall(t) ==
    /\ At(t, "run")
    /\ \E r \in Requests : /\ r.op \in {"plain", "register"}
                           /\ Push(t, Top(t).dest, r, Top(t).dest)

(***************************************************************************)
(* make_syscall.                                                           *)
(***************************************************************************)
is_cage_dead(c) == c \in cages /\ dead[c]

Blocked(f) == /\ is_cage_dead(f.target) \/ f.target \in exiting
              /\ f.req.num \notin {EXIT_SYSCALL, EXIT_GROUP_SYSCALL}
              /\ f.self # f.target

Check(t) ==
    /\ At(t, "check")
    /\ IF Blocked(Top(t)) THEN Return(t) ELSE Goto(t, "lookup")
    /\ UNCHANGED <<tableVars, cageVars, threadVars>>

\* Where make_syscall goes for the destination _get_handler returned.
PcFor(d) == IF d = RAWPOSIX_CAGEID THEN "recheck"
            ELSE IF d = THREEI_CAGEID THEN "threei" ELSE "borrow"

LookupFound(t) ==
    /\ At(t, "lookup") /\ ~poisoned
    /\ \E d \in Handlers(Top(t).self, Top(t).req.num) :
          /\ frame' = [frame EXCEPT ![<<t, depth[t]>>] =
                          [@ EXCEPT !.dest = d, !.pc = PcFor(d)]]
          /\ UNCHANGED depth
    /\ UNCHANGED <<tableVars, cageVars, threadVars>>

\* No target_map: _get_handler panics while it holds the mutex.  An empty
\* target_map: it returns None and make_syscall panics after the unlock.
LookupFails(t) ==
    /\ At(t, "lookup")
    /\ poisoned \/ Handlers(Top(t).self, Top(t).req.num) = {}
    /\ Panic(t)
    /\ poisoned' = (poisoned \/ <<Top(t).self, Top(t).req.num>> \notin slots)
    /\ UNCHANGED <<slots, route, cageVars, registered, killed, home, mains, birth>>

Recheck(t) ==
    /\ At(t, "recheck")
    /\ IF Blocked(Top(t)) THEN Return(t) ELSE Goto(t, "raw")
    /\ UNCHANGED <<tableVars, cageVars, threadVars>>

\* grate_inflight.fetch_sub(1).
ReleaseForgotten(g) == UNCHANGED inflight   \* mutant: an early return leaks it
Release(g) == inflight' = [inflight EXCEPT ![g] = @ - 1]

\* with_cage(grateid, ..): look the cage up; ESRCH when it is absent.
Borrow(t) ==
    /\ At(t, "borrow")
    /\ IF Top(t).dest \in cages THEN Goto(t, "inc") ELSE Return(t)
    /\ UNCHANGED <<tableVars, cageVars, threadVars>>

\* grate_inflight.fetch_add(1).  The reference was taken without a lock: if
\* the cage was removed meanwhile the access is to freed memory, and nothing
\* more is said of this thread.
AddInflight(t) ==
    LET g == Top(t).dest IN
    /\ At(t, "inc")
    /\ IF g \in cages
       THEN inflight' = [inflight EXCEPT ![g] = @ + 1] /\ Goto(t, "chk")
       ELSE UNCHANGED inflight /\ Goto(t, "freed")
    /\ UNCHANGED <<tableVars, exiting, cages, nextId, runtime, dead, initiated,
                   threadVars>>

\* The is_dead re-check; then _call_grate_func, which panics when the cage has
\* no runtime yet.
CheckDead(t) ==
    LET g == Top(t).dest IN
    /\ At(t, "chk")
    /\ \/ /\ g \notin cages
          /\ Goto(t, "freed")
          /\ UNCHANGED <<inflight, step>>
       \/ /\ g \in cages /\ dead[g]
          /\ Release(g)
          /\ Return(t)
          /\ UNCHANGED step
       \/ /\ g \in cages /\ ~dead[g] /\ g \in runtime
          /\ Goto(t, "run")
          /\ UNCHANGED <<inflight, step>>
       \/ /\ g \in cages /\ ~dead[g] /\ g \notin runtime
          /\ Panic(t)
          /\ UNCHANGED inflight
    /\ UNCHANGED <<tableVars, exiting, cages, nextId, runtime, dead, initiated,
                   registered, killed, home, mains, birth>>

\* The grate function returns; the counter of a cage that is gone is left.
GrateReturns(t) ==
    LET g == Top(t).dest IN
    /\ At(t, "run")
    /\ IF g \in cages THEN Release(g) ELSE UNCHANGED inflight
    /\ Return(t)
    /\ UNCHANGED <<tableVars, exiting, cages, nextId, runtime, dead, initiated,
                   threadVars>>

(***************************************************************************)
(* register_handler: the EXITING check, then register_handler_impl under   *)
(* the mutex.                                                              *)
(***************************************************************************)
RegisterCheck(t) ==
    LET r == Top(t).req IN
    /\ At(t, "threei")
    /\ IF r.targetcage \in exiting \/ r.handlefunccage \in exiting
       THEN Return(t) ELSE Goto(t, "reg")
    /\ UNCHANGED <<tableVars, cageVars, threadVars>>

RegisterApply(t) ==
    LET r == Top(t).req IN
    /\ At(t, "reg")
    /\ \/ /\ ~poisoned
          /\ RegisterImpl(r.targetcage, r.targetcallnum, r.handlefunccage)
          /\ Return(t)
          /\ UNCHANGED step
       \/ /\ poisoned
          /\ Panic(t)
          /\ UNCHANGED <<slots, route>>
    /\ UNCHANGED <<poisoned, cageVars, registered, killed, home, mains, birth>>

(***************************************************************************)
(* The RawPOSIX functions behind the calls (sys_calls.rs).  They run with  *)
(* cageid = target; for the calls modelled here the calling thread is a    *)
(* thread of that cage.                                                    *)
(***************************************************************************)
RawAt(t, op) == At(t, "raw") /\ Top(t).req.op = op

\* Any other system call: most start with get_cage(cageid).unwrap().
RawPlain(t) ==
    /\ RawAt(t, "plain")
    /\ \/ Return(t) /\ UNCHANGED step
       \/ Top(t).target \notin cages /\ Panic(t)
    /\ UNCHANGED <<tableVars, cageVars, registered, killed, home, mains, birth>>

\* The exit trampoline resolves the thread's VMContext, which is removed with
\* the cage (rm_vmctx_thread), and starts the unwind of the thread.
Unwind(t) ==
    \/ /\ step' = [step EXCEPT ![t] = "unwind"]
       /\ Return(t)
    \/ /\ Top(t).target \notin cages
       /\ Panic(t)

\* exit_syscall (60): this thread only.
RawExit(t) ==
    /\ RawAt(t, "exit")
    /\ Unwind(t)
    /\ UNCHANGED <<tableVars, cageVars, registered, killed, home, mains, birth>>

\* exit_group_syscall for a thread that loses try_initiate_exit_group.
ExitGroupLoser(t) ==
    LET c == Top(t).target IN
    /\ RawAt(t, "exit_group")
    /\ c \notin cages \/ initiated[c]
    /\ Unwind(t)
    /\ UNCHANGED <<tableVars, cageVars, registered, killed, home, mains, birth>>

\* EXITING_TABLE.insert(c).
MarkForgotten(c) == UNCHANGED exiting   \* mutant: an exit path forgets it
MarkExiting(c) == exiting' = exiting \cup {c}

\* The winner records the status and sets is_dead ..
ExitGroupWinner(t) ==
    LET c == Top(t).target IN
    /\ RawAt(t, "exit_group")
    /\ c \in cages /\ ~initiated[c]
    /\ initiated' = [initiated EXCEPT ![c] = TRUE]
    /\ dead' = [dead EXCEPT ![c] = TRUE]
    /\ Goto(t, "mark")
    /\ UNCHANGED <<tableVars, exiting, cages, nextId, runtime, inflight, threadVars>>

\* .. inserts the cage into EXITING_TABLE ..
ExitGroupMark(t) ==
    /\ At(t, "mark")
    /\ MarkExiting(Top(t).target)
    /\ Goto(t, "kill")
    /\ UNCHANGED <<tableVars, cages, nextId, runtime, dead, initiated, inflight,
                   threadVars>>

\* .. epoch_kill_all: every other registered thread of the cage ..
ExitGroupKill(t) ==
    LET c == Top(t).target IN
    /\ At(t, "kill")
    /\ killed' = IF c \in cages THEN killed \cup (registered[c] \ {t}) ELSE killed
    /\ Goto(t, "purge")
    /\ UNCHANGED <<tableVars, cageVars, registered, home, mains, step, birth>>

\* .. purges the routes to the cage, and leaves through the exit trampoline.
ExitGroupPurge(t) ==
    /\ At(t, "purge")
    /\ \/ /\ ~poisoned
          /\ route' = Purged(Top(t).target)
          /\ Unwind(t)
       \/ /\ poisoned
          /\ Panic(t)
          /\ UNCHANGED route
    /\ UNCHANGED <<slots, poisoned, cageVars, registered, killed, home, mains, birth>>

\* alloc_cage_id has an id left: v + 1 < MAX_CAGEID.
IdLeftOffByOne == nextId =< MaxCageId   \* mutant: the bound is off by one
IdLeft == nextId < MaxCageId

\* fork_syscall up to add_cage; alloc_cage_id().unwrap() and the lookups of a
\* removed parent panic.  The child id is kept in birth.
RawFork(t) ==
    /\ RawAt(t, "fork")
    /\ \/ /\ Top(t).target \in cages /\ IdLeft
          /\ nextId' = nextId + 1
          /\ cages' = cages \cup {nextId + 1}
          /\ birth' = [birth EXCEPT ![t] = nextId + 1]
          /\ Goto(t, "copytable")
          /\ UNCHANGED step
       \/ /\ Top(t).target \notin cages \/ ~IdLeft
          /\ Panic(t)
          /\ UNCHANGED <<nextId, cages, birth>>
    /\ UNCHANGED <<tableVars, exiting, runtime, dead, initiated, inflight,
                   registered, killed, home, mains>>

ForkCopyTable(t) ==
    /\ At(t, "copytable")
    /\ \/ /\ ~poisoned
          /\ CopyTable(Top(t).target, birth[t])
          /\ Return(t)
          /\ UNCHANGED step
       \/ /\ poisoned
          /\ Panic(t)
          /\ UNCHANGED <<slots, route>>
    /\ UNCHANGED <<poisoned, cageVars, registered, killed, home, mains, birth>>

\* The rest of fork runs when the caller has unwound to its base: the child
\* thread registers and publishes its runtime before the parent resumes.
ForkChild(t) ==
    /\ step[t] = "run" /\ depth[t] = 0
    /\ birth[t] # 0 /\ birth[t] # home[t]
    /\ \E u \in Threads :
          /\ home[u] = 0
          /\ home' = [home EXCEPT ![u] = birth[t]]
          /\ mains' = mains \cup {u}
          /\ registered' = [registered EXCEPT ![birth[t]] = {u}]
          /\ runtime' = runtime \cup {birth[t]}
          /\ step' = [step EXCEPT ![u] = "run"]
    /\ birth' = [birth EXCEPT ![t] = 0]
    /\ UNCHANGED <<tableVars, exiting, cages, nextId, dead, initiated, inflight,
                   killed, callVars>>

\* fork_syscall with CLONE_VM only hands over to Wasmtime; birth = home marks
\* the pthread_create that runs at the base.
RawThread(t) ==
    /\ RawAt(t, "thread")
    /\ birth' = [birth EXCEPT ![t] = home[t]]
    /\ Return(t)
    /\ UNCHANGED <<tableVars, cageVars, registered, killed, home, mains, step>>

\* pthread_create_call spawns the OS thread and resumes without waiting.
SpawnThread(t) ==
    /\ step[t] = "run" /\ depth[t] = 0
    /\ birth[t] # 0 /\ birth[t] = home[t]
    /\ \E u \in Threads :
          /\ home[u] = 0
          /\ home' = [home EXCEPT ![u] = home[t]]
          /\ step' = [step EXCEPT ![u] = "starting"]
    /\ birth' = [birth EXCEPT ![t] = 0]
    /\ UNCHANGED <<tableVars, cageVars, registered, killed, mains, callVars>>

\* lind_signal_init of the new thread; it returns silently without a cage.
StartThread(t) ==
    LET c == home[t] IN
    /\ step[t] = "starting"
    /\ registered' = IF c \in cages
                     THEN [registered EXCEPT ![c] = @ \cup {t}] ELSE registered
    /\ step' = [step EXCEPT ![t] = "run"]
    /\ UNCHANGED <<tableVars, cageVars, killed, home, mains, birth, callVars>>

(***************************************************************************)
(* Thread and cage teardown.                                               *)
(***************************************************************************)
\* The epoch callback finds EPOCH_KILLED and starts the unwind.
EpochKilled(t) ==
    /\ step[t] = "run" /\ depth[t] = 0 /\ birth[t] = 0 /\ t \in killed
    /\ step' = [step EXCEPT ![t] = "unwind"]
    /\ UNCHANGED <<tableVars, cageVars, registered, killed, home, mains, birth, callVars>>

\* lind_thread_exit, from exit_call's OnCalledAction.
ThreadExit(t) ==
    LET c == home[t] IN
    /\ step[t] = "unwind" /\ depth[t] = 0
    /\ \/ /\ c \notin cages
          /\ step' = [step EXCEPT ![t] = "gone"]
          /\ UNCHANGED registered
       \/ /\ c \in cages
          /\ registered' = [registered EXCEPT ![c] = @ \ {t}]
          /\ step' = [step EXCEPT ![t] = IF registered[c] \ {t} = {}
                                         THEN "drain" ELSE "gone"]
    /\ UNCHANGED <<tableVars, cageVars, killed, home, mains, birth, callVars>>

\* cage_finalize: spin until no grate dispatch is in flight ..
NotDrained(c) == TRUE   \* mutant: the spin loop is dropped
Drained(c) == c \in cages => inflight[c] = 0

Drain(t) ==
    /\ step[t] = "drain"
    /\ Drained(home[t])
    /\ step' = [step EXCEPT ![t] = "remove"]
    /\ UNCHANGED <<tableVars, cageVars, registered, killed, home, mains, birth, callVars>>

\* .. then remove_cage.
Remove(t) ==
    /\ step[t] = "remove"
    /\ cages' = cages \ {home[t]}
    /\ step' = [step EXCEPT ![t] = "gone"]
    /\ UNCHANGED <<tableVars, exiting, nextId, runtime, dead, initiated, inflight,
                   registered, killed, home, mains, birth, callVars>>

\* The Wasm code of a cage's main thread traps: status and is_dead ..
Crash(t) ==
    LET c == home[t] IN
    /\ step[t] = "run" /\ depth[t] = 0 /\ birth[t] = 0
    /\ t \in mains \cap CanCrash
    /\ dead' = IF c \in cages THEN [dead EXCEPT ![c] = TRUE] ELSE dead
    /\ step' = [step EXCEPT ![t] = "crash_mark"]
    /\ UNCHANGED <<tableVars, exiting, cages, nextId, runtime, initiated, inflight,
                   registered, killed, home, mains, birth, callVars>>

\* .. EXITING_TABLE ..
CrashMark(t) ==
    /\ step[t] = "crash_mark"
    /\ MarkExiting(home[t])
    /\ step' = [step EXCEPT ![t] = "crash_purge"]
    /\ UNCHANGED <<tableVars, cages, nextId, runtime, dead, initiated, inflight,
                   registered, killed, home, mains, birth, callVars>>

\* .. _rm_grate_from_handler ..
CrashPurge(t) ==
    /\ step[t] = "crash_purge"
    /\ \/ /\ ~poisoned
          /\ route' = Purged(home[t])
          /\ step' = [step EXCEPT ![t] = "crash_exit"]
       \/ /\ poisoned
          /\ step' = [step EXCEPT ![t] = "panicked"]
          /\ UNCHANGED route
    /\ UNCHANGED <<slots, poisoned, cageVars, registered, killed, home, mains, birth,
                   callVars>>

\* .. lind_thread_exit, and cage_finalize whatever it returns.
CrashExit(t) ==
    LET c == home[t] IN
    /\ step[t] = "crash_exit"
    /\ registered' = IF c \in cages
                     THEN [registered EXCEPT ![c] = @ \ {t}] ELSE registered
    /\ step' = [step EXCEPT ![t] = "drain"]
    /\ UNCHANGED <<tableVars, cageVars, killed, home, mains, birth, callVars>>

-----------------------------------------------------------------------------
(***************************************************************************)
(* rawposix_start and the boot of the first cage: every call of the init   *)
(* cage goes to RawPOSIX, the 3i calls to 3i.                              *)
(***************************************************************************)
Init ==
    \E t0 \in Threads :
    /\ slots = {INIT_CAGEID} \X CallNums
    /\ route = {<<INIT_CAGEID, n, IF n = REGISTER_HANDLER_SYSCALL
                                  THEN THREEI_CAGEID ELSE RAWPOSIX_CAGEID>>
                   : n \in CallNums}
    /\ poisoned = FALSE
    /\ exiting = {}
    /\ cages = {INIT_CAGEID}
    /\ nextId = INIT_CAGEID
    /\ runtime = {INIT_CAGEID}
    /\ dead = [c \in Cages |-> FALSE]
    /\ initiated = [c \in Cages |-> FALSE]
    /\ inflight = [c \in Cages |-> 0]
    /\ registered = [c \in Cages |-> IF c = INIT_CAGEID THEN {t0} ELSE {}]
    /\ killed = {}
    /\ home = [t \in Threads |-> IF t = t0 THEN INIT_CAGEID ELSE 0]
    /\ mains = {t0}
    /\ step = [t \in Threads |-> IF t = t0 THEN "run" ELSE "none"]
    /\ birth = [t \in Threads |-> 0]
    /\ depth = [t \in Threads |-> 0]
    /\ frame = [k \in Threads \X Levels |-> NoFrame]

Guest(t)    == CageCall(t) \/ GrateForwards(t) \/ GrateCall(t) \/ GrateReturns(t)
Dispatch(t) == \/ Check(t) \/ LookupFound(t) \/ LookupFails(t) \/ Recheck(t)
               \/ Borrow(t) \/ AddInflight(t) \/ CheckDead(t)
Handler(t)  == \/ RegisterCheck(t) \/ RegisterApply(t) \/ RawPlain(t)
               \/ RawExit(t) \/ ExitGroupLoser(t) \/ ExitGroupWinner(t)
               \/ ExitGroupMark(t) \/ ExitGroupKill(t) \/ ExitGroupPurge(t)
               \/ RawFork(t) \/ ForkCopyTable(t) \/ RawThread(t)
Lifecycle(t) == \/ ForkChild(t) \/ SpawnThread(t) \/ StartThread(t)
                \/ EpochKilled(t) \/ ThreadExit(t) \/ Drain(t) \/ Remove(t)
                \/ Crash(t) \/ CrashMark(t) \/ CrashPurge(t) \/ CrashExit(t)

Next == \E t \in Threads : Guest(t) \/ Dispatch(t) \/ Handler(t) \/ Lifecycle(t)

Spec == Init /\ [][Next]_vars

-----------------------------------------------------------------------------
(***************************************************************************)
(* Properties.                                                             *)
(***************************************************************************)

\* The shape of the router's tables, of the cages and of the call stacks.
TypeOK ==
    /\ slots \subseteq Cages \X CallNums
    /\ route \subseteq Cages \X CallNums \X Dests
    /\ poisoned \in BOOLEAN
    /\ exiting \subseteq Cages
    /\ cages \subseteq Cages
    /\ nextId \in Cages
    /\ runtime \subseteq Cages
    /\ dead \in [Cages -> BOOLEAN]
    /\ initiated \in [Cages -> BOOLEAN]
    /\ inflight \in [Cages -> Int]
    /\ registered \in [Cages -> SUBSET Threads]
    /\ killed \subseteq Threads
    /\ home \in [Threads -> Cages \cup {0}]
    /\ mains \subseteq Threads
    /\ step \in [Threads -> Steps]
    /\ birth \in [Threads -> Cages \cup {0}]
    /\ depth \in [Threads -> 0..MaxDepth]
    /\ frame \in [Threads \X Levels -> Frame]

\* _get_handler takes "the first entry" of a target_map: that is only a
\* definite choice because registration and fork leave at most one entry.
OneHandlerPerCall ==
    \A x, y \in route : x[1] = y[1] /\ x[2] = y[2] => x[3] = y[3]

\* The calls that have added themselves to grate g's in-flight counter.
Holders(g) == {k \in Threads \X Levels :
                  frame[k].pc \in {"chk", "run"} /\ frame[k].dest = g}

\* grate_inflight of a cage in CAGE_MAP is exactly the number of dispatches
\* into it: none is lost (the cage would go under a running call) and none is
\* leaked (cage_finalize would spin for ever).
InflightExact == \A g \in cages : inflight[g] = Cardinality(Holders(g))

\* The in-flight protocol of make_syscall and cage_finalize: as long as a
\* grate function is running, its cage is in CAGE_MAP.
DispatchInLiveCage ==
    \A k \in Threads \X Levels : frame[k].pc = "run" => frame[k].dest \in cages

\* "EXITING_TABLE persists after remove_cage, catching calls to fully removed
\* cages": every id that was allocated and is gone is in EXITING_TABLE.
RemovedIsExiting == \A c \in 1..nextId : c \in cages \cup exiting

\* A RawPOSIX function never runs for a cage that was removed, so none of them
\* meets a get_cage(cageid).unwrap() on None: the calling thread keeps its cage
\* in CAGE_MAP, and a grate's own calls are kept by the in-flight counter.
\* (Cages with one thread.)
RawInLiveCage ==
    \A k \in Threads \X Levels :
        frame[k].pc \in {"raw", "mark", "kill", "purge", "copytable"}
            => frame[k].target \in cages

(***************************************************************************)
(* What comments of the code say and the model refutes.                    *)
(***************************************************************************)

\* with_cage: "Assumes that the cage cannot be removed while f is running
\* (e.g. by ensuring grate_inflight > 0)".  Refuted: the increment itself runs
\* inside with_cage.
WithCageSafe == \A k \in Threads \X Levels : frame[k].pc # "freed"

\* register_handler makes "sure that both the cage that registers the handler
\* and the cage being registered are valid (not in exited state)".  Refuted: the
\* check precedes the table update, and a purge can fall between them.
RouteToLiveCage == \A e \in route : e[3] \in 1..nextId => e[3] \in cages

\* After a cage or grate has exited "new calls to that cage will result in an
\* error".  Refuted: the purge leaves an empty target_map, on which the next
\* call of a client panics.
ClientSurvivesGrateExit ==
    \A t \in Threads : step[t] = "panicked" => Top(t).pc # "lookup"

\* "The cage struct remains in CAGE_MAP until the actual last thread exits."
\* Refuted: a thread registers itself only after its creator went on.
CageOutlivesThreads == \A t \in Threads : step[t] = "run" => home[t] \in cages

\* "When a cage forks, the child inherits the parent's system call handler
\* table."  Refuted: the copy is refused once another thread of the parent has
\* called exit_group, and fork_syscall goes on without it.
ForkInheritsTable == \A c \in Cages : registered[c] # {} => HasTable(c)
=============================================================================
