------------------------------ MODULE CageLife ------------------------------
(***************************************************************************)
(* The life of cages as processes: fork, threads, signals delivered        *)
(* through the epoch of the main thread, exit_group, cage_finalize, the    *)
(* zombie list and waitpid, and the host's count of cages.                 *)
(*                                                                         *)
(* A thread is a pair <<c, t>>.  One action is one atomic access or one    *)
(* critical section (of zombies, pending_signals or main_threadid); what   *)
(* a thread does in Wasm between system calls is one state, "wasm", in     *)
(* which the epoch is checked.  The router and grate dispatches are in     *)
(* ThreeI; there a cage also waits for its dispatches to drain before the  *)
(* steps of cage_finalize modelled here.                                   *)
(***************************************************************************)
EXTENDS Integers, Sequences, FiniteSets

CONSTANTS
    MaxCageId,   \* bound: the largest cage id
    Threads,     \* bound: thread ids of a cage; 1 is THREAD_START_ID
    ForkBy,      \* cages that fork
    Forkers,     \* threads that fork: subset of Threads
    SpawnBy,     \* cages that create threads
    Options,     \* waitpid's options used: subset of BOOLEAN (TRUE: WNOHANG)
    Handled,     \* cages have installed a handler for SIGCHLD
    MaxKills,    \* bound: SIGTERMs sent
    EarlyKill,   \* they may go to a cage whose first thread has not registered
    Crashes,     \* threads whose Wasm code may trap: subset of Threads
    Wrap         \* child_num is an integer modulo Wrap

ASSUME LifeAssumption ==
    /\ MaxCageId \in Nat \ {0}
    /\ Threads \subseteq Nat /\ 1 \in Threads
    /\ ForkBy \subseteq Nat /\ SpawnBy \subseteq Nat /\ Forkers \subseteq Threads
    /\ Options \subseteq BOOLEAN
    /\ Handled \in BOOLEAN /\ Crashes \subseteq Threads /\ EarlyKill \in BOOLEAN
    /\ MaxKills \in Nat
    /\ Wrap \in Nat /\ Wrap > MaxCageId

ASSUME ThreadIdsFinite == IsFiniteSet(Threads)

VARIABLES
    nextId,                 \* NEXT_CAGEID
    cages,                  \* ids in CAGE_MAP
    parent, child_num, zombies, status, initiated,     \* fields of Cage
    threads, main, epoch, pending,                     \* its threads and signals
    pc, arg,                \* per thread: position, what the call is about
    cage_count,             \* LindCageManager
    kills,                  \* SIGTERMs sent so far
    first, reaped           \* history: first status recorded, times reaped

treeVars   == <<nextId, parent>>
waitVars   == <<child_num, zombies, reaped>>
signalVars == <<main, epoch, pending, kills>>
vars == <<nextId, cages, parent, child_num, zombies, status, initiated, threads,
          main, epoch, pending, pc, arg, cage_count, kills, first, reaped>>

INIT_CAGEID     == 1
THREAD_START_ID == 1
Cages == 1..MaxCageId
Thr   == Cages \X Threads

\* ExitStatus: what exit_group was called with, a crash, a fatal signal, and
\* EXIT_SUCCESS when nothing was recorded.
NoStatus == "none"
Statuses == {"code", "crash", "signaled", "success"}
Signals  == {"CHLD", "TERM"}

\* waitpid's argument: 0 waits for any child.
Pids == {0} \cup Cages
Arg  == [pid: Pids, nohang: BOOLEAN, signo: Signals]
NoArg == [pid |-> 0, nohang |-> FALSE, signo |-> "CHLD"]

SigLoop  == {"sig", "sig_check", "sig_reset", "sig_run"}
Leaving  == {"eg_record", "eg_kill", "term_kill", "unwind", "crash", "finalize",
             "fin_dec", "fin_push", "fin_signal", "fin_remove", "fin_count"}
PcSet    == {"none", "starting", "wasm", "fork_add", "fork_start", "wait_any", "wait_pid",
             "echild", "gone"} \cup SigLoop \cup Leaving

At(c, t, l)   == pc[<<c, t>>] = l
Goto(c, t, l) == pc' = [pc EXCEPT ![<<c, t>>] = l]

\* Back to Wasm; what the call was about is forgotten.
Return(c, t) == Goto(c, t, "wasm") /\ arg' = [arg EXCEPT ![<<c, t>>] = NoArg]

Init ==
    /\ nextId = INIT_CAGEID
    /\ cages = {INIT_CAGEID}
    /\ parent = [c \in Cages |-> INIT_CAGEID]
    /\ child_num = [c \in Cages |-> 0]
    /\ zombies = [c \in Cages |-> <<>>]
    /\ status = [c \in Cages |-> NoStatus]
    /\ initiated = [c \in Cages |-> FALSE]
    /\ threads = [c \in Cages |-> IF c = INIT_CAGEID THEN {THREAD_START_ID} ELSE {}]
    /\ main = [c \in Cages |-> THREAD_START_ID]
    /\ epoch = [p \in Thr |-> "normal"]
    /\ pending = [c \in Cages |-> <<>>]
    /\ pc = [p \in Thr |-> IF p = <<INIT_CAGEID, THREAD_START_ID>> THEN "wasm"
                                                                  ELSE "none"]
    /\ arg = [p \in Thr |-> NoArg]
    /\ cage_count = 1
    /\ kills = 0
    /\ first = [c \in Cages |-> NoStatus]
    /\ reaped = [c \in Cages |-> 0]
-----------------------------------------------------------------------------
(***************************************************************************)
(* fork and pthread_create.                                                *)
(***************************************************************************)
\* fork_syscall counts the child before add_cage makes it visible.
ForkCount(c, t) ==
    /\ At(c, t, "wasm") /\ t \in Forkers /\ c \in cages \cap ForkBy
    /\ nextId < MaxCageId
    /\ nextId' = nextId + 1
    /\ parent' = [parent EXCEPT ![nextId + 1] = c]
    /\ child_num' = [child_num EXCEPT ![c] = (@ + 1) % Wrap]
    /\ arg' = [arg EXCEPT ![<<c, t>>].pid = nextId + 1]
    /\ Goto(c, t, "fork_add")
    /\ UNCHANGED <<cages, zombies, status, initiated, threads, signalVars,
                   cage_count, first, reaped>>

ForkAdd(c, t) ==
    /\ At(c, t, "fork_add")
    /\ cages' = cages \cup {arg[<<c, t>>].pid}
    /\ Goto(c, t, "fork_start")
    /\ UNCHANGED <<treeVars, waitVars, status, initiated, threads, signalVars,
                   arg, cage_count, first>>

\* The child runs its parent's program from the fork on, unless a thread other
\* than the first one called fork: the child's thread, already registered and
\* counted, then returns without running anything.
ChildRuns(t) == IF t = THREAD_START_ID THEN "wasm" ELSE "gone"

\* Mutant: the child is not counted.
ForkUncounted(c, t) ==
    LET ch == arg[<<c, t>>].pid IN
    /\ At(c, t, "fork_start")
    /\ threads' = [threads EXCEPT ![ch] = {THREAD_START_ID}]
    /\ pc' = [pc EXCEPT ![<<c, t>>] = "wasm",
                       ![<<ch, THREAD_START_ID>>] = ChildRuns(t)]
    /\ arg' = [arg EXCEPT ![<<c, t>>] = NoArg]
    /\ UNCHANGED <<treeVars, cages, waitVars, status, initiated, signalVars,
                   cage_count, first>>

\* The child's thread registers and is counted before the barrier releases the
\* parent.
ForkStart(c, t) ==
    LET ch == arg[<<c, t>>].pid IN
    /\ At(c, t, "fork_start")
    /\ threads' = [threads EXCEPT ![ch] = {THREAD_START_ID}]
    /\ cage_count' = cage_count + 1
    /\ pc' = [pc EXCEPT ![<<c, t>>] = "wasm",
                       ![<<ch, THREAD_START_ID>>] = ChildRuns(t)]
    /\ arg' = [arg EXCEPT ![<<c, t>>] = NoArg]
    /\ UNCHANGED <<treeVars, cages, waitVars, status, initiated, signalVars, first>>

\* pthread_create_call starts an OS thread and does not wait for it.
Spawn(c, t, u) ==
    /\ At(c, t, "wasm") /\ At(c, u, "none") /\ c \in cages \cap SpawnBy
    /\ Goto(c, u, "starting")
    /\ UNCHANGED <<treeVars, cages, waitVars, status, initiated, threads,
                   signalVars, arg, cage_count, first>>

\* The new thread links its instance and registers itself (lind_signal_init):
\* until then epoch_kill_all, the hand-over of the main role and the test for
\* the last thread do not see it.  In a cage that is gone it runs unregistered.
Register(c, t) ==
    /\ At(c, t, "starting")
    /\ threads' = IF c \in cages THEN [threads EXCEPT ![c] = @ \cup {t}] ELSE threads
    /\ Goto(c, t, "wasm")
    /\ UNCHANGED <<treeVars, cages, waitVars, status, initiated, signalVars, arg,
                   cage_count, first>>
-----------------------------------------------------------------------------
(***************************************************************************)
(* Signals.                                                                *)
(***************************************************************************)
\* signal_epoch_trigger writes the main thread's epoch whatever it holds.
Triggered(c) ==
    IF main[c] \in threads[c] THEN [epoch EXCEPT ![<<c, main[c]>>] = "signal"]
                              ELSE epoch

\* signal_check_block: sigset holds the signal whose handler is running, from
\* lind_get_first_signal to the restorer.  SIGTERM, which has no handler, never
\* blocks itself.
Blocked(c, s) ==
    /\ s = "CHLD"
    /\ \E t \in Threads : /\ pc[<<c, t>>] \in SigLoop \ {"sig"}
                          /\ arg[<<c, t>>].signo = s

\* lind_send_signal; pending_signals stays locked over the trigger.
Send(c, s) ==
    IF c \in cages /\ (s = "CHLD" => Handled)
    THEN /\ pending' = [pending EXCEPT ![c] = Append(@, s)]
         /\ epoch' = IF Blocked(c, s) THEN epoch ELSE Triggered(c)
    ELSE UNCHANGED <<pending, epoch>>

Kill(c, t, d) ==
    /\ At(c, t, "wasm") /\ c \in cages /\ d \in 1..nextId /\ kills < MaxKills
    /\ At(d, THREAD_START_ID, "none") => EarlyKill
    /\ Send(d, "TERM")
    /\ kills' = kills + 1
    /\ UNCHANGED <<treeVars, cages, waitVars, status, initiated, threads, main,
                   pc, arg, cage_count, first>>

\* signal_check_trigger
check_trigger(c) ==
    c \in cages /\ main[c] \in threads[c] /\ epoch[<<c, main[c]>>] # "normal"

\* The epoch callback of a killed thread starts its unwind.
Killed(c, t) ==
    /\ At(c, t, "wasm") /\ c \in cages
    /\ t \in threads[c] /\ epoch[<<c, t>>] = "killed"
    /\ Goto(c, t, "unwind")
    /\ UNCHANGED <<treeVars, cages, waitVars, status, initiated, threads,
                   signalVars, arg, cage_count, first>>

Callback(c, t) ==
    /\ At(c, t, "wasm") /\ c \in cages /\ epoch[<<c, t>>] = "signal"
    /\ Goto(c, t, "sig")
    /\ UNCHANGED <<treeVars, cages, waitVars, status, initiated, threads,
                   signalVars, arg, cage_count, first>>

\* lind_get_first_signal, or the end of the loop.
SigTake(c, t) ==
    /\ At(c, t, "sig")
    /\ IF c \in cages /\ pending[c] # <<>>
       THEN /\ pending' = [pending EXCEPT ![c] = Tail(@)]
            /\ arg' = [arg EXCEPT ![<<c, t>>].signo = Head(pending[c])]
            /\ Goto(c, t, "sig_check")
       ELSE UNCHANGED <<pending, arg>> /\ Goto(c, t, "wasm")
    /\ UNCHANGED <<treeVars, cages, waitVars, status, initiated, threads, main,
                   epoch, kills, cage_count, first>>

\* lind_check_no_pending_signal
no_pending(c) ==
    c \in cages => \A i \in 1..Len(pending[c]) : Blocked(c, pending[c][i])

SigCheck(c, t) ==
    /\ At(c, t, "sig_check")
    /\ Goto(c, t, IF no_pending(c) THEN "sig_reset" ELSE "sig_run")
    /\ UNCHANGED <<treeVars, cages, waitVars, status, initiated, threads,
                   signalVars, arg, cage_count, first>>

\* Mutant: the epoch stays triggered after the last signal.
ResetForgotten(c, t) ==
    /\ At(c, t, "sig_reset")
    /\ Goto(c, t, "sig_run")
    /\ UNCHANGED <<treeVars, cages, waitVars, status, initiated, threads,
                   signalVars, arg, cage_count, first>>

\* signal_epoch_reset, which also writes whatever the epoch holds.
SigReset(c, t) ==
    /\ At(c, t, "sig_reset")
    /\ epoch' = IF c \in cages /\ main[c] \in threads[c]
                THEN [epoch EXCEPT ![<<c, main[c]>>] = "normal"] ELSE epoch
    /\ Goto(c, t, "sig_run")
    /\ UNCHANGED <<treeVars, cages, waitVars, status, initiated, threads, main,
                   pending, kills, arg, cage_count, first>>

\* Mutant: the last status stays.
RecordOverwrites(c, s) ==
    /\ status' = IF c \in cages THEN [status EXCEPT ![c] = s] ELSE status
    /\ first' = IF c \in cages /\ first[c] = NoStatus
                THEN [first EXCEPT ![c] = s] ELSE first

\* cage_record_exit_status: the first status stays.
Record(c, s) ==
    /\ status' = IF c \in cages /\ status[c] = NoStatus
                 THEN [status EXCEPT ![c] = s] ELSE status
    /\ first' = IF c \in cages /\ first[c] = NoStatus
                THEN [first EXCEPT ![c] = s] ELSE first

\* Mutant: one signal per callback.
LoopLeft == "wasm"

\* After the handler the loop goes on; SIGTERM's default action ends the cage.
AfterHandler == "sig"

SigRun(c, t) ==
    /\ At(c, t, "sig_run")
    /\ IF arg[<<c, t>>].signo = "TERM"
       THEN Record(c, "signaled") /\ Goto(c, t, "term_kill")
       ELSE UNCHANGED <<status, first>> /\ Goto(c, t, AfterHandler)
    /\ arg' = [arg EXCEPT ![<<c, t>>] = NoArg]
    /\ UNCHANGED <<treeVars, cages, waitVars, initiated, threads, signalVars,
                   cage_count>>
-----------------------------------------------------------------------------
(***************************************************************************)
(* Ending a cage: exit_group, a fatal signal, a crash.                     *)
(***************************************************************************)
\* try_initiate_exit_group; the loser only ends its own thread.
ExitGroup(c, t) ==
    /\ At(c, t, "wasm")
    /\ IF c \in cages /\ ~initiated[c]
       THEN initiated' = [initiated EXCEPT ![c] = TRUE] /\ Goto(c, t, "eg_record")
       ELSE UNCHANGED initiated /\ Goto(c, t, "unwind")
    /\ UNCHANGED <<treeVars, cages, waitVars, status, threads, signalVars, arg,
                   cage_count, first>>

ExitGroupRecord(c, t) ==
    /\ At(c, t, "eg_record")
    /\ Record(c, "code")
    /\ Goto(c, t, "eg_kill")
    /\ UNCHANGED <<treeVars, cages, waitVars, initiated, threads, signalVars,
                   arg, cage_count>>

\* epoch_kill_all: every other registered thread.
KillAll(c, t) ==
    epoch' = [p \in Thr |-> IF /\ c \in cages /\ p[1] = c
                               /\ p[2] \in threads[c] \ {t}
                            THEN "killed" ELSE epoch[p]]

ExitGroupKill(c, t) ==
    /\ At(c, t, "eg_kill") \/ At(c, t, "term_kill")
    /\ KillAll(c, t)
    /\ Goto(c, t, "unwind")
    /\ UNCHANGED <<treeVars, cages, waitVars, status, initiated, threads, main,
                   pending, kills, arg, cage_count, first>>

\* exit_syscall ends the calling thread only and records nothing.
ThreadReturns(c, t) ==
    /\ At(c, t, "wasm")
    /\ Goto(c, t, "unwind")
    /\ UNCHANGED <<treeVars, cages, waitVars, status, initiated, threads,
                   signalVars, arg, cage_count, first>>

\* A crash of a thread pthread_create started leaves it registered.
CrashThread(c, t) ==
    /\ t \in Crashes /\ At(c, t, "wasm") /\ t # THREAD_START_ID
    /\ Goto(c, t, "gone")
    /\ UNCHANGED <<treeVars, cages, waitVars, status, initiated, threads,
                   signalVars, arg, cage_count, first>>

\* The crash path of the cage's first thread: no exit_group, no kill.
Crash(c, t) ==
    /\ t \in Crashes /\ At(c, t, "wasm") /\ t = THREAD_START_ID
    /\ Record(c, "crash")
    /\ Goto(c, t, "crash")
    /\ UNCHANGED <<treeVars, cages, waitVars, initiated, threads, signalVars,
                   arg, cage_count>>


\* lind_thread_exit: an exiting main thread hands its role, and a signal not
\* yet seen, to any thread left.
HandOver(c, t) ==
    IF main[c] # t \/ threads[c] = {t} THEN UNCHANGED <<main, epoch>>
    ELSE \E u \in threads[c] \ {t} :
            /\ main' = [main EXCEPT ![c] = u]
            /\ epoch' = IF epoch[<<c, t>>] = "signal" /\ epoch[<<c, u>>] # "killed"
                        THEN [epoch EXCEPT ![<<c, u>>] = "signal"] ELSE epoch

ThreadExit(c, t) ==
    /\ At(c, t, "unwind") \/ At(c, t, "crash")
    /\ IF c \in cages
       THEN HandOver(c, t) /\ threads' = [threads EXCEPT ![c] = @ \ {t}]
       ELSE UNCHANGED <<main, epoch, threads>>
    /\ Goto(c, t, IF At(c, t, "crash") \/ (c \in cages /\ threads[c] \ {t} = {})
                  THEN "finalize" ELSE "gone")
    /\ UNCHANGED <<treeVars, cages, waitVars, status, initiated, pending, kills,
                   arg, cage_count, first>>
-----------------------------------------------------------------------------
(***************************************************************************)
(* cage_finalize.                                                          *)
(***************************************************************************)
FinLookup(c, t) ==
    /\ At(c, t, "finalize")
    /\ Goto(c, t, IF c \notin cages \/ parent[c] = c THEN "fin_remove"
                  ELSE IF parent[c] \in cages THEN "fin_dec" ELSE "fin_signal")
    /\ UNCHANGED <<treeVars, cages, waitVars, status, initiated, threads,
                   signalVars, arg, cage_count, first>>

\* Mutant: the parent's count is not decremented.
DecForgotten(c, t) ==
    /\ At(c, t, "fin_dec")
    /\ Goto(c, t, "fin_push")
    /\ UNCHANGED <<treeVars, cages, waitVars, status, initiated, threads,
                   signalVars, arg, cage_count, first>>

FinDec(c, t) ==
    /\ At(c, t, "fin_dec")
    /\ child_num' = [child_num EXCEPT ![parent[c]] = (@ + Wrap - 1) % Wrap]
    /\ Goto(c, t, "fin_push")
    /\ UNCHANGED <<treeVars, cages, zombies, status, initiated, threads,
                   signalVars, arg, cage_count, first, reaped>>

Zombie(c) == [cageid |-> c,
              exit_code |-> IF status[c] = NoStatus THEN "success" ELSE status[c]]

\* Mutant: no zombie is left.
PushForgotten(c, t) ==
    /\ At(c, t, "fin_push")
    /\ Goto(c, t, "fin_signal")
    /\ UNCHANGED <<treeVars, cages, waitVars, status, initiated, threads,
                   signalVars, arg, cage_count, first>>

FinPush(c, t) ==
    /\ At(c, t, "fin_push")
    /\ zombies' = [zombies EXCEPT ![parent[c]] = Append(@, Zombie(c))]
    /\ Goto(c, t, "fin_signal")
    /\ UNCHANGED <<treeVars, cages, child_num, status, initiated, threads,
                   signalVars, arg, cage_count, first, reaped>>

FinSignal(c, t) ==
    /\ At(c, t, "fin_signal")
    /\ Send(parent[c], "CHLD")
    /\ Goto(c, t, "fin_remove")
    /\ UNCHANGED <<treeVars, cages, waitVars, status, initiated, threads, main,
                   kills, arg, cage_count, first>>

FinRemove(c, t) ==
    /\ At(c, t, "fin_remove")
    /\ cages' = cages \ {c}
    /\ Goto(c, t, "fin_count")
    /\ UNCHANGED <<treeVars, waitVars, status, initiated, threads, signalVars,
                   arg, cage_count, first>>

\* lind_manager.decrement
FinCount(c, t) ==
    /\ At(c, t, "fin_count")
    /\ cage_count' = cage_count - 1
    /\ Goto(c, t, "gone")
    /\ UNCHANGED <<treeVars, cages, waitVars, status, initiated, threads,
                   signalVars, arg, first>>
-----------------------------------------------------------------------------
(***************************************************************************)
(* waitpid.  Each step is one critical section of the zombies lock.        *)
(***************************************************************************)
\* The positions of zombies waitpid(pid) accepts.
Matches(c, pid) ==
    {i \in 1..Len(zombies[c]) : pid = 0 \/ zombies[c][i].cageid = pid}

\* Mutant: the zombie stays on the list.
ReapKeeps(c, t, pid) ==
    \E i \in Matches(c, pid) :
        /\ \A j \in Matches(c, pid) : i <= j
        /\ reaped' = [reaped EXCEPT ![zombies[c][i].cageid] = @ + 1]
        /\ Return(c, t)
        /\ UNCHANGED zombies

\* Take the first matching zombie off the list.
Reap(c, t, pid) ==
    \E i \in Matches(c, pid) :
        /\ \A j \in Matches(c, pid) : i <= j
        /\ zombies' = [zombies EXCEPT ![c] = SubSeq(@, 1, i - 1)
                                                \o SubSeq(@, i + 1, Len(@))]
        /\ reaped' = [reaped EXCEPT ![zombies[c][i].cageid] = @ + 1]
        /\ Return(c, t)

NoChildren(c) == zombies[c] = <<>> /\ child_num[c] = 0

\* Does waitpid(pid) stop at get_cage(pid)?  0 stands for any child.
NotAChild(c, pid) == pid # 0 /\ (pid \notin cages \/ parent[pid] # c)

WaitReaps(c, t, pid) ==
    /\ At(c, t, "wasm") /\ c \in cages
    /\ ~NoChildren(c) /\ Reap(c, t, pid)
    /\ UNCHANGED <<treeVars, cages, child_num, status, initiated, threads,
                   signalVars, cage_count, first>>

WaitFails(c, t, pid) ==
    /\ At(c, t, "wasm") /\ c \in cages
    /\ NoChildren(c) \/ (Matches(c, pid) = {} /\ NotAChild(c, pid))
    /\ arg' = [arg EXCEPT ![<<c, t>>].pid = pid]
    /\ Goto(c, t, "echild")
    /\ UNCHANGED <<treeVars, cages, waitVars, status, initiated, threads,
                   signalVars, cage_count, first>>

\* WNOHANG returns 0 only when any child is waited for.
WaitBlocks(c, t, pid, nohang) ==
    /\ At(c, t, "wasm") /\ c \in cages
    /\ ~NoChildren(c) /\ Matches(c, pid) = {} /\ ~NotAChild(c, pid)
    /\ pid = 0 => ~nohang
    /\ arg' = [arg EXCEPT ![<<c, t>>].pid = pid, ![<<c, t>>].nohang = nohang]
    /\ Goto(c, t, IF pid = 0 THEN "wait_any" ELSE "wait_pid")
    /\ UNCHANGED <<treeVars, cages, waitVars, status, initiated, threads,
                   signalVars, cage_count, first>>

\* The loop: the zombies are looked at before the epoch.
WaitLoop(c, t) ==
    LET pid == arg[<<c, t>>].pid IN
    /\ At(c, t, "wait_any") \/ At(c, t, "wait_pid")
    /\ \/ Reap(c, t, pid)
       \/ /\ Matches(c, pid) = {}
          /\ ~arg[<<c, t>>].nohang /\ check_trigger(c)
          /\ Return(c, t)
          /\ UNCHANGED <<zombies, reaped>>
    /\ UNCHANGED <<treeVars, cages, child_num, status, initiated, threads,
                   signalVars, cage_count, first>>

EchildReturns(c, t) ==
    /\ At(c, t, "echild")
    /\ Return(c, t)
    /\ UNCHANGED <<treeVars, cages, waitVars, status, initiated, threads,
                   signalVars, cage_count, first>>
-----------------------------------------------------------------------------
Guest(c, t) ==
    \/ ForkCount(c, t) \/ ExitGroup(c, t) \/ ThreadReturns(c, t)
    \/ Crash(c, t) \/ CrashThread(c, t)
    \/ \E u \in Threads : Spawn(c, t, u)
    \/ \E d \in Cages : Kill(c, t, d)
    \/ \E pid \in Pids : WaitReaps(c, t, pid) \/ WaitFails(c, t, pid)
    \/ \E pid \in Pids, nohang \in Options : WaitBlocks(c, t, pid, nohang)

EpochCheck(c, t) == Killed(c, t) \/ Callback(c, t)

Host(c, t) ==
    \/ ForkAdd(c, t) \/ ForkStart(c, t) \/ Register(c, t)
    \/ EpochCheck(c, t) \/ SigTake(c, t) \/ SigCheck(c, t)
    \/ SigReset(c, t) \/ SigRun(c, t)
    \/ ExitGroupRecord(c, t) \/ ExitGroupKill(c, t) \/ ThreadExit(c, t)
    \/ FinLookup(c, t) \/ FinDec(c, t) \/ FinPush(c, t) \/ FinSignal(c, t)
    \/ FinRemove(c, t) \/ FinCount(c, t)
    \/ WaitLoop(c, t) \/ EchildReturns(c, t)

Next == \E c \in Cages, t \in Threads : Guest(c, t) \/ Host(c, t)

Spec == Init /\ [][Next]_vars

\* What cage_finalize says of its caller: "the actual last thread".  Neither the
\* crash path of a cage's first thread nor a thread that leaves while another one
\* is starting looks after it.
EndsAlone ==
    \A c \in Cages, t \in Threads :
        At(c, t, "finalize") => threads[c] = {} /\ \A u \in Threads : ~At(c, u, "starting")

\* The behaviours in which it is true.
OrderlySpec == Init /\ [][Next /\ EndsAlone']_vars

\* Threads inside the runtime keep running.  Wasm code checks its epoch at every
\* function entry and loop head, so a thread that is in Wasm again and again
\* with its epoch written gets into the callback.  Nothing makes a guest issue a
\* call.
FairSpec ==
    /\ Spec
    /\ \A c \in Cages, t \in Threads :
          WF_vars(Host(c, t)) /\ SF_vars(EpochCheck(c, t))
-----------------------------------------------------------------------------
(***************************************************************************)
(* Properties.                                                             *)
(***************************************************************************)
ZombieType == [cageid: Cages, exit_code: Statuses]

\* Every variable keeps its type.
TypeOK ==
    /\ nextId \in Cages /\ cages \subseteq 1..nextId
    /\ parent \in [Cages -> Cages]
    /\ child_num \in [Cages -> 0..(Wrap - 1)]
    /\ zombies \in [Cages -> Seq(ZombieType)]
    /\ status \in [Cages -> Statuses \cup {NoStatus}]
    /\ initiated \in [Cages -> BOOLEAN]
    /\ threads \in [Cages -> SUBSET Threads]
    /\ main \in [Cages -> Threads]
    /\ epoch \in [Thr -> {"normal", "signal", "killed"}]
    /\ pending \in [Cages -> Seq(Signals)]
    /\ pc \in [Thr -> PcSet]
    /\ arg \in [Thr -> Arg]
    /\ cage_count \in Int /\ kills \in 0..MaxKills
    /\ first \in [Cages -> Statuses \cup {NoStatus}]
    /\ reaped \in [Cages -> Nat]

Children(c) == {ch \in 1..nextId : parent[ch] = c /\ ch # c}
ZombiesOf(c, ch) == {i \in 1..Len(zombies[c]) : zombies[c][i].cageid = ch}
SomeAt(c, l) == \E t \in Threads : At(c, t, l)

\* child_num of a live cage is the number of its children that cage_finalize has
\* not yet taken off it: waitpid's ECHILD test, and so the choice between
\* failing and waiting, rests on it.
ChildNumExact ==
    \A c \in cages :
        child_num[c] =
            Cardinality({ch \in Children(c) : /\ reaped[ch] = 0
                                              /\ ZombiesOf(c, ch) = {}
                                              /\ ~SomeAt(ch, "fin_push")})

\* A child is reported to its parent at most once, as a zombie or by waitpid,
\* whichever threads of the parent wait for it at the same time.
ZombieOnce ==
    \A ch \in 2..nextId :
        Cardinality(ZombiesOf(parent[ch], ch)) + reaped[ch] <= 1

\* waitpid finds every child that it has not reaped: the child is in CAGE_MAP or
\* a zombie of its parent.  cage_finalize has to push before it removes.
UnreapedKnown ==
    \A ch \in 2..nextId :
        parent[ch] \in cages /\ reaped[ch] = 0 =>
            \/ ch \in cages
            \/ ZombiesOf(parent[ch], ch) # {}
            \/ \E t \in Threads : /\ At(parent[ch], t, "fork_add")
                                  /\ arg[<<parent[ch], t>>].pid = ch

\* The status a parent reads is the first one any thread of the child recorded.
StatusFirst ==
    \A c \in 1..nextId : \A i \in 1..Len(zombies[c]) :
        LET z == zombies[c][i] IN
        z.exit_code = IF first[z.cageid] = NoStatus THEN "success"
                                                    ELSE first[z.cageid]

\* LindCageManager.wait does not let the host process exit under a cage.
HostStays == cages # {} => cage_count > 0

\* In a cage that nothing has begun to end, a queued signal is not forgotten: the
\* main thread's epoch says so, or the main thread is in the loop that will take
\* it.  The main role and the announcement move together when a thread leaves.
NoLostSignal ==
    \A c \in cages :
        LET p == <<c, main[c]>> IN
        /\ status[c] = NoStatus
        /\ main[c] \in threads[c]
        /\ pending[c] # <<>>
        => epoch[p] = "signal" \/ pc[p] \in SigLoop

\* A thread whose epoch says "signal" has a signal to take, so a callback never
\* runs for nothing and waitpid's EINTR is never spurious.
NoSpuriousSignal ==
    \A c \in cages :
        LET p == <<c, main[c]>> IN
        /\ main[c] \in threads[c]
        /\ epoch[p] = "signal"
        => pending[c] # <<>> \/ pc[p] \in SigLoop \cup Leaving

\* What exit_group_syscall says of itself: "exit_group: terminate all threads in
\* the cage."  So the cage goes away.  The code does not keep this: a thread that
\* is starting is not in epoch_handler yet, epoch_kill_all passes it by, and it
\* keeps the cage for as long as it likes.
ExitGroupTerminates == \A c \in Cages : initiated[c] ~> c \notin cages


\* A child that someone waits for when its cage_finalize starts is reaped, unless
\* a signal takes every waiter away or the waiters' own cage is removed.
Awaited(ch) ==
    /\ ch # parent[ch]
    /\ \E t \in Threads : /\ At(parent[ch], t, "wait_pid")
                          /\ arg[<<parent[ch], t>>].pid = ch

AwaitedIsReaped ==
    \A ch \in Cages : Awaited(ch) /\ SomeAt(ch, "finalize")
                          ~> reaped[ch] > 0 \/ ~Awaited(ch) \/ parent[ch] \notin cages

\* waitpid fails with ECHILD only when no child it could wait for is left
\* unreaped.
EchildHonest ==
    \A c \in cages, t \in Threads :
        At(c, t, "wasm") /\ pc'[<<c, t>>] = "echild" =>
            \A ch \in Children(c) :
                arg'[<<c, t>>].pid \in {0, ch} => reaped[ch] > 0

EchildMeansNoChild == [][EchildHonest]_vars

\* With WNOHANG waitpid returns at once.
NoHang == \A p \in Thr : pc[p] \in {"wait_any", "wait_pid"} => ~arg[p].nohang
=============================================================================
