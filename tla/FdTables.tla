------------------------------ MODULE FdTables ------------------------------
(***************************************************************************)
(* The descriptor tables of fdtables (its default, dashmaparray) and the   *)
(* calls of RawPOSIX that change them: open, close, dup, dup2, dup3,       *)
(* fcntl, fork, exec and the end of a cage.  Cages share kernel            *)
(* descriptors after a fork; FDCOUNT counts the entries of all cages for   *)
(* each of them, and the last one to go closes it.                         *)
(*                                                                         *)
(* One action is one critical section of a row of FDTABLE, one access to   *)
(* FDCOUNT or one call to the host kernel.  All entries are of             *)
(* FDKIND_KERNEL; perfdinfo is left out, and calls that fail before they   *)
(* change anything are not shown.  A panic inside a system call, which is  *)
(* an extern "C" function, aborts the host; one in cage_finalize ends the  *)
(* thread.                                                                 *)
(***************************************************************************)
EXTENDS Integers, FiniteSets, Functions

CONSTANTS
    MaxCageId,            \* bound: the largest cage id
    Threads,              \* threads of a cage that make calls at once
    Program,              \* bound: the calls each cage makes
    Flags,                \* bound: the close-on-exec flags open and fcntl pass
    FD_PER_PROCESS_MAX,   \* descriptors of a cage
    Standard,             \* kernel descriptors of the standard streams
    MaxUnder,             \* bound: the largest kernel descriptor
    MaxOpens              \* bound: files opened

ASSUME FdAssumption ==
    /\ MaxCageId \in Nat \ {0}
    /\ FD_PER_PROCESS_MAX \in Nat \ {0} /\ MaxUnder \in Nat /\ MaxOpens \in Nat \ {0}
    /\ Standard \subseteq 0..MaxUnder /\ Standard \subseteq 0..(FD_PER_PROCESS_MAX - 1)
    /\ IsFiniteSet(Threads)
    /\ \A c \in 1..MaxCageId : c \in DOMAIN Program
    /\ Flags \subseteq BOOLEAN

VARIABLES
    nextId,    \* NEXT_CAGEID
    table,     \* FDTABLE: per cage, its open descriptors and their entries
    count,     \* FDCOUNT; 0 stands for a key that is not there
    kfile,     \* the host kernel: the file open at each descriptor, 0 for none
    opened,    \* files opened so far
    pc, call,  \* per thread: position, and the arguments and locals of its call
    aborted,   \* why the host was aborted, or "no"
    lost       \* history: kernel descriptors an open with no entry left behind

kernelVars == <<kfile, opened>>
vars == <<nextId, table, count, kfile, opened, pc, call, aborted, lost>>

Cages == 1..MaxCageId
Thr   == Cages \X Threads
Fds   == 0..(FD_PER_PROCESS_MAX - 1)
Under == 0..MaxUnder

\* What libc::dup returns when it fails, converted to a descriptor all the same.
BadFd == -1

\* file is history: the file the entry was made for.
Entry   == [under: Under \cup {BadFd}, file: 0..MaxOpens, cloexec: BOOLEAN]
NoEntry == [under |-> BadFd, file |-> 0, cloexec |-> FALSE]
Row     == UNION {[S -> Entry] : S \in SUBSET Fds}
NoRow   == [f \in {} |-> NoEntry]

\* op: the system call; e, at: the entry to add and where (or from where on, or
\* the child cage);
\* rest: entries still to be counted up or down; copy: fork's copy of the row.
Ops    == {"none", "open", "dup", "dupfd", "dup2", "dup3", "cloexec", "close",
           "fork", "exec", "exit"}
Calls  == [op: Ops, e: Entry, at: 0..FD_PER_PROCESS_MAX \cup Cages,
           rest: Row, copy: Row]
NoCall == [op |-> "none", e |-> NoEntry, at |-> 0, rest |-> NoRow, copy |-> NoRow]
PcSet  == {"idle", "kdup", "alloc", "inc", "insert", "swap_read", "swap_write",
           "dec", "last", "cloexec", "copy", "copy_end", "dead"}

Put(g, x, v)  == [y \in DOMAIN g \cup {x} |-> IF y = x THEN v ELSE g[y]]
Without(g, x) == Restrict(g, DOMAIN g \ {x})
Lowest(S)     == CHOOSE x \in S : \A y \in S : x <= y

\* The standard streams are open and are the init cage's first descriptors.
Init ==
    /\ nextId = 1
    /\ table = [c \in {1} |->
                   [f \in Standard |-> [under |-> f, file |-> 1, cloexec |-> FALSE]]]
    /\ count = [k \in Under \cup {BadFd} |-> IF k \in Standard THEN 1 ELSE 0]
    /\ kfile = [k \in Under |-> IF k \in Standard THEN 1 ELSE 0]
    /\ opened = 1
    /\ pc = [p \in Thr |-> "idle"]
    /\ call = [p \in Thr |-> NoCall]
    /\ aborted = "no"
    /\ lost = {}
-----------------------------------------------------------------------------
\* The host runs and the thread is at l.
At(c, t, l)   == aborted = "no" /\ pc[<<c, t>>] = l
Goto(c, t, l) == pc' = [pc EXCEPT ![<<c, t>>] = l]
Calling(c, t) == call[<<c, t>>]
Locals(c, t, r) == call' = [call EXCEPT ![<<c, t>>] = r]

\* The system call returns.
Finish(c, t) == Goto(c, t, "idle") /\ Locals(c, t, NoCall)

Abort(why) == aborted' = why /\ UNCHANGED <<pc, call>>

\* A panic while entries are counted down.
Panic(c, t, why) ==
    IF Calling(c, t).op = "exit" THEN Goto(c, t, "dead") /\ UNCHANGED <<call, aborted>>
                                 ELSE Abort(why)

Starts(c, t, op) ==
    At(c, t, "idle") /\ c \in DOMAIN table /\ op \in Program[c]

\* Another thread is in the loop of get_unused_virtual_fd, with the row locked
\* for writing, or of copy_fdtable_for_cage, with it locked for reading.
Locked(c, t, ops) ==
    \E u \in Threads \ {t} : /\ pc[<<c, u>>] \in {"inc", "insert"}
                             /\ call[<<c, u>>].op \in ops
Allocating == {"open", "dup", "dupfd"}
CanRead(c, t)  == ~Locked(c, t, Allocating)
CanWrite(c, t) == ~Locked(c, t, Allocating \cup {"fork"})

\* translate_virtual_fd finds an entry.
Translates(c, t, f) == CanRead(c, t) /\ f \in DOMAIN table[c]
-----------------------------------------------------------------------------
(***************************************************************************)
(* New descriptors.                                                        *)
(***************************************************************************)
\* The host kernel takes its lowest free descriptor.  Its own limit is not
\* reached (init_fd_limit raises it).
FreeUnder == {k \in Under : kfile[k] = 0}

Open(c, t, cloexec) ==
    LET k == Lowest(FreeUnder) IN
    /\ Starts(c, t, "open") /\ opened < MaxOpens /\ FreeUnder # {}
    /\ opened' = opened + 1
    /\ kfile' = [kfile EXCEPT ![k] = opened + 1]
    /\ Locals(c, t, [NoCall EXCEPT !.op = "open",
                       !.e = [under |-> k, file |-> opened + 1, cloexec |-> cloexec]])
    /\ Goto(c, t, "alloc")
    /\ UNCHANGED <<nextId, table, count, aborted, lost>>

\* dup_syscall translates and then duplicates the kernel descriptor.
Dup(c, t, f) ==
    /\ Starts(c, t, "dup") /\ Translates(c, t, f)
    /\ Locals(c, t, [NoCall EXCEPT !.op = "dup",
                       !.e = [table[c][f] EXCEPT !.cloexec = FALSE]])
    /\ Goto(c, t, "kdup")
    /\ UNCHANGED <<nextId, table, count, kernelVars, aborted, lost>>

KDup(c, t) ==
    LET k == Calling(c, t).e.under
        open == k # BadFd /\ kfile[k] # 0
        new == IF open THEN Lowest(FreeUnder) ELSE BadFd IN
    /\ At(c, t, "kdup") /\ FreeUnder # {}
    /\ kfile' = IF open THEN [kfile EXCEPT ![new] = kfile[k]] ELSE kfile
    /\ call' = [call EXCEPT ![<<c, t>>].e.under = new]
    /\ Goto(c, t, "alloc")
    /\ UNCHANGED <<nextId, table, count, opened, aborted, lost>>

\* fcntl's F_DUPFD and F_DUPFD_CLOEXEC share the kernel descriptor.
DupFd(c, t, f, from, cloexec) ==
    /\ Starts(c, t, "dupfd") /\ Translates(c, t, f)
    /\ Locals(c, t, [NoCall EXCEPT !.op = "dupfd", !.at = from,
                       !.e = [table[c][f] EXCEPT !.cloexec = cloexec]])
    /\ Goto(c, t, "alloc")
    /\ UNCHANGED <<nextId, table, count, kernelVars, aborted, lost>>

\* No descriptor is free.  open reports EMFILE and forgets the kernel
\* descriptor, fcntl fails, and dup unwraps the error.
TableFull(c, t) ==
    LET r == Calling(c, t) IN
    /\ IF r.op = "dup" THEN Abort("table_full") ELSE Finish(c, t) /\ UNCHANGED aborted
    /\ lost' = IF r.op = "open" THEN lost \cup {r.e.under} ELSE lost
    /\ UNCHANGED table

\* The descriptors the search runs over.
Free(c, at) == {f \in Fds : f >= at /\ f \notin DOMAIN table[c]}

\* get_unused_virtual_fd up to the increment, which it makes with the row locked.
Alloc(c, t) ==
    LET r == Calling(c, t)
        free == Free(c, r.at) IN
    /\ At(c, t, "alloc") /\ CanWrite(c, t)
    /\ IF free = {} THEN TableFull(c, t)
       ELSE /\ table' = [table EXCEPT ![c] = Put(@, Lowest(free), r.e)]
            /\ Locals(c, t, [r EXCEPT !.at = Lowest(free)])
            /\ Goto(c, t, "inc")
            /\ UNCHANGED <<aborted, lost>>
    /\ UNCHANGED <<nextId, count, kernelVars>>
-----------------------------------------------------------------------------
(***************************************************************************)
(* _increment_fdcount: get_mut, and insert if the key was not there.       *)
(***************************************************************************)
Counted(c, t) ==
    LET r == Calling(c, t) IN
    IF r.op = "fork" THEN r.rest[Lowest(DOMAIN r.rest)].under ELSE r.e.under

\* fork goes on to the next entry, dup2 to the row; the others return.
AfterInc(c, t) ==
    LET r == Calling(c, t)
        rest == Without(r.rest, Lowest(DOMAIN r.rest)) IN
    CASE r.op = "fork" -> /\ Locals(c, t, [r EXCEPT !.rest = rest])
                          /\ Goto(c, t, IF rest = NoRow THEN "copy_end" ELSE "inc")
      [] r.op \in {"dup2", "dup3"} -> Goto(c, t, "swap_read") /\ UNCHANGED call
      [] OTHER -> Finish(c, t)

Inc(c, t) ==
    LET k == Counted(c, t) IN
    /\ At(c, t, "inc")
    /\ IF count[k] > 0
       THEN count' = [count EXCEPT ![k] = @ + 1] /\ AfterInc(c, t)
       ELSE Goto(c, t, "insert") /\ UNCHANGED <<count, call>>
    /\ UNCHANGED <<nextId, table, kernelVars, aborted, lost>>

Insert(c, t) ==
    /\ At(c, t, "insert")
    /\ count' = [count EXCEPT ![Counted(c, t)] = 1]
    /\ AfterInc(c, t)
    /\ UNCHANGED <<nextId, table, kernelVars, aborted, lost>>
-----------------------------------------------------------------------------
(***************************************************************************)
(* dup2 and dup3: get_specific_virtual_fd.                                 *)
(***************************************************************************)
\* Mutant: the count is not taken before the old entry is replaced.
Dup2Uncounted(c, t, f, g, op) ==
    /\ Starts(c, t, op) /\ Translates(c, t, f) /\ f # g
    /\ Locals(c, t, [NoCall EXCEPT !.op = op, !.at = g,
                       !.e = [table[c][f] EXCEPT !.cloexec = FALSE]])
    /\ Goto(c, t, "swap_read")
    /\ UNCHANGED <<nextId, table, count, kernelVars, aborted, lost>>

\* dup3 stands for a dup3 with O_CLOEXEC; without it dup3 is dup2.  The bound
\* tests let the target FD_PER_PROCESS_MAX pass.
Dup2(c, t, f, g, op) ==
    /\ Starts(c, t, op) /\ Translates(c, t, f) /\ f # g
    /\ Locals(c, t, [NoCall EXCEPT !.op = op, !.at = g,
                       !.e = [table[c][f] EXCEPT !.cloexec = FALSE]])
    /\ Goto(c, t, "inc")
    /\ UNCHANGED <<nextId, table, count, kernelVars, aborted, lost>>

\* The old entry is read and the new one written under two locks.
SwapRead(c, t) ==
    LET g == Calling(c, t).at IN
    /\ At(c, t, "swap_read") /\ CanRead(c, t)
    /\ IF g \notin Fds THEN Abort("limit")
       ELSE /\ call' = [call EXCEPT ![<<c, t>>].rest =
                           Restrict(table[c], {g} \cap DOMAIN table[c])]
            /\ Goto(c, t, "swap_write")
            /\ UNCHANGED aborted
    /\ UNCHANGED <<nextId, table, count, kernelVars, lost>>

\* dup3 goes on to set_cloexec when the old entry, if any, is closed.
AfterSwap(c, t, row) ==
    LET g == Calling(c, t).at IN
    IF Calling(c, t).op = "dup3" /\ g \in DOMAIN row
    THEN /\ Locals(c, t, [NoCall EXCEPT !.op = "cloexec", !.at = g,
                                        !.e.cloexec = TRUE])
         /\ Goto(c, t, "cloexec")
    ELSE Finish(c, t)

SwapWrite(c, t) ==
    LET r == Calling(c, t) IN
    /\ At(c, t, "swap_write") /\ CanWrite(c, t)
    /\ table' = [table EXCEPT ![c] = Put(@, r.at, r.e)]
    /\ IF r.rest = NoRow THEN AfterSwap(c, t, table'[c])
                         ELSE Goto(c, t, "dec") /\ UNCHANGED call
    /\ UNCHANGED <<nextId, count, kernelVars, aborted, lost>>

\* set_cloexec, for F_SETFD and FIOCLEX: the entry is looked at, and then
\* fetched again and unwrapped.  FIOCLEX does not test the descriptor's bound.
SetCloexec(c, t, f, cloexec) ==
    /\ Starts(c, t, "cloexec") /\ CanRead(c, t)
    /\ IF f \notin Fds THEN cloexec /\ Abort("limit")
       ELSE /\ f \in DOMAIN table[c]
            /\ Locals(c, t, [NoCall EXCEPT !.op = "cloexec", !.at = f,
                                           !.e.cloexec = cloexec])
            /\ Goto(c, t, "cloexec")
            /\ UNCHANGED aborted
    /\ UNCHANGED <<nextId, table, count, kernelVars, lost>>

CloexecWrite(c, t) ==
    LET r == Calling(c, t) IN
    /\ At(c, t, "cloexec") /\ CanWrite(c, t)
    /\ IF r.at \in DOMAIN table[c]
       THEN /\ table' = [table EXCEPT ![c][r.at].cloexec = r.e.cloexec]
            /\ Finish(c, t) /\ UNCHANGED aborted
       ELSE Abort("cloexec") /\ UNCHANGED table
    /\ UNCHANGED <<nextId, count, kernelVars, lost>>
-----------------------------------------------------------------------------
(***************************************************************************)
(* Closing: close, exec, the end of a cage, and the old entry of dup2.     *)
(***************************************************************************)
\* Entries leave the row first and are counted down afterwards.
CloseAll(c, t, op, row) ==
    IF row = NoRow THEN UNCHANGED <<pc, call>>
    ELSE /\ Locals(c, t, [NoCall EXCEPT !.op = op, !.rest = row])
         /\ Goto(c, t, "dec")

Close(c, t, f) ==
    /\ Starts(c, t, "close") /\ CanWrite(c, t) /\ f \in DOMAIN table[c]
    /\ table' = [table EXCEPT ![c] = Without(@, f)]
    /\ CloseAll(c, t, "close", Restrict(table[c], {f}))
    /\ UNCHANGED <<nextId, count, kernelVars, aborted, lost>>

\* empty_fds_for_exec
Exec(c, t) ==
    LET flagged == {f \in DOMAIN table[c] : table[c][f].cloexec} IN
    /\ Starts(c, t, "exec") /\ CanWrite(c, t) /\ flagged # {}
    /\ table' = [table EXCEPT ![c] = Restrict(@, DOMAIN @ \ flagged)]
    /\ CloseAll(c, t, "exec", Restrict(table[c], flagged))
    /\ UNCHANGED <<nextId, count, kernelVars, aborted, lost>>

\* remove_cage_from_fdtable, called by cage_finalize in the cage's last thread.
Exit(c, t) ==
    /\ Starts(c, t, "exit") /\ \A u \in Threads : At(c, u, "idle")
    /\ table' = Restrict(table, DOMAIN table \ {c})
    /\ CloseAll(c, t, "exit", table[c])
    /\ UNCHANGED <<nextId, count, kernelVars, aborted, lost>>

AfterDec(c, t) ==
    LET r == Calling(c, t)
        rest == Without(r.rest, Lowest(DOMAIN r.rest)) IN
    IF rest # NoRow
    THEN Locals(c, t, [r EXCEPT !.rest = rest]) /\ Goto(c, t, "dec")
    ELSE AfterSwap(c, t, table[c])

\* Mutants: the last handler runs one entry too early, or never.
IsLastEarly(k) == count[k] <= 2
IsLastNever(k) == count[k] = 0

\* _decrement_fdcount: was this the last entry?
IsLast(k) == count[k] = 1

Dec(c, t) ==
    LET rest == Calling(c, t).rest
        k == rest[Lowest(DOMAIN rest)].under IN
    /\ At(c, t, "dec")
    /\ IF count[k] = 0 THEN Panic(c, t, "count") /\ UNCHANGED count
       ELSE /\ count' = [count EXCEPT ![k] = @ - 1]
            /\ IF IsLast(k) THEN Goto(c, t, "last") /\ UNCHANGED call
                            ELSE AfterDec(c, t)
            /\ UNCHANGED aborted
    /\ UNCHANGED <<nextId, table, kernelVars, lost>>

\* kernel_close leaves the standard streams alone.
Kept(k) == k \in Standard

\* The close handler.  Its error is returned by close; the others unwrap it.
Last(c, t) ==
    LET rest == Calling(c, t).rest
        k == rest[Lowest(DOMAIN rest)].under
        fails == ~Kept(k) /\ (k = BadFd \/ kfile[k] = 0) IN
    /\ At(c, t, "last")
    /\ IF fails /\ Calling(c, t).op # "close" THEN Panic(c, t, "close")
                                              ELSE AfterDec(c, t) /\ UNCHANGED aborted
    /\ kfile' = IF Kept(k) \/ fails THEN kfile ELSE [kfile EXCEPT ![k] = 0]
    /\ UNCHANGED <<nextId, table, count, opened, lost>>
-----------------------------------------------------------------------------
(***************************************************************************)
(* fork: copy_fdtable_for_cage.                                            *)
(***************************************************************************)
\* The row is copied, and then fetched again to count its entries.
Fork(c, t) ==
    /\ Starts(c, t, "fork") /\ CanRead(c, t) /\ nextId < MaxCageId
    /\ nextId' = nextId + 1
    /\ Locals(c, t, [NoCall EXCEPT !.op = "fork", !.at = nextId + 1,
                                   !.copy = table[c]])
    /\ Goto(c, t, "copy")
    /\ UNCHANGED <<table, count, kernelVars, aborted, lost>>

\* Mutant: the copied entries are not counted.
CopyUncounted(c, t) ==
    /\ At(c, t, "copy")
    /\ Goto(c, t, "copy_end")
    /\ UNCHANGED <<nextId, table, count, kernelVars, call, aborted, lost>>

Copy(c, t) ==
    /\ At(c, t, "copy") /\ CanRead(c, t)
    /\ call' = [call EXCEPT ![<<c, t>>].rest = table[c]]
    /\ Goto(c, t, IF table[c] = NoRow THEN "copy_end" ELSE "inc")
    /\ UNCHANGED <<nextId, table, count, kernelVars, aborted, lost>>

CopyEnd(c, t) ==
    /\ At(c, t, "copy_end")
    /\ table' = Put(table, Calling(c, t).at, Calling(c, t).copy)
    /\ Finish(c, t)
    /\ UNCHANGED <<nextId, count, kernelVars, aborted, lost>>
-----------------------------------------------------------------------------
Step(c, t) ==
    \/ \E b \in Flags : Open(c, t, b)
    \/ \E f \in Fds : Dup(c, t, f) \/ Close(c, t, f)
    \/ \E f \in Fds, g \in 0..FD_PER_PROCESS_MAX, b \in Flags : DupFd(c, t, f, g, b)
    \/ \E f \in Fds, g \in 0..FD_PER_PROCESS_MAX, op \in {"dup2", "dup3"} :
          Dup2(c, t, f, g, op)
    \/ \E f \in 0..FD_PER_PROCESS_MAX, b \in BOOLEAN : SetCloexec(c, t, f, b)
    \/ Fork(c, t) \/ Exec(c, t) \/ Exit(c, t)
    \/ KDup(c, t) \/ Alloc(c, t) \/ Inc(c, t) \/ Insert(c, t)
    \/ SwapRead(c, t) \/ SwapWrite(c, t) \/ CloexecWrite(c, t)
    \/ Dec(c, t) \/ Last(c, t) \/ Copy(c, t) \/ CopyEnd(c, t)

Next == \E c \in Cages, t \in Threads : Step(c, t)

Spec == Init /\ [][Next]_vars
-----------------------------------------------------------------------------
(***************************************************************************)
(* Properties.                                                             *)
(***************************************************************************)
\* Every variable keeps its type.
TypeOK ==
    /\ nextId \in Cages
    /\ DOMAIN table \subseteq 1..nextId /\ \A c \in DOMAIN table : table[c] \in Row
    /\ count \in [Under \cup {BadFd} -> Nat]
    /\ kfile \in [Under -> 0..MaxOpens] /\ opened \in 1..MaxOpens
    /\ pc \in [Thr -> PcSet] /\ call \in [Thr -> Calls]
    /\ aborted \in {"no", "table_full", "limit", "cloexec", "count", "close"}
    /\ lost \subseteq Under

Quiet == aborted = "no" /\ \A p \in Thr : pc[p] = "idle"

Entries(k) ==
    {x \in Cages \X Fds : /\ x[1] \in DOMAIN table
                       /\ x[2] \in DOMAIN table[x[1]]
                       /\ table[x[1]][x[2]].under = k}

\* FDCOUNT is, for every kernel descriptor, the number of times it appears in
\* the tables of all cages, whenever no call is in progress.
CountExact ==
    Quiet => \A k \in Under \cup {BadFd} : count[k] = Cardinality(Entries(k))

\* A descriptor refers to the file it was made for: its kernel descriptor has
\* not been closed under it, by another cage for instance, and reused.
SameFile ==
    aborted = "no" =>
        \A c \in DOMAIN table : \A f \in DOMAIN table[c] :
            LET e == table[c][f] IN e.under # BadFd /\ kfile[e.under] = e.file

\* With one call at a time in a cage, a kernel descriptor no cage refers to is
\* closed, unless an open that found the table full left it behind.  Two
\* threads of a cage also leak one between the two locks of dup2.
NoLeak ==
    Quiet => \A k \in Under \ (Standard \cup lost) :
                kfile[k] # 0 => Entries(k) # {}

\* With one call at a time in a cage, the panics of _decrement_fdcount, and
\* those on a failing close handler, are never reached.  A close by a second
\* thread of a cage that forks reaches them.
CountNeverMissing ==
    aborted \notin {"count", "close"} /\ \A p \in Thr : pc[p] # "dead"
=============================================================================
