---------------------------- MODULE LibInterpose ----------------------------
(***************************************************************************)
(* Library calls interposed by grates: the table of library handlers, the  *)
(* choice instance_dylink makes for every symbol of an image, the function *)
(* table and GOT.func cells beside it, the portal through which an         *)
(* interposed call reaches a grate, and the relay of errno between the     *)
(* caller's cage and the grate.                                            *)
(*                                                                         *)
(* An instance is one Wasm instance with its host thread: the image a cage *)
(* was started with, a forked child's, or a new thread's.  Each is linked  *)
(* on its own and keeps what it was linked to.  A call that is dispatched  *)
(* to a grate runs the grate's handler on the caller's host thread, so an  *)
(* instance has a stack of frames; the two errno slots of threei are       *)
(* thread-locals of that host thread.                                      *)
(*                                                                         *)
(* view is what errno would read if the library had been called directly:  *)
(* a handler starts with its caller's errno and leaves its own behind.  It *)
(* is None while nothing can be said: the callee ran in a grate that other *)
(* calls were in, or the slot holds a value of an earlier dispatch that    *)
(* the portal takes for the callee's.                                      *)
(***************************************************************************)
EXTENDS Integers, Sequences, FiniteSets, Functions

CONSTANTS
    Instances,    \* bound: 1..n; 1 is the image the system starts with
    Cages,        \* bound: cage ids of clients: 1..n
    Grates,
    Syms,         \* the exported functions of the libraries and the program
    Lib, Place,   \* a symbol's module in load order, its place among all exports
    BadSig,       \* symbols whose signature the transport cannot carry
    Glue,         \* symbols is_lind_runtime_glue exempts
    Interposed,   \* --preload NAME=PATH:interposed
    Wants,        \* registrations <<cage, symbol, grate>> in the order they are made
    Stacked,      \* <<g, h>>: the handlers of g call the library through h
    SysUses,      \* <<x, g>>: system calls of clients or of grate x are dispatched to g
    HasErrno,     \* cages and grates that expose __errno_location
    Mortal,       \* grates that may exit
    Traps,        \* grates whose handlers may trap
    MaxErrno,     \* bound: errno values 0..MaxErrno
    MaxDepth      \* bound: frames of an instance

ASSUME LibAssumption ==
    /\ IsFiniteSet(Instances) /\ Instances # {} /\ Instances = 1..Cardinality(Instances)
    /\ IsFiniteSet(Syms) /\ Syms # {} /\ Lib \in [Syms -> Nat]
    /\ Place \in [Syms -> 1..Cardinality(Syms)]
    /\ \A s, t \in Syms : (Place[s] = Place[t] => s = t) /\ (Lib[s] < Lib[t] => Place[s] < Place[t])
    /\ Grates \cap {"client", "bad", "trap", "local", "none"} = {}
    /\ IsFiniteSet(Cages) /\ Cages # {} /\ Cages = 1..Cardinality(Cages)
    /\ BadSig \subseteq Syms /\ Glue \subseteq Syms
    /\ Wants \in Seq(Cages \X Syms \X Grates)
    /\ Stacked \subseteq Grates \X Grates
    /\ SysUses \subseteq (Grates \cup {"client"}) \X Grates /\ Mortal \subseteq Grates /\ Traps \subseteq Grates
    /\ HasErrno \subseteq {"client"} \cup Grates
    /\ Interposed \in BOOLEAN
    /\ MaxErrno \in Nat /\ MaxDepth \in Nat \ {0}

VARIABLES
    table, made,         \* LIB_HANDLER_TABLE: <<cage, symbol, grate>>; registrations made
    home, link,          \* per instance: its cage, what its symbols are linked to
    grown, got,          \* symbols whose portal has a slot in its function table; its GOT.func
    stack,               \* per instance: frames, the innermost last
    errno, gerrno,       \* errno of each instance's own code, of each grate
    seed, last,          \* NEXT_GRATE_ERRNO_SEED, LAST_GRATE_ERRNO of the thread
    shared,              \* (history) the calls that are in the grate now overlap
    inflight, is_dead, removed     \* of each grate's cage

vars == <<table, made, home, link, grown, got, stack, errno, gerrno, seed, last, shared,
          inflight, is_dead, removed>>
linkVars  == <<table, made, home, link, grown, got>>
grateVars == <<inflight, is_dead, removed>>
errnoVars == <<errno, gerrno, seed, last, shared>>

None   == -1
Errnos == 0..MaxErrno
NoCage == 0
Linked == Grates \cup {"bad", "trap", "local", "none"}

Steps == {"body", "enter", "check", "wait", "run", "leave", "after"}
Frame == [at: Grates \cup {"client"}, step: Steps, kind: {"lib", "sys", "none"},
          g: Grates \cup {"none"}, view: Errnos \cup {None}]
NewFrame(at, v) == [at |-> at, step |-> "body", kind |-> "none", g |-> "none", view |-> v]

TypeOK ==
    /\ table \subseteq Range(Wants) /\ made \in 0..Len(Wants)
    /\ home \in [Instances -> Cages \cup {NoCage}]
    /\ link \in [Instances -> [Syms -> Linked]]
    /\ grown \in [Instances -> SUBSET Syms] /\ got \in [Instances -> [Syms -> Nat]]
    /\ stack \in [Instances -> Seq(Frame)]
    /\ \A i \in Instances : Len(stack[i]) <= MaxDepth
    /\ errno \in [Instances -> Errnos] /\ gerrno \in [Grates -> Errnos]
    /\ seed \in [Instances -> Errnos \cup {None}]
    /\ last \in [Instances -> Errnos \cup {None}]
    /\ shared \in [Grates -> BOOLEAN]
    /\ inflight \in [Grates -> 0..Cardinality(Instances) * MaxDepth]
    /\ is_dead \in [Grates -> BOOLEAN] /\ removed \in [Grates -> BOOLEAN]
-----------------------------------------------------------------------------
(***************************************************************************)
(* Registration and linking.                                               *)
(***************************************************************************)
\* The handler registered last for a symbol of a cage; it replaces the earlier one.
get_lib_handler(c, s) == {w[3] : w \in {x \in table : x[1] = c /\ x[2] = s}}

\* instance_dylink: a registered handler makes the symbol a portal, or one that
\* traps when called if its signature cannot be transported.  Without a handler a
\* library preloaded as interposed traps, and any other is linked directly.
instance_dylink(c, force) ==
    [s \in Syms |->
        IF get_lib_handler(c, s) # {}
        THEN IF s \in BadSig THEN "bad" ELSE CHOOSE g \in Grates : g \in get_lib_handler(c, s)
        ELSE IF force /\ s \notin Glue THEN "trap" ELSE "local"]

Unlinked == [s \in Syms |-> "none"]

\* The symbols instance_dylink gives a table slot besides: those that become portals.
\* It does so only where the GOT is passed to it.
Portals(c) == {s \in Syms \ BadSig : get_lib_handler(c, s) # {}}

\* The function table of an instance in which the portals P have slots: each module's
\* exports are appended in turn, and then that module's portals.
OwnSlot(P, s) == Place[s] + Cardinality({p \in P : Lib[p] < Lib[s]})
PortalSlot(P, s) ==
    Cardinality({t \in Syms : Lib[t] <= Lib[s]}) + Cardinality({p \in P : Place[p] <= Place[s]})

\* The first value a GOT cell gets stays.
cache_symbol(cell, index) == IF cell = 0 THEN index ELSE cell

\* The cells of an image.  Relocation enters a library's own functions
\* (apply_GOT_relocs) and then instance_dylink offers its portals.
FillGOT(P) ==
    [s \in Syms |->
        LET own == cache_symbol(0, OwnSlot(P, s)) IN
        IF s \in P THEN cache_symbol(own, PortalSlot(P, s)) ELSE own]

\* What an index denotes in the table of instance i; nothing: a null entry or none.
Denotes(i, n) ==
    {<<"own", s>> : s \in {t \in Syms : OwnSlot(grown[i], t) = n}}
        \cup {<<"portal", s>> : s \in {t \in grown[i] : PortalSlot(grown[i], t) = n}}

Init ==
    /\ table = {} /\ made = 0
    /\ home = [i \in Instances |-> IF i = 1 THEN 1 ELSE NoCage]
    /\ link = [i \in Instances |-> Unlinked]
    /\ grown = [i \in Instances |-> {}] /\ got = [i \in Instances |-> [s \in Syms |-> 0]]
    /\ stack = [i \in Instances |-> <<>>]
    /\ errno = [i \in Instances |-> 0] /\ gerrno = [g \in Grates |-> 0]
    /\ seed = [i \in Instances |-> None] /\ last = [i \in Instances |-> None]
    /\ shared = [g \in Grates |-> FALSE]
    /\ inflight = [g \in Grates |-> 0]
    /\ is_dead = [g \in Grates |-> FALSE] /\ removed = [g \in Grates |-> FALSE]

\* register_lib_handler, at any time, for a cage that may not exist yet.
Register ==
    /\ made < Len(Wants) /\ made' = made + 1
    /\ LET w == Wants[made'] IN
       table' = {x \in table : <<x[1], x[2]>> # <<w[1], w[2]>>} \cup {w}
    /\ UNCHANGED <<home, link, grown, got, stack, grateVars, errnoVars>>

\* execute_wasmtime: preloaded libraries are linked with the command line's mode.
\* exec does this again, when the image is the only one of its cage.
Exec(i) ==
    /\ home[i] # NoCage /\ (link[i] = Unlinked \/ (Len(stack[i]) = 1 /\ stack[i][1].step = "body"))
    /\ \A j \in Instances \ {i} : home[j] # home[i]
    /\ link' = [link EXCEPT ![i] = instance_dylink(home[i], Interposed)]
    /\ grown' = [grown EXCEPT ![i] = Portals(home[i])]
    /\ got' = [got EXCEPT ![i] = FillGOT(Portals(home[i]))]
    /\ stack' = [stack EXCEPT ![i] = <<NewFrame("client", errno[i])>>]
    /\ UNCHANGED <<table, made, home, grateVars, errnoVars>>

\* The frame of the code that instance i runs now.
Depth(i) == Len(stack[i])
Top(i)   == stack[i][Depth(i)]
AtStep(i, l) == Depth(i) > 0 /\ Top(i).step = l
InClient(i) == Depth(i) = 1 /\ Top(i).step = "body"

\* A new instance in cage c: linked afresh, against the handlers registered by now,
\* without the interposed mode and without the GOT, whose cells are its creator's.
Start(i, j, c) ==
    /\ InClient(i) /\ j \in Instances /\ home[j] = NoCage
    /\ \A k \in 1..(j - 1) : home[k] # NoCage
    /\ home' = [home EXCEPT ![j] = c]
    /\ link' = [link EXCEPT ![j] = instance_dylink(c, FALSE)]
    /\ grown' = [grown EXCEPT ![j] = {}]
    /\ got' = [got EXCEPT ![j] = got[i]]
    /\ stack' = [stack EXCEPT ![j] = <<NewFrame("client", errno[i])>>]
    /\ errno' = [errno EXCEPT ![j] = errno[i]]
    /\ UNCHANGED <<table, made, grateVars, gerrno, seed, last, shared>>

CreateThread(i, j) == Start(i, j, home[i])
Fork(i, j) == \E c \in Cages : (\A k \in Instances : home[k] < c) /\ Start(i, j, c)
-----------------------------------------------------------------------------
(***************************************************************************)
(* A call through a portal, and a system call dispatched to a grate.       *)
(***************************************************************************)
Exposes(i) == Top(i).at \in HasErrno
Errno(i)   == IF Top(i).at = "client" THEN errno[i] ELSE gerrno[Top(i).at]
SetErrno(i, v) ==
    IF Top(i).at = "client" THEN errno' = [errno EXCEPT ![i] = v] /\ UNCHANGED gerrno
    ELSE gerrno' = [gerrno EXCEPT ![Top(i).at] = v] /\ UNCHANGED errno

\* The innermost frame moves to another step.
ToStep(i, l) == stack' = [stack EXCEPT ![i][Depth(i)].step = l]

\* The code of the innermost frame sets errno.
WriteErrno(i, v) ==
    /\ AtStep(i, "body")
    /\ SetErrno(i, v)
    /\ stack' = [stack EXCEPT ![i][Depth(i)].view = v]
    /\ UNCHANGED <<linkVars, grateVars, seed, last, shared>>

\* Where a library call of the innermost frame goes.
Portal(i, g) ==
    IF Top(i).at = "client" THEN \E s \in Syms : link[i][s] = g
    ELSE <<Top(i).at, g>> \in Stacked

\* The portal offers the caller's errno as the grate's.
LibCall(i, g) ==
    /\ AtStep(i, "body") /\ Depth(i) < MaxDepth /\ Portal(i, g)
    /\ stack' = [stack EXCEPT ![i][Depth(i)] = [@ EXCEPT !.step = "enter", !.kind = "lib", !.g = g]]
    /\ seed' = IF Exposes(i) THEN [seed EXCEPT ![i] = Errno(i)] ELSE seed
    /\ UNCHANGED <<linkVars, grateVars, errno, gerrno, last, shared>>

\* make_syscall's dispatch, of a client's call or a handler's, has neither seed nor relay.
SysCall(i, g) ==
    /\ AtStep(i, "body") /\ Depth(i) < MaxDepth /\ <<Top(i).at, g>> \in SysUses
    /\ stack' = [stack EXCEPT ![i][Depth(i)] = [@ EXCEPT !.step = "enter", !.kind = "sys", !.g = g]]
    /\ UNCHANGED <<linkVars, grateVars, errnoVars>>

\* A symbol linked to a trap ends the instance and its host thread.
TrapCall(i) ==
    /\ InClient(i) /\ \E s \in Syms : link[i][s] \in {"bad", "trap"}
    /\ stack' = [stack EXCEPT ![i] = <<>>]
    /\ errno' = [errno EXCEPT ![i] = 0]
    /\ seed' = [seed EXCEPT ![i] = None] /\ last' = [last EXCEPT ![i] = None]
    /\ UNCHANGED <<linkVars, grateVars, gerrno, shared>>

\* What frame c of instance i will read after a call that wrote nothing to the slot:
\* its errno is as it was, unless the slot still holds another dispatch's value.
Unrelayed(i, c) == IF c.kind = "lib" /\ last[i] # None THEN None ELSE c.view

\* dispatch_lib_call returns ESRCH without having run the handler.
Rejected(i) ==
    stack' = [stack EXCEPT ![i][Depth(i)] =
                 [@ EXCEPT !.step = "after", !.view = Unrelayed(i, Top(i))]]

\* Mutant: the call is not counted.
EnterUncounted(i) ==
    LET g == Top(i).g IN
    /\ AtStep(i, "enter")
    /\ IF removed[g] THEN Rejected(i) ELSE ToStep(i, "check")
    /\ UNCHANGED <<linkVars, grateVars, errnoVars>>

\* The grate is counted as in use if its cage is still there (ThreeI has the
\* window between the two) ...
Enter(i) ==
    LET g == Top(i).g IN
    /\ AtStep(i, "enter")
    /\ IF removed[g] THEN Rejected(i) /\ UNCHANGED inflight
       ELSE ToStep(i, "check") /\ inflight' = [inflight EXCEPT ![g] = @ + 1]
    /\ UNCHANGED <<linkVars, is_dead, removed, errnoVars>>

\* Mutant: the count is not taken back.
CheckKeeps(i) ==
    /\ AtStep(i, "check")
    /\ IF is_dead[Top(i).g] THEN Rejected(i) ELSE ToStep(i, "wait")
    /\ UNCHANGED <<linkVars, grateVars, errnoVars>>

\* ... and given back at once if the cage has begun to exit.
Check(i) ==
    LET g == Top(i).g IN
    /\ AtStep(i, "check")
    /\ IF is_dead[g] THEN Rejected(i) /\ inflight' = [inflight EXCEPT ![g] = @ - 1]
       ELSE ToStep(i, "wait") /\ UNCHANGED inflight
    /\ UNCHANGED <<linkVars, is_dead, removed, errnoVars>>

Busy(g) == \E j \in Instances : \E d \in 1..Len(stack[j]) : stack[j][d].at = g

\* Something is claimed of the errno that the innermost code reads.
Claims(i) == Exposes(i) /\ (Top(i).at = "client" \/ ~shared[Top(i).at])

\* GrateWorker::run up to the handler: the errno slot of an earlier call is
\* cleared and the seed becomes the worker's errno.  The workers of a grate share
\* its memory, and the word that __errno_location names.
Run(i) ==
    LET g  == Top(i).g
        to == IF seed[i] # None /\ g \in HasErrno THEN seed[i] ELSE gerrno[g]
    IN
    /\ AtStep(i, "wait")
    /\ last' = [last EXCEPT ![i] = None]
    /\ seed' = [seed EXCEPT ![i] = None]
    /\ gerrno' = [gerrno EXCEPT ![g] = to]
    /\ stack' = [stack EXCEPT ![i] =
          Append([@ EXCEPT ![Depth(i)].step = "run"],
                 NewFrame(g, IF Top(i).kind = "lib" /\ Claims(i) /\ g \in HasErrno
                             THEN Top(i).view ELSE to))]
    /\ shared' = [shared EXCEPT ![g] = Busy(g)]
    /\ UNCHANGED <<linkVars, grateVars, errno>>

\* The handler returns: the worker's errno goes to the slot.  view: what the
\* caller should read from now on.
HandlerReturns(i) ==
    LET d == Depth(i)
        g == Top(i).at
    IN
    /\ AtStep(i, "body") /\ d > 1
    /\ last' = IF g \in HasErrno THEN [last EXCEPT ![i] = gerrno[g]] ELSE last
    /\ stack' = [stack EXCEPT ![i] =
          LET c == stack[i][d - 1] IN
          Append(SubSeq(@, 1, d - 2),
                 [c EXCEPT !.step = "leave",
                           !.view = IF c.kind # "lib" \/ g \notin HasErrno THEN Unrelayed(i, c)
                                    ELSE IF shared[g] THEN None ELSE Top(i).view])]
    /\ UNCHANGED <<linkVars, grateVars, errno, gerrno, seed, shared>>

\* The handler traps: GrateWorker::run ends before the slot is written, and the
\* caller gets GRATE_ERR.
HandlerTraps(i) ==
    LET d == Depth(i) IN
    /\ AtStep(i, "body") /\ d > 1 /\ Top(i).at \in Traps
    /\ stack' = [stack EXCEPT ![i] =
          LET c == stack[i][d - 1] IN
          Append(SubSeq(@, 1, d - 2), [c EXCEPT !.step = "leave", !.view = Unrelayed(i, c)])]
    /\ UNCHANGED <<linkVars, grateVars, errnoVars>>

\* The grate is no longer in use.
Leave(i) ==
    /\ AtStep(i, "leave")
    /\ inflight' = [inflight EXCEPT ![Top(i).g] = @ - 1]
    /\ ToStep(i, "after")
    /\ UNCHANGED <<linkVars, is_dead, removed, errnoVars>>

\* Mutant: the relay is left out.
AfterForgotten(i) ==
    /\ AtStep(i, "after")
    /\ stack' = [stack EXCEPT ![i][Depth(i)] = NewFrame(@.at, IF @.view = None THEN Errno(i) ELSE @.view)]
    /\ UNCHANGED <<linkVars, grateVars, errnoVars>>

\* The portal takes the slot and, if there is something in it, makes it the
\* caller's errno.  make_syscall leaves the slot alone.
After(i) ==
    LET relay == Top(i).kind = "lib" /\ last[i] # None /\ Exposes(i)
        reads == IF relay THEN last[i] ELSE Errno(i)
    IN
    /\ AtStep(i, "after")
    /\ stack' = [stack EXCEPT ![i][Depth(i)] = NewFrame(@.at, IF @.view = None THEN reads ELSE @.view)]
    /\ IF relay THEN SetErrno(i, reads) ELSE UNCHANGED <<errno, gerrno>>
    /\ last' = IF Top(i).kind = "lib" THEN [last EXCEPT ![i] = None] ELSE last
    /\ UNCHANGED <<linkVars, grateVars, seed, shared>>
-----------------------------------------------------------------------------
(***************************************************************************)
(* A grate exits: cage_finalize waits until nobody is in it.               *)
(***************************************************************************)
Die(g) ==
    /\ g \in Mortal /\ ~is_dead[g]
    /\ is_dead' = [is_dead EXCEPT ![g] = TRUE]
    /\ UNCHANGED <<linkVars, stack, inflight, removed, errnoVars>>

Remove(g) ==
    /\ is_dead[g] /\ ~removed[g] /\ inflight[g] = 0
    /\ removed' = [removed EXCEPT ![g] = TRUE]
    /\ UNCHANGED <<linkVars, stack, inflight, is_dead, errnoVars>>
-----------------------------------------------------------------------------
\* A call in progress goes on; a handler returns in the end.
CallStep(i) ==
    Enter(i) \/ Check(i) \/ Run(i) \/ HandlerReturns(i) \/ HandlerTraps(i) \/ Leave(i) \/ After(i)

Next ==
    \/ Register
    \/ \E i \in Instances :
         \/ Exec(i) \/ TrapCall(i) \/ CallStep(i)
         \/ \E j \in Instances : CreateThread(i, j) \/ Fork(i, j)
         \/ \E v \in Errnos : WriteErrno(i, v)
         \/ \E g \in Grates : LibCall(i, g) \/ SysCall(i, g)
    \/ \E g \in Grates : Die(g) \/ Remove(g)

Spec == Init /\ [][Next]_vars
-----------------------------------------------------------------------------
(***************************************************************************)
(* Properties.                                                             *)
(***************************************************************************)
\* An interposed program reads the errno it would read without interposition: in a
\* client, and in a handler that has its grate to itself, errno is what that code and
\* the library functions it called have left there, through any nesting of portals and
\* of dispatched system calls.  (Not where view is None.)
ErrnoAsNative ==
    \A i \in Instances :
        AtStep(i, "body") /\ Claims(i) => Errno(i) = Top(i).view

\* A handler, a nested one too, runs only in a grate whose cage is still there: the
\* count dispatch_lib_call took holds cage_finalize back until the call has left.
HandlerHasCage ==
    \A i \in Instances : \A d \in 1..Len(stack[i]) :
        stack[i][d].at # "client" => ~removed[stack[i][d].at]

\* What is counted in grate_inflight is the calls between Enter and Leave; a
\* rejected call leaves nothing behind, so an exiting grate is not held up by it.
InflightExact ==
    \A g \in Grates :
        inflight[g] = Cardinality({p \in Instances \X (1..MaxDepth) :
                         /\ p[2] <= Len(stack[p[1]])
                         /\ stack[p[1]][p[2]].g = g
                         /\ stack[p[1]][p[2]].step \in {"check", "wait", "run", "leave"}})

\* What the comment on the table slot of a portal says: calls through GOT.func hit the
\* portal rather than the library's own function.
GotHitsPortal ==
    \A i \in Instances : \A s \in grown[i] : Denotes(i, got[i][s]) = {<<"portal", s>>}

\* What the comment on the copied globals says: a thread or a forked child has a
\* consistent view of the symbols' addresses; a function pointer denotes its function.
PointersDenote ==
    \A i \in Instances : \A s \in Syms :
        link[i] # Unlinked => Denotes(i, got[i][s]) \in {{<<"own", s>>}, {<<"portal", s>>}}

\* What the comment of copy_lib_handler_table_to_cage says of fork: the child has
\* its parent's handlers.
ForkInherits ==
    [][\A i, j \in Instances : \A s \in Syms :
          Fork(i, j) /\ link[i][s] \in Grates => link'[j][s] \in Grates]_vars
=============================================================================
