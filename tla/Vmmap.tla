------------------------------- MODULE Vmmap -------------------------------
(***************************************************************************)
(* The memory map of a cage: the interval map of Vmmap, the system calls   *)
(* that change it (mmap, munmap, mprotect, brk) and the host's own page    *)
(* table, which they have to keep in step with it.                         *)
(*                                                                         *)
(* The map stores a record under an interval of pages.  The record repeats *)
(* the interval in page_num and npages, and an insertion that cuts an      *)
(* older interval keeps the old record: its fields then say more than its  *)
(* interval.  Some functions go by the interval, others by the fields.     *)
(*                                                                         *)
(* munmap and change_prot hold the write lock from end to end; mmap, brk   *)
(* and mprotect call the host outside of it and are several steps.         *)
(***************************************************************************)
EXTENDS Integers, FiniteSets

CONSTANTS
    EndPage,       \* bound: pages 0..EndPage-1 (end_address, DEFAULT_VMMAP_SIZE)
    HeapStart,     \* heap_start: pages below are the image's data and stack
    Threads,
    Mappers,       \* threads that call mmap and brk ...
    Users,         \* ... and munmap and mprotect
    MaxPages,      \* bound: pages of one request
    Prots,         \* bound: protections asked for, subsets of {"r", "w"}
    Checks,        \* bound: buffers the host checks: <<page, pages, access>>
    Fails,         \* calls whose host call may fail; bound: one failure left unrepaired
    Disciplined    \* the program keeps off its own pages, holes and ranges in use

ASSUME VmmapAssumption ==
    /\ EndPage \in Nat /\ HeapStart \in 1..(EndPage - 1) /\ MaxPages \in Nat \ {0}
    /\ Mappers \cup Users = Threads /\ Prots \subseteq SUBSET {"r", "w"}
    /\ Checks \subseteq (0..(EndPage - 1)) \X (1..MaxPages) \X SUBSET {"r", "w"}
    /\ Fails \subseteq {"mmap", "brk", "munmap"} /\ Disciplined \in BOOLEAN

VARIABLES
    entries,       \* intervals lo..hi with their records
    cached,        \* cached_entry: a set of at most one record
    host,          \* the host's protection of every page
    job,           \* per thread: the call it is in
    torn           \* history: pages on which a failed call left map and host apart

vars == <<entries, cached, host, job, torn>>

Pages  == 0..(EndPage - 1)
RW     == {"r", "w"}
Record == [page_num: Pages, npages: 1..EndPage, prot: SUBSET RW]
Entry  == [lo: Pages, hi: Pages, page_num: Pages, npages: 1..EndPage, prot: SUBSET RW]
Idle   == [op |-> "none", lo |-> 0, n |-> 0, prot |-> {}]
Ops    == {"none", "found", "fixed", "add", "protect", "grow", "shrink", "abort"}
Job    == [op: Ops, lo: 0..EndPage, n: 0..EndPage, prot: SUBSET RW]

TypeOK ==
    /\ entries \subseteq Entry
    /\ cached \subseteq Record /\ Cardinality(cached) <= 1
    /\ host \in [Pages -> SUBSET RW]
    /\ job \in [Threads -> Job]
    /\ torn \subseteq Pages
-----------------------------------------------------------------------------
(***************************************************************************)
(* The interval map.                                                       *)
(***************************************************************************)
Span(lo, n) == lo..(lo + n - 1)
Cover(e)    == e.lo..e.hi
Fields(e)   == Span(e.page_num, e.npages)
Mapped(E)   == UNION {Cover(e) : e \in E}
New(lo, n, prot) == [lo |-> lo, hi |-> lo + n - 1, page_num |-> lo, npages |-> n, prot |-> prot]
Overlapping(E, S) == {e \in E : Cover(e) \cap S # {}}

\* What is left of e outside of lo..hi, with e's record.
Cut(e, lo, hi) == {r \in {[e EXCEPT !.hi = lo - 1], [e EXCEPT !.lo = hi + 1]} :
                     r.lo <= r.hi /\ Cover(r) \subseteq Cover(e)}

\* remove_entry and add_entry_with_overwrite: nothing happens for 0 pages.
remove_entry(E, lo, n) ==
    IF n = 0 THEN E
    ELSE LET S == Overlapping(E, Span(lo, n))
         IN  (E \ S) \cup UNION {Cut(e, lo, lo + n - 1) : e \in S}

add_entry_with_overwrite(E, lo, n, prot) ==
    IF n = 0 THEN E ELSE remove_entry(E, lo, n) \cup {New(lo, n, prot)}

\* Mutant: the part behind the changed range is lost.
ChangeProtLosesTail(E, lo, n, prot) ==
    LET S == {e \in Overlapping(E, Span(lo, n)) : e.prot # prot}
        Inside(e) == LET P == Cover(e) \cap Span(lo, n)
                         a == CHOOSE p \in P : \A q \in P : p <= q
                     IN  New(a, Cardinality(P), prot)
        Before(e) == IF e.lo < lo THEN {New(e.lo, lo - e.lo, e.prot)} ELSE {}
    IN  (E \ S) \cup UNION {{Inside(e)} \cup Before(e) : e \in S}

\* change_prot: an entry of another protection is split in up to three, with new
\* records; one that has the protection already is left as it is.
change_prot(E, lo, n, prot) ==
    LET S == {e \in Overlapping(E, Span(lo, n)) : e.prot # prot}
        Inside(e) == LET P == Cover(e) \cap Span(lo, n)
                         a == CHOOSE p \in P : \A q \in P : p <= q
                     IN  New(a, Cardinality(P), prot)
        Before(e) == IF e.lo < lo THEN {New(e.lo, lo - e.lo, e.prot)} ELSE {}
        After(e)  == IF lo + n <= e.hi THEN {New(lo + n, e.hi - (lo + n) + 1, e.prot)} ELSE {}
    IN  (E \ S) \cup UNION {{Inside(e)} \cup Before(e) \cup After(e) : e \in S}

\* A loop over the entries of E in the order of the iterator, which is that of the
\* pages they start at: done[p] is its state after those that start before p.
InOrder(Step(_, _), start, E) ==
    LET done[p \in 0..EndPage] ==
            IF p = 0 THEN start
            ELSE IF \E e \in E : e.lo = p - 1
                 THEN Step(done[p - 1], CHOOSE e \in E : e.lo = p - 1)
                 ELSE done[p - 1]
    IN  done[EndPage]

\* Any protection lets read.
Allows(have, want) == want \subseteq (IF have = {} THEN {} ELSE have \cup {"r"})

\* Mutant: the loop does not move on to the next region.
ScanStepStays(a, e, end, want) ==
    LET last == e.page_num + e.npages
        ok   == Allows(e.prot, want)
        rec  == [page_num |-> e.page_num, npages |-> e.npages, prot |-> e.prot]
    IN
    IF a.res # "go" THEN a
    ELSE IF e.page_num <= a.cur /\ end <= last
         THEN [a EXCEPT !.hit = {rec}, !.res = IF ok THEN "yes" ELSE "go"]
    ELSE IF e.page_num <= a.cur /\ a.cur < last
         THEN IF ok THEN a ELSE [a EXCEPT !.res = "no"]
    ELSE IF a.cur < e.page_num THEN [a EXCEPT !.res = "no"]
    ELSE a

\* One turn of check_addr_mapping's loop: current_page, the verdict so far and the
\* record to remember.
ScanStep(a, e, end, want) ==
    LET last == e.page_num + e.npages
        ok   == Allows(e.prot, want)
        rec  == [page_num |-> e.page_num, npages |-> e.npages, prot |-> e.prot]
    IN
    IF a.res # "go" THEN a
    ELSE IF e.page_num <= a.cur /\ end <= last
         THEN [a EXCEPT !.hit = {rec}, !.res = IF ok THEN "yes" ELSE "go"]
    ELSE IF e.page_num <= a.cur /\ a.cur < last
         THEN IF ok THEN [a EXCEPT !.cur = last] ELSE [a EXCEPT !.res = "no"]
    ELSE IF a.cur < e.page_num THEN [a EXCEPT !.res = "no"]
    ELSE a

Scan(E, lo, n, want) ==
    InOrder(LAMBDA a, e : ScanStep(a, e, lo + n, want), [cur |-> lo, res |-> "go", hit |-> {}],
            Overlapping(E, Span(lo, n)))

\* The cached record answers first, if the range is within its fields.
CacheHit(c, lo, n, want) ==
    \E r \in c : /\ r.page_num <= lo /\ lo + n <= r.page_num + r.npages
                 /\ Allows(r.prot, want)

check_addr_mapping(E, c, lo, n, want) ==
    CacheHit(c, lo, n, want) \/ Scan(E, lo, n, want).res = "yes"

\* check_existing_mapping, as brk uses it, with no protection asked for.
check_existing_mapping(E, lo, n) ==
    InOrder(LAMBDA a, e :
                LET last == e.page_num + e.npages IN
                IF a.res # "go" THEN a
                ELSE IF e.page_num <= a.cur /\ lo + n <= last THEN [a EXCEPT !.res = "yes"]
                ELSE LET b == IF e.page_num <= a.cur /\ a.cur < last
                              THEN [a EXCEPT !.cur = last] ELSE a
                     IN  IF b.cur < e.page_num THEN [b EXCEPT !.res = "no"] ELSE b,
             [cur |-> lo, res |-> "go"], Overlapping(E, Span(lo, n))).res = "yes"

\* The gaps of first..EndPage-1, as <<first page, last page>>.
Gaps(E, first) ==
    LET free == (first..(EndPage - 1)) \ Mapped(E)
    IN  {g \in free \X free : /\ g[1] <= g[2] /\ (g[1]..g[2]) \subseteq free
                              /\ (g[1] - 1) \notin free /\ (g[2] + 1) \notin free}

\* Mutant: a gap of just n pages is taken to be large enough.
FindTight(E, first, n) ==
    {g[2] - n : g \in {g \in Gaps(E, first) :
         g[2] - g[1] >= n - 1 /\ \A f \in Gaps(E, first) : f[2] - f[1] >= n - 1 => g[1] <= f[1]}}

\* find_map_space and find_map_space_with_hint: the first gap that is large enough,
\* its end without the last page.
find_map_space(E, first, n) ==
    {g[2] - n : g \in {g \in Gaps(E, first) :
         g[2] - g[1] >= n /\ \A f \in Gaps(E, first) : f[2] - f[1] >= n => g[1] <= f[1]}}
-----------------------------------------------------------------------------
(***************************************************************************)
(* The system calls.                                                       *)
(***************************************************************************)
\* The image's data and stack are mapped before the program runs.
Init ==
    /\ entries = {New(0, HeapStart, RW)}
    /\ cached = {}
    /\ host = [p \in Pages |-> IF p < HeapStart THEN RW ELSE {}]
    /\ job = [t \in Threads |-> Idle]
    /\ torn = {}

Protect(S, prot) == [p \in Pages |-> IF p \in S THEN prot ELSE host[p]]
Flight(t) == Span(job[t].lo, job[t].n)
OwnPages == (0..HeapStart) \cup UNION {Cover(e) : e \in Overlapping(entries, {HeapStart})}
Undisturbed(t, S) == \A u \in Threads \ {t} : S \cap Flight(u) = {}

\* What a careful program asks for: it replaces neither its image nor its heap.
MayReplace(t, S) == Disciplined => S \cap OwnPages = {} /\ Undisturbed(t, S)
MayProtect(t, S) == Disciplined => S \subseteq Mapped(entries) /\ Undisturbed(t, S)
MayBreak(t, S)   == Disciplined => Undisturbed(t, S \cup OwnPages)

Start(t, op, lo, n, prot) ==
    job' = [job EXCEPT ![t] = [op |-> op, lo |-> lo, n |-> n, prot |-> prot]]
Done(t) == job' = [job EXCEPT ![t] = Idle]

\* mmap without MAP_FIXED: the space is found under the lock, which is released.
MmapFind(t, first, n, prot) ==
    /\ job[t] = Idle
    /\ \E lo \in find_map_space(entries, first, n) : Start(t, "found", lo, n, prot)
    /\ UNCHANGED <<entries, cached, host, torn>>

MmapFixed(t, lo, n, prot) ==
    /\ job[t] = Idle /\ MayReplace(t, Span(lo, n))
    /\ Start(t, "fixed", lo, n, prot)
    /\ UNCHANGED <<entries, cached, host, torn>>

MmapHost(t) ==
    /\ job[t].op \in {"found", "fixed"}
    /\ host' = Protect(Flight(t), job[t].prot)
    /\ job' = [job EXCEPT ![t].op = "add"]
    /\ UNCHANGED <<entries, cached, torn>>

MmapAdd(t) ==
    /\ job[t].op = "add"
    /\ entries' = add_entry_with_overwrite(entries, job[t].lo, job[t].n, job[t].prot)
    /\ torn' = torn \ Flight(t)
    /\ Done(t)
    /\ UNCHANGED <<cached, host>>

MmapFails(t) ==
    /\ "mmap" \in Fails /\ job[t].op \in {"found", "fixed"}
    /\ Done(t)
    /\ UNCHANGED <<entries, cached, host, torn>>

\* munmap: the mapped parts of the range become PROT_NONE, all under the lock.
\* A host call that fails ends it with the parts before done and the map as it was.
Munmap(t, lo, n) ==
    LET S == Span(lo, n) \cap Mapped(entries) IN
    /\ job[t] = Idle /\ MayReplace(t, Span(lo, n))
    /\ \/ /\ host' = Protect(S, {})
          /\ entries' = remove_entry(entries, lo, n)
          /\ torn' = torn \ S
       \/ /\ "munmap" \in Fails /\ torn = {}
          /\ \E e \in Overlapping(entries, S) :
                LET done == {p \in S : p < e.lo}
                IN  host' = Protect(done, {}) /\ torn' = done
          /\ UNCHANGED entries
    /\ UNCHANGED <<cached, job>>

\* mprotect: the host first, then the map.
MprotectHost(t, lo, n, prot) ==
    /\ job[t] = Idle /\ MayProtect(t, Span(lo, n))
    /\ host' = Protect(Span(lo, n), prot)
    /\ Start(t, "protect", lo, n, prot)
    /\ UNCHANGED <<entries, cached, torn>>

MprotectMap(t) ==
    /\ job[t].op = "protect"
    /\ entries' = change_prot(entries, job[t].lo, job[t].n, job[t].prot)
    /\ torn' = torn \ Flight(t)
    /\ Done(t)
    /\ UNCHANGED <<cached, host>>

\* The heap's entry, or an empty one.
HeapEntry ==
    LET S == Overlapping(entries, {HeapStart})
    IN  IF S = {} THEN [page_num |-> HeapStart, npages |-> 0, prot |-> RW]
        ELSE LET e == CHOOSE x \in S : TRUE
             IN  [page_num |-> e.page_num, npages |-> e.npages, prot |-> e.prot]

\* Growing is refused if the new pages are all mapped.  EndPage stands for every break
\* past the 32-bit space: an address of 2 GB and more is one, sign-extended on its way
\* through an i32.  Pages out there never are mapped.
BreakAllowed(b, old) ==
    /\ b >= HeapStart
    /\ ~(old < b /\ b < EndPage /\ check_existing_mapping(entries, old, b - old))

\* brk: the map first, under the lock.  The heap's record is asserted to start at
\* heap_start: if it does not, the panic takes the host down.  That the ends of the
\* heap fit in 32 bits is checked when the map has been changed already: ENOMEM, and
\* the host is not called.
BrkMap(t, brk_page) ==
    LET old == HeapEntry.page_num + HeapEntry.npages
        lo  == IF brk_page > old THEN old ELSE brk_page
        n   == IF brk_page > old THEN brk_page - old ELSE old - brk_page
    IN
    /\ job[t] = Idle
    /\ IF HeapEntry.page_num # HeapStart
       THEN /\ job' = [u \in Threads |-> [job[u] EXCEPT !.op = "abort"]]
            /\ UNCHANGED <<entries, torn>>
       ELSE /\ BreakAllowed(brk_page, old) /\ MayBreak(t, Span(lo, n))
            /\ entries' = add_entry_with_overwrite(
                              remove_entry(entries, HeapStart, HeapEntry.npages),
                              HeapStart, brk_page - HeapStart, HeapEntry.prot)
            /\ IF n = 0 \/ old = EndPage \/ brk_page = EndPage
               THEN torn' = torn \cup Span(lo, n) /\ UNCHANGED job
               ELSE /\ Start(t, IF brk_page > old THEN "grow" ELSE "shrink", lo, n,
                             IF brk_page > old THEN HeapEntry.prot ELSE {})
                    /\ UNCHANGED torn
    /\ UNCHANGED <<cached, host>>

\* brk: then the host.
BrkHost(t) ==
    /\ job[t].op \in {"grow", "shrink"}
    /\ host' = Protect(Flight(t), job[t].prot)
    /\ torn' = torn \ Flight(t)
    /\ Done(t)
    /\ UNCHANGED <<entries, cached>>

BrkFails(t) ==
    /\ "brk" \in Fails /\ torn = {} /\ job[t].op \in {"grow", "shrink"}
    /\ torn' = Flight(t)
    /\ Done(t)
    /\ UNCHANGED <<entries, cached, host>>

\* A buffer is checked before the host uses it: the entry that holds all that is
\* left of the range is remembered.
Check(lo, n, want) ==
    /\ \A t \in Threads : job[t].op # "abort"
    /\ ~CacheHit(cached, lo, n, want)
    /\ LET hit == Scan(entries, lo, n, want).hit
       IN  /\ hit # {} /\ cached' = hit
    /\ UNCHANGED <<entries, host, job, torn>>
-----------------------------------------------------------------------------
Ranges == {r \in Pages \X (1..MaxPages) : r[1] + r[2] <= EndPage}

Next ==
    \/ \E t \in Mappers :
         \/ \E first \in Pages, n \in 1..MaxPages, prot \in Prots : MmapFind(t, first, n, prot)
         \/ \E r \in Ranges, prot \in Prots : MmapFixed(t, r[1], r[2], prot)
         \/ MmapHost(t) \/ MmapAdd(t) \/ MmapFails(t)
         \/ \E b \in 0..EndPage : BrkMap(t, b)
         \/ BrkHost(t) \/ BrkFails(t)
    \/ \E t \in Users :
         \/ \E r \in Ranges : Munmap(t, r[1], r[2])
         \/ \E r \in Ranges, prot \in Prots : MprotectHost(t, r[1], r[2], prot)
         \/ MprotectMap(t)
    \/ \E b \in Checks : Check(b[1], b[2], b[3])

Spec == Init /\ [][Next]_vars
-----------------------------------------------------------------------------
(***************************************************************************)
(* fork_vmmap, on private regions: the child's pages and what has been     *)
(* copied, entry by entry and by the records' fields, from pages that are  *)
(* all PROT_NONE.  process_vm_writev stops at the first page the host may  *)
(* not read, and its short count is accepted; if that is the first page it *)
(* fails, and the memcpy that takes its place faults the host.             *)
(***************************************************************************)
\* Mutant: a region that cannot be written is taken for one that cannot be read.
ForkSkipsReadOnly(c, e) ==
    LET holes == {p \in Fields(e) : host[p] = {}} IN
    IF c.fault \/ "w" \notin e.prot THEN c
    ELSE IF e.page_num \in holes THEN [c EXCEPT !.fault = TRUE]
    ELSE [c EXCEPT !.prot = [p \in Pages |-> IF p \in Fields(e) THEN e.prot ELSE @[p]],
                   !.data = @ \cup {p \in Fields(e) : \A q \in holes : p < q}]

ForkEntry(c, e) ==
    LET holes == {p \in Fields(e) : host[p] = {}} IN
    IF c.fault \/ e.prot = {} THEN c
    ELSE IF e.page_num \in holes THEN [c EXCEPT !.fault = TRUE]
    ELSE [c EXCEPT !.prot = [p \in Pages |-> IF p \in Fields(e) THEN e.prot ELSE @[p]],
                   !.data = @ \cup {p \in Fields(e) : \A q \in holes : p < q}]

fork_vmmap(E) ==
    InOrder(LAMBDA c, e : ForkEntry(c, e),
            [prot |-> [p \in Pages |-> {}], data |-> {}, fault |-> FALSE], E)
-----------------------------------------------------------------------------
(***************************************************************************)
(* Properties.                                                             *)
(***************************************************************************)
ProtOf(p) == UNION {e.prot : e \in Overlapping(entries, {p})}

\* The map and the host agree: whatever mmap, munmap, mprotect and brk have done to
\* parts of regions, every page that no call is working on and no failed call has
\* left behind has the protection the interval map gives it, and none where it has
\* no entry.
HostAgrees ==
    \A p \in Pages \ (torn \cup UNION {Flight(t) : t \in Threads}) : host[p] = ProtOf(p)

\* No brk takes the host down: however regions are mapped, cut, unmapped and protected
\* beside the heap, and whoever maps, the record found at heap_start is the heap's own
\* and starts there, so that the assertion in brk_syscall holds.
BrkNeverAborts == \A t \in Threads : job[t].op # "abort"

\* No EFAULT for good memory: a buffer whose pages all have an entry that lets the
\* access passes check_addr_mapping, however many entries it spans and however
\* their records disagree with their intervals.
CheckComplete ==
    \A r \in Ranges : \A want \in (SUBSET RW) \ {{}} :
        (\A p \in Span(r[1], r[2]) : Allows(ProtOf(p), want)) =>
            check_addr_mapping(entries, cached, r[1], r[2], want)

\* What fork_vmmap gives the child of a map that has been cut in any way: it fails
\* only over a record that starts on a page without access; otherwise every page the
\* parent may touch is accessible, and its contents are copied unless the page's own
\* record names one without access before it.
ForkCopies ==
    LET c == fork_vmmap(entries) IN
    /\ c.fault => \E e \in entries : e.prot # {} /\ host[e.page_num] = {}
    /\ ~c.fault => \A e \in {x \in entries : x.prot # {}} : \A p \in Cover(e) :
                      /\ c.prot[p] # {}
                      /\ (\A q \in e.page_num..p : host[q] # {}) => p \in c.data

\* What check_and_convert_addr_ext says of itself: "Validating all pages in the
\* region are mapped with correct permissions".  Refuted, with one thread.
CheckSound ==
    \A r \in Ranges : \A want \in (SUBSET RW) \ {{}} :
        check_addr_mapping(entries, cached, r[1], r[2], want) =>
            \A p \in Span(r[1], r[2]) : Allows(ProtOf(p), want)

\* The space that mmap has found is still free when the host maps it with MAP_FIXED,
\* although the lock was released.  Refuted by two mapping threads.
FoundIsFree ==
    \A t \in Threads :
        job[t].op = "found" =>
            /\ Flight(t) \cap Mapped(entries) = {}
            /\ \A p \in Flight(t) \ torn : host[p] = {}

\* A forked child can read every page its parent may touch, with its contents.
\* Refuted: munmap of the head of a region faults the host, of its middle loses the
\* contents of the tail.
ForkReaches ==
    LET c == fork_vmmap(entries)
    IN  ~c.fault /\ \A p \in Mapped(entries) : ProtOf(p) # {} => c.prot[p] # {} /\ p \in c.data

\* What fork_vmmap's comment says: both start with identical mappings.  Refuted.
ForkAgrees == \A p \in Pages : fork_vmmap(entries).prot[p] = ProtOf(p)
=============================================================================
