---------------------------- MODULE VmmapProofs ----------------------------
(***************************************************************************)
(* Proofs about Vmmap, for any address space and any failures of the host: *)
(* for any program (AnyInv), for a careful one (HeapInv), and for a        *)
(* careful one of which one thread maps (Inv).                             *)
(***************************************************************************)
EXTENDS Vmmap, FiniteSetTheorems, WellFoundedInduction, TLAPS

\* The hypothesis of HostAgrees: the program is a careful one, and one of its threads
\* at most calls mmap and brk.  Nothing in the code enforces either, and two threads
\* can be given the same space (fs_calls.rs:896).
OneMapper == Disciplined /\ \A t, u \in Mappers : t = u

\* The interval map: no two intervals share a page.
Shape(E) ==
    /\ E \subseteq Entry
    /\ \A e \in E : e.lo <= e.hi
    /\ \A d, e \in E : Cover(d) \cap Cover(e) # {} => d = e

\* The protection an interval map gives a page.
ProtAt(E, p) == UNION {e.prot : e \in Overlapping(E, {p})}

\* Page p is as it was.
SamePage(E, F, p) == (p \in Mapped(F) <=> p \in Mapped(E)) /\ ProtAt(F, p) = ProtAt(E, p)

\* Only a cut entry's fields disagree with its interval, and nothing cuts the heap.
HeapFields ==
    \A e \in entries : HeapStart \in Cover(e) =>
        e.page_num = e.lo /\ e.npages = e.hi - e.lo + 1

MapperOps == {"found", "fixed", "add", "grow", "shrink"}
Mapping   == {"found", "fixed", "add"}

JobsTyped ==
    \A t \in Threads :
        /\ job[t].op # "abort"
        /\ job[t].op = "none" => job[t] = Idle
        /\ job[t].op # "none" => job[t].n >= 1 /\ job[t].lo + job[t].n <= EndPage
        /\ job[t].op \in MapperOps => t \in Mappers

\* No two calls work on the same page.
JobsApart == \A t, u \in Threads : t # u => Flight(t) \cap Flight(u) = {}

\* mmap keeps off the heap's entry.
HeapSpared ==
    \A t \in Threads : job[t].op \in Mapping =>
        \A e \in entries : HeapStart \in Cover(e) => Cover(e) \cap Flight(t) = {}

\* What a call knows of its pages between its steps: what it has done to the host, or
\* to the map, is still there, and until mmap has called the host nothing has changed.
HostDone(t) ==
    job[t].op \in {"add", "protect"} => \A p \in Flight(t) : host[p] = job[t].prot
MapDone(t) ==
    job[t].op \in {"grow", "shrink"} => \A p \in Flight(t) : ProtAt(entries, p) = job[t].prot
Untouched(t) ==
    job[t].op \in {"found", "fixed"} => \A p \in Flight(t) \ torn : host[p] = ProtAt(entries, p)
FoundUnmapped(t) == job[t].op = "found" => Flight(t) \cap Mapped(entries) = {}
ProtectMapped(t) == job[t].op = "protect" => Flight(t) \subseteq Mapped(entries)

CallOK(t) == /\ HostDone(t) /\ MapDone(t) /\ Untouched(t)
             /\ FoundUnmapped(t) /\ ProtectMapped(t)

\* The types of what the argument uses: cached is left out.
Typed ==
    /\ host \in [Pages -> SUBSET RW] /\ job \in [Threads -> Job] /\ torn \subseteq Pages

MapInv == Shape(entries) /\ HeapFields
JobInv == JobsTyped /\ JobsApart /\ HeapSpared /\ \A t \in Threads : CallOK(t)
Inv    == Typed /\ MapInv /\ JobInv /\ HostAgrees
-----------------------------------------------------------------------------
(***************************************************************************)
(* The interval map's operations, page by page.                            *)
(***************************************************************************)
LEMMA PageBounds ==
    /\ EndPage \in Nat /\ HeapStart \in Int /\ 1 <= HeapStart /\ HeapStart < EndPage
    /\ HeapStart \in Pages
  BY VmmapAssumption DEF Pages

LEMMA EntryBounds ==
    ASSUME NEW e \in Entry
    PROVE  /\ e.lo \in Int /\ e.hi \in Int /\ 0 <= e.lo /\ e.hi < EndPage /\ Cover(e) \subseteq Pages
           /\ \A p : p \in Cover(e) <=> p \in Int /\ e.lo <= p /\ p <= e.hi
  BY PageBounds DEF Entry, Pages, Cover

\* A page has the protection of the one entry that covers it.
LEMMA ProtOfEntry ==
    ASSUME NEW E, Shape(E), NEW e \in E, NEW p \in Cover(e)
    PROVE  p \in Mapped(E) /\ ProtAt(E, p) = e.prot
  <1>1. Overlapping(E, {p}) = {e}
    BY DEF Overlapping, Shape
  <1>2. UNION {d.prot : d \in {e}} = e.prot
    OBVIOUS
  <1>3. p \in Mapped(E)
    BY DEF Mapped
  <1> QED
    BY <1>1, <1>2, <1>3 DEF ProtAt

LEMMA ProtOfHole ==
    ASSUME NEW E, NEW p, p \notin Mapped(E)
    PROVE  ProtAt(E, p) = {}
  BY DEF ProtAt, Mapped, Overlapping

LEMMA MappedCovered ==
    ASSUME NEW E, NEW p
    PROVE  p \in Mapped(E) <=> \E e \in E : p \in Cover(e)
  BY DEF Mapped

\* What is left of an entry keeps its protection, stays within it and off the range.
LEMMA CutFacts ==
    ASSUME NEW e \in Entry, NEW lo \in Int, NEW hi \in Int, lo <= hi,
           Cover(e) \cap (lo..hi) # {}
    PROVE  /\ \A r \in Cut(e, lo, hi) : /\ r \in Entry /\ r.lo <= r.hi /\ r.prot = e.prot
                                        /\ Cover(r) \subseteq Cover(e) /\ Cover(r) \cap (lo..hi) = {}
           /\ \A p \in Cover(e) \ (lo..hi) : \E r \in Cut(e, lo, hi) : p \in Cover(r)
           /\ \A q, r \in Cut(e, lo, hi) : Cover(q) \cap Cover(r) # {} => q = r
  <1> DEFINE a == [e EXCEPT !.hi = lo - 1]
             b == [e EXCEPT !.lo = hi + 1]
  <1>1. e.lo \in Int /\ e.hi \in Int /\ 0 <= e.lo /\ e.hi < EndPage
    BY EntryBounds
  <1>2. PICK x \in Int : e.lo <= x /\ x <= e.hi /\ lo <= x /\ x <= hi
    BY EntryBounds
  <1>3. a.lo = e.lo /\ a.hi = lo - 1 /\ b.lo = hi + 1 /\ b.hi = e.hi /\ a.prot = e.prot /\ b.prot = e.prot
    BY DEF Entry
  <1>9. /\ Cover(a) = e.lo..(lo - 1) /\ Cover(b) = (hi + 1)..e.hi /\ Cover(e) = e.lo..e.hi
        /\ Cover(a) \subseteq Cover(e) /\ Cover(b) \subseteq Cover(e)
    BY <1>1, <1>2, <1>3 DEF Cover
  <1>4. \A r : r \in Cut(e, lo, hi) <=> r \in {a, b} /\ r.lo <= r.hi /\ Cover(r) \subseteq Cover(e)
    BY DEF Cut
  <1>5. a \in Cut(e, lo, hi) <=> e.lo <= lo - 1
    BY <1>9, <1>4, <1>3, Zenon
  <1>6. b \in Cut(e, lo, hi) <=> hi + 1 <= e.hi
    BY <1>9, <1>4, <1>3, Zenon
  <1>7. a \in Cut(e, lo, hi) => a \in Entry
    BY <1>1, <1>2, <1>5, PageBounds DEF Entry, Pages
  <1>8. b \in Cut(e, lo, hi) => b \in Entry
    BY <1>1, <1>2, <1>6, PageBounds DEF Entry, Pages
  <1> HIDE DEF a, b
  <1>10. ASSUME NEW r \in Cut(e, lo, hi)
         PROVE  /\ r \in Entry /\ r.lo <= r.hi /\ r.prot = e.prot
                /\ Cover(r) \subseteq Cover(e) /\ Cover(r) \cap (lo..hi) = {}
    <2>1. CASE r = a
      BY <2>1, <1>1, <1>2, <1>3, <1>5, <1>7, <1>9
    <2>2. CASE r = b
      BY <2>2, <1>1, <1>2, <1>3, <1>6, <1>8, <1>9
    <2> QED
      BY <2>1, <2>2, <1>4
  <1>11. ASSUME NEW p \in Cover(e) \ (lo..hi) PROVE \E r \in Cut(e, lo, hi) : p \in Cover(r)
    BY <1>1, <1>5, <1>6, <1>9
  <1>12. ASSUME NEW q \in Cut(e, lo, hi), NEW r \in Cut(e, lo, hi), Cover(q) \cap Cover(r) # {}
         PROVE  q = r
    <2>1. Cover(a) \cap Cover(b) = {}
      BY <1>1, <1>9
    <2> QED
      BY <2>1, <1>4, <1>12
  <1> QED
    BY <1>10, <1>11, <1>12

\* A page is as it was if what covers it now lies in what covered it.
LEMMA SamePageIf ==
    ASSUME NEW E, NEW F, Shape(E), Shape(F), NEW p,
           \A r \in F : p \in Cover(r) => \E e \in E : p \in Cover(e) /\ e.prot = r.prot,
           \A e \in E : p \in Cover(e) => \E r \in F : p \in Cover(r)
    PROVE  SamePage(E, F, p)
  <1>1. p \in Mapped(F) <=> p \in Mapped(E)
    BY DEF Mapped
  <1>2. ProtAt(F, p) = ProtAt(E, p)
    <2>1. CASE p \in Mapped(F)
      <3>1. PICK r \in F : p \in Cover(r)
        BY <2>1 DEF Mapped
      <3>2. PICK e \in E : p \in Cover(e) /\ e.prot = r.prot
        BY <3>1
      <3> QED
        BY <3>1, <3>2, ProtOfEntry
    <2>2. CASE p \notin Mapped(F)
      BY <1>1, <2>2, ProtOfHole
    <2> QED
      BY <2>1, <2>2
  <1> QED
    BY <1>1, <1>2 DEF SamePage

\* Entry r lies in an entry of E: in one of those that meet S, or it is one of them.
Within(E, r, S) ==
    \E e \in E : /\ Cover(r) \subseteq Cover(e) /\ r.prot = e.prot
                 /\ r = e \/ Cover(e) \cap S # {}

LEMMA RemoveFacts ==
    ASSUME NEW E, Shape(E), NEW lo \in Int, NEW n \in Nat, n >= 1
    PROVE  LET F == remove_entry(E, lo, n)
               S == Span(lo, n) IN
           /\ Shape(F)
           /\ \A p \in S : p \notin Mapped(F)
           /\ \A p : p \notin S => SamePage(E, F, p)
           /\ \A r \in F : Within(E, r, S) /\ Cover(r) \cap S = {}
  <1> DEFINE S == Span(lo, n)
             F == remove_entry(E, lo, n)
             hi == lo + n - 1
  <1>0. hi \in Int /\ lo <= hi /\ S = lo..hi /\ E \subseteq Entry
    BY DEF Span, Shape
  <1>1. F = (E \ Overlapping(E, S)) \cup UNION {Cut(e, lo, hi) : e \in Overlapping(E, S)}
    BY DEF remove_entry
  <1>2. Overlapping(E, S) = {e \in E : Cover(e) \cap S # {}}
    BY DEF Overlapping
  <1> HIDE DEF S, F, hi
  <1>3. ASSUME NEW r \in F
        PROVE  \/ r \in E /\ Cover(r) \cap S = {}
               \/ \E e \in E : Cover(e) \cap S # {} /\ r \in Cut(e, lo, hi)
    BY <1>1, <1>2
  <1>4. ASSUME NEW e \in E, Cover(e) \cap S # {}
        PROVE  /\ Cut(e, lo, hi) \subseteq F
               /\ \A r \in Cut(e, lo, hi) : /\ r \in Entry /\ r.lo <= r.hi /\ r.prot = e.prot
                                            /\ Cover(r) \subseteq Cover(e) /\ Cover(r) \cap S = {}
               /\ \A p \in Cover(e) \ S : \E r \in Cut(e, lo, hi) : p \in Cover(r)
               /\ \A q, r \in Cut(e, lo, hi) : Cover(q) \cap Cover(r) # {} => q = r
    <2>1. Cut(e, lo, hi) \subseteq F
      BY <1>1, <1>2, <1>4
    <2>2. e \in Entry
      BY <1>0
    <2> QED
      BY <2>1, <2>2, <1>0, <1>4, CutFacts
  <1>5. ASSUME NEW r \in F
        PROVE  r \in Entry /\ r.lo <= r.hi /\ Within(E, r, S) /\ Cover(r) \cap S = {}
    <2>1. CASE r \in E /\ Cover(r) \cap S = {}
      BY <2>1, <1>0 DEF Shape, Within
    <2>2. CASE \E e \in E : Cover(e) \cap S # {} /\ r \in Cut(e, lo, hi)
      <3>1. PICK e \in E : Cover(e) \cap S # {} /\ r \in Cut(e, lo, hi)
        BY <2>2
      <3> QED
        BY <3>1, <1>4 DEF Within
    <2> QED
      BY <1>3, <2>1, <2>2
  <1>6. ASSUME NEW q \in F, NEW r \in F, Cover(q) \cap Cover(r) # {} PROVE q = r
    <2> DEFINE Piece(x, e) == IF Cover(e) \cap S = {} THEN x = e ELSE x \in Cut(e, lo, hi)
    <2>0. ASSUME NEW x \in F PROVE \E e \in E : Cover(x) \subseteq Cover(e) /\ Piece(x, e)
      <3>1. CASE x \in E /\ Cover(x) \cap S = {}
        BY <3>1
      <3>2. CASE \E e \in E : Cover(e) \cap S # {} /\ x \in Cut(e, lo, hi)
        BY <3>2, <1>4
      <3> QED
        BY <3>1, <3>2, <1>3
    <2>1. PICK d \in E : Cover(q) \subseteq Cover(d) /\ Piece(q, d)
      BY <2>0
    <2>2. PICK e \in E : Cover(r) \subseteq Cover(e) /\ Piece(r, e)
      BY <2>0
    <2>3. Cover(d) \cap Cover(e) # {}
      BY <1>6, <2>1, <2>2
    <2>4. d = e
      BY <2>3 DEF Shape
    <2> QED
      BY <1>4, <1>6, <2>1, <2>2, <2>4
  <1>7. Shape(F)
    BY <1>5, <1>6 DEF Shape
  <1>8. ASSUME NEW p, p \notin S PROVE SamePage(E, F, p)
    <2>1. \A r \in F : p \in Cover(r) => \E e \in E : p \in Cover(e) /\ e.prot = r.prot
      BY <1>5 DEF Within
    <2>2. ASSUME NEW e \in E, p \in Cover(e) PROVE \E r \in F : p \in Cover(r)
      <3>1. CASE Cover(e) \cap S = {}
        BY <1>1, <1>2, <2>2, <3>1
      <3>2. CASE Cover(e) \cap S # {}
        BY <1>4, <1>8, <2>2, <3>2
      <3> QED
        BY <3>1, <3>2
    <2> QED
      BY <1>7, <2>1, <2>2, SamePageIf
  <1>9. \A p \in S : p \notin Mapped(F)
    BY <1>5 DEF Mapped
  <1> QED
    BY <1>5, <1>7, <1>8, <1>9 DEF S, F

LEMMA NewFacts ==
    ASSUME NEW lo \in Pages, NEW n \in Nat, n >= 1, lo + n <= EndPage, NEW prot \in SUBSET RW
    PROVE  LET e == New(lo, n, prot) IN
           /\ e \in Entry /\ e.lo <= e.hi /\ Cover(e) = Span(lo, n) /\ e.prot = prot
           /\ e.page_num = e.lo /\ e.npages = e.hi - e.lo + 1
  BY PageBounds DEF New, Entry, Pages, Cover, Span

\* An entry put where there is none.
LEMMA AddToHole ==
    ASSUME NEW F, Shape(F), NEW e \in Entry, e.lo <= e.hi, \A r \in F : Cover(r) \cap Cover(e) = {}
    PROVE  LET G == F \cup {e} IN
           /\ Shape(G)
           /\ \A p \in Cover(e) : p \in Mapped(G) /\ ProtAt(G, p) = e.prot
           /\ \A p : p \notin Cover(e) => SamePage(F, G, p)
  <1> DEFINE G == F \cup {e}
  <1>1. Shape(G)
    BY DEF Shape
  <1>2. \A p \in Cover(e) : p \in Mapped(G) /\ ProtAt(G, p) = e.prot
    BY <1>1, ProtOfEntry
  <1>3. ASSUME NEW p, p \notin Cover(e) PROVE SamePage(F, G, p)
    BY <1>1, <1>3, SamePageIf
  <1> QED
    BY <1>1, <1>2, <1>3

LEMMA AddFacts ==
    ASSUME NEW E, Shape(E), NEW lo \in Pages, NEW n \in Nat, n >= 1, lo + n <= EndPage,
           NEW prot \in SUBSET RW
    PROVE  LET G == add_entry_with_overwrite(E, lo, n, prot)
               S == Span(lo, n) IN
           /\ Shape(G)
           /\ \A p \in S : p \in Mapped(G) /\ ProtAt(G, p) = prot
           /\ \A p : p \notin S => SamePage(E, G, p)
           /\ \A r \in G : r = New(lo, n, prot) \/ (Within(E, r, S) /\ Cover(r) \cap S = {})
  <1> DEFINE F == remove_entry(E, lo, n)
             e == New(lo, n, prot)
             G == add_entry_with_overwrite(E, lo, n, prot)
             S == Span(lo, n)
  <1>1. G = F \cup {e}
    BY DEF add_entry_with_overwrite
  <1>2. lo \in Int
    BY PageBounds DEF Pages
  <1>3. /\ Shape(F) /\ \A p : p \notin S => SamePage(E, F, p)
        /\ \A r \in F : Within(E, r, S) /\ Cover(r) \cap S = {}
    BY <1>2, RemoveFacts
  <1>4. e \in Entry /\ e.lo <= e.hi /\ Cover(e) = S /\ e.prot = prot
    BY NewFacts
  <1> HIDE DEF F, e, G, S
  <1>5. /\ Shape(G) /\ \A p \in S : p \in Mapped(G) /\ ProtAt(G, p) = prot
        /\ \A p : p \notin S => SamePage(F, G, p)
    BY <1>1, <1>3, <1>4, AddToHole
  <1>6. \A p : p \notin S => SamePage(E, G, p)
    BY <1>3, <1>5 DEF SamePage
  <1>7. \A r \in G : r = e \/ (Within(E, r, S) /\ Cover(r) \cap S = {})
    BY <1>1, <1>3
  <1> QED
    BY <1>5, <1>6, <1>7 DEF e, G, S

\* The up to three entries that change_prot makes of one.
Inside(e, lo, n, prot) ==
    LET P == Cover(e) \cap Span(lo, n)
        a == CHOOSE p \in P : \A q \in P : p <= q
    IN  New(a, Cardinality(P), prot)
Before(e, lo, n)     == IF e.lo < lo THEN {New(e.lo, lo - e.lo, e.prot)} ELSE {}
After(e, lo, n)      == IF lo + n <= e.hi THEN {New(lo + n, e.hi - (lo + n) + 1, e.prot)} ELSE {}
Split(e, lo, n, prot) == {Inside(e, lo, n, prot)} \cup Before(e, lo, n) \cup After(e, lo, n)
Changed(E, lo, n, prot) == {e \in Overlapping(E, Span(lo, n)) : e.prot # prot}

LEMMA ChangeIsSplit ==
    ASSUME NEW E, NEW lo, NEW n, NEW prot
    PROVE  change_prot(E, lo, n, prot) =
               (E \ Changed(E, lo, n, prot)) \cup UNION {Split(e, lo, n, prot) : e \in Changed(E, lo, n, prot)}
  BY DEF change_prot, Split, Inside, Before, After, Changed

\* An entry whose fields say what its interval says.
Exact(e) == e.page_num = e.lo /\ e.npages = e.hi - e.lo + 1

LEMMA InsideFacts ==
    ASSUME NEW e \in Entry, e.lo <= e.hi, NEW lo \in Pages, NEW n \in Nat, n >= 1, lo + n <= EndPage,
           NEW prot \in SUBSET RW, Cover(e) \cap Span(lo, n) # {}
    PROVE  LET i == Inside(e, lo, n, prot) IN
           i \in Entry /\ i.lo <= i.hi /\ Cover(i) = Cover(e) \cap Span(lo, n) /\ i.prot = prot /\ Exact(i)
  <1> DEFINE P == Cover(e) \cap Span(lo, n)
             x == IF e.lo <= lo THEN lo ELSE e.lo
             y == IF e.hi <= lo + n - 1 THEN e.hi ELSE lo + n - 1
             a == CHOOSE p \in P : \A q \in P : p <= q
  <1>1. e.lo \in Int /\ e.hi \in Int /\ lo \in Int /\ 0 <= e.lo /\ e.hi < EndPage /\ 0 <= lo
    BY EntryBounds, PageBounds DEF Pages
  <1>2. P = x..y /\ x \in Int /\ y \in Int
    BY <1>1 DEF Cover, Span
  <1>3. x <= y
    <2>1. PICK z : z \in P
      OBVIOUS
    <2> HIDE DEF P, x, y
    <2> QED
      BY <1>2, <2>1
  <1>4. a = x
    <2>1. x \in P /\ \A q \in P : x <= q
      BY <1>2, <1>3
    <2>2. a \in P /\ \A q \in P : a <= q
      BY <2>1
    <2> QED
      BY <1>2, <2>1, <2>2
  <1>5. Cardinality(P) = y - x + 1
    <2> HIDE DEF P, x, y
    <2> QED
      BY <1>2, <1>3, FS_Interval
  <1>6. x \in Pages /\ y - x + 1 \in Nat /\ y - x + 1 >= 1 /\ x + (y - x + 1) <= EndPage
    BY <1>1, <1>2, <1>3, PageBounds DEF Pages
  <1>7. Inside(e, lo, n, prot) = New(x, y - x + 1, prot)
    BY <1>4, <1>5 DEF Inside
  <1>8. Span(x, y - x + 1) = P
    BY <1>2 DEF Span
  <1> HIDE DEF P, x, y, a
  <1> QED
    BY <1>6, <1>7, <1>8, NewFacts DEF Exact, P

LEMMA SplitFacts ==
    ASSUME NEW e \in Entry, e.lo <= e.hi, NEW lo \in Pages, NEW n \in Nat, n >= 1, lo + n <= EndPage,
           NEW prot \in SUBSET RW, Cover(e) \cap Span(lo, n) # {}
    PROVE  LET T == Split(e, lo, n, prot) IN
           /\ \A r \in T : /\ r \in Entry /\ r.lo <= r.hi /\ Exact(r) /\ Cover(r) \subseteq Cover(e)
                           /\ \A p \in Cover(r) : r.prot = IF p \in Span(lo, n) THEN prot ELSE e.prot
           /\ \A p \in Cover(e) : \E r \in T : p \in Cover(r)
           /\ \A q, r \in T : Cover(q) \cap Cover(r) # {} => q = r
  <1> DEFINE T == Split(e, lo, n, prot)
             S == Span(lo, n)
             i == Inside(e, lo, n, prot)
             b == New(e.lo, lo - e.lo, e.prot)
             a == New(lo + n, e.hi - (lo + n) + 1, e.prot)
  <1>1. e.lo \in Int /\ e.hi \in Int /\ lo \in Int /\ 0 <= e.lo /\ e.hi < EndPage /\ 0 <= lo
        /\ e.prot \in SUBSET RW /\ e.lo \in Pages
    BY EntryBounds, PageBounds DEF Pages, Entry
  <1>2. \A r : r \in T <=> r = i \/ (e.lo < lo /\ r = b) \/ (lo + n <= e.hi /\ r = a)
    BY DEF Split, Before, After
  <1>3. i \in Entry /\ i.lo <= i.hi /\ Cover(i) = Cover(e) \cap S /\ i.prot = prot /\ Exact(i)
    BY InsideFacts
  <1>4. Cover(e) = e.lo..e.hi /\ S = lo..(lo + n - 1)
    BY DEF Cover, Span
  <1>5. ASSUME e.lo < lo
        PROVE  b \in Entry /\ b.lo <= b.hi /\ Cover(b) = e.lo..(lo - 1) /\ b.prot = e.prot /\ Exact(b)
    <2>1. lo - e.lo \in Nat /\ lo - e.lo >= 1 /\ e.lo + (lo - e.lo) <= EndPage
      BY <1>1, <1>5, PageBounds
    <2>2. Span(e.lo, lo - e.lo) = e.lo..(lo - 1)
      BY <1>1 DEF Span
    <2> QED
      BY <1>1, <2>1, <2>2, NewFacts DEF Exact
  <1>6. ASSUME lo + n <= e.hi
        PROVE  a \in Entry /\ a.lo <= a.hi /\ Cover(a) = (lo + n)..e.hi /\ a.prot = e.prot /\ Exact(a)
    <2> DEFINE k == e.hi - (lo + n) + 1
    <2>1. k \in Nat /\ k >= 1 /\ (lo + n) + k <= EndPage /\ lo + n \in Pages
      BY <1>1, <1>6, PageBounds DEF Pages
    <2>2. Span(lo + n, k) = (lo + n)..e.hi
      BY <1>1 DEF Span
    <2> QED
      BY <1>1, <2>1, <2>2, NewFacts DEF Exact
  <1>7. PICK x \in Int : e.lo <= x /\ x <= e.hi /\ lo <= x /\ x <= lo + n - 1
    BY <1>1, <1>4
  <1> HIDE DEF T, S, i, b, a
  <1>8. e.lo < lo => Cover(b) \subseteq Cover(e) /\ Cover(b) \cap S = {}
    BY <1>1, <1>4, <1>5, <1>7, SMTT(30)
  <1>9. lo + n <= e.hi => Cover(a) \subseteq Cover(e) /\ Cover(a) \cap S = {}
    BY <1>1, <1>4, <1>6, <1>7
  <1>10. e.lo < lo /\ lo + n <= e.hi => Cover(a) \cap Cover(b) = {}
    BY <1>1, <1>5, <1>6
  <1>11. ASSUME NEW r \in T
         PROVE  /\ r \in Entry /\ r.lo <= r.hi /\ Exact(r) /\ Cover(r) \subseteq Cover(e)
                /\ \A p \in Cover(r) : r.prot = IF p \in S THEN prot ELSE e.prot
    BY <1>2, <1>3, <1>5, <1>6, <1>8, <1>9
  <1>12. ASSUME NEW p \in Cover(e) PROVE \E r \in T : p \in Cover(r)
    <2>1. p \in S \/ (e.lo < lo /\ p \in e.lo..(lo - 1)) \/ (lo + n <= e.hi /\ p \in (lo + n)..e.hi)
      BY <1>1, <1>4
    <2> QED
      BY <2>1, <1>2, <1>3, <1>5, <1>6
  <1>13. ASSUME NEW q \in T, NEW r \in T, Cover(q) \cap Cover(r) # {} PROVE q = r
    BY <1>2, <1>3, <1>8, <1>9, <1>10, <1>13
  <1> QED
    BY <1>11, <1>12, <1>13 DEF T, S

LEMMA ChangeFacts ==
    ASSUME NEW E, Shape(E), NEW lo \in Pages, NEW n \in Nat, n >= 1, lo + n <= EndPage,
           NEW prot \in SUBSET RW
    PROVE  LET G == change_prot(E, lo, n, prot)
               S == Span(lo, n) IN
           /\ Shape(G)
           /\ Mapped(G) = Mapped(E)
           /\ \A p \in S \cap Mapped(E) : ProtAt(G, p) = prot
           /\ \A p : p \notin S => SamePage(E, G, p)
           /\ \A r \in G : r \in E \/ (Exact(r) /\ \E e \in E : Cover(r) \subseteq Cover(e))
  <1> DEFINE G == change_prot(E, lo, n, prot)
             S == Span(lo, n)
             C == Changed(E, lo, n, prot)
             Sp(e) == Split(e, lo, n, prot)
  <1>1. G = (E \ C) \cup UNION {Sp(e) : e \in C}
    BY ChangeIsSplit
  <1>2. \A e : e \in C <=> e \in E /\ Cover(e) \cap S # {} /\ e.prot # prot
    BY DEF Changed, Overlapping
  <1>3. ASSUME NEW e \in C
        PROVE  /\ \A r \in Sp(e) : /\ r \in Entry /\ r.lo <= r.hi /\ Exact(r) /\ Cover(r) \subseteq Cover(e)
                                   /\ \A p \in Cover(r) : r.prot = IF p \in S THEN prot ELSE e.prot
               /\ \A p \in Cover(e) : \E r \in Sp(e) : p \in Cover(r)
               /\ \A q, r \in Sp(e) : Cover(q) \cap Cover(r) # {} => q = r
    <2>1. e \in Entry /\ e.lo <= e.hi /\ Cover(e) \cap Span(lo, n) # {}
      BY <1>2 DEF Shape
    <2> QED
      BY <2>1, SplitFacts
  <1> HIDE DEF G, S, C, Sp
  <1> DEFINE From(r, e) == IF e \in C THEN r \in Sp(e) ELSE r = e
  <1>4. ASSUME NEW r \in G
        PROVE  \E e \in E : /\ From(r, e) /\ Cover(r) \subseteq Cover(e) /\ r \in Entry /\ r.lo <= r.hi
                            /\ \A p \in Cover(r) : r.prot = IF p \in S THEN prot ELSE e.prot
    <2>1. CASE r \in E \ C
      <3>1. r \in Entry /\ r.lo <= r.hi
        BY <2>1 DEF Shape
      <3>2. \A p \in Cover(r) : p \in S => r.prot = prot
        BY <2>1, <1>2
      <3> QED
        BY <2>1, <3>1, <3>2
    <2>2. CASE r \in UNION {Sp(e) : e \in C}
      <3>1. PICK e \in C : r \in Sp(e)
        BY <2>2
      <3>2. e \in E
        BY <1>2
      <3> QED
        BY <3>1, <3>2, <1>3
    <2> QED
      BY <1>1, <2>1, <2>2
  <1>5. ASSUME NEW q \in G, NEW r \in G, Cover(q) \cap Cover(r) # {} PROVE q = r
    <2>1. PICK d \in E : From(q, d) /\ Cover(q) \subseteq Cover(d)
      BY <1>4
    <2>2. PICK e \in E : From(r, e) /\ Cover(r) \subseteq Cover(e)
      BY <1>4
    <2>3. Cover(d) \cap Cover(e) # {}
      BY <1>5, <2>1, <2>2
    <2>4. d = e
      BY <2>3 DEF Shape
    <2> QED
      BY <1>3, <1>5, <2>1, <2>2, <2>4
  <1>6. Shape(G)
    BY <1>4, <1>5 DEF Shape
  <1>7. ASSUME NEW e \in E, NEW p \in Cover(e) PROVE \E r \in G : p \in Cover(r)
    BY <1>1, <1>3
  <1>8. Mapped(G) = Mapped(E)
    BY <1>4, <1>7 DEF Mapped
  <1>9. ASSUME NEW p \in S \cap Mapped(E) PROVE ProtAt(G, p) = prot
    <2>1. PICK r \in G : p \in Cover(r)
      BY <1>8 DEF Mapped
    <2>2. r.prot = prot
      BY <1>4, <2>1
    <2> QED
      BY <1>6, <2>1, <2>2, ProtOfEntry
  <1>10. ASSUME NEW p, p \notin S PROVE SamePage(E, G, p)
    <2>1. \A r \in G : p \in Cover(r) => \E e \in E : p \in Cover(e) /\ e.prot = r.prot
      BY <1>4, <1>10
    <2> QED
      BY <1>6, <1>7, <2>1, SamePageIf
  <1>11. ASSUME NEW r \in G PROVE r \in E \/ (Exact(r) /\ \E e \in E : Cover(r) \subseteq Cover(e))
    BY <1>3, <1>4
  <1> QED
    BY <1>6, <1>8, <1>9, <1>10, <1>11 DEF G, S
-----------------------------------------------------------------------------
(***************************************************************************)
(* The calls in progress.                                                  *)
(***************************************************************************)
LEMMA FlightFacts ==
    ASSUME Typed, JobsTyped, NEW t \in Threads
    PROVE  /\ job[t] \in Job /\ Flight(t) \subseteq Pages
           /\ job[t].op = "none" => job[t] = Idle /\ Flight(t) = {}
           /\ job[t].op # "none" => /\ job[t].lo \in Pages /\ job[t].n \in Nat /\ job[t].n >= 1
                                    /\ job[t].lo + job[t].n <= EndPage
  <1>1. job[t] \in Job /\ job[t].lo \in Int /\ 0 <= job[t].lo /\ job[t].n \in Nat
    BY PageBounds DEF Typed, Job
  <1>2. CASE job[t].op = "none"
    <2>1. job[t] = Idle /\ job[t].lo = 0 /\ job[t].n = 0
      BY <1>2 DEF JobsTyped, Idle
    <2> QED
      BY <1>1, <1>2, <2>1 DEF Flight, Span
  <1>3. CASE job[t].op # "none"
    <2>1. job[t].n >= 1 /\ job[t].lo + job[t].n <= EndPage
      BY <1>3 DEF JobsTyped
    <2> QED
      BY <1>1, <1>3, <2>1, PageBounds DEF Flight, Span, Pages
  <1> QED
    BY <1>2, <1>3

LEMMA IdleFlight ==
    ASSUME Typed, JobsTyped, NEW t \in Threads, job[t] = Idle
    PROVE  job[t].op = "none" /\ Flight(t) = {}
  <1>1. job[t].op = "none"
    BY DEF Idle
  <1> QED
    BY <1>1, FlightFacts

\* While one thread maps, the others only protect.
LEMMA OthersProtect ==
    ASSUME OneMapper, Typed, JobsTyped, NEW t \in Mappers, NEW u \in Threads, u # t
    PROVE  job[u].op \in {"none", "protect"}
  <1>1. u \notin Mappers
    BY DEF OneMapper
  <1>2. job[u].op \in {"none", "found", "fixed", "add", "protect", "grow", "shrink"}
    BY DEF Typed, Job, Ops, JobsTyped
  <1> QED
    BY <1>1, <1>2 DEF JobsTyped, MapperOps

\* A call begins, goes on or ends: the other threads' calls are as they were.
LEMMA JobStep ==
    ASSUME Typed, NEW t \in Threads, NEW j \in Job, job' = [job EXCEPT ![t] = j]
    PROVE  /\ job' \in [Threads -> Job] /\ job'[t] = j /\ Flight(t)' = Span(j.lo, j.n)
           /\ \A u \in Threads : u # t => job'[u] = job[u] /\ Flight(u)' = Flight(u)
  BY DEF Typed, Flight

LEMMA IdleJob == Idle \in Job /\ Idle.op = "none" /\ Span(Idle.lo, Idle.n) = {}
  BY PageBounds DEF Idle, Job, Ops, Span

LEMMA ProtOfAt == /\ \A p : ProtOf(p) = ProtAt(entries, p)
                  /\ \A p : ProtOf(p)' = ProtAt(entries', p)
  BY DEF ProtOf, ProtAt

LEMMA ThreadKinds == Mappers \subseteq Threads /\ Users \subseteq Threads
  BY VmmapAssumption

\* The step leaves every page outside of S as it is.
Confined(S) ==
    \A p \in Pages \ S : /\ SamePage(entries, entries', p) /\ host'[p] = host[p]
                         /\ p \in torn <=> p \in torn'
\* No other thread works on a page of S.
Apart(t, S) == \A u \in Threads \ {t} : S \cap Flight(u) = {}
\* Thread t may be in call j.
MayBeIn(t, j) ==
    /\ j \in Job /\ j.op # "abort"
    /\ j.op = "none" => j = Idle
    /\ j.op # "none" => j.n >= 1 /\ j.lo + j.n <= EndPage
    /\ j.op \in MapperOps => t \in Mappers
    /\ Apart(t, Span(j.lo, j.n))
\* After the step map and host agree on the pages of S, but for those that t, in
\* call j, still works on.
Settled(S, j) ==
    \A p \in S \cap Pages :
        p \notin torn' /\ p \notin Span(j.lo, j.n) => host'[p] = ProtAt(entries', p)

\* A step of thread t that touches only the pages S, in nobody else's hands, keeps what
\* the other threads know.
LEMMA OthersKept ==
    ASSUME Inv, NEW t \in Threads, NEW S, NEW u \in Threads, u # t,
           job'[u] = job[u], Flight(u)' = Flight(u), S \cap Flight(u) = {},
           Confined(S)
    PROVE  CallOK(u)'
  <1> USE DEF Confined
  <1>1. Flight(u) \subseteq Pages \ S
    BY FlightFacts DEF Inv, JobInv
  <1>2. CallOK(u)
    BY DEF Inv, JobInv
  <1>3. HostDone(u)'
    BY <1>1, <1>2 DEF CallOK, HostDone
  <1>4. MapDone(u)'
    BY <1>1, <1>2 DEF CallOK, MapDone, SamePage
  <1>5. Untouched(u)'
    BY <1>1, <1>2 DEF CallOK, Untouched, SamePage
  <1>6. FoundUnmapped(u)'
    BY <1>1, <1>2 DEF CallOK, FoundUnmapped, SamePage
  <1>7. ProtectMapped(u)'
    BY <1>1, <1>2 DEF CallOK, ProtectMapped, SamePage
  <1> QED
    BY <1>3, <1>4, <1>5, <1>6, <1>7 DEF CallOK

\* Such a step keeps the invariant if it does for its own pages and its own call.
LEMMA LocalStep ==
    ASSUME Inv, NEW t \in Threads, NEW S, NEW j, job' = [job EXCEPT ![t] = j], MayBeIn(t, j),
           Apart(t, S), Confined(S), Settled(S, j), Settled(Flight(t), j), CallOK(t)',
           MapInv', HeapSpared', host' \in [Pages -> SUBSET RW], torn' \subseteq Pages
    PROVE  Inv'
  <1>0. Typed /\ JobsTyped /\ JobsApart /\ HostAgrees
    BY DEF Inv, JobInv
  <1>1. /\ job' \in [Threads -> Job] /\ job'[t] = j /\ Flight(t)' = Span(j.lo, j.n)
        /\ \A u \in Threads : u # t => job'[u] = job[u] /\ Flight(u)' = Flight(u)
    BY <1>0, JobStep DEF MayBeIn
  <1>2. Typed'
    BY <1>1 DEF Typed
  <1>3. JobsTyped'
    BY <1>0, <1>1 DEF JobsTyped, MayBeIn
  <1>4. JobsApart'
    BY <1>0, <1>1 DEF JobsApart, MayBeIn, Apart
  <1>5. \A u \in Threads : CallOK(u)'
    BY <1>1, OthersKept DEF Apart
  <1>6. HostAgrees'
    <2> SUFFICES ASSUME NEW p \in Pages, p \notin torn', \A u \in Threads : p \notin Flight(u)'
                 PROVE  host'[p] = ProtAt(entries', p)
      BY ProtOfAt DEF HostAgrees
    <2>1. CASE p \in S \cup Flight(t)
      BY <1>1, <2>1 DEF Settled
    <2>2. CASE p \notin S \cup Flight(t)
      <3>1. p \notin torn /\ \A u \in Threads : p \notin Flight(u)
        BY <1>1, <2>2 DEF Confined
      <3>2. host[p] = ProtAt(entries, p)
        BY <1>0, <3>1, ProtOfAt DEF HostAgrees
      <3> QED
        BY <2>2, <3>2 DEF SamePage, Confined
    <2> QED
      BY <2>1, <2>2
  <1> QED
    BY <1>2, <1>3, <1>4, <1>5, <1>6 DEF Inv, JobInv

LEMMA SamePageRefl == ASSUME NEW E, NEW p PROVE SamePage(E, E, p)
  BY DEF SamePage
-----------------------------------------------------------------------------
(***************************************************************************)
(* mmap.                                                                   *)
(***************************************************************************)
LEMMA FindFacts ==
    ASSUME NEW first \in Pages, NEW n \in Nat, n >= 1, NEW lo \in find_map_space(entries, first, n)
    PROVE  lo \in Pages /\ lo + n <= EndPage /\ Span(lo, n) \cap Mapped(entries) = {}
  <1> DEFINE free == (first..(EndPage - 1)) \ Mapped(entries)
  <1>1. PICK g \in Gaps(entries, first) : g[2] - g[1] >= n /\ lo = g[2] - n
    BY DEF find_map_space
  <1>2. g[1] \in free /\ g[2] \in free /\ (g[1]..g[2]) \subseteq free
    BY DEF Gaps
  <1>3. first \in Int /\ 0 <= first /\ EndPage \in Int
    BY PageBounds DEF Pages
  <1>4. g[1] \in Int /\ g[2] \in Int /\ 0 <= g[1] /\ g[2] <= EndPage - 1
    BY <1>2, <1>3
  <1>5. lo \in Int /\ g[1] <= lo /\ lo + n = g[2]
    BY <1>1, <1>4
  <1>6. Span(lo, n) \subseteq g[1]..g[2]
    BY <1>4, <1>5 DEF Span
  <1> QED
    BY <1>2, <1>3, <1>4, <1>5, <1>6 DEF Pages

\* HeapSpared, for a step that gives no entry at HeapStart more pages.
LEMMA HeapSparedStep ==
    ASSUME Inv, NEW t \in Threads, NEW j \in Job, job' = [job EXCEPT ![t] = j],
           \A r \in entries' : HeapStart \in Cover(r) =>
              \E e \in entries : HeapStart \in Cover(e) /\ Cover(r) \subseteq Cover(e),
           j.op \in Mapping => \A e \in entries : HeapStart \in Cover(e) =>
                                  Cover(e) \cap Span(j.lo, j.n) = {}
    PROVE  HeapSpared'
  <1>1. /\ job'[t] = j /\ Flight(t)' = Span(j.lo, j.n)
        /\ \A u \in Threads : u # t => job'[u] = job[u] /\ Flight(u)' = Flight(u)
    BY JobStep DEF Inv
  <1>2. HeapSpared
    BY DEF Inv, JobInv
  <1> SUFFICES ASSUME NEW u \in Threads, job'[u].op \in Mapping,
                      NEW r \in entries', HeapStart \in Cover(r)
               PROVE  Cover(r) \cap Flight(u)' = {}
    BY DEF HeapSpared
  <1>3. PICK e \in entries : HeapStart \in Cover(e) /\ Cover(r) \subseteq Cover(e)
    OBVIOUS
  <1>4. CASE u = t
    BY <1>1, <1>3, <1>4
  <1>5. CASE u # t
    BY <1>1, <1>2, <1>3, <1>5 DEF HeapSpared
  <1> QED
    BY <1>4, <1>5

\* Entries and their pages are left alone.
LEMMA MapKept ==
    ASSUME Inv, entries' = entries
    PROVE  /\ MapInv' /\ \A p : SamePage(entries, entries', p)
           /\ \A r \in entries' : HeapStart \in Cover(r) =>
                 \E e \in entries : HeapStart \in Cover(e) /\ Cover(r) \subseteq Cover(e)
  BY SamePageRefl DEF Inv, MapInv, Shape, HeapFields

LEMMA JobMade ==
    ASSUME NEW op \in {"found", "fixed", "protect", "grow", "shrink"}, NEW lo \in Int, NEW n \in Nat,
           0 <= lo, n >= 1, lo + n <= EndPage, NEW prot \in SUBSET RW
    PROVE  LET j == [op |-> op, lo |-> lo, n |-> n, prot |-> prot] IN
           /\ j \in Job /\ j.op # "none" /\ j.op # "abort"
           /\ j.op = op /\ j.lo = lo /\ j.n = n /\ j.prot = prot
  BY PageBounds DEF Job, Ops

LEMMA MmapFindStep ==
    ASSUME OneMapper, Inv, NEW t \in Mappers, NEW first \in Pages, NEW n \in 1..MaxPages,
           NEW prot \in Prots, MmapFind(t, first, n, prot)
    PROVE  Inv'
  <1>0. t \in Threads /\ Typed /\ JobsTyped /\ HostAgrees /\ job[t] = Idle /\ Flight(t) = {}
    BY ThreadKinds, IdleFlight DEF Inv, JobInv, MmapFind
  <1>1. n \in Nat /\ n >= 1 /\ prot \in SUBSET RW
    BY VmmapAssumption DEF RW
  <1>2. PICK lo \in find_map_space(entries, first, n) : Start(t, "found", lo, n, prot)
    BY DEF MmapFind
  <1>3. lo \in Pages /\ lo \in Int /\ 0 <= lo /\ lo + n <= EndPage /\ Span(lo, n) \cap Mapped(entries) = {}
    BY <1>1, FindFacts, PageBounds DEF Pages
  <1> DEFINE j == [op |-> "found", lo |-> lo, n |-> n, prot |-> prot]
  <1>4. j \in Job /\ j.op # "none" /\ j.op = "found" /\ j.lo = lo /\ j.n = n
    BY <1>1, <1>3, JobMade
  <1>5. job' = [job EXCEPT ![t] = j] /\ entries' = entries /\ host' = host /\ torn' = torn
    BY <1>2 DEF Start, MmapFind
  <1> HIDE DEF j
  <1>6. MapInv' /\ \A p : SamePage(entries, entries', p)
    BY <1>5, MapKept
  <1>7. HeapSpared'
    <2>1. \A e \in entries : Cover(e) \cap Span(lo, n) = {}
      BY <1>3 DEF Mapped
    <2> QED
      BY <1>0, <1>4, <1>5, <2>1, MapKept, HeapSparedStep
  <1>8. \A u \in Threads \ {t} : Span(lo, n) \cap Flight(u) = {}
    <2> SUFFICES ASSUME NEW u \in Threads, u # t PROVE Span(lo, n) \cap Flight(u) = {}
      OBVIOUS
    <2>1. job[u].op \in {"none", "protect"}
      BY <1>0, OthersProtect
    <2>2. job[u].op = "none" => Flight(u) = {}
      BY <1>0, FlightFacts
    <2>3. job[u].op = "protect" => Flight(u) \subseteq Mapped(entries)
      BY DEF Inv, JobInv, CallOK, ProtectMapped
    <2> QED
      BY <1>3, <2>1, <2>2, <2>3
  <1>9. Flight(t)' = Span(lo, n) /\ job'[t] = j
    BY <1>0, <1>4, <1>5, JobStep
  <1>10. CallOK(t)'
    <2>1. Span(lo, n) \subseteq Pages
      BY <1>1, <1>3, PageBounds DEF Span, Pages
    <2>2. ASSUME NEW p \in Span(lo, n) \ torn PROVE host[p] = ProtAt(entries, p)
      <3>1. \A u \in Threads : p \notin Flight(u)
        BY <1>0, <1>8
      <3> QED
        BY <1>0, <2>1, <3>1, ProtOfAt DEF HostAgrees
    <2>3. Untouched(t)'
      BY <1>5, <1>9, <2>2 DEF Untouched
    <2>4. FoundUnmapped(t)'
      BY <1>3, <1>5, <1>9 DEF FoundUnmapped
    <2> QED
      BY <1>4, <1>9, <2>3, <2>4 DEF CallOK, HostDone, MapDone, ProtectMapped
  <1>11. host' \in [Pages -> SUBSET RW] /\ torn' \subseteq Pages
    BY <1>0, <1>5 DEF Typed
  <1>12. MayBeIn(t, j)
    BY <1>1, <1>3, <1>4, <1>8 DEF MayBeIn, Apart
  <1>13. Apart(t, {}) /\ Confined({}) /\ Settled({}, j) /\ Settled(Flight(t), j)
    BY <1>0, <1>5, <1>6 DEF Apart, Confined, Settled
  <1> QED
    BY <1>0, <1>5, <1>6, <1>7, <1>10, <1>11, <1>12, <1>13, LocalStep

\* What MayReplace and its like give.
LEMMA ApartFromOthers ==
    ASSUME OneMapper, NEW t, NEW S
    PROVE  /\ MayReplace(t, S) => S \cap OwnPages = {} /\ Apart(t, S)
           /\ MayProtect(t, S) => S \subseteq Mapped(entries) /\ Apart(t, S)
           /\ MayBreak(t, S) => Apart(t, S)
  BY DEF Apart, OneMapper, MayReplace, MayProtect, MayBreak, Undisturbed

LEMMA OwnHeap ==
    ASSUME NEW e \in entries, HeapStart \in Cover(e)
    PROVE  Cover(e) \subseteq OwnPages
  BY DEF OwnPages, Overlapping

LEMMA RangeFacts ==
    ASSUME NEW r \in Ranges
    PROVE  /\ r[1] \in Pages /\ r[1] \in Int /\ 0 <= r[1] /\ r[2] \in Nat /\ r[2] >= 1 /\ r[1] + r[2] <= EndPage
           /\ Span(r[1], r[2]) \subseteq Pages
  <1>1. r[1] \in Pages /\ r[2] \in 1..MaxPages /\ r[1] + r[2] <= EndPage
    BY DEF Ranges
  <1> QED
    BY <1>1, VmmapAssumption, PageBounds DEF Pages, Span

LEMMA MmapFixedStep ==
    ASSUME OneMapper, Inv, NEW t \in Mappers, NEW r \in Ranges, NEW prot \in Prots,
           MmapFixed(t, r[1], r[2], prot)
    PROVE  Inv'
  <1> DEFINE lo == r[1]
             n == r[2]
             j == [op |-> "fixed", lo |-> lo, n |-> n, prot |-> prot]
  <1>0. t \in Threads /\ Typed /\ JobsTyped /\ HostAgrees /\ job[t] = Idle /\ Flight(t) = {}
    BY ThreadKinds, IdleFlight DEF Inv, JobInv, MmapFixed
  <1>1. /\ lo \in Int /\ 0 <= lo /\ n \in Nat /\ n >= 1 /\ lo + n <= EndPage /\ prot \in SUBSET RW
        /\ Span(lo, n) \subseteq Pages
    BY RangeFacts, VmmapAssumption DEF RW
  <1>2. Span(lo, n) \cap OwnPages = {} /\ Apart(t, Span(lo, n))
    BY ApartFromOthers DEF MmapFixed
  <1>3. job' = [job EXCEPT ![t] = j] /\ entries' = entries /\ host' = host /\ torn' = torn
    BY DEF MmapFixed, Start
  <1>4. j \in Job /\ j.op # "none" /\ j.op = "fixed" /\ j.lo = lo /\ j.n = n
    BY <1>1, JobMade
  <1> HIDE DEF j, lo, n
  <1>5. MapInv' /\ \A p : SamePage(entries, entries', p)
    BY <1>3, MapKept
  <1>6. HeapSpared'
    <2>1. \A e \in entries : HeapStart \in Cover(e) => Cover(e) \cap Span(lo, n) = {}
      BY <1>2, OwnHeap
    <2> QED
      BY <1>0, <1>3, <1>4, <2>1, MapKept, HeapSparedStep
  <1>7. Flight(t)' = Span(lo, n) /\ job'[t] = j
    BY <1>0, <1>3, <1>4, JobStep
  <1>8. CallOK(t)'
    <2>1. ASSUME NEW p \in Span(lo, n) \ torn PROVE host[p] = ProtAt(entries, p)
      <3>1. \A u \in Threads : p \notin Flight(u)
        BY <1>0, <1>2 DEF Apart
      <3> QED
        BY <1>0, <1>1, <2>1, <3>1, ProtOfAt DEF HostAgrees
    <2>2. Untouched(t)'
      BY <1>3, <1>7, <2>1 DEF Untouched
    <2> QED
      BY <1>4, <1>7, <2>2 DEF CallOK, HostDone, MapDone, FoundUnmapped, ProtectMapped
  <1>9. host' \in [Pages -> SUBSET RW] /\ torn' \subseteq Pages
    BY <1>0, <1>3 DEF Typed
  <1>10. MayBeIn(t, j)
    BY <1>1, <1>2, <1>4 DEF MayBeIn, Apart
  <1>11. Apart(t, {}) /\ Confined({}) /\ Settled({}, j) /\ Settled(Flight(t), j)
    BY <1>0, <1>3, <1>5 DEF Apart, Confined, Settled
  <1> QED
    BY <1>0, <1>3, <1>5, <1>6, <1>8, <1>9, <1>10, <1>11, LocalStep

\* Threads do not share the pages they work on.
LEMMA OwnFlight ==
    ASSUME Inv, NEW t \in Threads
    PROVE  Apart(t, Flight(t))
  BY DEF Inv, JobInv, JobsApart, Apart

LEMMA ProtectFacts ==
    ASSUME Typed, NEW S, NEW prot \in SUBSET RW
    PROVE  /\ Protect(S, prot) \in [Pages -> SUBSET RW]
           /\ \A p \in Pages \ S : Protect(S, prot)[p] = host[p]
           /\ \A p \in Pages \cap S : Protect(S, prot)[p] = prot
  BY DEF Typed, Protect

\* A call that is in progress.
LEMMA BusyFacts ==
    ASSUME Inv, NEW t \in Threads, job[t].op # "none"
    PROVE  /\ Typed /\ JobsTyped /\ HostAgrees /\ CallOK(t)
           /\ job[t] \in Job /\ job[t].lo \in Pages /\ job[t].n \in Nat /\ job[t].n >= 1
           /\ job[t].lo + job[t].n <= EndPage /\ job[t].prot \in SUBSET RW
           /\ Flight(t) \subseteq Pages /\ Flight(t) = Span(job[t].lo, job[t].n)
  BY FlightFacts DEF Inv, JobInv, Job, Flight

LEMMA MmapHostStep ==
    ASSUME OneMapper, Inv, NEW t \in Mappers, MmapHost(t)
    PROVE  Inv'
  <1> DEFINE S == Flight(t)
             j == [job[t] EXCEPT !.op = "add"]
  <1>0. t \in Threads /\ job[t].op \in {"found", "fixed"}
    BY ThreadKinds DEF MmapHost
  <1>1. /\ Typed /\ JobsTyped /\ job[t] \in Job /\ job[t].n >= 1 /\ job[t].lo + job[t].n <= EndPage
        /\ job[t].prot \in SUBSET RW /\ S \subseteq Pages /\ S = Span(job[t].lo, job[t].n)
    BY <1>0, BusyFacts
  <1>2. job' = [job EXCEPT ![t] = j] /\ entries' = entries /\ host' = Protect(S, job[t].prot) /\ torn' = torn
    BY DEF MmapHost
  <1>3. j \in Job /\ j.op = "add" /\ j.lo = job[t].lo /\ j.n = job[t].n /\ j.prot = job[t].prot
    BY <1>1 DEF Job, Ops
  <1> HIDE DEF S, j
  <1>4. MapInv' /\ \A p : SamePage(entries, entries', p)
    BY <1>2, MapKept
  <1>5. HeapSpared'
    <2>1. \A e \in entries : HeapStart \in Cover(e) => Cover(e) \cap Span(j.lo, j.n) = {}
      BY <1>0, <1>1, <1>3 DEF Inv, JobInv, HeapSpared, Mapping, S
    <2> QED
      BY <1>0, <1>2, <1>3, <2>1, MapKept, HeapSparedStep
  <1>6. Flight(t)' = S /\ job'[t] = j
    BY <1>0, <1>1, <1>2, <1>3, JobStep
  <1>7. /\ host' \in [Pages -> SUBSET RW] /\ torn' \subseteq Pages
        /\ \A p \in Pages \ S : host'[p] = host[p]
        /\ \A p \in S : host'[p] = job[t].prot
    BY <1>1, <1>2, ProtectFacts DEF Typed
  <1>8. CallOK(t)'
    <2>1. HostDone(t)'
      BY <1>3, <1>6, <1>7 DEF HostDone
    <2> QED
      BY <1>3, <1>6, <2>1 DEF CallOK, Untouched, MapDone, FoundUnmapped, ProtectMapped
  <1>9. Apart(t, S)
    BY <1>0, OwnFlight DEF S
  <1>10. MayBeIn(t, j)
    BY <1>1, <1>3, <1>9 DEF MayBeIn
  <1>11. Confined(S) /\ Settled(S, j) /\ S = Flight(t)
    BY <1>1, <1>2, <1>3, <1>4, <1>7 DEF Confined, Settled, S
  <1> QED
    BY <1>0, <1>2, <1>4, <1>5, <1>7, <1>8, <1>9, <1>10, <1>11, LocalStep

LEMMA IdleOK ==
    ASSUME NEW t, job'[t] = Idle
    PROVE  CallOK(t)'
  BY DEF CallOK, HostDone, MapDone, Untouched, FoundUnmapped, ProtectMapped, Idle

LEMMA MayBeIdle == \A t : MayBeIn(t, Idle)
  BY IdleJob DEF MayBeIn, MapperOps, Apart

LEMMA MmapFailsStep ==
    ASSUME OneMapper, Inv, NEW t \in Mappers, MmapFails(t)
    PROVE  Inv'
  <1>0. t \in Threads /\ job[t].op \in {"found", "fixed"}
    BY ThreadKinds DEF MmapFails
  <1>1. Typed /\ JobsTyped /\ CallOK(t) /\ Flight(t) \subseteq Pages
    BY <1>0, BusyFacts
  <1>2. job' = [job EXCEPT ![t] = Idle] /\ entries' = entries /\ host' = host /\ torn' = torn
    BY DEF MmapFails, Done
  <1>3. MapInv' /\ \A p : SamePage(entries, entries', p)
    BY <1>2, MapKept
  <1>4. HeapSpared'
    BY <1>0, <1>2, IdleJob, MapKept, HeapSparedStep DEF Mapping
  <1>5. CallOK(t)'
    BY <1>0, <1>1, <1>2, IdleJob, JobStep, IdleOK
  <1>6. host' \in [Pages -> SUBSET RW] /\ torn' \subseteq Pages
    BY <1>1, <1>2 DEF Typed
  <1>7. \A p \in Flight(t) : p \notin torn' => host'[p] = ProtAt(entries', p)
    BY <1>0, <1>1, <1>2 DEF CallOK, Untouched
  <1>8. Apart(t, {}) /\ Confined({}) /\ Settled({}, Idle) /\ Settled(Flight(t), Idle)
    BY <1>2, <1>3, <1>7 DEF Apart, Confined, Settled
  <1> QED
    BY <1>0, <1>2, <1>3, <1>4, <1>5, <1>6, <1>8, MayBeIdle, LocalStep

LEMMA MmapAddStep ==
    ASSUME OneMapper, Inv, NEW t \in Mappers, MmapAdd(t)
    PROVE  Inv'
  <1> DEFINE S == Flight(t)
             lo == job[t].lo
             n == job[t].n
             prot == job[t].prot
             G == add_entry_with_overwrite(entries, lo, n, prot)
  <1>0. t \in Threads /\ job[t].op = "add"
    BY ThreadKinds DEF MmapAdd
  <1>1. /\ Typed /\ JobsTyped /\ CallOK(t) /\ lo \in Pages /\ n \in Nat /\ n >= 1 /\ lo + n <= EndPage
        /\ prot \in SUBSET RW /\ S \subseteq Pages /\ S = Span(lo, n)
    BY <1>0, BusyFacts
  <1>2. Shape(entries) /\ HeapFields
    BY DEF Inv, MapInv
  <1>3. job' = [job EXCEPT ![t] = Idle] /\ entries' = G /\ host' = host /\ torn' = torn \ S
    BY DEF MmapAdd, Done
  <1>4. /\ Shape(G)
        /\ \A p \in S : p \in Mapped(G) /\ ProtAt(G, p) = prot
        /\ \A p : p \notin S => SamePage(entries, G, p)
        /\ \A r \in G : r = New(lo, n, prot) \/ (Within(entries, r, S) /\ Cover(r) \cap S = {})
    BY <1>1, <1>2, AddFacts
  <1>5. LET e == New(lo, n, prot) IN e.page_num = e.lo /\ e.npages = e.hi - e.lo + 1
    BY <1>1, NewFacts
  <1>6. \A e \in entries : HeapStart \in Cover(e) => Cover(e) \cap S = {}
    BY <1>0 DEF Inv, JobInv, HeapSpared, Mapping
  <1> HIDE DEF S, lo, n, prot, G
  <1>7. HeapFields'
    <2> SUFFICES ASSUME NEW r \in G, HeapStart \in Cover(r)
                 PROVE  r.page_num = r.lo /\ r.npages = r.hi - r.lo + 1
      BY <1>3 DEF HeapFields
    <2>1. CASE r = New(lo, n, prot)
      BY <1>5, <2>1
    <2>2. CASE Within(entries, r, S)
      <3>1. r \in entries
        BY <1>6, <2>2 DEF Within
      <3> QED
        BY <1>2, <3>1 DEF HeapFields
    <2> QED
      BY <1>4, <2>1, <2>2
  <1>8. MapInv'
    BY <1>3, <1>4, <1>7 DEF MapInv
  <1>9. /\ job'[t] = Idle
        /\ \A u \in Threads : u # t => job'[u] = job[u] /\ Flight(u)' = Flight(u)
    BY <1>0, <1>1, <1>3, IdleJob, JobStep
  <1>10. HeapSpared'
    <2>1. \A u \in Threads : job'[u].op \notin Mapping
      BY <1>1, <1>9, IdleJob, OthersProtect DEF Mapping
    <2> QED
      BY <2>1 DEF HeapSpared
  <1>11. CallOK(t)'
    BY <1>9, IdleOK
  <1>12. host' \in [Pages -> SUBSET RW] /\ torn' \subseteq Pages
    BY <1>1, <1>3 DEF Typed
  <1>13. \A p \in S : host'[p] = ProtAt(entries', p)
    <2>1. \A p \in S : host[p] = prot
      BY <1>0, <1>1 DEF CallOK, HostDone, S, prot
    <2> QED
      BY <1>3, <1>4, <2>1
  <1>14. Apart(t, S) /\ S = Flight(t)
    BY <1>0, OwnFlight DEF S
  <1>15. Confined(S) /\ Settled(S, Idle)
    BY <1>3, <1>4, <1>13 DEF Confined, Settled
  <1> QED
    BY <1>0, <1>3, <1>8, <1>10, <1>11, <1>12, <1>14, <1>15, MayBeIdle, LocalStep
-----------------------------------------------------------------------------
(***************************************************************************)
(* munmap and mprotect.                                                    *)
(***************************************************************************)
LEMMA SameJob ==
    ASSUME Typed, NEW t \in Threads, job' = job
    PROVE  job' = [job EXCEPT ![t] = job[t]] /\ job'[t] = job[t]
  BY DEF Typed

LEMMA MunmapStep ==
    ASSUME OneMapper, Inv, NEW t \in Users, NEW r \in Ranges, Munmap(t, r[1], r[2])
    PROVE  Inv'
  <1> DEFINE lo == r[1]
             n == r[2]
             R == Span(lo, n)
             S == R \cap Mapped(entries)
  <1>0. t \in Threads /\ Typed /\ JobsTyped /\ HostAgrees /\ job[t] = Idle /\ Flight(t) = {}
    BY ThreadKinds, IdleFlight DEF Inv, JobInv, Munmap
  <1>1. lo \in Int /\ n \in Nat /\ n >= 1 /\ R \subseteq Pages
    BY RangeFacts
  <1>2. R \cap OwnPages = {} /\ Apart(t, R) /\ Apart(t, S)
    BY ApartFromOthers DEF Munmap, Apart
  <1>3. job' = [job EXCEPT ![t] = Idle] /\ job'[t] = Idle
    BY <1>0, SameJob DEF Munmap
  <1>4. CallOK(t)'
    BY <1>3, IdleOK
  <1>5. Settled(Flight(t), Idle)
    BY <1>0 DEF Settled
  <1>6. Shape(entries) /\ HeapFields
    BY DEF Inv, MapInv
  <1>7. CASE host' = Protect(S, {}) /\ entries' = remove_entry(entries, lo, n) /\ torn' = torn \ S
    <2> DEFINE G == remove_entry(entries, lo, n)
    <2>1. /\ Shape(G)
          /\ \A p \in R : p \notin Mapped(G)
          /\ \A p : p \notin R => SamePage(entries, G, p)
          /\ \A q \in G : Within(entries, q, R) /\ Cover(q) \cap R = {}
      BY <1>1, <1>6, RemoveFacts
    <2> HIDE DEF G, R
    <2>2. \A q \in G : HeapStart \in Cover(q) => q \in entries
      BY <1>2, <2>1, OwnHeap DEF Within
    <2>3. MapInv'
      <3>1. HeapFields'
        BY <1>6, <1>7, <2>2 DEF HeapFields, G
      <3> QED
        BY <1>7, <2>1, <3>1 DEF MapInv, G
    <2>4. HeapSpared'
      <3>1. \A q \in entries' : HeapStart \in Cover(q) =>
               \E e \in entries : HeapStart \in Cover(e) /\ Cover(q) \subseteq Cover(e)
        BY <1>7, <2>2 DEF G
      <3>2. Idle.op \notin Mapping
        BY IdleJob DEF Mapping
      <3> QED
        BY <1>0, <1>3, <3>1, <3>2, IdleJob, HeapSparedStep
    <2>5. /\ host' \in [Pages -> SUBSET RW] /\ torn' \subseteq Pages
          /\ \A p \in Pages \ S : host'[p] = host[p]
          /\ \A p \in Pages \cap S : host'[p] = {}
      BY <1>0, <1>7, ProtectFacts DEF Typed
    <2>6. Confined(R)
      BY <1>7, <2>1, <2>5 DEF Confined, G
    <2>7. Settled(R, Idle)
      <3> SUFFICES ASSUME NEW p \in R \cap Pages, p \notin torn' PROVE host'[p] = ProtAt(entries', p)
        BY DEF Settled
      <3>1. ProtAt(entries', p) = {}
        BY <1>7, <2>1, ProtOfHole DEF G
      <3>2. CASE p \in S
        BY <2>5, <3>1, <3>2
      <3>3. CASE p \notin S
        <4>1. p \notin torn /\ p \notin Mapped(entries)
          BY <1>7, <3>3
        <4>2. \A u \in Threads : p \notin Flight(u)
          BY <1>0, <1>2 DEF Apart
        <4>3. host[p] = ProtAt(entries, p)
          BY <1>0, <4>1, <4>2, ProtOfAt DEF HostAgrees
        <4> QED
          BY <2>5, <3>1, <3>3, <4>1, <4>3, ProtOfHole
      <3> QED
        BY <3>2, <3>3
    <2> QED
      BY <1>0, <1>2, <1>3, <1>4, <1>5, <2>3, <2>4, <2>5, <2>6, <2>7, MayBeIdle, LocalStep
  <1>8. ASSUME torn = {}, entries' = entries, NEW D, D \subseteq S, host' = Protect(D, {}), torn' = D
        PROVE  Inv'
    <2>1. MapInv' /\ \A p : SamePage(entries, entries', p)
      BY <1>8, MapKept
    <2>2. HeapSpared'
      <3>1. Idle.op \notin Mapping
        BY IdleJob DEF Mapping
      <3> QED
        BY <1>0, <1>3, <1>8, <3>1, IdleJob, MapKept, HeapSparedStep
    <2>3. host' \in [Pages -> SUBSET RW] /\ torn' \subseteq Pages /\ \A p \in Pages \ D : host'[p] = host[p]
      BY <1>0, <1>1, <1>8, ProtectFacts
    <2>4. Confined(D) /\ Settled(D, Idle) /\ Apart(t, D)
      BY <1>2, <1>8, <2>1, <2>3 DEF Confined, Settled, Apart
    <2> QED
      BY <1>0, <1>3, <1>4, <1>5, <2>1, <2>2, <2>3, <2>4, MayBeIdle, LocalStep
  <1>9. CASE /\ torn = {} /\ entries' = entries
             /\ \E e \in Overlapping(entries, S) :
                   LET done == {p \in S : p < e.lo}
                   IN  host' = Protect(done, {}) /\ torn' = done
    <2>1. PICK e \in Overlapping(entries, S) :
             host' = Protect({p \in S : p < e.lo}, {}) /\ torn' = {p \in S : p < e.lo}
      BY <1>9
    <2> DEFINE D == {p \in S : p < e.lo}
    <2>2. D \subseteq S /\ host' = Protect(D, {}) /\ torn' = D
      BY <2>1
    <2> HIDE DEF D
    <2> QED
      BY <1>8, <1>9, <2>2
  <1> QED
    BY <1>7, <1>9 DEF Munmap

LEMMA MprotectHostStep ==
    ASSUME OneMapper, Inv, NEW t \in Users, NEW r \in Ranges, NEW prot \in Prots,
           MprotectHost(t, r[1], r[2], prot)
    PROVE  Inv'
  <1> DEFINE lo == r[1]
             n == r[2]
             S == Span(lo, n)
             j == [op |-> "protect", lo |-> lo, n |-> n, prot |-> prot]
  <1>0. t \in Threads /\ Typed /\ JobsTyped /\ job[t] = Idle /\ Flight(t) = {}
    BY ThreadKinds, IdleFlight DEF Inv, JobInv, MprotectHost
  <1>1. /\ lo \in Int /\ 0 <= lo /\ n \in Nat /\ n >= 1 /\ lo + n <= EndPage /\ prot \in SUBSET RW
        /\ S \subseteq Pages
    BY RangeFacts, VmmapAssumption DEF RW
  <1>2. S \subseteq Mapped(entries) /\ Apart(t, S)
    BY ApartFromOthers DEF MprotectHost
  <1>3. job' = [job EXCEPT ![t] = j] /\ entries' = entries /\ host' = Protect(S, prot) /\ torn' = torn
    BY DEF MprotectHost, Start
  <1>4. j \in Job /\ j.op # "none" /\ j.op = "protect" /\ j.lo = lo /\ j.n = n /\ j.prot = prot
    BY <1>1, JobMade
  <1> HIDE DEF j, lo, n
  <1>5. MapInv' /\ \A p : SamePage(entries, entries', p)
    BY <1>3, MapKept
  <1>6. HeapSpared'
    <2>1. j.op \notin Mapping
      BY <1>4 DEF Mapping
    <2> QED
      BY <1>0, <1>3, <1>4, <2>1, MapKept, HeapSparedStep
  <1>7. Flight(t)' = S /\ job'[t] = j
    BY <1>0, <1>3, <1>4, JobStep
  <1>8. /\ host' \in [Pages -> SUBSET RW] /\ torn' \subseteq Pages
        /\ \A p \in Pages \ S : host'[p] = host[p]
        /\ \A p \in S : host'[p] = prot
    BY <1>0, <1>1, <1>3, ProtectFacts DEF Typed
  <1>9. CallOK(t)'
    <2>1. HostDone(t)' /\ ProtectMapped(t)'
      BY <1>2, <1>3, <1>4, <1>7, <1>8 DEF HostDone, ProtectMapped
    <2> QED
      BY <1>4, <1>7, <2>1 DEF CallOK, Untouched, MapDone, FoundUnmapped
  <1>10. MayBeIn(t, j)
    BY <1>1, <1>2, <1>4 DEF MayBeIn, MapperOps
  <1>11. Confined(S) /\ Settled(S, j) /\ Settled(Flight(t), j)
    BY <1>0, <1>3, <1>4, <1>5, <1>8 DEF Confined, Settled
  <1> QED
    BY <1>0, <1>2, <1>3, <1>5, <1>6, <1>8, <1>9, <1>10, <1>11, LocalStep

LEMMA MprotectMapStep ==
    ASSUME OneMapper, Inv, NEW t \in Users, MprotectMap(t)
    PROVE  Inv'
  <1> DEFINE S == Flight(t)
             lo == job[t].lo
             n == job[t].n
             prot == job[t].prot
             G == change_prot(entries, lo, n, prot)
  <1>0. t \in Threads /\ job[t].op = "protect"
    BY ThreadKinds DEF MprotectMap
  <1>1. /\ Typed /\ JobsTyped /\ CallOK(t) /\ lo \in Pages /\ n \in Nat /\ n >= 1 /\ lo + n <= EndPage
        /\ prot \in SUBSET RW /\ S \subseteq Pages /\ S = Span(lo, n)
    BY <1>0, BusyFacts
  <1>2. Shape(entries) /\ HeapFields
    BY DEF Inv, MapInv
  <1>3. job' = [job EXCEPT ![t] = Idle] /\ entries' = G /\ host' = host /\ torn' = torn \ S
    BY DEF MprotectMap, Done
  <1>4. /\ Shape(G) /\ Mapped(G) = Mapped(entries)
        /\ \A p \in S \cap Mapped(entries) : ProtAt(G, p) = prot
        /\ \A p : p \notin S => SamePage(entries, G, p)
        /\ \A r \in G : r \in entries \/ (Exact(r) /\ \E e \in entries : Cover(r) \subseteq Cover(e))
    BY <1>1, <1>2, ChangeFacts
  <1>5. \A p \in S : host[p] = prot /\ p \in Mapped(entries)
    BY <1>0, <1>1 DEF CallOK, HostDone, ProtectMapped
  <1> HIDE DEF S, lo, n, prot, G
  <1>6. MapInv'
    <2>1. HeapFields'
      BY <1>2, <1>3, <1>4 DEF HeapFields, Exact
    <2> QED
      BY <1>3, <1>4, <2>1 DEF MapInv
  <1>7. job'[t] = Idle
    BY <1>0, <1>1, <1>3, IdleJob, JobStep
  <1>8. HeapSpared'
    <2>1. \A r \in entries' : HeapStart \in Cover(r) =>
             \E e \in entries : HeapStart \in Cover(e) /\ Cover(r) \subseteq Cover(e)
      BY <1>3, <1>4
    <2>2. Idle.op \notin Mapping
      BY IdleJob DEF Mapping
    <2> QED
      BY <1>0, <1>3, <2>1, <2>2, IdleJob, HeapSparedStep
  <1>9. CallOK(t)'
    BY <1>7, IdleOK
  <1>10. host' \in [Pages -> SUBSET RW] /\ torn' \subseteq Pages
    BY <1>1, <1>3 DEF Typed
  <1>11. Apart(t, S) /\ S = Flight(t)
    BY <1>0, OwnFlight DEF S
  <1>12. Confined(S) /\ Settled(S, Idle)
    BY <1>3, <1>4, <1>5 DEF Confined, Settled
  <1> QED
    BY <1>0, <1>3, <1>6, <1>8, <1>9, <1>10, <1>11, <1>12, MayBeIdle, LocalStep
-----------------------------------------------------------------------------
(***************************************************************************)
(* brk.                                                                    *)
(***************************************************************************)
\* The record brk goes by says where the heap is: the heap's entry was never cut.
LEMMA HeapEntryFacts ==
    ASSUME MapInv, HeapEntry.page_num = HeapStart
    PROVE  LET k == HeapEntry.npages IN
           /\ k \in Nat /\ HeapStart + k <= EndPage /\ HeapEntry.prot \in SUBSET RW
           /\ k = 0 => HeapStart \notin Mapped(entries)
           /\ \A p \in Span(HeapStart, k) : p \in Mapped(entries) /\ ProtAt(entries, p) = HeapEntry.prot
  <1> DEFINE S == Overlapping(entries, {HeapStart})
  <1>1. CASE S = {}
    <2>1. HeapEntry.npages = 0 /\ HeapEntry.prot = RW
      BY <1>1 DEF HeapEntry
    <2>2. HeapStart \notin Mapped(entries)
      BY <1>1 DEF Overlapping, Mapped
    <2>3. Span(HeapStart, 0) = {} /\ HeapStart + 0 <= EndPage
      BY PageBounds DEF Span
    <2> QED
      BY <2>1, <2>2, <2>3
  <1>2. CASE S # {}
    <2> DEFINE e == CHOOSE x \in S : TRUE
    <2>1. e \in S
      BY <1>2
    <2>2. HeapEntry = [page_num |-> e.page_num, npages |-> e.npages, prot |-> e.prot]
      BY <1>2 DEF HeapEntry
    <2> HIDE DEF e
    <2>3. e \in entries /\ HeapStart \in Cover(e)
      BY <2>1 DEF Overlapping
    <2>4. e \in Entry /\ e.lo <= e.hi /\ e.page_num = e.lo /\ e.npages = e.hi - e.lo + 1
      BY <2>3 DEF MapInv, Shape, HeapFields
    <2>5. /\ e.lo \in Int /\ e.hi \in Int /\ e.hi < EndPage /\ e.prot \in SUBSET RW
          /\ HeapEntry.npages = e.npages /\ HeapEntry.prot = e.prot /\ e.lo = HeapStart
      BY <2>2, <2>4, EntryBounds DEF Entry
    <2>6. Span(HeapStart, e.npages) = Cover(e)
      BY <2>4, <2>5 DEF Span, Cover
    <2>7. \A p \in Cover(e) : p \in Mapped(entries) /\ ProtAt(entries, p) = e.prot
      BY <2>3, ProtOfEntry DEF MapInv
    <2>8. e.npages \in Nat /\ e.npages # 0 /\ HeapStart + e.npages <= EndPage
      BY <2>4, <2>5, PageBounds
    <2> QED
      BY <2>5, <2>6, <2>7, <2>8
  <1> QED
    BY <1>1, <1>2

\* Moving the break gives the pages it passes to the heap or takes them from it, and
\* touches no other page.
LEMMA BreakFacts ==
    ASSUME MapInv, HeapEntry.page_num = HeapStart, NEW b \in 0..EndPage, b >= HeapStart
    PROVE  LET h == HeapEntry
               old == HeapStart + h.npages
               G == add_entry_with_overwrite(remove_entry(entries, HeapStart, h.npages),
                                             HeapStart, b - HeapStart, h.prot) IN
           /\ Shape(G)
           /\ \A p \in old..(b - 1) : p \in Mapped(G) /\ ProtAt(G, p) = h.prot
           /\ \A p \in b..(old - 1) : p \notin Mapped(G)
           /\ \A p : p \notin old..(b - 1) /\ p \notin b..(old - 1) => SamePage(entries, G, p)
           /\ \A r \in G : HeapStart \in Cover(r) => Exact(r)
  <1> DEFINE k == HeapEntry.npages
             prot == HeapEntry.prot
             old == HeapStart + k
             m == b - HeapStart
             F == remove_entry(entries, HeapStart, k)
             G == add_entry_with_overwrite(F, HeapStart, m, prot)
  <1>0. Shape(entries)
    BY DEF MapInv
  <1>1. /\ k \in Nat /\ old <= EndPage /\ prot \in SUBSET RW
        /\ k = 0 => HeapStart \notin Mapped(entries)
        /\ \A p \in Span(HeapStart, k) : p \in Mapped(entries) /\ ProtAt(entries, p) = prot
    BY HeapEntryFacts
  <1>2. /\ HeapStart \in Pages /\ HeapStart \in Int /\ b \in Int /\ m \in Nat /\ HeapStart + m = b
        /\ b <= EndPage /\ old \in Int /\ EndPage \in Int
    BY <1>1, PageBounds DEF Pages
  <1> HIDE DEF k, prot, old, m
  <1>3. Span(HeapStart, k) = HeapStart..(old - 1) /\ Span(HeapStart, m) = HeapStart..(b - 1)
    BY <1>1, <1>2 DEF Span, old
  <1>4. /\ Shape(F) /\ HeapStart \notin Mapped(F)
        /\ \A p \in HeapStart..(old - 1) : p \notin Mapped(F)
        /\ \A p : p \notin HeapStart..(old - 1) => SamePage(entries, F, p)
    <2>1. CASE k = 0
      <3>1. F = entries /\ old = HeapStart
        BY <1>2, <2>1 DEF remove_entry, old
      <3>2. HeapStart..(old - 1) = {}
        BY <1>2, <3>1
      <3> QED
        BY <1>0, <1>1, <2>1, <3>1, <3>2, SamePageRefl
    <2>2. CASE k # 0
      <3>1. k >= 1 /\ HeapStart \in HeapStart..(old - 1)
        BY <1>1, <1>2, <2>2 DEF old
      <3> QED
        BY <1>0, <1>1, <1>2, <1>3, <3>1, RemoveFacts
    <2> QED
      BY <2>1, <2>2
  <1>5. /\ Shape(G)
        /\ \A p \in HeapStart..(b - 1) : p \in Mapped(G) /\ ProtAt(G, p) = prot
        /\ \A p : p \notin HeapStart..(b - 1) => SamePage(F, G, p)
        /\ \A r \in G : HeapStart \in Cover(r) => Exact(r)
    <2>1. CASE m = 0
      <3>1. G = F /\ HeapStart..(b - 1) = {}
        BY <1>2, <2>1 DEF add_entry_with_overwrite
      <3>2. \A r \in F : HeapStart \notin Cover(r)
        BY <1>4 DEF Mapped
      <3> QED
        BY <1>4, <3>1, <3>2, SamePageRefl
    <2>2. CASE m # 0
      <3>1. m >= 1 /\ HeapStart + m <= EndPage /\ HeapStart \in HeapStart..(b - 1)
        BY <1>2, <2>2
      <3>2. /\ Shape(G)
            /\ \A p \in HeapStart..(b - 1) : p \in Mapped(G) /\ ProtAt(G, p) = prot
            /\ \A p : p \notin HeapStart..(b - 1) => SamePage(F, G, p)
            /\ \A r \in G : \/ r = New(HeapStart, m, prot)
                            \/ Cover(r) \cap (HeapStart..(b - 1)) = {}
        BY <1>1, <1>2, <1>3, <1>4, <3>1, AddFacts
      <3>3. Exact(New(HeapStart, m, prot))
        BY <1>1, <1>2, <3>1, NewFacts DEF Exact
      <3> QED
        BY <3>1, <3>2, <3>3
    <2> QED
      BY <2>1, <2>2
  <1> HIDE DEF F, G
  <1>6. ASSUME NEW p \in old..(b - 1) PROVE p \in Mapped(G) /\ ProtAt(G, p) = prot
    <2>1. p \in HeapStart..(b - 1)
      BY <1>1, <1>2 DEF old
    <2> QED
      BY <1>5, <2>1
  <1>7. ASSUME NEW p \in b..(old - 1) PROVE p \notin Mapped(G)
    <2>1. p \in HeapStart..(old - 1) /\ p \notin HeapStart..(b - 1)
      BY <1>1, <1>2 DEF m
    <2> QED
      BY <1>4, <1>5, <2>1 DEF SamePage
  <1>8. ASSUME NEW p, p \notin old..(b - 1), p \notin b..(old - 1) PROVE SamePage(entries, G, p)
    <2>1. CASE p \in HeapStart..(b - 1)
      <3>1. p \in HeapStart..(old - 1)
        BY <1>1, <1>2, <1>8, <2>1
      <3>2. p \in Mapped(entries) /\ ProtAt(entries, p) = prot
        BY <1>1, <1>3, <3>1
      <3> QED
        BY <1>5, <2>1, <3>2 DEF SamePage
    <2>2. CASE p \notin HeapStart..(b - 1)
      <3>1. p \notin HeapStart..(old - 1)
        BY <1>1, <1>2, <1>8, <2>2
      <3> QED
        BY <1>4, <1>5, <2>2, <3>1 DEF SamePage
    <2> QED
      BY <2>1, <2>2
  <1> QED
    BY <1>5, <1>6, <1>7, <1>8 DEF G, F, m, old, k, prot

\* Nobody is in mmap while the only thread that maps does something else.
LEMMA NobodyMaps ==
    ASSUME OneMapper, Inv, NEW t \in Mappers, NEW j \in Job, job' = [job EXCEPT ![t] = j],
           j.op \notin Mapping
    PROVE  HeapSpared'
  <1>1. /\ t \in Threads /\ Typed /\ JobsTyped /\ job'[t] = j
        /\ \A u \in Threads : u # t => job'[u] = job[u]
    BY ThreadKinds, JobStep DEF Inv, JobInv
  <1>2. \A u \in Threads : job'[u].op \notin Mapping
    BY <1>1, OthersProtect DEF Mapping
  <1> QED
    BY <1>2 DEF HeapSpared

LEMMA BrkMapStep ==
    ASSUME OneMapper, Inv, NEW t \in Mappers, NEW b \in 0..EndPage, BrkMap(t, b),
           HeapEntry.page_num = HeapStart
    PROVE  Inv'
  <1> DEFINE prot == HeapEntry.prot
             old == HeapEntry.page_num + HeapEntry.npages
             lo == IF b > old THEN old ELSE b
             n == IF b > old THEN b - old ELSE old - b
             S == Span(lo, n)
             G == add_entry_with_overwrite(remove_entry(entries, HeapStart, HeapEntry.npages),
                                           HeapStart, b - HeapStart, prot)
             ends == n = 0 \/ old = EndPage \/ b = EndPage
             j == IF ends THEN Idle
                  ELSE [op |-> IF b > old THEN "grow" ELSE "shrink", lo |-> lo, n |-> n,
                        prot |-> IF b > old THEN prot ELSE {}]
  <1>0. t \in Threads /\ Typed /\ JobsTyped /\ MapInv /\ HostAgrees /\ job[t] = Idle /\ Flight(t) = {}
    BY ThreadKinds, IdleFlight DEF Inv, JobInv, BrkMap
  <1>1. HeapEntry.page_num = HeapStart /\ b >= HeapStart /\ MayBreak(t, S)
    BY DEF BrkMap, BreakAllowed
  <1>2. entries' = G /\ host' = host /\ torn' = IF ends THEN torn \cup S ELSE torn
    BY DEF BrkMap
  <1>3. job' = [job EXCEPT ![t] = j]
    <2>1. CASE ends
      BY <1>0, <2>1, SameJob DEF BrkMap
    <2>2. CASE ~ends
      BY <2>2 DEF BrkMap, Start
    <2> QED
      BY <2>1, <2>2
  <1>4. /\ Shape(G)
        /\ \A p \in old..(b - 1) : p \in Mapped(G) /\ ProtAt(G, p) = prot
        /\ \A p \in b..(old - 1) : p \notin Mapped(G)
        /\ \A p : p \notin old..(b - 1) /\ p \notin b..(old - 1) => SamePage(entries, G, p)
        /\ \A r \in G : HeapStart \in Cover(r) => Exact(r)
    BY <1>0, <1>1, BreakFacts
  <1>5. HeapEntry.npages \in Nat /\ old <= EndPage /\ prot \in SUBSET RW
    BY <1>0, <1>1, HeapEntryFacts
  <1>6. old \in Int /\ b \in Int /\ HeapStart \in Int /\ 0 <= old /\ 0 <= b /\ b <= EndPage /\ EndPage \in Int
    BY <1>1, <1>5, PageBounds DEF Pages
  <1> HIDE DEF prot, old, G
  <1>7. /\ lo \in Int /\ 0 <= lo /\ n \in Nat /\ lo + n <= EndPage
        /\ b > old => S = old..(b - 1) /\ b..(old - 1) = {}
        /\ ~(b > old) => S = b..(old - 1) /\ old..(b - 1) = {}
        /\ S \subseteq Pages
    BY <1>5, <1>6 DEF Span, Pages
  <1>8. Apart(t, S)
    BY <1>1, ApartFromOthers
  <1>8a. ~ends => n # 0
    OBVIOUS
  <1> HIDE DEF lo, n, S, ends
  <1>9. /\ j \in Job /\ j.op \notin Mapping /\ j.op # "abort" /\ Span(j.lo, j.n) = IF ends THEN {} ELSE S
        /\ j.op = "none" => j = Idle
        /\ j.op # "none" => /\ ~ends /\ j.n >= 1 /\ j.lo + j.n <= EndPage
                            /\ \/ b > old /\ j.op = "grow" /\ j.prot = prot
                               \/ ~(b > old) /\ j.op = "shrink" /\ j.prot = {}
    <2>1. CASE ends
      BY <1>7, <2>1, IdleJob DEF Mapping
    <2>2. CASE ~ends /\ b > old
      <3>1. n >= 1 /\ j = [op |-> "grow", lo |-> lo, n |-> n, prot |-> prot]
        BY <1>7, <1>8a, <2>2
      <3>2. /\ j \in Job /\ j.op = "grow" /\ j.lo = lo /\ j.n = n /\ j.prot = prot
        BY <1>5, <1>7, <3>1, JobMade
      <3> QED
        BY <1>7, <2>2, <3>1, <3>2 DEF Mapping, S
    <2>3. CASE ~ends /\ ~(b > old)
      <3>1. n >= 1 /\ j = [op |-> "shrink", lo |-> lo, n |-> n, prot |-> {}]
        BY <1>7, <1>8a, <2>3
      <3>2. /\ j \in Job /\ j.op = "shrink" /\ j.lo = lo /\ j.n = n /\ j.prot = {}
        BY <1>7, <3>1, PageBounds DEF Job, Ops
      <3> QED
        BY <1>7, <2>3, <3>1, <3>2 DEF Mapping, S
    <2> QED
      BY <2>1, <2>2, <2>3
  <1> HIDE DEF j
  <1>10. MapInv'
    <2>1. HeapFields'
      BY <1>2, <1>4 DEF HeapFields, Exact
    <2> QED
      BY <1>2, <1>4, <2>1 DEF MapInv
  <1>11. HeapSpared'
    BY <1>3, <1>9, NobodyMaps
  <1>12. Flight(t)' = Span(j.lo, j.n) /\ job'[t] = j
    BY <1>0, <1>3, <1>9, JobStep
  <1>13. CallOK(t)'
    <2>1. CASE j.op = "none"
      BY <1>9, <1>12, <2>1, IdleOK
    <2>2. CASE j.op # "none"
      <3>1. \A p \in S : ProtAt(entries', p) = j.prot
        BY <1>2, <1>4, <1>7, <1>9, <2>2, ProtOfHole
      <3>2. MapDone(t)'
        BY <1>9, <1>12, <2>2, <3>1 DEF MapDone
      <3> QED
        BY <1>9, <1>12, <2>2, <3>2 DEF CallOK, HostDone, Untouched, FoundUnmapped, ProtectMapped
    <2> QED
      BY <2>1, <2>2
  <1>14. MayBeIn(t, j)
    BY <1>8, <1>9 DEF MayBeIn, Apart
  <1>15. Confined(S) /\ Settled(S, j) /\ Settled(Flight(t), j)
    <2>1. \A p : p \notin S => SamePage(entries, G, p)
      BY <1>4, <1>7
    <2> QED
      BY <1>0, <1>2, <1>9, <2>1 DEF Confined, Settled
  <1>16. host' \in [Pages -> SUBSET RW] /\ torn' \subseteq Pages
    BY <1>0, <1>2, <1>7 DEF Typed
  <1> QED
    BY <1>0, <1>3, <1>8, <1>10, <1>11, <1>13, <1>14, <1>15, <1>16, LocalStep

LEMMA BrkHostStep ==
    ASSUME OneMapper, Inv, NEW t \in Mappers, BrkHost(t) \/ BrkFails(t)
    PROVE  Inv'
  <1> DEFINE S == Flight(t)
  <1>0. t \in Threads /\ job[t].op \in {"grow", "shrink"}
    BY ThreadKinds DEF BrkHost, BrkFails
  <1>1. Typed /\ JobsTyped /\ CallOK(t) /\ S \subseteq Pages /\ job[t].prot \in SUBSET RW
    BY <1>0, BusyFacts
  <1>2. job' = [job EXCEPT ![t] = Idle] /\ entries' = entries
    BY DEF BrkHost, BrkFails, Done
  <1>3. MapInv' /\ \A p : SamePage(entries, entries', p)
    BY <1>2, MapKept
  <1>4. HeapSpared'
    BY <1>2, IdleJob, NobodyMaps DEF Mapping
  <1>5. CallOK(t)'
    BY <1>0, <1>1, <1>2, IdleJob, JobStep, IdleOK
  <1>6. Apart(t, S)
    BY <1>0, OwnFlight
  <1>7. \A p \in S : ProtAt(entries, p) = job[t].prot
    BY <1>0, <1>1 DEF CallOK, MapDone
  <1> HIDE DEF S
  <1>8. /\ host' \in [Pages -> SUBSET RW] /\ torn' \subseteq Pages
        /\ Confined(S) /\ Settled(S, Idle)
    <2>1. CASE BrkHost(t)
      <3>1. host' = Protect(S, job[t].prot) /\ torn' = torn \ S
        BY <2>1 DEF BrkHost, S
      <3>2. /\ host' \in [Pages -> SUBSET RW] /\ torn' \subseteq Pages
            /\ \A p \in Pages \ S : host'[p] = host[p]
            /\ \A p \in S : host'[p] = job[t].prot
        BY <1>1, <3>1, ProtectFacts DEF Typed
      <3> QED
        BY <1>2, <1>3, <1>7, <3>1, <3>2 DEF Confined, Settled
    <2>2. CASE BrkFails(t)
      <3>1. host' = host /\ torn = {} /\ torn' = S
        BY <2>2 DEF BrkFails, S
      <3> QED
        BY <1>1, <1>3, <3>1 DEF Confined, Settled, Typed
    <2> QED
      BY <2>1, <2>2
  <1>9. S = Flight(t)
    BY DEF S
  <1> QED
    BY <1>0, <1>2, <1>3, <1>4, <1>5, <1>6, <1>8, <1>9, MayBeIdle, LocalStep
-----------------------------------------------------------------------------
(***************************************************************************)
(* The loops over the entries.  A loop's states are a recursive function   *)
(* of the page reached: that such a function exists is shown page by page, *)
(* and so is what holds of its values.                                     *)
(***************************************************************************)
LEMMA PageByPage ==
    ASSUME NEW T, 0 \in T, \A p \in 0..EndPage : p \in T /\ p < EndPage => p + 1 \in T
    PROVE  0..EndPage \subseteq T
  <1> DEFINE Bad == {p \in 0..EndPage : p \notin T}
             R == OpToRel(<, Nat)
  <1>1. IsWellFoundedOn(R, Nat)
    BY NatLessThanWellFounded
  <1>2. \A x, y \in Nat : x < y => <<x, y>> \in R
    BY DEF OpToRel
  <1>3. Bad \subseteq Nat
    BY PageBounds
  <1> HIDE DEF R, Bad
  <1> SUFFICES ASSUME Bad # {} PROVE FALSE
    BY DEF Bad
  <1>4. PICK x \in Bad : \A y \in Bad : ~ (<<y, x>> \in R)
    BY <1>1, <1>3, WFMin
  <1>5. x \in 0..EndPage /\ x # 0 /\ x \notin T
    BY DEF Bad
  <1>6. x - 1 \in 0..EndPage /\ x - 1 < EndPage /\ x - 1 \in Nat /\ x \in Nat /\ x - 1 < x /\ (x - 1) + 1 = x
    BY <1>5, PageBounds
  <1>7. x - 1 \notin Bad
    BY <1>2, <1>4, <1>6
  <1>8. x - 1 \in T
    BY <1>6, <1>7 DEF Bad
  <1> QED
    BY <1>5, <1>6, <1>8

ScanStart(lo) == [cur |-> lo, res |-> "go", hit |-> {}]

\* The state of check_addr_mapping's loop after the entries of S that start before p.
ScanBody(f, p, S, lo, n, want) ==
    IF p = 0 THEN ScanStart(lo)
    ELSE IF \E e \in S : e.lo = p - 1
         THEN ScanStep(f[p - 1], CHOOSE e \in S : e.lo = p - 1, lo + n, want)
         ELSE f[p - 1]

LEMMA ScanLoop ==
    ASSUME NEW E, NEW lo, NEW n, NEW want
    PROVE  \E f : /\ f = [p \in 0..EndPage |-> ScanBody(f, p, Overlapping(E, Span(lo, n)), lo, n, want)]
                  /\ Scan(E, lo, n, want) = f[EndPage]
  <1> DEFINE S == Overlapping(E, Span(lo, n))
             Loop(g, m) == g = [p \in 0..m |-> ScanBody(g, p, S, lo, n, want)]
             T == {m \in 0..EndPage : \E g : Loop(g, m)}
  <1>1. 0 \in T
    <2> DEFINE g == [p \in 0..0 |-> ScanStart(lo)]
    <2>1. \A h, p : p \in 0..0 => ScanBody(h, p, S, lo, n, want) = ScanStart(lo)
      BY DEF ScanBody
    <2>2. Loop(g, 0)
      BY <2>1
    <2> QED
      BY <2>2, PageBounds
  <1>2. ASSUME NEW m \in 0..EndPage, m \in T, m < EndPage PROVE m + 1 \in T
    <2>1. PICK g : Loop(g, m)
      BY <1>2
    <2> DEFINE h == [p \in 0..(m + 1) |-> IF p = m + 1 THEN ScanBody(g, p, S, lo, n, want) ELSE g[p]]
    <2>2. ASSUME NEW p \in 0..(m + 1) PROVE h[p] = ScanBody(h, p, S, lo, n, want)
      <3>1. p # 0 => p - 1 \in 0..m /\ p - 1 # m + 1 /\ p - 1 \in 0..(m + 1)
        BY PageBounds
      <3>2. p # 0 => h[p - 1] = g[p - 1]
        BY <3>1
      <3>3. ScanBody(h, p, S, lo, n, want) = ScanBody(g, p, S, lo, n, want)
        BY <3>2 DEF ScanBody
      <3>4. CASE p = m + 1
        BY <3>3, <3>4
      <3>5. CASE p # m + 1
        <4>1. p \in 0..m
          BY <3>5, PageBounds
        <4> QED
          BY <3>3, <3>5, <4>1, <2>1
      <3> QED
        BY <3>4, <3>5
    <2>3. Loop(h, m + 1)
      BY <2>2
    <2>4. m + 1 \in 0..EndPage
      BY <1>2, PageBounds
    <2> QED
      BY <2>3, <2>4
  <1>3. EndPage \in T
    <2> HIDE DEF T
    <2>1. 0..EndPage \subseteq T
      BY <1>1, <1>2, PageByPage
    <2> QED
      BY <2>1, PageBounds
  <1>4. PICK g : Loop(g, EndPage)
    BY <1>3
  <1> DEFINE f == CHOOSE x : x = [p \in 0..EndPage |-> ScanBody(x, p, S, lo, n, want)]
  <1>5. f = [p \in 0..EndPage |-> ScanBody(f, p, S, lo, n, want)]
    BY <1>4
  <1>6. Scan(E, lo, n, want) = f[EndPage]
    BY DEF Scan, InOrder, ScanBody, ScanStart
  <1> QED
    BY <1>5, <1>6

\* A record names its entry's interval and maybe more, never a page that does not exist.
FieldsCover(E) ==
    \A e \in E : e.page_num <= e.lo /\ e.hi < e.page_num + e.npages /\ e.page_num + e.npages <= EndPage

ScanState == [cur: Int, res: {"go", "yes", "no"}, hit: {{}} \cup {{r} : r \in Record}]

RecordOf(e) == [page_num |-> e.page_num, npages |-> e.npages, prot |-> e.prot]

\* One turn of the loop, with an entry that lets the access or one that does not.
LEMMA ScanStepFacts ==
    ASSUME NEW a \in ScanState, NEW e \in Entry, NEW end \in Int, NEW want
    PROVE  LET b == ScanStep(a, e, end, want)
               last == e.page_num + e.npages IN
           /\ b \in ScanState
           /\ a.res # "go" => b = a
           /\ a.res = "go" /\ Allows(e.prot, want) =>
                 IF e.page_num <= a.cur /\ end <= last THEN b.res = "yes"
                 ELSE IF e.page_num <= a.cur /\ a.cur < last THEN b.res = "go" /\ b.cur = last
                 ELSE IF a.cur < e.page_num THEN b.res = "no"
                 ELSE b = a
  <1>1. e.page_num \in Int /\ e.npages \in Int /\ e.page_num + e.npages \in Int
    BY PageBounds DEF Entry, Pages
  <1>2. RecordOf(e) \in Record
    BY DEF RecordOf, Record, Entry
  <1>3. /\ a.cur \in Int /\ a.res \in {"go", "yes", "no"} /\ a.hit \in {{}} \cup {{r} : r \in Record}
        /\ a = [cur |-> a.cur, res |-> a.res, hit |-> a.hit]
    BY DEF ScanState
  <1> DEFINE ok == Allows(e.prot, want)
             last == e.page_num + e.npages
             b == ScanStep(a, e, end, want)
  <1>4. b = IF a.res # "go" THEN a
            ELSE IF e.page_num <= a.cur /\ end <= last
                 THEN [cur |-> a.cur, res |-> IF ok THEN "yes" ELSE "go", hit |-> {RecordOf(e)}]
            ELSE IF e.page_num <= a.cur /\ a.cur < last
                 THEN IF ok THEN [cur |-> last, res |-> a.res, hit |-> a.hit]
                            ELSE [cur |-> a.cur, res |-> "no", hit |-> a.hit]
            ELSE IF a.cur < e.page_num THEN [cur |-> a.cur, res |-> "no", hit |-> a.hit]
            ELSE a
    <2>0. \A x : [a EXCEPT !.hit = x] = [cur |-> a.cur, res |-> a.res, hit |-> x]
      BY <1>3
    <2>4. \A c, r, h, y : [[cur |-> c, res |-> r, hit |-> h] EXCEPT !.res = y] = [cur |-> c, res |-> y, hit |-> h]
      OBVIOUS
    <2>1. ASSUME NEW x, NEW y PROVE [a EXCEPT !.hit = x, !.res = y] = [cur |-> a.cur, res |-> y, hit |-> x]
      <3> DEFINE z == [a EXCEPT !.hit = x]
      <3>1. z = [cur |-> a.cur, res |-> a.res, hit |-> x]
        BY <2>0
      <3> HIDE DEF z
      <3>2. [z EXCEPT !.res = y] = [cur |-> a.cur, res |-> y, hit |-> x]
        BY <3>1, <2>4
      <3> QED
        BY <3>2 DEF z
    <2>2. \A x : [a EXCEPT !.cur = x] = [cur |-> x, res |-> a.res, hit |-> a.hit]
      BY <1>3
    <2>3. \A y : [a EXCEPT !.res = y] = [cur |-> a.cur, res |-> y, hit |-> a.hit]
      BY <1>3
    <2> QED
      BY <2>1, <2>2, <2>3, Zenon DEF ScanStep, RecordOf, ok
  <1> HIDE DEF ok, b
  <1>5. b \in ScanState
    BY <1>1, <1>2, <1>3, <1>4 DEF ScanState
  <1>6. a.res # "go" => b = a
    BY <1>4
  <1>7. a.res = "go" /\ ok =>
           IF e.page_num <= a.cur /\ end <= last THEN b.res = "yes"
           ELSE IF e.page_num <= a.cur /\ a.cur < last THEN b.res = "go" /\ b.cur = last
           ELSE IF a.cur < e.page_num THEN b.res = "no"
           ELSE b = a
    <2> HIDE DEF last
    <2> QED
      BY <1>4
  <1> QED
    BY <1>5, <1>6, <1>7 DEF b, ok

\* The entry of a loop's turn is the one that starts at the page.
LEMMA TurnEntry ==
    ASSUME NEW E, Shape(E), NEW S, S \subseteq E, NEW p, \E e \in S : e.lo = p
    PROVE  LET x == CHOOSE e \in S : e.lo = p IN
           x \in S /\ x \in Entry /\ x.lo = p /\ \A e \in S : e.lo = p => e = x
  <1> DEFINE x == CHOOSE e \in S : e.lo = p
  <1>1. x \in S /\ x.lo = p
    OBVIOUS
  <1>2. ASSUME NEW e \in S, e.lo = p PROVE e = x
    <2>1. e \in Entry /\ x \in Entry /\ e.lo <= e.hi /\ x.lo <= x.hi
      BY <1>1 DEF Shape
    <2>2. p \in Cover(e) /\ p \in Cover(x)
      BY <1>1, <1>2, <2>1, EntryBounds
    <2> QED
      BY <1>1, <2>2 DEF Shape
  <1> QED
    BY <1>1, <1>2 DEF Shape

\* Whatever the map holds, the record to remember is one entry's or there is none.
LEMMA ScanTyped ==
    ASSUME NEW E, Shape(E), NEW lo \in Int, NEW n \in Int, NEW want
    PROVE  Scan(E, lo, n, want) \in ScanState
  <1> DEFINE S == Overlapping(E, Span(lo, n))
  <1>0. S \subseteq E
    BY DEF Overlapping
  <1>1. PICK f : /\ f = [p \in 0..EndPage |-> ScanBody(f, p, S, lo, n, want)]
                 /\ Scan(E, lo, n, want) = f[EndPage]
    BY ScanLoop
  <1> HIDE DEF S
  <1> DEFINE T == {p \in 0..EndPage : f[p] \in ScanState}
  <1>2. 0 \in T
    <2>1. 0 \in 0..EndPage
      BY PageBounds
    <2>2. f[0] = ScanStart(lo)
      BY <1>1, <2>1 DEF ScanBody
    <2> QED
      BY <2>1, <2>2 DEF ScanStart, ScanState
  <1>3. ASSUME NEW p \in 0..EndPage, p \in T, p < EndPage PROVE p + 1 \in T
    <2>1. p + 1 \in 0..EndPage /\ p + 1 # 0 /\ (p + 1) - 1 = p
      BY <1>3, PageBounds
    <2>2. f[p + 1] = ScanBody(f, p + 1, S, lo, n, want)
      BY <1>1, <2>1
    <2>3. CASE \E e \in S : e.lo = p
      <3> DEFINE x == CHOOSE e \in S : e.lo = p
      <3>1. x \in Entry
        BY <1>0, <2>3, TurnEntry
      <3>2. f[p + 1] = ScanStep(f[p], x, lo + n, want)
        BY <2>1, <2>2, <2>3 DEF ScanBody
      <3>3. f[p] \in ScanState /\ lo + n \in Int
        BY <1>3
      <3> HIDE DEF x
      <3>4. f[p + 1] \in ScanState
        BY <3>1, <3>2, <3>3, ScanStepFacts
      <3> QED
        BY <2>1, <3>4
    <2>4. CASE ~ \E e \in S : e.lo = p
      BY <1>3, <2>1, <2>2, <2>4 DEF ScanBody
    <2> QED
      BY <2>3, <2>4
  <1>4. EndPage \in T
    <2> HIDE DEF T
    <2>1. 0..EndPage \subseteq T
      BY <1>2, <1>3, PageByPage
    <2> QED
      BY <2>1, PageBounds
  <1> QED
    BY <1>1, <1>4

\* An access that is let needs an entry.
LEMMA AllowedMapped ==
    ASSUME NEW E, NEW p, NEW want, want # {}, Allows(ProtAt(E, p), want)
    PROVE  \E e \in E : p \in Cover(e)
  BY ProtOfHole, MappedCovered DEF Allows

\* A range whose pages all let the access is accepted: current_page has passed every
\* entry so far and is within the range, so that no entry can start behind it.
LEMMA ScanPasses ==
    ASSUME NEW E, Shape(E), FieldsCover(E),
           NEW lo \in Pages, NEW n \in Nat, n >= 1, lo + n <= EndPage, NEW want, want # {},
           \A p \in Span(lo, n) : Allows(ProtAt(E, p), want)
    PROVE  Scan(E, lo, n, want).res = "yes"
  <1> DEFINE S == Overlapping(E, Span(lo, n))
             end == lo + n
  <1>0. S \subseteq E /\ \A e \in E : e \in S <=> Cover(e) \cap Span(lo, n) # {}
    BY DEF Overlapping
  <1>1. PICK f : /\ f = [p \in 0..EndPage |-> ScanBody(f, p, S, lo, n, want)]
                 /\ Scan(E, lo, n, want) = f[EndPage]
    BY ScanLoop
  <1>2. lo \in Int /\ end \in Int /\ \A p : p \in Span(lo, n) <=> p \in Int /\ lo <= p /\ p < end
    BY PageBounds DEF Pages, Span
  <1>3. ASSUME NEW e \in S
        PROVE  /\ e \in Entry /\ e.lo <= e.hi /\ e.lo \in Int /\ e.hi \in Int
               /\ e.page_num \in Int /\ e.npages \in Int /\ e.hi < EndPage
               /\ e.page_num <= e.lo /\ e.hi < e.page_num + e.npages
               /\ Allows(e.prot, want)
    <2>1. e \in Entry /\ e \in E /\ e.lo <= e.hi
      BY <1>0 DEF Shape
    <2>2. PICK p : p \in Cover(e) /\ p \in Span(lo, n)
      BY <1>0
    <2>3. Allows(e.prot, want)
      BY <2>1, <2>2, ProtOfEntry
    <2>4. e.page_num \in Int /\ e.npages \in Int
      BY <2>1, PageBounds DEF Entry, Pages
    <2> QED
      BY <2>1, <2>3, <2>4, EntryBounds DEF FieldsCover
  <1>4. ASSUME NEW p \in Span(lo, n) PROVE \E e \in S : e.lo <= p /\ p <= e.hi
    <2>1. PICK e \in E : p \in Cover(e)
      BY AllowedMapped
    <2>2. e \in S /\ e \in Entry
      BY <1>0, <2>1 DEF Shape
    <2> QED
      BY <2>1, <2>2, EntryBounds
  <1> HIDE DEF S, end
  <1> DEFINE Going(a, p) == /\ a.res = "go" /\ a.cur \in Int /\ lo <= a.cur /\ a.cur < end
                            /\ \A e \in S : e.lo < p => e.hi < a.cur
             Good(a, p) == a \in ScanState /\ (a.res = "yes" \/ Going(a, p))
             T == {p \in 0..EndPage : Good(f[p], p)}
  <1>5. 0 \in T
    <2>1. 0 \in 0..EndPage
      BY PageBounds
    <2>2. f[0] = ScanStart(lo)
      BY <1>1, <2>1 DEF ScanBody
    <2>3. \A e \in S : ~(e.lo < 0)
      BY <1>3, EntryBounds
    <2>4. ScanStart(lo) \in ScanState /\ ScanStart(lo).res = "go" /\ ScanStart(lo).cur = lo
      BY <1>2 DEF ScanStart, ScanState
    <2>5. lo < end
      BY <1>2 DEF end
    <2> QED
      BY <1>2, <2>1, <2>2, <2>3, <2>4, <2>5
  <1>6. ASSUME NEW p \in 0..EndPage, p \in T, p < EndPage PROVE p + 1 \in T
    <2>1. p \in Int /\ p + 1 \in 0..EndPage /\ p + 1 # 0 /\ (p + 1) - 1 = p
      BY <1>6, PageBounds
    <2>2. f[p + 1] = ScanBody(f, p + 1, S, lo, n, want)
      BY <1>1, <2>1
    <2>3. Good(f[p], p)
      BY <1>6
    <2>4. CASE \E e \in S : e.lo = p
      <3> DEFINE x == CHOOSE e \in S : e.lo = p
                 a == f[p]
                 b == f[p + 1]
                 last == x.page_num + x.npages
      <3>1. x \in S /\ x.lo = p /\ \A e \in S : e.lo = p => e = x
        BY <1>0, <2>4, TurnEntry
      <3>2. b = ScanStep(a, x, end, want)
        BY <2>1, <2>2, <2>4 DEF ScanBody, end
      <3>3. a \in ScanState
        BY <2>3
      <3>4. b \in ScanState /\ (a.res # "go" => b = a)
        BY <1>2, <1>3, <3>1, <3>2, <3>3, ScanStepFacts
      <3>5. CASE a.res = "yes"
        BY <3>4, <3>5, <2>1
      <3>6. CASE Going(a, p)
        <4>1. x.page_num <= a.cur
          <5> SUFFICES ASSUME ~(x.page_num <= a.cur) PROVE FALSE
            OBVIOUS
          <5>1. a.cur \in Span(lo, n)
            BY <1>2, <3>6
          <5>2. PICK e \in S : e.lo <= a.cur /\ a.cur <= e.hi
            BY <1>4, <5>1
          <5>3. e.lo < p /\ e.hi < a.cur
            BY <1>3, <3>1, <3>6, <5>2
          <5> QED
            BY <1>3, <3>6, <5>2, <5>3
        <4>2. IF end <= last THEN b.res = "yes"
              ELSE IF a.cur < last THEN b.res = "go" /\ b.cur = last ELSE b = a
          <5>1. a.res = "go" /\ Allows(x.prot, want) /\ x \in Entry
            BY <1>3, <3>1, <3>6
          <5>2. IF x.page_num <= a.cur /\ end <= last THEN b.res = "yes"
                ELSE IF x.page_num <= a.cur /\ a.cur < last THEN b.res = "go" /\ b.cur = last
                ELSE IF a.cur < x.page_num THEN b.res = "no"
                ELSE b = a
            BY <1>2, <3>2, <3>3, <5>1, ScanStepFacts
          <5>3. ~(a.cur < x.page_num)
            BY <1>3, <3>1, <3>6, <4>1
          <5> QED
            BY <4>1, <5>2, <5>3, Zenon
        <4>3. \A e \in S : e.lo < p + 1 => e.lo < p \/ e = x
          BY <1>3, <2>1, <3>1
        <4>4. last \in Int /\ x.hi < last /\ x.hi \in Int
          BY <1>3, <3>1
        <4> HIDE DEF x, last, a, b
        <4>5. CASE end <= last
          BY <3>4, <4>2, <4>5, <2>1 DEF b
        <4>6. CASE ~(end <= last) /\ a.cur < last
          <5>1. b.res = "go" /\ b.cur = last
            BY <4>2, <4>6
          <5>2. lo <= last /\ last < end
            BY <1>2, <3>6, <4>4, <4>6
          <5>3. \A e \in S : e.lo < p + 1 => e.hi < last
            BY <1>3, <3>6, <4>3, <4>4, <4>6
          <5> QED
            BY <2>1, <3>4, <4>4, <5>1, <5>2, <5>3 DEF b
        <4>7. CASE ~(end <= last) /\ ~(a.cur < last)
          <5>1. b = a
            BY <4>2, <4>7
          <5>2. \A e \in S : e.lo < p + 1 => e.hi < a.cur
            BY <1>3, <3>6, <4>3, <4>4, <4>7
          <5> QED
            BY <2>1, <3>4, <3>6, <5>1, <5>2 DEF b
        <4> QED
          BY <4>5, <4>6, <4>7
      <3> QED
        BY <2>3, <3>5, <3>6
    <2>5. CASE ~ \E e \in S : e.lo = p
      <3>1. f[p + 1] = f[p]
        BY <2>1, <2>2, <2>5 DEF ScanBody
      <3>2. \A e \in S : e.lo < p + 1 => e.lo < p
        BY <1>3, <2>1, <2>5
      <3> QED
        BY <2>1, <2>3, <3>1, <3>2
    <2> QED
      BY <2>4, <2>5
  <1>7. EndPage \in T
    <2> HIDE DEF T
    <2>1. 0..EndPage \subseteq T
      BY <1>5, <1>6, PageByPage
    <2> QED
      BY <2>1, PageBounds
  <1>8. ~Going(f[EndPage], EndPage)
    <2> SUFFICES ASSUME Going(f[EndPage], EndPage) PROVE FALSE
      OBVIOUS
    <2>1. end - 1 \in Span(lo, n)
      BY <1>2 DEF end
    <2>2. PICK e \in S : e.lo <= end - 1 /\ end - 1 <= e.hi
      BY <1>4, <2>1
    <2>3. e.lo < EndPage
      BY <1>3, PageBounds
    <2> QED
      BY <1>2, <1>3, <2>2, <2>3
  <1> QED
    BY <1>1, <1>7, <1>8

\* The child's pages after the entries that start before p.
ForkStart == [prot |-> [q \in Pages |-> {}], data |-> {}, fault |-> FALSE]
ForkBody(f, p, E) ==
    IF p = 0 THEN ForkStart
    ELSE IF \E e \in E : e.lo = p - 1
         THEN ForkEntry(f[p - 1], CHOOSE e \in E : e.lo = p - 1)
         ELSE f[p - 1]

LEMMA ForkLoop ==
    ASSUME NEW E
    PROVE  \E f : /\ f = [p \in 0..EndPage |-> ForkBody(f, p, E)]
                  /\ fork_vmmap(E) = f[EndPage]
  <1> DEFINE Loop(g, m) == g = [p \in 0..m |-> ForkBody(g, p, E)]
             T == {m \in 0..EndPage : \E g : Loop(g, m)}
  <1>1. 0 \in T
    <2> DEFINE g == [p \in 0..0 |-> ForkStart]
    <2>1. \A h, p : p \in 0..0 => ForkBody(h, p, E) = ForkStart
      BY DEF ForkBody
    <2>2. Loop(g, 0)
      BY <2>1
    <2> QED
      BY <2>2, PageBounds
  <1>2. ASSUME NEW m \in 0..EndPage, m \in T, m < EndPage PROVE m + 1 \in T
    <2>1. PICK g : Loop(g, m)
      BY <1>2
    <2> DEFINE h == [p \in 0..(m + 1) |-> IF p = m + 1 THEN ForkBody(g, p, E) ELSE g[p]]
    <2>2. ASSUME NEW p \in 0..(m + 1) PROVE h[p] = ForkBody(h, p, E)
      <3>1. p # 0 => p - 1 \in 0..m /\ p - 1 # m + 1 /\ p - 1 \in 0..(m + 1)
        BY PageBounds
      <3>2. p # 0 => h[p - 1] = g[p - 1]
        BY <3>1
      <3>3. ForkBody(h, p, E) = ForkBody(g, p, E)
        BY <3>2 DEF ForkBody
      <3>4. CASE p = m + 1
        BY <3>3, <3>4
      <3>5. CASE p # m + 1
        <4>1. p \in 0..m
          BY <3>5, PageBounds
        <4> QED
          BY <3>3, <3>5, <4>1, <2>1
      <3> QED
        BY <3>4, <3>5
    <2>3. Loop(h, m + 1)
      BY <2>2
    <2>4. m + 1 \in 0..EndPage
      BY <1>2, PageBounds
    <2> QED
      BY <2>3, <2>4
  <1>3. EndPage \in T
    <2> HIDE DEF T
    <2>1. 0..EndPage \subseteq T
      BY <1>1, <1>2, PageByPage
    <2> QED
      BY <2>1, PageBounds
  <1>4. PICK g : Loop(g, EndPage)
    BY <1>3
  <1> DEFINE f == CHOOSE x : x = [p \in 0..EndPage |-> ForkBody(x, p, E)]
  <1>5. f = [p \in 0..EndPage |-> ForkBody(f, p, E)]
    BY <1>4
  <1>6. fork_vmmap(E) = f[EndPage]
    BY DEF fork_vmmap, InOrder, ForkBody, ForkStart
  <1> QED
    BY <1>5, <1>6

ForkState == [prot: [Pages -> SUBSET RW], data: SUBSET Pages, fault: BOOLEAN]

\* What the child has of page q, which e covers.
Copied(c, e, q) ==
    c.prot[q] # {} /\ ((\A r \in e.page_num..q : host[r] # {}) => q \in c.data)

\* One turn of the loop: what has been given and copied stays, and an entry that is not
\* PROT_NONE gives the pages of its fields and copies those before the first hole.
LEMMA ForkEntryFacts ==
    ASSUME NEW c \in ForkState, NEW x \in Entry, x.page_num + x.npages <= EndPage
    PROVE  LET d == ForkEntry(c, x) IN
           /\ d \in ForkState
           /\ d.fault => c.fault \/ (x.prot # {} /\ host[x.page_num] = {})
           /\ ~d.fault => ~c.fault
           /\ \A q \in Pages : c.prot[q] # {} => d.prot[q] # {}
           /\ c.data \subseteq d.data
           /\ x.prot # {} /\ ~d.fault => \A q \in Fields(x) : Copied(d, x, q)
  <1> DEFINE d == ForkEntry(c, x)
             holes == {p \in Fields(x) : host[p] = {}}
             upto == {p \in Fields(x) : \A q \in holes : p < q}
             newprot == [p \in Pages |-> IF p \in Fields(x) THEN x.prot ELSE c.prot[p]]
  <1>1. /\ c.prot \in [Pages -> SUBSET RW] /\ c.data \subseteq Pages /\ c.fault \in BOOLEAN
        /\ x.page_num \in Int /\ x.npages \in Int /\ x.npages >= 1 /\ 0 <= x.page_num /\ x.prot \in SUBSET RW
    BY PageBounds DEF ForkState, Entry, Pages
  <1>2. Fields(x) \subseteq Pages /\ x.page_num \in Fields(x)
    BY <1>1, PageBounds DEF Fields, Span, Pages
  <1>3. CASE c.fault \/ x.prot = {}
    <2>1. d = c
      BY <1>3 DEF ForkEntry
    <2> HIDE DEF d
    <2> QED
      BY <1>1, <1>3, <2>1 DEF d
  <1>4. CASE ~c.fault /\ x.prot # {} /\ host[x.page_num] = {}
    <2>1. d = [c EXCEPT !.fault = TRUE]
      BY <1>2, <1>4 DEF ForkEntry
    <2>2. d \in ForkState /\ d.fault /\ d.prot = c.prot /\ d.data = c.data
      BY <2>1 DEF ForkState
    <2> HIDE DEF d
    <2> QED
      BY <1>4, <2>2 DEF d
  <1>5. CASE ~c.fault /\ x.prot # {} /\ host[x.page_num] # {}
    <2>1. d = [c EXCEPT !.prot = newprot, !.data = c.data \cup upto]
      BY <1>5 DEF ForkEntry
    <2>2. newprot \in [Pages -> SUBSET RW] /\ upto \subseteq Pages
      BY <1>1, <1>2
    <2>3. \A q \in Fields(x) : newprot[q] # {}
      BY <1>2, <1>5
    <2>4. \A q \in Pages : c.prot[q] # {} => newprot[q] # {}
      BY <1>5
    <2>5. ASSUME NEW q \in Fields(x), \A r \in x.page_num..q : host[r] # {} PROVE q \in upto
      <3> SUFFICES ASSUME NEW h \in holes PROVE q < h
        OBVIOUS
      <3>1. h \in Int /\ q \in Int /\ x.page_num <= h /\ host[h] = {}
        BY <1>1 DEF Fields, Span
      <3> QED
        BY <2>5, <3>1, <1>1
    <2> HIDE DEF newprot, upto, d
    <2>6. d \in ForkState /\ d.prot = newprot /\ d.data = c.data \cup upto /\ d.fault = c.fault
      BY <1>1, <2>1, <2>2 DEF ForkState
    <2> QED
      BY <1>5, <2>3, <2>4, <2>5, <2>6 DEF d, Copied
  <1> QED
    BY <1>1, <1>3, <1>4, <1>5

\* What the child has when the loop is done.
LEMMA ForkOutcome ==
    ASSUME NEW E, Shape(E), FieldsCover(E)
    PROVE  LET c == fork_vmmap(E) IN
           /\ c.fault => \E e \in E : e.prot # {} /\ host[e.page_num] = {}
           /\ ~c.fault => \A e \in E : e.prot # {} => \A q \in Cover(e) : Copied(c, e, q)
  <1>1. PICK f : /\ f = [p \in 0..EndPage |-> ForkBody(f, p, E)] /\ fork_vmmap(E) = f[EndPage]
    BY ForkLoop
  <1>2. ASSUME NEW e \in E
        PROVE  /\ e \in Entry /\ Cover(e) \subseteq Fields(e) /\ Cover(e) \subseteq Pages
               /\ e.lo \in Int /\ 0 <= e.lo /\ e.lo < EndPage /\ e.page_num + e.npages <= EndPage
    <2>1. e \in Entry /\ e.lo <= e.hi
      BY DEF Shape
    <2>2. e.lo \in Int /\ e.hi \in Int /\ 0 <= e.lo /\ e.hi < EndPage /\ Cover(e) \subseteq Pages
      BY <2>1, EntryBounds
    <2>3. e.page_num \in Int /\ e.npages \in Int
      BY <2>1, PageBounds DEF Entry, Pages
    <2>4. e.page_num <= e.lo /\ e.hi < e.page_num + e.npages /\ e.page_num + e.npages <= EndPage
      BY DEF FieldsCover
    <2>5. Cover(e) \subseteq Fields(e)
      BY <2>2, <2>3, <2>4 DEF Fields, Span, Cover
    <2> QED
      BY <2>1, <2>2, <2>4, <2>5, PageBounds
  <1> DEFINE Stopped == \E e \in E : e.prot # {} /\ host[e.page_num] = {}
             Given(c, p) == \A e \in E : e.prot # {} /\ e.lo < p => \A q \in Cover(e) : Copied(c, e, q)
             T == {p \in 0..EndPage : /\ f[p] \in ForkState /\ (f[p].fault => Stopped)
                                      /\ ~f[p].fault => Given(f[p], p)}
  <1>3. 0 \in T
    <2>1. f[0] = ForkStart
      BY <1>1, PageBounds DEF ForkBody
    <2>2. f[0] \in ForkState /\ f[0].fault = FALSE
      BY <2>1 DEF ForkStart, ForkState
    <2>3. Given(f[0], 0)
      BY <1>2
    <2> QED
      BY <2>2, <2>3, PageBounds
  <1>4. ASSUME NEW p \in 0..EndPage, p \in T, p < EndPage PROVE p + 1 \in T
    <2>1. p \in Int /\ p + 1 \in 0..EndPage /\ p + 1 # 0 /\ (p + 1) - 1 = p
      BY <1>4, PageBounds
    <2>2. f[p + 1] = ForkBody(f, p + 1, E)
      BY <1>1, <2>1
    <2>3. f[p] \in ForkState /\ (f[p].fault => Stopped) /\ (~f[p].fault => Given(f[p], p))
      BY <1>4
    <2>4. CASE \E d \in E : d.lo = p
      <3> DEFINE x == CHOOSE d \in E : d.lo = p
                 c == f[p]
                 d == f[p + 1]
      <3>1. x \in E /\ x.lo = p /\ \A y \in E : y.lo = p => y = x
        BY <2>4, TurnEntry
      <3>2. d = ForkEntry(c, x)
        BY <2>1, <2>2, <2>4 DEF ForkBody
      <3> HIDE DEF x, Stopped
      <3>3. x \in Entry /\ x.page_num + x.npages <= EndPage
        BY <1>2, <3>1
      <3>4. /\ d \in ForkState
            /\ d.fault => c.fault \/ (x.prot # {} /\ host[x.page_num] = {})
            /\ ~d.fault => ~c.fault
            /\ \A q \in Pages : c.prot[q] # {} => d.prot[q] # {}
            /\ c.data \subseteq d.data
            /\ x.prot # {} /\ ~d.fault => \A q \in Fields(x) : Copied(d, x, q)
        BY <2>3, <3>2, <3>3, ForkEntryFacts
      <3> HIDE DEF c, d
      <3>5. d.fault => Stopped
        BY <2>3, <3>1, <3>4 DEF Stopped, c
      <3>6. ASSUME ~d.fault, NEW e \in E, e.prot # {}, e.lo < p + 1, NEW q \in Cover(e)
            PROVE  Copied(d, e, q)
        <4>1. CASE e = x
          BY <1>2, <3>4, <3>6, <4>1
        <4>2. CASE e # x
          <5>1. e.lo < p
            BY <1>2, <2>1, <3>1, <3>6, <4>2
          <5>2. Copied(c, e, q) /\ q \in Pages
            BY <1>2, <2>3, <3>4, <3>6, <5>1 DEF c
          <5> QED
            BY <3>4, <5>2 DEF Copied
        <4> QED
          BY <4>1, <4>2
      <3> QED
        BY <2>1, <3>4, <3>5, <3>6 DEF d
    <2>5. CASE ~ \E d \in E : d.lo = p
      <3>1. f[p + 1] = f[p]
        BY <2>1, <2>2, <2>5 DEF ForkBody
      <3>2. \A e \in E : e.lo < p + 1 => e.lo < p
        BY <1>2, <2>1, <2>5
      <3> QED
        BY <2>1, <2>3, <3>1, <3>2
    <2> QED
      BY <2>4, <2>5
  <1>5. EndPage \in T
    <2> HIDE DEF T
    <2>1. 0..EndPage \subseteq T
      BY <1>3, <1>4, PageByPage
    <2> QED
      BY <2>1, PageBounds
  <1>6. ~f[EndPage].fault => \A e \in E : e.prot # {} => \A q \in Cover(e) : Copied(f[EndPage], e, q)
    BY <1>2, <1>5
  <1> QED
    BY <1>1, <1>5, <1>6
-----------------------------------------------------------------------------
(***************************************************************************)
(* What holds for any program, however many threads map and whatever they  *)
(* ask for: the intervals stay apart and no record loses a page of its     *)
(* interval.  No hypothesis beyond VmmapAssumption in this section.        *)
(***************************************************************************)
Regular(E) == Shape(E) /\ FieldsCover(E)

LEMMA RemoveKeeps ==
    ASSUME NEW E, Regular(E), NEW lo \in Int, NEW n \in Nat
    PROVE  Regular(remove_entry(E, lo, n))
  <1> DEFINE F == remove_entry(E, lo, n)
             hi == lo + n - 1
  <1>1. CASE n = 0
    BY <1>1 DEF remove_entry
  <1>2. CASE n # 0
    <2>1. Shape(F)
      BY <1>2, RemoveFacts DEF Regular
    <2>2. ASSUME NEW r \in F
          PROVE  \E e \in E : /\ r.page_num = e.page_num /\ r.npages = e.npages
                              /\ e.lo <= r.lo /\ r.hi <= e.hi
      <3>1. CASE r \in E
        BY <3>1, EntryBounds DEF Regular, Shape
      <3>2. CASE r \notin E
        <4>1. PICK e \in E : r \in Cut(e, lo, hi)
          BY <1>2, <3>2 DEF remove_entry, Overlapping
        <4>2. e \in Entry /\ e.lo \in Int /\ e.hi \in Int
          BY EntryBounds DEF Regular, Shape
        <4>3. r \in {[e EXCEPT !.hi = lo - 1], [e EXCEPT !.lo = hi + 1]}
              /\ r.lo <= r.hi /\ Cover(r) \subseteq Cover(e)
          BY <4>1 DEF Cut
        <4>4. r.page_num = e.page_num /\ r.npages = e.npages /\ r.lo \in Int /\ r.hi \in Int
          BY <4>2, <4>3 DEF Entry
        <4>5. r.lo \in Cover(r) /\ r.hi \in Cover(r)
          BY <4>3, <4>4 DEF Cover
        <4>6. r.lo \in Cover(e) /\ r.hi \in Cover(e)
          BY <4>3, <4>5
        <4> QED
          BY <4>2, <4>4, <4>6 DEF Cover
      <3> QED
        BY <3>1, <3>2
    <2>3. ASSUME NEW r \in F
          PROVE  r.page_num <= r.lo /\ r.hi < r.page_num + r.npages /\ r.page_num + r.npages <= EndPage
      <3>1. PICK e \in E : /\ r.page_num = e.page_num /\ r.npages = e.npages
                           /\ e.lo <= r.lo /\ r.hi <= e.hi
        BY <2>2
      <3>2. e.page_num <= e.lo /\ e.hi < e.page_num + e.npages /\ e.page_num + e.npages <= EndPage
        BY DEF Regular, FieldsCover
      <3>3. r \in Entry /\ e \in Entry
        BY <2>1 DEF Regular, Shape
      <3>4. r.lo \in Int /\ r.hi \in Int /\ e.lo \in Int /\ e.hi \in Int /\ e.page_num \in Int /\ e.npages \in Int
        BY <3>3, PageBounds DEF Entry, Pages
      <3> QED
        BY <3>1, <3>2, <3>4, PageBounds
    <2> QED
      BY <2>1, <2>3 DEF Regular, FieldsCover
  <1> QED
    BY <1>1, <1>2

\* An entry whose record is exact.
LEMMA ExactCovers ==
    ASSUME NEW e \in Entry, Exact(e)
    PROVE  e.page_num <= e.lo /\ e.hi < e.page_num + e.npages /\ e.page_num + e.npages <= EndPage
  BY EntryBounds, PageBounds DEF Exact

LEMMA AddKeeps ==
    ASSUME NEW E, Regular(E), NEW lo \in Pages, NEW n \in Nat, lo + n <= EndPage, NEW prot \in SUBSET RW
    PROVE  Regular(add_entry_with_overwrite(E, lo, n, prot))
  <1> DEFINE F == remove_entry(E, lo, n)
             G == add_entry_with_overwrite(E, lo, n, prot)
             e == New(lo, n, prot)
  <1>1. CASE n = 0
    BY <1>1 DEF add_entry_with_overwrite
  <1>2. CASE n # 0
    <2>1. G = F \cup {e}
      BY <1>2 DEF add_entry_with_overwrite
    <2>2. Shape(G)
      BY <1>2, AddFacts DEF Regular
    <2>3. Regular(F)
      BY RemoveKeeps, PageBounds DEF Pages
    <2>4. e \in Entry /\ Exact(e)
      BY <1>2, NewFacts DEF Exact
    <2> HIDE DEF F, G, e
    <2>5. FieldsCover(G)
      BY <2>1, <2>3, <2>4, ExactCovers DEF Regular, FieldsCover
    <2> QED
      BY <2>2, <2>5 DEF Regular, G
  <1> QED
    BY <1>1, <1>2

LEMMA ChangeKeeps ==
    ASSUME NEW E, Regular(E), NEW lo \in Pages, NEW n \in Nat, n >= 1, lo + n <= EndPage,
           NEW prot \in SUBSET RW
    PROVE  Regular(change_prot(E, lo, n, prot))
  <1> DEFINE G == change_prot(E, lo, n, prot)
  <1>1. Shape(G) /\ \A r \in G : r \in E \/ Exact(r)
    BY ChangeFacts DEF Regular
  <1> HIDE DEF G
  <1>2. \A r \in G : r \in Entry
    BY <1>1 DEF Shape
  <1>3. FieldsCover(G)
    BY <1>1, <1>2, ExactCovers DEF Regular, FieldsCover
  <1> QED
    BY <1>1, <1>3 DEF Regular, G

\* At most one record is remembered.
OneCached == cached \in {{}} \cup {{r} : r \in Record}

\* The assertion in brk_syscall has taken the host down: nothing happens any more.
Aborted == \A t \in Threads : job[t].op = "abort"

AnyInv == Typed /\ (JobsTyped \/ Aborted) /\ Regular(entries) /\ OneCached

\* Who does something is not aborted.
LEMMA Active ==
    ASSUME AnyInv, NEW t \in Threads, job[t].op # "abort"
    PROVE  JobsTyped
  BY DEF AnyInv, Aborted

LEMMA IdleActive ==
    ASSUME AnyInv, NEW t \in Threads, job[t] = Idle
    PROVE  JobsTyped
  BY Active DEF Idle

\* A step that leaves the map and the remembered record alone, or keeps them regular.
LEMMA AnyStep ==
    ASSUME AnyInv, JobsTyped, NEW t \in Threads, NEW j \in Job, job' = [job EXCEPT ![t] = j],
           j.op # "abort", j.op = "none" => j = Idle,
           j.op # "none" => j.n >= 1 /\ j.lo + j.n <= EndPage,
           j.op \in MapperOps => t \in Mappers,
           host' \in [Pages -> SUBSET RW], torn' \subseteq Pages, Regular(entries'), cached' = cached
    PROVE  AnyInv'
  <1>1. job' \in [Threads -> Job] /\ job'[t] = j /\ \A u \in Threads : u # t => job'[u] = job[u]
    BY JobStep DEF AnyInv
  <1>2. Typed'
    BY <1>1 DEF Typed
  <1>3. ASSUME NEW u \in Threads
        PROVE  /\ job'[u].op # "abort" /\ (job'[u].op = "none" => job'[u] = Idle)
               /\ job'[u].op # "none" => job'[u].n >= 1 /\ job'[u].lo + job'[u].n <= EndPage
               /\ job'[u].op \in MapperOps => u \in Mappers
    <2>1. CASE u = t
      BY <1>1, <2>1
    <2>2. CASE u # t
      BY <1>1, <2>2 DEF JobsTyped
    <2> QED
      BY <2>1, <2>2
  <1>4. JobsTyped'
    BY <1>3 DEF JobsTyped
  <1>5. OneCached'
    BY DEF AnyInv, OneCached
  <1> QED
    BY <1>2, <1>4, <1>5 DEF AnyInv

\* The same for a step that changes no call.
LEMMA AnyQuiet ==
    ASSUME AnyInv, job' = job, host' \in [Pages -> SUBSET RW], torn' \subseteq Pages,
           Regular(entries'), OneCached'
    PROVE  AnyInv'
  BY DEF AnyInv, Typed, JobsTyped, Aborted

LEMMA AnyInit == Init => AnyInv
  <1> SUFFICES ASSUME Init PROVE AnyInv
    OBVIOUS
  <1> DEFINE e == New(0, HeapStart, RW)
  <1>1. e \in Entry /\ e.lo <= e.hi /\ Exact(e)
    BY PageBounds, NewFacts DEF Exact, Pages
  <1>2. entries = {e}
    BY DEF Init
  <1> HIDE DEF e
  <1>3. Regular(entries)
    BY <1>1, <1>2, ExactCovers DEF Regular, Shape, FieldsCover
  <1>4. Typed /\ JobsTyped
    BY IdleJob, PageBounds DEF Init, Typed, JobsTyped, RW, MapperOps
  <1> QED
    BY <1>3, <1>4 DEF AnyInv, OneCached, Init

LEMMA AnyMmap ==
    ASSUME AnyInv, NEW t \in Mappers,
           \/ \E first \in Pages, n \in 1..MaxPages, prot \in Prots : MmapFind(t, first, n, prot)
           \/ \E r \in Ranges, prot \in Prots : MmapFixed(t, r[1], r[2], prot)
           \/ MmapHost(t) \/ MmapAdd(t) \/ MmapFails(t)
    PROVE  AnyInv'
  <1>0. /\ t \in Threads /\ Typed /\ JobsTyped /\ Regular(entries)
        /\ host \in [Pages -> SUBSET RW] /\ torn \subseteq Pages
    <2>1. t \in Threads /\ job[t].op # "abort"
      BY ThreadKinds DEF MmapFind, MmapFixed, MmapHost, MmapAdd, MmapFails, Idle
    <2> QED
      BY <2>1, Active DEF AnyInv, Typed
  <1>1. ASSUME NEW first \in Pages, NEW n \in 1..MaxPages, NEW prot \in Prots, MmapFind(t, first, n, prot)
        PROVE  AnyInv'
    <2>1. n \in Nat /\ n >= 1 /\ prot \in SUBSET RW
      BY VmmapAssumption DEF RW
    <2>2. PICK lo \in find_map_space(entries, first, n) : Start(t, "found", lo, n, prot)
      BY <1>1 DEF MmapFind
    <2>3. lo \in Int /\ 0 <= lo /\ lo + n <= EndPage
      BY <2>1, FindFacts, PageBounds DEF Pages
    <2> DEFINE j == [op |-> "found", lo |-> lo, n |-> n, prot |-> prot]
    <2>4. j \in Job /\ j.op # "none" /\ j.op # "abort" /\ j.lo = lo /\ j.n = n
      BY <2>1, <2>3, JobMade
    <2>5. job' = [job EXCEPT ![t] = j] /\ UNCHANGED <<entries, cached, host, torn>>
      BY <1>1, <2>2 DEF MmapFind, Start
    <2> HIDE DEF j
    <2> QED
      BY <1>0, <2>1, <2>3, <2>4, <2>5, AnyStep
  <1>2. ASSUME NEW r \in Ranges, NEW prot \in Prots, MmapFixed(t, r[1], r[2], prot) PROVE AnyInv'
    <2> DEFINE j == [op |-> "fixed", lo |-> r[1], n |-> r[2], prot |-> prot]
    <2>1. r[1] \in Int /\ 0 <= r[1] /\ r[2] \in Nat /\ r[2] >= 1 /\ r[1] + r[2] <= EndPage /\ prot \in SUBSET RW
      BY RangeFacts, VmmapAssumption DEF RW
    <2>2. j \in Job /\ j.op # "none" /\ j.op # "abort" /\ j.lo = r[1] /\ j.n = r[2]
      BY <2>1, JobMade
    <2>3. job' = [job EXCEPT ![t] = j] /\ UNCHANGED <<entries, cached, host, torn>>
      BY <1>2 DEF MmapFixed, Start
    <2> HIDE DEF j
    <2> QED
      BY <1>0, <2>1, <2>2, <2>3, AnyStep
  <1>3. ASSUME MmapHost(t) PROVE AnyInv'
    <2> DEFINE j == [job[t] EXCEPT !.op = "add"]
    <2>1. job[t].op # "none" /\ job[t] \in Job
      BY <1>0, <1>3, FlightFacts DEF MmapHost
    <2>2. job[t].n >= 1 /\ job[t].lo + job[t].n <= EndPage /\ job[t].prot \in SUBSET RW
      BY <1>0, <2>1 DEF JobsTyped, Job
    <2>3. j \in Job /\ j.op # "none" /\ j.op # "abort" /\ j.lo = job[t].lo /\ j.n = job[t].n
      BY <2>1 DEF Job, Ops
    <2>4. job' = [job EXCEPT ![t] = j] /\ UNCHANGED <<entries, cached, torn>>
      BY <1>3 DEF MmapHost
    <2>5. host' \in [Pages -> SUBSET RW]
      BY <1>0, <1>3, <2>2, ProtectFacts DEF MmapHost
    <2> HIDE DEF j
    <2> QED
      BY <1>0, <2>2, <2>3, <2>4, <2>5, AnyStep
  <1>4. ASSUME MmapAdd(t) PROVE AnyInv'
    <2>1. /\ job[t].lo \in Pages /\ job[t].n \in Nat /\ job[t].lo + job[t].n <= EndPage
          /\ job[t].prot \in SUBSET RW
      BY <1>0, <1>4, FlightFacts DEF MmapAdd, Job
    <2>2. Regular(entries')
      BY <1>0, <1>4, <2>1, AddKeeps DEF MmapAdd
    <2>3. job' = [job EXCEPT ![t] = Idle] /\ host' = host /\ cached' = cached /\ torn' \subseteq Pages
      BY <1>0, <1>4 DEF MmapAdd, Done
    <2> QED
      BY <1>0, <2>2, <2>3, IdleJob, AnyStep DEF MapperOps
  <1>5. ASSUME MmapFails(t) PROVE AnyInv'
    <2>1. job' = [job EXCEPT ![t] = Idle] /\ UNCHANGED <<entries, cached, host, torn>>
      BY <1>5 DEF MmapFails, Done
    <2> QED
      BY <1>0, <2>1, IdleJob, AnyStep DEF MapperOps
  <1> QED
    BY <1>1, <1>2, <1>3, <1>4, <1>5

LEMMA AnyUnmap ==
    ASSUME AnyInv, NEW t \in Users,
           \/ \E r \in Ranges : Munmap(t, r[1], r[2])
           \/ \E r \in Ranges, prot \in Prots : MprotectHost(t, r[1], r[2], prot)
           \/ MprotectMap(t)
    PROVE  AnyInv'
  <1>0. /\ t \in Threads /\ Typed /\ JobsTyped /\ Regular(entries) /\ OneCached
        /\ host \in [Pages -> SUBSET RW] /\ torn \subseteq Pages
    <2>1. t \in Threads /\ (job[t] = Idle \/ job[t].op = "protect")
      BY ThreadKinds DEF Munmap, MprotectHost, MprotectMap
    <2> QED
      BY <2>1, Active, IdleActive DEF AnyInv, Typed
  <1>1. ASSUME NEW r \in Ranges, Munmap(t, r[1], r[2]) PROVE AnyInv'
    <2> DEFINE S == Span(r[1], r[2]) \cap Mapped(entries)
    <2>1. r[1] \in Int /\ r[2] \in Nat /\ Span(r[1], r[2]) \subseteq Pages
      BY RangeFacts
    <2>2. cached' = cached /\ job' = job
      BY <1>1 DEF Munmap
    <2>3. \/ host' = Protect(S, {}) /\ entries' = remove_entry(entries, r[1], r[2]) /\ torn' = torn \ S
          \/ \E x : host' = Protect({p \in S : p < x}, {}) /\ torn' = {p \in S : p < x} /\ entries' = entries
      BY <1>1 DEF Munmap
    <2>4. host' \in [Pages -> SUBSET RW]
      <3>1. {} \in SUBSET RW
        OBVIOUS
      <3>2. \A X : Protect(X, {}) \in [Pages -> SUBSET RW]
        BY <1>0, <3>1, ProtectFacts
      <3> QED
        BY <2>3, <3>2, Zenon
    <2>5. Regular(entries')
      BY <1>0, <2>1, <2>3, RemoveKeeps
    <2>6. torn' \subseteq Pages
      BY <1>0, <2>1, <2>3
    <2> QED
      BY <1>0, <2>2, <2>4, <2>5, <2>6, AnyQuiet DEF OneCached
  <1>2. ASSUME NEW r \in Ranges, NEW prot \in Prots, MprotectHost(t, r[1], r[2], prot) PROVE AnyInv'
    <2> DEFINE j == [op |-> "protect", lo |-> r[1], n |-> r[2], prot |-> prot]
    <2>1. r[1] \in Int /\ 0 <= r[1] /\ r[2] \in Nat /\ r[2] >= 1 /\ r[1] + r[2] <= EndPage /\ prot \in SUBSET RW
      BY RangeFacts, VmmapAssumption DEF RW
    <2>2. j \in Job /\ j.op = "protect" /\ j.lo = r[1] /\ j.n = r[2]
      BY <2>1, JobMade
    <2>3. job' = [job EXCEPT ![t] = j] /\ UNCHANGED <<entries, cached, torn>>
      BY <1>2 DEF MprotectHost, Start
    <2>4. host' \in [Pages -> SUBSET RW]
      BY <1>0, <1>2, <2>1, ProtectFacts DEF MprotectHost
    <2> HIDE DEF j
    <2> QED
      BY <1>0, <2>1, <2>2, <2>3, <2>4, AnyStep DEF MapperOps
  <1>3. ASSUME MprotectMap(t) PROVE AnyInv'
    <2>1. /\ job[t].lo \in Pages /\ job[t].n \in Nat /\ job[t].n >= 1 /\ job[t].lo + job[t].n <= EndPage
          /\ job[t].prot \in SUBSET RW
      BY <1>0, <1>3, FlightFacts DEF MprotectMap, Job
    <2>2. Regular(entries')
      BY <1>0, <1>3, <2>1, ChangeKeeps DEF MprotectMap
    <2>3. job' = [job EXCEPT ![t] = Idle] /\ host' = host /\ cached' = cached /\ torn' \subseteq Pages
      BY <1>0, <1>3 DEF MprotectMap, Done
    <2> QED
      BY <1>0, <2>2, <2>3, IdleJob, AnyStep DEF MapperOps
  <1> QED
    BY <1>1, <1>2, <1>3

\* The heap's entry, whatever its fields say.
LEMMA AnyHeapEntry ==
    ASSUME Regular(entries), HeapEntry.page_num = HeapStart
    PROVE  /\ HeapEntry.npages \in Nat /\ HeapStart + HeapEntry.npages <= EndPage
           /\ HeapEntry.prot \in SUBSET RW
  <1> DEFINE S == Overlapping(entries, {HeapStart})
  <1>1. CASE S = {}
    BY <1>1, PageBounds DEF HeapEntry
  <1>2. CASE S # {}
    <2> DEFINE e == CHOOSE x \in S : TRUE
    <2>1. e \in S /\ HeapEntry = [page_num |-> e.page_num, npages |-> e.npages, prot |-> e.prot]
      BY <1>2 DEF HeapEntry
    <2> HIDE DEF e
    <2>2. e \in Entry /\ e.page_num + e.npages <= EndPage
      BY <2>1 DEF Overlapping, Regular, Shape, FieldsCover
    <2> QED
      BY <2>1, <2>2, PageBounds DEF Entry
  <1> QED
    BY <1>1, <1>2

LEMMA AnyBrkMap ==
    ASSUME AnyInv, NEW t \in Mappers, NEW b \in 0..EndPage, BrkMap(t, b)
    PROVE  AnyInv'
  <1>0. /\ t \in Threads /\ Typed /\ JobsTyped /\ Regular(entries) /\ OneCached
        /\ host \in [Pages -> SUBSET RW] /\ torn \subseteq Pages
    <2>1. t \in Threads /\ job[t] = Idle
      BY ThreadKinds DEF BrkMap
    <2> QED
      BY <2>1, IdleActive DEF AnyInv, Typed
  <1>1. CASE HeapEntry.page_num # HeapStart
    <2>1. /\ job' = [u \in Threads |-> [job[u] EXCEPT !.op = "abort"]]
          /\ entries' = entries /\ torn' = torn /\ cached' = cached /\ host' = host
      BY <1>1 DEF BrkMap
    <2>2. \A u \in Threads : job[u] \in Job
      BY <1>0 DEF Typed
    <2>3. \A u \in Threads : job'[u] \in Job /\ job'[u].op = "abort"
      BY <2>1, <2>2 DEF Job, Ops
    <2>4. job' \in [Threads -> Job]
      BY <2>1, <2>3
    <2> QED
      BY <1>0, <2>1, <2>3, <2>4 DEF AnyInv, Typed, Aborted, OneCached
  <1>2. CASE HeapEntry.page_num = HeapStart
    <2> DEFINE k == HeapEntry.npages
               old == HeapEntry.page_num + HeapEntry.npages
               lo == IF b > old THEN old ELSE b
               n == IF b > old THEN b - old ELSE old - b
               op == IF b > old THEN "grow" ELSE "shrink"
               prot == IF b > old THEN HeapEntry.prot ELSE {}
               j == [op |-> op, lo |-> lo, n |-> n, prot |-> prot]
               ends == n = 0 \/ old = EndPage \/ b = EndPage
    <2>1. b >= HeapStart
      BY <1>2 DEF BrkMap, BreakAllowed
    <2>2. k \in Nat /\ HeapStart + k <= EndPage /\ HeapEntry.prot \in SUBSET RW
      BY <1>0, <1>2, AnyHeapEntry
    <2>3. /\ b \in Int /\ 0 <= b /\ b <= EndPage /\ b - HeapStart \in Nat /\ HeapStart + (b - HeapStart) <= EndPage
          /\ HeapStart \in Pages /\ HeapStart \in Int
      BY <2>1, PageBounds
    <2>4. Regular(remove_entry(entries, HeapStart, k))
      BY <1>0, <2>2, <2>3, RemoveKeeps
    <2>5. Regular(entries')
      <3>1. entries' = add_entry_with_overwrite(remove_entry(entries, HeapStart, k),
                                                HeapStart, b - HeapStart, HeapEntry.prot)
        BY <1>2 DEF BrkMap
      <3> HIDE DEF k
      <3> QED
        BY <2>2, <2>3, <2>4, <3>1, AddKeeps
    <2>6. /\ lo \in Int /\ 0 <= lo /\ n \in Nat /\ lo + n <= EndPage /\ prot \in SUBSET RW
          /\ op \in {"grow", "shrink"} /\ Span(lo, n) \subseteq Pages
      <3>1. /\ lo \in Int /\ 0 <= lo /\ n \in Nat /\ lo + n <= EndPage /\ prot \in SUBSET RW
            /\ op \in {"grow", "shrink"}
        BY <1>2, <2>1, <2>2, <2>3, PageBounds
      <3> HIDE DEF lo, n
      <3> QED
        BY <3>1, PageBounds DEF Span, Pages
    <2>7. /\ UNCHANGED <<cached, host>>
          /\ IF ends THEN job' = job /\ torn' = torn \cup Span(lo, n)
             ELSE job' = [job EXCEPT ![t] = j] /\ torn' = torn
      BY <1>2 DEF BrkMap, Start
    <2>8. ~ends => n # 0
      OBVIOUS
    <2> HIDE DEF lo, n, op, prot, ends
    <2>9. CASE ends
      <3>1. torn' \subseteq Pages
        BY <1>0, <2>6, <2>7, <2>9
      <3> QED
        BY <1>0, <2>5, <2>7, <2>9, <3>1, AnyQuiet DEF OneCached
    <2>10. CASE ~ends
      <3>1. n >= 1
        BY <2>6, <2>8, <2>10
      <3>2. j \in Job /\ j.op # "none" /\ j.op # "abort" /\ j.lo = lo /\ j.n = n
        BY <2>6, <3>1, JobMade
      <3> HIDE DEF j
      <3> QED
        BY <1>0, <2>5, <2>6, <2>7, <2>10, <3>1, <3>2, AnyStep
    <2> QED
      BY <2>9, <2>10
  <1> QED
    BY <1>1, <1>2

LEMMA AnyBrkHost ==
    ASSUME AnyInv, NEW t \in Mappers, BrkHost(t) \/ BrkFails(t)
    PROVE  AnyInv'
  <1>0. /\ t \in Threads /\ Typed /\ JobsTyped /\ Regular(entries) /\ OneCached
        /\ host \in [Pages -> SUBSET RW] /\ torn \subseteq Pages
    <2>1. t \in Threads /\ job[t].op # "abort"
      BY ThreadKinds DEF BrkHost, BrkFails
    <2> QED
      BY <2>1, Active DEF AnyInv, Typed
  <1>1. Flight(t) \subseteq Pages /\ job[t].prot \in SUBSET RW
    BY <1>0, FlightFacts DEF Job
  <1>2. job' = [job EXCEPT ![t] = Idle] /\ entries' = entries /\ cached' = cached
    BY DEF BrkHost, BrkFails, Done
  <1>3. host' \in [Pages -> SUBSET RW]
    BY <1>0, <1>1, ProtectFacts DEF BrkHost, BrkFails
  <1>4. torn' \subseteq Pages
    BY <1>0, <1>1 DEF BrkHost, BrkFails
  <1> QED
    BY <1>0, <1>2, <1>3, <1>4, IdleJob, AnyStep DEF MapperOps

LEMMA AnyCheck ==
    ASSUME AnyInv, NEW c \in Checks, Check(c[1], c[2], c[3])
    PROVE  AnyInv'
  <1>1. c[1] \in Int /\ c[2] \in Int
    BY VmmapAssumption, PageBounds
  <1>2. Scan(entries, c[1], c[2], c[3]) \in ScanState
    BY <1>1, ScanTyped DEF AnyInv, Regular
  <1>3. cached' = Scan(entries, c[1], c[2], c[3]).hit /\ UNCHANGED <<entries, host, job, torn>>
    BY DEF Check
  <1>4. OneCached'
    BY <1>2, <1>3 DEF ScanState, OneCached
  <1> QED
    BY <1>3, <1>4, AnyQuiet DEF AnyInv, Typed

LEMMA AnyNext == AnyInv /\ [Next]_vars => AnyInv'
  <1> SUFFICES ASSUME AnyInv, [Next]_vars PROVE AnyInv'
    OBVIOUS
  <1>1. CASE Next
    BY <1>1, AnyMmap, AnyUnmap, AnyBrkMap, AnyBrkHost, AnyCheck DEF Next
  <1>2. CASE UNCHANGED vars
    BY <1>2, AnyQuiet DEF vars, AnyInv, Typed, OneCached
  <1> QED
    BY <1>1, <1>2

\* For any program: the intervals stay apart and every record covers its interval.
THEOREM VmmapRegular == Spec => []AnyInv
  BY AnyInit, AnyNext, PTL DEF Spec

\* The state of the memory map keeps its type, the remembered record included.
THEOREM VmmapTypeOK == Spec => []TypeOK
  <1>1. AnyInv => TypeOK
    <2> SUFFICES ASSUME AnyInv PROVE TypeOK
      OBVIOUS
    <2>1. cached \subseteq Record /\ Cardinality(cached) <= 1
      <3>1. CASE cached = {}
        BY <3>1, FS_EmptySet
      <3>2. CASE \E r \in Record : cached = {r}
        BY <3>2, FS_Singleton
      <3> QED
        BY <3>1, <3>2 DEF AnyInv, OneCached
    <2> QED
      BY <2>1 DEF TypeOK, AnyInv, Typed, Regular, Shape
  <1> QED
    BY <1>1, VmmapRegular, PTL

\* No EFAULT for good memory: check_addr_mapping accepts every buffer whose pages all
\* have an entry that lets the access, for any program and any number of threads.
THEOREM VmmapCheckComplete == Spec => []CheckComplete
  <1>1. AnyInv => CheckComplete
    <2> SUFFICES ASSUME AnyInv, NEW r \in Ranges, NEW want \in (SUBSET RW) \ {{}},
                        \A p \in Span(r[1], r[2]) : Allows(ProtOf(p), want)
                 PROVE  check_addr_mapping(entries, cached, r[1], r[2], want)
      BY DEF CheckComplete
    <2>1. r[1] \in Pages /\ r[2] \in Nat /\ r[2] >= 1 /\ r[1] + r[2] <= EndPage
      BY RangeFacts
    <2>2. \A p \in Span(r[1], r[2]) : Allows(ProtAt(entries, p), want)
      BY ProtOfAt
    <2>3. Scan(entries, r[1], r[2], want).res = "yes"
      BY <2>1, <2>2, ScanPasses DEF AnyInv, Regular
    <2> QED
      BY <2>3 DEF check_addr_mapping
  <1> QED
    BY <1>1, VmmapRegular, PTL

\* fork_vmmap fails only over a record that starts on a page without access; otherwise
\* every page the parent may touch is accessible and, unless its own record names one
\* without access before it, copied.  For any program and any number of threads.
THEOREM VmmapForkCopies == Spec => []ForkCopies
  <1>1. AnyInv => ForkCopies
    <2> SUFFICES ASSUME AnyInv PROVE ForkCopies
      OBVIOUS
    <2>1. Shape(entries) /\ FieldsCover(entries)
      BY DEF AnyInv, Regular
    <2> QED
      BY <2>1, ForkOutcome DEF ForkCopies, Copied
  <1> QED
    BY <1>1, VmmapRegular, PTL
-----------------------------------------------------------------------------
(***************************************************************************)
(* The heap's record, for a careful program: pages below heap_start keep   *)
(* an entry, no entry reaches over heap_start from below, and no mmap in   *)
(* progress does.                                                          *)
(***************************************************************************)
HeapKept(E)  == \A e \in E : e.hi < HeapStart \/ HeapStart <= e.page_num
LowMapped(E) == \A p \in Pages : p < HeapStart => p \in Mapped(E)
JobsAbove    == \A t \in Threads : job[t].op \in Mapping => HeapStart <= job[t].lo
HeapInv      == HeapKept(entries) /\ LowMapped(entries) /\ JobsAbove /\ BrkNeverAborts

LEMMA HeapRemove ==
    ASSUME NEW E, Shape(E), HeapKept(E), LowMapped(E), NEW lo \in Int, NEW n \in Nat, HeapStart <= lo
    PROVE  HeapKept(remove_entry(E, lo, n)) /\ LowMapped(remove_entry(E, lo, n))
  <1> DEFINE F == remove_entry(E, lo, n)
             hi == lo + n - 1
  <1>1. CASE n = 0
    BY <1>1 DEF remove_entry
  <1>2. CASE n # 0
    <2>1. \A p : p \notin Span(lo, n) => SamePage(E, F, p)
      BY <1>2, RemoveFacts
    <2>2. \A p \in Pages : p < HeapStart => p \notin Span(lo, n)
      BY PageBounds DEF Span, Pages
    <2>3. LowMapped(F)
      BY <2>1, <2>2 DEF LowMapped, SamePage
    <2>4. ASSUME NEW r \in F PROVE r.hi < HeapStart \/ HeapStart <= r.page_num
      <3>1. CASE r \in E
        BY <3>1 DEF HeapKept
      <3>2. CASE r \notin E
        <4>1. PICK e \in E : r \in Cut(e, lo, hi)
          BY <1>2, <3>2 DEF remove_entry, Overlapping
        <4>2. e \in Entry /\ e.lo \in Int /\ e.hi \in Int
          BY EntryBounds DEF Shape
        <4>3. r \in {[e EXCEPT !.hi = lo - 1], [e EXCEPT !.lo = hi + 1]}
              /\ r.lo <= r.hi /\ Cover(r) \subseteq Cover(e)
          BY <4>1 DEF Cut
        <4>4. r.page_num = e.page_num /\ r.lo \in Int /\ r.hi \in Int
          BY <4>2, <4>3 DEF Entry
        <4>5. r.hi \in Cover(e)
          BY <4>3, <4>4 DEF Cover
        <4>6. r.hi <= e.hi
          BY <4>2, <4>5 DEF Cover
        <4> QED
          BY <4>2, <4>4, <4>6, PageBounds DEF HeapKept
      <3> QED
        BY <3>1, <3>2
    <2> QED
      BY <2>3, <2>4 DEF HeapKept
  <1> QED
    BY <1>1, <1>2

LEMMA HeapAdd ==
    ASSUME NEW E, Shape(E), HeapKept(E), LowMapped(E), NEW lo \in Pages, NEW n \in Nat, HeapStart <= lo,
           lo + n <= EndPage, NEW prot \in SUBSET RW
    PROVE  LET G == add_entry_with_overwrite(E, lo, n, prot) IN HeapKept(G) /\ LowMapped(G)
  <1> DEFINE F == remove_entry(E, lo, n)
             G == add_entry_with_overwrite(E, lo, n, prot)
             e == New(lo, n, prot)
  <1>0. lo \in Int
    BY PageBounds DEF Pages
  <1>1. CASE n = 0
    BY <1>1 DEF add_entry_with_overwrite
  <1>2. CASE n # 0
    <2>1. G = F \cup {e}
      BY <1>2 DEF add_entry_with_overwrite
    <2>2. HeapKept(F) /\ LowMapped(F)
      BY <1>0, HeapRemove
    <2>3. e.page_num = lo
      BY DEF New
    <2> HIDE DEF F, G, e
    <2>4. HeapKept(G)
      BY <2>1, <2>2, <2>3 DEF HeapKept
    <2>5. LowMapped(G)
      BY <2>1, <2>2 DEF LowMapped, Mapped
    <2> QED
      BY <2>4, <2>5 DEF G
  <1> QED
    BY <1>1, <1>2

LEMMA HeapChange ==
    ASSUME NEW E, Regular(E), HeapKept(E), LowMapped(E), NEW lo \in Pages, NEW n \in Nat, n >= 1,
           lo + n <= EndPage, NEW prot \in SUBSET RW
    PROVE  LET G == change_prot(E, lo, n, prot) IN HeapKept(G) /\ LowMapped(G)
  <1> DEFINE G == change_prot(E, lo, n, prot)
  <1>1. /\ Shape(G) /\ Mapped(G) = Mapped(E)
        /\ \A r \in G : r \in E \/ (Exact(r) /\ \E e \in E : Cover(r) \subseteq Cover(e))
    BY ChangeFacts DEF Regular
  <1> HIDE DEF G
  <1>2. ASSUME NEW r \in G PROVE r.hi < HeapStart \/ HeapStart <= r.page_num
    <2>1. CASE r \in E
      BY <2>1 DEF HeapKept
    <2>2. CASE r \notin E
      <3>1. PICK e \in E : Cover(r) \subseteq Cover(e)
        BY <1>1, <2>2
      <3>2. r.page_num = r.lo
        BY <1>1, <2>2 DEF Exact
      <3>3. r \in Entry /\ r.lo <= r.hi /\ e \in Entry /\ e.page_num <= e.lo
        BY <1>1 DEF Shape, Regular, FieldsCover
      <3>4. /\ r.lo \in Int /\ r.hi \in Int /\ e.lo \in Int /\ e.hi \in Int /\ e.page_num \in Int
        BY <3>3, PageBounds DEF Entry, Pages
      <3>5. r.lo \in Cover(r) /\ r.hi \in Cover(r)
        BY <3>3, <3>4 DEF Cover
      <3>6. e.lo <= r.lo /\ r.hi <= e.hi
        BY <3>1, <3>4, <3>5 DEF Cover
      <3>7. e.hi < HeapStart \/ HeapStart <= e.page_num
        BY DEF HeapKept
      <3> QED
        BY <3>2, <3>3, <3>4, <3>6, <3>7, PageBounds
    <2> QED
      BY <2>1, <2>2
  <1> QED
    BY <1>1, <1>2 DEF HeapKept, LowMapped, G

\* The record that brk finds at heap_start starts there.
LEMMA HeapRecord ==
    ASSUME Regular(entries), HeapKept(entries)
    PROVE  HeapEntry.page_num = HeapStart
  <1> DEFINE S == Overlapping(entries, {HeapStart})
  <1>1. CASE S = {}
    BY <1>1 DEF HeapEntry
  <1>2. CASE S # {}
    <2> DEFINE e == CHOOSE x \in S : TRUE
    <2>1. e \in S /\ HeapEntry.page_num = e.page_num
      BY <1>2 DEF HeapEntry
    <2> HIDE DEF e
    <2>2. e \in entries /\ HeapStart \in Cover(e) /\ e \in Entry
      BY <2>1 DEF Overlapping, Regular, Shape
    <2>3. e.lo <= HeapStart /\ HeapStart <= e.hi /\ e.lo \in Int /\ e.hi \in Int /\ e.page_num \in Int
      BY <2>2, EntryBounds, PageBounds DEF Entry, Pages
    <2>4. e.page_num <= e.lo /\ (e.hi < HeapStart \/ HeapStart <= e.page_num)
      BY <2>2 DEF Regular, FieldsCover, HeapKept
    <2> QED
      BY <2>1, <2>3, <2>4, PageBounds
  <1> QED
    BY <1>1, <1>2

\* A step that keeps the map so, and starts no mmap below the heap.
LEMMA HeapStep ==
    ASSUME Typed, HeapInv, NEW t \in Threads, NEW j \in Job, job' = [job EXCEPT ![t] = j],
           j.op # "abort", j.op \in Mapping => HeapStart <= j.lo,
           HeapKept(entries'), LowMapped(entries')
    PROVE  HeapInv'
  <1>1. job'[t] = j /\ \A u \in Threads : u # t => job'[u] = job[u]
    BY JobStep
  <1>2. JobsAbove'
    BY <1>1 DEF HeapInv, JobsAbove
  <1>3. BrkNeverAborts'
    BY <1>1 DEF HeapInv, BrkNeverAborts
  <1> QED
    BY <1>2, <1>3 DEF HeapInv, HeapKept, LowMapped

LEMMA HeapQuiet ==
    ASSUME HeapInv, job' = job, HeapKept(entries'), LowMapped(entries')
    PROVE  HeapInv'
  BY DEF HeapInv, JobsAbove, BrkNeverAborts, HeapKept, LowMapped

LEMMA HeapSame == ASSUME HeapInv, entries' = entries PROVE HeapKept(entries') /\ LowMapped(entries')
  BY DEF HeapInv

\* A range that is off the program's own pages lies above them.
LEMMA OffOwnPages ==
    ASSUME Disciplined, NEW t, NEW r \in Ranges, MayReplace(t, Span(r[1], r[2]))
    PROVE  HeapStart <= r[1]
  <1>1. r[1] \in Int /\ 0 <= r[1] /\ r[1] \in Span(r[1], r[2])
    BY RangeFacts DEF Span
  <1>2. r[1] \notin 0..HeapStart
    BY <1>1 DEF MayReplace, OwnPages
  <1> QED
    BY <1>1, <1>2, PageBounds

LEMMA HeapMmap ==
    ASSUME AnyInv, HeapInv, Disciplined, NEW t \in Mappers,
           \/ \E first \in Pages, n \in 1..MaxPages, prot \in Prots : MmapFind(t, first, n, prot)
           \/ \E r \in Ranges, prot \in Prots : MmapFixed(t, r[1], r[2], prot)
           \/ MmapHost(t) \/ MmapAdd(t) \/ MmapFails(t)
    PROVE  HeapInv'
  <1>0. t \in Threads /\ Typed /\ JobsTyped /\ Shape(entries)
    <2>1. t \in Threads /\ job[t].op # "abort"
      BY ThreadKinds DEF HeapInv, BrkNeverAborts
    <2> QED
      BY <2>1, Active DEF AnyInv, Regular
  <1>1. ASSUME NEW first \in Pages, NEW n \in 1..MaxPages, NEW prot \in Prots, MmapFind(t, first, n, prot)
        PROVE  HeapInv'
    <2>1. n \in Nat /\ n >= 1 /\ prot \in SUBSET RW
      BY VmmapAssumption DEF RW
    <2>2. PICK lo \in find_map_space(entries, first, n) : Start(t, "found", lo, n, prot)
      BY <1>1 DEF MmapFind
    <2>3. lo \in Pages /\ lo \in Int /\ 0 <= lo /\ lo + n <= EndPage /\ Span(lo, n) \cap Mapped(entries) = {}
      BY <2>1, FindFacts, PageBounds DEF Pages
    <2>4. lo \in Span(lo, n)
      BY <2>1, <2>3 DEF Span
    <2>5. HeapStart <= lo
      BY <2>3, <2>4, PageBounds DEF HeapInv, LowMapped
    <2> DEFINE j == [op |-> "found", lo |-> lo, n |-> n, prot |-> prot]
    <2>6. j \in Job /\ j.op # "abort" /\ j.lo = lo
      BY <2>1, <2>3, JobMade
    <2>7. job' = [job EXCEPT ![t] = j] /\ entries' = entries
      BY <1>1, <2>2 DEF MmapFind, Start
    <2> HIDE DEF j
    <2> QED
      BY <1>0, <2>5, <2>6, <2>7, HeapSame, HeapStep
  <1>2. ASSUME NEW r \in Ranges, NEW prot \in Prots, MmapFixed(t, r[1], r[2], prot) PROVE HeapInv'
    <2> DEFINE j == [op |-> "fixed", lo |-> r[1], n |-> r[2], prot |-> prot]
    <2>1. r[1] \in Int /\ 0 <= r[1] /\ r[2] \in Nat /\ r[2] >= 1 /\ r[1] + r[2] <= EndPage /\ prot \in SUBSET RW
      BY RangeFacts, VmmapAssumption DEF RW
    <2>2. j \in Job /\ j.op # "abort" /\ j.lo = r[1]
      BY <2>1, JobMade
    <2>3. job' = [job EXCEPT ![t] = j] /\ entries' = entries
      BY <1>2 DEF MmapFixed, Start
    <2>4. HeapStart <= r[1]
      BY <1>2, OffOwnPages DEF MmapFixed
    <2> HIDE DEF j
    <2> QED
      BY <1>0, <2>2, <2>3, <2>4, HeapSame, HeapStep
  <1>3. ASSUME MmapHost(t) PROVE HeapInv'
    <2> DEFINE j == [job[t] EXCEPT !.op = "add"]
    <2>1. job[t].op \in {"found", "fixed"} /\ job[t] \in Job
      BY <1>0, <1>3, FlightFacts DEF MmapHost
    <2>2. HeapStart <= job[t].lo
      BY <1>0, <2>1 DEF HeapInv, JobsAbove, Mapping
    <2>3. j \in Job /\ j.op # "abort" /\ j.lo = job[t].lo
      BY <2>1 DEF Job, Ops
    <2>4. job' = [job EXCEPT ![t] = j] /\ entries' = entries
      BY <1>3 DEF MmapHost
    <2> HIDE DEF j
    <2> QED
      BY <1>0, <2>2, <2>3, <2>4, HeapSame, HeapStep
  <1>4. ASSUME MmapAdd(t) PROVE HeapInv'
    <2>1. /\ job[t].lo \in Pages /\ job[t].n \in Nat /\ job[t].lo + job[t].n <= EndPage
          /\ job[t].prot \in SUBSET RW
      BY <1>0, <1>4, FlightFacts DEF MmapAdd, Job
    <2>2. HeapStart <= job[t].lo
      BY <1>0, <1>4 DEF HeapInv, JobsAbove, Mapping, MmapAdd
    <2>3. HeapKept(entries') /\ LowMapped(entries')
      BY <1>0, <1>4, <2>1, <2>2, HeapAdd DEF MmapAdd, HeapInv
    <2>4. job' = [job EXCEPT ![t] = Idle]
      BY <1>4 DEF MmapAdd, Done
    <2> QED
      BY <1>0, <2>3, <2>4, IdleJob, HeapStep DEF Mapping
  <1>5. ASSUME MmapFails(t) PROVE HeapInv'
    <2>1. job' = [job EXCEPT ![t] = Idle] /\ entries' = entries
      BY <1>5 DEF MmapFails, Done
    <2> QED
      BY <1>0, <2>1, IdleJob, HeapSame, HeapStep DEF Mapping
  <1> QED
    BY <1>1, <1>2, <1>3, <1>4, <1>5

LEMMA HeapUnmap ==
    ASSUME AnyInv, HeapInv, Disciplined, NEW t \in Users,
           \/ \E r \in Ranges : Munmap(t, r[1], r[2])
           \/ \E r \in Ranges, prot \in Prots : MprotectHost(t, r[1], r[2], prot)
           \/ MprotectMap(t)
    PROVE  HeapInv'
  <1>0. t \in Threads /\ Typed /\ JobsTyped /\ Regular(entries) /\ Shape(entries)
    <2>1. t \in Threads /\ job[t].op # "abort"
      BY ThreadKinds DEF HeapInv, BrkNeverAborts
    <2> QED
      BY <2>1, Active DEF AnyInv, Regular
  <1>1. ASSUME NEW r \in Ranges, Munmap(t, r[1], r[2]) PROVE HeapInv'
    <2>1. r[1] \in Int /\ r[2] \in Nat
      BY RangeFacts
    <2>2. HeapStart <= r[1]
      BY <1>1, OffOwnPages DEF Munmap
    <2>3. job' = job /\ (entries' = remove_entry(entries, r[1], r[2]) \/ entries' = entries)
      BY <1>1 DEF Munmap
    <2>4. HeapKept(entries') /\ LowMapped(entries')
      BY <1>0, <2>1, <2>2, <2>3, HeapRemove, HeapSame DEF HeapInv
    <2> QED
      BY <2>3, <2>4, HeapQuiet
  <1>2. ASSUME NEW r \in Ranges, NEW prot \in Prots, MprotectHost(t, r[1], r[2], prot) PROVE HeapInv'
    <2> DEFINE j == [op |-> "protect", lo |-> r[1], n |-> r[2], prot |-> prot]
    <2>1. r[1] \in Int /\ 0 <= r[1] /\ r[2] \in Nat /\ r[2] >= 1 /\ r[1] + r[2] <= EndPage /\ prot \in SUBSET RW
      BY RangeFacts, VmmapAssumption DEF RW
    <2>2. j \in Job /\ j.op = "protect"
      BY <2>1, JobMade
    <2>3. job' = [job EXCEPT ![t] = j] /\ entries' = entries
      BY <1>2 DEF MprotectHost, Start
    <2> HIDE DEF j
    <2> QED
      BY <1>0, <2>2, <2>3, HeapSame, HeapStep DEF Mapping
  <1>3. ASSUME MprotectMap(t) PROVE HeapInv'
    <2>1. /\ job[t].lo \in Pages /\ job[t].n \in Nat /\ job[t].n >= 1 /\ job[t].lo + job[t].n <= EndPage
          /\ job[t].prot \in SUBSET RW
      BY <1>0, <1>3, FlightFacts DEF MprotectMap, Job
    <2>2. HeapKept(entries') /\ LowMapped(entries')
      BY <1>0, <1>3, <2>1, HeapChange DEF MprotectMap, HeapInv
    <2>3. job' = [job EXCEPT ![t] = Idle]
      BY <1>3 DEF MprotectMap, Done
    <2> QED
      BY <1>0, <2>2, <2>3, IdleJob, HeapStep DEF Mapping
  <1> QED
    BY <1>1, <1>2, <1>3

LEMMA HeapBrk ==
    ASSUME AnyInv, HeapInv, NEW t \in Mappers,
           (\E b \in 0..EndPage : BrkMap(t, b)) \/ BrkHost(t) \/ BrkFails(t)
    PROVE  HeapInv'
  <1>0. t \in Threads /\ Typed /\ Regular(entries) /\ Shape(entries) /\ HeapEntry.page_num = HeapStart
    BY ThreadKinds, HeapRecord DEF AnyInv, Regular, HeapInv
  <1>1. ASSUME NEW b \in 0..EndPage, BrkMap(t, b) PROVE HeapInv'
    <2> DEFINE old == HeapEntry.page_num + HeapEntry.npages
               k == HeapEntry.npages
               op == IF b > old THEN "grow" ELSE "shrink"
    <2>1. b >= HeapStart
      BY <1>0, <1>1 DEF BrkMap, BreakAllowed
    <2>2. k \in Nat /\ HeapStart + k <= EndPage /\ HeapEntry.prot \in SUBSET RW
      BY <1>0, AnyHeapEntry
    <2>3. /\ b \in Int /\ b - HeapStart \in Nat /\ HeapStart + (b - HeapStart) <= EndPage
          /\ HeapStart \in Pages /\ HeapStart \in Int /\ HeapStart <= HeapStart
      BY <2>1, PageBounds
    <2> DEFINE F == remove_entry(entries, HeapStart, k)
    <2>4. Regular(F) /\ HeapKept(F) /\ LowMapped(F)
      BY <1>0, <2>2, <2>3, RemoveKeeps, HeapRemove DEF HeapInv
    <2>5. entries' = add_entry_with_overwrite(F, HeapStart, b - HeapStart, HeapEntry.prot)
      BY <1>0, <1>1 DEF BrkMap
    <2> HIDE DEF F
    <2>6. HeapKept(entries') /\ LowMapped(entries')
      BY <2>2, <2>3, <2>4, <2>5, HeapAdd DEF Regular
    <2>7. job' = job \/ \E lo, n, prot : job' = [job EXCEPT ![t] = [op |-> op, lo |-> lo, n |-> n, prot |-> prot]]
      BY <1>0, <1>1 DEF BrkMap, Start
    <2>8. CASE job' = job
      BY <2>6, <2>8, HeapQuiet
    <2>9. CASE job' # job
      <3>1. PICK lo, n, prot : job' = [job EXCEPT ![t] = [op |-> op, lo |-> lo, n |-> n, prot |-> prot]]
        BY <2>7, <2>9
      <3> DEFINE j == [op |-> op, lo |-> lo, n |-> n, prot |-> prot]
      <3>2. j.op \in {"grow", "shrink"}
        OBVIOUS
      <3>3. job' \in [Threads -> Job]
        BY <1>1, AnyBrkMap DEF AnyInv, Typed
      <3>4. job'[t] = j
        BY <1>0, <3>1 DEF Typed
      <3> HIDE DEF j
      <3>5. j \in Job
        BY <1>0, <3>3, <3>4
      <3>6. job' = [job EXCEPT ![t] = j]
        BY <3>1 DEF j
      <3> QED
        BY <1>0, <2>6, <3>2, <3>5, <3>6, HeapStep DEF Mapping
    <2> QED
      BY <2>8, <2>9
  <1>2. ASSUME BrkHost(t) \/ BrkFails(t) PROVE HeapInv'
    <2>1. job' = [job EXCEPT ![t] = Idle] /\ entries' = entries
      BY <1>2 DEF BrkHost, BrkFails, Done
    <2> QED
      BY <1>0, <2>1, IdleJob, HeapSame, HeapStep DEF Mapping
  <1> QED
    BY <1>1, <1>2

LEMMA HeapInit == Init => HeapInv
  <1> SUFFICES ASSUME Init PROVE HeapInv
    OBVIOUS
  <1> DEFINE e == New(0, HeapStart, RW)
  <1>1. e.lo = 0 /\ e.hi = HeapStart - 1 /\ entries = {e}
    BY PageBounds DEF New, Init
  <1> HIDE DEF e
  <1>2. HeapKept(entries)
    BY <1>1, PageBounds DEF HeapKept
  <1>3. LowMapped(entries)
    <2>1. \A p \in Pages : p < HeapStart => p \in Cover(e)
      BY <1>1, PageBounds DEF Cover, Pages
    <2> QED
      BY <1>1, <2>1 DEF LowMapped, Mapped
  <1>4. \A t \in Threads : job[t].op = "none"
    BY IdleJob DEF Init
  <1> QED
    BY <1>2, <1>3, <1>4 DEF HeapInv, JobsAbove, BrkNeverAborts, Mapping

LEMMA HeapNext == Disciplined /\ AnyInv /\ HeapInv /\ [Next]_vars => HeapInv'
  <1> SUFFICES ASSUME Disciplined, AnyInv, HeapInv, [Next]_vars PROVE HeapInv'
    OBVIOUS
  <1>1. ASSUME NEW c \in Checks, Check(c[1], c[2], c[3]) PROVE HeapInv'
    BY <1>1, HeapQuiet, HeapSame DEF Check
  <1>2. CASE Next
    BY <1>1, <1>2, HeapMmap, HeapUnmap, HeapBrk DEF Next
  <1>3. CASE UNCHANGED vars
    BY <1>3, HeapQuiet, HeapSame DEF vars
  <1> QED
    BY <1>2, <1>3

\* What keeps brk's assertion, for a careful program and any number of threads that map.
THEOREM VmmapHeap ==
    ASSUME Disciplined PROVE Spec => [](AnyInv /\ HeapInv)
  <1>1. AnyInv /\ HeapInv /\ [Next]_vars => (AnyInv /\ HeapInv)'
    BY AnyNext, HeapNext
  <1> QED
    BY <1>1, AnyInit, HeapInit, PTL DEF Spec

\* No brk takes the host down: the record at heap_start is the heap's own and starts
\* there, however many threads map, cut and unmap regions beside it.
THEOREM VmmapBrkNeverAborts ==
    ASSUME Disciplined PROVE Spec => []BrkNeverAborts
  <1>1. HeapInv => BrkNeverAborts
    BY DEF HeapInv
  <1> QED
    BY <1>1, VmmapHeap, PTL
-----------------------------------------------------------------------------
(***************************************************************************)
(* Map and host, with one thread that maps.                                *)
(***************************************************************************)
LEMMA InvInit == Init => Inv
  <1> SUFFICES ASSUME Init PROVE Inv
    OBVIOUS
  <1> DEFINE e == New(0, HeapStart, RW)
  <1>1. 0 \in Pages /\ HeapStart \in Nat /\ HeapStart >= 1 /\ 0 + HeapStart <= EndPage /\ RW \in SUBSET RW
    BY PageBounds DEF Pages
  <1>2. e \in Entry /\ e.lo <= e.hi /\ Cover(e) = Span(0, HeapStart) /\ e.prot = RW /\ Exact(e)
    BY <1>1, NewFacts DEF Exact
  <1>3. entries = {e} /\ torn = {} /\ job = [t \in Threads |-> Idle]
    BY DEF Init
  <1>4. host = [p \in Pages |-> IF p < HeapStart THEN RW ELSE {}]
    BY DEF Init
  <1> HIDE DEF e
  <1>5. Typed
    BY <1>3, <1>4, IdleJob DEF Typed
  <1>6. Shape(entries)
    BY <1>2, <1>3 DEF Shape
  <1>7. HeapFields
    BY <1>2, <1>3 DEF HeapFields, Exact
  <1>8. \A t \in Threads : job[t] = Idle /\ job[t].op = "none" /\ Flight(t) = {}
    BY <1>3, IdleJob DEF Flight
  <1>9. JobsTyped /\ JobsApart /\ HeapSpared
    BY <1>8 DEF JobsTyped, JobsApart, HeapSpared, MapperOps, Mapping
  <1>10. \A t \in Threads : CallOK(t)
    BY <1>8 DEF CallOK, HostDone, MapDone, Untouched, FoundUnmapped, ProtectMapped
  <1>11. HostAgrees
    <2> SUFFICES ASSUME NEW p \in Pages PROVE host[p] = ProtAt(entries, p)
      BY ProtOfAt DEF HostAgrees
    <2>1. CASE p < HeapStart
      <3>1. p \in Cover(e)
        BY <1>1, <1>2, <2>1 DEF Pages, Span
      <3> QED
        BY <1>2, <1>3, <1>4, <1>6, <2>1, <3>1, ProtOfEntry
    <2>2. CASE ~(p < HeapStart)
      <3>1. p \notin Cover(e)
        BY <1>1, <1>2, <2>2 DEF Pages, Span
      <3>2. p \notin Mapped(entries)
        BY <1>3, <3>1 DEF Mapped
      <3> QED
        BY <1>4, <2>2, <3>2, ProtOfHole
    <2> QED
      BY <2>1, <2>2
  <1> QED
    BY <1>5, <1>6, <1>7, <1>9, <1>10, <1>11 DEF Inv, MapInv, JobInv

LEMMA InvKept ==
    ASSUME Inv, entries' = entries, host' = host, job' = job, torn' = torn
    PROVE  Inv'
  BY DEF Inv, Typed, MapInv, HeapFields, JobInv, JobsTyped, JobsApart, HeapSpared, CallOK, HostDone,
         MapDone, Untouched, FoundUnmapped, ProtectMapped, Flight, HostAgrees, ProtOf

LEMMA InvNext == OneMapper /\ Inv /\ AnyInv /\ HeapInv /\ [Next]_vars => Inv'
  <1> SUFFICES ASSUME OneMapper, Inv, AnyInv, HeapInv, [Next]_vars PROVE Inv'
    OBVIOUS
  <1>1. ASSUME NEW t \in Mappers, NEW first \in Pages, NEW n \in 1..MaxPages, NEW prot \in Prots,
               MmapFind(t, first, n, prot)
        PROVE  Inv'
    BY <1>1, MmapFindStep
  <1>2. ASSUME NEW t \in Mappers, NEW r \in Ranges, NEW prot \in Prots, MmapFixed(t, r[1], r[2], prot)
        PROVE  Inv'
    BY <1>2, MmapFixedStep
  <1>3. ASSUME NEW t \in Mappers, MmapHost(t) PROVE Inv'
    BY <1>3, MmapHostStep
  <1>4. ASSUME NEW t \in Mappers, MmapAdd(t) PROVE Inv'
    BY <1>4, MmapAddStep
  <1>5. ASSUME NEW t \in Mappers, MmapFails(t) PROVE Inv'
    BY <1>5, MmapFailsStep
  <1>6. ASSUME NEW t \in Mappers, NEW b \in 0..EndPage, BrkMap(t, b) PROVE Inv'
    BY <1>6, BrkMapStep, HeapRecord DEF AnyInv, HeapInv
  <1>7. ASSUME NEW t \in Mappers, BrkHost(t) \/ BrkFails(t) PROVE Inv'
    BY <1>7, BrkHostStep
  <1>8. ASSUME NEW t \in Users, NEW r \in Ranges, Munmap(t, r[1], r[2]) PROVE Inv'
    BY <1>8, MunmapStep
  <1>9. ASSUME NEW t \in Users, NEW r \in Ranges, NEW prot \in Prots, MprotectHost(t, r[1], r[2], prot)
        PROVE  Inv'
    BY <1>9, MprotectHostStep
  <1>10. ASSUME NEW t \in Users, MprotectMap(t) PROVE Inv'
    BY <1>10, MprotectMapStep
  <1>11. ASSUME NEW c \in Checks, Check(c[1], c[2], c[3]) PROVE Inv'
    BY <1>11, InvKept DEF Check
  <1>12. ASSUME UNCHANGED vars PROVE Inv'
    BY <1>12, InvKept DEF vars
  <1> QED
    BY <1>1, <1>2, <1>3, <1>4, <1>5, <1>6, <1>7, <1>8, <1>9, <1>10, <1>11, <1>12 DEF Next

\* The invariant of the memory map: intervals do not overlap, the heap's record is
\* right, and no call in progress has its pages changed by another thread.
THEOREM VmmapInvariant ==
    ASSUME OneMapper PROVE Spec => []Inv
  <1>1. Inv /\ AnyInv /\ HeapInv /\ [Next]_vars => Inv'
    BY InvNext
  <1>2. Spec => [](AnyInv /\ HeapInv)
    BY VmmapHeap DEF OneMapper
  <1> QED
    BY <1>1, <1>2, InvInit, PTL DEF Spec

\* The map and the host agree on every page that no call is working on and no failed
\* call has left behind, whatever mmap, munmap, mprotect and brk have done.
THEOREM VmmapHostAgrees ==
    ASSUME OneMapper PROVE Spec => []HostAgrees
  <1>0. Spec => []Inv
    BY VmmapInvariant
  <1>1. Inv => HostAgrees
    BY DEF Inv
  <1> QED
    BY <1>0, <1>1, PTL
=============================================================================
