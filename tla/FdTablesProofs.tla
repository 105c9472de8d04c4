--------------------------- MODULE FdTablesProofs ---------------------------
(***************************************************************************)
(* Proofs about FdTables, for any number of cages, descriptors and files:  *)
(* FDCOUNT is exact, no cage loses a kernel descriptor another one closes, *)
(* none is left open, and the panics on a missing count are not reached.   *)
(***************************************************************************)
EXTENDS FdTables, FiniteSetTheorems, WellFoundedInduction, TLAPS

\* The hypothesis: a cage makes one call at a time.  With two, an entry can change
\* between the two locks of get_specific_virtual_fd, and the count with it.
OneCall == \E t : Threads = {t}

\* The thread of a cage; what it does, and the row of its cage.
Me       == CHOOSE t \in Threads : TRUE
Pc(c)    == pc[<<c, Me>>]
Loc(c)   == call[<<c, Me>>]
Live(c)  == c \in DOMAIN table
RowOf(c) == IF Live(c) THEN table[c] ELSE NoRow

Keys    == Under \cup {BadFd}
Closers == {"close", "exec", "exit"}
Swaps   == {"dup2", "dup3"}
-----------------------------------------------------------------------------
(***************************************************************************)
(* What a cage with row w, whose thread is at l in call r, holds.          *)
(***************************************************************************)
\* The new entry is in the row but not in FDCOUNT yet.
Pending(l, r) == l \in {"inc", "insert"} /\ r.op \in Allocating
\* The entries of a fork are being counted.
Copying(l, r) == l \in {"inc", "copy_end"} /\ r.op = "fork"
\* Entries that have left the row are being counted down: Due are those left.
Removing(l) == l \in {"dec", "last"}
First(r)    == Lowest(DOMAIN r.rest)
Due(l, r)   == IF l = "last" THEN DOMAIN r.rest \ {First(r)} ELSE DOMAIN r.rest

(***************************************************************************)
(* FDCOUNT counts places <<c, f>>: descriptor f of cage c, in its row, or  *)
(* on its way out of it, or, for a child that is not in the table yet, in  *)
(* the copy its parent is counting.  Place BadFd is what dup2 holds.       *)
(***************************************************************************)
Slots  == Fds \cup {BadFd}
Places == Cages \X Slots
Holds(w, l, r, f, k) ==
    \/ f \in DOMAIN w /\ w[f].under = k /\ (Pending(l, r) => r.at # f)
    \/ Removing(l) /\ r.op \in Closers /\ f \in Due(l, r) /\ r.rest[f].under = k
    \/ f = BadFd /\ l \in {"swap_read", "swap_write"} /\ r.e.under = k
    \/ f = BadFd /\ l = "dec" /\ r.op \in Swaps /\ r.rest[r.at].under = k
Copies(l, r, f, k) ==
    Copying(l, r) /\ f \in DOMAIN r.copy \ DOMAIN r.rest /\ r.copy[f].under = k

Held(c, f, k) == Holds(RowOf(c), Pc(c), Loc(c), f, k)
CopiedFor(d, c, f, k) == Loc(d).at = c /\ Copies(Pc(d), Loc(d), f, k)
Ref(c, f, k) == Held(c, f, k) \/ \E d \in Cages : CopiedFor(d, c, f, k)
Refs(k) == {x \in Places : Ref(x[1], x[2], k)}

\* The call has kernel descriptor k to itself: a new one, or one to close.
AloneWith(l, r, k) ==
    \/ l \in {"alloc", "inc", "insert"} /\ r.op \in {"open", "dup"} /\ r.e.under = k
    \/ l = "last" /\ r.rest[First(r)].under = k
Alone(c, k) == AloneWith(Pc(c), Loc(c), k)

Touches(w, l, r, k) == AloneWith(l, r, k) \/ \E f \in Slots : Holds(w, l, r, f, k)
Touched(c, k) == Touches(RowOf(c), Pc(c), Loc(c), k)
-----------------------------------------------------------------------------
(***************************************************************************)
(* What a call in progress can rely on.                                    *)
(***************************************************************************)
\* The entry's kernel descriptor is open, on its file.
Good(kf, e) == e.under \in Under /\ e.file # 0 /\ kf[e.under] = e.file

\* The system calls that can be at a position.
OpFits(l, op) ==
    /\ l # "dead" /\ (l = "kdup" => op = "dup") /\ (l = "alloc" => op \in Allocating)
    /\ l = "inc" => op \in Allocating \cup Swaps \cup {"fork"}
    /\ l = "insert" => op \in {"open", "dup"}
    /\ l \in {"swap_read", "swap_write"} => op \in Swaps
    /\ l \in {"dec", "last"} => op \in Closers \cup Swaps
    /\ (l = "cloexec" => op = "cloexec") /\ (l \in {"copy", "copy_end"} => op = "fork")

\* The call works with an entry of its own, and where that is a copy of one that is
\* in the row, the other is counted.
Uses(l, r) ==
    \/ l \in {"kdup", "alloc", "insert", "swap_read", "swap_write"}
    \/ l = "inc" /\ r.op # "fork"
Borrows(l, r) ==
    \/ l = "kdup"
    \/ l \in {"alloc", "inc"} /\ r.op = "dupfd"
    \/ l = "inc" /\ r.op \in Swaps
EntryFits(kf, w, l, r) ==
    /\ Pending(l, r) => r.at \in DOMAIN w /\ w[r.at] = r.e
    /\ Uses(l, r) => Good(kf, r.e)
    /\ Borrows(l, r) => \E f \in DOMAIN w : /\ w[f].under = r.e.under
                                            /\ Pending(l, r) => r.at # f

RestFits(kf, live, w, l, r) ==
    /\ l = "swap_write" => r.at \in Fds /\ r.rest = Restrict(w, {r.at} \cap DOMAIN w)
    /\ Removing(l) =>
          /\ DOMAIN r.rest # {} /\ \A f \in DOMAIN r.rest : Good(kf, r.rest[f])
          /\ r.op = "exit" => ~live
          /\ r.op \in Closers => DOMAIN r.rest \cap DOMAIN w = {}
          /\ r.op \in Swaps => DOMAIN r.rest = {r.at}

Forking(l, r) == l # "idle" /\ r.op = "fork"
CopyFits(w, l, r) ==
    /\ Forking(l, r) => r.copy = w
    /\ Forking(l, r) /\ l = "inc" =>
          /\ DOMAIN r.rest # {} /\ DOMAIN r.rest \subseteq DOMAIN w
          /\ \A f \in DOMAIN r.rest : r.rest[f] = w[f]
    /\ l = "copy_end" => DOMAIN r.rest = {}

Fits(kf, live, w, l, r) ==
    /\ OpFits(l, r.op) /\ (l # "idle" /\ r.op # "exit" => live)
    /\ \A f \in DOMAIN w : Good(kf, w[f])
    /\ EntryFits(kf, w, l, r) /\ RestFits(kf, live, w, l, r) /\ CopyFits(w, l, r)
CallOK(c) == Fits(kfile, Live(c), RowOf(c), Pc(c), Loc(c))

\* The child of a fork is nobody else's, and nothing of it runs yet.
IsForking(c) == Forking(Pc(c), Loc(c))
ChildOK(c) ==
    IsForking(c) =>
        /\ Loc(c).at \in 1..nextId /\ ~Live(Loc(c).at) /\ Pc(Loc(c).at) = "idle"
        /\ \A d \in Cages : IsForking(d) /\ Loc(d).at = Loc(c).at => d = c
-----------------------------------------------------------------------------
(***************************************************************************)
(* The inductive invariant, while the host runs.                           *)
(***************************************************************************)
CallsInv == \A c \in Cages : CallOK(c)
ChildInv == \A c \in Cages : ChildOK(c)
NewIdle  == \A c \in Cages : c > nextId => Pc(c) = "idle"
AloneInv == \A c \in Cages, k \in Keys :
                Alone(c, k) => count[k] = 0 /\ \A d \in Cages : Alone(d, k) => d = c
CountInv == \A k \in Keys : count[k] = Cardinality(Refs(k))
LeakInv  == \A k \in Under \ (Standard \cup lost) :
                kfile[k] # 0 => count[k] > 0 \/ \E c \in Cages : Alone(c, k)

Running == CallsInv /\ ChildInv /\ NewIdle /\ AloneInv /\ CountInv /\ LeakInv
Inv == TypeOK /\ CountNeverMissing /\ (aborted = "no" => Running)
-----------------------------------------------------------------------------
(***************************************************************************)
(* Numbers, rows and the thread of a cage.                                 *)
(***************************************************************************)
\* A set of natural numbers has a lowest member.
LEMMA LowestIn ==
    ASSUME NEW S, S \subseteq Nat, S # {}
    PROVE  Lowest(S) \in S /\ \A y \in S : Lowest(S) <= y
  <1> DEFINE R == OpToRel(<, Nat)
  <1>1. IsWellFoundedOn(R, Nat)
    BY NatLessThanWellFounded
  <1>2. \A x, y \in Nat : x < y => <<x, y>> \in R
    BY DEF OpToRel
  <1> HIDE DEF R
  <1>3. PICK x \in S : \A y \in S : ~ (<<y, x>> \in R)
    BY <1>1, WFMin
  <1>4. ASSUME NEW y \in S PROVE x <= y
    <2>1. x \in Nat /\ y \in Nat
      OBVIOUS
    <2>2. ~(y < x)
      BY <1>2, <1>3, <2>1
    <2> QED
      BY <2>1, <2>2
  <1> QED
    BY <1>4 DEF Lowest

\* The thread Me is the only one.
LEMMA OnlyMe == ASSUME OneCall PROVE Threads = {Me}
  BY DEF OneCall, Me

\* The numbers in use, and the kernel descriptor that is none.
LEMMA Numbers ==
    /\ Fds \subseteq Nat /\ Under \subseteq Nat /\ Cages \subseteq Nat
    /\ BadFd \notin Fds /\ BadFd \notin Under
    /\ Standard \subseteq Fds /\ Standard \subseteq Under /\ 1 \in Cages
  BY FdAssumption DEF Fds, Under, Cages, BadFd

\* A row is a function from some descriptors to entries.
LEMMA RowFacts ==
    ASSUME NEW w \in Row
    PROVE  DOMAIN w \subseteq Fds /\ \A f \in DOMAIN w : w[f] \in Entry
  <1>1. PICK S \in SUBSET Fds : w \in [S -> Entry]
    BY Zenon DEF Row
  <1> QED
    BY <1>1

\* The row without entries is the only one.
LEMMA NoRowFacts ==
    /\ NoRow \in Row /\ DOMAIN NoRow = {}
    /\ \A w \in Row : DOMAIN w = {} => w = NoRow
  <1>1. NoRow \in [{} -> Entry] /\ DOMAIN NoRow = {}
    BY DEF NoRow
  <1>2. NoRow \in Row
    BY <1>1, Zenon DEF Row
  <1>3. ASSUME NEW w \in Row, DOMAIN w = {} PROVE w = NoRow
    <2>1. PICK S \in SUBSET Fds : w \in [S -> Entry]
      BY Zenon DEF Row
    <2>2. S = {}
      BY <1>3, <2>1
    <2>3. w \in [{} -> Entry]
      BY <2>1, <2>2
    <2> QED
      BY <2>3 DEF NoRow
  <1> QED
    BY <1>1, <1>2, <1>3

\* Entries of a row that stay, and those that are added, make a row.
LEMMA RestrictRow ==
    ASSUME NEW w \in Row, NEW S, S \subseteq DOMAIN w
    PROVE  /\ Restrict(w, S) \in Row /\ DOMAIN Restrict(w, S) = S
           /\ \A f \in S : Restrict(w, S)[f] = w[f]
  <1>1. Restrict(w, S) \in [S -> Entry]
    BY RowFacts DEF Restrict
  <1>2. S \in SUBSET Fds
    BY RowFacts
  <1>3. Restrict(w, S) \in Row
    BY <1>1, <1>2, Zenon DEF Row
  <1> QED
    BY <1>3 DEF Restrict

\* Adding an entry, or replacing one.
LEMMA PutRow ==
    ASSUME NEW w \in Row, NEW f \in Fds, NEW e \in Entry
    PROVE  /\ Put(w, f, e) \in Row /\ DOMAIN Put(w, f, e) = DOMAIN w \cup {f}
           /\ Put(w, f, e)[f] = e
           /\ \A g \in DOMAIN w : g # f => Put(w, f, e)[g] = w[g]
  <1>1. Put(w, f, e) \in [DOMAIN w \cup {f} -> Entry]
    BY RowFacts DEF Put
  <1>2. DOMAIN w \cup {f} \in SUBSET Fds
    BY RowFacts
  <1>3. Put(w, f, e) \in Row
    BY <1>1, <1>2, Zenon DEF Row
  <1> QED
    BY <1>3 DEF Put

\* Taking one entry out.
LEMMA WithoutRow ==
    ASSUME NEW w \in Row, NEW f
    PROVE  /\ Without(w, f) \in Row /\ DOMAIN Without(w, f) = DOMAIN w \ {f}
           /\ \A g \in DOMAIN w \ {f} : Without(w, f)[g] = w[g]
  BY RestrictRow DEF Without

\* The first of the entries to be counted.
LEMMA FirstIn ==
    ASSUME NEW r \in Calls, DOMAIN r.rest # {}
    PROVE  First(r) \in DOMAIN r.rest /\ First(r) \in Fds
  <1>1. r.rest \in Row
    BY DEF Calls
  <1>2. DOMAIN r.rest \subseteq Fds
    BY <1>1, RowFacts
  <1> QED
    BY <1>2, Numbers, LowestIn DEF First
-----------------------------------------------------------------------------
(***************************************************************************)
(* A call that fits: what it uses is counted, or its own.                  *)
(***************************************************************************)
\* Every entry in the row, in use or to be counted down is held, or has its kernel
\* descriptor to itself.
LEMMA UsedIsTouched ==
    ASSUME NEW kf, NEW live, NEW w \in Row, NEW l \in PcSet, NEW r \in Calls,
           Fits(kf, live, w, l, r)
    PROVE  /\ \A f \in DOMAIN w : Touches(w, l, r, w[f].under)
           /\ Uses(l, r) => Touches(w, l, r, r.e.under)
           /\ Removing(l) => \A f \in DOMAIN r.rest : Touches(w, l, r, r.rest[f].under)
  <1> USE RowFacts, Numbers DEF Slots
  <1>t. r.rest \in Row
    BY DEF Calls
  <1>0. OpFits(l, r.op) /\ EntryFits(kf, w, l, r) /\ RestFits(kf, live, w, l, r)
    BY DEF Fits
  <1>1. ASSUME NEW f \in DOMAIN w, Pending(l, r) => r.at # f
        PROVE  Touches(w, l, r, w[f].under)
    BY <1>1 DEF Touches, Holds
  <1>2. Borrows(l, r) => Touches(w, l, r, r.e.under)
    BY <1>0, <1>1 DEF EntryFits
  <1>3. Uses(l, r) => Touches(w, l, r, r.e.under)
    <2>1. CASE l \in {"swap_read", "swap_write"}
      BY <2>1 DEF Touches, Holds
    <2>2. CASE l \in {"alloc", "inc", "insert"} /\ r.op \in {"open", "dup"}
      BY <2>2 DEF Touches, AloneWith
    <2> QED
      BY <1>0, <1>2, <2>1, <2>2 DEF Uses, Borrows, OpFits, Allocating, Swaps
  <1>4. ASSUME NEW f \in DOMAIN w PROVE Touches(w, l, r, w[f].under)
    <2>1. CASE Pending(l, r) /\ r.at = f
      <3>1. w[f] = r.e /\ Uses(l, r)
        BY <1>0, <2>1 DEF EntryFits, Uses, Pending, Allocating
      <3> QED
        BY <1>3, <3>1
    <2> QED
      BY <1>1, <2>1
  <1>5. ASSUME Removing(l), NEW f \in DOMAIN r.rest PROVE Touches(w, l, r, r.rest[f].under)
    <2>1. CASE l = "last" /\ f = First(r)
      BY <2>1 DEF Touches, AloneWith
    <2>2. CASE f \in Due(l, r) /\ r.op \in Closers
      BY <1>5, <1>t, <2>2 DEF Touches, Holds
    <2>3. CASE f \in Due(l, r) /\ r.op \in Swaps
      <3>1. DOMAIN r.rest = {r.at} /\ DOMAIN r.rest # {}
        BY <1>0, <1>5, <2>3 DEF RestFits
      <3>2. f = r.at /\ First(r) = r.at
        BY <3>1, FirstIn
      <3>3. l = "dec"
        BY <1>5, <2>3, <3>1, <3>2 DEF Removing, Due
      <3> QED
        BY <2>3, <3>2, <3>3 DEF Touches, Holds
    <2> QED
      BY <1>0, <1>5, <2>1, <2>2, <2>3 DEF Due, Removing, OpFits
  <1> QED
    BY <1>3, <1>4, <1>5

\* A kernel descriptor a call touches is open.
LEMMA TouchedIsOpen ==
    ASSUME NEW kf, NEW live, NEW w \in Row, NEW l \in PcSet, NEW r \in Calls,
           Fits(kf, live, w, l, r), NEW k, Touches(w, l, r, k)
    PROVE  k \in Under /\ kf[k] # 0
  <1>0. /\ OpFits(l, r.op) /\ EntryFits(kf, w, l, r) /\ RestFits(kf, live, w, l, r)
        /\ \A f \in DOMAIN w : Good(kf, w[f])
    BY DEF Fits
  <1>1. CASE AloneWith(l, r, k)
    <2>1. CASE l = "last" /\ r.rest[First(r)].under = k
      <3>1. DOMAIN r.rest # {} /\ \A f \in DOMAIN r.rest : Good(kf, r.rest[f])
        BY <1>0, <2>1 DEF RestFits, Removing
      <3> QED
        BY <2>1, <3>1, FirstIn DEF Good
    <2>2. CASE l \in {"alloc", "inc", "insert"} /\ r.op \in {"open", "dup"} /\ r.e.under = k
      BY <1>0, <2>2 DEF EntryFits, Uses, Good
    <2> QED
      BY <1>1, <2>1, <2>2 DEF AloneWith
  <1>2. ASSUME NEW f \in Slots, Holds(w, l, r, f, k) PROVE k \in Under /\ kf[k] # 0
    <2>1. CASE f \in DOMAIN w /\ w[f].under = k
      BY <1>0, <2>1 DEF Good
    <2>2. CASE Removing(l) /\ f \in Due(l, r) /\ r.rest[f].under = k
      BY <1>0, <2>2 DEF RestFits, Good, Due
    <2>3. CASE l \in {"swap_read", "swap_write"} /\ r.e.under = k
      BY <1>0, <2>3 DEF EntryFits, Uses, Good
    <2>4. CASE l = "dec" /\ r.op \in Swaps /\ r.rest[r.at].under = k
      BY <1>0, <2>4 DEF RestFits, Removing, Good
    <2> QED
      BY <1>2, <2>1, <2>2, <2>3, <2>4 DEF Holds
  <1> QED
    BY <1>1, <1>2 DEF Touches

\* A call still fits when the kernel changes what it does not touch.
LEMMA FitsKept ==
    ASSUME NEW kf, NEW kg, NEW live, NEW w \in Row, NEW l \in PcSet, NEW r \in Calls,
           Fits(kf, live, w, l, r),
           \A k \in Under : Touches(w, l, r, k) => kg[k] = kf[k]
    PROVE  Fits(kg, live, w, l, r)
  <1>1. ASSUME NEW e, Good(kf, e), Touches(w, l, r, e.under) PROVE Good(kg, e)
    BY <1>1 DEF Good
  <1>2. \A f \in DOMAIN w : Good(kg, w[f])
    BY <1>1, UsedIsTouched DEF Fits
  <1>3. Uses(l, r) => Good(kg, r.e)
    BY <1>1, UsedIsTouched DEF Fits, EntryFits
  <1>4. Removing(l) => \A f \in DOMAIN r.rest : Good(kg, r.rest[f])
    BY <1>1, UsedIsTouched DEF Fits, RestFits
  <1> QED
    BY <1>2, <1>3, <1>4 DEF Fits, EntryFits, RestFits
-----------------------------------------------------------------------------
(***************************************************************************)
(* A state in which the host runs.                                         *)
(***************************************************************************)
\* The types of what a cage has.
LEMMA TypeFacts ==
    ASSUME OneCall, TypeOK, NEW c \in Cages
    PROVE  /\ Pc(c) \in PcSet /\ Loc(c) \in Calls /\ RowOf(c) \in Row
           /\ <<c, Me>> \in Thr /\ (Live(c) => c <= nextId /\ RowOf(c) = table[c])
  <1>1. <<c, Me>> \in Thr
    BY OnlyMe DEF Thr
  <1>2. RowOf(c) \in Row
    BY NoRowFacts DEF RowOf, Live, TypeOK
  <1>3. Live(c) => c <= nextId
    BY DEF Live, TypeOK
  <1> QED
    BY <1>1, <1>2, <1>3 DEF TypeOK, Pc, Loc, RowOf

\* What FDCOUNT counts is open.
LEMMA RefIsOpen ==
    ASSUME OneCall, TypeOK, CallsInv, NEW c \in Cages, NEW f \in Slots, NEW k, Ref(c, f, k)
    PROVE  k \in Under /\ kfile[k] # 0
  <1>1. CASE Held(c, f, k)
    <2>1. Touches(RowOf(c), Pc(c), Loc(c), k)
      BY <1>1 DEF Held, Touches
    <2> QED
      BY <2>1, TypeFacts, TouchedIsOpen DEF CallsInv, CallOK
  <1>2. ASSUME NEW d \in Cages, CopiedFor(d, c, f, k) PROVE k \in Under /\ kfile[k] # 0
    <2>1. /\ Forking(Pc(d), Loc(d)) /\ f \in DOMAIN Loc(d).copy
          /\ Loc(d).copy[f].under = k
      BY <1>2 DEF CopiedFor, Copies, Copying, Forking
    <2>2. CallOK(d)
      BY DEF CallsInv
    <2>3. Loc(d).copy = RowOf(d)
      BY <2>1, <2>2 DEF CallOK, Fits, CopyFits
    <2> QED
      BY <2>1, <2>2, <2>3 DEF CallOK, Fits, Good
  <1> QED
    BY <1>1, <1>2 DEF Ref

\* The places that are counted are finitely many.
LEMMA RefsFinite ==
    ASSUME NEW k PROVE IsFiniteSet(Refs(k))
  <1>1. IsFiniteSet(Cages) /\ IsFiniteSet(Fds)
    BY FdAssumption, FS_Interval DEF Cages, Fds
  <1>2. IsFiniteSet(Places)
    BY <1>1, FS_AddElement, FS_Product DEF Places, Slots
  <1> QED
    BY <1>2, FS_Subset DEF Refs

\* The count is 0 exactly when nothing is counted.
LEMMA CountIsZero ==
    ASSUME TypeOK, CountInv, NEW k \in Keys
    PROVE  /\ count[k] \in Nat /\ (count[k] = 0 <=> Refs(k) = {})
           /\ \A c \in Cages, f \in Slots : Ref(c, f, k) => count[k] > 0
  <1>1. count[k] \in Nat
    BY DEF TypeOK, Keys
  <1>2. count[k] = 0 <=> Refs(k) = {}
    BY RefsFinite, FS_EmptySet DEF CountInv
  <1>3. ASSUME NEW c \in Cages, NEW f \in Slots, Ref(c, f, k) PROVE Refs(k) # {}
    <2>1. <<c, f>> \in Refs(k)
      BY <1>3 DEF Refs, Places
    <2> QED
      BY <2>1
  <1> QED
    BY <1>1, <1>2, <1>3

\* What one cage has to itself, or closes, no other cage touches; and nobody touches
\* a kernel descriptor that is free.
LEMMA AloneIsAlone ==
    ASSUME OneCall, TypeOK, Running, NEW c \in Cages, NEW k \in Keys, Alone(c, k),
           NEW d \in Cages, d # c
    PROVE  ~Touched(d, k)
  <1>1. count[k] = 0 /\ ~Alone(d, k)
    BY DEF Running, AloneInv
  <1>2. ASSUME NEW f \in Slots, Held(d, f, k) PROVE FALSE
    BY <1>1, <1>2, CountIsZero DEF Running, Ref
  <1> QED
    BY <1>1, <1>2 DEF Touched, Touches, Alone, Held

\* A free kernel descriptor is in no entry and in no call.
LEMMA FreeIsUntouched ==
    ASSUME OneCall, TypeOK, Running, NEW k \in Under, kfile[k] = 0
    PROVE  /\ count[k] = 0 /\ k \in Keys
           /\ \A d \in Cages : ~Touched(d, k) /\ ~Alone(d, k)
  <1>1. \A d \in Cages : ~Touched(d, k)
    BY TypeFacts, TouchedIsOpen DEF Running, CallsInv, CallOK, Touched
  <1>2. Refs(k) = {}
    BY RefIsOpen DEF Running, Refs, Places
  <1> QED
    BY <1>1, <1>2, CountIsZero DEF Running, Keys, Touched, Touches, Alone

\* A cage that runs is no fork's child.
LEMMA NotChild ==
    ASSUME ChildInv, NEW c \in Cages, Live(c) \/ Pc(c) # "idle", NEW d \in Cages,
           IsForking(d)
    PROVE  Loc(d).at # c
  BY DEF ChildInv, ChildOK

(***************************************************************************)
(* A step of cage c: its row, position and call become w, l and r.         *)
(***************************************************************************)
Same(d) ==
    /\ Live(d)' <=> Live(d)
    /\ RowOf(d)' = RowOf(d) /\ Pc(d)' = Pc(d) /\ Loc(d)' = Loc(d)
Becomes(c, live, w, l, r) ==
    /\ Live(c)' <=> live
    /\ RowOf(c)' = w /\ Pc(c)' = l /\ Loc(c)' = r
    /\ \A d \in Cages : d # c => Same(d)

\* The other cages' calls fit as long as what they touch stays as it is.
LEMMA OtherFits ==
    ASSUME OneCall, TypeOK, CallsInv, NEW d \in Cages, Same(d),
           \A k \in Under : Touched(d, k) => kfile'[k] = kfile[k]
    PROVE  CallOK(d)'
  <1>1. Fits(kfile', Live(d), RowOf(d), Pc(d), Loc(d))
    BY TypeFacts, FitsKept DEF CallsInv, CallOK, Touched
  <1> QED
    BY <1>1 DEF Same, CallOK, Fits, RestFits

\* What is counted for others, seen from c.
OtherRef(c, d, f, k) ==
    Held(d, f, k) \/ \E e \in Cages : e # c /\ CopiedFor(e, d, f, k)

\* The places of cage c are those it holds, and its copies are its child's.
LEMMA RefsBefore ==
    ASSUME ChildInv, NEW c \in Cages, Live(c) \/ Pc(c) # "idle", NEW f, NEW k
    PROVE  /\ Ref(c, f, k) <=> Held(c, f, k)
           /\ \A d \in Cages : d # c =>
                 (Ref(d, f, k) <=>
                    OtherRef(c, d, f, k) \/ (Loc(c).at = d /\ Copies(Pc(c), Loc(c), f, k)))
  <1>1. \A d \in Cages : ~CopiedFor(d, c, f, k)
    BY NotChild DEF CopiedFor, Copies, Copying, IsForking, Forking
  <1> QED
    BY <1>1 DEF Ref, OtherRef, CopiedFor

\* The same after a step of c: what is counted for the others is as it was.
LEMMA RefsAfter ==
    ASSUME ChildInv, NEW c \in Cages, Live(c) \/ Pc(c) # "idle",
           NEW live, NEW w, NEW l, NEW r, Becomes(c, live, w, l, r),
           Copying(l, r) => r.at # c, NEW f, NEW k
    PROVE  /\ Ref(c, f, k)' <=> Holds(w, l, r, f, k)
           /\ \A d \in Cages : d # c =>
                 (Ref(d, f, k)' <=>
                    OtherRef(c, d, f, k) \/ (r.at = d /\ Copies(l, r, f, k)))
  <1>1. \A d \in Cages : d # c => ~CopiedFor(d, c, f, k)
    BY NotChild DEF CopiedFor, Copies, Copying, IsForking, Forking
  <1>2. \A d, x \in Cages : d # c => (CopiedFor(d, x, f, k)' <=> CopiedFor(d, x, f, k))
    BY DEF Becomes, Same, CopiedFor
  <1>3. \A x \in Cages : CopiedFor(c, x, f, k)' <=> (r.at = x /\ Copies(l, r, f, k))
    BY DEF Becomes, CopiedFor
  <1>4. ~CopiedFor(c, c, f, k)'
    BY <1>3 DEF Copies
  <1>5. Held(c, f, k)' <=> Holds(w, l, r, f, k)
    BY DEF Becomes, Held
  <1>6. \A d \in Cages : d # c => (Held(d, f, k)' <=> Held(d, f, k))
    BY DEF Becomes, Same, Held
  <1> HIDE DEF CopiedFor, Held, Becomes
  <1>7. Ref(c, f, k)' <=> Holds(w, l, r, f, k)
    BY <1>1, <1>2, <1>4, <1>5, Zenon DEF Ref
  <1>8. ASSUME NEW d \in Cages, d # c
        PROVE  Ref(d, f, k)' <=>
                 OtherRef(c, d, f, k) \/ (r.at = d /\ Copies(l, r, f, k))
    BY <1>2, <1>3, <1>6, <1>8, ZenonT(30) DEF Ref, OtherRef
  <1> QED
    BY <1>7, <1>8
-----------------------------------------------------------------------------
(***************************************************************************)
(* The parts of the invariant after a step of cage c.                      *)
(***************************************************************************)
\* Every call still fits when c's does and the kernel keeps what the others touch.
LEMMA CallsStep ==
    ASSUME OneCall, TypeOK, CallsInv, NEW c \in Cages,
           NEW live, NEW w, NEW l, NEW r, Becomes(c, live, w, l, r),
           Fits(kfile', live, w, l, r),
           \A k \in Under : kfile'[k] = kfile[k]
                            \/ \A d \in Cages : d # c => ~Touched(d, k)
    PROVE  CallsInv'
  <1>1. CallOK(c)'
    BY DEF Becomes, CallOK, Fits, RestFits
  <1>2. ASSUME NEW d \in Cages, d # c PROVE CallOK(d)'
    BY <1>2, OtherFits DEF Becomes
  <1> QED
    BY <1>1, <1>2 DEF CallsInv, Cages

\* The child of a fork stays nobody else's: a new one has an id not given out yet.
LEMMA ChildStep ==
    ASSUME OneCall, TypeOK, ChildInv, NewIdle, NEW c \in Cages, Live(c) \/ Pc(c) # "idle",
           NEW live, NEW w, NEW l, NEW r, Becomes(c, live, w, l, r), live => Live(c),
           nextId' = nextId \/ nextId' = nextId + 1,
           Forking(l, r) => \/ IsForking(c) /\ r.at = Loc(c).at
                            \/ r.at = nextId + 1 /\ nextId' = nextId + 1 /\ r.at \in Cages
    PROVE  ChildInv' /\ NewIdle'
  <1>0. nextId \in Nat /\ Cages \subseteq Nat
    BY Numbers DEF TypeOK
  <1>1. c <= nextId
    <2>1. Live(c) => c <= nextId
      BY TypeFacts
    <2> QED
      BY <1>0, <2>1 DEF NewIdle
  <1>2. IsForking(c)' <=> Forking(l, r)
    BY DEF Becomes, IsForking
  <1>3. ASSUME NEW d \in Cages, d # c
        PROVE  /\ IsForking(d)' <=> IsForking(d)
               /\ Loc(d)' = Loc(d) /\ Pc(d)' = Pc(d) /\ (Live(d)' <=> Live(d))
    BY <1>3 DEF Becomes, Same, IsForking
  <1>4. ASSUME NEW d \in Cages, IsForking(d)
        PROVE  /\ Loc(d).at \in 1..nextId /\ Loc(d).at \in Cages /\ Loc(d).at # c
               /\ \A y : y = Loc(d).at => ~Live(y)' /\ Pc(y)' = "idle"
    <2>1. /\ Loc(d).at \in 1..nextId /\ Loc(d).at # c
          /\ ~Live(Loc(d).at) /\ Pc(Loc(d).at) = "idle"
      BY <1>4, NotChild DEF ChildInv, ChildOK
    <2>2. Loc(d).at \in Cages
      BY <2>1, FdAssumption DEF TypeOK, Cages
    <2> QED
      BY <1>3, <2>1, <2>2
  <1>5. ASSUME NEW d \in Cages, d # c PROVE ChildOK(d)'
    <2> SUFFICES ASSUME IsForking(d) PROVE ChildOK(d)'
      BY <1>3, <1>5 DEF ChildOK
    <2>1. Loc(d).at \in 1..nextId'
      BY <1>0, <1>4
    <2>2. ASSUME NEW e \in Cages, IsForking(e)', Loc(e)'.at = Loc(d).at PROVE e = d
      <3>1. CASE e = c
        <4>1. Forking(l, r) /\ r.at = Loc(d).at
          BY <1>2, <2>2, <3>1 DEF Becomes
        <4>2. r.at # nextId + 1
          BY <1>0, <1>4, <4>1
        <4>3. IsForking(c) /\ Loc(c).at = Loc(d).at
          BY <4>1, <4>2
        <4> QED
          BY <3>1, <4>3 DEF ChildInv, ChildOK
      <3>2. CASE e # c
        BY <1>3, <2>2, <3>2 DEF ChildInv, ChildOK
      <3> QED
        BY <3>1, <3>2
    <2>3. Loc(d)' = Loc(d)
      BY <1>3, <1>5
    <2> QED
      BY <1>4, <2>1, <2>2, <2>3 DEF ChildOK, Cages
  <1>6. ASSUME Forking(l, r) PROVE ChildOK(c)'
    <2>1. CASE IsForking(c) /\ r.at = Loc(c).at
      <3>1. r.at \in 1..nextId' /\ ~Live(r.at)' /\ Pc(r.at)' = "idle"
        BY <1>0, <1>4, <2>1
      <3>2. ASSUME NEW e \in Cages, IsForking(e)', Loc(e)'.at = r.at PROVE e = c
        BY <1>3, <2>1, <3>2 DEF ChildInv, ChildOK
      <3> QED
        BY <3>1, <3>2 DEF ChildOK, Becomes, Cages
    <2>2. CASE r.at = nextId + 1 /\ nextId' = nextId + 1 /\ r.at \in Cages
      <3>1. r.at # c /\ ~Live(r.at) /\ Pc(r.at) = "idle"
        BY <1>0, <1>1, <2>2 DEF TypeOK, Live, NewIdle
      <3>2. r.at \in 1..nextId' /\ ~Live(r.at)' /\ Pc(r.at)' = "idle"
        BY <1>0, <1>3, <2>2, <3>1
      <3>3. ASSUME NEW e \in Cages, IsForking(e)', Loc(e)'.at = r.at PROVE e = c
        <4> SUFFICES ASSUME e # c PROVE FALSE
          OBVIOUS
        <4>1. IsForking(e) /\ Loc(e).at = nextId + 1
          BY <1>3, <2>2, <3>3
        <4> QED
          BY <1>0, <1>4, <4>1
      <3> QED
        BY <3>2, <3>3 DEF ChildOK, Becomes, Cages
    <2> QED
      BY <1>6, <2>1, <2>2
  <1>7. ChildOK(c)'
    BY <1>2, <1>6 DEF ChildOK
  <1>8. NewIdle'
    <2>1. ASSUME NEW d \in Cages, d > nextId' PROVE Pc(d)' = "idle"
      <3>1. d > nextId /\ d # c
        BY <1>0, <1>1, <2>1
      <3> QED
        BY <1>3, <3>1 DEF NewIdle
    <2> QED
      BY <2>1 DEF NewIdle, Cages
  <1> QED
    BY <1>5, <1>7, <1>8 DEF ChildInv, Cages

\* A call stays alone with its kernel descriptor when its count does not rise.
LEMMA AloneStep ==
    ASSUME AloneInv, NEW c \in Cages,
           NEW live, NEW w, NEW l, NEW r, Becomes(c, live, w, l, r),
           \A k \in Keys : AloneWith(l, r, k) =>
               count'[k] = 0 /\ \A d \in Cages : d # c => ~Alone(d, k),
           \A k \in Keys : count'[k] = count[k] \/ \A d \in Cages : d # c => ~Alone(d, k)
    PROVE  AloneInv'
  <1>1. \A k : Alone(c, k)' <=> AloneWith(l, r, k)
    BY DEF Becomes, Alone
  <1>2. \A k : \A d \in Cages : d # c => (Alone(d, k)' <=> Alone(d, k))
    BY DEF Becomes, Same, Alone
  <1>3. ASSUME NEW d \in Cages, NEW k \in Keys, Alone(d, k)'
        PROVE  count'[k] = 0 /\ \A e \in Cages : Alone(e, k)' => e = d
    <2>1. CASE d = c
      BY <1>1, <1>2, <1>3, <2>1
    <2>2. CASE d # c
      BY <1>1, <1>2, <1>3, <2>2 DEF AloneInv
    <2> QED
      BY <2>1, <2>2
  <1> QED
    BY <1>3 DEF AloneInv, Cages, Keys, Under

\* An open kernel descriptor stays counted, or with the call that has it alone.
LEMMA LeakStep ==
    ASSUME LeakInv, NEW c \in Cages,
           NEW live, NEW w, NEW l, NEW r, Becomes(c, live, w, l, r),
           \A k \in Under \ (Standard \cup lost') : kfile'[k] # 0 =>
               \/ count'[k] > 0
               \/ AloneWith(l, r, k)
               \/ kfile[k] # 0 /\ k \notin lost /\ count'[k] = count[k] /\ ~Alone(c, k)
    PROVE  LeakInv'
  <1>1. \A k : Alone(c, k)' <=> AloneWith(l, r, k)
    BY DEF Becomes, Alone
  <1>2. \A k : \A d \in Cages : d # c => (Alone(d, k)' <=> Alone(d, k))
    BY DEF Becomes, Same, Alone
  <1>3. ASSUME NEW k \in Under \ (Standard \cup lost'), kfile'[k] # 0
        PROVE  count'[k] > 0 \/ \E d \in Cages : Alone(d, k)'
    BY <1>1, <1>2, <1>3 DEF LeakInv
  <1> QED
    BY <1>3 DEF LeakInv, Cages, Under

\* The counts stay exact when they and the number of places stay.
LEMMA CountStep ==
    ASSUME CountInv, \A k \in Keys : Cardinality(Refs(k)') = Cardinality(Refs(k)),
           count' = count
    PROVE  CountInv'
  BY DEF CountInv, Keys, Under

\* A cage that runs has an id that was given out, and the child of its fork is another.
LEMMA ChildIsOther ==
    ASSUME OneCall, TypeOK, ChildInv, NewIdle, NEW c \in Cages, Live(c) \/ Pc(c) # "idle",
           NEW l, NEW r,
           Forking(l, r) => \/ IsForking(c) /\ r.at = Loc(c).at
                            \/ r.at = nextId + 1
    PROVE  c <= nextId /\ (Copying(l, r) => r.at # c)
  <1>1. nextId \in Nat /\ c \in Nat /\ c <= nextId
    <2>1. Live(c) => c <= nextId
      BY TypeFacts
    <2> QED
      BY <2>1, Numbers DEF TypeOK, NewIdle
  <1>2. IsForking(c) => Loc(c).at # c
    BY NotChild
  <1>3. Forking(l, r) => r.at # c
    BY <1>1, <1>2
  <1> QED
    BY <1>1, <1>3 DEF Copying, Forking

\* A step that leaves what is counted as it was.
LEMMA RefsSame ==
    ASSUME ChildInv, NEW c \in Cages, Live(c) \/ Pc(c) # "idle",
           NEW live, NEW w, NEW l, NEW r, Becomes(c, live, w, l, r),
           Copying(l, r) => r.at # c, NEW k,
           \A f \in Slots : Holds(w, l, r, f, k) <=> Held(c, f, k),
           \A f : ~Copies(l, r, f, k) /\ ~Copies(Pc(c), Loc(c), f, k)
    PROVE  Refs(k)' = Refs(k)
  <1>1. ASSUME NEW d \in Cages, NEW f \in Slots PROVE Ref(d, f, k)' <=> Ref(d, f, k)
    <2>1. CASE d = c
      BY <2>1, RefsBefore, RefsAfter
    <2>2. CASE d # c
      BY <2>2, RefsBefore, RefsAfter
    <2> QED
      BY <2>1, <2>2
  <1>2. Refs(k)' = {x \in Places : Ref(x[1], x[2], k)'}
    BY DEF Refs, Places, Cages, Slots, Fds
  <1> QED
    BY <1>1, <1>2 DEF Refs, Places

\* A step that counts one place more, one less, or another one.
SameBut(c, w, l, r, k, g, h) ==
    \A f \in Slots : f # g /\ f # h => (Holds(w, l, r, f, k) <=> Held(c, f, k))
SamePlaces(k, x, y) ==
    \A z : z # x /\ z # y => (z \in Refs(k)' <=> z \in Refs(k))
\* A step that changes what c holds of k in two descriptors g and h at most.
LEMMA RefsDiffer ==
    ASSUME ChildInv, NEW c \in Cages, Live(c) \/ Pc(c) # "idle",
           NEW live, NEW w, NEW l, NEW r, Becomes(c, live, w, l, r), NEW k,
           NEW g \in Slots, NEW h \in Slots, SameBut(c, w, l, r, k, g, h),
           ~Copying(l, r), ~Copying(Pc(c), Loc(c))
    PROVE  /\ <<c, g>> \in Refs(k) <=> Held(c, g, k)
           /\ <<c, h>> \in Refs(k) <=> Held(c, h, k)
           /\ <<c, g>> \in Refs(k)' <=> Holds(w, l, r, g, k)
           /\ <<c, h>> \in Refs(k)' <=> Holds(w, l, r, h, k)
           /\ SamePlaces(k, <<c, g>>, <<c, h>>)
  <1>0. \A f : ~Copies(l, r, f, k) /\ ~Copies(Pc(c), Loc(c), f, k)
    BY DEF Copies
  <1>1. Refs(k)' = {x \in Places : Ref(x[1], x[2], k)'}
    BY DEF Refs, Places, Cages, Slots, Fds
  <1>2. \A f \in Slots : Ref(c, f, k) <=> Held(c, f, k)
    BY RefsBefore
  <1>3. \A f \in Slots : Ref(c, f, k)' <=> Holds(w, l, r, f, k)
    BY RefsAfter
  <1>4. ASSUME NEW d \in Cages, NEW f \in Slots, d # c PROVE Ref(d, f, k)' <=> Ref(d, f, k)
    <2>1. Ref(d, f, k) <=> OtherRef(c, d, f, k)
      BY <1>0, <1>4, RefsBefore
    <2>2. Ref(d, f, k)' <=> OtherRef(c, d, f, k)
      BY <1>0, <1>4, RefsAfter
    <2> QED
      BY <2>1, <2>2
  <1>5. \A f \in Slots : /\ <<c, f>> \in Refs(k) <=> Held(c, f, k)
                         /\ <<c, f>> \in Refs(k)' <=> Holds(w, l, r, f, k)
    <2>1. \A f \in Slots : <<c, f>> \in Places /\ <<c, f>>[1] = c /\ <<c, f>>[2] = f
      BY DEF Places
    <2>2. \A f \in Slots : <<c, f>> \in Refs(k) <=> Ref(c, f, k)
      BY <2>1 DEF Refs
    <2>3. \A f \in Slots : <<c, f>> \in Refs(k)' <=> Ref(c, f, k)'
      BY <1>1, <2>1
    <2> QED
      BY <1>2, <1>3, <2>2, <2>3
  <1>6. ASSUME NEW x, x # <<c, g>>, x # <<c, h>> PROVE x \in Refs(k)' <=> x \in Refs(k)
    <2>1. CASE x \notin Places
      BY <1>1, <2>1 DEF Refs
    <2>2. CASE x \in Places
      <3>1. PICK d \in Cages, f \in Slots : x = <<d, f>>
        BY <2>2 DEF Places
      <3>2. Ref(d, f, k)' <=> Ref(d, f, k)
        <4>1. CASE d = c
          <5>1. f # g /\ f # h
            BY <1>6, <3>1, <4>1
          <5> QED
            BY <1>2, <1>3, <4>1, <5>1 DEF SameBut
        <4>2. CASE d # c
          BY <1>4, <4>2
        <4> QED
          BY <4>1, <4>2
      <3> QED
        BY <1>1, <2>2, <3>1, <3>2 DEF Refs
    <2> QED
      BY <2>1, <2>2
  <1> QED
    BY <1>5, <1>6 DEF SamePlaces

\* One element more, one less, and one in place of another.
LEMMA OneMore ==
    ASSUME NEW S, NEW R, IsFiniteSet(S), NEW x, x \notin S, x \in R,
           \A y : y # x => (y \in R <=> y \in S)
    PROVE  Cardinality(R) = Cardinality(S) + 1
  <1>1. R = S \cup {x}
    OBVIOUS
  <1> QED
    BY <1>1, FS_AddElement

LEMMA OneLess ==
    ASSUME NEW S, NEW R, IsFiniteSet(S), NEW x, x \in S, x \notin R,
           \A y : y # x => (y \in R <=> y \in S)
    PROVE  Cardinality(R) = Cardinality(S) - 1
  <1>1. R = S \ {x}
    OBVIOUS
  <1> QED
    BY <1>1, FS_RemoveElement

LEMMA OneForOne ==
    ASSUME NEW S, NEW R, IsFiniteSet(S), NEW x, NEW z, x \in S, z \notin S,
           x \notin R, z \in R, \A y : y # x /\ y # z => (y \in R <=> y \in S)
    PROVE  Cardinality(R) = Cardinality(S)
  <1>1. IsFiniteSet(S \ {x}) /\ Cardinality(S \ {x}) = Cardinality(S) - 1
    BY FS_RemoveElement
  <1>2. Cardinality(R) = Cardinality(S \ {x}) + 1
    BY <1>1, OneMore
  <1>3. Cardinality(S) \in Nat
    BY FS_CardinalityType
  <1> QED
    BY <1>1, <1>2, <1>3

\* A step that leaves what is counted, and what is alone, as it was.
LEMMA PlainStep ==
    ASSUME OneCall, TypeOK, Running, NEW c \in Cages, Live(c) \/ Pc(c) # "idle",
           NEW live, NEW w, NEW l, NEW r, Becomes(c, live, w, l, r), live => Live(c),
           count' = count, kfile' = kfile, lost' = lost,
           nextId' = nextId \/ nextId' = nextId + 1,
           Forking(l, r) => \/ IsForking(c) /\ r.at = Loc(c).at
                            \/ r.at = nextId + 1 /\ nextId' = nextId + 1 /\ r.at \in Cages,
           Fits(kfile, live, w, l, r),
           \A k \in Keys : AloneWith(l, r, k) <=> Alone(c, k),
           \A f \in Slots, k \in Keys : Holds(w, l, r, f, k) <=> Held(c, f, k),
           \A f, k : ~Copies(l, r, f, k) /\ ~Copies(Pc(c), Loc(c), f, k)
    PROVE  Running'
  <1>1. CallsInv' /\ ChildInv' /\ NewIdle'
    BY CallsStep, ChildStep DEF Running
  <1>2. AloneInv'
    BY AloneStep DEF Running, AloneInv
  <1>3. LeakInv'
    <2>1. \A k \in Under : k \in Keys
      BY DEF Keys
    <2> QED
      BY <2>1, LeakStep DEF Running, LeakInv
  <1>4. Copying(l, r) => r.at # c
    BY ChildIsOther DEF Running
  <1>5. \A k \in Keys : Refs(k)' = Refs(k)
    BY <1>4, RefsSame DEF Running
  <1>6. CountInv'
    BY <1>5, CountStep DEF Running
  <1> QED
    BY <1>1, <1>2, <1>3, <1>6 DEF Running
-----------------------------------------------------------------------------
(***************************************************************************)
(* Steps that count nothing.                                               *)
(***************************************************************************)
\* The variables of cage c after a step.
Moved(c, live, w, l, r) ==
    /\ Goto(c, Me, l) \/ (UNCHANGED pc /\ l = Pc(c))
    /\ Locals(c, Me, r) \/ (UNCHANGED call /\ r = Loc(c))
    /\ \/ Live(c) /\ live /\ table' = [table EXCEPT ![c] = w]
       \/ UNCHANGED table /\ w = RowOf(c) /\ (live <=> Live(c))

\* The variables after the step, seen as the row, position and call of c.
LEMMA MovedFacts ==
    ASSUME OneCall, TypeOK, CountNeverMissing, NEW c \in Cages, NEW live, NEW w \in Row,
           NEW l \in PcSet, l # "dead", NEW r \in Calls, Moved(c, live, w, l, r)
    PROVE  /\ Becomes(c, live, w, l, r)
           /\ pc' \in [Thr -> PcSet] /\ call' \in [Thr -> Calls]
           /\ DOMAIN table' = DOMAIN table /\ \A d \in DOMAIN table : table'[d] \in Row
           /\ \A p \in Thr : pc'[p] # "dead"
  <1>0. \A d \in Cages : <<d, Me>> \in Thr
    BY OnlyMe DEF Thr
  <1>1. /\ pc' \in [Thr -> PcSet] /\ Pc(c)' = l /\ \A p \in Thr : pc'[p] # "dead"
        /\ \A d \in Cages : d # c => Pc(d)' = Pc(d)
    BY <1>0 DEF Moved, Goto, TypeOK, Pc, CountNeverMissing
  <1>2. /\ call' \in [Thr -> Calls] /\ Loc(c)' = r
        /\ \A d \in Cages : d # c => Loc(d)' = Loc(d)
    BY <1>0 DEF Moved, Locals, TypeOK, Loc
  <1>3. /\ DOMAIN table' = DOMAIN table /\ \A d \in DOMAIN table : table'[d] \in Row
        /\ Live(c)' <=> live
        /\ RowOf(c)' = w
        /\ \A d \in Cages : d # c => RowOf(d)' = RowOf(d) /\ (Live(d)' <=> Live(d))
    BY DEF Moved, TypeOK, RowOf, Live
  <1> QED
    BY <1>1, <1>2, <1>3 DEF Becomes, Same

\* The types after a step.
LEMMA TypeStep ==
    ASSUME OneCall, TypeOK, CountNeverMissing, NEW c \in Cages, NEW live, NEW w \in Row,
           NEW l \in PcSet, l # "dead", NEW r \in Calls, Moved(c, live, w, l, r),
           nextId' = nextId \/ (nextId' = nextId + 1 /\ nextId + 1 \in Cages),
           count' \in [Keys -> Nat], kfile' \in [Under -> 0..MaxOpens],
           opened' \in 1..MaxOpens, lost' \subseteq Under,
           aborted' \in {"no", "table_full", "limit", "cloexec"}
    PROVE  TypeOK' /\ CountNeverMissing'
  <1>1. nextId' \in Cages
    BY DEF TypeOK
  <1>2. DOMAIN table' \subseteq 1..nextId' /\ \A d \in DOMAIN table' : table'[d] \in Row
    BY MovedFacts, Numbers, SMTT(30) DEF TypeOK
  <1>3. /\ pc' \in [Thr -> PcSet] /\ call' \in [Thr -> Calls]
        /\ \A p \in Thr : pc'[p] # "dead"
    BY MovedFacts
  <1>4. TypeOK'
    BY <1>1, <1>2, <1>3
    DEF TypeOK, Keys, Under, Cages, Row, Thr, PcSet, Calls, Fds, Entry, Ops, BadFd
  <1> QED
    BY <1>3, <1>4 DEF CountNeverMissing, Thr, Cages

\* A panic that aborts the host.
LEMMA AbortStep ==
    ASSUME OneCall, TypeOK, CountNeverMissing, NEW why \in {"table_full", "limit", "cloexec"},
           aborted' = why, lost' \subseteq Under,
           UNCHANGED <<nextId, table, count, kfile, opened, pc, call>>
    PROVE  Inv'
  <1>1. TypeOK'
    BY DEF TypeOK
  <1>2. CountNeverMissing'
    BY DEF CountNeverMissing
  <1> QED
    BY <1>1, <1>2 DEF Inv

\* The row counts, and nothing else.
Calm(l, r) ==
    \/ l \in {"idle", "kdup", "cloexec", "copy"}
    \/ l = "alloc" /\ r.op = "dupfd"
    \/ l = "inc" /\ r.op \in Swaps
\* Such a call holds its row and nothing else.
LEMMA CalmHolds ==
    ASSUME NEW l, NEW r, Calm(l, r)
    PROVE  /\ \A w, f, k : Holds(w, l, r, f, k) <=> f \in DOMAIN w /\ w[f].under = k
           /\ \A k : ~AloneWith(l, r, k)
           /\ \A f, k : ~Copies(l, r, f, k)
  BY DEF Calm, Holds, AloneWith, Copies, Pending, Removing, Copying, Swaps, Allocating

\* A step between two such positions that keeps the kernel descriptors of the row.
LEMMA CalmStep ==
    ASSUME OneCall, TypeOK, CountNeverMissing, Running, NEW c \in Cages, Live(c),
           NEW w \in Row, NEW l \in PcSet, l # "dead", NEW r \in Calls,
           Moved(c, TRUE, w, l, r), Calm(Pc(c), Loc(c)), Calm(l, r),
           DOMAIN w = DOMAIN RowOf(c), \A f \in DOMAIN w : w[f].under = RowOf(c)[f].under,
           nextId' = nextId \/ (nextId' = nextId + 1 /\ nextId + 1 \in Cages),
           Forking(l, r) => r.at = nextId + 1 /\ nextId' = nextId + 1,
           Fits(kfile, TRUE, w, l, r),
           UNCHANGED <<count, kfile, opened, aborted, lost>>, aborted = "no"
    PROVE  Inv'
  <1>1. Becomes(c, TRUE, w, l, r)
    BY MovedFacts
  <1>2. TypeOK' /\ CountNeverMissing'
    <2>1. /\ count' \in [Keys -> Nat] /\ kfile' \in [Under -> 0..MaxOpens]
          /\ opened' \in 1..MaxOpens /\ lost' \subseteq Under
          /\ aborted' \in {"no", "table_full", "limit", "cloexec"}
      BY DEF TypeOK, Keys
    <2> QED
      BY <2>1, TypeStep
  <1>3. \A k \in Keys : AloneWith(l, r, k) <=> Alone(c, k)
    BY CalmHolds DEF Alone
  <1>4. \A f \in Slots, k \in Keys : Holds(w, l, r, f, k) <=> Held(c, f, k)
    BY CalmHolds DEF Held
  <1>5. \A f, k : ~Copies(l, r, f, k) /\ ~Copies(Pc(c), Loc(c), f, k)
    BY CalmHolds
  <1>6. Forking(l, r) => r.at = nextId + 1 /\ nextId' = nextId + 1 /\ r.at \in Cages
    BY Numbers DEF TypeOK
  <1>7. Running'
    BY <1>1, <1>3, <1>4, <1>5, <1>6, PlainStep
  <1> QED
    BY <1>2, <1>7 DEF Inv

\* The same, with the types.
LEMMA PlainMove ==
    ASSUME OneCall, TypeOK, CountNeverMissing, Running, NEW c \in Cages,
           Live(c) \/ Pc(c) # "idle", NEW live, live => Live(c), NEW w \in Row,
           NEW l \in PcSet, l # "dead", NEW r \in Calls, Moved(c, live, w, l, r),
           Forking(l, r) => IsForking(c) /\ r.at = Loc(c).at,
           Fits(kfile, live, w, l, r),
           \A k \in Keys : AloneWith(l, r, k) <=> Alone(c, k),
           \A f \in Slots, k \in Keys : Holds(w, l, r, f, k) <=> Held(c, f, k),
           \A f, k : ~Copies(l, r, f, k) /\ ~Copies(Pc(c), Loc(c), f, k),
           UNCHANGED <<nextId, count, kfile, opened, aborted, lost>>, aborted = "no"
    PROVE  Inv'
  <1>1. Becomes(c, live, w, l, r)
    BY MovedFacts
  <1>2. TypeOK' /\ CountNeverMissing'
    <2>1. /\ count' \in [Keys -> Nat] /\ kfile' \in [Under -> 0..MaxOpens]
          /\ opened' \in 1..MaxOpens /\ lost' \subseteq Under
          /\ aborted' \in {"no", "table_full", "limit", "cloexec"}
      BY DEF TypeOK, Keys
    <2> QED
      BY <2>1, TypeStep
  <1>3. Running'
    BY <1>1, PlainStep
  <1> QED
    BY <1>2, <1>3 DEF Inv

\* What a system call starts from.
LEMMA StartFacts ==
    ASSUME OneCall, Inv, NEW c \in Cages, NEW op, Starts(c, Me, op)
    PROVE  /\ TypeOK /\ CountNeverMissing /\ Running /\ aborted = "no"
           /\ Pc(c) = "idle" /\ Live(c) /\ RowOf(c) = table[c] /\ RowOf(c) \in Row
           /\ Calm(Pc(c), Loc(c)) /\ Loc(c) \in Calls
           /\ \A f \in DOMAIN RowOf(c) : /\ f \in Fds /\ RowOf(c)[f] \in Entry
                                         /\ Good(kfile, RowOf(c)[f])
  <1>1. aborted = "no" /\ Pc(c) = "idle" /\ Live(c)
    BY DEF Starts, At, Pc, Live
  <1>2. TypeOK /\ CountNeverMissing /\ Running
    BY <1>1 DEF Inv
  <1>3. RowOf(c) = table[c] /\ RowOf(c) \in Row /\ Loc(c) \in Calls
    BY <1>1, <1>2, TypeFacts
  <1> QED
    BY <1>1, <1>2, <1>3, RowFacts DEF Calm, Running, CallsInv, CallOK, Fits

\* The empty call, and entries whose flag is changed, are well typed.
LEMMA NoCallFacts ==
    /\ NoEntry \in Entry /\ NoCall \in Calls
    /\ \A f \in Fds : f \in 0..FD_PER_PROCESS_MAX
    /\ \A e \in Entry, b \in BOOLEAN : /\ [e EXCEPT !.cloexec = b] \in Entry
                                       /\ [e EXCEPT !.cloexec = b].under = e.under
                                       /\ [e EXCEPT !.cloexec = b].file = e.file
  <1>1. NoEntry \in Entry
    BY FdAssumption DEF NoEntry, Entry
  <1>2. NoCall \in Calls
    BY <1>1, NoRowFacts, FdAssumption DEF NoCall, Calls, Ops
  <1>3. \A f \in Fds : f \in 0..FD_PER_PROCESS_MAX
    BY FdAssumption DEF Fds
  <1>4. \A e \in Entry, b \in BOOLEAN : /\ [e EXCEPT !.cloexec = b] \in Entry
                                       /\ [e EXCEPT !.cloexec = b].under = e.under
                                       /\ [e EXCEPT !.cloexec = b].file = e.file
    BY DEF Entry
  <1> QED
    BY <1>1, <1>2, <1>3, <1>4

\* A call that starts with a copy of an entry of the row.
LEMMA BorrowStep ==
    ASSUME OneCall, Inv, NEW c \in Cages, NEW op \in Ops, Starts(c, Me, op),
           NEW f \in DOMAIN RowOf(c), NEW b \in BOOLEAN, NEW at \in 0..FD_PER_PROCESS_MAX,
           NEW l \in PcSet,
           \/ l = "kdup" /\ op = "dup"
           \/ l = "alloc" /\ op = "dupfd"
           \/ l = "inc" /\ op \in Swaps,
           NEW r \in Calls, r.op = op, r.e = [table[c][f] EXCEPT !.cloexec = b],
           Locals(c, Me, r), Goto(c, Me, l),
           UNCHANGED <<nextId, table, count, kernelVars, aborted, lost>>
    PROVE  Inv'
  <1> DEFINE w == RowOf(c)
  <1>1. Moved(c, TRUE, w, l, r)
    BY StartFacts DEF Moved
  <1>2. Calm(l, r)
    BY DEF Calm
  <1>3. r.e.under = w[f].under /\ Good(kfile, r.e) /\ f \in DOMAIN w
    BY StartFacts, NoCallFacts DEF Good
  <1> HIDE DEF w
  <1>4. ~Pending(l, r) /\ ~Removing(l) /\ ~Forking(l, r) /\ l # "swap_write"
    BY DEF Pending, Removing, Forking, Allocating, Swaps
  <1>5. OpFits(l, r.op) /\ l # "copy_end" /\ l # "dead"
    BY DEF OpFits, Swaps, Allocating
  <1>6. Fits(kfile, TRUE, w, l, r)
    <2>1. EntryFits(kfile, w, l, r) /\ RestFits(kfile, TRUE, w, l, r) /\ CopyFits(w, l, r)
      BY <1>3, <1>4, <1>5 DEF EntryFits, RestFits, CopyFits
    <2> QED
      BY <1>5, <2>1, StartFacts DEF Fits, w
  <1> QED
    BY <1>1, <1>2, <1>4, <1>5, <1>6, StartFacts, CalmStep DEF w, kernelVars

\* dup, fcntl, dup2 and dup3 start with a copy of an entry, and set_cloexec with none.
LEMMA DupStep ==
    ASSUME OneCall, Inv, NEW c \in Cages, NEW f \in Fds, Dup(c, Me, f) PROVE Inv'
  <1> DEFINE e == [table[c][f] EXCEPT !.cloexec = FALSE]
             r == [NoCall EXCEPT !.op = "dup", !.e = e]
  <1>1. Starts(c, Me, "dup") /\ f \in DOMAIN RowOf(c)
    BY StartFacts DEF Dup, Translates
  <1>2. e \in Entry
    BY <1>1, StartFacts, NoCallFacts
  <1>3. r \in Calls /\ r.op = "dup" /\ r.e = e
    BY <1>2, NoCallFacts DEF NoCall, Calls, Ops
  <1>4. /\ Locals(c, Me, r) /\ Goto(c, Me, "kdup")
        /\ UNCHANGED <<nextId, table, count, kernelVars, aborted, lost>>
    BY DEF Dup
  <1>5. "kdup" \in PcSet /\ "dup" \in Ops /\ 0 \in 0..FD_PER_PROCESS_MAX
    BY FdAssumption DEF PcSet, Ops
  <1> QED
    BY <1>1, <1>3, <1>4, <1>5, BorrowStep

LEMMA DupFdStep ==
    ASSUME OneCall, Inv, NEW c \in Cages, NEW f \in Fds, NEW from \in 0..FD_PER_PROCESS_MAX,
           NEW b \in Flags, DupFd(c, Me, f, from, b)
    PROVE  Inv'
  <1> DEFINE e == [table[c][f] EXCEPT !.cloexec = b]
             r == [NoCall EXCEPT !.op = "dupfd", !.at = from, !.e = e]
  <1>0. b \in BOOLEAN
    BY FdAssumption
  <1>1. Starts(c, Me, "dupfd") /\ f \in DOMAIN RowOf(c)
    BY StartFacts DEF DupFd, Translates
  <1>2. e \in Entry
    BY <1>0, <1>1, StartFacts, NoCallFacts
  <1>3. r \in Calls /\ r.op = "dupfd" /\ r.e = e
    BY <1>2, NoCallFacts DEF NoCall, Calls, Ops
  <1>4. /\ Locals(c, Me, r) /\ Goto(c, Me, "alloc")
        /\ UNCHANGED <<nextId, table, count, kernelVars, aborted, lost>>
    BY DEF DupFd
  <1>5. "alloc" \in PcSet /\ "dupfd" \in Ops
    BY DEF PcSet, Ops
  <1> QED
    BY <1>0, <1>1, <1>3, <1>4, <1>5, BorrowStep

LEMMA Dup2Step ==
    ASSUME OneCall, Inv, NEW c \in Cages, NEW f \in Fds, NEW g \in 0..FD_PER_PROCESS_MAX,
           NEW op \in {"dup2", "dup3"}, Dup2(c, Me, f, g, op)
    PROVE  Inv'
  <1> DEFINE e == [table[c][f] EXCEPT !.cloexec = FALSE]
             r == [NoCall EXCEPT !.op = op, !.at = g, !.e = e]
  <1>1. Starts(c, Me, op) /\ f \in DOMAIN RowOf(c)
    BY StartFacts DEF Dup2, Translates
  <1>2. e \in Entry
    BY <1>1, StartFacts, NoCallFacts
  <1>3. r \in Calls /\ r.op = op /\ r.e = e
    BY <1>2, NoCallFacts DEF NoCall, Calls, Ops
  <1>4. /\ Locals(c, Me, r) /\ Goto(c, Me, "inc")
        /\ UNCHANGED <<nextId, table, count, kernelVars, aborted, lost>>
    BY DEF Dup2
  <1>5. "inc" \in PcSet /\ op \in Ops /\ op \in Swaps
    BY DEF PcSet, Ops, Swaps
  <1> QED
    BY <1>1, <1>3, <1>4, <1>5, BorrowStep

LEMMA SetCloexecStep ==
    ASSUME OneCall, Inv, NEW c \in Cages, NEW f \in 0..FD_PER_PROCESS_MAX, NEW b \in BOOLEAN,
           SetCloexec(c, Me, f, b)
    PROVE  Inv'
  <1>1. Starts(c, Me, "cloexec")
    BY DEF SetCloexec
  <1>2. CASE f \notin Fds
    BY <1>1, <1>2, StartFacts, AbortStep DEF SetCloexec, Abort, kernelVars, TypeOK
  <1>3. CASE f \in Fds
    <2> DEFINE r == [NoCall EXCEPT !.op = "cloexec", !.at = f, !.e.cloexec = b]
    <2>1. r \in Calls /\ r.op = "cloexec"
      BY NoCallFacts DEF NoCall, Calls, Ops, Entry
    <2>2. /\ Locals(c, Me, r) /\ Goto(c, Me, "cloexec")
          /\ UNCHANGED <<nextId, table, count, kernelVars, aborted, lost>>
      BY <1>3 DEF SetCloexec
    <2> HIDE DEF r
    <2>3. Moved(c, TRUE, RowOf(c), "cloexec", r)
      BY <1>1, <2>2, StartFacts DEF Moved
    <2>4. Fits(kfile, TRUE, RowOf(c), "cloexec", r) /\ Calm("cloexec", r)
      BY <1>1, <2>1, StartFacts
      DEF Fits, OpFits, EntryFits, RestFits, CopyFits, Pending, Uses, Borrows, Removing,
          Forking, Calm
    <2> QED
      BY <1>1, <2>1, <2>2, <2>3, <2>4, StartFacts, CalmStep DEF kernelVars, Forking, PcSet
  <1> QED
    BY <1>2, <1>3

\* fork's child has the next id, and nothing is counted for it yet.
LEMMA ForkStep ==
    ASSUME OneCall, Inv, NEW c \in Cages, Fork(c, Me) PROVE Inv'
  <1> DEFINE r == [NoCall EXCEPT !.op = "fork", !.at = nextId + 1, !.copy = table[c]]
  <1>1. Starts(c, Me, "fork") /\ nextId < MaxCageId
    BY DEF Fork
  <1>2. nextId + 1 \in Cages
    BY <1>1, StartFacts, FdAssumption DEF TypeOK, Cages
  <1>3. r \in Calls /\ r.op = "fork" /\ r.at = nextId + 1 /\ r.copy = RowOf(c)
    BY <1>1, <1>2, NoCallFacts, StartFacts, ZenonT(60) DEF NoCall, Calls, Ops
  <1>4. /\ Locals(c, Me, r) /\ Goto(c, Me, "copy") /\ nextId' = nextId + 1
        /\ UNCHANGED <<table, count, kernelVars, aborted, lost>>
    BY DEF Fork
  <1> HIDE DEF r
  <1>5. Moved(c, TRUE, RowOf(c), "copy", r)
    BY <1>1, <1>4, StartFacts DEF Moved
  <1>6. Fits(kfile, TRUE, RowOf(c), "copy", r) /\ Calm("copy", r)
    BY <1>1, <1>3, StartFacts
    DEF Fits, OpFits, EntryFits, RestFits, CopyFits, Pending, Uses, Borrows, Removing,
        Forking, Calm
  <1> QED
    BY <1>1, <1>2, <1>3, <1>4, <1>5, <1>6, StartFacts, CalmStep DEF kernelVars, PcSet

\* A call in progress.
LEMMA BusyFacts ==
    ASSUME OneCall, Inv, NEW c \in Cages, NEW l, l # "idle", At(c, Me, l)
    PROVE  /\ TypeOK /\ CountNeverMissing /\ Running /\ aborted = "no"
           /\ Pc(c) = l /\ l \in PcSet /\ Loc(c) = Calling(c, Me) /\ Loc(c) \in Calls
           /\ RowOf(c) \in Row /\ (Live(c) => RowOf(c) = table[c])
           /\ Loc(c).op # "exit" => Live(c)
           /\ Fits(kfile, Live(c), RowOf(c), l, Loc(c)) /\ OpFits(l, Loc(c).op)
           /\ \A f \in DOMAIN RowOf(c) : /\ f \in Fds /\ RowOf(c)[f] \in Entry
                                         /\ Good(kfile, RowOf(c)[f])
  <1>1. aborted = "no" /\ Pc(c) = l /\ Loc(c) = Calling(c, Me)
    BY DEF At, Pc, Loc, Calling
  <1>2. TypeOK /\ CountNeverMissing /\ Running
    BY <1>1 DEF Inv
  <1>3. /\ RowOf(c) \in Row /\ (Live(c) => RowOf(c) = table[c])
        /\ Loc(c) \in Calls /\ l \in PcSet
    BY <1>1, <1>2, TypeFacts
  <1>4. Fits(kfile, Live(c), RowOf(c), l, Loc(c))
    BY <1>1, <1>2 DEF Running, CallsInv, CallOK
  <1>5. /\ OpFits(l, Loc(c).op) /\ (Loc(c).op # "exit" => Live(c))
        /\ \A f \in DOMAIN RowOf(c) : Good(kfile, RowOf(c)[f])
    BY <1>4 DEF Fits
  <1> QED
    BY <1>1, <1>2, <1>3, <1>4, <1>5, RowFacts

\* A cage whose thread makes no call needs open files in its row, no more.
LEMMA IdleFits ==
    ASSUME NEW kf, NEW live, NEW w, \A f \in DOMAIN w : Good(kf, w[f])
    PROVE  /\ Fits(kf, live, w, "idle", NoCall) /\ Calm("idle", NoCall)
           /\ ~Forking("idle", NoCall) /\ "idle" \in PcSet
  BY DEF Fits, OpFits, EntryFits, RestFits, CopyFits, Pending, Uses, Borrows, Removing,
         Forking, Calm, PcSet

\* The flag changes, the kernel descriptors do not.
LEMMA CloexecWriteStep ==
    ASSUME OneCall, Inv, NEW c \in Cages, CloexecWrite(c, Me) PROVE Inv'
  <1> DEFINE w == RowOf(c)
             f == Loc(c).at
             e == [w[f] EXCEPT !.cloexec = Loc(c).e.cloexec]
             v == [w EXCEPT ![f] = e]
  <1>0. At(c, Me, "cloexec")
    BY DEF CloexecWrite
  <1>1. Loc(c).op = "cloexec" /\ Live(c) /\ w = table[c] /\ Loc(c).e.cloexec \in BOOLEAN
    BY <1>0, BusyFacts DEF OpFits, Calls, Entry
  <1>2. CASE f \notin DOMAIN table[c]
    BY <1>0, <1>2, BusyFacts, AbortStep DEF CloexecWrite, Abort, kernelVars, TypeOK
  <1>3. CASE f \in DOMAIN table[c]
    <2>1. w \in Row /\ f \in Fds /\ w[f] \in Entry /\ e \in Entry
      BY <1>0, <1>1, <1>3, BusyFacts, NoCallFacts
    <2>2. table' = [table EXCEPT ![c] = v]
      BY <1>0, <1>1, <1>3, BusyFacts DEF CloexecWrite, Live
    <2>3. DOMAIN v = DOMAIN w /\ \A g \in DOMAIN w : v[g] = IF g = f THEN e ELSE w[g]
      BY <1>1, <1>3, <2>1
    <2>4. e.under = w[f].under /\ e.file = w[f].file
      BY <1>1, <2>1, NoCallFacts
    <2>5. v \in Row
      <3>1. PICK S \in SUBSET Fds : w \in [S -> Entry]
        BY <2>1, Zenon DEF Row
      <3>2. v \in [S -> Entry]
        BY <2>1, <3>1
      <3> QED
        BY <3>2, Zenon DEF Row
    <2> HIDE DEF v, e, f
    <2>6. \A g \in DOMAIN v : v[g].under = w[g].under /\ Good(kfile, v[g])
      BY <1>0, <2>3, <2>4, BusyFacts DEF Good
    <2>7. /\ Finish(c, Me) /\ UNCHANGED <<nextId, count, kernelVars, aborted, lost>>
      BY <1>0, <1>3, BusyFacts DEF CloexecWrite, f
    <2>8. Moved(c, TRUE, v, "idle", NoCall)
      BY <1>1, <2>2, <2>7 DEF Moved, Finish
    <2>9. Calm(Pc(c), Loc(c))
      BY <1>0, BusyFacts DEF Calm
    <2> QED
      BY <1>0, <1>1, <2>3, <2>5, <2>6, <2>7, <2>8, <2>9, BusyFacts, NoCallFacts, IdleFits,
         CalmStep, ZenonT(60) DEF kernelVars
  <1> QED
    BY <1>2, <1>3

\* The old entry is still in the row when it has been read: with one call at a
\* time it cannot change before it is replaced.
LEMMA SwapReadStep ==
    ASSUME OneCall, Inv, NEW c \in Cages, SwapRead(c, Me) PROVE Inv'
  <1> DEFINE w == RowOf(c)
             q == Loc(c)
             S == {q.at} \cap DOMAIN w
             r == [q EXCEPT !.rest = Restrict(w, S)]
  <1>0. At(c, Me, "swap_read")
    BY DEF SwapRead
  <1>1. q.op \in Swaps /\ Live(c) /\ w = table[c] /\ q \in Calls /\ w \in Row
    BY <1>0, BusyFacts DEF OpFits, Swaps
  <1>2. CASE q.at \notin Fds
    BY <1>0, <1>2, BusyFacts, AbortStep DEF SwapRead, Abort, kernelVars, TypeOK
  <1>3. CASE q.at \in Fds
    <2>1. Restrict(w, S) \in Row
      BY <1>1, RestrictRow
    <2>2. /\ r \in Calls /\ r.op = q.op /\ r.e = q.e /\ r.at = q.at
          /\ r.rest = Restrict(w, {r.at} \cap DOMAIN w)
      BY <1>1, <2>1 DEF Calls
    <2>3. call' = [call EXCEPT ![<<c, Me>>] = r]
      <3>1. call' = [call EXCEPT ![<<c, Me>>].rest = Restrict(w, S)]
        BY <1>0, <1>1, <1>3, BusyFacts DEF SwapRead
      <3> QED
        BY <3>1 DEF Loc
    <2>4. Goto(c, Me, "swap_write") /\ UNCHANGED <<table, nextId, count, kernelVars, aborted, lost>>
      BY <1>0, <1>3, BusyFacts DEF SwapRead
    <2> HIDE DEF r, q, w
    <2>5. Moved(c, TRUE, w, "swap_write", r)
      BY <1>1, <2>3, <2>4 DEF Moved, Locals, w
    <2>6. \A k : ~AloneWith("swap_write", r, k) /\ ~Alone(c, k)
      BY <1>0, BusyFacts DEF AloneWith, Alone
    <2>7. \A f, k : Holds(w, "swap_write", r, f, k) <=> Held(c, f, k)
      BY <1>0, <2>2, BusyFacts DEF Holds, Held, Pending, Removing, q, w
    <2>8. \A f, k : ~Copies("swap_write", r, f, k) /\ ~Copies(Pc(c), Loc(c), f, k)
      BY <1>0, BusyFacts DEF Copies, Copying
    <2>9. Fits(kfile, TRUE, w, "swap_write", r)
      <3>1. Good(kfile, q.e)
        BY <1>0, BusyFacts DEF Fits, EntryFits, Uses, q
      <3>2. EntryFits(kfile, w, "swap_write", r)
        BY <2>2, <3>1 DEF EntryFits, Pending, Uses, Borrows
      <3>3. RestFits(kfile, TRUE, w, "swap_write", r) /\ CopyFits(w, "swap_write", r)
        BY <1>1, <1>3, <2>2 DEF RestFits, CopyFits, Removing, Forking, Swaps
      <3> QED
        BY <1>0, <1>1, <2>2, <3>2, <3>3, BusyFacts DEF Fits, OpFits, w
    <2>10. ~Forking("swap_write", r) /\ "swap_write" \in PcSet
      BY <1>1, <2>2 DEF Forking, Swaps, PcSet
    <2> QED
      BY <1>0, <1>1, <2>2, <2>4, <2>5, <2>6, <2>7, <2>8, <2>9, <2>10, BusyFacts, PlainMove
      DEF kernelVars, w
  <1> QED
    BY <1>2, <1>3

\* Close and exec: entries leave the row, to be counted down.
LEMMA RemoveStep ==
    ASSUME OneCall, Inv, NEW c \in Cages, NEW op \in {"close", "exec"}, Starts(c, Me, op),
           NEW S, S \subseteq DOMAIN RowOf(c), S # {},
           NEW v, v = Restrict(RowOf(c), DOMAIN RowOf(c) \ S),
           table' = [table EXCEPT ![c] = v],
           CloseAll(c, Me, op, Restrict(RowOf(c), S)),
           UNCHANGED <<nextId, count, kernelVars, aborted, lost>>
    PROVE  Inv'
  <1> DEFINE w == RowOf(c)
             x == Restrict(w, S)
             r == [NoCall EXCEPT !.op = op, !.rest = x]
  <1>1. /\ v \in Row /\ DOMAIN v = DOMAIN w \ S /\ \A f \in DOMAIN v : v[f] = w[f]
        /\ x \in Row /\ DOMAIN x = S /\ \A f \in S : x[f] = w[f]
    BY StartFacts, RestrictRow
  <1>2. x # NoRow
    BY <1>1, NoRowFacts
  <1>3. r \in Calls /\ r.op = op /\ r.rest = x
    BY <1>1, NoCallFacts DEF NoCall, Calls, Ops
  <1>4. Locals(c, Me, r) /\ Goto(c, Me, "dec")
    BY <1>2 DEF CloseAll
  <1> HIDE DEF r, x, w
  <1>5. Moved(c, TRUE, v, "dec", r)
    BY <1>4, StartFacts DEF Moved
  <1>6. \A k : ~AloneWith("dec", r, k) /\ ~Alone(c, k)
    BY StartFacts DEF AloneWith, Alone
  <1>7. \A f, k : ~Copies("dec", r, f, k) /\ ~Copies(Pc(c), Loc(c), f, k)
    BY StartFacts DEF Copies, Copying
  <1>8. ASSUME NEW f, NEW k PROVE Holds(v, "dec", r, f, k) <=> Held(c, f, k)
    <2>1. Held(c, f, k) <=> f \in DOMAIN w /\ w[f].under = k
      BY StartFacts, CalmHolds DEF Held, w
    <2>2. Holds(v, "dec", r, f, k) <=> \/ f \in DOMAIN v /\ v[f].under = k
                                       \/ f \in DOMAIN x /\ x[f].under = k
      BY <1>3 DEF Holds, Pending, Removing, Due, Closers, Swaps
    <2> QED
      BY <1>1, <2>1, <2>2 DEF w
  <1>9. Fits(kfile, TRUE, v, "dec", r)
    <2>1. \A f \in DOMAIN w : Good(kfile, w[f])
      BY StartFacts DEF w
    <2>2. (\A f \in DOMAIN v : Good(kfile, v[f])) /\ (\A f \in S : Good(kfile, x[f]))
      BY <1>1, <2>1 DEF w
    <2>3. RestFits(kfile, TRUE, v, "dec", r)
      BY <1>1, <1>3, <2>2 DEF RestFits, Swaps, w
    <2> QED
      BY <1>3, <2>2, <2>3
      DEF Fits, OpFits, EntryFits, CopyFits, Pending, Uses, Borrows, Forking, Closers
  <1>10. ~Forking("dec", r) /\ "dec" \in PcSet
    BY <1>3 DEF Forking, PcSet
  <1> QED
    BY <1>1, <1>3, <1>5, <1>6, <1>7, <1>8, <1>9, <1>10, StartFacts, PlainMove DEF kernelVars

\* close takes out one entry, exec those with the flag.
LEMMA CloseStep ==
    ASSUME OneCall, Inv, NEW c \in Cages, NEW f \in Fds, Close(c, Me, f) PROVE Inv'
  <1>1. Starts(c, Me, "close") /\ f \in DOMAIN RowOf(c) /\ RowOf(c) = table[c]
    BY StartFacts DEF Close
  <1>2. c \in DOMAIN table
    BY <1>1, StartFacts DEF Live
  <1>3. table' = [table EXCEPT ![c] = Restrict(RowOf(c), DOMAIN RowOf(c) \ {f})]
    BY <1>1, <1>2 DEF Close, Without
  <1>4. CloseAll(c, Me, "close", Restrict(RowOf(c), {f}))
    BY <1>1 DEF Close
  <1> QED
    BY <1>1, <1>3, <1>4, RemoveStep DEF Close

LEMMA ExecStep ==
    ASSUME OneCall, Inv, NEW c \in Cages, Exec(c, Me) PROVE Inv'
  <1> DEFINE S == {f \in DOMAIN RowOf(c) : RowOf(c)[f].cloexec}
  <1>1. Starts(c, Me, "exec") /\ RowOf(c) = table[c]
    BY StartFacts DEF Exec
  <1>2. c \in DOMAIN table
    BY <1>1, StartFacts DEF Live
  <1>3. S \subseteq DOMAIN RowOf(c) /\ S # {}
    BY <1>1 DEF Exec
  <1>4. table' = [table EXCEPT ![c] = Restrict(RowOf(c), DOMAIN RowOf(c) \ S)]
    BY <1>1, <1>2 DEF Exec
  <1>5. CloseAll(c, Me, "exec", Restrict(RowOf(c), S))
    BY <1>1 DEF Exec
  <1> HIDE DEF S
  <1> QED
    BY <1>1, <1>3, <1>4, <1>5, RemoveStep DEF Exec

\* The row of a cage that ends leaves the table, and its entries are counted down.
LEMMA ExitStep ==
    ASSUME OneCall, Inv, NEW c \in Cages, Exit(c, Me) PROVE Inv'
  <1> DEFINE w == RowOf(c)
             r == [NoCall EXCEPT !.op = "exit", !.rest = w]
  <1>1. Starts(c, Me, "exit") /\ UNCHANGED <<nextId, count, kernelVars, aborted, lost>>
    BY DEF Exit
  <1>2. /\ TypeOK /\ CountNeverMissing /\ Running /\ aborted = "no" /\ Live(c)
        /\ w = table[c] /\ w \in Row /\ Pc(c) = "idle" /\ Loc(c) \in Calls
    BY <1>1, StartFacts
  <1>3. table' = Restrict(table, DOMAIN table \ {c}) /\ CloseAll(c, Me, "exit", w)
    BY <1>2 DEF Exit
  <1>4. /\ DOMAIN table' = DOMAIN table \ {c}
        /\ \A d \in DOMAIN table' : table'[d] = table[d]
    BY <1>3 DEF Restrict
  <1>5. /\ ~Live(c)' /\ RowOf(c)' = NoRow
        /\ \A d \in Cages : d # c => RowOf(d)' = RowOf(d) /\ (Live(d)' <=> Live(d))
    BY <1>4 DEF Live, RowOf
  <1>6. r \in Calls /\ r.op = "exit" /\ r.rest = w
    BY <1>2, NoCallFacts DEF NoCall, Calls, Ops
  <1> HIDE DEF r
  <1>7. PICK l \in {"idle", "dec"}, q \in Calls :
          /\ Pc(c)' = l /\ Loc(c)' = q
          /\ pc' \in [Thr -> PcSet] /\ call' \in [Thr -> Calls]
          /\ \A p \in Thr : pc'[p] # "dead"
          /\ \A d \in Cages : d # c => Pc(d)' = Pc(d) /\ Loc(d)' = Loc(d)
          /\ l = "idle" => w = NoRow
          /\ l = "dec" => q = r /\ w # NoRow
    <2>1. CASE w = NoRow
      <3>1. UNCHANGED <<pc, call>>
        BY <1>3, <2>1 DEF CloseAll
      <3> QED
        BY <1>2, <2>1, <3>1 DEF Pc, Loc, TypeOK, CountNeverMissing
    <2>2. CASE w # NoRow
      <3>1. Locals(c, Me, r) /\ Goto(c, Me, "dec")
        BY <1>3, <2>2 DEF CloseAll, r
      <3>2. "dec" \in PcSet /\ \A d \in Cages : <<d, Me>> \in Thr
        BY OnlyMe DEF PcSet, Thr
      <3> QED
        BY <1>2, <1>6, <2>2, <3>1, <3>2 DEF Pc, Loc, TypeOK, CountNeverMissing, Locals, Goto
    <2> QED
      BY <2>1, <2>2
  <1>8. TypeOK' /\ CountNeverMissing'
    <2>1. DOMAIN table' \subseteq 1..nextId /\ \A d \in DOMAIN table' : table'[d] \in Row
      BY <1>2, <1>4 DEF TypeOK
    <2>2. TypeOK'
      BY <1>1, <1>2, <1>7, <2>1 DEF TypeOK, kernelVars
    <2> QED
      BY <1>1, <1>2, <1>7, <2>2 DEF CountNeverMissing
  <1>9. Becomes(c, FALSE, NoRow, l, q)
    BY <1>5, <1>7 DEF Becomes, Same
  <1>10. ~Forking(l, q)
    BY <1>6, <1>7 DEF Forking
  <1>11. \A k : ~AloneWith(l, q, k) /\ ~Alone(c, k)
    BY <1>2, <1>7 DEF AloneWith, Alone
  <1>12. \A f, k : ~Copies(l, q, f, k) /\ ~Copies(Pc(c), Loc(c), f, k)
    BY <1>2, <1>7 DEF Copies, Copying
  <1>13. ASSUME NEW f, NEW k PROVE Holds(NoRow, l, q, f, k) <=> Held(c, f, k)
    <2>1. Held(c, f, k) <=> f \in DOMAIN w /\ w[f].under = k
      <3>1. Calm(Pc(c), Loc(c))
        BY <1>1, StartFacts
      <3> QED
        BY <3>1, CalmHolds DEF Held
    <2>2. CASE l = "idle"
      <3>1. Holds(NoRow, l, q, f, k) <=> f \in DOMAIN NoRow /\ NoRow[f].under = k
        BY <2>2 DEF Holds, Pending, Removing
      <3>2. w = NoRow
        BY <1>7, <2>2
      <3> QED
        BY <2>1, <3>1, <3>2
    <2>3. CASE l = "dec"
      <3>1. q.op = "exit" /\ q.rest = w
        BY <1>6, <1>7, <2>3
      <3> QED
        BY <2>1, <2>3, <3>1, NoRowFacts DEF Holds, Pending, Removing, Due, Closers, Swaps
    <2> QED
      BY <1>7, <2>2, <2>3
  <1>14. Fits(kfile, FALSE, NoRow, l, q)
    <2>1. DOMAIN NoRow = {} /\ (DOMAIN w # {} \/ w = NoRow)
      BY <1>2, NoRowFacts
    <2>2. CASE l = "idle"
      BY <2>2, NoRowFacts
      DEF Fits, OpFits, EntryFits, RestFits, CopyFits, Pending, Uses, Borrows, Removing, Forking
    <2>3. CASE l = "dec"
      <3>1. q.op = "exit" /\ q.rest = w /\ DOMAIN w # {}
        BY <1>6, <1>7, <2>1, <2>3
      <3>2. RestFits(kfile, FALSE, NoRow, l, q)
        BY <1>1, <2>3, <3>1, StartFacts, NoRowFacts DEF RestFits, Closers, Swaps
      <3> QED
        BY <2>3, <3>1, <3>2, NoRowFacts
        DEF Fits, OpFits, EntryFits, CopyFits, Pending, Uses, Borrows, Forking, Closers
    <2> QED
      BY <1>7, <2>2, <2>3
  <1>15. Running'
    BY <1>1, <1>2, <1>9, <1>10, <1>11, <1>12, <1>13, <1>14, PlainStep DEF kernelVars
  <1> QED
    BY <1>8, <1>15 DEF Inv

\* The parent's row is fetched again, to count its entries.
LEMMA CopyStep ==
    ASSUME OneCall, Inv, NEW c \in Cages, Copy(c, Me) PROVE Inv'
  <1> DEFINE w == RowOf(c)
             q == Loc(c)
             r == [q EXCEPT !.rest = w]
             l == IF w = NoRow THEN "copy_end" ELSE "inc"
  <1>0. At(c, Me, "copy")
    BY DEF Copy
  <1>1. q.op = "fork" /\ Live(c) /\ w = table[c] /\ q \in Calls /\ w \in Row /\ q.copy = w
    BY <1>0, BusyFacts DEF OpFits, Fits, CopyFits, Forking
  <1>2. /\ r \in Calls /\ r.op = "fork" /\ r.at = q.at /\ r.copy = w /\ r.rest = w
    BY <1>1 DEF Calls
  <1>3. call' = [call EXCEPT ![<<c, Me>>] = r]
    <2>1. call' = [call EXCEPT ![<<c, Me>>].rest = w]
      BY <1>1 DEF Copy
    <2> QED
      BY <2>1 DEF Loc
  <1>4. Goto(c, Me, l) /\ UNCHANGED <<nextId, table, count, kernelVars, aborted, lost>>
    BY <1>1 DEF Copy
  <1>5. l \in {"inc", "copy_end"} /\ (l = "inc" <=> DOMAIN w # {})
    BY <1>1, NoRowFacts
  <1> HIDE DEF r, l
  <1>6. Moved(c, TRUE, w, l, r)
    BY <1>1, <1>3, <1>4 DEF Moved, Locals
  <1>7. \A k : ~AloneWith(l, r, k) /\ ~Alone(c, k)
    BY <1>0, <1>2, <1>5, BusyFacts DEF AloneWith, Alone
  <1>8. \A f, k : ~Copies(l, r, f, k) /\ ~Copies(Pc(c), Loc(c), f, k)
    BY <1>0, <1>2, BusyFacts DEF Copies, Copying
  <1>9. \A f, k : Holds(w, l, r, f, k) <=> Held(c, f, k)
    BY <1>0, <1>2, <1>5, BusyFacts DEF Holds, Held, Pending, Removing, Allocating
  <1>10. Fits(kfile, TRUE, w, l, r)
    <2>1. EntryFits(kfile, w, l, r)
      BY <1>2, <1>5 DEF EntryFits, Pending, Uses, Borrows, Allocating, Swaps
    <2>2. RestFits(kfile, TRUE, w, l, r) /\ CopyFits(w, l, r)
      BY <1>2, <1>5 DEF RestFits, CopyFits, Removing, Forking
    <2> QED
      BY <1>0, <1>2, <1>5, <2>1, <2>2, BusyFacts DEF Fits, OpFits
  <1>11. Forking(l, r) => IsForking(c) /\ r.at = Loc(c).at
    BY <1>0, <1>1, <1>2, BusyFacts DEF IsForking, Forking
  <1>12. l \in PcSet /\ l # "dead"
    BY <1>5 DEF PcSet
  <1>13. UNCHANGED <<nextId, count, kfile, opened, aborted, lost>>
    BY <1>4 DEF kernelVars
  <1>14. TypeOK /\ CountNeverMissing /\ Running /\ aborted = "no"
    BY <1>0, BusyFacts
  <1> HIDE DEF w, q
  <1> QED
    BY <1>1, <1>2, <1>6, <1>7, <1>8, <1>9, <1>10, <1>11, <1>12, <1>13, <1>14, PlainMove

\* get_unused_virtual_fd: the entry enters the row, or there is no room for it.
LEMMA AllocFullStep ==
    ASSUME OneCall, Inv, NEW c \in Cages, Alloc(c, Me), Free(c, Loc(c).at) = {} PROVE Inv'
  <1> DEFINE w == RowOf(c)
             q == Loc(c)
  <1>0. At(c, Me, "alloc")
    BY DEF Alloc
  <1>1. q.op \in Allocating /\ Live(c) /\ q \in Calls /\ w \in Row
    BY <1>0, BusyFacts DEF OpFits, Allocating
  <1>2. Good(kfile, q.e)
    BY <1>0, BusyFacts DEF Fits, EntryFits, Uses
  <1>3. TableFull(c, Me) /\ UNCHANGED <<nextId, count, kernelVars>> /\ UNCHANGED table
    BY <1>0, BusyFacts DEF Alloc, TableFull
  <1>4. lost' = IF q.op = "open" THEN lost \cup {q.e.under} ELSE lost
    BY <1>0, <1>3, BusyFacts DEF TableFull
  <1>5. lost' \subseteq Under
    BY <1>0, <1>2, <1>4, BusyFacts DEF TypeOK, Good
  <1>6. CASE q.op = "dup"
    <2>1. aborted' = "table_full" /\ UNCHANGED <<pc, call>>
      BY <1>0, <1>3, <1>6, BusyFacts DEF TableFull, Abort
    <2> QED
      BY <1>0, <1>3, <1>5, <2>1, BusyFacts, AbortStep DEF kernelVars
  <1>7. CASE q.op # "dup"
    <2>1. Finish(c, Me) /\ aborted' = aborted
      BY <1>0, <1>3, <1>7, BusyFacts DEF TableFull
    <2>2. Moved(c, TRUE, w, "idle", NoCall)
      BY <1>1, <1>3, <2>1 DEF Moved, Finish
    <2>3. /\ Fits(kfile, TRUE, w, "idle", NoCall) /\ Calm("idle", NoCall)
          /\ ~Forking("idle", NoCall) /\ "idle" \in PcSet
      BY <1>0, BusyFacts, IdleFits
    <2>4. CASE q.op = "dupfd"
      <3>1. Calm(Pc(c), Loc(c)) /\ lost' = lost
        BY <1>0, <1>4, <2>4, BusyFacts DEF Calm
      <3> QED
        BY <1>0, <1>1, <1>3, <2>1, <2>2, <2>3, <3>1, BusyFacts, NoCallFacts, CalmStep
        DEF kernelVars
    <2>5. CASE q.op = "open"
      <3>1. Becomes(c, TRUE, w, "idle", NoCall)
        BY <1>0, <1>1, <2>2, <2>3, BusyFacts, MovedFacts, NoCallFacts
      <3>2. TypeOK' /\ CountNeverMissing'
        <4>1. /\ count' \in [Keys -> Nat] /\ kfile' \in [Under -> 0..MaxOpens]
              /\ opened' \in 1..MaxOpens /\ aborted' \in {"no", "table_full", "limit", "cloexec"}
          BY <1>0, <1>3, <2>1, BusyFacts DEF TypeOK, Keys, kernelVars
        <4> QED
          BY <1>0, <1>1, <1>3, <1>5, <2>2, <2>3, <4>1, BusyFacts, NoCallFacts, TypeStep
      <3>3. count' = count /\ kfile' = kfile /\ nextId' = nextId
        BY <1>3 DEF kernelVars
      <3>4. \A f, k : ~Copies("idle", NoCall, f, k) /\ ~Copies(Pc(c), Loc(c), f, k)
        BY <1>0, BusyFacts DEF Copies, Copying
      <3>5. \A f, k : Holds(w, "idle", NoCall, f, k) <=> Held(c, f, k)
        BY <1>0, BusyFacts DEF Holds, Held, Pending, Removing
      <3>6. \A k : ~AloneWith("idle", NoCall, k)
        BY DEF AloneWith
      <3>7. \A k : Alone(c, k) => k = q.e.under
        BY <1>0, BusyFacts DEF Alone, AloneWith
      <3>8. CallsInv' /\ ChildInv' /\ NewIdle'
        BY <1>0, <1>1, <2>3, <3>1, <3>3, BusyFacts, CallsStep, ChildStep DEF Running
      <3>9. AloneInv'
        BY <1>0, <3>1, <3>3, <3>6, BusyFacts, AloneStep DEF Running
      <3>10. LeakInv'
        <4>1. ASSUME NEW k \in Under \ (Standard \cup lost'), kfile'[k] # 0
              PROVE  kfile[k] # 0 /\ k \notin lost /\ count'[k] = count[k] /\ ~Alone(c, k)
          BY <1>4, <2>5, <3>3, <3>7, <4>1
        <4> QED
          BY <1>0, <3>1, <4>1, BusyFacts, LeakStep DEF Running
      <3>11. \A k \in Keys : Refs(k)' = Refs(k)
        BY <1>0, <1>1, <2>3, <3>1, <3>4, <3>5, BusyFacts, RefsSame DEF Running, Copying, Forking
      <3>12. CountInv'
        BY <1>0, <3>3, <3>11, BusyFacts, CountStep DEF Running
      <3> QED
        BY <3>2, <3>8, <3>9, <3>10, <3>12 DEF Running, Inv
    <2> QED
      BY <1>1, <1>7, <2>4, <2>5 DEF Allocating
  <1> QED
    BY <1>6, <1>7

\* The new entry is in the row, and its place is not counted yet.
LEMMA AllocFoundStep ==
    ASSUME OneCall, Inv, NEW c \in Cages, Alloc(c, Me), Free(c, Loc(c).at) # {} PROVE Inv'
  <1> DEFINE w == RowOf(c)
             q == Loc(c)
             g == Lowest(Free(c, q.at))
             v == Put(w, g, q.e)
             r == [q EXCEPT !.at = g]
  <1>0. At(c, Me, "alloc")
    BY DEF Alloc
  <1>1. /\ q.op \in Allocating /\ Live(c) /\ q \in Calls /\ w \in Row /\ w = table[c]
        /\ q.e \in Entry /\ c \in DOMAIN table
    BY <1>0, BusyFacts DEF OpFits, Allocating, Calls, Live
  <1>2. g \in Fds /\ g \notin DOMAIN w
    <2>1. Free(c, q.at) \subseteq Nat
      BY Numbers DEF Free
    <2>2. g \in Free(c, q.at)
      BY <2>1, LowestIn
    <2> QED
      BY <1>1, <2>2 DEF Free
  <1>3. /\ v \in Row /\ DOMAIN v = DOMAIN w \cup {g} /\ v[g] = q.e
        /\ \A f \in DOMAIN w : v[f] = w[f]
    <2> HIDE DEF w, q, g
    <2>1. \A f \in DOMAIN w : f # g
      BY <1>2
    <2>2. /\ v \in Row /\ DOMAIN v = DOMAIN w \cup {g} /\ v[g] = q.e
          /\ \A f \in DOMAIN w : f # g => v[f] = w[f]
      <3>1. w \in Row /\ g \in Fds /\ q.e \in Entry
        BY <1>1, <1>2
      <3> QED
        BY <3>1, PutRow, ZenonT(60)
    <2> QED
      BY <2>1, <2>2
  <1>4. r \in Calls /\ r.op = q.op /\ r.e = q.e /\ r.at = g
    BY <1>1, <1>2, NoCallFacts DEF Calls
  <1>5. /\ table' = [table EXCEPT ![c] = v] /\ Locals(c, Me, r) /\ Goto(c, Me, "inc")
        /\ UNCHANGED <<nextId, count, kernelVars, aborted, lost>>
    <2>1. /\ table' = [table EXCEPT ![c] = Put(@, g, q.e)] /\ Locals(c, Me, r)
          /\ Goto(c, Me, "inc") /\ UNCHANGED <<nextId, count, kernelVars, aborted, lost>>
      <3>1. Calling(c, Me) = q
        BY <1>0, BusyFacts
      <3> QED
        BY <3>1 DEF Alloc
    <2> QED
      BY <1>1, <2>1
  <1>6. Moved(c, TRUE, v, "inc", r)
    BY <1>1, <1>5 DEF Moved
  <1> HIDE DEF v, r, g
  <1>7. \A k : AloneWith("inc", r, k) <=> Alone(c, k)
    BY <1>0, <1>4, BusyFacts DEF AloneWith, Alone
  <1>8. \A f, k : ~Copies("inc", r, f, k) /\ ~Copies(Pc(c), Loc(c), f, k)
    BY <1>0, <1>1, <1>4, BusyFacts DEF Copies, Copying, Allocating
  <1>9. ASSUME NEW f, NEW k PROVE Holds(v, "inc", r, f, k) <=> Held(c, f, k)
    <2>1. Held(c, f, k) <=> f \in DOMAIN w /\ w[f].under = k
      BY <1>0, BusyFacts DEF Held, Holds, Pending, Removing
    <2>2. Holds(v, "inc", r, f, k) <=> f \in DOMAIN v /\ v[f].under = k /\ g # f
      BY <1>1, <1>4 DEF Holds, Pending, Removing
    <2> QED
      BY <1>2, <1>3, <2>1, <2>2
  <1>10. Fits(kfile, TRUE, v, "inc", r)
    <2>1. EntryFits(kfile, w, "alloc", q)
      BY <1>0, BusyFacts DEF Fits
    <2>2. Good(kfile, q.e)
      BY <2>1 DEF EntryFits, Uses
    <2>3. \A f \in DOMAIN v : Good(kfile, v[f])
      BY <1>0, <1>3, <2>2, BusyFacts
    <2>4. ASSUME Borrows("inc", r)
          PROVE  \E f \in DOMAIN v : v[f].under = r.e.under /\ r.at # f
      <3>1. Borrows("alloc", q)
        BY <1>1, <1>4, <2>4 DEF Borrows, Swaps, Allocating
      <3>2. PICK f \in DOMAIN w : w[f].under = q.e.under
        BY <2>1, <3>1 DEF EntryFits
      <3> QED
        BY <1>2, <1>3, <1>4, <3>2
    <2>5. EntryFits(kfile, v, "inc", r)
      BY <1>3, <1>4, <2>2, <2>4 DEF EntryFits
    <2>6. RestFits(kfile, TRUE, v, "inc", r) /\ CopyFits(v, "inc", r)
      BY <1>1, <1>4 DEF RestFits, CopyFits, Removing, Forking, Allocating
    <2> QED
      BY <1>1, <1>4, <2>3, <2>5, <2>6 DEF Fits, OpFits
  <1>11. ~Forking("inc", r) /\ "inc" \in PcSet
    BY <1>1, <1>4 DEF Forking, Allocating, PcSet
  <1> QED
    BY <1>0, <1>1, <1>3, <1>4, <1>5, <1>6, <1>7, <1>8, <1>9, <1>10, <1>11, BusyFacts, PlainMove
    DEF kernelVars

\* The positions a call can be in once its entries are counted: it has returned, or
\* it is a dup3 that goes on to set_cloexec.
Resting(l, r) == (l = "idle" /\ r = NoCall) \/ (l = "cloexec" /\ r.op = "cloexec")
\* Such a call fits, and holds its row only.
LEMMA RestingFits ==
    ASSUME NEW kf, NEW live, NEW w, NEW l, NEW r, Resting(l, r), l = "cloexec" => live,
           \A f \in DOMAIN w : Good(kf, w[f])
    PROVE  /\ Fits(kf, live, w, l, r) /\ Calm(l, r) /\ ~Forking(l, r)
           /\ l \in PcSet /\ l # "dead"
  BY DEF Resting, Fits, OpFits, EntryFits, RestFits, CopyFits, Pending, Uses, Borrows, Removing,
         Forking, Calm, PcSet

\* Where a call goes when the entries it replaced are closed.
LEMMA AfterSwapFacts ==
    ASSUME NEW c, NEW row, Calling(c, Me) \in Calls, AfterSwap(c, Me, row)
    PROVE  \E l \in {"idle", "cloexec"}, r \in Calls :
              /\ Resting(l, r) /\ Goto(c, Me, l) /\ Locals(c, Me, r)
              /\ l = "cloexec" => Calling(c, Me).op = "dup3"
  <1> DEFINE g == Calling(c, Me).at
             r == [NoCall EXCEPT !.op = "cloexec", !.at = g, !.e.cloexec = TRUE]
  <1>1. CASE Calling(c, Me).op = "dup3" /\ g \in DOMAIN row
    <2>1. r \in Calls /\ r.op = "cloexec"
      BY NoCallFacts DEF NoCall, Calls, Ops, Entry
    <2>2. Locals(c, Me, r) /\ Goto(c, Me, "cloexec")
      BY <1>1 DEF AfterSwap
    <2> HIDE DEF r
    <2> QED
      BY <1>1, <2>1, <2>2 DEF Resting
  <1>2. CASE ~(Calling(c, Me).op = "dup3" /\ g \in DOMAIN row)
    <2>1. Finish(c, Me)
      BY <1>2 DEF AfterSwap
    <2> QED
      BY <2>1, NoCallFacts DEF Finish, Resting
  <1> QED
    BY <1>1, <1>2

\* get_specific_virtual_fd writes the new entry; the old one is what it holds now.
LEMMA SwapWriteStep ==
    ASSUME OneCall, Inv, NEW c \in Cages, SwapWrite(c, Me) PROVE Inv'
  <1> DEFINE w == RowOf(c)
             q == Loc(c)
  <1>0. At(c, Me, "swap_write")
    BY DEF SwapWrite
  <1>1. /\ q.op \in Swaps /\ Live(c) /\ q \in Calls /\ w \in Row /\ w = table[c]
        /\ q.e \in Entry /\ c \in DOMAIN table /\ Calling(c, Me) = q /\ Pc(c) = "swap_write"
        /\ TypeOK /\ CountNeverMissing /\ Running /\ aborted = "no"
        /\ \A f \in DOMAIN w : Good(kfile, w[f])
    BY <1>0, BusyFacts DEF OpFits, Swaps, Calls, Live
  <1>2. PICK g \in Fds : /\ g = q.at /\ q.rest = Restrict(w, {g} \cap DOMAIN w)
                          /\ Good(kfile, q.e)
    BY <1>0, BusyFacts DEF Fits, RestFits, EntryFits, Uses
  <1> DEFINE v == Put(w, g, q.e)
  <1>3. /\ v \in Row /\ DOMAIN v = DOMAIN w \cup {g} /\ v[g] = q.e
        /\ \A f \in DOMAIN w : f # g => v[f] = w[f]
    <2>1. w \in Row /\ q.e \in Entry
      BY <1>1
    <2> HIDE DEF w, q
    <2> QED
      BY <2>1, PutRow, ZenonT(60)
  <1>4. /\ q.rest \in Row /\ DOMAIN q.rest = {g} \cap DOMAIN w
        /\ \A f \in DOMAIN q.rest : q.rest[f] = w[f]
    BY <1>1, <1>2, RestrictRow
  <1>5. /\ table' = [table EXCEPT ![c] = v]
        /\ UNCHANGED <<nextId, count, kernelVars, aborted, lost>>
    BY <1>1, <1>2 DEF SwapWrite
  <1>6. PICK l \in {"idle", "cloexec", "dec"}, r \in Calls :
          /\ Goto(c, Me, l) /\ (Locals(c, Me, r) \/ (UNCHANGED call /\ r = q))
          /\ l # "dec" => Resting(l, r) /\ g \notin DOMAIN w
          /\ l = "dec" => r = q /\ g \in DOMAIN w
    <2>1. CASE q.rest = NoRow
      <3>1. g \notin DOMAIN w
        BY <1>4, <2>1, NoRowFacts
      <3>2. AfterSwap(c, Me, table'[c])
        BY <1>1, <2>1 DEF SwapWrite
      <3> QED
        BY <1>1, <3>1, <3>2, AfterSwapFacts
    <2>2. CASE q.rest # NoRow
      <3>1. g \in DOMAIN w
        BY <1>4, <2>2, NoRowFacts
      <3> QED
        BY <1>1, <2>2, <3>1 DEF SwapWrite
    <2> QED
      BY <2>1, <2>2
  <1> HIDE DEF v, w
  <1>7. Moved(c, TRUE, v, l, r)
    BY <1>1, <1>5, <1>6 DEF Moved
  <1>8. \A f \in DOMAIN v : Good(kfile, v[f])
    BY <1>1, <1>2, <1>3
  <1>9. l \in PcSet /\ l # "dead" /\ ~Forking(l, r)
    <2>1. CASE l = "dec"
      BY <1>1, <1>6, <2>1 DEF Forking, Swaps, PcSet
    <2>2. CASE l # "dec"
      BY <1>6, <1>8, <2>2, RestingFits
    <2> QED
      BY <2>1, <2>2
  <1>10. Fits(kfile, TRUE, v, l, r)
    <2>1. CASE l = "dec"
      <3>1. RestFits(kfile, TRUE, v, l, r)
        <4>1. DOMAIN r.rest = {r.at} /\ \A f \in DOMAIN r.rest : Good(kfile, r.rest[f])
          BY <1>1, <1>2, <1>4, <1>6, <2>1
        <4> QED
          BY <1>1, <1>6, <2>1, <4>1 DEF RestFits, Removing, Closers, Swaps
      <3>2. OpFits(l, r.op) /\ EntryFits(kfile, v, l, r) /\ CopyFits(v, l, r)
        BY <1>1, <1>6, <2>1, <1>9 DEF OpFits, EntryFits, CopyFits, Pending, Uses, Borrows
      <3> QED
        BY <1>8, <3>1, <3>2 DEF Fits
    <2>2. CASE l # "dec"
      BY <1>6, <1>8, <2>2, RestingFits
    <2> QED
      BY <2>1, <2>2
  <1>11. Becomes(c, TRUE, v, l, r)
    BY <1>1, <1>3, <1>7, <1>9, MovedFacts
  <1>12. TypeOK' /\ CountNeverMissing'
    <2>1. /\ count' \in [Keys -> Nat] /\ kfile' \in [Under -> 0..MaxOpens]
          /\ opened' \in 1..MaxOpens /\ lost' \subseteq Under
          /\ aborted' \in {"no", "table_full", "limit", "cloexec"} /\ nextId' = nextId
      BY <1>1, <1>5 DEF TypeOK, Keys, kernelVars
    <2> QED
      BY <1>1, <1>3, <1>7, <1>9, <2>1, TypeStep
  <1>13. \A f, k : ~Copies(l, r, f, k) /\ ~Copies(Pc(c), Loc(c), f, k)
    BY <1>1, <1>9 DEF Copies, Copying, Forking
  <1>14. \A k : ~AloneWith(l, r, k) /\ ~Alone(c, k)
    BY <1>1, <1>6 DEF AloneWith, Alone
  <1>15. ASSUME NEW f, NEW k
         PROVE  Held(c, f, k) <=> \/ f \in DOMAIN w /\ w[f].under = k
                                  \/ f = BadFd /\ q.e.under = k
    BY <1>1 DEF Held, Holds, Pending, Removing, w
  <1>16. ASSUME NEW f, NEW k
         PROVE  Holds(v, l, r, f, k) <=> \/ f \in DOMAIN v /\ v[f].under = k
                                         \/ f = BadFd /\ g \in DOMAIN w /\ w[g].under = k
    <2>1. CASE l = "dec"
      <3>1. r.rest[r.at] = w[g] /\ g \in DOMAIN w /\ r.op \in Swaps
        BY <1>1, <1>2, <1>4, <1>6, <2>1
      <3> QED
        BY <2>1, <3>1 DEF Holds, Pending, Removing, Closers, Swaps
    <2>2. CASE l # "dec"
      <3>1. Calm(l, r)
        BY <1>6, <1>8, <2>2, RestingFits
      <3> QED
        BY <1>6, <2>2, <3>1, CalmHolds
    <2> QED
      BY <2>1, <2>2
  <1>17. ASSUME NEW k \in Keys PROVE Cardinality(Refs(k)') = Cardinality(Refs(k))
    <2> DEFINE old == g \in DOMAIN w /\ w[g].under = k
               new == q.e.under = k
    <2>0. g \in Slots /\ BadFd \in Slots /\ g # BadFd /\ BadFd \notin DOMAIN w
      BY <1>1, <1>2, Numbers, RowFacts DEF Slots
    <2>1. /\ Held(c, g, k) <=> old
          /\ Held(c, BadFd, k) <=> new
          /\ Holds(v, l, r, g, k) <=> new
          /\ Holds(v, l, r, BadFd, k) <=> old
      BY <1>3, <1>15, <1>16, <2>0
    <2>2. \A f \in Slots : f # g /\ f # BadFd => (Holds(v, l, r, f, k) <=> Held(c, f, k))
      BY <1>3, <1>15, <1>16
    <2>3. ~Copying(l, r)
      BY <1>9 DEF Copying, Forking
    <2>4. /\ <<c, g>> \in Refs(k) <=> Held(c, g, k)
          /\ <<c, BadFd>> \in Refs(k) <=> Held(c, BadFd, k)
          /\ <<c, g>> \in Refs(k)' <=> Holds(v, l, r, g, k)
          /\ <<c, BadFd>> \in Refs(k)' <=> Holds(v, l, r, BadFd, k)
          /\ SamePlaces(k, <<c, g>>, <<c, BadFd>>)
      <3>1. ChildInv /\ Live(c) /\ ~Copying(Pc(c), Loc(c))
        BY <1>1 DEF Running, Copying
      <3>2. SameBut(c, v, l, r, k, g, BadFd)
        BY <2>2 DEF SameBut
      <3> QED
        BY <1>11, <2>0, <2>3, <3>1, <3>2, RefsDiffer
    <2>5. CASE old <=> new
      <3>1. \A x : x \in Refs(k)' <=> x \in Refs(k)
        BY <2>1, <2>4, <2>5 DEF SamePlaces
      <3>2. Refs(k)' = Refs(k)
        BY <3>1
      <3> QED
        BY <3>2
    <2>6. CASE ~(old <=> new)
      <3>1. <<c, g>> # <<c, BadFd>>
        BY <2>0
      <3> QED
        BY <2>1, <2>4, <2>6, <3>1, RefsFinite, OneForOne DEF SamePlaces
    <2> QED
      BY <2>5, <2>6
  <1>18. CallsInv' /\ ChildInv' /\ NewIdle'
    BY <1>1, <1>5, <1>9, <1>10, <1>11, CallsStep, ChildStep DEF Running, kernelVars
  <1>19. AloneInv' /\ LeakInv'
    <2>1. AloneInv'
      BY <1>1, <1>5, <1>11, <1>14, AloneStep DEF Running
    <2>2. LeakInv'
      BY <1>1, <1>5, <1>11, <1>14, LeakStep DEF Running, kernelVars
    <2> QED
      BY <2>1, <2>2
  <1>20. CountInv'
    BY <1>1, <1>5, <1>17, CountStep DEF Running
  <1> QED
    BY <1>12, <1>18, <1>19, <1>20 DEF Running, Inv
-----------------------------------------------------------------------------
(***************************************************************************)
(* Steps that open, count and close.                                       *)
(***************************************************************************)
\* The lowest free kernel descriptor is free.
LEMMA LowestFree ==
    ASSUME FreeUnder # {}
    PROVE  Lowest(FreeUnder) \in Under /\ kfile[Lowest(FreeUnder)] = 0
  <1>1. FreeUnder \subseteq Nat
    BY Numbers DEF FreeUnder
  <1>2. Lowest(FreeUnder) \in FreeUnder
    BY <1>1, LowestIn
  <1> QED
    BY <1>2 DEF FreeUnder

\* A new kernel descriptor is its call's alone.
LEMMA FreshStep ==
    ASSUME OneCall, TypeOK, CountNeverMissing, Running, aborted = "no", NEW c \in Cages, Live(c),
           Calm(Pc(c), Loc(c)), NEW k \in Under, kfile[k] = 0, NEW file \in 1..MaxOpens,
           kfile' = [kfile EXCEPT ![k] = file], opened' \in 1..MaxOpens,
           NEW r \in Calls, r.op \in {"open", "dup"}, r.e.under = k, r.e.file = file,
           Locals(c, Me, r), Goto(c, Me, "alloc"),
           UNCHANGED <<nextId, table, count, aborted, lost>>
    PROVE  Inv'
  <1> DEFINE w == RowOf(c)
  <1>1. w \in Row /\ "alloc" \in PcSet /\ Moved(c, TRUE, w, "alloc", r)
    BY TypeFacts DEF PcSet, Moved
  <1>2. Becomes(c, TRUE, w, "alloc", r)
    BY <1>1, MovedFacts
  <1>3. /\ count[k] = 0 /\ k \in Keys
        /\ \A d \in Cages : ~Touched(d, k) /\ ~Alone(d, k)
    BY FreeIsUntouched
  <1>4. /\ kfile \in [Under -> 0..MaxOpens] /\ kfile'[k] = file
        /\ \A j \in Under : j # k => kfile'[j] = kfile[j]
    BY DEF TypeOK
  <1>5. TypeOK' /\ CountNeverMissing'
    <2>1. file \in 0..MaxOpens
      BY FdAssumption
    <2>2. /\ count' \in [Keys -> Nat] /\ kfile' \in [Under -> 0..MaxOpens]
          /\ lost' \subseteq Under /\ aborted' \in {"no", "table_full", "limit", "cloexec"}
      BY <1>4, <2>1 DEF TypeOK, Keys
    <2> QED
      BY <1>1, <2>2, TypeStep
  <1>6. Fits(kfile', TRUE, w, "alloc", r)
    <2>1. \A f \in DOMAIN w : Good(kfile, w[f])
      BY DEF Running, CallsInv, CallOK, Fits
    <2>2. \A f \in DOMAIN w : Good(kfile', w[f])
      BY <1>4, <2>1 DEF Good
    <2>3. Good(kfile', r.e)
      BY <1>4 DEF Good
    <2>4. EntryFits(kfile', w, "alloc", r)
      BY <2>3 DEF EntryFits, Pending, Borrows
    <2> QED
      BY <2>2, <2>4 DEF Fits, OpFits, RestFits, CopyFits, Removing, Forking, Allocating
  <1>7. ~Forking("alloc", r) /\ ~Copying("alloc", r)
    BY DEF Forking, Copying
  <1>8. CallsInv' /\ ChildInv' /\ NewIdle'
    BY <1>2, <1>3, <1>4, <1>6, <1>7, CallsStep, ChildStep, ZenonT(60) DEF Running
  <1>9. \A j : AloneWith("alloc", r, j) <=> j = k
    BY DEF AloneWith
  <1>10. AloneInv'
    <2>1. \A j \in Keys : AloneWith("alloc", r, j) =>
               count'[j] = 0 /\ \A d \in Cages : d # c => ~Alone(d, j)
      BY <1>3, <1>9
    <2>2. AloneInv /\ \A j \in Keys : count'[j] = count[j]
      BY DEF Running
    <2> QED
      BY <1>2, <2>1, <2>2, AloneStep
  <1>11. \A j : ~Alone(c, j)
    BY CalmHolds DEF Alone
  <1>12. LeakInv'
    <2>1. ASSUME NEW j \in Under \ (Standard \cup lost'), kfile'[j] # 0
          PROVE  \/ AloneWith("alloc", r, j)
                 \/ kfile[j] # 0 /\ j \notin lost /\ count'[j] = count[j] /\ ~Alone(c, j)
      BY <1>4, <1>9, <1>11, <2>1
    <2> QED
      BY <1>2, <2>1, LeakStep DEF Running
  <1>13. ASSUME NEW j \in Keys PROVE Refs(j)' = Refs(j)
    <2>1. \A f \in Slots : Holds(w, "alloc", r, f, j) <=> Held(c, f, j)
      <3>1. \A f : Held(c, f, j) <=> f \in DOMAIN w /\ w[f].under = j
        BY CalmHolds DEF Held
      <3>2. \A f : Holds(w, "alloc", r, f, j) <=> f \in DOMAIN w /\ w[f].under = j
        BY DEF Holds, Pending, Removing
      <3> QED
        BY <3>1, <3>2
    <2>2. \A f : ~Copies("alloc", r, f, j) /\ ~Copies(Pc(c), Loc(c), f, j)
      BY <1>7, CalmHolds DEF Copies
    <2>3. ChildInv
      BY DEF Running
    <2> QED
      BY <1>2, <1>7, <2>1, <2>2, <2>3, RefsSame
  <1>14. CountInv'
    BY <1>13, CountStep DEF Running
  <1> QED
    BY <1>5, <1>8, <1>10, <1>12, <1>14 DEF Running, Inv

\* open and dup take a kernel descriptor that was free.
LEMMA OpenStep ==
    ASSUME OneCall, Inv, NEW c \in Cages, NEW b \in Flags, Open(c, Me, b) PROVE Inv'
  <1> DEFINE k == Lowest(FreeUnder)
             e == [under |-> k, file |-> opened + 1, cloexec |-> b]
             r == [NoCall EXCEPT !.op = "open", !.e = e]
  <1>1. Starts(c, Me, "open") /\ opened < MaxOpens /\ FreeUnder # {}
    BY DEF Open
  <1>2. k \in Under /\ kfile[k] = 0 /\ opened + 1 \in 1..MaxOpens
    BY <1>1, LowestFree, StartFacts, FdAssumption DEF TypeOK
  <1>3. e \in Entry
    BY <1>2, FdAssumption DEF Entry
  <1>4. r \in Calls /\ r.op = "open" /\ r.e.under = k /\ r.e.file = opened + 1
    BY <1>3, NoCallFacts DEF NoCall, Calls, Ops
  <1>5. /\ kfile' = [kfile EXCEPT ![k] = opened + 1] /\ opened' = opened + 1
        /\ Locals(c, Me, r) /\ Goto(c, Me, "alloc")
        /\ UNCHANGED <<nextId, table, count, aborted, lost>>
    BY DEF Open
  <1> HIDE DEF k, r
  <1> QED
    BY <1>1, <1>2, <1>4, <1>5, StartFacts, FreshStep

LEMMA KDupStep ==
    ASSUME OneCall, Inv, NEW c \in Cages, KDup(c, Me) PROVE Inv'
  <1> DEFINE q == Loc(c)
             k == Lowest(FreeUnder)
             r == [q EXCEPT !.e.under = k]
  <1>1. At(c, Me, "kdup") /\ FreeUnder # {}
    BY DEF KDup
  <1>2. /\ q.op = "dup" /\ Live(c) /\ q \in Calls /\ Calling(c, Me) = q /\ Pc(c) = "kdup"
        /\ TypeOK /\ CountNeverMissing /\ Running /\ aborted = "no"
    BY <1>1, BusyFacts DEF OpFits
  <1>3. Good(kfile, q.e) /\ q.e \in Entry
    BY <1>1, BusyFacts DEF Fits, EntryFits, Uses, Calls
  <1>4. k \in Under /\ kfile[k] = 0
    BY <1>1, LowestFree
  <1>5. r \in Calls /\ r.op = "dup" /\ r.e.under = k /\ r.e.file = q.e.file
    BY <1>2, <1>3, <1>4 DEF Calls, Entry
  <1>6. q.e.under # BadFd /\ kfile[q.e.under] # 0 /\ kfile[q.e.under] = q.e.file
    BY <1>3, Numbers DEF Good
  <1>7. q.e.file \in 1..MaxOpens
    BY <1>3, FdAssumption DEF Good, Entry
  <1>8. kfile' = [kfile EXCEPT ![k] = q.e.file]
    BY <1>2, <1>6 DEF KDup
  <1>9. Locals(c, Me, r)
    <2>1. call' = [call EXCEPT ![<<c, Me>>].e.under = k]
      BY <1>2, <1>6 DEF KDup
    <2> QED
      BY <2>1 DEF Locals, Loc
  <1>10. /\ Goto(c, Me, "alloc") /\ UNCHANGED <<nextId, table, count, aborted, lost>>
         /\ opened' = opened
    BY DEF KDup
  <1>11. Calm(Pc(c), Loc(c)) /\ opened' \in 1..MaxOpens
    BY <1>2, <1>10 DEF Calm, TypeOK
  <1> HIDE DEF k, r
  <1> QED
    BY <1>2, <1>4, <1>5, <1>7, <1>8, <1>9, <1>10, <1>11, FreshStep

\* A place of the cage's own is counted.
SameElse(c, w, l, r, k) ==
    \A j \in Keys : j # k => \A f \in Slots : Holds(w, l, r, f, j) <=> Held(c, f, j)
OnlyAlone(c, l, r, k) ==
    /\ \A j \in Keys : ~AloneWith(l, r, j) /\ (Alone(c, j) => j = k)
    /\ \A d \in Cages : d # c => ~Alone(d, k)
\* One place more for k, and the count one higher.
LEMMA AddStep ==
    ASSUME OneCall, TypeOK, CountNeverMissing, Running, aborted = "no", NEW c \in Cages, Live(c),
           NEW l \in PcSet, l # "dead", NEW r \in Calls, Moved(c, TRUE, RowOf(c), l, r),
           Fits(kfile, TRUE, RowOf(c), l, r), ~Forking(l, r), ~IsForking(c),
           NEW k \in Keys, NEW g \in Slots, ~Held(c, g, k), Holds(RowOf(c), l, r, g, k),
           SameBut(c, RowOf(c), l, r, k, g, g), SameElse(c, RowOf(c), l, r, k),
           OnlyAlone(c, l, r, k),
           count' = [count EXCEPT ![k] = count[k] + 1],
           UNCHANGED <<nextId, kfile, opened, aborted, lost>>
    PROVE  Inv'
  <1> DEFINE w == RowOf(c)
  <1>1. w \in Row /\ Becomes(c, TRUE, w, l, r)
    BY TypeFacts, MovedFacts
  <1>2. /\ count \in [Keys -> Nat] /\ count' \in [Keys -> Nat] /\ count'[k] = count[k] + 1
        /\ \A j \in Keys : j # k => count'[j] = count[j]
    BY DEF TypeOK, Keys
  <1>3. TypeOK' /\ CountNeverMissing'
    <2>1. /\ kfile' \in [Under -> 0..MaxOpens] /\ opened' \in 1..MaxOpens
          /\ lost' \subseteq Under /\ aborted' \in {"no", "table_full", "limit", "cloexec"}
      BY DEF TypeOK
    <2> QED
      BY <1>1, <1>2, <2>1, TypeStep
  <1>4. CallsInv' /\ ChildInv' /\ NewIdle'
    BY <1>1, CallsStep, ChildStep DEF Running
  <1>5. AloneInv'
    <2>1. AloneInv /\ \A j \in Keys : count'[j] = count[j] \/ \A d \in Cages : d # c => ~Alone(d, j)
      BY <1>2 DEF Running, OnlyAlone
    <2>2. \A j \in Keys : ~AloneWith(l, r, j)
      BY DEF OnlyAlone
    <2> QED
      BY <1>1, <2>1, <2>2, AloneStep
  <1>6. LeakInv'
    <2>1. ASSUME NEW j \in Under \ (Standard \cup lost'), kfile'[j] # 0
          PROVE  \/ count'[j] > 0
                 \/ kfile[j] # 0 /\ j \notin lost /\ count'[j] = count[j] /\ ~Alone(c, j)
      <3>1. j \in Keys
        BY DEF Keys
      <3> QED
        BY <1>2, <2>1, <3>1 DEF OnlyAlone
    <2> QED
      BY <1>1, <2>1, LeakStep DEF Running
  <1>7. ~Copying(l, r) /\ ~Copying(Pc(c), Loc(c)) /\ ChildInv
    BY DEF Copying, Forking, IsForking, Running
  <1>8. Cardinality(Refs(k)') = Cardinality(Refs(k)) + 1
    <2>1. <<c, g>> \notin Refs(k) /\ <<c, g>> \in Refs(k)' /\ SamePlaces(k, <<c, g>>, <<c, g>>)
      BY <1>1, <1>7, RefsDiffer
    <2> QED
      BY <2>1, RefsFinite, OneMore DEF SamePlaces
  <1>9. ASSUME NEW j \in Keys, j # k PROVE Refs(j)' = Refs(j)
    <2>1. \A f : ~Copies(l, r, f, j) /\ ~Copies(Pc(c), Loc(c), f, j)
      BY <1>7 DEF Copies
    <2>2. \A f \in Slots : Holds(w, l, r, f, j) <=> Held(c, f, j)
      BY <1>9 DEF SameElse
    <2> QED
      BY <1>1, <1>7, <2>1, <2>2, RefsSame
  <1>10. CountInv'
    <2>1. ASSUME NEW j \in Keys PROVE count'[j] = Cardinality(Refs(j)')
      <3>1. CASE j = k
        BY <1>2, <1>8, <3>1 DEF Running, CountInv
      <3>2. CASE j # k
        BY <1>2, <1>9, <3>2 DEF Running, CountInv
      <3> QED
        BY <3>1, <3>2
    <2> QED
      BY <2>1 DEF CountInv, Keys, Under
  <1> QED
    BY <1>3, <1>4, <1>5, <1>6, <1>10 DEF Running, Inv

\* The new entry of the row is counted, and the call returns.
LEMMA CountedStep ==
    ASSUME OneCall, TypeOK, CountNeverMissing, Running, aborted = "no", NEW c \in Cages, Live(c),
           Pending(Pc(c), Loc(c)), NEW k \in Keys, k = Loc(c).e.under,
           \A d \in Cages : d # c => ~Alone(d, k), Finish(c, Me),
           count' = [count EXCEPT ![k] = count[k] + 1],
           UNCHANGED <<nextId, table, kfile, opened, aborted, lost>>
    PROVE  Inv'
  <1> DEFINE w == RowOf(c)
             q == Loc(c)
  <1>1. Fits(kfile, Live(c), w, Pc(c), q) /\ w \in Row
    BY TypeFacts DEF Running, CallsInv, CallOK
  <1>2. PICK g \in DOMAIN w : g = q.at /\ w[g] = q.e
    BY <1>1 DEF Fits, EntryFits
  <1>3. g \in Slots
    BY <1>1, <1>2, RowFacts DEF Slots
  <1>4. Moved(c, TRUE, w, "idle", NoCall)
    BY DEF Moved, Finish
  <1>5. /\ Fits(kfile, TRUE, w, "idle", NoCall) /\ Calm("idle", NoCall)
        /\ ~Forking("idle", NoCall) /\ "idle" \in PcSet
    BY <1>1, IdleFits DEF Fits
  <1>6. \A f, j : Holds(w, "idle", NoCall, f, j) <=> f \in DOMAIN w /\ w[f].under = j
    BY <1>5, CalmHolds
  <1>7. \A f, j : Held(c, f, j) <=> f \in DOMAIN w /\ w[f].under = j /\ f # g
    BY <1>2 DEF Held, Holds, Pending, Removing
  <1>8. ~IsForking(c)
    BY DEF IsForking, Forking, Pending, Allocating
  <1>9. OnlyAlone(c, "idle", NoCall, k)
    BY DEF OnlyAlone, AloneWith, Alone, Pending
  <1>10. SameBut(c, w, "idle", NoCall, k, g, g)
    BY <1>6, <1>7 DEF SameBut
  <1>11. SameElse(c, w, "idle", NoCall, k)
    BY <1>2, <1>6, <1>7 DEF SameElse
  <1>12. ~Held(c, g, k) /\ Holds(w, "idle", NoCall, g, k)
    BY <1>2, <1>6, <1>7
  <1> QED
    BY <1>3, <1>4, <1>5, <1>8, <1>9, <1>10, <1>11, <1>12, NoCallFacts, AddStep

\* The key was not there: its place is the first.
LEMMA InsertStep ==
    ASSUME OneCall, Inv, NEW c \in Cages, Insert(c, Me) PROVE Inv'
  <1> DEFINE q == Loc(c)
             k == q.e.under
  <1>0. At(c, Me, "insert")
    BY DEF Insert
  <1>1. /\ q.op \in {"open", "dup"} /\ Live(c) /\ Calling(c, Me) = q /\ Pc(c) = "insert"
        /\ TypeOK /\ CountNeverMissing /\ Running /\ aborted = "no" /\ q \in Calls
    BY <1>0, BusyFacts DEF OpFits
  <1>2. Pending(Pc(c), q) /\ k \in Keys
    BY <1>1 DEF Pending, Allocating, Keys, Calls, Entry
  <1>3. Alone(c, k)
    BY <1>1 DEF Alone, AloneWith
  <1>4. count[k] = 0 /\ \A d \in Cages : d # c => ~Alone(d, k)
    BY <1>1, <1>2, <1>3 DEF Running, AloneInv
  <1>5. Counted(c, Me) = k
    BY <1>1 DEF Counted
  <1>6. count' = [count EXCEPT ![k] = count[k] + 1]
    BY <1>4, <1>5 DEF Insert
  <1>7. Finish(c, Me)
    BY <1>1 DEF Insert, AfterInc
  <1>8. UNCHANGED <<nextId, table, kfile, opened, aborted, lost>>
    BY DEF Insert, kernelVars
  <1> HIDE DEF k
  <1> QED
    BY <1>1, <1>2, <1>4, <1>6, <1>7, <1>8, CountedStep DEF k

\* What an entry borrowed from the row shares with it is counted.
LEMMA HeldIsCounted ==
    ASSUME TypeOK, Running, NEW c \in Cages, NEW f \in Slots, NEW k \in Keys, Held(c, f, k)
    PROVE  count[k] > 0 /\ \A d \in Cages : ~Alone(d, k)
  <1>1. Ref(c, f, k)
    BY DEF Ref
  <1>2. count[k] > 0
    BY <1>1, CountIsZero DEF Running
  <1> QED
    BY <1>2 DEF Running, AloneInv

\* An entry a call has copied is of a kernel descriptor another entry keeps counted.
LEMMA BorrowedIsCounted ==
    ASSUME OneCall, TypeOK, Running, NEW c \in Cages, Borrows(Pc(c), Loc(c))
    PROVE  /\ Loc(c).e.under \in Keys /\ count[Loc(c).e.under] > 0
           /\ \A d \in Cages : ~Alone(d, Loc(c).e.under)
  <1>1. RowOf(c) \in Row /\ Loc(c) \in Calls /\ Fits(kfile, Live(c), RowOf(c), Pc(c), Loc(c))
    BY TypeFacts DEF Running, CallsInv, CallOK
  <1>2. PICK f \in DOMAIN RowOf(c) : /\ RowOf(c)[f].under = Loc(c).e.under
                                     /\ Pending(Pc(c), Loc(c)) => Loc(c).at # f
    BY <1>1 DEF Fits, EntryFits
  <1>3. Held(c, f, Loc(c).e.under) /\ f \in Slots
    BY <1>1, <1>2, RowFacts DEF Held, Holds, Slots
  <1>4. Loc(c).e.under \in Keys
    BY <1>1 DEF Calls, Entry, Keys
  <1> QED
    BY <1>3, <1>4, HeldIsCounted

\* The next entry of a fork is in the row, and counted.
LEMMA NextIsCounted ==
    ASSUME OneCall, TypeOK, Running, NEW c \in Cages, Pc(c) = "inc", Loc(c).op = "fork"
    PROVE  LET f == First(Loc(c))
               k == Loc(c).rest[f].under
           IN  /\ f \in DOMAIN Loc(c).rest /\ f \in DOMAIN RowOf(c) /\ f \in Fds
               /\ Loc(c).rest[f] = RowOf(c)[f] /\ Loc(c).copy = RowOf(c)
               /\ k \in Keys /\ count[k] > 0 /\ \A d \in Cages : ~Alone(d, k)
  <1> DEFINE f == First(Loc(c))
             k == Loc(c).rest[f].under
  <1>1. RowOf(c) \in Row /\ Loc(c) \in Calls /\ Fits(kfile, Live(c), RowOf(c), Pc(c), Loc(c))
    BY TypeFacts DEF Running, CallsInv, CallOK
  <1>2. /\ DOMAIN Loc(c).rest # {} /\ DOMAIN Loc(c).rest \subseteq DOMAIN RowOf(c)
        /\ \A g \in DOMAIN Loc(c).rest : Loc(c).rest[g] = RowOf(c)[g]
        /\ Loc(c).copy = RowOf(c)
    BY <1>1 DEF Fits, CopyFits, Forking
  <1>3. /\ f \in DOMAIN Loc(c).rest /\ f \in DOMAIN RowOf(c) /\ f \in Fds
        /\ Loc(c).rest[f] = RowOf(c)[f]
    BY <1>1, <1>2, FirstIn
  <1>4. k \in Keys /\ f \in Slots
    BY <1>1, <1>3, RowFacts DEF Entry, Keys, Slots
  <1> HIDE DEF f
  <1>5. Held(c, f, k)
    BY <1>3 DEF Held, Holds, Pending, Allocating
  <1>6. count[k] > 0 /\ \A d \in Cages : ~Alone(d, k)
    BY <1>4, <1>5, HeldIsCounted
  <1> QED
    BY <1>2, <1>3, <1>4, <1>6 DEF f

\* The key of a new kernel descriptor is not in FDCOUNT: it will be inserted.
LEMMA IncMissingStep ==
    ASSUME OneCall, Inv, NEW c \in Cages, Inc(c, Me), ~(count[Counted(c, Me)] > 0) PROVE Inv'
  <1> DEFINE q == Loc(c)
             w == RowOf(c)
  <1>0. At(c, Me, "inc")
    BY DEF Inc
  <1>1. /\ Calling(c, Me) = q /\ Pc(c) = "inc" /\ q \in Calls /\ w \in Row
        /\ TypeOK /\ CountNeverMissing /\ Running /\ aborted = "no"
        /\ q.op \in Allocating \cup Swaps \cup {"fork"}
        /\ Fits(kfile, Live(c), w, "inc", q)
    BY <1>0, BusyFacts DEF OpFits
  <1>2. q.op \in {"open", "dup"}
    <2>1. q.op # "fork"
      <3>1. ASSUME q.op = "fork" PROVE FALSE
        <4>1. count[q.rest[First(q)].under] > 0
          BY <1>1, <3>1, NextIsCounted
        <4>2. Counted(c, Me) = q.rest[First(q)].under
          BY <1>1, <3>1 DEF Counted, First
        <4> QED
          BY <4>1, <4>2
      <3> QED
        BY <3>1
    <2>2. ~Borrows(Pc(c), q)
      BY <1>1, <2>1, BorrowedIsCounted DEF Counted
    <2> QED
      BY <1>1, <2>1, <2>2 DEF Borrows, Allocating
  <1>3. Live(c) /\ Moved(c, TRUE, w, "insert", q)
    BY <1>0, <1>2, BusyFacts DEF Inc, Moved
  <1>4. UNCHANGED <<nextId, count, kfile, opened, aborted, lost>>
    BY DEF Inc, kernelVars
  <1>5. \A k \in Keys : AloneWith("insert", q, k) <=> Alone(c, k)
    BY <1>1 DEF AloneWith, Alone
  <1>6. \A f \in Slots, k \in Keys : Holds(w, "insert", q, f, k) <=> Held(c, f, k)
    BY <1>1 DEF Holds, Held, Pending, Removing
  <1>7. \A f, k : ~Copies("insert", q, f, k) /\ ~Copies(Pc(c), Loc(c), f, k)
    BY <1>2 DEF Copies, Copying
  <1>8. Fits(kfile, TRUE, w, "insert", q)
    <2>1. OpFits("insert", q.op) /\ \A f \in DOMAIN w : Good(kfile, w[f])
      BY <1>1, <1>2 DEF OpFits, Fits
    <2>2. EntryFits(kfile, w, "inc", q)
      BY <1>1 DEF Fits
    <2>3. EntryFits(kfile, w, "insert", q)
      BY <1>2, <2>2 DEF EntryFits, Pending, Uses, Borrows
    <2>4. RestFits(kfile, TRUE, w, "insert", q) /\ CopyFits(w, "insert", q)
      BY <1>2 DEF RestFits, CopyFits, Removing, Forking
    <2> QED
      BY <2>1, <2>3, <2>4 DEF Fits
  <1>9. ~Forking("insert", q) /\ "insert" \in PcSet
    BY <1>2 DEF Forking, PcSet
  <1> QED
    BY <1>1, <1>3, <1>4, <1>5, <1>6, <1>7, <1>8, <1>9, PlainMove

\* A shared kernel descriptor is counted once more.
LEMMA IncOwnStep ==
    ASSUME OneCall, Inv, NEW c \in Cages, Inc(c, Me), count[Counted(c, Me)] > 0,
           Loc(c).op # "fork"
    PROVE  Inv'
  <1> DEFINE q == Loc(c)
             w == RowOf(c)
  <1>0. At(c, Me, "inc")
    BY DEF Inc
  <1>1. /\ Calling(c, Me) = q /\ Pc(c) = "inc" /\ q \in Calls /\ w \in Row
        /\ TypeOK /\ CountNeverMissing /\ Running /\ aborted = "no"
        /\ q.op \in Allocating \cup Swaps /\ Live(c)
        /\ Fits(kfile, Live(c), w, "inc", q)
    BY <1>0, BusyFacts DEF OpFits, Allocating, Swaps
  <1>2. PICK k \in Keys : k = q.e.under
    BY <1>1 DEF Calls, Entry, Keys
  <1>3. Counted(c, Me) = k
    BY <1>1, <1>2 DEF Counted
  <1>4. q.op \notin {"open", "dup"}
    <2>1. ASSUME q.op \in {"open", "dup"} PROVE FALSE
      <3>1. Alone(c, k)
        BY <1>1, <1>2, <2>1 DEF Alone, AloneWith
      <3> QED
        BY <1>1, <1>3, <3>1 DEF Running, AloneInv
    <2> QED
      BY <2>1
  <1>5. \A d \in Cages : ~Alone(d, k)
    <2>1. Borrows(Pc(c), q)
      BY <1>1, <1>4 DEF Borrows, Allocating
    <2> QED
      BY <1>1, <1>2, <2>1, BorrowedIsCounted
  <1>6. /\ count' = [count EXCEPT ![k] = count[k] + 1] /\ AfterInc(c, Me)
        /\ UNCHANGED <<nextId, table, kfile, opened, aborted, lost>>
    BY <1>1, <1>3 DEF Inc, kernelVars
  <1>7. CASE q.op = "dupfd"
    <2>1. Finish(c, Me)
      BY <1>1, <1>6, <1>7 DEF AfterInc
    <2>2. Pending(Pc(c), q)
      BY <1>1, <1>7 DEF Pending, Allocating
    <2> QED
      BY <1>1, <1>2, <1>5, <1>6, <2>1, <2>2, CountedStep
  <1>8. CASE q.op \in Swaps
    <2>1. Goto(c, Me, "swap_read") /\ UNCHANGED call
      BY <1>1, <1>6, <1>8 DEF AfterInc, Swaps
    <2>2. Moved(c, TRUE, w, "swap_read", q)
      BY <1>1, <1>6, <2>1 DEF Moved
    <2>3. Fits(kfile, TRUE, w, "swap_read", q)
      <3>1. EntryFits(kfile, w, "inc", q) /\ \A f \in DOMAIN w : Good(kfile, w[f])
        BY <1>1 DEF Fits
      <3>2. EntryFits(kfile, w, "swap_read", q)
        BY <1>8, <3>1 DEF EntryFits, Pending, Uses, Borrows, Swaps
      <3> QED
        BY <1>8, <3>1, <3>2
        DEF Fits, OpFits, RestFits, CopyFits, Removing, Forking, Swaps
    <2>4. ~Forking("swap_read", q) /\ "swap_read" \in PcSet /\ ~IsForking(c)
      BY <1>1 DEF Forking, IsForking, PcSet
    <2>5. \A f, j : Held(c, f, j) <=> f \in DOMAIN w /\ w[f].under = j
      BY <1>1, <1>8 DEF Held, Holds, Pending, Removing, Allocating, Swaps
    <2>6. ASSUME NEW f, NEW j
          PROVE  Holds(w, "swap_read", q, f, j) <=> \/ f \in DOMAIN w /\ w[f].under = j
                                                    \/ f = BadFd /\ j = k
      BY <1>2 DEF Holds, Pending, Removing
    <2>7. BadFd \in Slots /\ BadFd \notin DOMAIN w
      BY <1>1, RowFacts, Numbers DEF Slots
    <2>8. ~Held(c, BadFd, k) /\ Holds(w, "swap_read", q, BadFd, k)
      BY <2>5, <2>6, <2>7
    <2>9. SameBut(c, w, "swap_read", q, k, BadFd, BadFd) /\ SameElse(c, w, "swap_read", q, k)
      BY <2>5, <2>6 DEF SameBut, SameElse
    <2>10. OnlyAlone(c, "swap_read", q, k)
      BY <1>1, <1>5, <1>8 DEF OnlyAlone, AloneWith, Alone, Swaps
    <2> QED
      BY <1>1, <1>6, <2>2, <2>3, <2>4, <2>7, <2>8, <2>9, <2>10, AddStep
  <1> QED
    BY <1>1, <1>4, <1>7, <1>8 DEF Allocating

\* One entry of a fork is counted: a place of the child, which nobody else counts.
LEMMA ChildPlaceIsNew ==
    ASSUME OneCall, TypeOK, Running, NEW c \in Cages, IsForking(c), NEW y \in Cages,
           y = Loc(c).at, NEW f \in Slots, NEW k
    PROVE  ~OtherRef(c, y, f, k)
  <1>1. ~Live(y) /\ Pc(y) = "idle"
    BY DEF Running, ChildInv, ChildOK
  <1>2. ~Held(y, f, k)
    BY <1>1, NoRowFacts DEF Held, Holds, RowOf, Removing
  <1>3. ASSUME NEW e \in Cages, e # c, CopiedFor(e, y, f, k) PROVE FALSE
    <2>1. IsForking(e) /\ Loc(e).at = Loc(c).at
      BY <1>3 DEF CopiedFor, Copies, Copying, IsForking, Forking
    <2> QED
      BY <1>3, <2>1 DEF Running, ChildInv, ChildOK
  <1> QED
    BY <1>2, <1>3 DEF OtherRef

\* fork counts the child's place of the entry.
LEMMA IncForkStep ==
    ASSUME OneCall, Inv, NEW c \in Cages, Inc(c, Me), count[Counted(c, Me)] > 0,
           Loc(c).op = "fork"
    PROVE  Inv'
  <1> DEFINE q == Loc(c)
             w == RowOf(c)
             x == Without(q.rest, First(q))
             r == [q EXCEPT !.rest = x]
             l == IF x = NoRow THEN "copy_end" ELSE "inc"
  <1>0. At(c, Me, "inc")
    BY DEF Inc
  <1>1. /\ Calling(c, Me) = q /\ Pc(c) = "inc" /\ q \in Calls /\ w \in Row /\ Live(c)
        /\ TypeOK /\ CountNeverMissing /\ Running /\ aborted = "no"
        /\ Fits(kfile, Live(c), w, "inc", q) /\ q.rest \in Row
    BY <1>0, BusyFacts DEF Calls
  <1>2. PICK g \in Fds : /\ g = First(q) /\ g \in DOMAIN q.rest /\ g \in DOMAIN w
                         /\ q.rest[g] = w[g] /\ q.copy = w
    BY <1>1, NextIsCounted
  <1>3. PICK k \in Keys : k = w[g].under /\ \A d \in Cages : ~Alone(d, k)
    BY <1>1, <1>2, NextIsCounted
  <1>4. Counted(c, Me) = k
    BY <1>1, <1>2, <1>3 DEF Counted, First
  <1>5. /\ x \in Row /\ DOMAIN x = DOMAIN q.rest \ {g}
        /\ \A f \in DOMAIN q.rest \ {g} : x[f] = q.rest[f]
    BY <1>1, <1>2, WithoutRow
  <1>6. r \in Calls /\ r.op = "fork" /\ r.at = q.at /\ r.copy = q.copy /\ r.rest = x
    BY <1>1, <1>5 DEF Calls
  <1>7. l \in {"inc", "copy_end"} /\ (l = "inc" <=> DOMAIN x # {})
    BY <1>5, NoRowFacts
  <1>8. /\ count' = [count EXCEPT ![k] = count[k] + 1]
        /\ UNCHANGED <<nextId, table, kfile, opened, aborted, lost>>
    BY <1>1, <1>4 DEF Inc, kernelVars
  <1>9. Locals(c, Me, r) /\ Goto(c, Me, l)
    <2>1. AfterInc(c, Me)
      BY <1>4 DEF Inc
    <2> QED
      BY <1>1, <2>1 DEF AfterInc, First
  <1> HIDE DEF r, l, x
  <1>10. Moved(c, TRUE, w, l, r) /\ l \in PcSet /\ l # "dead"
    BY <1>1, <1>7, <1>8, <1>9 DEF Moved, PcSet
  <1>11. Becomes(c, TRUE, w, l, r)
    BY <1>1, <1>6, <1>10, MovedFacts
  <1>12. /\ count \in [Keys -> Nat] /\ count' \in [Keys -> Nat] /\ count'[k] = count[k] + 1
         /\ \A j \in Keys : j # k => count'[j] = count[j]
    BY <1>1, <1>8 DEF TypeOK, Keys
  <1>13. TypeOK' /\ CountNeverMissing'
    <2>1. /\ kfile' \in [Under -> 0..MaxOpens] /\ opened' \in 1..MaxOpens /\ nextId' = nextId
          /\ lost' \subseteq Under /\ aborted' \in {"no", "table_full", "limit", "cloexec"}
      BY <1>1, <1>8 DEF TypeOK
    <2> QED
      BY <1>1, <1>6, <1>10, <1>12, <2>1, TypeStep
  <1>14. Fits(kfile, TRUE, w, l, r)
    <2>1. CopyFits(w, "inc", q) /\ \A f \in DOMAIN w : Good(kfile, w[f])
      BY <1>1 DEF Fits
    <2>2. /\ DOMAIN q.rest \subseteq DOMAIN w /\ \A f \in DOMAIN q.rest : q.rest[f] = w[f]
      BY <2>1 DEF CopyFits, Forking
    <2>3. CopyFits(w, l, r)
      BY <1>2, <1>5, <1>6, <1>7, <2>2 DEF CopyFits
    <2>4. EntryFits(kfile, w, l, r) /\ RestFits(kfile, TRUE, w, l, r) /\ OpFits(l, r.op)
      BY <1>6, <1>7
      DEF EntryFits, RestFits, OpFits, Pending, Uses, Borrows, Removing, Allocating, Swaps
    <2> QED
      BY <2>1, <2>3, <2>4 DEF Fits
  <1>15. IsForking(c) /\ Forking(l, r) /\ Copying(Pc(c), q) /\ Copying(l, r)
    BY <1>1, <1>6, <1>7 DEF IsForking, Forking, Copying
  <1>16. CallsInv' /\ ChildInv' /\ NewIdle'
    BY <1>1, <1>6, <1>8, <1>11, <1>14, <1>15, CallsStep, ChildStep DEF Running
  <1>17. \A j : ~AloneWith(l, r, j) /\ ~Alone(c, j)
    BY <1>1, <1>6, <1>7 DEF AloneWith, Alone
  <1>18. AloneInv'
    <2>1. AloneInv /\ \A j \in Keys : count'[j] = count[j] \/ \A d \in Cages : d # c => ~Alone(d, j)
      BY <1>1, <1>3, <1>12 DEF Running
    <2> QED
      BY <1>11, <1>17, <2>1, AloneStep
  <1>19. LeakInv'
    <2>1. ASSUME NEW j \in Under \ (Standard \cup lost'), kfile'[j] # 0
          PROVE  \/ count'[j] > 0
                 \/ kfile[j] # 0 /\ j \notin lost /\ count'[j] = count[j] /\ ~Alone(c, j)
      <3>1. j \in Keys
        BY DEF Keys
      <3> QED
        BY <1>8, <1>12, <1>17, <2>1, <3>1
    <2> QED
      BY <1>1, <1>11, <2>1, LeakStep DEF Running
  <1>20. PICK y \in Cages : y = q.at /\ y # c
    <2>1. q.at \in 1..nextId /\ q.at # c
      BY <1>1, <1>15, NotChild DEF Running, ChildInv, ChildOK
    <2> QED
      BY <1>1, <2>1, FdAssumption DEF TypeOK, Cages
  <1>21. \A f, j : Copies(l, r, f, j) <=> Copies(Pc(c), q, f, j) \/ (f = g /\ j = k)
    BY <1>2, <1>3, <1>5, <1>6, <1>15 DEF Copies
  <1>22. \A f, j : Holds(w, l, r, f, j) <=> Held(c, f, j)
    BY <1>1, <1>6, <1>7 DEF Holds, Held, Pending, Removing, Allocating
  <1>23. ASSUME NEW d \in Cages, NEW f \in Slots, NEW j
         PROVE  Ref(d, f, j)' <=> Ref(d, f, j) \/ (d = y /\ f = g /\ j = k)
    <2>1. CASE d = c
      <3>1. Ref(c, f, j)' <=> Holds(w, l, r, f, j)
        BY <1>1, <1>6, <1>11, <1>20, RefsAfter DEF Running
      <3>2. Ref(c, f, j) <=> Held(c, f, j)
        BY <1>1, RefsBefore DEF Running
      <3> QED
        BY <1>20, <1>22, <2>1, <3>1, <3>2
    <2>2. CASE d # c
      <3>1. Ref(d, f, j)' <=> OtherRef(c, d, f, j) \/ (r.at = d /\ Copies(l, r, f, j))
        BY <1>1, <1>6, <1>11, <1>20, <2>2, RefsAfter DEF Running
      <3>2. Ref(d, f, j) <=> OtherRef(c, d, f, j) \/ (q.at = d /\ Copies(Pc(c), q, f, j))
        BY <1>1, <2>2, RefsBefore DEF Running
      <3> QED
        BY <1>6, <1>20, <1>21, <3>1, <3>2
    <2> QED
      BY <2>1, <2>2
  <1>24. ~Ref(y, g, k) /\ g \in Slots
    <2>1. g \in Slots
      BY DEF Slots
    <2>2. ~OtherRef(c, y, g, k)
      BY <1>1, <1>15, <1>20, <2>1, ChildPlaceIsNew
    <2>3. ~Copies(Pc(c), q, g, k)
      BY <1>2 DEF Copies
    <2> QED
      BY <1>1, <1>20, <2>1, <2>2, <2>3, RefsBefore DEF Running
  <1>25. ASSUME NEW j \in Keys PROVE count'[j] = Cardinality(Refs(j)')
    <2>1. Refs(j)' = {z \in Places : Ref(z[1], z[2], j)'}
      BY DEF Refs, Places, Cages, Slots, Fds
    <2>2. CASE j # k
      <3>1. \A z \in Places : Ref(z[1], z[2], j)' <=> Ref(z[1], z[2], j)
        BY <1>23, <2>2 DEF Places
      <3>2. Refs(j)' = Refs(j)
        BY <2>1, <3>1 DEF Refs
      <3> QED
        BY <1>1, <1>12, <2>2, <3>2 DEF Running, CountInv
    <2>3. CASE j = k
      <3>1. <<y, g>> \in Places
        BY <1>24 DEF Places
      <3>2. <<y, g>> \notin Refs(k)
        BY <1>24 DEF Refs
      <3>3. \A z \in Places : Ref(z[1], z[2], k)' <=> Ref(z[1], z[2], k) \/ z = <<y, g>>
        BY <1>23 DEF Places
      <3>4. Refs(k)' = Refs(k) \cup {<<y, g>>}
        BY <2>1, <2>3, <3>1, <3>3 DEF Refs
      <3>5. Cardinality(Refs(k)') = Cardinality(Refs(k)) + 1
        BY <3>2, <3>4, RefsFinite, FS_AddElement
      <3> QED
        BY <1>1, <1>12, <2>3, <3>5 DEF Running, CountInv
    <2> QED
      BY <2>2, <2>3
  <1>26. CountInv'
    BY <1>25 DEF CountInv, Keys, Under
  <1> QED
    BY <1>13, <1>16, <1>18, <1>19, <1>26 DEF Running, Inv

\* What the cage holds without the first of the entries to be counted down.
HoldsRest(c, f, j) ==
    \/ f \in DOMAIN RowOf(c) /\ RowOf(c)[f].under = j
    \/ /\ Loc(c).op \in Closers /\ f \in DOMAIN Loc(c).rest \ {First(Loc(c))}
       /\ Loc(c).rest[f].under = j

\* The entries to be counted down: the first of them, and what the cage holds.
LEMMA RemovingFacts ==
    ASSUME OneCall, Inv, NEW c \in Cages, NEW l \in {"dec", "last"}, At(c, Me, l)
    PROVE  LET q == Loc(c)
               g == First(q)
           IN  /\ q.op \in Closers \cup Swaps /\ q.rest \in Row
               /\ g \in DOMAIN q.rest /\ g \in Fds /\ Good(kfile, q.rest[g])
               /\ \A f \in DOMAIN q.rest : Good(kfile, q.rest[f])
               /\ q.op \in Closers => g \notin DOMAIN RowOf(c)
               /\ q.op \in Swaps => DOMAIN q.rest = {g} /\ g = q.at
               /\ l = "last" => \A f, j : Held(c, f, j) <=> HoldsRest(c, f, j)
  <1> DEFINE q == Loc(c)
             g == First(q)
             w == RowOf(c)
  <1>1. /\ q \in Calls /\ w \in Row /\ Pc(c) = l /\ OpFits(l, q.op)
        /\ RestFits(kfile, Live(c), w, l, q) /\ q.rest \in Row
    BY BusyFacts DEF Fits, Calls
  <1>2. /\ DOMAIN q.rest # {} /\ \A f \in DOMAIN q.rest : Good(kfile, q.rest[f])
        /\ q.op \in Closers => DOMAIN q.rest \cap DOMAIN w = {}
        /\ q.op \in Swaps => DOMAIN q.rest = {q.at}
    BY <1>1 DEF RestFits, Removing
  <1>3. g \in DOMAIN q.rest /\ g \in Fds
    BY <1>1, <1>2, FirstIn
  <1>4. l = "last" => \A f, j : Held(c, f, j) <=> HoldsRest(c, f, j)
    BY <1>1 DEF Held, Holds, HoldsRest, Pending, Removing, Due
  <1>5. q.op \in Closers \cup Swaps
    BY <1>1 DEF OpFits
  <1> HIDE DEF g
  <1> QED
    BY <1>1, <1>2, <1>3, <1>4, <1>5 DEF g

\* The call goes on to the next entry, or ends.
LEMMA AfterDecFacts ==
    ASSUME OneCall, Inv, NEW c \in Cages, NEW p \in {"dec", "last"}, At(c, Me, p),
           AfterDec(c, Me)
    PROVE  \E l \in PcSet, r \in Calls :
              /\ Goto(c, Me, l) /\ Locals(c, Me, r) /\ l # "dead" /\ ~Forking(l, r)
              /\ Fits(kfile, Live(c), RowOf(c), l, r)
              /\ \A j : ~AloneWith(l, r, j)
              /\ \A f, j : Holds(RowOf(c), l, r, f, j) <=> HoldsRest(c, f, j)
  <1> DEFINE q == Loc(c)
             w == RowOf(c)
             x == Without(q.rest, First(q))
  <1>1. /\ Calling(c, Me) = q /\ q \in Calls /\ w \in Row
        /\ \A f \in DOMAIN w : Good(kfile, w[f])
        /\ q.op # "exit" => Live(c)
        /\ Fits(kfile, Live(c), w, p, q)
    BY BusyFacts
  <1>2. PICK g \in Fds : /\ g = First(q) /\ g \in DOMAIN q.rest /\ q.rest \in Row
                         /\ q.op \in Closers \cup Swaps
                         /\ \A f \in DOMAIN q.rest : Good(kfile, q.rest[f])
                         /\ q.op \in Swaps => DOMAIN q.rest = {g}
    BY RemovingFacts
  <1>3. /\ x \in Row /\ DOMAIN x = DOMAIN q.rest \ {g}
        /\ \A f \in DOMAIN x : x[f] = q.rest[f]
    BY <1>2, WithoutRow, ZenonT(60)
  <1>4. CASE x # NoRow
    <2> DEFINE r == [q EXCEPT !.rest = x]
    <2>1. DOMAIN x # {} /\ q.op \in Closers
      BY <1>2, <1>3, <1>4, NoRowFacts
    <2>2. r \in Calls /\ r.op = q.op /\ r.rest = x
      BY <1>1, <1>3 DEF Calls
    <2>3. Locals(c, Me, r) /\ Goto(c, Me, "dec")
      BY <1>1, <1>4 DEF AfterDec, First
    <2> HIDE DEF r, x
    <2>4. RestFits(kfile, Live(c), w, "dec", r)
      <3>1. RestFits(kfile, Live(c), w, p, q)
        BY <1>1 DEF Fits
      <3>2. (q.op = "exit" => ~Live(c)) /\ DOMAIN q.rest \cap DOMAIN w = {}
        BY <2>1, <3>1 DEF RestFits, Removing
      <3> QED
        BY <1>2, <1>3, <2>1, <2>2, <3>2 DEF RestFits, Closers, Swaps
    <2>5. Fits(kfile, Live(c), w, "dec", r)
      BY <1>1, <2>1, <2>2, <2>4
      DEF Fits, OpFits, EntryFits, CopyFits, Pending, Uses, Borrows, Forking, Closers
    <2>6. "dec" \in PcSet /\ ~Forking("dec", r) /\ \A j : ~AloneWith("dec", r, j)
      BY <2>1, <2>2 DEF PcSet, Forking, AloneWith, Closers
    <2>7. ASSUME NEW f, NEW j PROVE Holds(w, "dec", r, f, j) <=> HoldsRest(c, f, j)
      <3>1. Holds(w, "dec", r, f, j) <=> \/ f \in DOMAIN w /\ w[f].under = j
                                         \/ f \in DOMAIN x /\ x[f].under = j
        BY <2>1, <2>2 DEF Holds, Pending, Removing, Due, Closers, Swaps
      <3> QED
        BY <1>2, <1>3, <2>1, <3>1 DEF HoldsRest
    <2> QED
      BY <2>2, <2>3, <2>5, <2>6, <2>7
  <1>5. CASE x = NoRow
    <2>1. DOMAIN q.rest \ {g} = {}
      BY <1>3, <1>5, NoRowFacts
    <2>2. AfterSwap(c, Me, table[c])
      BY <1>1, <1>5 DEF AfterDec, First
    <2>3. PICK l \in {"idle", "cloexec"}, r \in Calls :
              /\ Resting(l, r) /\ Goto(c, Me, l) /\ Locals(c, Me, r)
              /\ l = "cloexec" => q.op = "dup3"
      BY <1>1, <2>2, AfterSwapFacts
    <2>4. /\ Fits(kfile, Live(c), w, l, r) /\ Calm(l, r) /\ ~Forking(l, r)
          /\ l \in PcSet /\ l # "dead"
      BY <1>1, <2>3, RestingFits
    <2>5. /\ \A f, j : Holds(w, l, r, f, j) <=> f \in DOMAIN w /\ w[f].under = j
          /\ \A j : ~AloneWith(l, r, j)
      BY <2>4, CalmHolds
    <2>6. \A f, j : HoldsRest(c, f, j) <=> f \in DOMAIN w /\ w[f].under = j
      BY <1>2, <2>1 DEF HoldsRest
    <2> QED
      BY <2>3, <2>4, <2>5, <2>6
  <1> QED
    BY <1>4, <1>5

\* An entry is counted down; the last one of a kernel descriptor is the call's to close.
LEMMA DecStep ==
    ASSUME OneCall, Inv, NEW c \in Cages, Dec(c, Me) PROVE Inv'
  <1> DEFINE q == Loc(c)
             w == RowOf(c)
  <1>0. At(c, Me, "dec")
    BY DEF Dec
  <1>1. /\ Calling(c, Me) = q /\ q \in Calls /\ w \in Row /\ Pc(c) = "dec"
        /\ TypeOK /\ CountNeverMissing /\ Running /\ aborted = "no"
        /\ Fits(kfile, Live(c), w, "dec", q)
    BY <1>0, BusyFacts
  <1>2. PICK g \in Fds : /\ g = First(q) /\ g \in DOMAIN q.rest /\ q.rest \in Row
                         /\ q.op \in Closers \cup Swaps /\ Good(kfile, q.rest[g])
                         /\ q.op \in Closers => g \notin DOMAIN w
                         /\ q.op \in Swaps => DOMAIN q.rest = {g} /\ g = q.at
    BY <1>0, RemovingFacts
  <1>3. PICK k \in Keys : k = q.rest[g].under
    BY <1>2 DEF Good, Keys
  <1>4. PICK h \in Slots : h = IF q.op \in Closers THEN g ELSE BadFd
    BY DEF Slots
  <1>5. h \notin DOMAIN w
    BY <1>1, <1>2, <1>4, RowFacts, Numbers
  <1>6. ASSUME NEW f, NEW j PROVE Held(c, f, j) <=> HoldsRest(c, f, j) \/ (f = h /\ j = k)
    <2>1. CASE q.op \in Closers
      <3>1. Held(c, f, j) <=> \/ f \in DOMAIN w /\ w[f].under = j
                              \/ f \in DOMAIN q.rest /\ q.rest[f].under = j
        BY <1>1, <2>1 DEF Held, Holds, Pending, Removing, Due, Closers, Swaps
      <3> QED
        BY <1>2, <1>3, <1>4, <2>1, <3>1 DEF HoldsRest
    <2>2. CASE q.op \in Swaps
      <3>1. Held(c, f, j) <=> \/ f \in DOMAIN w /\ w[f].under = j
                              \/ f = BadFd /\ q.rest[g].under = j
        BY <1>1, <1>2, <2>2 DEF Held, Holds, Pending, Removing, Closers, Swaps
      <3> QED
        BY <1>2, <1>3, <1>4, <2>2, <3>1 DEF HoldsRest, Closers, Swaps
    <2> QED
      BY <1>2, <2>1, <2>2
  <1>7. \A j : ~HoldsRest(c, h, j)
    BY <1>2, <1>4, <1>5 DEF HoldsRest
  <1>8. Held(c, h, k) /\ ~HoldsRest(c, h, k)
    BY <1>6, <1>7
  <1>9. count[k] > 0 /\ \A d \in Cages : ~Alone(d, k)
    BY <1>1, <1>8, HeldIsCounted
  <1>10. count \in [Keys -> Nat]
    BY <1>1 DEF TypeOK, Keys
  <1>11. /\ count' = [count EXCEPT ![k] = count[k] - 1]
         /\ IF IsLast(k) THEN Goto(c, Me, "last") /\ UNCHANGED call ELSE AfterDec(c, Me)
         /\ UNCHANGED <<nextId, table, kfile, opened, aborted, lost>>
    <2>1. count[k] # 0
      BY <1>9, <1>10
    <2>2. Calling(c, Me).rest[Lowest(DOMAIN Calling(c, Me).rest)].under = k
      BY <1>1, <1>2, <1>3 DEF First
    <2> QED
      BY <2>1, <2>2 DEF Dec, kernelVars
  <1>12. /\ count'[k] = count[k] - 1 /\ count' \in [Keys -> Nat]
         /\ \A j \in Keys : j # k => count'[j] = count[j]
    BY <1>9, <1>10, <1>11
  <1>13. PICK l \in PcSet, r \in Calls :
           /\ Goto(c, Me, l) /\ (Locals(c, Me, r) \/ (UNCHANGED call /\ r = q))
           /\ l # "dead" /\ ~Forking(l, r) /\ Fits(kfile, Live(c), w, l, r)
           /\ \A j : AloneWith(l, r, j) <=> j = k /\ count[k] = 1
           /\ \A f, j : Holds(w, l, r, f, j) <=> HoldsRest(c, f, j)
    <2>1. CASE count[k] = 1
      <3>1. Goto(c, Me, "last") /\ UNCHANGED call
        BY <1>11, <2>1 DEF IsLast
      <3>2. "last" \in PcSet /\ ~Forking("last", q)
        BY <1>2 DEF PcSet, Forking, Closers, Swaps
      <3>3. RestFits(kfile, Live(c), w, "dec", q)
        BY <1>1 DEF Fits
      <3>4. RestFits(kfile, Live(c), w, "last", q)
        BY <3>3 DEF RestFits, Removing
      <3>5. Fits(kfile, Live(c), w, "last", q)
        BY <1>1, <1>2, <3>2, <3>4 DEF Fits, OpFits, EntryFits, CopyFits, Pending, Uses, Borrows
      <3>6. \A j : AloneWith("last", q, j) <=> j = k
        BY <1>2, <1>3 DEF AloneWith
      <3>7. \A f, j : Holds(w, "last", q, f, j) <=> HoldsRest(c, f, j)
        BY DEF Holds, HoldsRest, Pending, Removing, Due
      <3> QED
        BY <1>1, <2>1, <3>1, <3>2, <3>5, <3>6, <3>7
    <2>2. CASE count[k] # 1
      <3>1. AfterDec(c, Me)
        BY <1>11, <2>2 DEF IsLast
      <3> QED
        BY <1>0, <2>2, <3>1, AfterDecFacts
    <2> QED
      BY <2>1, <2>2
  <1>14. Moved(c, Live(c), w, l, r)
    BY <1>11, <1>13 DEF Moved
  <1>15. Becomes(c, Live(c), w, l, r)
    BY <1>1, <1>13, <1>14, MovedFacts
  <1>16. TypeOK' /\ CountNeverMissing'
    <2>1. /\ kfile' \in [Under -> 0..MaxOpens] /\ opened' \in 1..MaxOpens /\ nextId' = nextId
          /\ lost' \subseteq Under /\ aborted' \in {"no", "table_full", "limit", "cloexec"}
      BY <1>1, <1>11 DEF TypeOK
    <2> QED
      BY <1>1, <1>12, <1>13, <1>14, <2>1, TypeStep
  <1>17. CallsInv' /\ ChildInv' /\ NewIdle'
    BY <1>1, <1>11, <1>13, <1>15, CallsStep, ChildStep DEF Running
  <1>18. AloneInv'
    <2>1. AloneInv /\ \A j \in Keys : count'[j] = count[j] \/ \A d \in Cages : d # c => ~Alone(d, j)
      BY <1>1, <1>9, <1>12 DEF Running
    <2>2. \A j \in Keys : AloneWith(l, r, j) =>
             count'[j] = 0 /\ \A d \in Cages : d # c => ~Alone(d, j)
      BY <1>9, <1>12, <1>13
    <2> QED
      BY <1>15, <2>1, <2>2, AloneStep
  <1>19. LeakInv'
    <2>1. ASSUME NEW j \in Under \ (Standard \cup lost'), kfile'[j] # 0
          PROVE  \/ count'[j] > 0
                 \/ AloneWith(l, r, j)
                 \/ kfile[j] # 0 /\ j \notin lost /\ count'[j] = count[j] /\ ~Alone(c, j)
      <3>1. j \in Keys /\ ~Alone(c, j)
        BY <1>1 DEF Keys, Alone, AloneWith
      <3> QED
        BY <1>9, <1>10, <1>11, <1>12, <1>13, <2>1, <3>1
    <2> QED
      BY <1>1, <1>15, <2>1, LeakStep DEF Running
  <1>20. ~Copying(l, r) /\ ~Copying(Pc(c), Loc(c)) /\ ChildInv /\ Pc(c) # "idle"
    BY <1>1, <1>13 DEF Copying, Forking, Running
  <1>21. Cardinality(Refs(k)') = Cardinality(Refs(k)) - 1
    <2>1. SameBut(c, w, l, r, k, h, h)
      BY <1>6, <1>13 DEF SameBut
    <2>2. ~Holds(w, l, r, h, k)
      BY <1>8, <1>13
    <2>3. <<c, h>> \in Refs(k) /\ <<c, h>> \notin Refs(k)' /\ SamePlaces(k, <<c, h>>, <<c, h>>)
      BY <1>8, <1>15, <1>20, <2>1, <2>2, RefsDiffer
    <2> QED
      BY <2>3, RefsFinite, OneLess DEF SamePlaces
  <1>22. ASSUME NEW j \in Keys, j # k PROVE Refs(j)' = Refs(j)
    <2>1. \A f : ~Copies(l, r, f, j) /\ ~Copies(Pc(c), Loc(c), f, j)
      BY <1>20 DEF Copies
    <2>2. \A f \in Slots : Holds(w, l, r, f, j) <=> Held(c, f, j)
      BY <1>6, <1>13, <1>22
    <2> QED
      BY <1>15, <1>20, <2>1, <2>2, RefsSame
  <1>23. ASSUME NEW j \in Keys PROVE count'[j] = Cardinality(Refs(j)')
    <2>1. CASE j = k
      BY <1>1, <1>12, <1>21, <2>1 DEF Running, CountInv
    <2>2. CASE j # k
      BY <1>1, <1>12, <1>22, <2>2 DEF Running, CountInv
    <2> QED
      BY <2>1, <2>2
  <1>24. CountInv'
    BY <1>23 DEF CountInv, Keys, Under
  <1> QED
    BY <1>16, <1>17, <1>18, <1>19, <1>24 DEF Running, Inv

\* The close handler: the kernel descriptor is nobody else's, and is open.
LEMMA LastStep ==
    ASSUME OneCall, Inv, NEW c \in Cages, Last(c, Me) PROVE Inv'
  <1> DEFINE q == Loc(c)
             w == RowOf(c)
  <1>0. At(c, Me, "last")
    BY DEF Last
  <1>1. /\ Calling(c, Me) = q /\ q \in Calls /\ w \in Row /\ Pc(c) = "last"
        /\ TypeOK /\ CountNeverMissing /\ Running /\ aborted = "no"
    BY <1>0, BusyFacts
  <1>2. PICK g \in Fds : /\ g = First(q) /\ g \in DOMAIN q.rest /\ Good(kfile, q.rest[g])
    BY <1>0, RemovingFacts
  <1>3. PICK k \in Under : k = q.rest[g].under /\ kfile[k] # 0
    BY <1>2 DEF Good
  <1>4. k \in Keys /\ k # BadFd
    BY Numbers DEF Keys
  <1>5. \A f, j : Held(c, f, j) <=> HoldsRest(c, f, j)
    BY <1>0, RemovingFacts
  <1>6. \A j : Alone(c, j) <=> j = k
    BY <1>1, <1>2, <1>3 DEF Alone, AloneWith
  <1>7. count[k] = 0 /\ \A d \in Cages : d # c => ~Touched(d, k)
    BY <1>1, <1>4, <1>6, AloneIsAlone DEF Running, AloneInv
  <1>8. /\ AfterDec(c, Me) /\ kfile' = IF Kept(k) THEN kfile ELSE [kfile EXCEPT ![k] = 0]
        /\ UNCHANGED <<nextId, table, count, opened, aborted, lost>>
    <2>1. Calling(c, Me).rest[Lowest(DOMAIN Calling(c, Me).rest)].under = k
      BY <1>1, <1>2, <1>3 DEF First
    <2> QED
      BY <1>3, <1>4, <2>1 DEF Last
  <1>9. /\ kfile' \in [Under -> 0..MaxOpens] /\ \A j \in Under : j # k => kfile'[j] = kfile[j]
        /\ k \notin Standard => kfile'[k] = 0
    BY <1>1, <1>8, FdAssumption DEF TypeOK, Kept
  <1>10. PICK l \in PcSet, r \in Calls :
              /\ Goto(c, Me, l) /\ Locals(c, Me, r) /\ l # "dead" /\ ~Forking(l, r)
              /\ Fits(kfile, Live(c), w, l, r)
              /\ \A j : ~AloneWith(l, r, j)
              /\ \A f, j : Holds(w, l, r, f, j) <=> HoldsRest(c, f, j)
    BY <1>0, <1>8, AfterDecFacts
  <1>11. Moved(c, Live(c), w, l, r)
    BY <1>8, <1>10 DEF Moved
  <1>12. Becomes(c, Live(c), w, l, r)
    BY <1>1, <1>10, <1>11, MovedFacts
  <1>13. TypeOK' /\ CountNeverMissing'
    <2>1. /\ count' \in [Keys -> Nat] /\ opened' \in 1..MaxOpens /\ nextId' = nextId
          /\ lost' \subseteq Under /\ aborted' \in {"no", "table_full", "limit", "cloexec"}
      BY <1>1, <1>8 DEF TypeOK, Keys
    <2> QED
      BY <1>1, <1>9, <1>10, <1>11, <2>1, TypeStep
  <1>14. ASSUME NEW j \in Under, Touches(w, l, r, j) PROVE kfile'[j] = kfile[j]
    <2>1. PICK f \in Slots : Held(c, f, j)
      BY <1>5, <1>10, <1>14 DEF Touches
    <2>2. count[j] > 0
      BY <1>1, <2>1, HeldIsCounted DEF Keys
    <2> QED
      BY <1>7, <1>9, <2>2
  <1>15. Fits(kfile', Live(c), w, l, r)
    BY <1>1, <1>10, <1>14, FitsKept
  <1>16. CallsInv' /\ ChildInv' /\ NewIdle'
    <2>1. \A j \in Under : kfile'[j] = kfile[j]
                           \/ \A d \in Cages : d # c => ~Touched(d, j)
      BY <1>7, <1>9
    <2>2. CallsInv'
      BY <1>1, <1>12, <1>15, <2>1, CallsStep DEF Running
    <2>3. nextId' = nextId /\ Pc(c) # "idle"
      BY <1>1, <1>8
    <2>4. ChildInv' /\ NewIdle'
      BY <1>1, <1>10, <1>12, <2>3, ChildStep DEF Running
    <2> QED
      BY <2>2, <2>4
  <1>17. AloneInv'
    BY <1>1, <1>8, <1>10, <1>12, AloneStep DEF Running
  <1>18. LeakInv'
    <2>1. ASSUME NEW j \in Under \ (Standard \cup lost'), kfile'[j] # 0
          PROVE  kfile[j] # 0 /\ j \notin lost /\ count'[j] = count[j] /\ ~Alone(c, j)
      BY <1>6, <1>8, <1>9, <2>1
    <2> QED
      BY <1>1, <1>12, <2>1, LeakStep DEF Running
  <1>19. ~Copying(l, r) /\ ~Copying(Pc(c), Loc(c)) /\ ChildInv /\ Pc(c) # "idle"
    BY <1>1, <1>10 DEF Copying, Forking, Running
  <1>20. ASSUME NEW j \in Keys PROVE Refs(j)' = Refs(j)
    <2>1. \A f : ~Copies(l, r, f, j) /\ ~Copies(Pc(c), Loc(c), f, j)
      BY <1>19 DEF Copies
    <2>2. \A f \in Slots : Holds(w, l, r, f, j) <=> Held(c, f, j)
      BY <1>5, <1>10
    <2> QED
      BY <1>12, <1>19, <2>1, <2>2, RefsSame
  <1>21. CountInv'
    BY <1>1, <1>8, <1>20, CountStep DEF Running
  <1> QED
    BY <1>13, <1>16, <1>17, <1>18, <1>21 DEF Running, Inv

\* The child's row is the copy its parent has counted.
LEMMA CopyEndStep ==
    ASSUME OneCall, Inv, NEW c \in Cages, CopyEnd(c, Me) PROVE Inv'
  <1> DEFINE q == Loc(c)
             w == RowOf(c)
  <1>0. At(c, Me, "copy_end")
    BY DEF CopyEnd
  <1>1. /\ Calling(c, Me) = q /\ Pc(c) = "copy_end" /\ q \in Calls /\ w \in Row
        /\ TypeOK /\ CountNeverMissing /\ Running /\ aborted = "no"
        /\ Fits(kfile, Live(c), w, "copy_end", q)
        /\ \A f \in DOMAIN w : Good(kfile, w[f])
    BY <1>0, BusyFacts
  <1>2. q.op = "fork" /\ q.copy = w /\ DOMAIN q.rest = {} /\ Live(c) /\ IsForking(c)
    BY <1>1 DEF Fits, OpFits, CopyFits, Forking, IsForking
  <1>3. PICK y \in Cages : /\ y = q.at /\ y \in 1..nextId /\ ~Live(y) /\ Pc(y) = "idle"
                           /\ y # c
    <2>1. q.at \in 1..nextId /\ ~Live(q.at) /\ Pc(q.at) = "idle"
      BY <1>1, <1>2 DEF Running, ChildInv, ChildOK
    <2>2. q.at \in Cages
      BY <1>1, <2>1, FdAssumption DEF TypeOK, Cages
    <2> QED
      BY <1>1, <2>1, <2>2
  <1>4. /\ table' = Put(table, y, w) /\ Goto(c, Me, "idle") /\ Locals(c, Me, NoCall)
        /\ UNCHANGED <<nextId, count, kfile, opened, aborted, lost>>
    BY <1>1, <1>2, <1>3 DEF CopyEnd, Finish, kernelVars
  <1>5. /\ DOMAIN table' = DOMAIN table \cup {y} /\ table'[y] = w
        /\ \A d \in DOMAIN table : d # y => table'[d] = table[d]
    BY <1>4 DEF Put
  <1>6. /\ Live(y)' /\ RowOf(y)' = w
        /\ \A d \in Cages : d # y => (Live(d)' <=> Live(d)) /\ RowOf(d)' = RowOf(d)
    BY <1>5 DEF Live, RowOf
  <1>7. /\ Pc(c)' = "idle" /\ Loc(c)' = NoCall
        /\ \A d \in Cages : d # c => Pc(d)' = Pc(d) /\ Loc(d)' = Loc(d)
        /\ pc' \in [Thr -> PcSet] /\ call' \in [Thr -> Calls]
        /\ \A p \in Thr : pc'[p] # "dead"
    <2>1. "idle" \in PcSet /\ \A d \in Cages : <<d, Me>> \in Thr
      BY OnlyMe DEF PcSet, Thr
    <2> QED
      BY <1>1, <1>4, <2>1, NoCallFacts
      DEF Pc, Loc, TypeOK, CountNeverMissing, Locals, Goto
  <1>8. TypeOK' /\ CountNeverMissing'
    <2>1. DOMAIN table' \subseteq 1..nextId /\ \A d \in DOMAIN table' : table'[d] \in Row
      BY <1>1, <1>3, <1>5 DEF TypeOK
    <2>2. TypeOK'
      BY <1>1, <1>4, <1>7, <2>1 DEF TypeOK
    <2> QED
      BY <1>1, <1>4, <1>7, <2>2 DEF CountNeverMissing
  <1>9. \A d \in Cages : d # c /\ d # y => Same(d)
    BY <1>6, <1>7 DEF Same
  <1>10. CallsInv'
    <2>1. Fits(kfile', Live(c)', RowOf(c)', "idle", NoCall)
      <3>1. \A f \in DOMAIN RowOf(c)' : Good(kfile', RowOf(c)'[f])
        BY <1>1, <1>3, <1>4, <1>6
      <3> QED
        BY <3>1, IdleFits
    <2>2. CallOK(c)'
      BY <1>7, <2>1 DEF CallOK
    <2>3. \A f \in DOMAIN RowOf(y)' : Good(kfile', RowOf(y)'[f])
      BY <1>1, <1>4, <1>6
    <2>4. CallOK(y)'
      <3>1. Pc(y)' = "idle"
        BY <1>3, <1>7
      <3> QED
        BY <2>3, <3>1 DEF CallOK, Fits, OpFits, EntryFits, RestFits, CopyFits, Pending, Uses,
                          Borrows, Removing, Forking, Good
    <2>5. ASSUME NEW d \in Cages, d # c, d # y PROVE CallOK(d)'
      BY <1>1, <1>4, <1>9, <2>5, OtherFits DEF Running
    <2> QED
      BY <2>2, <2>4, <2>5 DEF CallsInv, Cages
  <1>11. ~IsForking(c)' /\ ~IsForking(y)' /\ \A d \in Cages :
            IsForking(d)' => d # c /\ IsForking(d) /\ Loc(d)' = Loc(d)
    BY <1>3, <1>7 DEF IsForking, Forking
  <1>12. ChildInv'
    <2>1. ASSUME NEW d \in Cages, IsForking(d)' PROVE ChildOK(d)'
      <3>1. d # c /\ IsForking(d) /\ Loc(d)' = Loc(d)
        BY <1>11, <2>1
      <3>2. PICK z \in Cages : /\ z = Loc(d).at /\ z \in 1..nextId /\ ~Live(z)
                               /\ Pc(z) = "idle"
        <4>1. Loc(d).at \in 1..nextId /\ ~Live(Loc(d).at) /\ Pc(Loc(d).at) = "idle"
          BY <1>1, <3>1 DEF Running, ChildInv, ChildOK
        <4>2. Loc(d).at \in Cages
          BY <1>1, <4>1, FdAssumption DEF TypeOK, Cages
        <4> QED
          BY <4>1, <4>2
      <3>3. z # y
        BY <1>1, <1>2, <1>3, <3>1, <3>2 DEF Running, ChildInv, ChildOK
      <3>4. z # c
        BY <1>1, <3>2
      <3>5. z \in 1..nextId' /\ ~Live(z)' /\ Pc(z)' = "idle"
        BY <1>4, <1>6, <1>7, <3>2, <3>3, <3>4
      <3>6. ASSUME NEW e \in Cages, IsForking(e)', Loc(e)'.at = z PROVE e = d
        BY <1>1, <1>11, <3>1, <3>2, <3>6 DEF Running, ChildInv, ChildOK
      <3> QED
        BY <3>1, <3>2, <3>5, <3>6 DEF ChildOK, Cages
    <2>2. ASSUME NEW d \in Cages PROVE ChildOK(d)'
      BY <2>1, <2>2 DEF ChildOK
    <2> QED
      BY <2>2 DEF ChildInv, Cages
  <1>13. NewIdle'
    BY <1>1, <1>4, <1>7 DEF Running, NewIdle, Cages
  <1>14. \A d \in Cages : \A k : Alone(d, k)' <=> Alone(d, k)
    <2>1. \A k : ~Alone(c, k) /\ ~Alone(c, k)'
      BY <1>1, <1>7 DEF Alone, AloneWith
    <2>2. ASSUME NEW d \in Cages, d # c, NEW k PROVE Alone(d, k)' <=> Alone(d, k)
      BY <1>7, <2>2 DEF Alone
    <2> QED
      BY <2>1, <2>2
  <1>15. AloneInv'
    BY <1>1, <1>4, <1>14 DEF Running, AloneInv, Cages, Keys, Under
  <1>16. LeakInv'
    BY <1>1, <1>4, <1>14 DEF Running, LeakInv, Cages, Under
  <1>17. ASSUME NEW f \in Slots, NEW k PROVE Held(c, f, k)' <=> Held(c, f, k)
    <2>1. RowOf(c)' = w
      BY <1>3, <1>6
    <2>2. Holds(w, "idle", NoCall, f, k) <=> Holds(w, "copy_end", q, f, k)
      BY DEF Holds, Pending, Removing
    <2> QED
      BY <1>1, <1>7, <2>1, <2>2 DEF Held
  <1>18. ASSUME NEW f \in Slots, NEW k
         PROVE  Held(y, f, k)' <=> f \in DOMAIN w /\ w[f].under = k
    <2>1. RowOf(y)' = w /\ Pc(y)' = "idle"
      BY <1>3, <1>6, <1>7
    <2>2. \A r : Holds(w, "idle", r, f, k) <=> f \in DOMAIN w /\ w[f].under = k
      BY DEF Holds, Pending, Removing
    <2> QED
      BY <2>1, <2>2 DEF Held
  <1>19. ASSUME NEW f \in Slots, NEW k
         PROVE  Copies(Pc(c), Loc(c), f, k) <=> f \in DOMAIN w /\ w[f].under = k
    BY <1>1, <1>2 DEF Copies, Copying
  <1>20. ASSUME NEW d \in Cages, NEW f \in Slots, NEW k
         PROVE  ~CopiedFor(c, d, f, k)' /\ \A e \in Cages :
                   e # c => (CopiedFor(e, d, f, k)' <=> CopiedFor(e, d, f, k))
    BY <1>7 DEF CopiedFor, Copies, Copying
  <1>21. ASSUME NEW d \in Cages, NEW f \in Slots, NEW k PROVE Ref(d, f, k)' <=> Ref(d, f, k)
    <2>0. Pc(c) # "idle" /\ ChildInv
      BY <1>1 DEF Running
    <2>1. CASE d = c
      <3>1. Ref(c, f, k) <=> Held(c, f, k)
        BY <2>0, RefsBefore
      <3>2. \A e \in Cages : ~CopiedFor(e, c, f, k)
        BY <2>0, NotChild DEF CopiedFor, Copies, Copying, IsForking, Forking
      <3>3. \A e \in Cages : ~CopiedFor(e, c, f, k)'
        BY <1>20, <3>2
      <3>4. Ref(c, f, k)' <=> Held(c, f, k)'
        BY <3>3, Zenon DEF Ref
      <3> QED
        BY <1>17, <2>1, <3>1, <3>4
    <2>2. CASE d = y
      <3>1. ~OtherRef(c, y, f, k)
        BY <1>1, <1>2, <1>3, ChildPlaceIsNew
      <3>2. Ref(y, f, k) <=> Copies(Pc(c), Loc(c), f, k)
        BY <1>3, <2>0, <3>1, RefsBefore
      <3>3. \A e \in Cages : ~CopiedFor(e, y, f, k)'
        BY <1>20, <3>1 DEF OtherRef
      <3>4. Ref(y, f, k)' <=> Held(y, f, k)'
        BY <3>3, Zenon DEF Ref
      <3> QED
        BY <1>18, <1>19, <2>2, <3>2, <3>4
    <2>3. CASE d # c /\ d # y
      <3>1. Held(d, f, k)' <=> Held(d, f, k)
        BY <1>9, <2>3 DEF Same, Held
      <3>2. ~CopiedFor(c, d, f, k)
        BY <1>3, <2>3 DEF CopiedFor
      <3>3. \A e \in Cages : CopiedFor(e, d, f, k)' <=> CopiedFor(e, d, f, k)
        BY <1>20, <3>2
      <3> QED
        BY <3>1, <3>3, Zenon DEF Ref
    <2> QED
      BY <2>1, <2>2, <2>3
  <1>22. CountInv'
    <2>1. ASSUME NEW k \in Keys PROVE Refs(k)' = Refs(k)
      <3>1. Refs(k)' = {x \in Places : Ref(x[1], x[2], k)'}
        BY DEF Refs, Places, Cages, Slots, Fds
      <3> QED
        BY <1>21, <3>1 DEF Refs, Places
    <2> QED
      BY <1>1, <1>4, <2>1, CountStep DEF Running
  <1> QED
    BY <1>8, <1>10, <1>12, <1>13, <1>15, <1>16, <1>22 DEF Running, Inv
-----------------------------------------------------------------------------
(***************************************************************************)
(* The invariant holds.                                                    *)
(***************************************************************************)
\* The standard streams are counted once, for the init cage.
LEMMA InitInv == ASSUME OneCall, Init PROVE Inv
  <1> DEFINE e(f) == [under |-> f, file |-> 1, cloexec |-> FALSE]
             w == [f \in Standard |-> e(f)]
  <1>1. w \in Row /\ DOMAIN w = Standard /\ \A f \in Standard : w[f] = e(f)
    <2>1. \A f \in Standard : e(f) \in Entry
      BY Numbers, FdAssumption DEF Entry
    <2>2. w \in [Standard -> Entry]
      BY <2>1
    <2>3. Standard \in SUBSET Fds
      BY Numbers
    <2> QED
      BY <2>2, <2>3, Zenon DEF Row
  <1>2. /\ nextId = 1 /\ table = [c \in {1} |-> w] /\ aborted = "no" /\ lost = {}
        /\ count = [k \in Keys |-> IF k \in Standard THEN 1 ELSE 0]
        /\ kfile = [k \in Under |-> IF k \in Standard THEN 1 ELSE 0] /\ opened = 1
        /\ pc = [p \in Thr |-> "idle"] /\ call = [p \in Thr |-> NoCall]
    BY DEF Init, Keys
  <1> HIDE DEF w
  <1>3. TypeOK
    <2>1. /\ nextId \in Cages /\ DOMAIN table \subseteq 1..nextId
          /\ \A c \in DOMAIN table : table[c] \in Row
      BY <1>1, <1>2, Numbers
    <2>2. /\ count \in [Under \cup {BadFd} -> Nat] /\ kfile \in [Under -> 0..MaxOpens]
          /\ opened \in 1..MaxOpens
      BY <1>2, FdAssumption DEF Keys
    <2>3. pc \in [Thr -> PcSet] /\ call \in [Thr -> Calls]
      BY <1>2, NoCallFacts DEF PcSet
    <2> QED
      BY <1>2, <2>1, <2>2, <2>3 DEF TypeOK
  <1>4. CountNeverMissing
    BY <1>2 DEF CountNeverMissing
  <1>5. \A c \in Cages : Pc(c) = "idle" /\ Loc(c) = NoCall
    BY <1>2, OnlyMe DEF Pc, Loc, Thr
  <1>6. RowOf(1) = w /\ \A c \in Cages : c # 1 => RowOf(c) = NoRow
    BY <1>2 DEF RowOf, Live
  <1>7. CallsInv
    <2>1. ASSUME NEW c \in Cages PROVE \A f \in DOMAIN RowOf(c) : Good(kfile, RowOf(c)[f])
      <3>1. CASE c = 1
        <4>1. ASSUME NEW f \in Standard PROVE Good(kfile, w[f])
          <5>1. f \in Under /\ kfile[f] = 1
            BY <1>2, Numbers
          <5>2. w[f].under = f /\ w[f].file = 1
            BY <1>1
          <5> QED
            BY <5>1, <5>2 DEF Good
        <4> QED
          BY <1>1, <1>6, <3>1, <4>1
      <3>2. CASE c # 1
        BY <1>6, <3>2, NoRowFacts
      <3> QED
        BY <3>1, <3>2
    <2> QED
      BY <1>5, <2>1, IdleFits DEF CallsInv, CallOK
  <1>8. ChildInv /\ NewIdle
    BY <1>5 DEF ChildInv, ChildOK, IsForking, Forking, NewIdle
  <1>9. \A c \in Cages : \A k : ~Alone(c, k)
    BY <1>5 DEF Alone, AloneWith
  <1>10. AloneInv
    BY <1>9 DEF AloneInv
  <1>11. LeakInv
    BY <1>2 DEF LeakInv
  <1>12. ASSUME NEW c \in Cages, NEW f \in Slots, NEW k
         PROVE  Ref(c, f, k) <=> c = 1 /\ f = k /\ k \in Standard
    <2>1. \A d \in Cages : ~CopiedFor(d, c, f, k)
      BY <1>5 DEF CopiedFor, Copies, Copying
    <2>2. Held(c, f, k) <=> f \in DOMAIN RowOf(c) /\ RowOf(c)[f].under = k
      BY <1>5 DEF Held, Holds, Pending, Removing
    <2>3. CASE c = 1
      BY <1>1, <1>6, <2>1, <2>2, <2>3 DEF Ref
    <2>4. CASE c # 1
      BY <1>6, <2>1, <2>2, <2>4, NoRowFacts DEF Ref
    <2> QED
      BY <2>3, <2>4
  <1>13. CountInv
    <2>1. ASSUME NEW k \in Keys PROVE count[k] = Cardinality(Refs(k))
      <3>1. CASE k \in Standard
        <4>1. k \in Slots /\ 1 \in Cages
          BY <3>1, Numbers DEF Slots
        <4>2. Refs(k) = {<<1, k>>}
          BY <1>12, <3>1, <4>1 DEF Refs, Places
        <4> QED
          BY <1>2, <3>1, <4>2, FS_Singleton
      <3>2. CASE k \notin Standard
        <4>1. Refs(k) = {}
          BY <1>12, <3>2 DEF Refs, Places
        <4> QED
          BY <1>2, <3>2, <4>1, FS_EmptySet
      <3> QED
        BY <3>1, <3>2
    <2> QED
      BY <2>1 DEF CountInv
  <1> QED
    BY <1>3, <1>4, <1>7, <1>8, <1>10, <1>11, <1>13 DEF Running, Inv

\* A step that changes nothing.
LEMMA StutterInv == ASSUME Inv, UNCHANGED vars PROVE Inv'
  <1>1. UNCHANGED <<nextId, table, count, kfile, opened, pc, call, aborted, lost>>
    BY DEF vars
  <1>2. TypeOK' /\ CountNeverMissing'
    BY <1>1 DEF Inv, TypeOK, CountNeverMissing
  <1>3. ASSUME CallsInv PROVE CallsInv'
    BY <1>1, <1>3 DEF CallsInv, CallOK, Pc, Loc, Live, RowOf
  <1>4. ASSUME ChildInv, NewIdle PROVE ChildInv' /\ NewIdle'
    BY <1>1, <1>4 DEF ChildInv, ChildOK, IsForking, NewIdle, Pc, Loc, Live
  <1>5. ASSUME AloneInv, LeakInv PROVE AloneInv' /\ LeakInv'
    BY <1>1, <1>5 DEF AloneInv, LeakInv, Alone, Pc, Loc
  <1>6. ASSUME NEW k PROVE Refs(k)' = Refs(k)
    BY <1>1 DEF Refs, Ref, Held, CopiedFor, Pc, Loc, Live, RowOf
  <1>7. ASSUME CountInv PROVE CountInv'
    BY <1>1, <1>6, <1>7 DEF CountInv
  <1> QED
    BY <1>1, <1>2, <1>3, <1>4, <1>5, <1>7 DEF Inv, Running

\* One lemma per action; the increment and the allocation have one per branch.
LEMMA StepInv == ASSUME OneCall, Inv, NEW c \in Cages, Step(c, Me) PROVE Inv'
  <1>1. ASSUME NEW b \in Flags, Open(c, Me, b) PROVE Inv'
    BY <1>1, OpenStep
  <1>2. ASSUME NEW f \in Fds, Dup(c, Me, f) \/ Close(c, Me, f) PROVE Inv'
    BY <1>2, DupStep, CloseStep
  <1>3. ASSUME NEW f \in Fds, NEW g \in 0..FD_PER_PROCESS_MAX, NEW b \in Flags,
               DupFd(c, Me, f, g, b)
        PROVE  Inv'
    BY <1>3, DupFdStep
  <1>4. ASSUME NEW f \in Fds, NEW g \in 0..FD_PER_PROCESS_MAX, NEW op \in {"dup2", "dup3"},
               Dup2(c, Me, f, g, op)
        PROVE  Inv'
    BY <1>4, Dup2Step
  <1>5. ASSUME NEW f \in 0..FD_PER_PROCESS_MAX, NEW b \in BOOLEAN, SetCloexec(c, Me, f, b)
        PROVE  Inv'
    BY <1>5, SetCloexecStep
  <1>6. CASE Fork(c, Me) \/ Exec(c, Me) \/ Exit(c, Me)
    BY <1>6, ForkStep, ExecStep, ExitStep
  <1>7. CASE KDup(c, Me) \/ Insert(c, Me)
    BY <1>7, KDupStep, InsertStep
  <1>8. CASE Alloc(c, Me)
    BY <1>8, AllocFullStep, AllocFoundStep
  <1>9. CASE Inc(c, Me)
    BY <1>9, IncMissingStep, IncOwnStep, IncForkStep
  <1>10. CASE SwapRead(c, Me) \/ SwapWrite(c, Me) \/ CloexecWrite(c, Me)
    BY <1>10, SwapReadStep, SwapWriteStep, CloexecWriteStep
  <1>11. CASE Dec(c, Me) \/ Last(c, Me)
    BY <1>11, DecStep, LastStep
  <1>12. CASE Copy(c, Me) \/ CopyEnd(c, Me)
    BY <1>12, CopyStep, CopyEndStep
  <1> QED
    BY <1>1, <1>2, <1>3, <1>4, <1>5, <1>6, <1>7, <1>8, <1>9, <1>10, <1>11, <1>12 DEF Step

\* When no call is in progress, the places that are counted are the entries.
LEMMA QuietRefs ==
    ASSUME OneCall, TypeOK, Quiet, NEW k
    PROVE  Refs(k) = Entries(k) /\ \A c \in Cages : ~Alone(c, k)
  <1>1. \A c \in Cages : Pc(c) = "idle"
    BY OnlyMe DEF Quiet, Pc, Thr
  <1>2. \A c \in Cages : ~Alone(c, k)
    BY <1>1 DEF Alone, AloneWith
  <1>3. ASSUME NEW c \in Cages, NEW f \in Slots
        PROVE  Ref(c, f, k) <=> f \in DOMAIN RowOf(c) /\ RowOf(c)[f].under = k
    <2>1. \A d \in Cages : ~CopiedFor(d, c, f, k)
      BY <1>1 DEF CopiedFor, Copies, Copying
    <2> QED
      BY <1>1, <2>1 DEF Ref, Held, Holds, Pending, Removing
  <1>4. ASSUME NEW c \in Cages
        PROVE  /\ DOMAIN RowOf(c) \subseteq Fds /\ (~Live(c) => DOMAIN RowOf(c) = {})
               /\ Live(c) => RowOf(c) = table[c]
    BY TypeFacts, RowFacts, NoRowFacts DEF RowOf
  <1>5. ASSUME NEW c \in Cages, NEW f \in Slots
        PROVE  Ref(c, f, k) <=> /\ f \in Fds /\ c \in DOMAIN table
                                /\ f \in DOMAIN table[c] /\ table[c][f].under = k
    BY <1>3, <1>4 DEF Live
  <1>6. ASSUME NEW x PROVE x \in Refs(k) <=> x \in Entries(k)
    <2>1. CASE x \in Places
      <3>1. PICK c \in Cages, f \in Slots : x = <<c, f>>
        BY <2>1 DEF Places
      <3>2. x[1] = c /\ x[2] = f /\ (x \in Cages \X Fds <=> f \in Fds)
        BY <3>1
      <3> QED
        BY <1>5, <2>1, <3>2 DEF Refs, Entries
    <2>2. CASE x \notin Places
      BY <2>2 DEF Refs, Entries, Places, Slots
    <2> QED
      BY <2>1, <2>2
  <1> QED
    BY <1>2, <1>6

\* The inductive invariant: a count is the number of places that refer to the kernel
\* descriptor, those on their way into a row and out of one included; what a call has
\* to itself is counted nowhere; and every entry in a row or in a call is of a kernel
\* descriptor that is open on its file.
THEOREM FdInvariant == ASSUME OneCall PROVE Spec => []Inv
  <1>1. Init => Inv
    BY InitInv
  <1>2. Inv /\ [Next]_vars => Inv'
    <2> SUFFICES ASSUME Inv, [Next]_vars PROVE Inv'
      OBVIOUS
    <2>1. ASSUME NEW c \in Cages, NEW t \in Threads, Step(c, t) PROVE Inv'
      <3>1. t = Me
        BY OnlyMe
      <3> QED
        BY <2>1, <3>1, StepInv
    <2> QED
      BY <2>1, StutterInv DEF Next
  <1> QED
    BY <1>1, <1>2, PTL DEF Spec

\* Every variable keeps its type.
THEOREM FdTypeCorrect == ASSUME OneCall PROVE Spec => []TypeOK
  <1>0. Spec => []Inv
    BY FdInvariant
  <1>1. Inv => TypeOK
    BY DEF Inv
  <1> QED
    BY <1>0, <1>1, PTL

\* FDCOUNT is, whenever no call is in progress, the number of entries of all cages for
\* the kernel descriptor: what _increment_fdcount and _decrement_fdcount add up to.
THEOREM FdCountExact == ASSUME OneCall PROVE Spec => []CountExact
  <1>0. Spec => []Inv
    BY FdInvariant
  <1>1. Inv => CountExact
    <2> SUFFICES ASSUME Inv, Quiet, NEW k \in Under \cup {BadFd}
                 PROVE  count[k] = Cardinality(Entries(k))
      BY DEF CountExact
    <2>1. TypeOK /\ CountInv
      BY DEF Inv, Quiet, Running
    <2> QED
      BY <2>1, QuietRefs DEF CountInv, Keys
  <1> QED
    BY <1>0, <1>1, PTL

\* A descriptor of any cage refers to the file it was made for: the kernel descriptor
\* is not closed and reused under it, whatever the other cages close, dup or fork.
THEOREM FdSameFile == ASSUME OneCall PROVE Spec => []SameFile
  <1>0. Spec => []Inv
    BY FdInvariant
  <1>1. Inv => SameFile
    <2> SUFFICES ASSUME Inv, aborted = "no", NEW c \in DOMAIN table, NEW f \in DOMAIN table[c]
                 PROVE  table[c][f].under # BadFd /\ kfile[table[c][f].under] = table[c][f].file
      BY DEF SameFile
    <2>1. TypeOK /\ CallsInv
      BY DEF Inv, Running
    <2>2. c \in Cages /\ RowOf(c) = table[c]
      BY <2>1, FdAssumption DEF TypeOK, Cages, RowOf, Live
    <2>3. Good(kfile, table[c][f])
      BY <2>1, <2>2 DEF CallsInv, CallOK, Fits
    <2> QED
      BY <2>3, Numbers DEF Good
  <1> QED
    BY <1>0, <1>1, PTL

\* With one call at a time in a cage, a kernel descriptor no cage refers to is closed
\* when no call is in progress, unless it is a standard stream or open found the table
\* full and forgot it.
THEOREM FdNoLeak == ASSUME OneCall PROVE Spec => []NoLeak
  <1>0. Spec => []Inv
    BY FdInvariant
  <1>1. Inv => NoLeak
    <2> SUFFICES ASSUME Inv, Quiet, NEW k \in Under \ (Standard \cup lost), kfile[k] # 0
                 PROVE  Entries(k) # {}
      BY DEF NoLeak
    <2>1. TypeOK /\ CountInv /\ LeakInv
      BY DEF Inv, Quiet, Running
    <2>2. count[k] > 0
      BY <2>1, QuietRefs DEF LeakInv
    <2>3. k \in Keys
      BY DEF Keys
    <2> QED
      BY <2>1, <2>2, <2>3, QuietRefs, CountIsZero
  <1> QED
    BY <1>0, <1>1, PTL

\* With one call at a time in a cage, _decrement_fdcount finds the count it lowers and
\* the close handler finds the kernel descriptor open: their panics, which would abort
\* the host, are not reached.
THEOREM FdCountNeverMissing == ASSUME OneCall PROVE Spec => []CountNeverMissing
  <1>0. Spec => []Inv
    BY FdInvariant
  <1>1. Inv => CountNeverMissing
    BY DEF Inv
  <1> QED
    BY <1>0, <1>1, PTL
=============================================================================
