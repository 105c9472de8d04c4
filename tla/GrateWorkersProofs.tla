------------------------- MODULE GrateWorkersProofs -------------------------
(***************************************************************************)
(* Proofs about GrateWorkers, for any set of callers and any pool size.    *)
(***************************************************************************)
EXTENDS GrateWorkers, FiniteSetTheorems, TLAPS

\* The callers active_calls counts.
CountedCallers == {c \in Callers : pc[c] \in Counted}

\* A caller holds a worker exactly while it runs.
LeaseInv == \A c \in Callers : lease[c] # NoWorker <=> pc[c] = "run"

\* Every worker is in one place: at one position of the queue, or leased to
\* one caller.
PlaceInv ==
    /\ \A i, j \in 1..Len(workers) : workers[i] = workers[j] => i = j
    /\ \A i \in 1..Len(workers), c \in Callers : workers[i] # lease[c]
    /\ \A c, d \in Callers : lease[c] = lease[d] /\ lease[c] # NoWorker => c = d

\* Cleanup past its store implies the flag, and an idle handler is quiet.
ShutdownInv ==
    /\ cleanup \in CleanupSet \ {"no", "unregistered"} => shutting_down
    /\ IdleIsQuiet

Inv == TypeOK /\ ActiveExact /\ LeaseInv /\ PlaceInv /\ ShutdownInv
-----------------------------------------------------------------------------
LEMMA WorkerCountType == WorkerCount \in Nat \ {0} /\ WorkerCount <= MAX_GRATE_WORKERS
  BY PoolAssumption DEF WorkerCount

LEMMA MaxCallsType == MaxCalls \in Nat
  BY PoolAssumption

LEMMA WorkersNumbered == NoWorker \notin Workers
  BY WorkerCountType DEF Workers, NoWorker

LEMMA CountedFinite == IsFiniteSet(CountedCallers) /\ Cardinality(CountedCallers) \in Nat
  <1>1. IsFiniteSet(CountedCallers)
    BY CallersFinite, FS_Subset DEF CountedCallers
  <1> QED
    BY <1>1, FS_CardinalityType

LEMMA InitInv == Init => Inv
  <1> SUFFICES ASSUME Init PROVE Inv
    OBVIOUS
  <1> USE WorkerCountType
  <1>1. TypeOK
    <2>1. workers \in Seq(Workers)
      BY DEF Init, Workers
    <2>2. slot \in BOOLEAN
      BY PoolAssumption, Zenon DEF Init
    <2>3. calls \in [Callers -> 0..MaxCalls]
      BY MaxCallsType DEF Init
    <2>4. lease \in [Callers -> Workers \cup {NoWorker}]
      BY DEF Init
    <2> QED
      BY <2>1, <2>2, <2>3, <2>4
      DEF Init, TypeOK, NoWorker, PcSet, Counted, CleanupSet
  <1>2. ActiveExact
    <2>1. {c \in Callers : pc[c] \in Counted} = {}
      BY DEF Init, Counted
    <2> QED
      BY <2>1, FS_EmptySet DEF Init, ActiveExact
  <1>3. LeaseInv
    BY DEF Init, LeaseInv
  <1>4. PlaceInv
    BY DEF Init, PlaceInv, NoWorker
  <1>5. ShutdownInv
    BY DEF Init, ShutdownInv, IdleIsQuiet, CleanupSet
  <1> QED
    BY <1>1, <1>2, <1>3, <1>4, <1>5 DEF Inv

(***************************************************************************)
(* A notification moves sleepers from "waiting" to "take" and the thread   *)
(* in wait_for_idle back to its load, and changes nothing else.            *)
(***************************************************************************)
Wakes(P) ==
    /\ pc' \in [Callers -> PcSet]
    /\ \A c \in Callers : pc'[c] = P[c] \/ (P[c] = "waiting" /\ pc'[c] = "take")
    /\ cleanup' = cleanup \/ (cleanup = "waiting" /\ cleanup' = "begun")

LEMMA NotifyAllWakes ==
    ASSUME NEW P \in [Callers -> PcSet], NotifyAll(P)
    PROVE  Wakes(P)
  BY DEF NotifyAll, Wakes, PcSet, Counted

LEMMA NotifyOneWakes ==
    ASSUME NEW P \in [Callers -> PcSet], NotifyOne(P)
    PROVE  Wakes(P)
  BY DEF NotifyOne, Wakes, PcSet, Counted
-----------------------------------------------------------------------------
(***************************************************************************)
(* Types and the counter.  The counter's type needs its meaning: the       *)
(* decrements stay above zero because the caller itself is counted.        *)
(***************************************************************************)
LEMMA CountKept ==
    ASSUME TypeOK, NEW c \in Callers, NEW m \in PcSet,
           Wakes([pc EXCEPT ![c] = m]), pc[c] \in Counted <=> m \in Counted
    PROVE  CountedCallers' = CountedCallers
  BY DEF TypeOK, Wakes, CountedCallers, Counted

LEMMA CountGrows ==
    ASSUME TypeOK, NEW c \in Callers, NEW m \in Counted,
           Wakes([pc EXCEPT ![c] = m]), pc[c] \notin Counted
    PROVE  Cardinality(CountedCallers') = Cardinality(CountedCallers) + 1
  <1>1. CountedCallers' = CountedCallers \cup {c} /\ c \notin CountedCallers
    BY DEF TypeOK, Wakes, CountedCallers, Counted
  <1> QED
    BY <1>1, CountedFinite, FS_AddElement

LEMMA CountShrinks ==
    ASSUME TypeOK, NEW c \in Callers, NEW m \in PcSet \ Counted,
           Wakes([pc EXCEPT ![c] = m]), pc[c] \in Counted
    PROVE  /\ Cardinality(CountedCallers') = Cardinality(CountedCallers) - 1
           /\ Cardinality(CountedCallers) # 0
  <1>1. CountedCallers' = CountedCallers \ {c} /\ c \in CountedCallers
    BY DEF TypeOK, Wakes, CountedCallers, Counted
  <1>2. Cardinality(CountedCallers') = Cardinality(CountedCallers) - 1
    BY <1>1, CountedFinite, FS_RemoveElement
  <1>3. Cardinality(CountedCallers) # 0
    BY <1>1, CountedFinite, FS_EmptySet
  <1> QED
    BY <1>2, <1>3

\* The parts of TypeOK that do not involve the counter.
LEMMA TypeStep ==
    ASSUME TypeOK, LeaseInv, Next
    PROVE  /\ slot' \in BOOLEAN /\ shutting_down' \in BOOLEAN /\ aborted' \in BOOLEAN
           /\ workers' \in Seq(Workers)
           /\ pc' \in [Callers -> PcSet]
           /\ lease' \in [Callers -> Workers \cup {NoWorker}]
           /\ calls' \in [Callers -> 0..MaxCalls]
           /\ cleanup' \in CleanupSet
  <1> DEFINE Goal == /\ slot' \in BOOLEAN /\ shutting_down' \in BOOLEAN
                     /\ aborted' \in BOOLEAN
                     /\ workers' \in Seq(Workers)
                               /\ pc' \in [Callers -> PcSet]
                     /\ lease' \in [Callers -> Workers \cup {NoWorker}]
                     /\ calls' \in [Callers -> 0..MaxCalls]
                     /\ cleanup' \in CleanupSet
  <1> USE DEF TypeOK, PcSet, CleanupSet, Counted
  <1>1. ASSUME NEW c \in Callers, Lookup(c) \/ LookupFails(c) PROVE Goal
    <2>1. calls' \in [Callers -> 0..MaxCalls]
      BY <1>1, MaxCallsType DEF Lookup, LookupFails
    <2> QED
      BY <1>1, <2>1 DEF Lookup, LookupFails, Goto
  <1>2. ASSUME NEW c \in Callers,
               \/ CheckShutdown(c) \/ AddActive(c) \/ DoubleCheck(c)
               \/ TakeWaits(c)
               \/ DropActive(c) \/ SpuriousWake(c)
        PROVE  Goal
    BY <1>2 DEF CheckShutdown, AddActive, DoubleCheck, TakeWaits,
                DropActive, SpuriousWake, Goto
  <1>3. ASSUME NEW c \in Callers, RollbackNotify(c) \/ DropNotify(c) PROVE Goal
    <2>1. Wakes([pc EXCEPT ![c] = "out"])
      BY <1>3, NotifyAllWakes DEF RollbackNotify, DropNotify, Wakes
    <2> QED
      BY <1>3, <2>1 DEF RollbackNotify, DropNotify, Wakes
  <1>4. ASSUME NEW c \in Callers, Take(c) PROVE Goal
    BY <1>4 DEF Take, Goto, PopFront
  <1>5. ASSUME NEW c \in Callers, ReturnWorker(c) PROVE Goal
    <2>1. Wakes([pc EXCEPT ![c] = "drop"])
      BY <1>5, NotifyOneWakes DEF ReturnWorker, Wakes
    <2>2. lease[c] \in Workers
      BY <1>5 DEF ReturnWorker, LeaseInv
    <2>3. workers' \in Seq(Workers)
      BY <1>5, <2>2 DEF ReturnWorker
    <2> QED
      BY <1>5, <2>1, <2>3 DEF ReturnWorker, Wakes
  <1>6. ASSUME \/ Unregister \/ BeginShutdown \/ ShutdownNotify \/ IdleLoad
               \/ IdleWait \/ SpuriousIdle
        PROVE  Goal
    BY <1>6 DEF Unregister, BeginShutdown, ShutdownNotify, IdleLoad, IdleWait,
                SpuriousIdle
  <1> QED
    BY <1>1, <1>2, <1>3, <1>4, <1>5, <1>6 DEF Next, Step, CleanupStep

LEMMA ActiveStep ==
    ASSUME TypeOK, ActiveExact, Next
    PROVE  ActiveExact' /\ active_calls' \in Nat
  <1> DEFINE Kept == CountedCallers' = CountedCallers /\ active_calls' = active_calls
             Goal == ActiveExact' /\ active_calls' \in Nat
  <1>0. Kept => Goal
    BY DEF ActiveExact, CountedCallers, TypeOK
  <1> USE DEF PcSet, Counted
  <1>1. ASSUME NEW c \in Callers,
               \/ Lookup(c) \/ CheckShutdown(c) \/ Take(c)
               \/ TakeWaits(c) \/ SpuriousWake(c)
        PROVE  Goal
    BY <1>0, <1>1 DEF Lookup, CheckShutdown, Take, TakeWaits,
                      SpuriousWake, Goto, TypeOK, CountedCallers
  <1>2. ASSUME NEW c \in Callers, RollbackNotify(c) \/ DropNotify(c) PROVE Goal
    <2>1. Wakes([pc EXCEPT ![c] = "out"]) /\ pc[c] \notin Counted
      BY <1>2, NotifyAllWakes DEF RollbackNotify, DropNotify, Wakes, TypeOK
    <2> QED
      BY <1>0, <1>2, <2>1, CountKept DEF RollbackNotify, DropNotify
  <1>3. ASSUME NEW c \in Callers, ReturnWorker(c) PROVE Goal
    <2>1. Wakes([pc EXCEPT ![c] = "drop"])
      BY <1>3, NotifyOneWakes DEF ReturnWorker, Wakes, TypeOK
    <2>2. "drop" \in Counted /\ pc[c] \in Counted
      BY <1>3 DEF ReturnWorker
    <2> QED
      BY <1>0, <1>3, <2>1, <2>2, CountKept DEF ReturnWorker
  <1>4. ASSUME NEW c \in Callers, AddActive(c) PROVE Goal
    <2>1. Wakes([pc EXCEPT ![c] = "added"]) /\ pc[c] \notin Counted
      BY <1>4 DEF AddActive, Goto, Wakes, TypeOK
    <2>2. Cardinality(CountedCallers') = Cardinality(CountedCallers) + 1
      BY <2>1, CountGrows
    <2> QED
      BY <1>4, <2>2 DEF AddActive, ActiveExact, CountedCallers, TypeOK
  <1>5. ASSUME NEW c \in Callers, DoubleCheck(c) PROVE Goal
    <2>1. CASE shutting_down
      <3>1. Wakes([pc EXCEPT ![c] = "rolled"]) /\ pc[c] \in Counted
        BY <1>5, <2>1 DEF DoubleCheck, Goto, Wakes, TypeOK
      <3>2. /\ Cardinality(CountedCallers') = Cardinality(CountedCallers) - 1
            /\ Cardinality(CountedCallers) # 0
        BY <3>1, CountShrinks
      <3> QED
        BY <1>5, <2>1, <3>2 DEF DoubleCheck, ActiveExact, CountedCallers, TypeOK
    <2>2. CASE ~shutting_down
      <3>1. /\ Wakes([pc EXCEPT ![c] = "take"])
            /\ pc[c] \in Counted /\ "take" \in Counted
        BY <1>5, <2>2 DEF DoubleCheck, Goto, Wakes, TypeOK
      <3> QED
        BY <1>0, <1>5, <2>2, <3>1, CountKept DEF DoubleCheck
    <2> QED
      BY <2>1, <2>2
  <1>6. ASSUME NEW c \in Callers, DropActive(c) PROVE Goal
    <2>1. Wakes([pc EXCEPT ![c] = "dropped"]) /\ pc[c] \in Counted
      BY <1>6 DEF DropActive, Goto, Wakes, TypeOK
    <2>2. /\ Cardinality(CountedCallers') = Cardinality(CountedCallers) - 1
          /\ Cardinality(CountedCallers) # 0
      BY <2>1, CountShrinks
    <2> QED
      BY <1>6, <2>2 DEF DropActive, ActiveExact, CountedCallers, TypeOK
  <1>7. ASSUME \/ \E c \in Callers : LookupFails(c)
               \/ Unregister \/ BeginShutdown \/ IdleLoad \/ IdleWait
               \/ SpuriousIdle
        PROVE  Goal
    BY <1>0, <1>7 DEF LookupFails, Unregister, BeginShutdown, IdleLoad,
                      IdleWait, SpuriousIdle, CountedCallers
  <1>8. ASSUME ShutdownNotify PROVE Goal
    BY <1>0, <1>8 DEF ShutdownNotify, CountedCallers, TypeOK
  <1> QED
    BY <1>1, <1>2, <1>3, <1>4, <1>5, <1>6, <1>7, <1>8 DEF Next, Step, CleanupStep
-----------------------------------------------------------------------------
(***************************************************************************)
(* Workers are in one place.                                               *)
(***************************************************************************)
LEMMA PlaceStep ==
    ASSUME TypeOK, LeaseInv, PlaceInv, Next
    PROVE  LeaseInv' /\ PlaceInv'
  <1> DEFINE Goal == LeaseInv' /\ PlaceInv'
  <1> USE DEF TypeOK, PcSet, Counted
  <1>1. ASSUME NEW c \in Callers,
               \/ Lookup(c) \/ LookupFails(c) \/ CheckShutdown(c) \/ AddActive(c)
               \/ DoubleCheck(c) \/ TakeWaits(c)
               \/ DropActive(c) \/ SpuriousWake(c)
        PROVE  Goal
    BY <1>1 DEF Lookup, LookupFails, CheckShutdown, AddActive, DoubleCheck,
                TakeWaits, DropActive, SpuriousWake,
                Goto, LeaseInv, PlaceInv
  <1>2. ASSUME NEW c \in Callers, RollbackNotify(c) \/ DropNotify(c) PROVE Goal
    <2>1. Wakes([pc EXCEPT ![c] = "out"])
      BY <1>2, NotifyAllWakes DEF RollbackNotify, DropNotify, Wakes
    <2>2. UNCHANGED <<workers, lease>> /\ pc[c] # "run"
      BY <1>2 DEF RollbackNotify, DropNotify
    <2>3. LeaseInv'
      BY <2>1, <2>2 DEF Wakes, LeaseInv
    <2> QED
      BY <2>2, <2>3 DEF PlaceInv
  <1>3. ASSUME NEW c \in Callers, Take(c) PROVE Goal
    <2>0. Head(workers) \in Workers
      BY <1>3 DEF Take
    <2>1. LeaseInv'
      BY <1>3, <2>0, WorkersNumbered DEF Take, Goto, LeaseInv
    <2>2. /\ Len(workers') = Len(workers) - 1
          /\ \A i \in 1..Len(workers') : workers'[i] = workers[i + 1]
          /\ Head(workers) = workers[1] /\ Len(workers) \in Nat /\ Len(workers) >= 1
      BY <1>3 DEF Take, PopFront
    <2>3. PlaceInv'
      BY SMTT(30), <1>3, <2>2 DEF Take, PlaceInv
    <2> QED
      BY <2>1, <2>3
  <1>4. ASSUME NEW c \in Callers, ReturnWorker(c) PROVE Goal
    <2>1. Wakes([pc EXCEPT ![c] = "drop"])
      BY <1>4, NotifyOneWakes DEF ReturnWorker, Wakes
    <2>2. LeaseInv'
      BY <1>4, <2>1 DEF ReturnWorker, Wakes, LeaseInv
    <2>3. lease[c] # NoWorker
      BY <1>4 DEF ReturnWorker, LeaseInv
    <2>4. /\ Len(workers) \in Nat /\ Len(workers') = Len(workers) + 1
          /\ \A i \in 1..Len(workers) : workers'[i] = workers[i]
          /\ workers'[Len(workers) + 1] = lease[c]
      BY <1>4 DEF ReturnWorker
    <2>5. \A i \in 1..Len(workers) : workers[i] # NoWorker /\ workers[i] # lease[c]
      BY WorkersNumbered DEF PlaceInv
    <2>6. \A d \in Callers : lease'[d] = IF d = c THEN NoWorker ELSE lease[d]
      BY <1>4 DEF ReturnWorker
    <2>7. \A i, j \in 1..Len(workers') : workers'[i] = workers'[j] => i = j
      <3> SUFFICES ASSUME NEW i \in 1..Len(workers'), NEW j \in 1..Len(workers'),
                          workers'[i] = workers'[j]
                   PROVE  i = j
        OBVIOUS
      <3>1. \A k \in 1..Len(workers') : k \in 1..Len(workers) \/ k = Len(workers) + 1
        BY <2>4
      <3>2. CASE i \in 1..Len(workers) /\ j \in 1..Len(workers)
        BY <2>4, <3>2 DEF PlaceInv
      <3>3. CASE i = Len(workers) + 1 \/ j = Len(workers) + 1
        BY <2>4, <2>5, <3>1, <3>3
      <3> QED
        BY <3>1, <3>2, <3>3
    <2>8. \A i \in 1..Len(workers'), d \in Callers : workers'[i] # lease'[d]
      <3> SUFFICES ASSUME NEW i \in 1..Len(workers'), NEW d \in Callers
                   PROVE  workers'[i] # lease'[d]
        OBVIOUS
      <3>1. CASE i = Len(workers) + 1
        BY <2>3, <2>4, <2>6, <3>1 DEF PlaceInv
      <3>2. CASE i \in 1..Len(workers)
        BY <2>4, <2>5, <2>6, <3>2 DEF PlaceInv
      <3> QED
        BY <2>4, <3>1, <3>2
    <2>9. \A d, e \in Callers :
            lease'[d] = lease'[e] /\ lease'[d] # NoWorker => d = e
      BY <2>6 DEF PlaceInv
    <2> QED
      BY <2>2, <2>7, <2>8, <2>9 DEF PlaceInv
  <1>5. ASSUME \/ Unregister \/ BeginShutdown \/ ShutdownNotify \/ IdleLoad
               \/ IdleWait \/ SpuriousIdle
        PROVE  Goal
    BY ZenonT(60), <1>5 DEF Unregister, BeginShutdown, ShutdownNotify, IdleLoad, IdleWait,
                SpuriousIdle, LeaseInv, PlaceInv
  <1> QED
    BY <1>1, <1>2, <1>3, <1>4, <1>5 DEF Next, Step, CleanupStep
-----------------------------------------------------------------------------
(***************************************************************************)
(* The shutdown protocol.                                                  *)
(***************************************************************************)
\* When active_calls is 0 nobody is counted.
LEMMA ZeroMeansNone ==
    ASSUME ActiveExact, active_calls = 0
    PROVE  \A c \in Callers : pc[c] \notin Counted
  <1>1. CountedCallers = {}
    BY CountedFinite, FS_EmptySet DEF ActiveExact, CountedCallers
  <1> QED
    BY <1>1 DEF CountedCallers

LEMMA ShutdownStep ==
    ASSUME TypeOK, ActiveExact, ShutdownInv, Next
    PROVE  ShutdownInv'
  <1> USE DEF TypeOK, PcSet, Counted, Admitted, CleanupSet, ShutdownInv, IdleIsQuiet
  <1>1. ASSUME NEW c \in Callers,
               \/ Lookup(c) \/ LookupFails(c) \/ CheckShutdown(c) \/ AddActive(c)
               \/ DoubleCheck(c) \/ Take(c) \/ TakeWaits(c)
               \/ DropActive(c) \/ SpuriousWake(c)
        PROVE  ShutdownInv'
    BY <1>1 DEF Lookup, LookupFails, CheckShutdown, AddActive, DoubleCheck,
                Take, TakeWaits, DropActive,
                SpuriousWake, Goto
  <1>2. ASSUME NEW c \in Callers, RollbackNotify(c) \/ DropNotify(c)
        PROVE  ShutdownInv'
    <2>1. Wakes([pc EXCEPT ![c] = "out"])
      BY <1>2, NotifyAllWakes DEF RollbackNotify, DropNotify, Wakes
    <2> QED
      BY ZenonT(60), <1>2, <2>1 DEF RollbackNotify, DropNotify, Wakes
  <1>3. ASSUME NEW c \in Callers, ReturnWorker(c) PROVE ShutdownInv'
    <2>1. Wakes([pc EXCEPT ![c] = "drop"])
      BY <1>3, NotifyOneWakes DEF ReturnWorker, Wakes
    <2> QED
      BY <1>3, <2>1 DEF ReturnWorker, Wakes
  <1>4. ASSUME \/ Unregister \/ BeginShutdown \/ ShutdownNotify \/ IdleWait
               \/ SpuriousIdle
        PROVE  ShutdownInv'
    BY <1>4 DEF Unregister, BeginShutdown, ShutdownNotify, IdleWait, SpuriousIdle
  <1>5. ASSUME IdleLoad PROVE ShutdownInv'
    BY <1>5, ZeroMeansNone DEF IdleLoad
  <1> QED
    BY <1>1, <1>2, <1>3, <1>4, <1>5 DEF Next, Step, CleanupStep

LEMMA InvStep == Inv /\ [Next]_vars => Inv'
  <1> SUFFICES ASSUME Inv, [Next]_vars PROVE Inv'
    OBVIOUS
  <1>1. CASE Next
    <2>1. TypeOK'
      BY <1>1, TypeStep, ActiveStep DEF Inv, TypeOK
    <2> QED
      BY <1>1, <2>1, ActiveStep, PlaceStep, ShutdownStep DEF Inv
  <1>2. CASE UNCHANGED vars
    BY <1>2 DEF vars, Inv, TypeOK, ActiveExact, LeaseInv, PlaceInv,
                ShutdownInv, IdleIsQuiet
  <1> QED
    BY <1>1, <1>2

LEMMA InvAlways == Spec => []Inv
  BY InitInv, InvStep, PTL DEF Spec
-----------------------------------------------------------------------------
\* The pool's state keeps its type; active_calls never wraps.
THEOREM PoolTypeCorrect == Spec => []TypeOK
  <1>1. Inv => TypeOK
    BY DEF Inv
  <1> QED
    BY <1>1, InvAlways, PTL

\* active_calls counts the calls between ActiveCallGuard::new and its drop,
\* whatever interleaving of submissions, rejections and cleanup.
THEOREM ActiveCorrect == Spec => []ActiveExact
  <1>1. Inv => ActiveExact
    BY DEF Inv
  <1> QED
    BY <1>1, InvAlways, PTL

\* When wait_for_idle has returned, no call is in the grate and none gets in.
THEOREM IdleQuiet == Spec => []IdleIsQuiet
  <1>1. Inv => IdleIsQuiet
    BY DEF Inv, ShutdownInv
  <1> QED
    BY <1>1, InvAlways, PTL

LEMMA MulMonotone ==
    ASSUME NEW a \in Nat, NEW b \in Nat, NEW k \in Nat, a <= b
    PROVE  a * k <= b * k
  <1>1. PICK d \in Nat : b = a + d
    BY b - a \in Nat
  <1>2. b * k = a * k + d * k /\ d * k >= 0
    BY <1>1
  <1> QED
    BY <1>2

\* Distinct workers have disjoint slots, inside the arena.
LEMMA SlotsApart ==
    ASSUME NEW v \in Workers, NEW w \in Workers, v < w
    PROVE  StackTop(v) <= StackBase(w)
  <1> DEFINE K == GRATE_STACK_GUARD_SIZE + GRATE_STACK_SLOT_SIZE
  <1>1. v \in Nat /\ w - 1 \in Nat /\ v <= w - 1 /\ v - 1 \in Nat /\ K \in Nat
    BY WorkerCountType, StackAssumption DEF Workers
  <1>2. v * K <= (w - 1) * K
    BY <1>1, MulMonotone
  <1>3. v * K = (v - 1) * K + K
    BY <1>1
  <1> QED
    BY <1>1, <1>2, <1>3, StackAssumption DEF StackTop, StackBase

LEMMA SlotInArena ==
    ASSUME NEW w \in Workers
    PROVE  /\ StackBase(w) >= STACK_ARENA_BASE + GRATE_STACK_GUARD_SIZE
           /\ StackTop(w) <= STACK_ARENA_BASE + MAX_GRATE_WORKERS
                 * (GRATE_STACK_GUARD_SIZE + GRATE_STACK_SLOT_SIZE)
  <1> DEFINE K == GRATE_STACK_GUARD_SIZE + GRATE_STACK_SLOT_SIZE
  <1>1. /\ w \in Nat /\ w - 1 \in Nat /\ K \in Nat
        /\ MAX_GRATE_WORKERS \in Nat /\ w <= MAX_GRATE_WORKERS
    BY WorkerCountType, StackAssumption, PoolAssumption DEF Workers
  <1>2. w * K <= MAX_GRATE_WORKERS * K
    BY <1>1, MulMonotone
  <1>3. w * K = (w - 1) * K + K /\ (w - 1) * K >= 0
    BY <1>1
  <1> QED
    BY <1>1, <1>2, <1>3, StackAssumption DEF StackTop, StackBase

\* Grate functions that run together run on disjoint stacks inside the arena.
THEOREM StacksCorrect == Spec => []StacksDisjoint
  <1>1. Inv => StacksDisjoint
    <2> SUFFICES ASSUME Inv PROVE StacksDisjoint
      OBVIOUS
    <2>1. \A c \in Callers : pc[c] = "run" => lease[c] \in Workers
      BY DEF Inv, TypeOK, LeaseInv
    <2>2. ASSUME NEW c \in Callers, NEW d \in Callers, c # d,
                 pc[c] = "run", pc[d] = "run"
          PROVE  \/ StackTop(lease[c]) <= StackBase(lease[d])
                 \/ StackTop(lease[d]) <= StackBase(lease[c])
      <3>1. lease[c] # lease[d]
        BY <2>2 DEF Inv, LeaseInv, PlaceInv
      <3>2. lease[c] < lease[d] \/ lease[d] < lease[c]
        BY <2>1, <2>2, <3>1, WorkerCountType DEF Workers
      <3> QED
        BY <2>1, <2>2, <3>2, SlotsApart
    <2> QED
      BY <2>1, <2>2, SlotInArena DEF StacksDisjoint
  <1> QED
    BY <1>1, InvAlways, PTL
-----------------------------------------------------------------------------
(***************************************************************************)
(* The pool implements GrateService.                                       *)
(***************************************************************************)
PhaseOf == [c \in Callers |-> Phase(pc[c])]

\* A wake-up of others moves no phase but that of the notifying caller.
LEMMA WakesPhase ==
    ASSUME TypeOK, NEW c \in Callers, NEW m \in PcSet \ {"waiting"},
           Wakes([pc EXCEPT ![c] = m])
    PROVE  PhaseOf' = [PhaseOf EXCEPT ![c] = Phase(m)]
  <1>1. \A d \in Callers : Phase(pc'[d]) = IF d = c THEN Phase(m) ELSE Phase(pc[d])
    BY DEF TypeOK, Wakes, Phase
  <1> QED
    BY <1>1 DEF PhaseOf

LEMMA InitService == Init => Service!Init
  BY DEF Init, Service!Init, Phase, NoWorker

LEMMA ServiceStep ==
    ASSUME Inv, Next
    PROVE  [Service!Next]_(Service!vars)
  <1> DEFINE Goal == Service!Next \/ UNCHANGED Service!vars
  <1> USE DEF Inv, TypeOK, PcSet, Counted
  <1>1. ASSUME NEW c \in Callers,
               \/ Lookup(c) \/ CheckShutdown(c) \/ AddActive(c)
               \/ TakeWaits(c)
               \/ SpuriousWake(c)
        PROVE  Goal
    BY <1>1 DEF Lookup, CheckShutdown, AddActive, TakeWaits,
                SpuriousWake, Goto, Service!vars, Phase
  <1>2. ASSUME NEW c \in Callers, LookupFails(c) PROVE Goal
    BY <1>2 DEF LookupFails, Service!vars
  <1>3. ASSUME NEW c \in Callers, DoubleCheck(c) PROVE Goal
    <2>1. CASE shutting_down
      BY <1>3, <2>1 DEF DoubleCheck, Goto, Service!vars, Phase
    <2>2. CASE ~shutting_down
      <3>1. Service!Admit(c)
        BY <1>3, <2>2 DEF DoubleCheck, Goto, Service!Admit, Phase
      <3> QED
        BY <3>1 DEF Service!Next
    <2> QED
      BY <2>1, <2>2
  <1>4. ASSUME NEW c \in Callers, RollbackNotify(c) \/ DropNotify(c) PROVE Goal
    <2>1. Wakes([pc EXCEPT ![c] = "out"])
      BY <1>4, NotifyAllWakes DEF RollbackNotify, DropNotify, Wakes
    <2>2. PhaseOf' = PhaseOf
      <3>1. Phase(pc[c]) = "outside" /\ Phase("out") = "outside"
        BY <1>4 DEF RollbackNotify, DropNotify, Phase
      <3>2. PhaseOf' = [PhaseOf EXCEPT ![c] = "outside"]
        BY <2>1, <3>1, WakesPhase
      <3> QED
        BY <3>1, <3>2 DEF PhaseOf
    <2>3. (cleanup = "idle")' <=> cleanup = "idle"
      BY <2>1 DEF Wakes
    <2> QED
      BY <1>4, <2>2, <2>3 DEF RollbackNotify, DropNotify, PhaseOf, Service!vars
  <1>5. ASSUME NEW c \in Callers, Take(c) PROVE Goal
    <2>1. Head(workers) \in Workers /\ Head(workers) = workers[1] /\ 1 \in 1..Len(workers)
      BY <1>5 DEF Take
    <2>2. Head(workers) \in Service!Idle
      BY <2>1 DEF PlaceInv, Service!Idle
    <2>4. Service!Start(c, Head(workers))
      BY <1>5, <2>2 DEF Take, Goto, Service!Start, Phase
    <2> QED
      BY <2>1, <2>4 DEF Service!Next
  <1>6. ASSUME NEW c \in Callers, ReturnWorker(c) PROVE Goal
    <2>1. Wakes([pc EXCEPT ![c] = "drop"])
      BY <1>6, NotifyOneWakes DEF ReturnWorker, Wakes
    <2>2. PhaseOf' = [PhaseOf EXCEPT ![c] = "leaving"]
      BY <2>1, WakesPhase DEF Phase
    <2>3. (cleanup = "idle")' <=> cleanup = "idle"
      BY <2>1 DEF Wakes
    <2>4. Service!Finish(c)
      BY <1>6, <2>2, <2>3 DEF ReturnWorker, PhaseOf, Phase, Service!Finish
    <2> QED
      BY <2>4 DEF Service!Next
  <1>7. ASSUME NEW c \in Callers, DropActive(c) PROVE Goal
    <2>1. Service!Leave(c)
      BY <1>7 DEF DropActive, Goto, Service!Leave, Phase
    <2> QED
      BY <2>1 DEF Service!Next
  <1>8. ASSUME Unregister \/ IdleWait \/ SpuriousIdle PROVE Goal
    BY <1>8 DEF Unregister, IdleWait, SpuriousIdle, Service!vars
  <1>9. ASSUME ShutdownNotify PROVE Goal
    <2>1. PhaseOf' = PhaseOf
      BY <1>9 DEF ShutdownNotify, PhaseOf, Phase
    <2> QED
      BY <1>9, <2>1 DEF ShutdownNotify, PhaseOf, Service!vars
  <1>10. ASSUME BeginShutdown PROVE Goal
    BY <1>10 DEF BeginShutdown, Service!Close, Service!Next, Service!vars
  <1>11. ASSUME IdleLoad PROVE Goal
    <2>1. CASE active_calls = 0
      <3>1. \A c \in Callers : Phase(pc[c]) = "outside"
        BY <2>1, ZeroMeansNone DEF Phase
      <3>2. shutting_down
        BY <1>11 DEF IdleLoad, ShutdownInv, CleanupSet
      <3>3. Service!Drain
        BY <1>11, <2>1, <3>1, <3>2 DEF IdleLoad, Service!Drain
      <3> QED
        BY <3>3 DEF Service!Next
    <2>2. CASE active_calls # 0
      BY <1>11, <2>2 DEF IdleLoad, Service!vars
    <2> QED
      BY <2>1, <2>2
  <1>12. Goal
    BY <1>1, <1>2, <1>3, <1>4, <1>5, <1>6, <1>7, <1>8, <1>9, <1>10, <1>11
    DEF Next, Step, CleanupStep
  <1> QED
    BY <1>12

\* The pool implements the service for any callers and pool size: calls
\* are admitted only while open, a worker serves one call at a time, and the
\* handler is reported idle only when every call is outside.
THEOREM PoolImplementsService == Spec => ServiceSpec
  <1>1. Inv /\ [Next]_vars => [Service!Next]_(Service!vars)
    <2> SUFFICES ASSUME Inv, [Next]_vars PROVE [Service!Next]_(Service!vars)
      OBVIOUS
    <2>1. CASE Next
      BY <2>1, ServiceStep
    <2>2. CASE UNCHANGED vars
      BY <2>2 DEF vars, Service!vars
    <2> QED
      BY <2>1, <2>2
  <1> QED
    BY <1>1, InitService, InvAlways, PTL DEF Spec, ServiceSpec, Service!Spec
=============================================================================
