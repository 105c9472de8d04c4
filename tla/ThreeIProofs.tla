---------------------------- MODULE ThreeIProofs ----------------------------
(***************************************************************************)
(* Proofs about ThreeI, for every number of cages, threads and nesting     *)
(* levels and every set of guest requests.                                 *)
(***************************************************************************)
EXTENDS ThreeI, FiniteSetTheorems, TLAPS

USE DEF tableVars, cageVars, threadVars, callVars

CallKeys == Threads \X Levels

(***************************************************************************)
(* Layer 1: types, the shape of the stacks, and started threads.           *)
(***************************************************************************)
InGrate == {"borrow", "inc", "chk", "run", "freed"}

\* Only the top call of a thread is at work: those below wait inside a grate
\* function, those above do not exist.
StackAt(t, i) ==
    /\ i < depth[t] => frame[<<t, i>>].pc = "run"
    /\ i > depth[t] => frame[<<t, i>>].pc = "none"
    /\ frame[<<t, i>>].pc \in InGrate => frame[<<t, i>>].dest \in Cages
    /\ frame[<<t, i>>].pc = "copytable" => birth[t] # 0
StackInv == \A t \in Threads, i \in Levels : StackAt(t, i)

\* A started thread has a cage, and a thread with calls in progress has not
\* begun its teardown.
StepInv == \A t \in Threads :
              /\ step[t] # "none" => home[t] # 0
              /\ depth[t] > 0 => step[t] \in {"run", "unwind", "panicked"}

TypeInv == TypeOK /\ StackInv /\ StepInv

LEMMA Constants ==
    /\ INIT_CAGEID \in Cages
    /\ RAWPOSIX_CAGEID \in Dests /\ THREEI_CAGEID \in Dests
    /\ RAWPOSIX_CAGEID \notin Cages /\ THREEI_CAGEID \notin Cages
    /\ Cages \subseteq Dests
    /\ Plain \in Request /\ NoFrame \in Frame
BY ConstantsAssumption
   DEF INIT_CAGEID, RAWPOSIX_CAGEID, THREEI_CAGEID, MAX_CAGEID, Cages,
       Dests, Plain, Basic, Request, Ops, CallNums, NoFrame, Frame, Pcs

\* Every action of a thread that touches a call works on its top frame.
LEMMA TopFrame ==
    ASSUME TypeOK, NEW t \in Threads, depth[t] > 0
    PROVE  /\ <<t, depth[t]>> \in Threads \X Levels
           /\ Top(t) \in Frame
BY ConstantsAssumption DEF TypeOK, Top, Levels

LEMMA TopCall ==
    ASSUME TypeInv, NEW t \in Threads, depth[t] > 0
    PROVE  /\ Top(t) \in Frame
           /\ Top(t).pc \in InGrate => Top(t).dest \in Cages
           /\ Top(t).pc = "copytable" => birth[t] # 0
BY TopFrame DEF TypeInv, StackInv, StackAt, Top

\* What Goto, Return and Push do to the calls in progress.
CallsInv == /\ depth \in [Threads -> 0..MaxDepth]
            /\ frame \in [Threads \X Levels -> Frame]
            /\ StackInv

LEMMA GotoCalls ==
    ASSUME TypeInv, NEW t \in Threads, depth[t] > 0, NEW pc \in Pcs \ {"none"},
           pc \in InGrate => Top(t).dest \in Cages,
           pc = "copytable" => birth'[t] # 0,
           \A u \in Threads : birth[u] # 0 => birth'[u] # 0,
           Goto(t, pc)
    PROVE  CallsInv' /\ UNCHANGED depth
<1>1. <<t, depth[t]>> \in Threads \X Levels /\ Top(t) \in Frame
  BY TopFrame DEF TypeInv
<1>2. /\ depth' \in [Threads -> 0..MaxDepth]
      /\ frame' \in [Threads \X Levels -> Frame]
      /\ UNCHANGED depth
  BY <1>1 DEF TypeInv, TypeOK, Goto, Top, Frame
<1>3. ASSUME NEW u \in Threads, NEW i \in Levels PROVE StackAt(u, i)'
  <2>1. StackAt(u, i)
    BY DEF TypeInv, StackInv
  <2>2. i \in Int /\ depth[t] \in Int
    BY <1>1, ConstantsAssumption DEF TypeInv, TypeOK, Levels
  <2>3. CASE <<u, i>> = <<t, depth[t]>>
    <3>1. frame'[<<u, i>>] = [Top(t) EXCEPT !.pc = pc]
      BY <1>1, <2>3 DEF TypeInv, TypeOK, Goto, Top
    <3>2. frame'[<<u, i>>].pc = pc /\ frame'[<<u, i>>].dest = Top(t).dest
      BY <1>1, <3>1 DEF Frame
    <3> QED BY <1>2, <2>2, <2>3, <3>2 DEF StackAt
  <2>4. CASE <<u, i>> # <<t, depth[t]>>
    <3>1. frame'[<<u, i>>] = frame[<<u, i>>]
      BY <2>4 DEF TypeInv, TypeOK, Goto
    <3> QED BY <1>2, <2>1, <3>1 DEF StackAt
  <2> QED BY <2>3, <2>4
<1>4. StackInv'
  BY <1>3 DEF StackInv
<1> QED BY <1>2, <1>4 DEF CallsInv

LEMMA ReturnCalls ==
    ASSUME TypeInv, NEW t \in Threads, depth[t] > 0,
           \A u \in Threads : birth[u] # 0 => birth'[u] # 0,
           Return(t)
    PROVE  CallsInv' /\ (\A u \in Threads : depth'[u] =< depth[u])
<1>1. <<t, depth[t]>> \in Threads \X Levels /\ Top(t) \in Frame
  BY TopFrame DEF TypeInv
<1>2. /\ depth' \in [Threads -> 0..MaxDepth]
      /\ frame' \in [Threads \X Levels -> Frame]
      /\ \A u \in Threads : depth'[u] =< depth[u]
  BY <1>1, Constants, ConstantsAssumption DEF TypeInv, TypeOK, Return, Top
<1>3. ASSUME NEW u \in Threads, NEW i \in Levels PROVE StackAt(u, i)'
  <2>1. StackAt(u, i)
    BY DEF TypeInv, StackInv
  <2>2. i \in Int /\ depth[t] \in Int /\ depth[u] \in Int
    BY <1>1, ConstantsAssumption DEF TypeInv, TypeOK, Levels
  <2>3. CASE <<u, i>> = <<t, depth[t]>>
    <3>1. frame'[<<u, i>>] = NoFrame /\ depth'[u] = i - 1
      BY <1>1, <2>3 DEF TypeInv, TypeOK, Return
    <3> QED BY <2>2, <3>1 DEF StackAt, NoFrame, InGrate
  <2>4. CASE <<u, i>> # <<t, depth[t]>>
    <3>1. /\ frame'[<<u, i>>] = frame[<<u, i>>]
          /\ depth'[u] = IF u = t THEN depth[t] - 1 ELSE depth[u]
      BY <2>4 DEF TypeInv, TypeOK, Return
    <3> QED BY <2>1, <2>2, <2>4, <3>1 DEF StackAt
  <2> QED BY <2>3, <2>4
<1>4. StackInv'
  BY <1>3 DEF StackInv
<1> QED BY <1>2, <1>4 DEF CallsInv

LEMMA PushType ==
    ASSUME TypeInv, NEW t \in Threads, NEW c \in Cages, NEW r \in Request,
           NEW d \in Cages, Push(t, c, r, d),
           step[t] \in {"run", "unwind", "panicked"},
           depth[t] > 0 => Top(t).pc = "run"
    PROVE  TypeInv'
<1>1. TypeOK'
  BY Constants, ConstantsAssumption DEF TypeInv, TypeOK, Push, Frame, Pcs, Levels
<1>2. ASSUME NEW u \in Threads, NEW i \in Levels PROVE StackAt(u, i)'
  <2>1. StackAt(u, i) /\ birth'[u] = birth[u]
    BY DEF TypeInv, StackInv, Push
  <2>2. i \in Int /\ depth[t] \in Int /\ depth[u] \in Int /\ 0 < i
    BY ConstantsAssumption DEF TypeInv, TypeOK, Levels
  <2>3. depth'[u] = IF u = t THEN depth[t] + 1 ELSE depth[u]
    BY DEF TypeInv, TypeOK, Push
  <2>4. CASE <<u, i>> = <<t, depth[t] + 1>>
    <3>1. frame'[<<u, i>>].pc = "check"
      BY <2>4 DEF TypeInv, TypeOK, Push
    <3> QED BY <2>2, <2>3, <2>4, <3>1 DEF StackAt, InGrate
  <2>5. CASE <<u, i>> # <<t, depth[t] + 1>>
    <3>1. frame'[<<u, i>>] = frame[<<u, i>>]
      BY <2>5 DEF TypeInv, TypeOK, Push
    <3>2. u = t /\ i = depth[t] => frame[<<u, i>>].pc = "run"
      BY <2>2 DEF Top
    <3> QED BY <2>1, <2>2, <2>3, <2>5, <3>1, <3>2 DEF StackAt
  <2> QED BY <2>4, <2>5
<1>4. StackInv'
  BY <1>2 DEF StackInv
<1>3. StepInv'
  BY DEF TypeInv, TypeOK, Push, StepInv
<1> QED BY <1>1, <1>4, <1>3 DEF TypeInv

\* A step that only moves or ends the top call.
LEMMA CallOnly ==
    ASSUME TypeInv, CallsInv', \A u \in Threads : depth'[u] =< depth[u],
           UNCHANGED <<tableVars, cageVars, threadVars>>
    PROVE  TypeInv'
<1>1. TypeOK'
  BY DEF TypeInv, TypeOK, CallsInv
<1>2. StepInv'
  BY DEF TypeInv, TypeOK, StepInv, CallsInv
<1> QED BY <1>1, <1>2 DEF TypeInv, CallsInv

\* A step in which the thread of the call panics.
LEMMA PanicType ==
    ASSUME TypeInv, NEW t \in Threads, depth[t] > 0, Panic(t),
           UNCHANGED <<home, birth>>
    PROVE  CallsInv' /\ StepInv' /\ step' \in [Threads -> Steps]
<1>1. step' \in [Threads -> Steps]
  BY DEF TypeInv, TypeOK, Panic, Steps
<1>2. CallsInv'
  BY DEF TypeInv, TypeOK, StackInv, StackAt, CallsInv, Panic
<1>3. StepInv'
  BY DEF TypeInv, TypeOK, StepInv, Panic
<1> QED BY <1>1, <1>2, <1>3

\* make_syscall stores the destination it found and goes on.
LEMMA LookupCalls ==
    ASSUME TypeInv, NEW t \in Threads, LookupFound(t)
    PROVE  CallsInv' /\ UNCHANGED depth
<1>1. /\ <<t, depth[t]>> \in Threads \X Levels
      /\ Top(t) \in Frame
      /\ depth[t] > 0
  BY TopFrame DEF TypeInv, LookupFound, At
<1>2. PICK d \in Dests :
         /\ frame' = [frame EXCEPT ![<<t, depth[t]>>] =
                         [@ EXCEPT !.dest = d, !.pc = PcFor(d)]]
         /\ UNCHANGED <<depth, birth>>
  BY DEF LookupFound, Handlers
<1>3. /\ PcFor(d) \in Pcs \ {"none", "copytable"}
      /\ PcFor(d) \in InGrate => d \in Cages
  BY DEF PcFor, Pcs, InGrate, Dests
<1>4. frame' \in [Threads \X Levels -> Frame]
  BY <1>1, <1>2, <1>3 DEF TypeInv, TypeOK, Frame, Top
<1>5. ASSUME NEW u \in Threads, NEW i \in Levels PROVE StackAt(u, i)'
  <2>1. StackAt(u, i)
    BY DEF TypeInv, StackInv
  <2>2. i \in Int /\ depth[t] \in Int
    BY <1>1, ConstantsAssumption DEF TypeInv, TypeOK, Levels
  <2>3. CASE <<u, i>> = <<t, depth[t]>>
    <3>1. frame'[<<u, i>>].pc = PcFor(d) /\ frame'[<<u, i>>].dest = d
      BY <1>1, <1>2, <2>3 DEF TypeInv, TypeOK, Frame, Top
    <3> QED BY <1>2, <1>3, <2>2, <2>3, <3>1 DEF StackAt
  <2>4. CASE <<u, i>> # <<t, depth[t]>>
    <3>1. frame'[<<u, i>>] = frame[<<u, i>>]
      BY <1>2, <2>4 DEF TypeInv, TypeOK
    <3> QED BY <1>2, <2>1, <3>1 DEF StackAt
  <2> QED BY <2>3, <2>4
<1> QED BY <1>2, <1>4, <1>5 DEF CallsInv, StackInv, TypeInv, TypeOK

LEMMA TypeDispatch ==
    ASSUME TypeInv, NEW t \in Threads, Dispatch(t)
    PROVE  TypeInv'
<1> depth \in [Threads -> 0..MaxDepth] BY DEF TypeInv, TypeOK
<1>1. CASE Check(t)
  <2>1. CallsInv' /\ \A u \in Threads : depth'[u] =< depth[u]
    BY <1>1, GotoCalls, ReturnCalls DEF Check, At, Pcs, InGrate
  <2> QED BY <1>1, <2>1, CallOnly DEF Check
<1>2. CASE Recheck(t)
  <2>1. CallsInv' /\ \A u \in Threads : depth'[u] =< depth[u]
    BY <1>2, GotoCalls, ReturnCalls DEF Recheck, At, Pcs, InGrate
  <2> QED BY <1>2, <2>1, CallOnly DEF Recheck
<1>3. CASE Borrow(t)
  <2>1. CallsInv' /\ \A u \in Threads : depth'[u] =< depth[u]
    BY <1>3, GotoCalls, ReturnCalls, TopCall DEF Borrow, At, Pcs, InGrate
  <2> QED BY <1>3, <2>1, CallOnly DEF Borrow
<1>4. CASE LookupFound(t)
  <2>1. CallsInv' /\ \A u \in Threads : depth'[u] =< depth[u]
    BY <1>4, LookupCalls
  <2> QED BY <1>4, <2>1, CallOnly DEF LookupFound
<1>5. CASE LookupFails(t)
  <2>1. CallsInv' /\ StepInv' /\ step' \in [Threads -> Steps]
    BY <1>5, PanicType DEF LookupFails, At
  <2>2. TypeOK'
    BY <1>5, <2>1 DEF LookupFails, TypeInv, TypeOK, CallsInv
  <2> QED BY <2>1, <2>2 DEF TypeInv, CallsInv
<1>6. CASE AddInflight(t)
  <2>1. CallsInv' /\ UNCHANGED depth
    BY <1>6, GotoCalls, TopCall DEF AddInflight, At, Pcs, InGrate
  <2>2. TypeOK'
    BY <1>6, <2>1 DEF AddInflight, TypeInv, TypeOK, CallsInv
  <2>3. StepInv'
    BY <1>6, <2>1 DEF AddInflight, TypeInv, StepInv
  <2> QED BY <2>1, <2>2, <2>3 DEF TypeInv, CallsInv
<1>7. CASE CheckDead(t)
  <2>1. CASE Panic(t) /\ UNCHANGED inflight
    <3>1. CallsInv' /\ StepInv' /\ step' \in [Threads -> Steps]
      BY <1>7, <2>1, PanicType DEF CheckDead, At
    <3>2. TypeOK'
      BY <1>7, <2>1, <3>1 DEF CheckDead, TypeInv, TypeOK, CallsInv
    <3> QED BY <3>1, <3>2 DEF TypeInv, CallsInv
  <2>2. CASE /\ UNCHANGED step
             /\ Goto(t, "freed") \/ Goto(t, "run") \/ Return(t)
             /\ UNCHANGED inflight \/ Release(Top(t).dest)
    <3>1. CallsInv' /\ \A u \in Threads : depth'[u] =< depth[u]
      BY <1>7, <2>2, GotoCalls, ReturnCalls, TopCall DEF CheckDead, At, Pcs, InGrate
    <3>2. inflight' \in [Cages -> Int]
      BY <2>2 DEF TypeInv, TypeOK, Release
    <3>3. TypeOK'
      BY <1>7, <2>2, <3>1, <3>2 DEF CheckDead, TypeInv, TypeOK, CallsInv
    <3>4. StepInv'
      BY <1>7, <2>2, <3>1 DEF CheckDead, TypeInv, TypeOK, StepInv, CallsInv
    <3> QED BY <3>1, <3>3, <3>4 DEF TypeInv, CallsInv
  <2> QED BY <1>7, <2>1, <2>2 DEF CheckDead
<1> QED BY <1>1, <1>2, <1>3, <1>4, <1>5, <1>6, <1>7 DEF Dispatch

LEMMA TypeGuest ==
    ASSUME TypeInv, NEW t \in Threads, Guest(t)
    PROVE  TypeInv'
<1> depth \in [Threads -> 0..MaxDepth] BY DEF TypeInv, TypeOK
<1>1. CASE CageCall(t)
  <2>1. home[t] \in Cages
    BY <1>1 DEF CageCall, TypeInv, TypeOK, StepInv
  <2>2. PICK r \in Requests : Push(t, home[t], r, home[t])
    BY <1>1 DEF CageCall
  <2> QED BY <1>1, <2>1, <2>2, PushType, ConstantsAssumption DEF CageCall
<1>2. CASE GrateForwards(t)
  <2>1. /\ Top(t).dest \in Cages /\ Top(t).req \in Request
        /\ Top(t).target \in Cages
    BY <1>2, TopCall DEF GrateForwards, At, InGrate, Frame
  <2> QED BY <1>2, <2>1, PushType DEF GrateForwards, At
<1>3. CASE GrateCall(t)
  <2>1. Top(t).dest \in Cages
    BY <1>3, TopCall DEF GrateCall, At, InGrate
  <2>2. PICK r \in Requests : Push(t, Top(t).dest, r, Top(t).dest)
    BY <1>3 DEF GrateCall
  <2>3. step[t] \in {"run", "unwind", "panicked"}
    BY <1>3 DEF GrateCall, At, TypeInv, StepInv
  <2> QED BY <1>3, <2>1, <2>2, <2>3, PushType, ConstantsAssumption DEF GrateCall, At
<1>4. CASE GrateReturns(t)
  <2>1. CallsInv' /\ \A u \in Threads : depth'[u] =< depth[u]
    BY <1>4, ReturnCalls DEF GrateReturns, At
  <2>2. TypeOK'
    BY <1>4, <2>1 DEF GrateReturns, Release, TypeInv, TypeOK, CallsInv
  <2>3. StepInv'
    BY <1>4, <2>1 DEF GrateReturns, TypeInv, TypeOK, StepInv, CallsInv
  <2> QED BY <2>1, <2>2, <2>3 DEF TypeInv, CallsInv
<1> QED BY <1>1, <1>2, <1>3, <1>4 DEF Guest

\* The table operations keep the table's shape.
LEMMA TableType ==
    ASSUME TypeOK,
           \/ UNCHANGED <<slots, route>>
           \/ \E r \in Request :
                 RegisterImpl(r.targetcage, r.targetcallnum, r.handlefunccage)
           \/ \E src, dst \in Cages : CopyTable(src, dst)
    PROVE  /\ slots' \subseteq Cages \X CallNums
           /\ route' \subseteq Cages \X CallNums \X Dests
<1>1. ASSUME NEW r \in Request,
             RegisterImpl(r.targetcage, r.targetcallnum, r.handlefunccage)
      PROVE  /\ slots' \subseteq Cages \X CallNums
             /\ route' \subseteq Cages \X CallNums \X Dests
  BY <1>1, Constants DEF TypeOK, RegisterImpl, Cleared, Request
<1>2. ASSUME NEW src \in Cages, NEW dst \in Cages, CopyTable(src, dst)
      PROVE  /\ slots' \subseteq Cages \X CallNums
             /\ route' \subseteq Cages \X CallNums \X Dests
  <2>1. CASE UNCHANGED <<slots, route>>
    BY <2>1 DEF TypeOK
  <2>2. CASE ~UNCHANGED <<slots, route>>
    <3>1. slots' = {s \in slots : s[1] # dst}
                   \cup {<<dst, n>> : n \in {m \in CallNums : <<src, m>> \in slots}}
      BY <1>2, <2>2 DEF CopyTable
    <3>2. route' = {e \in route : e[1] # dst}
                   \cup {<<dst, e[2], e[3]>> : e \in {x \in route : x[1] = src}}
      BY <1>2, <2>2 DEF CopyTable
    <3>3. \A e \in route : e[2] \in CallNums /\ e[3] \in Dests
      BY DEF TypeOK
    <3>4. slots' \subseteq Cages \X CallNums
      <4>1. \A n \in CallNums : <<dst, n>> \in Cages \X CallNums
        OBVIOUS
      <4>2. {s \in slots : s[1] # dst} \subseteq Cages \X CallNums
        BY DEF TypeOK
      <4> QED BY <3>1, <4>1, <4>2
    <3>5. route' \subseteq Cages \X CallNums \X Dests
      BY <3>2, <3>3 DEF TypeOK
    <3> QED BY <3>4, <3>5
  <2> QED BY <2>1, <2>2
<1> QED BY <1>1, <1>2 DEF TypeOK

LEMMA TypeHandler ==
    ASSUME TypeInv, NEW t \in Threads, Handler(t)
    PROVE  TypeInv'
<1> depth \in [Threads -> 0..MaxDepth] BY DEF TypeInv, TypeOK
<1>1. CASE RegisterCheck(t)
  <2>1. CallsInv' /\ \A u \in Threads : depth'[u] =< depth[u]
    BY <1>1, GotoCalls, ReturnCalls DEF RegisterCheck, At, Pcs, InGrate
  <2> QED BY <1>1, <2>1, CallOnly DEF RegisterCheck
<1>2. CASE RegisterApply(t)
  <2>0. Top(t).req \in Request
    BY <1>2, TopCall DEF RegisterApply, At, Frame
  <2>1. CASE Panic(t)
    <3>1. CallsInv' /\ StepInv' /\ step' \in [Threads -> Steps]
      BY <1>2, <2>1, PanicType DEF RegisterApply, At
    <3> QED BY <1>2, <2>0, <3>1, TableType DEF RegisterApply, TypeInv, TypeOK, CallsInv
  <2>2. CASE ~Panic(t)
    <3>1. CallsInv' /\ \A u \in Threads : depth'[u] =< depth[u]
      BY <1>2, <2>2, ReturnCalls DEF RegisterApply, At
    <3>2. TypeOK'
      BY <1>2, <2>0, <2>2, <3>1, TableType DEF RegisterApply, TypeInv, TypeOK, CallsInv
    <3>3. StepInv'
      BY <1>2, <2>2, <3>1 DEF RegisterApply, TypeInv, TypeOK, StepInv, CallsInv
    <3> QED BY <3>1, <3>2, <3>3 DEF TypeInv, CallsInv
  <2> QED BY <2>1, <2>2
<1>3. CASE RawPlain(t)
  <2>1. CASE Panic(t)
    <3>1. CallsInv' /\ StepInv' /\ step' \in [Threads -> Steps]
      BY <1>3, <2>1, PanicType DEF RawPlain, RawAt, At
    <3>2. TypeOK'
      BY <1>3, <3>1 DEF RawPlain, TypeInv, TypeOK, CallsInv
    <3> QED BY <3>1, <3>2 DEF TypeInv, CallsInv
  <2>2. CASE ~Panic(t)
    <3>1. CallsInv' /\ \A u \in Threads : depth'[u] =< depth[u]
      BY <1>3, <2>2, GotoCalls, ReturnCalls DEF RawPlain, RawAt, At, Pcs, InGrate
    <3>2. TypeOK'
      BY <1>3, <2>2, <3>1 DEF RawPlain, RawAt, TypeInv, TypeOK, CallsInv, Steps
    <3>3. StepInv'
      BY <1>3, <2>2, <3>1 DEF RawPlain, RawAt, TypeInv, TypeOK, StepInv, CallsInv
    <3> QED BY <3>1, <3>2, <3>3 DEF TypeInv, CallsInv
  <2> QED BY <2>1, <2>2
<1>4. CASE RawExit(t)
  <2>1. CASE Panic(t)
    <3>1. CallsInv' /\ StepInv' /\ step' \in [Threads -> Steps]
      BY <1>4, <2>1, PanicType DEF RawExit, RawAt, Unwind, At
    <3>2. TypeOK'
      BY <1>4, <3>1 DEF RawExit, TypeInv, TypeOK, CallsInv
    <3> QED BY <3>1, <3>2 DEF TypeInv, CallsInv
  <2>2. CASE ~Panic(t)
    <3>1. CallsInv' /\ \A u \in Threads : depth'[u] =< depth[u]
      BY <1>4, <2>2, GotoCalls, ReturnCalls DEF RawExit, RawAt, Unwind, At, Pcs, InGrate
    <3>2. TypeOK'
      BY <1>4, <2>2, <3>1 DEF RawExit, RawAt, Unwind, TypeInv, TypeOK, CallsInv, Steps
    <3>3. StepInv'
      BY <1>4, <2>2, <3>1 DEF RawExit, At, RawAt, Unwind, TypeInv, TypeOK, StepInv, CallsInv
    <3> QED BY <3>1, <3>2, <3>3 DEF TypeInv, CallsInv
  <2> QED BY <2>1, <2>2
<1>5. CASE ExitGroupLoser(t)
  <2>1. CASE Panic(t)
    <3>1. CallsInv' /\ StepInv' /\ step' \in [Threads -> Steps]
      BY <1>5, <2>1, PanicType DEF ExitGroupLoser, RawAt, Unwind, At
    <3>2. TypeOK'
      BY <1>5, <3>1 DEF ExitGroupLoser, TypeInv, TypeOK, CallsInv
    <3> QED BY <3>1, <3>2 DEF TypeInv, CallsInv
  <2>2. CASE ~Panic(t)
    <3>1. CallsInv' /\ \A u \in Threads : depth'[u] =< depth[u]
      BY <1>5, <2>2, GotoCalls, ReturnCalls DEF ExitGroupLoser, RawAt, Unwind, At, Pcs, InGrate
    <3>2. TypeOK'
      BY <1>5, <2>2, <3>1 DEF ExitGroupLoser, RawAt, Unwind, TypeInv, TypeOK, CallsInv, Steps
    <3>3. StepInv'
      BY <1>5, <2>2, <3>1 DEF ExitGroupLoser, At, RawAt, Unwind, TypeInv, TypeOK, StepInv, CallsInv
    <3> QED BY <3>1, <3>2, <3>3 DEF TypeInv, CallsInv
  <2> QED BY <2>1, <2>2
<1>6. CASE ExitGroupWinner(t)
  <2>1. CallsInv' /\ \A u \in Threads : depth'[u] =< depth[u]
    BY <1>6, GotoCalls, ReturnCalls DEF ExitGroupWinner, RawAt, At, Pcs, InGrate
  <2>2. TypeOK'
    BY <1>6, <2>1 DEF ExitGroupWinner, TypeInv, TypeOK, CallsInv
  <2>3. StepInv'
    BY <1>6, <2>1 DEF ExitGroupWinner, TypeInv, TypeOK, StepInv, CallsInv
  <2> QED BY <2>1, <2>2, <2>3 DEF TypeInv, CallsInv
<1>7. CASE ExitGroupMark(t)
  <2>1. CallsInv' /\ \A u \in Threads : depth'[u] =< depth[u]
    BY <1>7, GotoCalls, ReturnCalls DEF ExitGroupMark, RawAt, At, Pcs, InGrate
  <2>2. TypeOK'
    BY <1>7, <2>1, TopCall DEF ExitGroupMark, At, MarkExiting, Frame, TypeInv, TypeOK, CallsInv
  <2>3. StepInv'
    BY <1>7, <2>1 DEF ExitGroupMark, TypeInv, TypeOK, StepInv, CallsInv
  <2> QED BY <2>1, <2>2, <2>3 DEF TypeInv, CallsInv
<1>8. CASE ExitGroupKill(t)
  <2>1. CallsInv' /\ \A u \in Threads : depth'[u] =< depth[u]
    BY <1>8, GotoCalls, ReturnCalls DEF ExitGroupKill, RawAt, At, Pcs, InGrate
  <2>2. TypeOK'
    BY <1>8, <2>1 DEF ExitGroupKill, TypeInv, TypeOK, CallsInv
  <2>3. StepInv'
    BY <1>8, <2>1 DEF ExitGroupKill, TypeInv, TypeOK, StepInv, CallsInv
  <2> QED BY <2>1, <2>2, <2>3 DEF TypeInv, CallsInv
<1>9. CASE ExitGroupPurge(t)
  <2>1. CASE Panic(t)
    <3>1. CallsInv' /\ StepInv' /\ step' \in [Threads -> Steps]
      BY <1>9, <2>1, PanicType DEF ExitGroupPurge, Unwind, At
    <3>2. TypeOK'
      BY <1>9, <3>1 DEF ExitGroupPurge, Purged, TypeInv, TypeOK, CallsInv
    <3> QED BY <3>1, <3>2 DEF TypeInv, CallsInv
  <2>2. CASE ~Panic(t)
    <3>1. CallsInv' /\ \A u \in Threads : depth'[u] =< depth[u]
      BY <1>9, <2>2, GotoCalls, ReturnCalls DEF ExitGroupPurge, Unwind, At, Pcs, InGrate
    <3>2. TypeOK'
      BY <1>9, <2>2, <3>1 DEF ExitGroupPurge, Unwind, Purged, TypeInv, TypeOK, CallsInv, Steps
    <3>3. StepInv'
      BY <1>9, <2>2, <3>1 DEF ExitGroupPurge, At, Unwind, TypeInv, TypeOK, StepInv, CallsInv
    <3> QED BY <3>1, <3>2, <3>3 DEF TypeInv, CallsInv
  <2> QED BY <2>1, <2>2
<1>10. CASE RawFork(t)
  <2>1. CASE Panic(t)
    <3>1. CASE UNCHANGED <<nextId, cages, birth>>
      <4>1. CallsInv' /\ StepInv' /\ step' \in [Threads -> Steps]
        BY <1>10, <2>1, <3>1, PanicType DEF RawFork, RawAt, At
      <4>2. TypeOK'
        BY <1>10, <3>1, <4>1 DEF RawFork, TypeInv, TypeOK, CallsInv
      <4> QED BY <4>1, <4>2 DEF TypeInv, CallsInv
    <3>2. CASE UNCHANGED step
      <4> QED BY <1>10, <2>1, <3>2 DEF RawFork, RawAt, At, Panic, TypeInv, TypeOK
    <3> QED BY <1>10, <3>1, <3>2 DEF RawFork
  <2>2. CASE ~Panic(t)
    <3>1. /\ nextId' = nextId + 1 /\ nextId < MaxCageId
          /\ cages' = cages \cup {nextId + 1}
          /\ birth' = [birth EXCEPT ![t] = nextId + 1]
          /\ Goto(t, "copytable")
          /\ UNCHANGED step
      BY <1>10, <2>2 DEF RawFork, IdLeft
    <3>2. nextId + 1 \in Cages /\ nextId + 1 # 0
      BY <3>1, ConstantsAssumption DEF TypeInv, TypeOK, Cages
    <3>3. \A u \in Threads : birth[u] # 0 => birth'[u] # 0
      BY <3>1, <3>2 DEF TypeInv, TypeOK
    <3>4. CallsInv' /\ UNCHANGED depth
      BY <1>10, <3>1, <3>2, <3>3, GotoCalls
         DEF RawFork, RawAt, At, Pcs, InGrate, TypeInv, TypeOK
    <3>5. TypeOK'
      BY <1>10, <3>1, <3>2, <3>4 DEF RawFork, TypeInv, TypeOK, CallsInv
    <3>6. StepInv'
      BY <1>10, <3>1, <3>4 DEF RawFork, TypeInv, TypeOK, StepInv
    <3> QED BY <3>4, <3>5, <3>6 DEF TypeInv, CallsInv
  <2> QED BY <2>1, <2>2
<1>11. CASE ForkCopyTable(t)
  <2>0. Top(t).target \in Cages /\ birth[t] \in Cages
    BY <1>11, TopCall DEF ForkCopyTable, At, Frame, TypeInv, TypeOK
  <2>1. CASE Panic(t)
    <3>1. CallsInv' /\ StepInv' /\ step' \in [Threads -> Steps]
      BY <1>11, <2>1, PanicType DEF ForkCopyTable, At
    <3>2. TypeOK'
      BY <1>11, <2>0, <3>1, TableType DEF ForkCopyTable, TypeInv, TypeOK, CallsInv
    <3> QED BY <3>1, <3>2 DEF TypeInv, CallsInv
  <2>2. CASE ~Panic(t)
    <3>1. CallsInv' /\ \A u \in Threads : depth'[u] =< depth[u]
      BY <1>11, <2>2, ReturnCalls DEF ForkCopyTable, At
    <3>2. TypeOK'
      BY <1>11, <2>0, <2>2, <3>1, TableType DEF ForkCopyTable, TypeInv, TypeOK, CallsInv
    <3>3. StepInv'
      BY <1>11, <2>2, <3>1 DEF ForkCopyTable, TypeInv, TypeOK, StepInv, CallsInv
    <3> QED BY <3>1, <3>2, <3>3 DEF TypeInv, CallsInv
  <2> QED BY <2>1, <2>2
<1>12. CASE RawThread(t)
  <2>1. home[t] \in Cages /\ home[t] # 0
    BY <1>12 DEF RawThread, RawAt, At, TypeInv, TypeOK, StepInv
  <2>2. CallsInv' /\ \A u \in Threads : depth'[u] =< depth[u]
    BY <1>12, <2>1, ReturnCalls DEF RawThread, RawAt, At, TypeInv, TypeOK
  <2>3. TypeOK'
    BY <1>12, <2>1, <2>2 DEF RawThread, TypeInv, TypeOK, CallsInv
  <2>4. StepInv'
    <3>1. UNCHANGED <<step, home>> /\ \A u \in Threads : depth'[u] \in Int
      BY <1>12, <2>2 DEF RawThread, CallsInv
    <3> QED BY <2>2, <3>1 DEF TypeInv, TypeOK, StepInv
  <2> QED BY <2>2, <2>3, <2>4 DEF TypeInv, CallsInv
<1> QED BY <1>1, <1>2, <1>3, <1>4, <1>5, <1>6, <1>7, <1>8, <1>9, <1>10, <1>11,
           <1>12 DEF Handler

LEMMA TypeLifecycle ==
    ASSUME TypeInv, NEW t \in Threads, Lifecycle(t)
    PROVE  TypeInv'
<1>1. CASE UNCHANGED callVars /\ UNCHANGED <<home, birth>>
  <2>1. CallsInv'
    BY <1>1 DEF TypeInv, TypeOK, CallsInv, StackInv, StackAt
  <2>2. Lifecycle(t) => depth[t] = 0
    BY DEF Lifecycle, TypeInv, TypeOK, StepInv, ForkChild, SpawnThread, StartThread,
           EpochKilled, ThreadExit, Drain, Remove, Crash, CrashMark, CrashPurge,
           CrashExit
  <2>3. home[t] \in Cages
    BY DEF Lifecycle, TypeInv, TypeOK, StepInv, ForkChild, SpawnThread, StartThread,
           EpochKilled, ThreadExit, Drain, Remove, Crash, CrashMark, CrashPurge,
           CrashExit
  <2>4. TypeOK'
    <3>0. ~ForkChild(t) /\ ~SpawnThread(t)
      BY <1>1 DEF ForkChild, SpawnThread, TypeInv, TypeOK
    <3>1. /\ UNCHANGED registered \/
               \E S \in SUBSET Threads : registered' = [registered EXCEPT ![home[t]] = S]
          /\ UNCHANGED dead \/ dead' = [dead EXCEPT ![home[t]] = TRUE]
      <4> registered[home[t]] \subseteq Threads
        BY <2>3 DEF TypeInv, TypeOK
      <4> QED BY <3>0 DEF Lifecycle, StartThread, EpochKilled, ThreadExit, Drain,
                Remove, Crash, CrashMark, CrashPurge, CrashExit
    <3>2. step' \in [Threads -> Steps]
      BY <1>1 DEF Lifecycle, TypeInv, TypeOK, Steps, ForkChild, SpawnThread, StartThread,
           EpochKilled, ThreadExit, Drain, Remove, Crash, CrashMark, CrashPurge,
           CrashExit
    <3>3. /\ UNCHANGED <<slots, poisoned, nextId, runtime, initiated, inflight,
                         killed, mains>>
          /\ route' \subseteq route /\ cages' \subseteq cages
          /\ exiting' \subseteq exiting \cup {home[t]}
      BY <1>1, <3>0 DEF Lifecycle, StartThread, EpochKilled, ThreadExit, Drain, Remove,
           Crash, CrashMark, MarkExiting, CrashPurge, Purged, CrashExit
    <3>4. registered' \in [Cages -> SUBSET Threads] /\ dead' \in [Cages -> BOOLEAN]
      BY ZenonT(60), <2>3, <3>1 DEF TypeInv, TypeOK
    <3> QED BY <1>1, <2>1, <2>3, <3>2, <3>3, <3>4 DEF TypeInv, TypeOK, CallsInv
  <2>5. StepInv'
    <3>1. \E x : step' = [step EXCEPT ![t] = x]
      BY <1>1 DEF Lifecycle, ForkChild, SpawnThread, StartThread, EpochKilled,
           ThreadExit, Drain, Remove, Crash, CrashMark, CrashPurge, CrashExit,
           TypeInv, TypeOK
    <3>2. home[t] # 0
      BY <2>3, ConstantsAssumption DEF Cages
    <3> QED BY <1>1, <2>2, <3>1, <3>2 DEF TypeInv, TypeOK, StepInv
  <2> QED BY <2>1, <2>4, <2>5 DEF TypeInv, CallsInv
<1>2. CASE ForkChild(t) \/ SpawnThread(t)
  <2>1. PICK u \in Threads, c \in Cages, st \in {"run", "starting"} :
           /\ home[u] = 0
           /\ home' = [home EXCEPT ![u] = c]
           /\ step' = [step EXCEPT ![u] = st]
    BY <1>2 DEF ForkChild, SpawnThread, TypeInv, TypeOK
  <2>2. depth[t] = 0 /\ birth' = [birth EXCEPT ![t] = 0] /\ UNCHANGED callVars
    BY <1>2 DEF ForkChild, SpawnThread
  <2>3. CallsInv'
    <3>1. ASSUME NEW v \in Threads, NEW i \in Levels PROVE StackAt(v, i)'
      <4>1. StackAt(v, i) /\ (v = t => i > depth[v])
        BY <2>2, ConstantsAssumption DEF TypeInv, StackInv, Levels
      <4> QED BY <2>2, <4>1 DEF StackAt, TypeInv, TypeOK
    <3> QED BY <2>2, <3>1 DEF TypeInv, TypeOK, CallsInv, StackInv
  <2>4. TypeOK'
    <3>1. /\ home' \in [Threads -> Cages \cup {0}]
          /\ step' \in [Threads -> Steps]
          /\ birth' \in [Threads -> Cages \cup {0}]
      BY <2>1, <2>2 DEF TypeInv, TypeOK, Steps
    <3>2. /\ UNCHANGED <<tableVars, exiting, cages, nextId, dead, initiated, inflight,
                         killed>>
          /\ runtime' \subseteq runtime \cup {birth[t]}
          /\ mains' \subseteq Threads
          /\ registered' \in [Cages -> SUBSET Threads]
          /\ birth[t] # 0
      BY <1>2 DEF ForkChild, SpawnThread, TypeInv, TypeOK
    <3> QED BY <2>3, <3>1, <3>2 DEF TypeInv, TypeOK, CallsInv
  <2>5. StepInv'
    BY <2>1, <2>2, Constants, ConstantsAssumption DEF TypeInv, TypeOK, StepInv, Cages
  <2> QED BY <2>3, <2>4, <2>5 DEF TypeInv, CallsInv
<1> QED BY <1>1, <1>2 DEF Lifecycle, StartThread, EpochKilled, ThreadExit, Drain,
           Remove, Crash, CrashMark, CrashPurge, CrashExit

LEMMA TypeInit == Init => TypeInv
<1> SUFFICES ASSUME Init PROVE TypeInv
  OBVIOUS
<1>1. TypeOK
  <2>1. /\ slots \subseteq Cages \X CallNums
        /\ route \subseteq Cages \X CallNums \X Dests
    BY Constants DEF Init
  <2>2. nextId \in Cages /\ inflight \in [Cages -> Int]
        /\ depth \in [Threads -> 0..MaxDepth]
    BY Constants, ConstantsAssumption DEF Init
  <2>3. PICK t0 \in Threads :
           /\ registered = [c \in Cages |-> IF c = INIT_CAGEID THEN {t0} ELSE {}]
           /\ home = [t \in Threads |-> IF t = t0 THEN INIT_CAGEID ELSE 0]
           /\ mains = {t0}
           /\ step = [t \in Threads |-> IF t = t0 THEN "run" ELSE "none"]
    BY DEF Init
  <2>4. /\ registered \in [Cages -> SUBSET Threads]
        /\ home \in [Threads -> Cages \cup {0}]
        /\ mains \subseteq Threads
        /\ step \in [Threads -> Steps]
    BY <2>3, Constants DEF Steps
  <2>5. /\ poisoned = FALSE /\ exiting = {} /\ killed = {}
        /\ cages = {INIT_CAGEID} /\ runtime = {INIT_CAGEID}
        /\ dead = [c \in Cages |-> FALSE] /\ initiated = [c \in Cages |-> FALSE]
        /\ birth = [t \in Threads |-> 0]
        /\ frame = [k \in Threads \X Levels |-> NoFrame]
    BY DEF Init
  <2> QED BY <2>1, <2>2, <2>4, <2>5, Constants DEF TypeOK
<1>2. StackInv
  BY ConstantsAssumption DEF Init, StackInv, StackAt, Levels, NoFrame, InGrate
<1>3. StepInv
  BY DEF Init, StepInv, INIT_CAGEID
<1> QED BY <1>1, <1>2, <1>3 DEF TypeInv

LEMMA TypeNext == TypeInv /\ [Next]_vars => TypeInv'
<1> SUFFICES ASSUME TypeInv, [Next]_vars PROVE TypeInv'
  OBVIOUS
<1>1. CASE UNCHANGED vars
  BY <1>1 DEF vars, TypeInv, TypeOK, StackInv, StackAt, StepInv
<1>2. CASE Next
  BY <1>2, TypeGuest, TypeDispatch, TypeHandler, TypeLifecycle DEF Next
<1> QED BY <1>1, <1>2

\* The tables, cages, threads and call stacks keep their types.
THEOREM TypeCorrect == Spec => []TypeOK
<1>1. TypeInv => TypeOK
  BY DEF TypeInv
<1> QED BY <1>1, TypeInit, TypeNext, PTL DEF Spec

-----------------------------------------------------------------------------
(***************************************************************************)
(* Layer 2: the handler table.                                             *)
(***************************************************************************)

\* The only ways a step changes HANDLERTABLE.
LEMMA RouteStep ==
    ASSUME TypeInv, NEW t \in Threads,
           Guest(t) \/ Dispatch(t) \/ Handler(t) \/ Lifecycle(t)
    PROVE  \/ route' \subseteq route
           \/ \E r \in Request :
                 RegisterImpl(r.targetcage, r.targetcallnum, r.handlefunccage)
           \/ \E src, dst \in Cages : CopyTable(src, dst)
<1>1. CASE Guest(t)
  BY <1>1 DEF Guest, CageCall, GrateForwards, GrateCall, GrateReturns, Push
<1>2. CASE Dispatch(t)
  BY <1>2 DEF Dispatch, Check, LookupFound, LookupFails, Recheck, Borrow, AddInflight,
              CheckDead
<1>3. CASE Handler(t)
  <2>1. CASE RegisterApply(t)
    <3>1. Top(t).req \in Request
      BY <2>1, TopCall DEF RegisterApply, At, Frame
    <3> QED BY <2>1, <3>1 DEF RegisterApply
  <2>2. CASE ForkCopyTable(t)
    <3>1. Top(t).target \in Cages /\ birth[t] \in Cages
      BY <2>2, TopCall DEF ForkCopyTable, At, Frame, TypeInv, TypeOK
    <3> QED BY <2>2, <3>1 DEF ForkCopyTable
  <2>3. CASE ~RegisterApply(t) /\ ~ForkCopyTable(t)
    BY <1>3, <2>3 DEF Handler, RegisterCheck, RawPlain, RawExit, ExitGroupLoser,
       ExitGroupWinner, ExitGroupMark, ExitGroupKill, ExitGroupPurge, Purged, RawFork,
       RawThread
  <2> QED BY <2>1, <2>2, <2>3
<1>4. CASE Lifecycle(t)
  BY <1>4 DEF Lifecycle, ForkChild, SpawnThread, StartThread, EpochKilled, ThreadExit,
     Drain, Remove, Crash, CrashMark, CrashPurge, Purged, CrashExit
<1> QED BY <1>1, <1>2, <1>3, <1>4

\* _get_handler's "first entry" is the only entry: registration clears the
\* target_map before it inserts, a fork replaces the child's whole table, and a
\* purge only removes.
THEOREM HandlerUnique == Spec => []OneHandlerPerCall
<1>1. Init => OneHandlerPerCall
  BY DEF Init, OneHandlerPerCall
<1>2. ASSUME TypeInv, OneHandlerPerCall, [Next]_vars PROVE OneHandlerPerCall'
  <2>1. CASE UNCHANGED vars
    BY <1>2, <2>1 DEF vars, OneHandlerPerCall
  <2>2. CASE route' \subseteq route
    BY <1>2, <2>2 DEF OneHandlerPerCall
  <2>3. ASSUME NEW r \in Request,
               RegisterImpl(r.targetcage, r.targetcallnum, r.handlefunccage)
        PROVE  OneHandlerPerCall'
    BY <1>2, <2>3 DEF OneHandlerPerCall, RegisterImpl, Cleared
  <2>4. ASSUME NEW src \in Cages, NEW dst \in Cages, CopyTable(src, dst)
        PROVE  OneHandlerPerCall'
    <3>1. CASE UNCHANGED route
      BY <1>2, <3>1 DEF OneHandlerPerCall
    <3>2. CASE ~UNCHANGED route
      <4>1. route' = {e \in route : e[1] # dst}
                     \cup {<<dst, e[2], e[3]>> : e \in {x \in route : x[1] = src}}
        BY <2>4, <3>2 DEF CopyTable
      <4>2. ASSUME NEW x \in route', NEW y \in route', x[1] = y[1], x[2] = y[2]
            PROVE  x[3] = y[3]
        <5>1. CASE x[1] # dst
          BY <1>2, <4>1, <4>2, <5>1 DEF OneHandlerPerCall
        <5>2. CASE x[1] = dst
          <6>1. PICK a \in route : a[1] = src /\ x = <<dst, a[2], a[3]>>
            BY <4>1, <5>2
          <6>2. PICK b \in route : b[1] = src /\ y = <<dst, b[2], b[3]>>
            BY <4>1, <4>2, <5>2
          <6> QED BY <1>2, <4>2, <6>1, <6>2 DEF OneHandlerPerCall
        <5> QED BY <5>1, <5>2
      <4> QED BY <4>2 DEF OneHandlerPerCall
    <3> QED BY <3>1, <3>2
  <2>5. CASE Next
    BY <1>2, <2>2, <2>3, <2>4, <2>5, RouteStep DEF Next
  <2> QED BY <1>2, <2>1, <2>5
<1> QED BY <1>1, <1>2, TypeInit, TypeNext, PTL DEF Spec

-----------------------------------------------------------------------------
(***************************************************************************)
(* How a step changes the frames.                                          *)
(***************************************************************************)
LEMMA GotoFrame ==
    ASSUME TypeInv, NEW t \in Threads, depth[t] > 0, NEW pc, Goto(t, pc)
    PROVE  LET k == <<t, depth[t]>> IN
           /\ k \in CallKeys /\ UNCHANGED depth
           /\ frame'[k].pc = pc /\ frame'[k].dest = frame[k].dest
           /\ frame'[k].req = frame[k].req /\ frame'[k].target = frame[k].target
           /\ \A j \in CallKeys : j # k => frame'[j] = frame[j]
<1>1. <<t, depth[t]>> \in CallKeys /\ frame[<<t, depth[t]>>] \in Frame
  BY TopFrame DEF TypeInv, CallKeys, Top
<1> QED BY <1>1 DEF TypeInv, TypeOK, Goto, Frame, CallKeys

LEMMA ReturnFrame ==
    ASSUME TypeInv, NEW t \in Threads, depth[t] > 0, Return(t)
    PROVE  LET k == <<t, depth[t]>> IN
           /\ k \in CallKeys /\ frame'[k].pc = "none"
           /\ \A j \in CallKeys : j # k => frame'[j] = frame[j]
<1>1. <<t, depth[t]>> \in CallKeys
  BY TopFrame DEF TypeInv, CallKeys
<1> QED BY <1>1 DEF TypeInv, TypeOK, Return, CallKeys, NoFrame

LEMMA PushFrame ==
    ASSUME TypeInv, NEW t \in Threads, NEW c, NEW r, NEW d, Push(t, c, r, d)
    PROVE  LET k == <<t, depth[t] + 1>> IN
           /\ k \in CallKeys /\ frame[k].pc = "none" /\ frame'[k].pc = "check"
           /\ frame'[k].req = r /\ frame'[k].target = d
           /\ \A j \in CallKeys : j # k => frame'[j] = frame[j]
<1>1. <<t, depth[t] + 1>> \in CallKeys /\ depth[t] \in Nat
  BY ConstantsAssumption DEF Push, TypeInv, TypeOK, CallKeys, Levels
<1>2. frame[<<t, depth[t] + 1>>].pc = "none"
  BY <1>1 DEF TypeInv, StackInv, StackAt, CallKeys
<1> QED BY <1>1, <1>2 DEF TypeInv, TypeOK, Push, CallKeys

LEMMA LookupFrame ==
    ASSUME TypeInv, NEW t \in Threads, LookupFound(t)
    PROVE  LET k == <<t, depth[t]>> IN
           /\ k \in CallKeys /\ frame[k].pc = "lookup"
           /\ frame'[k].pc \in {"recheck", "threei", "borrow"}
           /\ frame'[k].req = frame[k].req /\ frame'[k].target = frame[k].target
           /\ \A j \in CallKeys : j # k => frame'[j] = frame[j]
<1>1. <<t, depth[t]>> \in CallKeys /\ frame[<<t, depth[t]>>] \in Frame
  BY TopFrame DEF TypeInv, CallKeys, Top, LookupFound, At
<1>2. PICK d \in Dests :
         frame' = [frame EXCEPT ![<<t, depth[t]>>] =
                      [@ EXCEPT !.dest = d, !.pc = PcFor(d)]]
  BY DEF LookupFound, Handlers
<1>3. PcFor(d) \in {"recheck", "threei", "borrow"}
  BY DEF PcFor
<1> QED BY <1>1, <1>2, <1>3 DEF TypeInv, TypeOK, LookupFound, At, Top, Frame, CallKeys

Counted == {"chk", "run"}

\* A step that neither adds nor removes a counted call.
Quiet == /\ UNCHANGED inflight
         /\ \A k \in CallKeys :
               /\ frame[k].pc \in Counted \/ frame'[k].pc \in Counted
                     => frame'[k].pc = frame[k].pc /\ frame'[k].dest = frame[k].dest
               /\ frame'[k].pc = "inc"
                     => /\ frame'[k].dest = frame[k].dest
                        /\ frame[k].pc = "inc" \/ frame[k].dest \in cages

LEMMA QuietStep ==
    ASSUME TypeInv, NEW t \in Threads,
           Guest(t) \/ Dispatch(t) \/ Handler(t) \/ Lifecycle(t),
           ~AddInflight(t), ~CheckDead(t), ~GrateReturns(t)
    PROVE  Quiet
<1>1. CASE CageCall(t) \/ GrateForwards(t) \/ GrateCall(t)
  <2>1. PICK c, r, d : Push(t, c, r, d)
    BY <1>1 DEF CageCall, GrateForwards, GrateCall
  <2>2. UNCHANGED inflight
    BY <2>1 DEF Push
  <2>3. PICK k \in CallKeys :
           /\ frame[k].pc = "none" /\ frame'[k].pc = "check"
           /\ \A j \in CallKeys : j # k => frame'[j] = frame[j]
    BY <2>1, PushFrame
  <2> QED BY <2>2, <2>3 DEF Quiet, Counted
<1>2. CASE LookupFound(t)
  BY <1>2, LookupFrame DEF Quiet, Counted, LookupFound
<1>3. CASE LookupFails(t) \/ Lifecycle(t)
  BY <1>3 DEF Quiet, LookupFails, Panic, Lifecycle, ForkChild, SpawnThread, StartThread,
     EpochKilled, ThreadExit, Drain, Remove, Crash, CrashMark, CrashPurge, CrashExit
<1>4. CASE Check(t)
  BY <1>4, GotoFrame, ReturnFrame DEF Check, At, Top, Quiet, Counted
<1>5. CASE Recheck(t)
  BY <1>5, GotoFrame, ReturnFrame DEF Recheck, At, Top, Quiet, Counted
<1>6. CASE Borrow(t)
  BY <1>6, GotoFrame, ReturnFrame DEF Borrow, At, Top, Quiet, Counted
<1>7. CASE RegisterCheck(t)
  BY <1>7, GotoFrame, ReturnFrame DEF RegisterCheck, At, Top, Quiet, Counted
<1>8. CASE RegisterApply(t)
  BY <1>8, GotoFrame, ReturnFrame DEF RegisterApply, Panic, At, Top, Quiet, Counted
<1>9. CASE RawPlain(t)
  BY <1>9, GotoFrame, ReturnFrame DEF RawPlain, RawAt, Panic, At, Top, Quiet, Counted
<1>10. CASE RawExit(t)
  BY <1>10, GotoFrame, ReturnFrame DEF RawExit, RawAt, Unwind, Panic, At, Top, Quiet, Counted
<1>11. CASE ExitGroupLoser(t)
  BY <1>11, GotoFrame, ReturnFrame DEF ExitGroupLoser, RawAt, Unwind, Panic, At, Top, Quiet, Counted
<1>12. CASE ExitGroupWinner(t)
  BY <1>12, GotoFrame, ReturnFrame DEF ExitGroupWinner, RawAt, At, Top, Quiet, Counted
<1>13. CASE ExitGroupMark(t)
  BY <1>13, GotoFrame, ReturnFrame DEF ExitGroupMark, At, Top, Quiet, Counted
<1>14. CASE ExitGroupKill(t)
  BY <1>14, GotoFrame, ReturnFrame DEF ExitGroupKill, At, Top, Quiet, Counted
<1>15. CASE ExitGroupPurge(t)
  BY <1>15, GotoFrame, ReturnFrame DEF ExitGroupPurge, Unwind, Panic, At, Top, Quiet, Counted
<1>16. CASE RawFork(t)
  BY <1>16, GotoFrame, ReturnFrame DEF RawFork, RawAt, Panic, At, Top, Quiet, Counted
<1>17. CASE ForkCopyTable(t)
  BY <1>17, GotoFrame, ReturnFrame DEF ForkCopyTable, Panic, At, Top, Quiet, Counted
<1>18. CASE RawThread(t)
  BY <1>18, GotoFrame, ReturnFrame DEF RawThread, RawAt, At, Top, Quiet, Counted
<1> QED
  BY <1>1, <1>2, <1>3, <1>4, <1>5, <1>6, <1>7, <1>8, <1>9, <1>10,
     <1>11, <1>12, <1>13, <1>14, <1>15, <1>16, <1>17, <1>18
     DEF Guest, Dispatch, Handler

-----------------------------------------------------------------------------
(***************************************************************************)
(* Layer 3: cage ids and the in-flight counters.                           *)
(***************************************************************************)

\* An id is in use only after alloc_cage_id handed it out.
IdInv ==
    /\ \A c \in cages : c =< nextId
    /\ \A t \in Threads : home[t] =< nextId /\ birth[t] =< nextId
    /\ \A k \in CallKeys : frame[k].pc \in {"inc", "chk", "run"}
                               => frame[k].dest =< nextId
    /\ \A g \in Cages : g > nextId => inflight[g] = 0

\* Where the ids in use come from.
LEMMA IdSources ==
    ASSUME TypeInv, NEW t \in Threads,
           Guest(t) \/ Dispatch(t) \/ Handler(t) \/ Lifecycle(t)
    PROVE  /\ nextId' = nextId \/ nextId' = nextId + 1
           /\ \A c \in cages' : c \in cages \/ (c = nextId + 1 /\ nextId' = c)
           /\ \A u \in Threads : home'[u] = home[u] \/ home'[u] = birth[t]
           /\ \A u \in Threads : birth'[u] \in {0, birth[u], home[u], nextId'}
<1>1. CASE Guest(t)
  BY <1>1 DEF Guest, CageCall, GrateForwards, GrateCall, GrateReturns, Push
<1>2. CASE Dispatch(t)
  BY <1>2 DEF Dispatch, Check, LookupFound, LookupFails, Recheck, Borrow, AddInflight,
              CheckDead
<1>3. CASE RawFork(t) \/ RawThread(t)
  BY <1>3 DEF RawFork, RawThread, TypeInv, TypeOK
<1>4. CASE Handler(t) /\ ~RawFork(t) /\ ~RawThread(t)
  BY <1>4 DEF Handler, RegisterCheck, RegisterApply, RawPlain, RawExit, ExitGroupLoser,
       ExitGroupWinner, ExitGroupMark, ExitGroupKill, ExitGroupPurge, ForkCopyTable
<1>5. CASE ForkChild(t) \/ SpawnThread(t)
  BY <1>5 DEF ForkChild, SpawnThread, TypeInv, TypeOK
<1>6. CASE Lifecycle(t) /\ ~ForkChild(t) /\ ~SpawnThread(t)
  BY <1>6 DEF Lifecycle, StartThread, EpochKilled, ThreadExit, Drain, Remove, Crash,
     CrashMark, CrashPurge, CrashExit
<1> QED BY <1>1, <1>2, <1>3, <1>4, <1>5, <1>6

LEMMA IdStep ==
    ASSUME TypeInv, IdInv, NEW t \in Threads,
           Guest(t) \/ Dispatch(t) \/ Handler(t) \/ Lifecycle(t), TypeInv'
    PROVE  IdInv'
<1>1. /\ nextId \in Int /\ nextId' \in Int /\ nextId =< nextId'
      /\ cages' \subseteq cages \cup {nextId'}
      /\ \A u \in Threads : home'[u] = home[u] \/ home'[u] = birth[t]
      /\ \A u \in Threads : birth'[u] \in {0, birth[u], home[u], nextId'}
      /\ nextId' > 0
  <2>1. nextId \in Int /\ nextId' \in Int /\ nextId' > 0
    BY ConstantsAssumption DEF TypeInv, TypeOK, Cages
  <2> QED BY <2>1, IdSources
<1>2. /\ \A u \in Threads : home[u] \in Int /\ birth[u] \in Int
      /\ cages \subseteq Int
  BY DEF TypeInv, TypeOK, Cages
<1>3. \A c \in cages' : c =< nextId'
  BY <1>1, <1>2 DEF IdInv
<1>4. \A u \in Threads : home'[u] =< nextId' /\ birth'[u] =< nextId'
  BY <1>1, <1>2 DEF IdInv
<1>5. /\ \A k \in CallKeys : frame'[k].pc \in {"inc", "chk", "run"}
                                  => frame'[k].dest =< nextId
      /\ \A g \in Cages : g > nextId => inflight'[g] = 0
  <2>1. CASE Quiet
    BY <2>1 DEF Quiet, Counted, IdInv
  <2>2. CASE AddInflight(t) \/ CheckDead(t) \/ GrateReturns(t)
    <3> DEFINE k == <<t, depth[t]>>
    <3>1. k \in CallKeys /\ frame[k].pc \in {"inc", "chk", "run"} /\ depth[t] > 0
      BY <2>2, TopFrame DEF AddInflight, CheckDead, GrateReturns, At, Top, CallKeys, TypeInv
    <3>2. /\ frame'[k].pc # "none" => frame'[k].dest = frame[k].dest
          /\ \A j \in CallKeys : j # k => frame'[j] = frame[j]
      BY <2>2, <3>1, GotoFrame, ReturnFrame
         DEF AddInflight, CheckDead, GrateReturns, Panic
    <3>3. \A j \in CallKeys : frame'[j].pc \in {"inc", "chk", "run"}
                                  => frame'[j].dest =< nextId
      BY <3>1, <3>2 DEF IdInv
    <3>4. \A g \in Cages : g # frame[k].dest => inflight'[g] = inflight[g]
      BY <2>2 DEF AddInflight, CheckDead, GrateReturns, Release, Top, TypeInv, TypeOK
    <3>5. frame[k].dest =< nextId /\ frame[k].dest \in Cages
      BY <3>1 DEF IdInv, TypeInv, StackInv, StackAt, InGrate, CallKeys
    <3>6. \A g \in Cages : g > nextId => inflight'[g] = 0
      BY <1>1, <3>4, <3>5 DEF IdInv, Cages
    <3> QED BY <3>3, <3>6
  <2> QED BY <2>1, <2>2, QuietStep
<1>6. \A k \in CallKeys : frame'[k].pc \in {"inc", "chk", "run"} => frame'[k].dest \in Int
  BY DEF TypeInv, StackInv, StackAt, CallKeys, InGrate, Cages
<1>7. /\ \A k \in CallKeys : frame'[k].pc \in {"inc", "chk", "run"}
                                  => frame'[k].dest =< nextId'
      /\ \A g \in Cages : g > nextId' => inflight'[g] = 0
  BY <1>1, <1>5, <1>6 DEF Cages
<1> QED BY <1>3, <1>4, <1>7 DEF IdInv

\* The counted calls are finitely many, and a step of one call changes their
\* number by at most one.
LEMMA HoldersFinite == \A g : IsFiniteSet(Holders(g)) /\ IsFiniteSet(Holders(g)')
<1>1. IsFiniteSet(Threads \X Levels)
  <2>1. IsFiniteSet(Levels)
    BY FS_Interval, ConstantsAssumption DEF Levels
  <2> QED BY <2>1, FS_Product, ThreadsFinite
<1>2. \A g : Holders(g) \in SUBSET (Threads \X Levels)
             /\ Holders(g)' \in SUBSET (Threads \X Levels)
  BY DEF Holders
<1> QED BY <1>1, <1>2, FS_Subset

LEMMA HoldersSame ==
    ASSUME NEW g, \A k \in CallKeys :
              frame[k].pc \in Counted \/ frame'[k].pc \in Counted
                  => frame'[k].pc = frame[k].pc /\ frame'[k].dest = frame[k].dest
    PROVE  Holders(g)' = Holders(g)
BY DEF Holders, CallKeys, Counted

LEMMA HoldersChange ==
    ASSUME NEW g, NEW k \in CallKeys, \A j \in CallKeys : j # k => frame'[j] = frame[j]
    PROVE  /\ k \notin Holders(g) /\ k \in Holders(g)'
                 => Cardinality(Holders(g)') = Cardinality(Holders(g)) + 1
           /\ k \in Holders(g) /\ k \notin Holders(g)'
                 => Cardinality(Holders(g)') = Cardinality(Holders(g)) - 1
           /\ (k \in Holders(g) <=> k \in Holders(g)')
                 => Cardinality(Holders(g)') = Cardinality(Holders(g))
<1>1. CASE k \notin Holders(g) /\ k \in Holders(g)'
  <2>1. Holders(g)' = Holders(g) \cup {k}
    BY <1>1 DEF Holders, CallKeys
  <2> QED BY <1>1, <2>1, HoldersFinite, FS_AddElement
<1>2. CASE k \in Holders(g) /\ k \notin Holders(g)'
  <2>1. Holders(g)' = Holders(g) \ {k}
    BY <1>2 DEF Holders, CallKeys
  <2> QED BY <1>2, <2>1, HoldersFinite, FS_RemoveElement
<1>3. CASE k \in Holders(g) <=> k \in Holders(g)'
  <2>1. Holders(g)' = Holders(g)
    BY <1>3 DEF Holders, CallKeys
  <2> QED BY <1>3, <2>1
<1> QED BY <1>1, <1>2, <1>3

LEMMA InflightStep ==
    ASSUME TypeInv, IdInv, InflightExact, NEW t \in Threads,
           Guest(t) \/ Dispatch(t) \/ Handler(t) \/ Lifecycle(t)
    PROVE  InflightExact'
<1> SUFFICES ASSUME NEW g \in cages' PROVE inflight'[g] = Cardinality(Holders(g)')
  BY DEF InflightExact
<1>1. CASE Quiet /\ g \in cages
  BY <1>1, HoldersSame DEF Quiet, InflightExact
<1>2. CASE Quiet /\ g \notin cages
  <2>1. g = nextId + 1 /\ nextId \in Int /\ g \in Int
    BY <1>2, IdSources DEF TypeInv, TypeOK, Cages
  <2>2. Holders(g) = {}
    BY <2>1 DEF IdInv, Holders, CallKeys
  <2>3. g \in Cages
    <3>1. CASE RawFork(t)
      BY <1>2, <2>1, <3>1, ConstantsAssumption DEF RawFork, IdLeft, TypeInv, TypeOK, Cages
    <3>2. CASE ~RawFork(t)
      BY <1>2, <3>2
         DEF Guest, CageCall, GrateForwards, GrateCall, GrateReturns, Push,
         Dispatch, Check, LookupFound, LookupFails, Recheck, Borrow, AddInflight, CheckDead,
         Handler, RegisterCheck, RegisterApply, RawPlain, RawExit, ExitGroupLoser,
         ExitGroupWinner, ExitGroupMark, ExitGroupKill, ExitGroupPurge, ForkCopyTable,
         RawThread, Lifecycle, ForkChild, SpawnThread, StartThread, EpochKilled,
         ThreadExit, Drain, Remove, Crash, CrashMark, CrashPurge, CrashExit
    <3> QED BY <3>1, <3>2
  <2>4. inflight'[g] = 0
    BY <1>2, <2>1, <2>3 DEF Quiet, IdInv
  <2> QED BY <1>2, <2>2, <2>4, HoldersSame, FS_EmptySet DEF Quiet
<1>3. CASE AddInflight(t) \/ CheckDead(t) \/ GrateReturns(t)
  <2> DEFINE k == <<t, depth[t]>>
             d == frame[k].dest
  <2>1. /\ k \in CallKeys /\ depth[t] > 0 /\ d \in Cages /\ UNCHANGED cages
        /\ g \in cages /\ g \in Cages /\ inflight[g] = Cardinality(Holders(g))
        /\ inflight \in [Cages -> Int]
    BY <1>3, TopFrame DEF AddInflight, CheckDead, GrateReturns, At, Top, CallKeys, TypeInv,
       TypeOK, StackInv, StackAt, InGrate, InflightExact
  <2>2. /\ frame'[k].pc # "none" => frame'[k].dest = d
        /\ \A j \in CallKeys : j # k => frame'[j] = frame[j]
    BY <1>3, <2>1, GotoFrame, ReturnFrame
       DEF AddInflight, CheckDead, GrateReturns, Panic
  <2>3. /\ k \in Holders(g) <=> frame[k].pc \in Counted /\ d = g
        /\ k \in Holders(g)' <=> frame'[k].pc \in Counted /\ d = g
    BY <2>1, <2>2 DEF Holders, Counted, CallKeys
  <2>4. CASE d # g
    <3>1. inflight'[g] = inflight[g]
      BY <1>3, <2>1, <2>4 DEF AddInflight, CheckDead, GrateReturns, Release, Top
    <3> QED BY <2>1, <2>2, <2>3, <2>4, <3>1, HoldersChange
  <2>5. CASE d = g /\ AddInflight(t)
    <3>1. frame[k].pc = "inc" /\ frame'[k].pc = "chk" /\ inflight'[g] = inflight[g] + 1
      BY <2>1, <2>5, GotoFrame DEF AddInflight, At, Top
    <3> QED BY <2>1, <2>2, <2>3, <2>5, <3>1, HoldersChange DEF Counted
  <2>6. CASE d = g /\ CheckDead(t)
    <3>1. frame[k].pc = "chk"
      BY <2>6 DEF CheckDead, At, Top
    <3>2. CASE Release(g) /\ Return(t)
      <4>1. frame'[k].pc = "none" /\ inflight'[g] = inflight[g] - 1
        BY <2>1, <3>2, ReturnFrame DEF Release
      <4> QED BY <2>1, <2>2, <2>3, <2>6, <3>1, <4>1, HoldersChange DEF Counted
    <3>3. CASE Goto(t, "run") /\ UNCHANGED inflight
      <4>1. frame'[k].pc = "run"
        BY <2>1, <3>3, GotoFrame
      <4> QED BY <2>1, <2>2, <2>3, <2>6, <3>1, <3>3, <4>1, HoldersChange DEF Counted
    <3>4. CASE Panic(t) /\ UNCHANGED inflight
      <4>1. UNCHANGED frame
        BY <3>4 DEF Panic
      <4> QED BY <2>1, <2>2, <2>3, <3>4, <4>1, HoldersChange
    <3> QED BY <2>1, <2>6, <3>2, <3>3, <3>4 DEF CheckDead, Top
  <2>7. CASE d = g /\ GrateReturns(t)
    <3>1. frame[k].pc = "run" /\ frame'[k].pc = "none" /\ inflight'[g] = inflight[g] - 1
      BY <2>1, <2>7, ReturnFrame DEF GrateReturns, Release, At, Top
    <3> QED BY <2>1, <2>2, <2>3, <2>7, <3>1, HoldersChange DEF Counted
  <2> QED BY <1>3, <2>4, <2>5, <2>6, <2>7
<1> QED BY <1>1, <1>2, <1>3, QuietStep

InflightInv == TypeInv /\ IdInv /\ InflightExact

LEMMA InflightInit == Init => InflightInv
<1> SUFFICES ASSUME Init PROVE InflightInv
  OBVIOUS
<1>1. TypeInv
  BY TypeInit
<1>2. /\ cages = {INIT_CAGEID} /\ nextId = INIT_CAGEID
      /\ inflight = [c \in Cages |-> 0] /\ birth = [t \in Threads |-> 0]
      /\ frame = [k \in Threads \X Levels |-> NoFrame]
      /\ \A t \in Threads : home[t] \in {0, INIT_CAGEID}
  BY DEF Init
<1>3. IdInv
  BY <1>2 DEF IdInv, INIT_CAGEID, CallKeys, NoFrame
<1>4. \A g : Holders(g) = {}
  BY <1>2 DEF Holders, NoFrame
<1>5. InflightExact
  BY <1>2, <1>4, FS_EmptySet, Constants DEF InflightExact
<1> QED BY <1>1, <1>3, <1>5 DEF InflightInv

LEMMA InflightNext == InflightInv /\ [Next]_vars => InflightInv'
<1> SUFFICES ASSUME InflightInv, [Next]_vars PROVE InflightInv'
  OBVIOUS
<1>1. TypeInv'
  BY TypeNext DEF InflightInv
<1>2. CASE Next
  BY <1>1, <1>2, IdStep, InflightStep DEF Next, InflightInv
<1>3. CASE UNCHANGED vars
  BY <1>1, <1>3 DEF vars, InflightInv, IdInv, InflightExact, Holders
<1> QED BY <1>2, <1>3

\* grate_inflight of every cage in CAGE_MAP counts exactly the dispatches into
\* it, whatever exits, crashes, forks and panics happen meanwhile.
THEOREM InflightCorrect == Spec => []InflightExact
<1>1. InflightInv => InflightExact
  BY DEF InflightInv
<1> QED BY <1>1, InflightInit, InflightNext, PTL DEF Spec
=============================================================================
