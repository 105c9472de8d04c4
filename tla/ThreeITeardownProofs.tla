------------------------ MODULE ThreeITeardownProofs ------------------------
(***************************************************************************)
(* Proofs about the teardown of cages in ThreeI: a cage is not removed     *)
(* while a grate function runs in it, a removed cage is in EXITING_TABLE,  *)
(* and no RawPOSIX function runs for one.  Continues the layers of ThreeIProofs.                   *)
(***************************************************************************)
EXTENDS ThreeIProofs

USE DEF tableVars, cageVars, threadVars, callVars

StepOf(t) == Guest(t) \/ Dispatch(t) \/ Handler(t) \/ Lifecycle(t)

(***************************************************************************)
(* What no step undoes, and what a step of one thread leaves to the others.*)
(***************************************************************************)
LEMMA Monotone ==
    ASSUME TypeInv, NEW t \in Threads, StepOf(t)
    PROVE  /\ \A u \in Threads : home[u] # 0 => home'[u] = home[u]
           /\ mains \subseteq mains'
           /\ \A u \in mains' : u \in mains \/ (home[u] = 0 /\ home'[u] # 0)
           /\ exiting \subseteq exiting'
<1>1. CASE Guest(t)
  BY <1>1
     DEF Guest, CageCall, GrateForwards, GrateCall, GrateReturns, Push
<1>2. CASE Dispatch(t)
  BY <1>2
     DEF Dispatch, Check, LookupFound, LookupFails, Recheck, Borrow,
         AddInflight, CheckDead
<1>3. CASE Handler(t)
  BY <1>3
     DEF Handler, RegisterCheck, RegisterApply, RawPlain, RawExit,
         ExitGroupLoser, ExitGroupWinner, ExitGroupMark, ExitGroupKill,
         ExitGroupPurge, RawFork, ForkCopyTable, RawThread, MarkExiting,
         TypeInv, TypeOK
<1>4. CASE ForkChild(t) \/ SpawnThread(t)
  BY <1>4 DEF ForkChild, SpawnThread, TypeInv, TypeOK
<1>5. CASE Lifecycle(t) /\ ~ForkChild(t) /\ ~SpawnThread(t)
  BY <1>5
     DEF Lifecycle, StartThread, EpochKilled, ThreadExit, Drain, Remove, Crash,
         CrashMark, CrashPurge, CrashExit, MarkExiting, TypeInv, TypeOK
<1> QED BY <1>1, <1>2, <1>3, <1>4, <1>5 DEF StepOf

\* is_dead and exit_group_initiated are only ever set, the second with the first.
LEMMA DeadMonotone ==
    ASSUME TypeInv, NEW t \in Threads, StepOf(t)
    PROVE  \/ UNCHANGED <<dead, initiated>>
           \/ \E c \in cages : /\ dead' = [dead EXCEPT ![c] = TRUE]
                               /\ \/ UNCHANGED initiated
                                  \/ initiated' = [initiated EXCEPT ![c] = TRUE]
<1>1. CASE Guest(t)
  BY <1>1
     DEF Guest, CageCall, GrateForwards, GrateCall, GrateReturns, Push
<1>2. CASE Dispatch(t)
  BY <1>2
     DEF Dispatch, Check, LookupFound, LookupFails, Recheck, Borrow,
         AddInflight, CheckDead
<1>3. CASE Handler(t)
  BY <1>3
     DEF Handler, RegisterCheck, RegisterApply, RawPlain, RawExit,
         ExitGroupLoser, ExitGroupWinner, ExitGroupMark, ExitGroupKill,
         ExitGroupPurge, RawFork, ForkCopyTable, RawThread, MarkExiting,
         TypeInv, TypeOK
<1>4. CASE ForkChild(t) \/ SpawnThread(t)
  BY <1>4 DEF ForkChild, SpawnThread, TypeInv, TypeOK
<1>5. CASE Lifecycle(t) /\ ~ForkChild(t) /\ ~SpawnThread(t)
  BY <1>5
     DEF Lifecycle, StartThread, EpochKilled, ThreadExit, Drain, Remove, Crash,
         CrashMark, CrashPurge, CrashExit, MarkExiting, TypeInv, TypeOK
<1> QED BY <1>1, <1>2, <1>3, <1>4, <1>5 DEF StepOf

LEMMA OtherCalls ==
    ASSUME TypeInv, NEW t \in Threads, StepOf(t), NEW u \in Threads, u # t
    PROVE  /\ depth'[u] = depth[u]
           /\ \A i \in Levels : frame'[<<u, i>>] = frame[<<u, i>>]
<1>1. ASSUME NEW v, NEW i \in Int, frame' = [frame EXCEPT ![<<t, i>>] = v]
      PROVE  \A j \in Levels : frame'[<<u, j>>] = frame[<<u, j>>]
  BY <1>1 DEF TypeInv, TypeOK
<1>2. depth[t] \in Int /\ depth[t] + 1 \in Int
  BY DEF TypeInv, TypeOK
<1>3. CASE CageCall(t) \/ GrateForwards(t) \/ GrateCall(t)
  <2>1. PICK c, r, d : Push(t, c, r, d)
    BY <1>3 DEF CageCall, GrateForwards, GrateCall
  <2> QED BY <1>1, <1>2, <2>1 DEF Push, TypeInv, TypeOK
<1>4. CASE LookupFound(t)
  BY <1>4 DEF LookupFound, TypeInv, TypeOK
<1>5. CASE UNCHANGED callVars
  BY <1>5
<1>6. CASE Return(t)
  BY <1>1, <1>2, <1>6 DEF Return, TypeInv, TypeOK
<1>7. ASSUME NEW pc, Goto(t, pc) PROVE /\ depth'[u] = depth[u]
                                     /\ \A i \in Levels : frame'[<<u, i>>] = frame[<<u, i>>]
  BY <1>7 DEF Goto, TypeInv, TypeOK
<1>8. CASE ~(CageCall(t) \/ GrateForwards(t) \/ GrateCall(t) \/ LookupFound(t))
  <2>1. UNCHANGED callVars \/ Return(t) \/ \E pc : Goto(t, pc)
    <3>1. CASE GrateReturns(t) \/ Dispatch(t)
      BY <1>8, <3>1
         DEF Dispatch, Check, LookupFound, LookupFails, Recheck, Borrow,
             AddInflight, CheckDead, Panic, GrateReturns
    <3>2. CASE Handler(t)
      BY <3>2
         DEF Handler, RegisterCheck, RegisterApply, RawPlain, RawExit,
             ExitGroupLoser, ExitGroupWinner, ExitGroupMark, ExitGroupKill,
             ExitGroupPurge, RawFork, ForkCopyTable, RawThread, Panic, Unwind
    <3>3. CASE Lifecycle(t)
      BY <3>3
         DEF Lifecycle, ForkChild, SpawnThread, StartThread, EpochKilled,
             ThreadExit, Drain, Remove, Crash, CrashMark, CrashPurge, CrashExit
    <3> QED BY <1>8, <3>1, <3>2, <3>3 DEF StepOf, Guest
  <2> QED BY <1>5, <1>6, <1>7, <2>1
<1> QED BY <1>3, <1>4, <1>8

LEMMA OtherStep ==
    ASSUME TypeInv, NEW t \in Threads, StepOf(t), NEW u \in Threads, u # t,
           home[u] # 0
    PROVE  step'[u] = step[u]
<1>1. CASE Guest(t)
  BY <1>1
     DEF Guest, CageCall, GrateForwards, GrateCall, GrateReturns, Push
<1>2. CASE Dispatch(t)
  BY <1>2
     DEF Dispatch, Check, LookupFound, LookupFails, Recheck, Borrow,
         AddInflight, CheckDead, Panic, TypeInv, TypeOK
<1>3. CASE Handler(t)
  BY <1>3
     DEF Handler, RegisterCheck, RegisterApply, RawPlain, RawExit,
         ExitGroupLoser, ExitGroupWinner, ExitGroupMark, ExitGroupKill,
         ExitGroupPurge, RawFork, ForkCopyTable, RawThread, Panic, Unwind,
         TypeInv, TypeOK
<1>4. CASE Lifecycle(t)
  BY <1>4
     DEF Lifecycle, ForkChild, SpawnThread, StartThread, EpochKilled,
         ThreadExit, Drain, Remove, Crash, CrashMark, CrashPurge, CrashExit,
         TypeInv, TypeOK
<1> QED BY <1>1, <1>2, <1>3, <1>4 DEF StepOf

-----------------------------------------------------------------------------
(***************************************************************************)
(* Layer 4: who issues exits, and which threads a live cage has.           *)
(***************************************************************************)
Teardown == {"mark", "kill", "purge"}

\* Exits are calls of the cage's own threads, and only the winner of
\* try_initiate_exit_group tears the cage down.
CallAt(t, i) ==
    LET f == frame[<<t, i>>] IN
    /\ f.pc # "none" /\ f.req.op \in {"exit", "exit_group"} => f.target = home[t]
    /\ f.pc # "none" /\ f.req.op = "exit" => t \notin mains
    /\ f.pc \in Teardown => f.req.op = "exit_group" /\ dead[f.target]

CallInv == /\ \A c \in Cages : initiated[c] => dead[c]
           /\ \A t \in Threads, i \in Levels : CallAt(t, i)

\* A call keeps its request and target; a new one is the program's own, a copy of
\* the one it forwards, or a grate's plain call.
Kept(u, i) == LET f == frame[<<u, i>>]
                  g == frame'[<<u, i>>]
              IN  /\ f.pc # "none" /\ g.req = f.req /\ g.target = f.target
                  /\ g.pc \in Teardown =>
                        f.pc \in Teardown \/ (f.req.op = "exit_group" /\ dead'[f.target])
New(u, i) == LET g == frame'[<<u, i>>] IN
             /\ g.pc = "check" /\ i = depth[u] + 1
             /\ \/ g.target = home[u] /\ g.req \in Requests /\ Issues(u, g.req)
                \/ /\ depth[u] \in Levels /\ frame[<<u, depth[u]>>].pc = "run"
                   /\ g.req = frame[<<u, depth[u]>>].req
                   /\ g.target = frame[<<u, depth[u]>>].target
                \/ /\ depth[u] \in Levels /\ frame[<<u, depth[u]>>].pc = "run"
                   /\ g.req.op \in {"plain", "register"}
                   /\ g.target = frame[<<u, depth[u]>>].dest

LEMMA CallerHome ==
    ASSUME TypeInv, NEW u \in Threads, NEW i \in Levels, frame[<<u, i>>].pc # "none"
    PROVE  depth[u] > 0 /\ home[u] # 0
<1>1. StackAt(u, i) /\ i \in Int /\ i > 0 /\ depth[u] \in Int
  BY ConstantsAssumption DEF TypeInv, TypeOK, StackInv, Levels
<1>2. depth[u] > 0
  BY <1>1 DEF StackAt
<1> QED BY <1>2 DEF TypeInv, StepInv

LEMMA MoverHome ==
    ASSUME TypeInv, NEW t \in Threads, StepOf(t)
    PROVE  home[t] # 0
<1>1. step[t] # "none"
  <2>1. depth[t] > 0 => step[t] # "none"
    BY DEF TypeInv, StepInv
  <2>2. CASE Guest(t)
    BY <2>1, <2>2
       DEF Guest, CageCall, GrateForwards, GrateCall, GrateReturns, At
  <2>3. CASE Dispatch(t)
    BY <2>1, <2>3
       DEF Dispatch, Check, LookupFound, LookupFails, Recheck, Borrow, AddInflight,
           CheckDead, At
  <2>4. CASE Handler(t)
    BY <2>1, <2>4
       DEF Handler, RegisterCheck, RegisterApply, RawPlain, RawExit, ExitGroupLoser,
           ExitGroupWinner, ExitGroupMark, ExitGroupKill, ExitGroupPurge, RawFork,
           ForkCopyTable, RawThread, RawAt, At
  <2>5. CASE Lifecycle(t)
    BY <2>5
       DEF Lifecycle, ForkChild, SpawnThread, StartThread, EpochKilled, ThreadExit,
           Drain, Remove, Crash, CrashMark, CrashPurge, CrashExit
  <2> QED BY <2>2, <2>3, <2>4, <2>5 DEF StepOf
<1> QED BY <1>1 DEF TypeInv, StepInv

LEMMA CallOrigin ==
    ASSUME TypeInv, NEW t \in Threads, StepOf(t), NEW i \in Levels,
           frame'[<<t, i>>].pc # "none"
    PROVE  Kept(t, i) \/ New(t, i)
<1> <<t, i>> \in CallKeys
  BY DEF CallKeys
<1>0. ASSUME NEW c, NEW r, NEW d, Push(t, c, r, d)
      PROVE  \/ Kept(t, i)
             \/ /\ frame'[<<t, i>>].pc = "check" /\ i = depth[t] + 1
                /\ frame'[<<t, i>>].req = r /\ frame'[<<t, i>>].target = d
  <2>1. CASE i = depth[t] + 1
    BY <1>0, <2>1, PushFrame
  <2>2. CASE i # depth[t] + 1
    <3>1. frame'[<<t, i>>] = frame[<<t, i>>]
      BY <1>0, <2>2, PushFrame
    <3> QED BY <3>1 DEF Kept
  <2> QED BY <2>1, <2>2
<1>1. CASE CageCall(t)
  <2>1. PICK r \in Requests : Issues(t, r) /\ Push(t, home[t], r, home[t])
    BY <1>1 DEF CageCall
  <2> QED BY <1>0, <2>1 DEF New
<1>2. CASE GrateForwards(t)
  <2>1. /\ Push(t, Top(t).dest, Top(t).req, Top(t).target)
        /\ depth[t] \in Levels /\ frame[<<t, depth[t]>>].pc = "run"
    BY <1>2, TopFrame DEF GrateForwards, At, Top, TypeInv
  <2> QED BY <1>0, <2>1 DEF New, Top
<1>3. CASE GrateCall(t)
  <2>1. PICK r \in Requests : /\ r.op \in {"plain", "register"}
                              /\ Push(t, Top(t).dest, r, Top(t).dest)
    BY <1>3 DEF GrateCall
  <2>2. depth[t] \in Levels /\ frame[<<t, depth[t]>>].pc = "run"
    BY <1>3, TopFrame DEF GrateCall, At, Top, TypeInv
  <2> QED BY <1>0, <2>1, <2>2 DEF New, Top
<1>4. CASE LookupFound(t)
  BY <1>4, LookupFrame DEF Kept, Teardown
<1>5. CASE UNCHANGED frame
  BY <1>5 DEF Kept
<1>6. ASSUME depth[t] > 0, Return(t) PROVE Kept(t, i)
  BY <1>6, ReturnFrame DEF Kept
<1>7. ASSUME depth[t] > 0, Top(t).pc # "none", NEW pc, Goto(t, pc),
             pc \in Teardown => \/ Top(t).pc \in Teardown
                                \/ Top(t).req.op = "exit_group" /\ dead'[Top(t).target]
      PROVE  Kept(t, i)
  BY <1>7, GotoFrame DEF Kept, Top
<1>8. CASE GrateReturns(t)
  BY <1>6, <1>8 DEF GrateReturns, At
<1>9. CASE Dispatch(t) /\ ~LookupFound(t)
  BY <1>5, <1>6, <1>7, <1>9
     DEF Dispatch, Check, LookupFound, LookupFails, Recheck, Borrow, AddInflight,
         CheckDead, Panic, At, Teardown
<1>10. CASE ExitGroupWinner(t)
  <2>1. Top(t).target \in Cages
    BY <1>10, TopCall DEF ExitGroupWinner, RawAt, At, Frame
  <2>2. dead'[Top(t).target]
    BY <1>10, <2>1 DEF ExitGroupWinner, TypeInv, TypeOK
  <2> QED BY <1>7, <1>10, <2>2 DEF ExitGroupWinner, RawAt, At
<1>11. CASE Handler(t) /\ ~ExitGroupWinner(t)
  <2>1. CASE ExitGroupMark(t) \/ ExitGroupKill(t)
    <3>1. /\ depth[t] > 0 /\ Top(t).pc \in Teardown /\ Top(t).pc # "none"
          /\ \E pc : Goto(t, pc)
      BY <2>1 DEF ExitGroupMark, ExitGroupKill, At, Teardown
    <3>2. PICK pc : Goto(t, pc)
      BY <3>1
    <3> QED BY <1>7, <3>1, <3>2
  <2>2. CASE ~(ExitGroupMark(t) \/ ExitGroupKill(t))
    BY <1>5, <1>6, <1>7, <1>11, <2>2
       DEF Handler, RegisterCheck, RegisterApply, RawPlain, RawExit, ExitGroupLoser,
           ExitGroupPurge, RawFork, ForkCopyTable, RawThread, Panic, Unwind, RawAt,
           At, Teardown
  <2> QED BY <2>1, <2>2
<1>12. CASE Lifecycle(t)
  BY <1>5, <1>12
     DEF Lifecycle, ForkChild, SpawnThread, StartThread, EpochKilled, ThreadExit,
         Drain, Remove, Crash, CrashMark, CrashPurge, CrashExit
<1> QED BY <1>1, <1>2, <1>3, <1>4, <1>8, <1>9, <1>10, <1>11, <1>12 DEF StepOf, Guest

LEMMA CallStep ==
    ASSUME TypeInv, TypeInv', CallInv, NEW t \in Threads, StepOf(t)
    PROVE  CallInv'
<1>1. /\ \A c \in Cages : dead[c] => dead'[c]
      /\ \A c \in Cages : initiated'[c] => initiated[c] \/ dead'[c]
  BY DeadMonotone DEF TypeInv, TypeOK
<1>2. ASSUME NEW u \in Threads, NEW i \in Levels PROVE CallAt(u, i)'
  <2>1. CASE frame'[<<u, i>>].pc = "none"
    BY <2>1 DEF CallAt, Teardown
  <2>2. CASE frame'[<<u, i>>].pc # "none" /\ u # t
    <3>1. frame'[<<u, i>>] = frame[<<u, i>>] /\ CallAt(u, i)
      BY <2>2, OtherCalls DEF CallInv
    <3>2. home[u] # 0
      BY <2>2, <3>1, CallerHome
    <3>3. home'[u] = home[u] /\ (u \in mains' => u \in mains)
      BY <3>2, Monotone
    <3>4. frame[<<u, i>>].target \in Cages
      BY DEF TypeInv, TypeOK, Frame
    <3> QED BY <1>1, <3>1, <3>3, <3>4 DEF CallAt
  <2>3. CASE frame'[<<u, i>>].pc # "none" /\ u = t
    <3>1. home'[t] = home[t] /\ (t \in mains' => t \in mains)
      BY MoverHome, Monotone
    <3>2. frame[<<t, i>>].target \in Cages
      BY DEF TypeInv, TypeOK, Frame
    <3>3. CASE Kept(t, i)
      <4>1. CallAt(t, i)
        BY DEF CallInv
      <4> QED BY <1>1, <2>3, <3>1, <3>2, <3>3, <4>1 DEF Kept, CallAt
    <3>4. CASE New(t, i)
      <4>1. \A j \in Levels : CallAt(t, j)
        BY DEF CallInv
      <4> QED BY <2>3, <3>1, <3>4, <4>1 DEF New, CallAt, Issues, Teardown
    <3> QED BY <2>3, <3>3, <3>4, CallOrigin
  <2> QED BY <2>1, <2>2, <2>3
<1> QED BY <1>1, <1>2 DEF CallInv

\* The child a thread is to start has no thread, and no other parent.
ForkPending(t) == birth[t] # 0 /\ birth[t] # home[t]
BirthInv ==
    \A t \in Threads :
        /\ home[t] = 0 => birth[t] = 0
        /\ ForkPending(t) => \A u \in Threads : /\ home[u] # birth[t]
                                                /\ u # t => birth[u] # birth[t]

\* How a step changes home and birth.
LEMMA BirthCases ==
    ASSUME TypeInv, NEW t \in Threads, StepOf(t)
    PROVE  \/ UNCHANGED <<home, birth>>
           \/ /\ UNCHANGED home
              /\ birth' = [birth EXCEPT ![t] = nextId + 1]
           \/ /\ RawThread(t) /\ UNCHANGED home
              /\ birth' = [birth EXCEPT ![t] = home[t]]
           \/ /\ birth' = [birth EXCEPT ![t] = 0] /\ birth[t] # 0
              /\ \E u \in Threads : /\ home[u] = 0
                                    /\ home' = [home EXCEPT ![u] = birth[t]]
<1>1. CASE Guest(t)
  BY <1>1
     DEF Guest, CageCall, GrateForwards, GrateCall, GrateReturns, Push
<1>2. CASE Dispatch(t)
  BY <1>2
     DEF Dispatch, Check, LookupFound, LookupFails, Recheck, Borrow, AddInflight,
         CheckDead
<1>3. CASE Handler(t)
  BY <1>3
     DEF Handler, RegisterCheck, RegisterApply, RawPlain, RawExit, ExitGroupLoser,
         ExitGroupWinner, ExitGroupMark, ExitGroupKill, ExitGroupPurge, RawFork,
         ForkCopyTable, RawThread
<1>4. CASE Lifecycle(t)
  BY <1>4
     DEF Lifecycle, ForkChild, SpawnThread, StartThread, EpochKilled, ThreadExit,
         Drain, Remove, Crash, CrashMark, CrashPurge, CrashExit
<1> QED BY <1>1, <1>2, <1>3, <1>4 DEF StepOf

LEMMA BirthStep ==
    ASSUME TypeInv, IdInv, BirthInv, NEW t \in Threads, StepOf(t)
    PROVE  BirthInv'
<1>1. CASE UNCHANGED <<home, birth>>
  BY <1>1 DEF BirthInv, ForkPending
<1>2. CASE UNCHANGED home /\ birth' = [birth EXCEPT ![t] = nextId + 1]
  <2>1. /\ nextId \in Int
        /\ \A u \in Threads : /\ home[u] \in Int /\ home[u] =< nextId
                              /\ birth[u] \in Int /\ birth[u] =< nextId
    BY DEF TypeInv, TypeOK, Cages, IdInv
  <2>2. \A u \in Threads : birth'[u] = IF u = t THEN nextId + 1 ELSE birth[u]
    BY <1>2 DEF TypeInv, TypeOK
  <2>3. home[t] # 0
    BY MoverHome
  <2> QED BY <1>2, <2>1, <2>2, <2>3 DEF BirthInv, ForkPending
<1>3. CASE UNCHANGED home /\ birth' = [birth EXCEPT ![t] = home[t]]
  <2>1. \A u \in Threads : birth'[u] = IF u = t THEN home[t] ELSE birth[u]
    BY <1>3 DEF TypeInv, TypeOK
  <2> QED BY <1>3, <2>1 DEF BirthInv, ForkPending
<1>4. ASSUME NEW u \in Threads, home[u] = 0, home' = [home EXCEPT ![u] = birth[t]],
             birth' = [birth EXCEPT ![t] = 0], birth[t] # 0
      PROVE  BirthInv'
  <2>1. \A v \in Threads : /\ home'[v] = IF v = u THEN birth[t] ELSE home[v]
                           /\ birth'[v] = IF v = t THEN 0 ELSE birth[v]
    BY <1>4 DEF TypeInv, TypeOK
  <2>2. \A v \in Threads : ForkPending(v) /\ v # t => birth[v] # birth[t]
    BY DEF BirthInv, ForkPending
  <2> QED BY <1>4, <2>1, <2>2 DEF BirthInv, ForkPending
<1> QED BY <1>1, <1>2, <1>3, <1>4, BirthCases

\* A cage is alive as long as its main thread has not been told to leave: the
\* main thread stays registered, so no other thread is the last one.
LiveSteps == {"starting", "run", "unwind", "gone", "panicked"}
LiveThread(t) ==
    home[t] \in cages /\ ~dead[home[t]] =>
        /\ t \notin killed
        /\ step[t] \in LiveSteps
        /\ t \in mains => step[t] \in {"run", "panicked"} /\ t \in registered[home[t]]
MainInv ==
    /\ \A c \in Cages : \A t \in registered[c] : home[t] = c
    /\ \A t \in mains \cup killed : home[t] # 0
    /\ \A t \in Threads : home[t] # 0 => \E u \in mains : home[u] = home[t]
    /\ \A t \in Threads : LiveThread(t)

\* How a step changes the registrations.
LEMMA RegisteredCases ==
    ASSUME TypeInv, NEW t \in Threads, StepOf(t)
    PROVE  \/ UNCHANGED registered
           \/ registered' = [registered EXCEPT ![home[t]] = @ \cup {t}]
           \/ /\ registered' = [registered EXCEPT ![home[t]] = @ \ {t}]
              /\ step[t] \in {"unwind", "crash_exit"}
           \/ /\ ForkPending(t)
              /\ \E u \in Threads :
                    /\ home[u] = 0 /\ home' = [home EXCEPT ![u] = birth[t]]
                    /\ registered' = [registered EXCEPT ![birth[t]] = {u}]
<1>1. CASE Guest(t)
  BY <1>1
     DEF Guest, CageCall, GrateForwards, GrateCall, GrateReturns, Push
<1>2. CASE Dispatch(t)
  BY <1>2
     DEF Dispatch, Check, LookupFound, LookupFails, Recheck, Borrow, AddInflight,
         CheckDead
<1>3. CASE Handler(t)
  BY <1>3
     DEF Handler, RegisterCheck, RegisterApply, RawPlain, RawExit, ExitGroupLoser,
         ExitGroupWinner, ExitGroupMark, ExitGroupKill, ExitGroupPurge, RawFork,
         ForkCopyTable, RawThread
<1>4. CASE Lifecycle(t)
  BY <1>4
     DEF Lifecycle, ForkChild, SpawnThread, StartThread, EpochKilled, ThreadExit,
         Drain, Remove, Crash, CrashMark, CrashPurge, CrashExit, ForkPending
<1> QED BY <1>1, <1>2, <1>3, <1>4 DEF StepOf

LEMMA RegisteredHome ==
    ASSUME TypeInv, MainInv, NEW t \in Threads, StepOf(t)
    PROVE  \A c \in Cages : \A u \in registered'[c] : home'[u] = c
<1> SUFFICES ASSUME NEW c \in Cages, NEW u \in registered'[c] PROVE home'[u] = c
  OBVIOUS
<1>1. 0 \notin Cages
  BY DEF Cages
<1>2. /\ home[t] \in Cages /\ home'[t] = home[t]
      /\ registered \in [Cages -> SUBSET Threads]
  BY MoverHome, Monotone DEF TypeInv, TypeOK
<1>3. CASE u \in registered[c]
  <2>1. home[u] = c /\ home[u] # 0 /\ u \in Threads
    BY <1>1, <1>2, <1>3 DEF MainInv
  <2> QED BY <2>1, Monotone
<1>4. CASE u \notin registered[c] /\ ~ForkPending(t)
  <2>1. u = t /\ c = home[t]
    BY <1>2, <1>4, RegisteredCases
  <2> QED BY <1>2, <2>1
<1>5. CASE u \notin registered[c] /\ ForkPending(t)
  <2>1. birth[t] \in Cages
    BY <1>5 DEF ForkPending, TypeInv, TypeOK
  <2>2. CASE u = t /\ c = home[t]
    BY <1>2, <2>2
  <2>3. CASE ~(u = t /\ c = home[t])
    <3>1. PICK v \in Threads : /\ home[v] = 0 /\ home' = [home EXCEPT ![v] = birth[t]]
                               /\ registered' = [registered EXCEPT ![birth[t]] = {v}]
      BY <1>2, <1>5, <2>3, RegisteredCases
    <3> QED BY <1>2, <1>5, <2>1, <3>1 DEF TypeInv, TypeOK
  <2> QED BY <2>2, <2>3
<1> QED BY <1>3, <1>4, <1>5

\* How a step changes the set of killed threads.
LEMMA KilledCases ==
    ASSUME TypeInv, MainInv, CallInv, NEW t \in Threads, StepOf(t)
    PROVE  \A u \in killed' : u \in killed \/ (home[u] \in Cages /\ dead[home[u]])
<1>1. CASE ExitGroupKill(t)
  <2>1. Top(t).target \in Cages /\ dead[Top(t).target]
    <3>1. depth[t] \in Levels /\ Top(t) \in Frame /\ Top(t).pc = "kill"
      BY <1>1, TopFrame DEF ExitGroupKill, At, TypeInv
    <3>2. CallAt(t, depth[t])
      BY <3>1 DEF CallInv
    <3> QED BY <3>1, <3>2 DEF CallAt, Top, Teardown, Frame
  <2> QED BY <1>1, <2>1 DEF ExitGroupKill, MainInv
<1>2. CASE ~ExitGroupKill(t)
  <2>1. UNCHANGED killed
    <3>1. CASE Guest(t) \/ Dispatch(t)
      BY <3>1
         DEF Guest, CageCall, GrateForwards, GrateCall, GrateReturns, Dispatch,
             Check, LookupFound, LookupFails, Recheck, Borrow, AddInflight,
             CheckDead, Push
    <3>2. CASE Handler(t)
      BY <1>2, <3>2
         DEF Handler, RegisterCheck, RegisterApply, RawPlain, RawExit,
             ExitGroupLoser, ExitGroupWinner, ExitGroupMark, ExitGroupPurge,
             RawFork, ForkCopyTable, RawThread
    <3>3. CASE Lifecycle(t)
      BY <3>3
         DEF Lifecycle, ForkChild, SpawnThread, StartThread, EpochKilled,
             ThreadExit, Drain, Remove, Crash, CrashMark, CrashPurge, CrashExit
    <3> QED BY <3>1, <3>2, <3>3 DEF StepOf
  <2> QED BY <2>1
<1> QED BY <1>1, <1>2

TeardownInv == TypeInv /\ IdInv /\ InflightExact /\ CallInv /\ BirthInv /\ MainInv

Live(t) == home[t] \in cages /\ ~dead[home[t]]

\* The parts of TeardownInv a proof about one thread in a live cage uses.
LEMMA LiveBefore ==
    ASSUME TypeInv, IdInv, NEW t \in Threads, StepOf(t),
           NEW u \in Threads, home[u] # 0, Live(u)'
    PROVE  Live(u) /\ home'[u] = home[u]
<1>1. home'[u] = home[u] /\ home[u] \in Cages
  BY Monotone DEF TypeInv, TypeOK
<1>2. home[u] \in Int /\ nextId \in Int /\ home[u] =< nextId
  BY DEF TypeInv, TypeOK, Cages, IdInv
<1>3. home[u] \in cages
  BY <1>1, <1>2, IdSources DEF Live, StepOf
<1>4. ~dead[home[u]]
  BY <1>1, DeadMonotone DEF Live, TypeInv, TypeOK
<1> QED BY <1>1, <1>3, <1>4 DEF Live

\* A thread of a live cage leaves its program only by its own exit call, and the
\* main thread not at all.
LEMMA OwnStep ==
    ASSUME TypeInv, CallInv, MainInv, NEW t \in Threads, StepOf(t), Live(t), Live(t)',
           home'[t] = home[t]
    PROVE  /\ step'[t] \in LiveSteps
           /\ t \in mains => step'[t] \in {"run", "panicked"}
<1>1. /\ t \notin killed /\ step[t] \in LiveSteps
      /\ t \in mains => step[t] \in {"run", "panicked"} /\ t \in registered[home[t]]
      /\ home[t] \in cages /\ ~dead[home[t]] /\ ~dead'[home[t]] /\ home[t] \in Cages
      /\ step \in [Threads -> Steps]
  BY DEF MainInv, LiveThread, Live, TypeInv, TypeOK
<1>2. CASE Guest(t)
  <2>1. UNCHANGED step
    BY <1>2
       DEF Guest, CageCall, GrateForwards, GrateCall, GrateReturns, Push
  <2> QED BY <1>1, <2>1
<1>3. CASE Dispatch(t)
  <2>1. UNCHANGED step \/ Panic(t)
    BY <1>3
       DEF Dispatch, Check, LookupFound, LookupFails, Recheck, Borrow, AddInflight,
           CheckDead
  <2> QED BY <1>1, <2>1 DEF Panic, LiveSteps
<1>4. CASE Handler(t)
  <2>1. ASSUME depth[t] > 0, NEW op, Top(t).req.op = op, Top(t).pc # "none"
        PROVE  CallAt(t, depth[t]) /\ depth[t] \in Levels
    BY <2>1, TopFrame DEF CallInv, TypeInv
  <2>2. CASE RawExit(t)
    <3>1. t \notin mains
      BY <2>1, <2>2 DEF RawExit, RawAt, At, Top, CallAt
    <3> QED BY <1>1, <2>2, <3>1 DEF RawExit, Unwind, Panic, LiveSteps
  <2>3. ~ExitGroupLoser(t)
    <3> SUFFICES ASSUME ExitGroupLoser(t) PROVE FALSE
      OBVIOUS
    <3>1. Top(t).target = home[t]
      BY <2>1 DEF ExitGroupLoser, RawAt, At, Top, CallAt
    <3> QED BY <1>1, <3>1 DEF ExitGroupLoser, CallInv
  <2>4. ~ExitGroupPurge(t)
    <3> SUFFICES ASSUME ExitGroupPurge(t) PROVE FALSE
      OBVIOUS
    <3>1. Top(t).target = home[t] /\ dead[Top(t).target]
      BY <2>1 DEF ExitGroupPurge, At, Top, CallAt, Teardown
    <3> QED BY <1>1, <3>1
  <2>5. CASE ~RawExit(t)
    <3>1. UNCHANGED step \/ Panic(t)
      BY <1>4, <2>3, <2>4, <2>5
         DEF Handler, RegisterCheck, RegisterApply, RawPlain, ExitGroupWinner,
             ExitGroupMark, ExitGroupKill, RawFork, ForkCopyTable, RawThread
    <3> QED BY <1>1, <3>1 DEF Panic, LiveSteps
  <2> QED BY <2>2, <2>5
<1>5. CASE Lifecycle(t)
  <2>1. CASE ForkChild(t) \/ SpawnThread(t)
    <3>1. step'[t] = step[t]
      <4>1. home[t] # 0
        BY <1>1 DEF Cages
      <4> QED BY <1>1, <2>1, <4>1 DEF ForkChild, SpawnThread
    <3> QED BY <1>1, <3>1
  <2>2. CASE StartThread(t)
    BY <1>1, <2>2 DEF StartThread, LiveSteps
  <2>3. CASE ThreadExit(t)
    <3>1. t \notin mains
      BY <1>1, <2>3 DEF ThreadExit
    <3>2. PICK v \in mains : home[v] = home[t]
      BY <1>1 DEF MainInv, Cages
    <3>3. v \in registered[home[t]] /\ v # t
      BY <1>1, <3>1, <3>2 DEF MainInv, LiveThread, TypeInv, TypeOK
    <3>4. step'[t] = "gone"
      BY <1>1, <2>3, <3>3 DEF ThreadExit
    <3> QED BY <3>1, <3>4 DEF LiveSteps
  <2>4. ~EpochKilled(t) /\ ~Drain(t) /\ ~Remove(t) /\ ~CrashMark(t) /\ ~CrashPurge(t)
        /\ ~CrashExit(t)
    BY <1>1 DEF EpochKilled, Drain, Remove, CrashMark, CrashPurge, CrashExit, LiveSteps
  <2>5. ~Crash(t)
    BY <1>1 DEF Crash, TypeInv, TypeOK
  <2> QED BY <1>5, <2>1, <2>2, <2>3, <2>4, <2>5 DEF Lifecycle
<1> QED BY <1>2, <1>3, <1>4, <1>5 DEF StepOf

LEMMA HomeCases ==
    ASSUME TypeInv, NEW t \in Threads, StepOf(t), ~ForkChild(t), ~SpawnThread(t)
    PROVE  UNCHANGED home
<1>1. CASE Guest(t) \/ Dispatch(t)
  BY <1>1
     DEF Guest, CageCall, GrateForwards, GrateCall, GrateReturns, Dispatch, Check,
         LookupFound, LookupFails, Recheck, Borrow, AddInflight, CheckDead, Push
<1>2. CASE Handler(t)
  BY <1>2
     DEF Handler, RegisterCheck, RegisterApply, RawPlain, RawExit, ExitGroupLoser,
         ExitGroupWinner, ExitGroupMark, ExitGroupKill, ExitGroupPurge, RawFork,
         ForkCopyTable, RawThread
<1>3. CASE Lifecycle(t)
  BY <1>3
     DEF Lifecycle, StartThread, EpochKilled, ThreadExit, Drain, Remove, Crash,
         CrashMark, CrashPurge, CrashExit
<1> QED BY <1>1, <1>2, <1>3 DEF StepOf

LEMMA MainStep ==
    ASSUME TeardownInv, NEW t \in Threads, StepOf(t)
    PROVE  MainInv'
<1> USE DEF TeardownInv
<1>0. /\ 0 \notin Cages /\ mains \subseteq Threads /\ killed \subseteq Threads
      /\ registered \in [Cages -> SUBSET Threads]
  BY DEF Cages, TypeInv, TypeOK
<1>1. \A c \in Cages : \A u \in registered'[c] : home'[u] = c
  BY RegisteredHome
<1>2. \A u \in mains' \cup killed' : home'[u] # 0
  <2>1. ASSUME NEW u \in mains' PROVE home'[u] # 0
    BY <1>0, Monotone DEF MainInv
  <2>2. ASSUME NEW u \in killed' PROVE home'[u] # 0
    <3>1. CASE u \in killed
      BY <1>0, <3>1, Monotone DEF MainInv
    <3>2. CASE u \notin killed
      <4>1. u \in Threads
        BY TypeNext DEF StepOf, Next, TypeInv, TypeOK
      <4> QED BY <1>0, <3>2, <4>1, KilledCases, Monotone
    <3> QED BY <3>1, <3>2
  <2> QED BY <2>1, <2>2
<1>3. ASSUME NEW u \in Threads, home'[u] # 0 PROVE \E v \in mains' : home'[v] = home'[u]
  <2>1. CASE home[u] # 0
    <3>1. PICK v \in mains : home[v] = home[u]
      BY <2>1 DEF MainInv
    <3> QED BY <1>0, <2>1, <3>1, Monotone
  <2>2. CASE home[u] = 0
    <3>1. CASE ForkChild(t)
      BY <1>3, <2>2, <3>1 DEF ForkChild, TypeInv, TypeOK
    <3>2. CASE ~ForkChild(t)
      <4>1. home'[u] = home[t] /\ home[t] # 0
        <5>1. CASE SpawnThread(t)
          BY <1>3, <2>2, <5>1, MoverHome DEF SpawnThread, TypeInv, TypeOK
        <5>2. CASE ~SpawnThread(t)
          <6>1. UNCHANGED home
            BY <3>2, <5>2, HomeCases
          <6> QED BY <1>3, <2>2, <6>1
        <5> QED BY <5>1, <5>2
      <4>2. PICK v \in mains : home[v] = home[t]
        BY <4>1 DEF MainInv
      <4> QED BY <1>0, <4>1, <4>2, Monotone
    <3> QED BY <3>1, <3>2
  <2> QED BY <2>1, <2>2
<1>4. ASSUME NEW u \in Threads, Live(u)'
      PROVE  /\ u \notin killed' /\ step'[u] \in LiveSteps
             /\ u \in mains' => /\ step'[u] \in {"run", "panicked"}
                                /\ u \in registered'[home'[u]]
  <2>1. CASE home[u] # 0
    <3>1. Live(u) /\ home'[u] = home[u] /\ (u \in mains' => u \in mains)
      BY <1>4, <2>1, LiveBefore, Monotone
    <3>2. /\ u \notin killed /\ step[u] \in LiveSteps /\ home[u] \in Cages
          /\ u \in mains => step[u] \in {"run", "panicked"} /\ u \in registered[home[u]]
      BY <3>1 DEF Live, MainInv, LiveThread, TypeInv, TypeOK
    <3>3. u \notin killed'
      BY <3>1, <3>2, KilledCases DEF Live
    <3>4. /\ step'[u] \in LiveSteps
          /\ u \in mains => step'[u] \in {"run", "panicked"}
      <4>1. CASE u = t
        BY <1>4, <3>1, <4>1, OwnStep
      <4>2. CASE u # t
        BY <2>1, <3>2, <4>2, OtherStep
      <4> QED BY <4>1, <4>2
    <3>5. u \in mains => u \in registered'[home[u]]
      <4> SUFFICES ASSUME u \in mains PROVE u \in registered'[home[u]]
        OBVIOUS
      <4>1. u \in registered[home[u]] /\ step[u] \notin {"unwind", "crash_exit"}
        BY <3>2
      <4>2. ForkPending(t) => birth[t] # home[u]
        BY DEF BirthInv
      <4> QED BY <1>0, <3>2, <4>1, <4>2, RegisteredCases
    <3> QED BY <3>1, <3>3, <3>4, <3>5
  <2>2. CASE home[u] = 0
    <3>1. home'[u] # 0
      <4>1. TypeInv'
        BY TypeNext DEF StepOf, Next
      <4> QED BY <1>4, <4>1 DEF Live, TypeInv, TypeOK, Cages
    <3>2. u \notin killed'
      BY <1>0, <2>2, KilledCases DEF MainInv
    <3>3. CASE ForkChild(t)
      BY <2>2, <3>1, <3>2, <3>3 DEF ForkChild, TypeInv, TypeOK, LiveSteps
    <3>4. CASE SpawnThread(t)
      <4>1. u \notin mains'
        BY <2>2, <3>4 DEF SpawnThread, MainInv
      <4>2. step'[u] = "starting"
        BY <2>2, <3>1, <3>4 DEF SpawnThread, TypeInv, TypeOK
      <4> QED BY <3>2, <4>1, <4>2 DEF LiveSteps
    <3> QED BY <2>2, <3>1, <3>3, <3>4, HomeCases
  <2> QED BY <2>1, <2>2
<1> QED BY <1>1, <1>2, <1>3, <1>4 DEF MainInv, LiveThread, Live

-----------------------------------------------------------------------------
(***************************************************************************)
(* Layer 5: a cage is not removed under a running grate function.          *)
(***************************************************************************)

\* Once cage_finalize has seen the counter at zero no call enters again.
RemoveInv ==
    \A t \in Threads : step[t] = "remove" /\ home[t] \in cages =>
        \A k \in CallKeys : frame[k].pc = "run" => frame[k].dest # home[t]

\* A grate function is entered only while is_dead of its cage is false.
LEMMA RunOrigin ==
    ASSUME TypeInv, NEW t \in Threads, StepOf(t), NEW k \in CallKeys,
           frame'[k].pc = "run"
    PROVE  \/ frame[k].pc = "run" /\ frame'[k].dest = frame[k].dest
           \/ /\ frame'[k].dest \in cages /\ ~dead[frame'[k].dest]
              /\ UNCHANGED <<cages, step>>
<1>1. CASE Quiet
  BY <1>1 DEF Quiet, Counted
<1>2. CASE AddInflight(t) \/ CheckDead(t) \/ GrateReturns(t)
  <2>1. depth[t] > 0
    BY <1>2 DEF AddInflight, CheckDead, GrateReturns, At
  <2>2. CASE k # <<t, depth[t]>>
    BY <1>2, <2>1, <2>2, GotoFrame, ReturnFrame
       DEF AddInflight, CheckDead, GrateReturns, Panic
  <2>3. CASE k = <<t, depth[t]>>
    BY <1>2, <2>1, <2>3, GotoFrame, ReturnFrame
       DEF AddInflight, CheckDead, GrateReturns, Panic, Top
  <2> QED BY <2>2, <2>3
<1> QED BY <1>1, <1>2, QuietStep DEF StepOf

\* A cage that is in CAGE_MAP after a step and already had threads was in it.
LEMMA CageBefore ==
    ASSUME TypeInv, IdInv, NEW t \in Threads, StepOf(t),
           NEW u \in Threads, home[u] # 0, home'[u] \in cages'
    PROVE  home'[u] = home[u] /\ home[u] \in cages
<1>1. home'[u] = home[u]
  BY Monotone
<1>2. home[u] \in Int /\ nextId \in Int /\ home[u] =< nextId
  BY DEF TypeInv, TypeOK, Cages, IdInv
<1> QED BY <1>1, <1>2, IdSources DEF StepOf

\* A thread begins with its program or waiting for its registration.
LEMMA NewThread ==
    ASSUME TypeInv, TypeInv', NEW t \in Threads, StepOf(t), NEW u \in Threads,
           home[u] = 0, home'[u] # 0
    PROVE  step'[u] \in {"run", "starting"}
<1>1. ForkChild(t) \/ SpawnThread(t)
  BY HomeCases
<1> QED BY <1>1 DEF ForkChild, SpawnThread, TypeInv, TypeOK

LEMMA RemoveStep ==
    ASSUME TeardownInv, RemoveInv, NEW t \in Threads, StepOf(t), TypeInv'
    PROVE  RemoveInv'
<1> USE DEF TeardownInv
<1> SUFFICES ASSUME NEW u \in Threads, step'[u] = "remove", home'[u] \in cages',
                    NEW k \in CallKeys, frame'[k].pc = "run", frame'[k].dest = home'[u]
             PROVE  FALSE
  BY DEF RemoveInv
<1>1. home[u] # 0
  <2>1. home'[u] # 0
    BY DEF TypeInv, TypeOK, Cages
  <2> QED BY <2>1, NewThread
<1>2. home'[u] = home[u] /\ home[u] \in cages
  BY <1>1, CageBefore
<1>3. CASE step[u] = "remove"
  <2>1. dead[home[u]]
    BY <1>2, <1>3 DEF MainInv, LiveThread, LiveSteps
  <2> QED BY <1>2, <1>3, <2>1, RunOrigin DEF RemoveInv
<1>4. CASE step[u] # "remove"
  <2>1. u = t
    BY <1>1, <1>4, OtherStep
  <2>2. Drain(t)
    <3>1. CASE Guest(t) \/ Dispatch(t)
      BY <1>4, <2>1, <3>1
         DEF Guest, CageCall, GrateForwards, GrateCall, GrateReturns, Dispatch,
             Check, LookupFound, LookupFails, Recheck, Borrow, AddInflight,
             CheckDead, Push, Panic, TypeInv, TypeOK
    <3>2. CASE Handler(t)
      BY <1>4, <2>1, <3>2
         DEF Handler, RegisterCheck, RegisterApply, RawPlain, RawExit,
             ExitGroupLoser, ExitGroupWinner, ExitGroupMark, ExitGroupKill,
             ExitGroupPurge, RawFork, ForkCopyTable, RawThread, Panic, Unwind,
             TypeInv, TypeOK
    <3>3. CASE Lifecycle(t)
      BY <1>1, <1>4, <2>1, <3>3
         DEF Lifecycle, ForkChild, SpawnThread, StartThread, EpochKilled,
             ThreadExit, Remove, Crash, CrashMark, CrashPurge, CrashExit, TypeInv,
             TypeOK
    <3> QED BY <3>1, <3>2, <3>3 DEF StepOf
  <2>3. inflight[home[t]] = 0 /\ UNCHANGED frame
    BY <1>2, <2>1, <2>2 DEF Drain, Drained
  <2>4. Holders(home[t]) = {}
    BY <1>2, <2>1, <2>3, HoldersFinite, FS_EmptySet DEF InflightExact
  <2>5. k \in Holders(home[t])
    BY <1>2, <2>1, <2>3 DEF Holders, CallKeys
  <2> QED BY <2>4, <2>5
<1> QED BY <1>3, <1>4

LEMMA DispatchStep ==
    ASSUME TeardownInv, RemoveInv, DispatchInLiveCage, NEW t \in Threads, StepOf(t)
    PROVE  DispatchInLiveCage'
<1> USE DEF TeardownInv
<1> SUFFICES ASSUME NEW k \in CallKeys, frame'[k].pc = "run"
             PROVE  frame'[k].dest \in cages'
  BY DEF DispatchInLiveCage, CallKeys
<1>1. frame'[k].dest \in cages
  BY RunOrigin DEF DispatchInLiveCage, CallKeys
<1>2. CASE Remove(t)
  <2>1. UNCHANGED frame
    BY <1>2 DEF Remove
  <2>2. frame[k].dest # home[t]
    BY <1>1, <1>2, <2>1 DEF Remove, RemoveInv
  <2> QED BY <1>1, <1>2, <2>1, <2>2 DEF Remove
<1>3. CASE ~Remove(t)
  <2>1. cages \subseteq cages'
    <3>1. CASE Guest(t) \/ Dispatch(t)
      BY <3>1
         DEF Guest, CageCall, GrateForwards, GrateCall, GrateReturns, Dispatch,
             Check, LookupFound, LookupFails, Recheck, Borrow, AddInflight,
             CheckDead, Push
    <3>2. CASE Handler(t)
      BY <3>2
         DEF Handler, RegisterCheck, RegisterApply, RawPlain, RawExit,
             ExitGroupLoser, ExitGroupWinner, ExitGroupMark, ExitGroupKill,
             ExitGroupPurge, RawFork, ForkCopyTable, RawThread
    <3>3. CASE Lifecycle(t)
      BY <1>3, <3>3
         DEF Lifecycle, ForkChild, SpawnThread, StartThread, EpochKilled,
             ThreadExit, Drain, Crash, CrashMark, CrashPurge, CrashExit
    <3> QED BY <3>1, <3>2, <3>3 DEF StepOf
  <2> QED BY <1>1, <2>1
<1> QED BY <1>2, <1>3

DispatchInv == TeardownInv /\ RemoveInv /\ DispatchInLiveCage

LEMMA DispatchInit == Init => DispatchInv
<1> SUFFICES ASSUME Init PROVE DispatchInv
  OBVIOUS
<1>1. InflightInv
  BY InflightInit
<1>2. \A k \in CallKeys : frame[k].pc = "none"
  BY DEF Init, CallKeys, NoFrame
<1>3. CallInv
  BY <1>2 DEF Init, CallInv, CallAt, CallKeys, Teardown
<1>4. BirthInv
  BY DEF Init, BirthInv, ForkPending
<1>5. PICK t0 \in Threads :
         /\ registered = [c \in Cages |-> IF c = INIT_CAGEID THEN {t0} ELSE {}]
         /\ home = [t \in Threads |-> IF t = t0 THEN INIT_CAGEID ELSE 0]
         /\ mains = {t0} /\ killed = {} /\ cages = {INIT_CAGEID}
         /\ step = [t \in Threads |-> IF t = t0 THEN "run" ELSE "none"]
  BY DEF Init
<1>6. MainInv
  BY <1>5, Constants DEF MainInv, LiveThread, LiveSteps, INIT_CAGEID
<1>7. RemoveInv /\ DispatchInLiveCage
  BY <1>2 DEF RemoveInv, DispatchInLiveCage, CallKeys
<1> QED BY <1>1, <1>3, <1>4, <1>6, <1>7 DEF DispatchInv, TeardownInv, InflightInv

LEMMA DispatchNext == DispatchInv /\ [Next]_vars => DispatchInv'
<1> SUFFICES ASSUME DispatchInv, [Next]_vars PROVE DispatchInv'
  OBVIOUS
<1>1. InflightInv'
  BY InflightNext DEF DispatchInv, TeardownInv, InflightInv
<1>2. CASE UNCHANGED vars
  <2>1. CallInv' /\ BirthInv' /\ MainInv'
    BY <1>2 DEF vars, DispatchInv, TeardownInv, CallInv, CallAt, BirthInv, ForkPending,
       MainInv, LiveThread
  <2>2. RemoveInv' /\ DispatchInLiveCage'
    BY <1>2 DEF vars, DispatchInv, RemoveInv, DispatchInLiveCage
  <2> QED BY <1>1, <2>1, <2>2 DEF DispatchInv, TeardownInv, InflightInv
<1>3. CASE Next
  <2>1. PICK t \in Threads : StepOf(t)
    BY <1>3 DEF Next, StepOf
  <2>2. CallInv' /\ BirthInv' /\ MainInv'
    BY <1>1, <2>1, CallStep, BirthStep, MainStep DEF DispatchInv, TeardownInv, InflightInv
  <2>3. RemoveInv' /\ DispatchInLiveCage'
    BY <1>1, <2>1, RemoveStep, DispatchStep DEF DispatchInv, InflightInv
  <2> QED BY <1>1, <2>2, <2>3 DEF DispatchInv, TeardownInv, InflightInv
<1> QED BY <1>2, <1>3

\* The in-flight protocol between make_syscall and cage_finalize works: the cage
\* of a running grate function is in CAGE_MAP.
THEOREM DispatchSafe == Spec => []DispatchInLiveCage
<1>1. DispatchInv => DispatchInLiveCage
  BY DEF DispatchInv
<1> QED BY <1>1, DispatchInit, DispatchNext, PTL DEF Spec

-----------------------------------------------------------------------------
(***************************************************************************)
(* Layer 6: a removed cage is in EXITING_TABLE.                            *)
(***************************************************************************)

\* Between is_dead and EXITING_TABLE the thread that is about to insert the cage
\* is registered with it, so no other thread is the last one to leave.
Marking(t, c) == /\ home[t] = c
                 /\ step[t] = "crash_mark" \/ At(t, "mark")
RegisteredInv ==
    \A t \in Threads : step[t] \in {"run", "unwind", "crash_mark"} /\ home[t] \in cages
                           => t \in registered[home[t]]
MarkedInv ==
    \A t \in Threads :
        /\ step[t] \in {"crash_purge", "crash_exit", "drain", "remove"}
        /\ home[t] \in cages
        => home[t] \in exiting
DeadInv ==
    /\ \A c \in Cages : c > nextId => ~dead[c]
    /\ \A c \in cages : dead[c] /\ c \notin exiting => \E t \in Threads : Marking(t, c)

LEMMA RegisteredStep ==
    ASSUME TeardownInv, RegisteredInv, NEW t \in Threads, StepOf(t), TypeInv'
    PROVE  RegisteredInv'
<1> USE DEF TeardownInv
<1> SUFFICES ASSUME NEW u \in Threads, step'[u] \in {"run", "unwind", "crash_mark"},
                    home'[u] \in cages'
             PROVE  u \in registered'[home'[u]]
  BY DEF RegisteredInv
<1>1. CASE home[u] = 0
  <2>1. home'[u] # 0
    BY DEF TypeInv, TypeOK, Cages
  <2>2. CASE ForkChild(t)
    BY <1>1, <2>1, <2>2 DEF ForkChild, TypeInv, TypeOK
  <2>3. CASE SpawnThread(t)
    BY <1>1, <2>1, <2>3 DEF SpawnThread, TypeInv, TypeOK
  <2> QED BY <1>1, <2>1, <2>2, <2>3, HomeCases
<1>2. CASE home[u] # 0
  <2>1. home'[u] = home[u] /\ home[u] \in cages /\ home[u] \in Cages
    BY <1>2, CageBefore DEF TypeInv, TypeOK
  <2>2. ForkPending(t) => birth[t] # home[u]
    BY DEF BirthInv
  <2>3. registered \in [Cages -> SUBSET Threads] /\ step \in [Threads -> Steps]
    BY DEF TypeInv, TypeOK
  <2>4. CASE u # t
    <3>1. step'[u] = step[u]
      BY <1>2, <2>4, OtherStep
    <3>2. u \in registered[home[u]]
      BY <2>1, <3>1 DEF RegisteredInv
    <3> QED BY <2>1, <2>2, <2>3, <2>4, <3>2, RegisteredCases
  <2>5. CASE u = t /\ StartThread(t)
    BY <2>1, <2>3, <2>5 DEF StartThread
  <2>6. CASE u = t /\ ~StartThread(t)
    <3>1. step[t] \in {"run", "unwind"} /\ ~ThreadExit(t)
      <4>1. CASE Guest(t) \/ Dispatch(t)
        BY <2>3, <2>6, <4>1
           DEF Guest, CageCall, GrateForwards, GrateCall, GrateReturns, Dispatch,
               Check, LookupFound, LookupFails, Recheck, Borrow, AddInflight,
               CheckDead, Push, Panic, TypeInv, StepInv, At, ThreadExit
      <4>2. CASE Handler(t)
        BY <2>3, <2>6, <4>2
           DEF Handler, RegisterCheck, RegisterApply, RawPlain, RawExit,
               ExitGroupLoser, ExitGroupWinner, ExitGroupMark, ExitGroupKill,
               ExitGroupPurge, RawFork, ForkCopyTable, RawThread, Panic, Unwind,
               TypeInv, StepInv, RawAt, At, ThreadExit
      <4>3. CASE Lifecycle(t)
        BY <1>2, <2>3, <2>6, <4>3
           DEF Lifecycle, ForkChild, SpawnThread, EpochKilled, ThreadExit, Drain,
               Remove, Crash, CrashMark, CrashPurge, CrashExit
      <4> QED BY <4>1, <4>2, <4>3 DEF StepOf
    <3>2. t \in registered[home[t]]
      BY <2>1, <2>6, <3>1 DEF RegisteredInv
    <3>3. ~(registered' = [registered EXCEPT ![home[t]] = @ \ {t}])
          \/ t \in registered'[home[t]]
      <4>1. CASE Guest(t) \/ Dispatch(t)
        BY <3>2, <4>1
           DEF Guest, CageCall, GrateForwards, GrateCall, GrateReturns, Dispatch,
               Check, LookupFound, LookupFails, Recheck, Borrow, AddInflight,
               CheckDead, Push
      <4>2. CASE Handler(t)
        BY <3>2, <4>2
           DEF Handler, RegisterCheck, RegisterApply, RawPlain, RawExit,
               ExitGroupLoser, ExitGroupWinner, ExitGroupMark, ExitGroupKill,
               ExitGroupPurge, RawFork, ForkCopyTable, RawThread
      <4>3. CASE Lifecycle(t)
        BY <1>2, <2>1, <2>2, <2>3, <2>6, <3>1, <3>2, <4>3
           DEF Lifecycle, ForkChild, SpawnThread, EpochKilled, Drain, Remove, Crash,
               CrashMark, CrashPurge, CrashExit, ForkPending
      <4> QED BY <4>1, <4>2, <4>3 DEF StepOf
    <3> QED BY <2>1, <2>2, <2>3, <2>6, <3>2, <3>3, RegisteredCases
  <2> QED BY <2>4, <2>5, <2>6
<1> QED BY <1>1, <1>2

LEMMA MarkedStep ==
    ASSUME TeardownInv, RegisteredInv, MarkedInv, DeadInv, NEW t \in Threads, StepOf(t),
           TypeInv'
    PROVE  MarkedInv'
<1> USE DEF TeardownInv
<1> DEFINE Late == {"crash_purge", "crash_exit", "drain", "remove"}
<1> SUFFICES ASSUME NEW u \in Threads, step'[u] \in Late, home'[u] \in cages'
             PROVE  home'[u] \in exiting'
  BY DEF MarkedInv
<1>1. home[u] # 0
  <2>1. home'[u] # 0
    BY DEF TypeInv, TypeOK, Cages
  <2> QED BY <2>1, NewThread
<1>2. home'[u] = home[u] /\ home[u] \in cages /\ home[u] \in Cages
  BY <1>1, CageBefore DEF TypeInv, TypeOK
<1>3. CASE step[u] \in Late
  BY <1>2, <1>3, Monotone DEF MarkedInv
<1>4. CASE step[u] \notin Late
  <2>1. u = t
    BY <1>1, <1>4, OtherStep
  <2>2. step \in [Threads -> Steps]
    BY DEF TypeInv, TypeOK
  <2>3. CrashMark(t) \/ ThreadExit(t)
    <3>1. CASE Guest(t) \/ Dispatch(t)
      BY <1>4, <2>1, <2>2, <3>1
         DEF Guest, CageCall, GrateForwards, GrateCall, GrateReturns, Dispatch,
             Check, LookupFound, LookupFails, Recheck, Borrow, AddInflight,
             CheckDead, Push, Panic
    <3>2. CASE Handler(t)
      BY <1>4, <2>1, <2>2, <3>2
         DEF Handler, RegisterCheck, RegisterApply, RawPlain, RawExit,
             ExitGroupLoser, ExitGroupWinner, ExitGroupMark, ExitGroupKill,
             ExitGroupPurge, RawFork, ForkCopyTable, RawThread, Panic, Unwind
    <3>3. CASE Lifecycle(t)
      BY <1>1, <1>4, <2>1, <2>2, <3>3
         DEF Lifecycle, ForkChild, SpawnThread, StartThread, EpochKilled, Drain,
             Remove, Crash, CrashPurge, CrashExit
    <3> QED BY <3>1, <3>2, <3>3 DEF StepOf
  <2>4. CASE CrashMark(t)
    BY <1>2, <2>1, <2>4 DEF CrashMark, MarkExiting
  <2>5. CASE ThreadExit(t)
    <3>1. /\ step[t] = "unwind" /\ depth[t] = 0 /\ UNCHANGED <<dead, exiting>>
          /\ registered[home[t]] \ {t} = {}
      BY <1>2, <2>1, <2>2, <2>5 DEF ThreadExit
    <3>2. dead[home[t]]
      <4> SUFFICES ASSUME ~dead[home[t]] PROVE FALSE
        OBVIOUS
      <4>1. PICK v \in mains : home[v] = home[t]
        BY <1>1, <2>1 DEF MainInv
      <4>2. v \in registered[home[t]] /\ step[v] \in {"run", "panicked"} /\ v \in Threads
        BY <1>2, <2>1, <4>1 DEF MainInv, LiveThread, TypeInv, TypeOK
      <4> QED BY <3>1, <4>2
    <3>3. CASE home[t] \notin exiting
      <4>1. PICK v \in Threads : Marking(v, home[t])
        BY <1>2, <2>1, <3>2, <3>3 DEF DeadInv
      <4>2. v # t /\ step[v] \in {"run", "unwind", "crash_mark"}
        BY <3>1, <4>1 DEF Marking, At, TypeInv, StepInv
      <4>3. v \in registered[home[t]]
        BY <1>2, <2>1, <4>1, <4>2 DEF RegisteredInv, Marking
      <4> QED BY <3>1, <4>2, <4>3
    <3> QED BY <1>2, <2>1, <3>1, <3>3
  <2> QED BY <2>3, <2>4, <2>5
<1> QED BY <1>3, <1>4

\* The thread that sets is_dead is the one that inserts the cage next.
LEMMA NewlyDead ==
    ASSUME TypeInv, CallInv, NEW t \in Threads, StepOf(t), NEW c \in Cages,
           ~dead[c], dead'[c]
    PROVE  Marking(t, c)'
<1>1. CASE ExitGroupWinner(t)
  <2>1. /\ depth[t] > 0 /\ depth[t] \in Levels /\ Top(t).target \in Cages
        /\ Top(t).pc = "raw" /\ Top(t).req.op = "exit_group"
    BY <1>1, TopFrame DEF ExitGroupWinner, RawAt, At, Frame, TypeInv
  <2>2. Top(t).target = home[t]
    BY <2>1 DEF CallInv, CallAt, Top
  <2>3. c = home[t]
    BY <1>1, <2>1, <2>2 DEF ExitGroupWinner, TypeInv, TypeOK
  <2>4. UNCHANGED <<depth, home, step>> /\ frame'[<<t, depth[t]>>].pc = "mark"
    BY <1>1, <2>1, GotoFrame DEF ExitGroupWinner
  <2> QED BY <1>1, <2>1, <2>3, <2>4 DEF Marking, At, Top, ExitGroupWinner, RawAt
<1>2. CASE Crash(t)
  <2>1. c = home[t] /\ home'[t] = home[t] /\ step'[t] = "crash_mark"
    BY <1>2 DEF Crash, TypeInv, TypeOK
  <2> QED BY <2>1 DEF Marking
<1>3. CASE ~ExitGroupWinner(t) /\ ~Crash(t)
  <2>1. UNCHANGED dead
    <3>1. CASE Guest(t) \/ Dispatch(t)
      BY <3>1
         DEF Guest, CageCall, GrateForwards, GrateCall, GrateReturns, Dispatch,
             Check, LookupFound, LookupFails, Recheck, Borrow, AddInflight,
             CheckDead, Push
    <3>2. CASE Handler(t)
      BY <1>3, <3>2
         DEF Handler, RegisterCheck, RegisterApply, RawPlain, RawExit,
             ExitGroupLoser, ExitGroupMark, ExitGroupKill, ExitGroupPurge, RawFork,
             ForkCopyTable, RawThread
    <3>3. CASE Lifecycle(t)
      BY <1>3, <3>3
         DEF Lifecycle, ForkChild, SpawnThread, StartThread, EpochKilled,
             ThreadExit, Drain, Remove, CrashMark, CrashPurge, CrashExit
    <3> QED BY <3>1, <3>2, <3>3 DEF StepOf
  <2> QED BY <2>1
<1> QED BY <1>1, <1>2, <1>3

\* The next step of that thread inserts it.
LEMMA MarkingStep ==
    ASSUME TypeInv, CallInv, NEW t \in Threads, StepOf(t), NEW c, Marking(t, c)
    PROVE  c \in exiting'
<1>1. CASE step[t] = "crash_mark"
  <2>1. depth[t] = 0
    BY <1>1 DEF TypeInv, TypeOK, StepInv
  <2>2. CrashMark(t)
    <3>1. ~Guest(t) /\ ~Dispatch(t)
      BY <1>1, <2>1
         DEF Guest, CageCall, GrateForwards, GrateCall, GrateReturns, Dispatch,
             Check, LookupFound, LookupFails, Recheck, Borrow, AddInflight,
             CheckDead, At
    <3>2. ~Handler(t)
      BY <2>1
         DEF Handler, RegisterCheck, RegisterApply, RawPlain, RawExit,
             ExitGroupLoser, ExitGroupWinner, ExitGroupMark, ExitGroupKill,
             ExitGroupPurge, RawFork, ForkCopyTable, RawThread, RawAt, At
    <3>3. Lifecycle(t)
      BY <3>1, <3>2 DEF StepOf
    <3> QED BY <1>1, <3>3
         DEF Lifecycle, ForkChild, SpawnThread, StartThread, EpochKilled,
             ThreadExit, Drain, Remove, Crash, CrashPurge, CrashExit
  <2> QED BY <2>2 DEF CrashMark, MarkExiting, Marking
<1>2. CASE At(t, "mark")
  <2>1. depth[t] > 0 /\ Top(t).pc = "mark" /\ step[t] \in {"run", "unwind"}
    BY <1>2 DEF At, TypeInv, StepInv
  <2>2. ExitGroupMark(t)
    <3>1. ~Guest(t) /\ ~Dispatch(t)
      BY <2>1
         DEF Guest, CageCall, GrateForwards, GrateCall, GrateReturns, Dispatch,
             Check, LookupFound, LookupFails, Recheck, Borrow, AddInflight,
             CheckDead, At
    <3>2. ~Lifecycle(t)
      BY <2>1
         DEF Lifecycle, ForkChild, SpawnThread, StartThread, EpochKilled,
             ThreadExit, Drain, Remove, Crash, CrashMark, CrashPurge, CrashExit
    <3>3. Handler(t)
      BY <3>1, <3>2 DEF StepOf
    <3> QED BY <2>1, <3>3
         DEF Handler, RegisterCheck, RegisterApply, RawPlain, RawExit,
             ExitGroupLoser, ExitGroupWinner, ExitGroupKill, ExitGroupPurge,
             RawFork, ForkCopyTable, RawThread, RawAt, At
  <2>3. Top(t).target = home[t]
    <3>1. depth[t] \in Levels
      BY <2>1, TopFrame DEF TypeInv
    <3> QED BY <2>1, <3>1 DEF CallInv, CallAt, Top, Teardown
  <2> QED BY <2>2, <2>3 DEF ExitGroupMark, MarkExiting, Marking
<1> QED BY <1>1, <1>2 DEF Marking

LEMMA DeadStep ==
    ASSUME TeardownInv, DeadInv, NEW t \in Threads, StepOf(t), TypeInv'
    PROVE  DeadInv'
<1> USE DEF TeardownInv
<1>1. /\ nextId \in Int /\ nextId' \in Int /\ nextId =< nextId' /\ cages \subseteq Cages
      /\ Cages \subseteq Int /\ \A c \in cages : c =< nextId
  <2>1. nextId \in Int /\ nextId' \in Int
    BY DEF TypeInv, TypeOK, Cages
  <2>2. nextId =< nextId'
    BY <2>1, IdSources DEF StepOf
  <2> QED BY <2>1, <2>2 DEF TypeInv, TypeOK, Cages, IdInv
<1>2. \A c \in Cages : c \notin cages => dead'[c] = dead[c]
  BY <1>1, DeadMonotone DEF TypeInv, TypeOK
<1>3. \A c \in Cages : c > nextId' => ~dead'[c]
  <2> SUFFICES ASSUME NEW c \in Cages, c > nextId' PROVE ~dead'[c]
    OBVIOUS
  <2>1. c > nextId /\ c \notin cages
    BY <1>1
  <2> QED BY <1>2, <2>1 DEF DeadInv
<1>4. ASSUME NEW c \in cages', dead'[c], c \notin exiting'
      PROVE  \E v \in Threads : Marking(v, c)'
  <2>1. c \in Cages
    BY DEF TypeInv, TypeOK
  <2>2. c \in cages
    <3> SUFFICES ASSUME c \notin cages PROVE FALSE
      OBVIOUS
    <3>1. c > nextId
      BY <1>1, IdSources DEF StepOf
    <3> QED BY <1>2, <1>4, <2>1, <3>1 DEF DeadInv
  <2>3. CASE ~dead[c]
    BY <1>4, <2>1, <2>3, NewlyDead
  <2>4. CASE dead[c]
    <3>1. c \notin exiting
      BY <1>4, Monotone
    <3>2. PICK v \in Threads : Marking(v, c)
      BY <2>2, <2>4, <3>1 DEF DeadInv
    <3>3. v # t
      BY <1>4, <3>2, MarkingStep
    <3>4. home[v] # 0
      BY <2>1, <3>2 DEF Marking, Cages
    <3>5. home'[v] = home[v] /\ step'[v] = step[v] /\ depth'[v] = depth[v]
      BY <3>3, <3>4, Monotone, OtherStep, OtherCalls
    <3>6. depth[v] > 0 => frame'[<<v, depth[v]>>] = frame[<<v, depth[v]>>]
      BY <3>3, OtherCalls, TopFrame DEF TypeInv
    <3>7. Marking(v, c)'
      BY <3>2, <3>5, <3>6 DEF Marking, At, Top
    <3> QED BY <3>7
  <2> QED BY <2>3, <2>4
<1> QED BY <1>3, <1>4 DEF DeadInv

LEMMA RemovedStep ==
    ASSUME TeardownInv, MarkedInv, RemovedIsExiting, NEW t \in Threads, StepOf(t)
    PROVE  RemovedIsExiting'
<1> USE DEF TeardownInv
<1> SUFFICES ASSUME NEW c \in 1..nextId' PROVE c \in cages' \/ c \in exiting'
  BY DEF RemovedIsExiting
<1>1. CASE RawFork(t)
  BY <1>1 DEF RawFork, RemovedIsExiting, TypeInv, TypeOK, Cages
<1>2. CASE Remove(t)
  BY <1>2 DEF Remove, RemovedIsExiting, MarkedInv
<1>3. CASE ~RawFork(t) /\ ~Remove(t)
  <2>1. UNCHANGED <<cages, nextId>>
    <3>1. CASE Guest(t) \/ Dispatch(t)
      BY <3>1
         DEF Guest, CageCall, GrateForwards, GrateCall, GrateReturns, Dispatch,
             Check, LookupFound, LookupFails, Recheck, Borrow, AddInflight,
             CheckDead, Push
    <3>2. CASE Handler(t)
      BY <1>3, <3>2
         DEF Handler, RegisterCheck, RegisterApply, RawPlain, RawExit,
             ExitGroupLoser, ExitGroupWinner, ExitGroupMark, ExitGroupKill,
             ExitGroupPurge, ForkCopyTable, RawThread
    <3>3. CASE Lifecycle(t)
      BY <1>3, <3>3
         DEF Lifecycle, ForkChild, SpawnThread, StartThread, EpochKilled,
             ThreadExit, Drain, Crash, CrashMark, CrashPurge, CrashExit
    <3> QED BY <3>1, <3>2, <3>3 DEF StepOf
  <2> QED BY <2>1, Monotone DEF RemovedIsExiting
<1> QED BY <1>1, <1>2, <1>3

RemovedInv == /\ DispatchInv /\ RegisteredInv /\ MarkedInv /\ DeadInv
              /\ RemovedIsExiting

LEMMA RemovedInit == Init => RemovedInv
<1> SUFFICES ASSUME Init PROVE RemovedInv
  OBVIOUS
<1>1. PICK t0 \in Threads :
         /\ registered = [c \in Cages |-> IF c = INIT_CAGEID THEN {t0} ELSE {}]
         /\ home = [t \in Threads |-> IF t = t0 THEN INIT_CAGEID ELSE 0]
         /\ cages = {INIT_CAGEID} /\ nextId = INIT_CAGEID
         /\ dead = [c \in Cages |-> FALSE]
         /\ step = [t \in Threads |-> IF t = t0 THEN "run" ELSE "none"]
  BY DEF Init
<1>2. RegisteredInv /\ MarkedInv
  BY <1>1, Constants DEF RegisteredInv, MarkedInv
<1>3. DeadInv /\ RemovedIsExiting
  BY <1>1, Constants DEF DeadInv, RemovedIsExiting, INIT_CAGEID
<1> QED BY <1>2, <1>3, DispatchInit DEF RemovedInv

LEMMA RemovedNext == RemovedInv /\ [Next]_vars => RemovedInv'
<1> SUFFICES ASSUME RemovedInv, [Next]_vars PROVE RemovedInv'
  OBVIOUS
<1>1. DispatchInv' /\ TypeInv'
  BY DispatchNext DEF RemovedInv, DispatchInv, TeardownInv
<1>2. CASE UNCHANGED vars
  BY <1>1, <1>2 DEF vars, RemovedInv, RegisteredInv, MarkedInv, DeadInv, Marking, At, Top,
     RemovedIsExiting
<1>3. CASE Next
  <2>1. PICK t \in Threads : StepOf(t)
    BY <1>3 DEF Next, StepOf
  <2>2. RegisteredInv' /\ MarkedInv' /\ DeadInv' /\ RemovedIsExiting'
    BY <1>1, <2>1, RegisteredStep, MarkedStep, DeadStep, RemovedStep
       DEF RemovedInv, DispatchInv
  <2> QED BY <1>1, <2>2 DEF RemovedInv
<1> QED BY <1>2, <1>3

\* "EXITING_TABLE persists after remove_cage, catching calls to fully removed
\* cages": whichever thread removes a cage, by exit or by crash, an allocated id
\* that is not in CAGE_MAP is in EXITING_TABLE.
THEOREM RemovedMarked == Spec => []RemovedIsExiting
<1>1. RemovedInv => RemovedIsExiting
  BY DEF RemovedInv
<1> QED BY <1>1, RemovedInit, RemovedNext, PTL DEF Spec

-----------------------------------------------------------------------------
(***************************************************************************)
(* Layer 7: the cage a RawPOSIX function runs for is in CAGE_MAP.  The     *)
(* hypothesis is that cages have one thread: without it the last registered*)
(* thread removes the cage under one that has yet to register              *)
(* (CageOutlivesThreads).                                                  *)
(***************************************************************************)
SingleThreaded == \A r \in Requests : r.op # "thread"

\* No call in progress creates a thread.
OpInv == \A t \in Threads, i \in Levels :
            frame[<<t, i>>].pc # "none" => frame[<<t, i>>].req.op # "thread"

\* A call is on behalf of the caller's own cage, or of a cage whose grate function is
\* running further down the same stack.
TargetAt(t, i) ==
    \/ frame[<<t, i>>].target = home[t]
    \/ \E j \in Levels : /\ j < i /\ frame[<<t, j>>].pc = "run"
                         /\ frame[<<t, j>>].dest = frame[<<t, i>>].target
TargetInv == \A t \in Threads, i \in Levels : frame[<<t, i>>].pc # "none" => TargetAt(t, i)

\* A cage has one thread, which keeps it until it is gone; a child waits for its own.
HomeInv ==
    /\ \A t, u \in Threads : home[t] # 0 /\ home[t] = home[u] => t = u
    /\ \A t \in Threads : home[t] # 0 /\ step[t] # "gone" => home[t] \in cages
    /\ \A t \in Threads : birth[t] # 0 => birth[t] # home[t] /\ birth[t] \in cages

\* Only the top call of a thread changes.
LEMMA LowerCalls ==
    ASSUME TypeInv, NEW t \in Threads, StepOf(t), NEW i \in Levels, i < depth[t]
    PROVE  frame'[<<t, i>>] = frame[<<t, i>>]
<1>0. i \in Int /\ i > 0 /\ depth[t] \in Int
  BY ConstantsAssumption DEF Levels, TypeInv, TypeOK
<1> /\ <<t, i>> \in CallKeys /\ depth[t] > 0
    /\ <<t, i>> # <<t, depth[t]>> /\ <<t, i>> # <<t, depth[t] + 1>>
  BY <1>0 DEF CallKeys
<1>1. CASE CageCall(t) \/ GrateForwards(t) \/ GrateCall(t)
  <2>1. PICK c, r, d : Push(t, c, r, d)
    BY <1>1 DEF CageCall, GrateForwards, GrateCall
  <2> QED BY <2>1, PushFrame
<1>2. CASE LookupFound(t)
  BY <1>2, LookupFrame
<1>3. CASE UNCHANGED callVars
  BY <1>3
<1>4. CASE Return(t)
  BY <1>4, ReturnFrame
<1>5. ASSUME NEW pc, Goto(t, pc) PROVE frame'[<<t, i>>] = frame[<<t, i>>]
  BY <1>5, GotoFrame
<1>6. CASE ~(CageCall(t) \/ GrateForwards(t) \/ GrateCall(t) \/ LookupFound(t))
  <2>1. UNCHANGED callVars \/ Return(t) \/ \E pc : Goto(t, pc)
    <3>1. CASE GrateReturns(t) \/ Dispatch(t)
      BY <1>6, <3>1
         DEF Dispatch, Check, LookupFound, LookupFails, Recheck, Borrow,
             AddInflight, CheckDead, Panic, GrateReturns
    <3>2. CASE Handler(t)
      BY <3>2
         DEF Handler, RegisterCheck, RegisterApply, RawPlain, RawExit,
             ExitGroupLoser, ExitGroupWinner, ExitGroupMark, ExitGroupKill,
             ExitGroupPurge, RawFork, ForkCopyTable, RawThread, Panic, Unwind
    <3>3. CASE Lifecycle(t)
      BY <3>3
         DEF Lifecycle, ForkChild, SpawnThread, StartThread, EpochKilled,
             ThreadExit, Drain, Remove, Crash, CrashMark, CrashPurge, CrashExit
    <3> QED BY <1>6, <3>1, <3>2, <3>3 DEF StepOf, Guest
  <2> QED BY <1>3, <1>4, <1>5, <2>1
<1> QED BY <1>1, <1>2, <1>6

\* A call that did not exist is one that guest code has just made.
LEMMA PushedBy ==
    ASSUME TypeInv, NEW t \in Threads, StepOf(t), NEW i \in Levels,
           frame[<<t, i>>].pc = "none", frame'[<<t, i>>].pc # "none"
    PROVE  CageCall(t) \/ GrateForwards(t) \/ GrateCall(t)
<1> SUFFICES ASSUME ~(CageCall(t) \/ GrateForwards(t) \/ GrateCall(t)) PROVE FALSE
  OBVIOUS
<1> <<t, i>> \in CallKeys
  BY DEF CallKeys
<1>1. CASE LookupFound(t)
  BY <1>1, LookupFrame
<1>2. CASE UNCHANGED callVars
  BY <1>2
<1>3. ASSUME depth[t] > 0, Return(t) PROVE FALSE
  BY <1>3, ReturnFrame
<1>4. ASSUME depth[t] > 0, Top(t).pc # "none", NEW pc, Goto(t, pc) PROVE FALSE
  BY <1>4, GotoFrame DEF Top
<1>5. CASE GrateReturns(t) \/ (Dispatch(t) /\ ~LookupFound(t))
  BY <1>2, <1>3, <1>4, <1>5
     DEF Dispatch, Check, LookupFound, LookupFails, Recheck, Borrow, AddInflight,
         CheckDead, Panic, GrateReturns, At
<1>6. CASE Handler(t)
  BY <1>2, <1>3, <1>4, <1>6
     DEF Handler, RegisterCheck, RegisterApply, RawPlain, RawExit, ExitGroupLoser,
         ExitGroupWinner, ExitGroupMark, ExitGroupKill, ExitGroupPurge, RawFork,
         ForkCopyTable, RawThread, Panic, Unwind, RawAt, At
<1>7. CASE Lifecycle(t)
  BY <1>2, <1>7
     DEF Lifecycle, ForkChild, SpawnThread, StartThread, EpochKilled, ThreadExit,
         Drain, Remove, Crash, CrashMark, CrashPurge, CrashExit
<1> QED BY <1>1, <1>5, <1>6, <1>7 DEF StepOf, Guest

LEMMA OpStep ==
    ASSUME SingleThreaded, TypeInv, OpInv, NEW t \in Threads, StepOf(t)
    PROVE  OpInv'
<1> SUFFICES ASSUME NEW u \in Threads, NEW i \in Levels, frame'[<<u, i>>].pc # "none"
             PROVE  frame'[<<u, i>>].req.op # "thread"
  BY DEF OpInv
<1>1. CASE u # t
  BY <1>1, OtherCalls DEF OpInv
<1>2. CASE u = t
  <2>1. CASE Kept(t, i)
    BY <1>2, <2>1 DEF Kept, OpInv
  <2>2. CASE New(t, i)
    BY <1>2, <2>2 DEF New, OpInv, SingleThreaded
  <2> QED BY <1>2, <2>1, <2>2, CallOrigin
<1> QED BY <1>1, <1>2

LEMMA TargetStep ==
    ASSUME TypeInv, TargetInv, NEW t \in Threads, StepOf(t)
    PROVE  TargetInv'
<1> SUFFICES ASSUME NEW u \in Threads, NEW i \in Levels, frame'[<<u, i>>].pc # "none"
             PROVE  TargetAt(u, i)'
  BY DEF TargetInv
<1>1. CASE u # t
  <2>1. frame'[<<u, i>>] = frame[<<u, i>>] /\ \A j \in Levels : frame'[<<u, j>>] = frame[<<u, j>>]
    BY <1>1, OtherCalls
  <2>2. home'[u] = home[u]
    BY <2>1, CallerHome, Monotone
  <2>3. TargetAt(u, i)
    BY <2>1 DEF TargetInv
  <2> QED BY <2>1, <2>2, <2>3 DEF TargetAt
<1>2. CASE u = t
  <2>1. home'[t] = home[t]
    BY MoverHome, Monotone
  <2>2. i \in Int /\ depth[t] \in Int /\ \A j \in Levels : j \in Int
    BY DEF Levels, TypeInv, TypeOK
  <2>3. CASE Kept(t, i)
    <3>1. frame[<<t, i>>].pc # "none" /\ frame'[<<t, i>>].target = frame[<<t, i>>].target
      BY <2>3 DEF Kept
    <3>2. i <= depth[t] /\ TargetAt(t, i)
      <4>1. StackAt(t, i)
        BY DEF TypeInv, StackInv
      <4> QED BY <2>2, <3>1, <4>1 DEF StackAt, TargetInv
    <3>3. \A j \in Levels : j < i => frame'[<<t, j>>] = frame[<<t, j>>]
      BY <2>2, <3>2, LowerCalls
    <3> QED BY <1>2, <2>1, <3>1, <3>2, <3>3 DEF TargetAt
  <2>4. CASE New(t, i)
    <3>1. CASE frame'[<<t, i>>].target = home[t]
      BY <1>2, <2>1, <3>1 DEF TargetAt
    <3>2. CASE frame'[<<t, i>>].target # home[t]
      <4> DEFINE d == depth[t]
      <4>1. /\ d \in Levels /\ frame[<<t, d>>].pc = "run" /\ i = d + 1
            /\ \/ frame'[<<t, i>>].target = frame[<<t, d>>].target
               \/ frame'[<<t, i>>].target = frame[<<t, d>>].dest
        BY <2>4, <3>2 DEF New
      <4>2. \A j \in Levels : j < d => frame'[<<t, j>>] = frame[<<t, j>>]
        BY LowerCalls
      <4>3. frame'[<<t, d>>] = frame[<<t, d>>]
        <5>1. PICK c, r, e : Push(t, c, r, e)
          <6>1. frame[<<t, i>>].pc = "none"
            <7>1. StackAt(t, i)
              BY DEF TypeInv, StackInv
            <7> QED BY <2>2, <4>1, <7>1 DEF StackAt
          <6>2. CageCall(t) \/ GrateForwards(t) \/ GrateCall(t)
            BY <1>2, <6>1, PushedBy
          <6> QED BY <6>2 DEF CageCall, GrateForwards, GrateCall
        <5>2. <<t, d>> \in CallKeys /\ d # d + 1
          BY <2>2, <4>1 DEF CallKeys
        <5> QED BY <5>1, <5>2, PushFrame
      <4>4. CASE frame'[<<t, i>>].target = frame[<<t, d>>].dest
        BY <1>2, <2>2, <4>1, <4>3, <4>4 DEF TargetAt
      <4>5. CASE frame'[<<t, i>>].target = frame[<<t, d>>].target
        <5>1. TargetAt(t, d)
          BY <4>1 DEF TargetInv
        <5>2. PICK j \in Levels : /\ j < d /\ frame[<<t, j>>].pc = "run"
                                  /\ frame[<<t, j>>].dest = frame[<<t, d>>].target
          BY <3>2, <4>5, <5>1 DEF TargetAt
        <5> QED BY <1>2, <2>2, <4>1, <4>2, <4>5, <5>2 DEF TargetAt
      <4> QED BY <4>1, <4>4, <4>5
    <3> QED BY <3>1, <3>2
  <2> QED BY <1>2, <2>3, <2>4, CallOrigin
<1> QED BY <1>1, <1>2

LEMMA MoverNotGone ==
    ASSUME TypeInv, NEW t \in Threads, StepOf(t)
    PROVE  step[t] # "gone"
<1>1. depth[t] > 0 => step[t] # "gone"
  BY DEF TypeInv, StepInv
<1>2. CASE Guest(t)
  BY <1>1, <1>2
     DEF Guest, CageCall, GrateForwards, GrateCall, GrateReturns, At
<1>3. CASE Dispatch(t)
  BY <1>1, <1>3
     DEF Dispatch, Check, LookupFound, LookupFails, Recheck, Borrow, AddInflight,
         CheckDead, At
<1>4. CASE Handler(t)
  BY <1>1, <1>4
     DEF Handler, RegisterCheck, RegisterApply, RawPlain, RawExit, ExitGroupLoser,
         ExitGroupWinner, ExitGroupMark, ExitGroupKill, ExitGroupPurge, RawFork,
         ForkCopyTable, RawThread, RawAt, At
<1>5. CASE Lifecycle(t)
  BY <1>5
     DEF Lifecycle, ForkChild, SpawnThread, StartThread, EpochKilled, ThreadExit,
         Drain, Remove, Crash, CrashMark, CrashPurge, CrashExit
<1> QED BY <1>2, <1>3, <1>4, <1>5 DEF StepOf

\* Cages leave CAGE_MAP only by the removal of the thread's own one, and enter it with
\* the thread that is to start them.
LEMMA CagesCases ==
    ASSUME TypeInv, NEW t \in Threads, StepOf(t)
    PROVE  \/ UNCHANGED cages /\ \A u \in Threads : birth'[u] \in {0, birth[u]} \/ RawThread(t)
           \/ cages' = cages \ {home[t]} /\ step'[t] = "gone" /\ UNCHANGED <<home, birth>>
           \/ /\ cages' = cages \cup {nextId + 1} /\ birth' = [birth EXCEPT ![t] = nextId + 1]
              /\ UNCHANGED home
<1>1. CASE Guest(t)
  BY <1>1
     DEF Guest, CageCall, GrateForwards, GrateCall, GrateReturns, Push
<1>2. CASE Dispatch(t)
  BY <1>2
     DEF Dispatch, Check, LookupFound, LookupFails, Recheck, Borrow, AddInflight,
         CheckDead
<1>3. CASE Handler(t) /\ ~RawThread(t)
  BY <1>3
     DEF Handler, RegisterCheck, RegisterApply, RawPlain, RawExit, ExitGroupLoser,
         ExitGroupWinner, ExitGroupMark, ExitGroupKill, ExitGroupPurge, RawFork,
         ForkCopyTable
<1>4. CASE Lifecycle(t)
  BY <1>4
     DEF Lifecycle, ForkChild, SpawnThread, StartThread, EpochKilled, ThreadExit,
         Drain, Remove, Crash, CrashMark, CrashPurge, CrashExit, TypeInv, TypeOK
<1>5. RawThread(t) => UNCHANGED cages
  BY DEF RawThread
<1> QED BY <1>1, <1>2, <1>3, <1>4, <1>5 DEF StepOf

LEMMA HomeStep ==
    ASSUME SingleThreaded, DispatchInv, OpInv, HomeInv, NEW t \in Threads, StepOf(t)
    PROVE  HomeInv'
<1> USE DEF DispatchInv, TeardownInv
<1>0. /\ \A u \in Threads : home[u] \in Int /\ birth[u] \in Int
      /\ \A u \in Threads : home[u] <= nextId /\ birth[u] <= nextId
      /\ nextId \in Int /\ nextId > 0 /\ \A u \in Threads : home[u] \in Cages \cup {0}
  BY DEF TypeInv, TypeOK, IdInv, Cages
<1>1. ~RawThread(t)
  <2> SUFFICES ASSUME RawThread(t) PROVE FALSE
    OBVIOUS
  <2>1. depth[t] \in Levels /\ Top(t).pc = "raw" /\ Top(t).req.op = "thread"
    BY TopFrame DEF RawThread, RawAt, At, TypeInv
  <2> QED BY <2>1 DEF OpInv, Top
<1>2. home[t] # 0 /\ step[t] # "gone" /\ home[t] \in cages
  BY MoverHome, MoverNotGone DEF HomeInv
<1>3. \A u \in Threads : birth[u] # 0 => \A v \in Threads : home[v] # birth[u]
  BY DEF HomeInv, BirthInv, ForkPending
<1>4. \A u \in Threads : home'[u] = home[u] \/ (home[u] = 0 /\ home'[u] = birth[t] /\ birth[t] # 0)
  BY <1>1, BirthCases DEF TypeInv, TypeOK
<1>5. \A u, v \in Threads : home'[u] # 0 /\ home'[u] = home'[v] => u = v
  <2>1. CASE UNCHANGED home
    BY <2>1 DEF HomeInv
  <2>2. ASSUME NEW w \in Threads, home[w] = 0, home' = [home EXCEPT ![w] = birth[t]], birth[t] # 0
        PROVE  \A u, v \in Threads : home'[u] # 0 /\ home'[u] = home'[v] => u = v
    <3>1. \A u \in Threads : home'[u] = IF u = w THEN birth[t] ELSE home[u]
      BY <2>2 DEF TypeInv, TypeOK
    <3> QED BY <1>3, <2>2, <3>1 DEF HomeInv
  <2> QED BY <1>1, <2>1, <2>2, BirthCases
<1>6. \A u \in Threads : home'[u] # 0 /\ step'[u] # "gone" => home[u] = 0 \/ step[u] # "gone"
  BY <1>2, OtherStep
<1>7. \A u \in Threads : birth'[u] # 0 => birth'[u] # home'[u]
  <2> SUFFICES ASSUME NEW u \in Threads, birth'[u] # 0 PROVE birth'[u] # home'[u]
    OBVIOUS
  <2>1. CASE UNCHANGED <<home, birth>>
    BY <2>1 DEF HomeInv
  <2>2. CASE UNCHANGED home /\ birth' = [birth EXCEPT ![t] = nextId + 1]
    BY <1>0, <2>2 DEF HomeInv, TypeInv, TypeOK
  <2>3. ASSUME NEW w \in Threads, home[w] = 0, home' = [home EXCEPT ![w] = birth[t]],
               birth' = [birth EXCEPT ![t] = 0], birth[t] # 0
        PROVE  birth'[u] # home'[u]
    <3>1. /\ \A v \in Threads : home'[v] = IF v = w THEN birth[t] ELSE home[v]
          /\ \A v \in Threads : birth'[v] = IF v = t THEN 0 ELSE birth[v]
      BY <2>3 DEF TypeInv, TypeOK
    <3> QED BY <2>3, <3>1 DEF HomeInv, BirthInv
  <2> QED BY <1>1, <2>1, <2>2, <2>3, BirthCases
<1>8. CASE UNCHANGED cages /\ \A u \in Threads : birth'[u] \in {0, birth[u]}
  BY <1>4, <1>5, <1>6, <1>7, <1>8 DEF HomeInv
<1>9. CASE cages' = cages \ {home[t]} /\ step'[t] = "gone" /\ UNCHANGED <<home, birth>>
  BY <1>2, <1>3, <1>5, <1>6, <1>7, <1>9 DEF HomeInv
<1>10. CASE /\ cages' = cages \cup {nextId + 1} /\ birth' = [birth EXCEPT ![t] = nextId + 1]
            /\ UNCHANGED home
  <2>1. \A u \in Threads : birth'[u] = IF u = t THEN nextId + 1 ELSE birth[u]
    BY <1>10 DEF TypeInv, TypeOK
  <2> QED BY <1>5, <1>6, <1>7, <1>10, <2>1 DEF HomeInv
<1> QED BY <1>1, <1>8, <1>9, <1>10, CagesCases

RawInv == DispatchInv /\ OpInv /\ TargetInv /\ HomeInv

LEMMA RawInit == Init => RawInv
<1> SUFFICES ASSUME Init PROVE RawInv
  OBVIOUS
<1>1. \A t \in Threads, i \in Levels : frame[<<t, i>>].pc = "none"
  BY DEF Init, NoFrame
<1>2. PICK t0 \in Threads :
         /\ home = [t \in Threads |-> IF t = t0 THEN INIT_CAGEID ELSE 0]
         /\ cages = {INIT_CAGEID} /\ birth = [t \in Threads |-> 0]
  BY DEF Init
<1>3. HomeInv
  BY <1>2 DEF HomeInv, INIT_CAGEID
<1> QED BY <1>1, <1>3, DispatchInit DEF RawInv, OpInv, TargetInv

\* No RawPOSIX function meets a missing cage in get_cage(cageid).unwrap(): while it runs
\* for a cage, the cage is in CAGE_MAP, for any number of cages of one thread each, any
\* nesting of grates and any registrations.
THEOREM RawSafe ==
    ASSUME SingleThreaded PROVE Spec => []RawInLiveCage
<1>1. RawInv /\ [Next]_vars => RawInv'
  <2> SUFFICES ASSUME RawInv, [Next]_vars PROVE RawInv'
    OBVIOUS
  <2>1. DispatchInv'
    BY DispatchNext DEF RawInv
  <2>2. CASE UNCHANGED vars
    BY <2>1, <2>2 DEF vars, RawInv, OpInv, TargetInv, TargetAt, HomeInv
  <2>3. CASE Next
    <3>1. PICK t \in Threads : StepOf(t)
      BY <2>3 DEF Next, StepOf
    <3>2. OpInv' /\ TargetInv' /\ HomeInv'
      BY <3>1, OpStep, TargetStep, HomeStep DEF RawInv, DispatchInv, TeardownInv
    <3> QED BY <2>1, <3>2 DEF RawInv
  <2> QED BY <2>2, <2>3
<1>2. RawInv => RawInLiveCage
  <2> SUFFICES ASSUME RawInv, NEW t \in Threads, NEW i \in Levels,
                      frame[<<t, i>>].pc \in {"raw", "mark", "kill", "purge", "copytable"}
               PROVE  frame[<<t, i>>].target \in cages
    BY DEF RawInLiveCage
  <2>1. TypeInv /\ frame[<<t, i>>].pc # "none" /\ TargetAt(t, i)
    BY DEF RawInv, DispatchInv, TeardownInv, TargetInv
  <2>2. home[t] \in cages
    <3>1. depth[t] > 0 /\ home[t] # 0
      BY <2>1, CallerHome
    <3> QED BY <2>1, <3>1 DEF TypeInv, StepInv, RawInv, HomeInv
  <2>3. \A j \in Levels : frame[<<t, j>>].pc = "run" => frame[<<t, j>>].dest \in cages
    BY DEF RawInv, DispatchInv, DispatchInLiveCage
  <2> QED BY <2>1, <2>2, <2>3 DEF TargetAt
<1> QED BY <1>1, <1>2, RawInit, PTL DEF Spec
=============================================================================
