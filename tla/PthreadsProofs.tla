--------------------------- MODULE PthreadsProofs ---------------------------
(***************************************************************************)
(* Proofs about Pthreads, for any number of threads and stacks, any limit  *)
(* of the stack cache, and all attributes, creators, joiners and traps,    *)
(* under one hypothesis on the program.                                    *)
(***************************************************************************)
EXTENDS Pthreads, FiniteSetTheorems, TLAPS

\* The hypothesis: no thread creates threads while another one detaches somebody
\* else's.  Without it pthread_detach may look at the exiting bit of the stack's
\* next owner, and free a stack that is in use.
NoStaleDetach == \A c \in Creators, d \in Detachers : c = d

Making    == {"init", "clone", "spawn"}
Detaching == {"detach_check", "detach_free"}
Joining   == {"join", "timedjoin", "tryjoin"}
OnThread  == Joining \cup Detaching \cup {"setattr", "reap"}

\* What the fields of a call in progress mean.
CallOK(c) ==
    LET k == call[c] IN
    /\ k.fn \in {"none"} \cup Making \cup OnThread
    /\ k.fn \in {"none", "init", "clone"} => k.t = 0
    /\ k.fn # "none" => pc[c] = "body" /\ k.s \in Stacks
    /\ k.fn \in {"spawn"} \cup OnThread => k.t \in 2..nextTid
    /\ k.fn = "spawn" => pc[k.t] = "none"
    /\ k.fn \in OnThread => pc[k.t] # "none" /\ stk[k.t] = k.s
    /\ k.fn \in Making => c \in Creators /\ k.kind \in Kinds
    /\ k.fn \in Detaching => c \in Detachers \/ c = k.t
    /\ k.asleep => k.fn \in Waits

\* Thread ids are given out in order; the main thread has no stack block.
PcOK(t) ==
    /\ t = Main => pc[t] = "body" /\ handle[t] = "none" /\ stk[t] = NoStack
    /\ t > nextTid => pc[t] = "none"
    /\ pc[t] = "none" => handle[t] = "none"
    /\ t # Main /\ pc[t] # "none" => stk[t] \in Stacks

\* A thread is used by one party: whoever has its handle, or one call in progress.
UserInv ==
    /\ \A c, d \in Tids : call[c].t # 0 /\ call[c].t = call[d].t => c = d
    /\ \A c \in Tids : call[c].t # 0 => handle[call[c].t] # "owned"

\* Somebody is still to join or detach t, or is doing so.
Pending(t) == handle[t] = "owned" \/ \E c \in Tids : call[c].t = t
Failing(t) == \E c \in Tids : call[c].t = t /\ call[c].fn = "reap"

\* t's stack block is t's own: until it clears its tid, and then until it is joined.
Stuck == {"trapped", "astray"}
Owned(t) ==
    /\ t # Main
    /\ pc[t] \in Marked \cup Stuck \/ (pc[t] \in Cleared /\ Pending(t))

\* A stack block has one user.
OneUserInv ==
    /\ \A c, d \in Tids : call[c].fn \in Making /\ call[d].fn \in Making
                          /\ call[c].s = call[d].s => c = d
    /\ \A c, t \in Tids : call[c].fn \in Making /\ Owned(t) => call[c].s # stk[t]
    /\ \A t, u \in Tids : Owned(t) /\ Owned(u) /\ stk[t] = stk[u] => t = u

\* The descriptor of a thread being created.
MakeOK(c) ==
    LET k == call[c]
        p == pd[k.s]
    IN
    /\ k.fn \in Making => k.s \in used /\ k.s \notin cache
    /\ k.fn \in {"init", "clone"} => p.tid <= 0
    /\ k.fn \in {"clone", "spawn"} =>
          /\ ~p.terminated /\ ~p.exiting /\ ~p.setup_failed
          /\ p.detached <=> k.kind = "detached"
    /\ k.fn = "spawn" => /\ p.tid = k.t
                         /\ k.kind = "stopped" => p.stopped /\ p.lock

\* The descriptor of a thread that owns its stack block.
OwnOK(t) ==
    LET s == stk[t]
        p == pd[s]
    IN
    Owned(t) =>
        /\ pc[t] \notin Cleared => p.tid = t
        /\ pc[t] \in Cleared => p.tid = 0
        /\ ~p.terminated => s \in used /\ s \notin cache
        /\ p.terminated => /\ s \notin used /\ p.detached
                           /\ pc[t] \notin Living \cup Stuck
                           /\ pc[t] \notin Cleared => s \in cache
        /\ p.detached => /\ handle[t] = "spent"
                         /\ \A c \in Tids : call[c].t = t => call[c].fn \in Detaching
        /\ ~p.detached => \/ handle[t] = "owned"
                          \/ \E c \in Tids : call[c].t = t /\ call[c].fn \notin Detaching
        /\ pc[t] \in Living \cup Stuck => ~p.exiting
        /\ pc[t] \notin Living \cup Stuck => p.exiting \/ Failing(t)
        /\ pc[t] \in {"returned", "exiting", "out"} \cup Cleared => p.result = t \/ Failing(t)
        /\ pc[t] \in {"spawned", "start"} /\ p.setup_failed => Failing(t)

\* How far the thread is that a call is about.
StageOK(c) ==
    LET k == call[c]
        p == pd[k.s]
    IN
    /\ k.fn = "setattr" => /\ pc[k.t] \in {"spawned", "start", "astray"}
                           /\ p.stopped /\ p.lock
    /\ k.fn = "reap" => /\ pc[k.t] \in {"spawned", "start", "astray", "out"} \cup Cleared
                        /\ pc[k.t] \in {"spawned", "start"} => p.stopped /\ p.setup_failed
    /\ k.fn = "tryjoin" => pc[k.t] \in Cleared
    /\ k.fn = "detach_free" => pc[k.t] \notin Living \cup Stuck

\* What a join has returned.
JoinOK(t) == got[t] # 0 => got[t] = t /\ pc[t] \in Cleared

\* TypeOK but for the bounds of the count of threads.
BaseType ==
    /\ pd \in [Stacks -> Pd]
    /\ used \in SUBSET Stacks /\ cache \in SUBSET Stacks
    /\ unwind \in [Stacks -> 0..MaxTid]
    /\ nthreads \in Int /\ nextTid \in Tids
    /\ pc \in [Tids -> PcSet]
    /\ stk \in [Tids -> Stacks \cup {NoStack}]
    /\ call \in [Tids -> Call]
    /\ handle \in [Tids -> {"none", "owned", "spent"}]
    /\ over \in BOOLEAN
    /\ got \in [Tids -> -1..MaxTid]

\* The ids that creations in progress will take are there.
RoomInv == nextTid + Cardinality(Creating) <= MaxTid

Inv ==
    /\ BaseType /\ RoomInv /\ UserInv /\ OneUserInv
    /\ \A c \in Tids : CallOK(c) /\ MakeOK(c) /\ StageOK(c)
    /\ \A t \in Tids : PcOK(t) /\ OwnOK(t) /\ JoinOK(t)
-----------------------------------------------------------------------------
(***************************************************************************)
(* Every step touches one call c, one thread v and one stack s (0: none).  *)
(* What it leaves alone keeps its invariant.                               *)
(***************************************************************************)
SameCall(d) ==
    /\ call'[d].fn = call[d].fn /\ call'[d].s = call[d].s
    /\ call'[d].t = call[d].t /\ call'[d].kind = call[d].kind
    /\ call'[d].asleep => call[d].fn \in Waits
SameThread(u) ==
    pc'[u] = pc[u] /\ stk'[u] = stk[u] /\ handle'[u] = handle[u] /\ got'[u] = got[u]
SameStack(r) ==
    /\ pd'[r] = pd[r]
    /\ r \in used' <=> r \in used
    /\ r \in cache' => r \in cache
    /\ r \in cache /\ pd[r].tid > 0 => r \in cache'

Local(c, v, s) ==
    /\ \A d \in Tids \ {c} : SameCall(d) /\ (call[d].t # 0 => call[d].t # v)
    /\ \A u \in Tids \ {v} : SameThread(u) /\ (Owned(u) => stk[u] # s)
    /\ \A r \in Stacks \ {s} : SameStack(r)
    /\ \A d \in Tids \ {c} : call[d].fn \in Making => call[d].s # s
    /\ c \in Tids => call[c].t \in {0, v} /\ call'[c].t \in {0, v}
    /\ nextTid \in Int /\ nextTid' \in Int /\ nextTid <= nextTid'

\* What is to be shown of the call and the thread a step touches.
TouchedOK(c, v, s) ==
    /\ c \in Tids => /\ CallOK(c)' /\ MakeOK(c)' /\ StageOK(c)'
                     /\ call'[c].fn \in Making => call'[c].s = s /\ ~(v \in Tids /\ Owned(v)')
                     /\ call'[c].t # 0 => handle'[v] # "owned"
    /\ v \in Tids => /\ PcOK(v)' /\ CallOK(v)' /\ OwnOK(v)' /\ JoinOK(v)'
                     /\ Owned(v)' => stk'[v] = s

LEMMA TidsFacts == Tids \subseteq Int /\ 0 \notin Tids /\ \A t \in Tids : t >= 1 /\ t <= MaxTid
  BY PthreadsAssumption DEF Tids

LEMMA CallTid ==
    ASSUME BaseType, NEW c \in Tids, CallOK(c), call[c].t # 0
    PROVE  /\ call[c].fn \in {"spawn"} \cup OnThread
           /\ call[c].t \in Tids /\ call[c].t # Main
  <1>1. call[c].fn \in {"spawn"} \cup OnThread
    BY DEF CallOK, Making
  <1>2. call[c].t \in 2..nextTid /\ nextTid \in Tids
    BY <1>1 DEF CallOK, BaseType
  <1> QED
    BY <1>1, <1>2, PthreadsAssumption DEF Tids, Main

\* A thread some call is about owns its stack.
LEMMA CalledIsOwned ==
    ASSUME NEW c \in Tids, CallOK(c), call[c].fn \in OnThread, PcOK(call[c].t), BaseType,
           pc[call[c].t] \in PcSet
    PROVE  call[c].t \in Tids /\ Owned(call[c].t) /\ stk[call[c].t] = call[c].s
  <1>1. /\ call[c].t \in 2..nextTid /\ pc[call[c].t] # "none" /\ stk[call[c].t] = call[c].s
    BY DEF CallOK
  <1>2. call[c].t \in Tids /\ call[c].t # Main
    BY <1>1, PthreadsAssumption DEF Tids, Main, BaseType
  <1>3. pc[call[c].t] \in Marked \cup Stuck \cup Cleared
    BY <1>1 DEF PcSet, OnStack, Marked, Living, Stuck, Cleared
  <1> QED
    BY <1>1, <1>2, <1>3 DEF Owned, Pending

LEMMA OwnedKept ==
    ASSUME NEW c, NEW v, NEW s, Local(c, v, s), NEW u \in Tids \ {v}, u # 0
    PROVE  /\ Owned(u)' <=> Owned(u)
           /\ Failing(u)' <=> Failing(u)
           /\ \A d \in Tids : call'[d].t = u => call'[d].t = call[d].t /\ call'[d].fn = call[d].fn
           /\ \A d \in Tids : call[d].t = u => call'[d].t = call[d].t /\ call'[d].fn = call[d].fn
  <1>1. \A d \in Tids : call'[d].t = u \/ call[d].t = u =>
           call'[d].t = call[d].t /\ call'[d].fn = call[d].fn
    BY DEF Local, SameCall
  <1>2. pc'[u] = pc[u] /\ handle'[u] = handle[u]
    BY DEF Local, SameThread
  <1>3. Pending(u)' <=> Pending(u)
    BY <1>1, <1>2 DEF Pending
  <1> QED
    BY <1>1, <1>2, <1>3 DEF Owned, Failing

LEMMA OwnOKKept ==
    ASSUME NEW c, NEW v, NEW s, Local(c, v, s), BaseType, NEW u \in Tids \ {v}, OwnOK(u), PcOK(u)
    PROVE  OwnOK(u)'
  <1> SUFFICES ASSUME Owned(u)'
               PROVE  OwnOK(u)'
    BY DEF OwnOK
  <1>0. u # 0 /\ u > 0
    BY TidsFacts
  <1>1. Owned(u)
    BY <1>0, OwnedKept
  <1>2. /\ pc'[u] = pc[u] /\ handle'[u] = handle[u] /\ stk'[u] = stk[u] /\ stk[u] # s
    BY <1>1 DEF Local, SameThread
  <1>3. stk[u] \in Stacks
    BY <1>1 DEF PcOK, Owned, Marked, Living, Stuck, Cleared
  <1>4. SameStack(stk[u])
    BY <1>2, <1>3 DEF Local
  <1>5. Failing(u)' <=> Failing(u)
    BY <1>0, OwnedKept
  <1>6. /\ \A d \in Tids : call'[d].t = u => call[d].t = u /\ call'[d].fn = call[d].fn
        /\ \A d \in Tids : call[d].t = u => call'[d].t = u /\ call'[d].fn = call[d].fn
    BY <1>0, OwnedKept
  <1>7. /\ pd'[stk'[u]] = pd[stk[u]]
        /\ stk'[u] \in used' <=> stk[u] \in used
        /\ stk'[u] \in cache' => stk[u] \in cache
        /\ pd[stk[u]].tid = u /\ stk[u] \in cache => stk'[u] \in cache'
    BY <1>0, <1>2, <1>4 DEF SameStack
  <1>8. \/ handle[u] = "owned"
        \/ \E d \in Tids : call[d].t = u /\ call[d].fn \notin Detaching
        => \/ handle'[u] = "owned"
           \/ \E d \in Tids : call'[d].t = u /\ call'[d].fn \notin Detaching
    BY <1>2, <1>6
  <1> QED
    <2> DEFINE p == pd[stk[u]]
    <2>0. p = pd'[stk'[u]]
      BY <1>7
    <2> HIDE DEF p
    <2>1. /\ pc'[u] \notin Cleared => p.tid = u
          /\ pc'[u] \in Cleared => p.tid = 0
          /\ ~p.terminated => stk'[u] \in used' /\ stk'[u] \notin cache'
      BY <1>1, <1>2, <1>7 DEF OwnOK, p
    <2>2. p.terminated => /\ stk'[u] \notin used' /\ p.detached
                          /\ pc'[u] \notin Living \cup Stuck
                          /\ pc'[u] \notin Cleared => stk'[u] \in cache'
      BY <1>1, <1>2, <1>7 DEF OwnOK, p
    <2>3. p.detached => /\ handle'[u] = "spent"
                        /\ \A d \in Tids : call'[d].t = u => call'[d].fn \in Detaching
      BY <1>1, <1>2, <1>6 DEF OwnOK, p
    <2>4. ~p.detached => \/ handle'[u] = "owned"
                         \/ \E d \in Tids : call'[d].t = u /\ call'[d].fn \notin Detaching
      BY <1>1, <1>8 DEF OwnOK, p
    <2>5. /\ pc'[u] \in Living \cup Stuck => ~p.exiting
          /\ pc'[u] \notin Living \cup Stuck => p.exiting \/ Failing(u)'
          /\ pc'[u] \in {"returned", "exiting", "out"} \cup Cleared => p.result = u \/ Failing(u)'
          /\ pc'[u] \in {"spawned", "start"} /\ p.setup_failed => Failing(u)'
      BY <1>1, <1>2, <1>5 DEF OwnOK, p
    <2> QED
      BY <2>0, <2>1, <2>2, <2>3, <2>4, <2>5 DEF OwnOK

LEMMA CallKept ==
    ASSUME NEW c, NEW v, NEW s, Local(c, v, s), Inv, NEW d \in Tids \ {c}
    PROVE  /\ call'[d].fn = call[d].fn /\ call'[d].t = call[d].t /\ call'[d].s = call[d].s
           /\ d # v => CallOK(d)'
           /\ MakeOK(d)' /\ StageOK(d)'
  <1>1. CallOK(d) /\ MakeOK(d) /\ StageOK(d)
    BY DEF Inv
  <1>2. SameCall(d) /\ (call[d].t # 0 => call[d].t # v)
    BY DEF Local
  <1>3. /\ call'[d].fn = call[d].fn /\ call'[d].t = call[d].t /\ call'[d].s = call[d].s
        /\ call'[d].kind = call[d].kind
        /\ call'[d].asleep => call[d].fn \in Waits
    BY <1>2 DEF SameCall
  <1>4. ASSUME call[d].fn \in {"spawn"} \cup OnThread
        PROVE  /\ call[d].t \in Tids /\ call[d].t # v /\ call[d].t \in 2..nextTid'
               /\ pc'[call[d].t] = pc[call[d].t] /\ stk'[call[d].t] = stk[call[d].t]
    <2>1. call[d].t \in 2..nextTid
      BY <1>1, <1>4 DEF CallOK
    <2>2. call[d].t \in Tids /\ call[d].t # 0
      BY <2>1, PthreadsAssumption DEF Tids, Inv, BaseType
    <2>3. call[d].t \in 2..nextTid'
      BY <2>1 DEF Local
    <2> QED
      BY <1>2, <2>2, <2>3 DEF Local, SameThread
  <1>5. ASSUME d # v PROVE CallOK(d)'
    <2>1. pc'[d] = pc[d]
      BY <1>5 DEF Local, SameThread
    <2> QED
      BY <1>1, <1>3, <1>4, <2>1 DEF CallOK, Making, OnThread, Joining, Detaching
  <1>6. MakeOK(d)'
    <2>1. CASE call[d].fn \in Making
      <3>1. call[d].s # s /\ call[d].s \in Stacks
        BY <1>1, <2>1 DEF Local, CallOK, Making
      <3>2. SameStack(call[d].s)
        BY <3>1 DEF Local
      <3>3. /\ pd'[call'[d].s] = pd[call[d].s]
            /\ call'[d].s \in used' <=> call[d].s \in used
            /\ call'[d].s \in cache' => call[d].s \in cache
        BY <1>3, <3>2 DEF SameStack
      <3> QED
        BY <1>1, <1>3, <3>3 DEF MakeOK
    <2>2. CASE call[d].fn \notin Making
      BY <1>3, <2>2 DEF MakeOK, Making
    <2> QED
      BY <2>1, <2>2
  <1>7. StageOK(d)'
    <2>1. CASE call[d].fn \in OnThread
      <3>1. call[d].t \in Tids /\ call[d].t # v /\ pc'[call[d].t] = pc[call[d].t]
        BY <1>4, <2>1
      <3>2. Owned(call[d].t) /\ stk[call[d].t] = call[d].s
        BY <1>1, <2>1, <3>1, CalledIsOwned DEF Inv, BaseType
      <3>3. call[d].s # s /\ call[d].s \in Stacks
        BY <1>1, <2>1, <3>1, <3>2 DEF Local, CallOK, OnThread, Joining, Detaching
      <3>4. SameStack(call[d].s)
        BY <3>3 DEF Local
      <3>5. pd'[call'[d].s] = pd[call[d].s]
        BY <1>3, <3>4 DEF SameStack
      <3> QED
        BY <1>1, <1>3, <3>1, <3>5 DEF StageOK
    <2>2. CASE call[d].fn \notin OnThread
      BY <1>3, <2>2 DEF StageOK, OnThread, Joining, Detaching
    <2> QED
      BY <2>1, <2>2
  <1> QED
    BY <1>3, <1>5, <1>6, <1>7

LEMMA UsersKept ==
    ASSUME NEW c \in Tids \cup {0}, NEW v \in Tids \cup {0}, NEW s, Local(c, v, s), Inv,
           TouchedOK(c, v, s)
    PROVE  UserInv' /\ OneUserInv'
  <1>0. /\ \A d \in Tids \ {c} : /\ call'[d].fn = call[d].fn /\ call'[d].t = call[d].t
                                 /\ call'[d].s = call[d].s
                                 /\ call[d].t # 0 => call[d].t # v
                                 /\ call[d].fn \in Making => call[d].s # s
        /\ \A u \in Tids \ {v} : /\ stk'[u] = stk[u] /\ handle'[u] = handle[u]
                                 /\ Owned(u)' <=> Owned(u)
                                 /\ Owned(u) => stk[u] # s
    <2>1. \A d \in Tids \ {c} : /\ call'[d].fn = call[d].fn /\ call'[d].t = call[d].t
                                /\ call'[d].s = call[d].s
      BY CallKept
    <2>2. \A u \in Tids \ {v} : Owned(u)' <=> Owned(u)
      BY OwnedKept, TidsFacts
    <2> QED
      BY <2>1, <2>2 DEF Local, SameThread
  <1>1. \A d, e \in Tids : call'[d].t # 0 /\ call'[d].t = call'[e].t => d = e
    BY <1>0 DEF Local, Inv, UserInv
  <1>2. ASSUME NEW d \in Tids, call'[d].t # 0 PROVE handle'[call'[d].t] # "owned"
    <2>1. CASE d = c
      BY <1>2, <2>1 DEF Local, TouchedOK
    <2>2. CASE d # c
      <3>1. call[d].t # 0 /\ call'[d].t = call[d].t /\ call[d].t # v
        BY <1>0, <1>2, <2>2
      <3>2. call[d].t \in Tids
        BY <3>1, CallTid DEF Inv
      <3> QED
        BY <1>0, <3>1, <3>2 DEF Inv, UserInv
    <2> QED
      BY <2>1, <2>2
  <1>3. \A d, e \in Tids : call'[d].fn \in Making /\ call'[e].fn \in Making
                           /\ call'[d].s = call'[e].s => d = e
    BY <1>0 DEF Inv, OneUserInv, TouchedOK
  <1>4. \A d, t \in Tids : call'[d].fn \in Making /\ Owned(t)' => call'[d].s # stk'[t]
    BY <1>0 DEF Inv, OneUserInv, TouchedOK
  <1>5. \A t, u \in Tids : Owned(t)' /\ Owned(u)' /\ stk'[t] = stk'[u] => t = u
    BY <1>0 DEF Inv, OneUserInv, TouchedOK
  <1> QED
    BY <1>1, <1>2, <1>3, <1>4, <1>5 DEF UserInv, OneUserInv

\* The invariant, for a step that touches c, v and s.
LEMMA LocalStep ==
    ASSUME NEW c \in Tids \cup {0}, NEW v \in Tids \cup {0}, NEW s, Local(c, v, s), Inv,
           TouchedOK(c, v, s), BaseType', RoomInv'
    PROVE  Inv'
  <1>1. UserInv' /\ OneUserInv'
    BY UsersKept
  <1>2. ASSUME NEW d \in Tids PROVE CallOK(d)' /\ MakeOK(d)' /\ StageOK(d)'
    <2>1. CASE d = c
      BY <2>1 DEF TouchedOK
    <2>2. CASE d # c
      BY <2>2, CallKept DEF TouchedOK
    <2> QED
      BY <2>1, <2>2
  <1>3. ASSUME NEW t \in Tids PROVE PcOK(t)' /\ OwnOK(t)' /\ JoinOK(t)'
    <2>1. CASE t = v
      BY <2>1 DEF TouchedOK
    <2>2. CASE t # v
      <3>1. OwnOK(t)'
        BY <2>2, OwnOKKept DEF Inv
      <3>2. SameThread(t) /\ PcOK(t) /\ JoinOK(t) /\ nextTid <= nextTid' /\ nextTid \in Int /\ nextTid' \in Int
        BY <2>2 DEF Local, Inv
      <3>3. PcOK(t)' /\ JoinOK(t)'
        BY <3>2, TidsFacts DEF PcOK, JoinOK, SameThread
      <3> QED
        BY <3>1, <3>3
    <2> QED
      BY <2>1, <2>2
  <1> QED
    BY <1>1, <1>2, <1>3 DEF Inv
-----------------------------------------------------------------------------
(***************************************************************************)
(* The steps of a thread in start_thread.                                  *)
(***************************************************************************)
LEMMA CreatingFinite == IsFiniteSet(Creating) /\ Cardinality(Creating) \in Nat
  <1>1. IsFiniteSet(Tids)
    BY PthreadsAssumption, FS_Interval DEF Tids
  <1>2. IsFiniteSet(Creating)
    BY <1>1, FS_Subset DEF Creating
  <1> QED
    BY <1>2, FS_CardinalityType

LEMMA RoomKept ==
    ASSUME BaseType, RoomInv, nextTid' = nextTid, Creating' \subseteq Creating
    PROVE  RoomInv'
  <1>1. Cardinality(Creating') <= Cardinality(Creating) /\ Cardinality(Creating') \in Nat
    BY CreatingFinite, FS_Subset, FS_CardinalityType
  <1>2. nextTid \in Int /\ MaxTid \in Int
    BY TidsFacts, PthreadsAssumption DEF BaseType
  <1> QED
    BY <1>1, <1>2, CreatingFinite DEF RoomInv

LEMMA OwnedStack ==
    ASSUME Inv, NEW u \in Tids, Owned(u)
    PROVE  stk[u] \in Stacks /\ stk[u] # NoStack /\ pc[u] # "none" /\ u # Main
  <1>1. PcOK(u) /\ u # Main /\ pc[u] # "none"
    BY DEF Inv, Owned, Marked, Living, Stuck, Cleared
  <1> QED
    BY <1>1, PthreadsAssumption DEF PcOK, NoStack

\* A step of a thread on its own stack: its position and its descriptor change.
LEMMA OwnerStep ==
    ASSUME Inv, NEW t \in Tids, Owned(t), NEW l \in PcSet \ {"none"}, NEW p,
           UNCHANGED <<stk, call, handle, nextTid, got>>,
           pc' = [pc EXCEPT ![t] = l], pd' = [pd EXCEPT ![stk[t]] = p], BaseType',
           \A r \in Stacks \ {stk[t]} : /\ r \in used' <=> r \in used
                                        /\ r \in cache' => r \in cache
                                        /\ r \in cache /\ pd[r].tid > 0 => r \in cache',
           pc[t] \in Cleared => l \in Cleared,
           call[t].fn = "none" \/ l = "body",
           OwnOK(t)', \A d \in Tids : call[d].t = t => StageOK(d)'
    PROVE  Inv'
  <1> DEFINE s == stk[t]
  <1>0. /\ BaseType /\ s \in Stacks /\ t # Main /\ t # 0 /\ pc[t] # "none"
        /\ nextTid \in Int /\ MaxTid \in Int
    BY OwnedStack, TidsFacts, PthreadsAssumption DEF Inv, BaseType
  <1>1. pc'[t] = l /\ \A u \in Tids \ {t} : pc'[u] = pc[u]
    BY <1>0 DEF BaseType
  <1>2. \A r \in Stacks \ {s} : pd'[r] = pd[r]
    BY <1>0 DEF BaseType
  <1>3. RoomInv'
    BY RoomKept DEF Inv, Creating
  <1>4. PICK c \in Tids \cup {0} : /\ c \in Tids => call[c].t = t
                                  /\ \A d \in Tids \ {c} : call[d].t # t
    <2>1. CASE \E d \in Tids : call[d].t = t
      BY <1>0, <2>1 DEF Inv, UserInv
    <2>2. CASE ~\E d \in Tids : call[d].t = t
      BY <2>2, TidsFacts
    <2> QED
      BY <2>1, <2>2
  <1>5. Local(c, t, s)
    <2>1. \A d \in Tids \ {c} : SameCall(d) /\ (call[d].t # 0 => call[d].t # t)
      BY <1>4 DEF SameCall, Inv, CallOK
    <2>2. \A u \in Tids \ {t} : SameThread(u) /\ (Owned(u) => stk[u] # s)
      BY <1>1 DEF SameThread, Inv, OneUserInv
    <2>3. \A r \in Stacks \ {s} : SameStack(r)
      BY <1>2 DEF SameStack
    <2>4. \A d \in Tids \ {c} : call[d].fn \in Making => call[d].s # s
      BY DEF Inv, OneUserInv
    <2>5. c \in Tids => call[c].t \in {0, t} /\ call'[c].t \in {0, t}
      BY <1>4
    <2> QED
      BY <1>0, <2>1, <2>2, <2>3, <2>4, <2>5 DEF Local
  <1>6. \A d \in Tids : CallOK(d)'
    <2> SUFFICES ASSUME NEW d \in Tids PROVE CallOK(d)'
      OBVIOUS
    <2>1. CallOK(d)
      BY DEF Inv
    <2>2. call'[d] = call[d] /\ (call[d].fn # "none" => pc'[d] = "body")
      BY <1>1, <2>1 DEF CallOK
    <2>3. ASSUME call[d].t # 0
          PROVE  /\ pc'[call[d].t] = "none" <=> pc[call[d].t] = "none"
                 /\ stk'[call[d].t] = stk[call[d].t]
      BY <1>0, <1>1, <2>1, <2>3, CallTid
    <2>4. call[d].fn \in {"spawn"} \cup OnThread => call[d].t # 0
      BY <1>0, <2>1 DEF CallOK
    <2> QED
      BY <2>1, <2>2, <2>3, <2>4 DEF CallOK
  <1>7. TouchedOK(c, t, s)
    <2>1. ASSUME c \in Tids
          PROVE  /\ MakeOK(c)' /\ StageOK(c)' /\ call'[c].fn \notin Making
                 /\ handle'[t] # "owned"
      <3>1. call[c].t = t /\ call[c].t # 0 /\ CallOK(c)
        BY <1>0, <1>4, <2>1 DEF Inv
      <3>2. call[c].fn \notin Making
        BY <1>0, <2>1, <3>1, CallTid DEF CallOK, Making, OnThread, Joining, Detaching
      <3> QED
        BY <2>1, <3>1, <3>2 DEF MakeOK, Making, Inv, UserInv
    <2>2. PcOK(t)'
      BY <1>0, <1>1 DEF Inv, PcOK
    <2>3. JoinOK(t)'
      BY <1>1 DEF Inv, JoinOK
    <2> QED
      BY <1>6, <2>1, <2>2, <2>3 DEF TouchedOK
  <1> QED
    BY <1>3, <1>5, <1>7, LocalStep

\* What is known of a thread other than the main one that is in start_thread.
LEMMA AtOwned ==
    ASSUME Inv, NEW t \in Tids, t # Main, pc[t] \in Marked
    PROVE  /\ Owned(t) /\ OwnOK(t) /\ stk[t] \in Stacks /\ pd[stk[t]] \in Pd
           /\ pd[stk[t]].tid = t /\ pc[t] \notin Cleared /\ BaseType
           /\ \A d \in Tids : call[d].t = t => /\ call[d].s = stk[t] /\ StageOK(d)
                                              /\ call[d].fn \in OnThread
  <1>1. Owned(t) /\ pc[t] \notin Cleared /\ OwnOK(t) /\ BaseType
    BY DEF Owned, Marked, Living, Cleared, Inv
  <1>2. stk[t] \in Stacks /\ t # 0
    BY <1>1, OwnedStack, TidsFacts
  <1>3. pd[stk[t]].tid = t /\ pd[stk[t]] \in Pd
    BY <1>1, <1>2 DEF OwnOK, BaseType
  <1>4. ASSUME NEW d \in Tids, call[d].t = t
        PROVE  call[d].s = stk[t] /\ StageOK(d) /\ call[d].fn \in OnThread
    <2>1. CallOK(d) /\ StageOK(d) /\ call[d].fn \in {"spawn"} \cup OnThread
      BY <1>1, <1>2, <1>4, CallTid DEF Inv
    <2> QED
      BY <1>1, <1>4, <2>1 DEF CallOK, Marked, Living
  <1> QED
    BY <1>1, <1>2, <1>3, <1>4

\* Outside its function a thread is in no call.
LEMMA NotInBody ==
    ASSUME Inv, NEW t \in Tids, pc[t] # "body"
    PROVE  call[t].fn = "none"
  BY DEF Inv, CallOK

LEMMA RewindStep ==
    ASSUME Inv, NEW t \in Tids, Rewind(t)
    PROVE  Inv'
  <1> DEFINE s == stk[t]
             l == IF unwind[stk[t]] = t THEN "start" ELSE "astray"
  <1>0. pc[t] = "spawned" /\ t # Main /\ call[t].fn = "none"
    BY NotInBody DEF Rewind, At
  <1>1. /\ Owned(t) /\ OwnOK(t) /\ s \in Stacks /\ BaseType /\ pd[s].tid = t
        /\ \A d \in Tids : call[d].t = t => call[d].s = s /\ StageOK(d) /\ call[d].fn \in OnThread
    BY <1>0, AtOwned DEF Marked, Living
  <1>2. /\ pc' = [pc EXCEPT ![t] = l] /\ l \in PcSet \ {"none"}
        /\ UNCHANGED <<pd, used, cache, stk, call, handle, nextTid, got>>
    BY DEF Rewind, Goto, PcSet, OnStack, Marked, Living
  <1>3. pd' = [pd EXCEPT ![s] = pd[s]] /\ pc'[t] = l
    BY <1>0, <1>1, <1>2 DEF BaseType
  <1>4. BaseType'
    BY <1>0, <1>1, <1>2 DEF Rewind, BaseType
  <1>5. OwnOK(t)'
    BY <1>0, <1>1, <1>2, <1>3 DEF OwnOK, Owned, Pending, Failing, Cleared, Marked, Living, Stuck
  <1>6. ASSUME NEW d \in Tids, call[d].t = t PROVE StageOK(d)'
    BY <1>0, <1>1, <1>2, <1>3, <1>6 DEF StageOK, Cleared, Living, Stuck
  <1>7. /\ \A r \in Stacks \ {s} : /\ r \in used' <=> r \in used
                                   /\ r \in cache' => r \in cache
                                   /\ r \in cache /\ pd[r].tid > 0 => r \in cache'
        /\ pc[t] \notin Cleared
    BY <1>0, <1>2 DEF Cleared
  <1> HIDE DEF l
  <1> QED
    BY <1>0, <1>1, <1>2, <1>3, <1>4, <1>5, <1>6, <1>7, OwnerStep

LEMMA StartStep ==
    ASSUME Inv, NEW t \in Tids, Start(t)
    PROVE  Inv'
  <1> DEFINE s == stk[t]
             l == IF pd[s].stopped /\ pd[s].setup_failed THEN "out" ELSE "body"
             p == IF pd[s].stopped /\ pd[s].setup_failed THEN [pd[s] EXCEPT !.detached = FALSE]
                  ELSE pd[s]
  <1>0. pc[t] = "start" /\ t # Main /\ call[t].fn = "none"
    BY NotInBody DEF Start, At
  <1>1. /\ Owned(t) /\ OwnOK(t) /\ s \in Stacks /\ BaseType /\ pd[s].tid = t /\ pd[s] \in Pd
        /\ \A d \in Tids : call[d].t = t => call[d].s = s /\ StageOK(d) /\ call[d].fn \in OnThread
    BY <1>0, AtOwned DEF Marked, Living
  <1>2. /\ pc' = [pc EXCEPT ![t] = l] /\ l \in PcSet \ {"none"}
        /\ UNCHANGED <<stk, call, handle, nextTid, got>> /\ UNCHANGED <<used, cache>>
    BY DEF Start, Goto, PcSet, OnStack, Marked, Living
  <1>3. pd' = [pd EXCEPT ![s] = p] /\ pc'[t] = l /\ pd'[s] = p
    BY <1>0, <1>1, <1>2 DEF Start, BaseType
  <1>4. p \in Pd
    BY <1>1, PthreadsAssumption DEF Pd, Tids
  <1>5. BaseType'
    BY <1>0, <1>1, <1>2, <1>3, <1>4 DEF Start, BaseType
  <1>6. OwnOK(t)'
    <2>1. /\ ~pd[s].terminated /\ ~pd[s].exiting /\ s \in used /\ s \notin cache
          /\ pd[s].setup_failed => Failing(t)
      BY <1>0, <1>1 DEF OwnOK, Cleared, Living, Stuck
    <2>2. Failing(t)' <=> Failing(t)
      BY <1>2 DEF Failing
    <2>3. CASE pd[s].stopped /\ pd[s].setup_failed
      <3>1. PICK c \in Tids : call[c].t = t /\ call[c].fn = "reap"
        BY <2>1, <2>3 DEF Failing
      <3>2. l = "out" /\ p.tid = t /\ ~p.detached /\ ~p.terminated
        BY <1>1, <2>1, <2>3 DEF Pd
      <3> HIDE DEF p, l
      <3>3. call'[c].t = t /\ call'[c].fn \notin Detaching
        BY <1>2, <3>1 DEF Detaching
      <3>4. Failing(t)'
        BY <2>1, <2>2, <2>3
      <3> QED
        BY <1>2, <1>3, <2>1, <3>2, <3>3, <3>4 DEF OwnOK, Cleared, Living, Stuck
    <2>4. CASE ~(pd[s].stopped /\ pd[s].setup_failed)
      <3>1. l = "body" /\ p = pd[s]
        BY <2>4
      <3> HIDE DEF p, l
      <3> QED
        BY <1>0, <1>1, <1>2, <1>3, <2>1, <3>1 DEF OwnOK, Cleared, Living, Stuck, Marked
    <2> QED
      BY <2>3, <2>4
  <1>7. ASSUME NEW d \in Tids, call[d].t = t PROVE StageOK(d)'
    BY <1>0, <1>1, <1>2, <1>3, <1>7 DEF Start, StageOK, Cleared, Marked, Living, Stuck, Pd
  <1>8. /\ \A r \in Stacks \ {s} : /\ r \in used' <=> r \in used
                                   /\ r \in cache' => r \in cache
                                   /\ r \in cache /\ pd[r].tid > 0 => r \in cache'
        /\ pc[t] \notin Cleared
    BY <1>0, <1>2 DEF Cleared
  <1> HIDE DEF l, p
  <1> QED
    BY <1>0, <1>1, <1>2, <1>3, <1>5, <1>6, <1>7, <1>8, OwnerStep

LEMMA ReturnsStep ==
    ASSUME Inv, NEW t \in Tids, Returns(t)
    PROVE  Inv'
  <1> DEFINE s == stk[t]
             l == "returned"
             p == [pd[s] EXCEPT !.result = t]
  <1>0. pc[t] = "body" /\ t # Main /\ call[t].fn = "none"
    BY NotInBody DEF Returns, At, InBody, NoCall
  <1>1. /\ Owned(t) /\ OwnOK(t) /\ s \in Stacks /\ BaseType /\ pd[s].tid = t /\ pd[s] \in Pd
        /\ \A d \in Tids : call[d].t = t => call[d].s = s /\ StageOK(d) /\ call[d].fn \in OnThread
    BY <1>0, AtOwned DEF Marked, Living
  <1>2. /\ pc' = [pc EXCEPT ![t] = l] /\ l \in PcSet \ {"none"}
        /\ UNCHANGED <<stk, call, handle, nextTid, got>> /\ UNCHANGED <<used, cache>>
    BY DEF Returns, Goto, PcSet, OnStack, Marked, Living
  <1>3. pd' = [pd EXCEPT ![s] = p] /\ pc'[t] = l /\ pd'[s] = p
    BY <1>0, <1>1, <1>2 DEF Returns, BaseType
  <1>4. p \in Pd
    BY <1>1, PthreadsAssumption DEF Pd, Tids
  <1>5. BaseType'
    BY <1>0, <1>1, <1>2, <1>3, <1>4 DEF Returns, BaseType
  <1>6. OwnOK(t)'
    BY <1>0, <1>1, <1>2, <1>3 DEF OwnOK, Owned, Pending, Failing, Cleared, Marked, Living, Stuck, Pd
  <1>7. ASSUME NEW d \in Tids, call[d].t = t PROVE StageOK(d)'
    BY <1>0, <1>1, <1>2, <1>3, <1>7 DEF Returns, StageOK, Cleared, Marked, Living, Stuck, Pd
  <1>8. /\ \A r \in Stacks \ {s} : /\ r \in used' <=> r \in used
                                   /\ r \in cache' => r \in cache
                                   /\ r \in cache /\ pd[r].tid > 0 => r \in cache'
        /\ pc[t] \notin Cleared
    BY <1>0, <1>2 DEF Cleared
  <1> HIDE DEF l, p
  <1> QED
    BY <1>0, <1>1, <1>2, <1>3, <1>5, <1>6, <1>7, <1>8, OwnerStep

LEMMA SetExitingStep ==
    ASSUME Inv, NEW t \in Tids, SetExiting(t)
    PROVE  Inv'
  <1> DEFINE s == stk[t]
             l == "exiting"
             p == [pd[s] EXCEPT !.exiting = TRUE]
  <1>0. pc[t] = "returned" /\ t # Main /\ call[t].fn = "none"
    BY NotInBody DEF SetExiting, At
  <1>1. /\ Owned(t) /\ OwnOK(t) /\ s \in Stacks /\ BaseType /\ pd[s].tid = t /\ pd[s] \in Pd
        /\ \A d \in Tids : call[d].t = t => call[d].s = s /\ StageOK(d) /\ call[d].fn \in OnThread
    BY <1>0, AtOwned DEF Marked, Living
  <1>2. /\ pc' = [pc EXCEPT ![t] = l] /\ l \in PcSet \ {"none"}
        /\ UNCHANGED <<stk, call, handle, nextTid, got>> /\ UNCHANGED <<used, cache>>
    BY DEF SetExiting, Goto, PcSet, OnStack, Marked, Living
  <1>3. pd' = [pd EXCEPT ![s] = p] /\ pc'[t] = l /\ pd'[s] = p
    BY <1>0, <1>1, <1>2 DEF SetExiting, BaseType
  <1>4. p \in Pd
    BY <1>1, PthreadsAssumption DEF Pd, Tids
  <1>5. BaseType'
    BY <1>0, <1>1, <1>2, <1>3, <1>4 DEF SetExiting, BaseType
  <1>6. OwnOK(t)'
    BY <1>0, <1>1, <1>2, <1>3 DEF OwnOK, Owned, Pending, Failing, Cleared, Marked, Living, Stuck, Pd
  <1>7. ASSUME NEW d \in Tids, call[d].t = t PROVE StageOK(d)'
    BY <1>0, <1>1, <1>2, <1>3, <1>7 DEF SetExiting, StageOK, Cleared, Marked, Living, Stuck, Pd
  <1>8. /\ \A r \in Stacks \ {s} : /\ r \in used' <=> r \in used
                                   /\ r \in cache' => r \in cache
                                   /\ r \in cache /\ pd[r].tid > 0 => r \in cache'
        /\ pc[t] \notin Cleared
    BY <1>0, <1>2 DEF Cleared
  <1> HIDE DEF l, p
  <1> QED
    BY <1>0, <1>1, <1>2, <1>3, <1>5, <1>6, <1>7, <1>8, OwnerStep

LEMMA ClearTidStep ==
    ASSUME Inv, NEW t \in Tids, ClearTid(t)
    PROVE  Inv'
  <1> DEFINE s == stk[t]
             l == "cleared"
             p == [pd[s] EXCEPT !.tid = 0]
  <1>0. pc[t] = "out" /\ t # Main /\ call[t].fn = "none"
    BY NotInBody DEF ClearTid, At
  <1>1. /\ Owned(t) /\ OwnOK(t) /\ s \in Stacks /\ BaseType /\ pd[s].tid = t /\ pd[s] \in Pd
        /\ \A d \in Tids : call[d].t = t => call[d].s = s /\ StageOK(d) /\ call[d].fn \in OnThread
    BY <1>0, AtOwned DEF Marked, Living
  <1>2. /\ pc' = [pc EXCEPT ![t] = l] /\ l \in PcSet \ {"none"}
        /\ UNCHANGED <<stk, call, handle, nextTid, got>> /\ UNCHANGED <<used, cache>>
    BY DEF ClearTid, Goto, PcSet, OnStack, Marked, Living
  <1>3. pd' = [pd EXCEPT ![s] = p] /\ pc'[t] = l /\ pd'[s] = p
    BY <1>0, <1>1, <1>2 DEF ClearTid, BaseType
  <1>4. p \in Pd
    BY <1>1, PthreadsAssumption DEF Pd, Tids
  <1>5. BaseType'
    BY <1>0, <1>1, <1>2, <1>3, <1>4 DEF ClearTid, BaseType
  <1>6. OwnOK(t)'
    BY <1>0, <1>1, <1>2, <1>3 DEF OwnOK, Owned, Pending, Failing, Cleared, Marked, Living, Stuck, Pd
  <1>7. ASSUME NEW d \in Tids, call[d].t = t PROVE StageOK(d)'
    BY <1>0, <1>1, <1>2, <1>3, <1>7 DEF ClearTid, StageOK, Cleared, Marked, Living, Stuck, Pd
  <1>8. /\ \A r \in Stacks \ {s} : /\ r \in used' <=> r \in used
                                   /\ r \in cache' => r \in cache
                                   /\ r \in cache /\ pd[r].tid > 0 => r \in cache'
        /\ pc[t] \notin Cleared
    BY <1>0, <1>2 DEF Cleared
  <1> HIDE DEF l, p
  <1> QED
    BY <1>0, <1>1, <1>2, <1>3, <1>5, <1>6, <1>7, <1>8, OwnerStep

LEMMA TrapStep ==
    ASSUME Inv, NEW t \in Tids, Trap(t)
    PROVE  Inv'
  <1> DEFINE s == stk[t]
             l == "trapped"
             p == pd[s]
  <1>0. pc[t] = "body" /\ t # Main /\ call[t].fn = "none"
    BY NotInBody DEF Trap, At, InBody, NoCall
  <1>1. /\ Owned(t) /\ OwnOK(t) /\ s \in Stacks /\ BaseType /\ pd[s].tid = t /\ pd[s] \in Pd
        /\ \A d \in Tids : call[d].t = t => call[d].s = s /\ StageOK(d) /\ call[d].fn \in OnThread
    BY <1>0, AtOwned DEF Marked, Living
  <1>2. /\ pc' = [pc EXCEPT ![t] = l] /\ l \in PcSet \ {"none"}
        /\ UNCHANGED <<stk, call, handle, nextTid, got>> /\ UNCHANGED <<used, cache>>
    BY DEF Trap, Goto, PcSet, OnStack, Marked, Living
  <1>3. pd' = [pd EXCEPT ![s] = p] /\ pc'[t] = l /\ pd'[s] = p
    BY <1>0, <1>1, <1>2 DEF Trap, BaseType
  <1>4. p \in Pd
    BY <1>1, PthreadsAssumption DEF Pd, Tids
  <1>5. BaseType'
    BY <1>0, <1>1, <1>2, <1>3, <1>4 DEF Trap, BaseType
  <1>6. OwnOK(t)'
    BY <1>0, <1>1, <1>2, <1>3 DEF OwnOK, Owned, Pending, Failing, Cleared, Marked, Living, Stuck, Pd
  <1>7. ASSUME NEW d \in Tids, call[d].t = t PROVE StageOK(d)'
    BY <1>0, <1>1, <1>2, <1>3, <1>7 DEF Trap, StageOK, Cleared, Marked, Living, Stuck, Pd
  <1>8. /\ \A r \in Stacks \ {s} : /\ r \in used' <=> r \in used
                                   /\ r \in cache' => r \in cache
                                   /\ r \in cache /\ pd[r].tid > 0 => r \in cache'
        /\ pc[t] \notin Cleared
    BY <1>0, <1>2 DEF Cleared
  <1> HIDE DEF l, p
  <1> QED
    BY <1>0, <1>1, <1>2, <1>3, <1>5, <1>6, <1>7, <1>8, OwnerStep

\* What queue_stack does to the cache: it adds s, and drops stacks that may be reused.
LEMMA Queued ==
    ASSUME NEW s, NEW R, cache' \in queue_stack(s, R)
    PROVE  /\ cache' \subseteq cache \cup {s}
           /\ (cache \cup {s}) \ R \subseteq cache'
  BY DEF queue_stack

\* A stack given back by deallocate_stack, seen from the other stacks.
LEMMA Deallocated ==
    ASSUME BaseType, NEW s \in Stacks, NEW R \in SUBSET Stacks, deallocate_stack(s, R),
           \A r \in Stacks \ {s} : r \in R => Reusable(r)
    PROVE  /\ used' = used \ {s} /\ used' \in SUBSET Stacks /\ cache' \in SUBSET Stacks
           /\ \A r \in Stacks \ {s} : /\ r \in used' <=> r \in used
                                      /\ r \in cache' => r \in cache
                                      /\ r \in cache /\ pd[r].tid > 0 => r \in cache'
           /\ s \notin R => s \in cache'
  <1>1. used' = used \ {s} /\ cache' \in queue_stack(s, R)
    BY DEF deallocate_stack
  <1>2. cache' \subseteq cache \cup {s} /\ (cache \cup {s}) \ R \subseteq cache'
    BY <1>1, Queued
  <1>3. ASSUME NEW r \in Stacks \ {s}, r \in cache, pd[r].tid > 0 PROVE r \in cache'
    <2>1. pd[r].tid \in Int
      BY DEF BaseType, Pd
    <2> QED
      BY <1>2, <1>3, <2>1 DEF Reusable
  <1> QED
    BY <1>1, <1>2, <1>3 DEF BaseType

LEMMA FreedTcb ==
    ASSUME BaseType, NEW s \in Stacks, NEW p \in Pd, free_tcb(s, p)
    PROVE  /\ pd' = [pd EXCEPT ![s] = [p EXCEPT !.terminated = TRUE]]
           /\ used' \in SUBSET Stacks /\ cache' \in SUBSET Stacks
           /\ \A r \in Stacks \ {s} : /\ r \in used' <=> r \in used
                                      /\ r \in cache' => r \in cache
                                      /\ r \in cache /\ pd[r].tid > 0 => r \in cache'
           /\ ~p.terminated => s \notin used' /\ (p.tid > 0 => s \in cache')
           /\ p.terminated => used' = used /\ cache' = cache
  <1> DEFINE R == {r \in Stacks : IF r = s THEN p.tid <= 0 ELSE Reusable(r)}
  <1>1. CASE p.terminated
    BY <1>1 DEF free_tcb, stackVars, BaseType
  <1>2. CASE ~p.terminated
    <2>1. deallocate_stack(s, R)
      BY <1>2 DEF free_tcb
    <2>2. p.tid \in Int /\ (p.tid > 0 => s \notin R)
      BY DEF Pd
    <2>3. R \in SUBSET Stacks /\ \A r \in Stacks \ {s} : r \in R => Reusable(r)
      OBVIOUS
    <2> HIDE DEF R
    <2>4. /\ used' = used \ {s} /\ used' \in SUBSET Stacks /\ cache' \in SUBSET Stacks
          /\ \A r \in Stacks \ {s} : /\ r \in used' <=> r \in used
                                     /\ r \in cache' => r \in cache
                                     /\ r \in cache /\ pd[r].tid > 0 => r \in cache'
          /\ s \notin R => s \in cache'
      BY <2>1, <2>3, Deallocated
    <2> QED
      BY <1>2, <2>2, <2>4 DEF free_tcb
  <1> QED
    BY <1>1, <1>2

LEMMA FreeIfDetachedStep ==
    ASSUME Inv, NEW t \in Tids, FreeIfDetached(t)
    PROVE  Inv'
  <1> DEFINE s == stk[t]
             p == IF pd[s].detached THEN [pd[s] EXCEPT !.terminated = TRUE] ELSE pd[s]
  <1>0. pc[t] = "exiting" /\ t # Main /\ call[t].fn = "none"
    BY NotInBody DEF FreeIfDetached, At
  <1>1. /\ Owned(t) /\ OwnOK(t) /\ s \in Stacks /\ BaseType /\ pd[s].tid = t /\ pd[s] \in Pd
        /\ \A d \in Tids : call[d].t = t => call[d].s = s /\ StageOK(d) /\ call[d].fn \in OnThread
    BY <1>0, AtOwned DEF Marked, Living
  <1>2. /\ pc' = [pc EXCEPT ![t] = "out"] /\ "out" \in PcSet \ {"none"}
        /\ UNCHANGED <<stk, call, handle, nextTid, got>>
    BY DEF FreeIfDetached, Goto, PcSet, OnStack, Marked, Living
  <1>3. /\ pd' = [pd EXCEPT ![s] = p]
        /\ used' \in SUBSET Stacks /\ cache' \in SUBSET Stacks
        /\ \A r \in Stacks \ {s} : /\ r \in used' <=> r \in used
                                   /\ r \in cache' => r \in cache
                                   /\ r \in cache /\ pd[r].tid > 0 => r \in cache'
        /\ p.terminated => s \notin used' /\ s \in cache'
        /\ ~p.terminated => s \in used' /\ s \notin cache'
    <2>0. /\ pd[s].terminated => s \notin used /\ s \in cache /\ pd[s].detached
          /\ ~pd[s].terminated => s \in used /\ s \notin cache
      BY <1>0, <1>1 DEF OwnOK, Cleared
    <2>1. CASE pd[s].detached
      <3>0. p = [pd[s] EXCEPT !.terminated = TRUE] /\ p.terminated
        BY <1>1, <2>1 DEF Pd
      <3> HIDE DEF p
      <3>1. free_tcb(s, pd[s]) /\ t > 0
        BY <2>1, TidsFacts DEF FreeIfDetached
      <3> QED
        BY ZenonT(60), <1>1, <2>0, <3>0, <3>1, FreedTcb
    <2>2. CASE ~pd[s].detached
      <3>1. p = pd[s]
        BY <2>2
      <3>2. UNCHANGED <<pd, used, cache>>
        BY <2>2 DEF FreeIfDetached
      <3> QED
        BY <1>1, <2>0, <2>2, <3>1, <3>2 DEF BaseType
    <2> QED
      BY <2>1, <2>2
  <1>4. p \in Pd /\ pc'[t] = "out" /\ pd'[s] = p
    BY <1>0, <1>1, <1>2, <1>3 DEF Pd, BaseType
  <1>5. BaseType'
    BY <1>0, <1>1, <1>2, <1>3, <1>4 DEF FreeIfDetached, BaseType
  <1>6. OwnOK(t)'
    <2>1. /\ p.tid = t /\ p.detached = pd[s].detached /\ p.exiting = pd[s].exiting
          /\ p.result = pd[s].result /\ (p.terminated => p.detached)
      BY <1>0, <1>1 DEF Pd, OwnOK, Cleared
    <2> HIDE DEF p
    <2> QED
      BY <1>0, <1>1, <1>2, <1>3, <1>4, <2>1
      DEF OwnOK, Owned, Pending, Failing, Cleared, Marked, Living, Stuck
  <1>7. ASSUME NEW d \in Tids, call[d].t = t PROVE StageOK(d)'
    BY <1>0, <1>1, <1>2, <1>3, <1>4, <1>7 DEF StageOK, Cleared, Marked, Living, Stuck
  <1> HIDE DEF p
  <1> QED
    BY <1>0, <1>1, <1>2, <1>3, <1>5, <1>6, <1>7, OwnerStep DEF Cleared

\* Steps that touch at most who is asleep.
LEMMA QuietStep ==
    ASSUME Inv, BaseType', UNCHANGED <<pc, stk, handle, got, pd, used, cache, nextTid>>,
           \A d \in Tids : SameCall(d)
    PROVE  Inv'
  <1>1. \A u \in Tids : Owned(u) => stk[u] # 0
    BY OwnedStack DEF NoStack
  <1>2. \A d \in Tids : call[d].fn \in Making => call[d].s # 0
    BY PthreadsAssumption DEF Inv, CallOK, Making
  <1>3. RoomInv'
    BY RoomKept DEF Inv, Creating, SameCall
  <1>4. Local(0, 0, 0)
    BY <1>1, <1>2, TidsFacts DEF Local, SameThread, SameStack, Inv, BaseType
  <1>5. TouchedOK(0, 0, 0)
    BY TidsFacts DEF TouchedOK
  <1> QED
    BY <1>3, <1>4, <1>5, LocalStep

\* A thread that has cleared its tid goes on to its end.
LEMMA ClearedStep ==
    ASSUME Inv, BaseType', NEW t \in Tids, pc[t] \in Cleared, NEW l \in Cleared,
           pc' = [pc EXCEPT ![t] = l],
           UNCHANGED <<stk, handle, got, pd, used, cache, nextTid>>,
           \A d \in Tids : SameCall(d)
    PROVE  Inv'
  <1>0. BaseType /\ t # Main /\ t # 0 /\ pc[t] \notin Marked \cup Stuck /\ nextTid \in Int
    BY TidsFacts DEF Inv, PcOK, Cleared, Marked, Living, Stuck, BaseType
  <1>1. pc'[t] = l /\ \A u \in Tids \ {t} : pc'[u] = pc[u]
    BY <1>0 DEF BaseType
  <1>2. \A d \in Tids : /\ call'[d].fn = call[d].fn /\ call'[d].s = call[d].s
                        /\ call'[d].t = call[d].t /\ call'[d].kind = call[d].kind
                        /\ call'[d].asleep => call[d].fn \in Waits
    BY DEF SameCall
  <1>3. RoomInv'
    BY <1>2, RoomKept DEF Inv, Creating
  <1>4. PICK c \in Tids \cup {0} : /\ c \in Tids => call[c].t = t
                                  /\ \A d \in Tids \ {c} : call[d].t # t
    <2>1. CASE \E d \in Tids : call[d].t = t
      BY <1>0, <2>1 DEF Inv, UserInv
    <2>2. CASE ~\E d \in Tids : call[d].t = t
      BY <2>2, TidsFacts
    <2> QED
      BY <2>1, <2>2
  <1>5. /\ Owned(t)' <=> Owned(t)
        /\ Failing(t)' <=> Failing(t)
    BY <1>0, <1>1, <1>2 DEF Owned, Pending, Failing, Cleared, Marked, Living, Stuck
  <1> DEFINE s == IF Owned(t) THEN stk[t] ELSE 0
  <1>6. Local(c, t, s)
    <2>1. \A u \in Tids \ {t} : Owned(u) => stk[u] # s
      BY OwnedStack DEF Inv, OneUserInv, NoStack
    <2>2. \A d \in Tids \ {c} : call[d].fn \in Making => call[d].s # s
      BY PthreadsAssumption DEF Inv, OneUserInv, CallOK, Making
    <2> HIDE DEF s
    <2>3. \A d \in Tids \ {c} : SameCall(d) /\ (call[d].t # 0 => call[d].t # t)
      BY <1>4
    <2>4. \A u \in Tids \ {t} : SameThread(u)
      BY <1>1 DEF SameThread
    <2>5. \A r \in Stacks \ {s} : SameStack(r)
      BY DEF SameStack
    <2>6. c \in Tids => call[c].t \in {0, t} /\ call'[c].t \in {0, t}
      BY <1>2, <1>4
    <2> QED
      BY <1>0, <2>1, <2>2, <2>3, <2>4, <2>5, <2>6 DEF Local
  <1>7. \A d \in Tids : CallOK(d)'
    <2> SUFFICES ASSUME NEW d \in Tids PROVE CallOK(d)'
      OBVIOUS
    <2>1. CallOK(d)
      BY DEF Inv
    <2>2. call[d].fn # "none" => pc'[d] = "body"
      BY <1>1, <2>1 DEF CallOK, Cleared
    <2>3. ASSUME call[d].t # 0
          PROVE  /\ pc'[call[d].t] = "none" <=> pc[call[d].t] = "none"
                 /\ stk'[call[d].t] = stk[call[d].t]
      BY <1>0, <1>1, <2>1, <2>3, CallTid DEF Cleared
    <2>4. call[d].fn \in {"spawn"} \cup OnThread => call[d].t # 0
      BY <1>0, <2>1 DEF CallOK
    <2> QED
      BY <1>2, <2>1, <2>2, <2>3, <2>4 DEF CallOK
  <1>8. ASSUME c \in Tids
        PROVE  /\ MakeOK(c)' /\ StageOK(c)' /\ call'[c].fn \notin Making
               /\ handle'[t] # "owned"
    <2>1. call[c].t = t /\ call[c].t # 0 /\ CallOK(c) /\ StageOK(c)
      BY <1>0, <1>4, <1>8 DEF Inv
    <2>2. call[c].fn \notin Making
      BY <1>0, <1>8, <2>1, CallTid DEF CallOK, Making, OnThread, Joining, Detaching, Cleared
    <2>3. StageOK(c)'
      BY <1>1, <1>2, <1>8, <2>1 DEF StageOK, Cleared, Living, Stuck
    <2> QED
      BY <1>2, <1>8, <2>1, <2>2, <2>3 DEF MakeOK, Making, Inv, UserInv
  <1>9. PcOK(t)' /\ JoinOK(t)'
    BY <1>0, <1>1 DEF Inv, PcOK, JoinOK, Cleared
  <1>10. OwnOK(t)'
    <2> SUFFICES ASSUME Owned(t) PROVE OwnOK(t)'
      BY <1>5 DEF OwnOK
    <2>1. OwnOK(t)
      BY DEF Inv
    <2> QED
      BY <1>1, <1>2, <1>5, <2>1 DEF OwnOK, Cleared, Living, Stuck
  <1>11. TouchedOK(c, t, s)
    BY <1>5, <1>7, <1>8, <1>9, <1>10 DEF TouchedOK
  <1> QED
    BY <1>3, <1>6, <1>11, LocalStep

LEMMA AsleepType ==
    ASSUME BaseType, NEW j \in Tids, NEW b \in BOOLEAN, call' = [call EXCEPT ![j].asleep = b]
    PROVE  /\ call' \in [Tids -> Call]
           /\ \A d \in Tids : /\ call'[d].fn = call[d].fn /\ call'[d].s = call[d].s
                              /\ call'[d].t = call[d].t /\ call'[d].kind = call[d].kind
           /\ \A d \in Tids \ {j} : call'[d].asleep = call[d].asleep
           /\ call'[j].asleep = b
  BY DEF BaseType, Call

LEMMA HostExitStep ==
    ASSUME Inv, NEW t \in Tids, HostExit(t)
    PROVE  Inv'
  <1>0. BaseType /\ t \in 0..MaxTid /\ "gone" \in PcSet
    BY TidsFacts, PthreadsAssumption DEF Inv, PcSet
  <1>1. BaseType'
    BY <1>0 DEF HostExit, Goto, BaseType
  <1>2. \A d \in Tids : SameCall(d)
    BY DEF HostExit, SameCall, Inv, CallOK
  <1> QED
    BY <1>1, <1>2, ClearedStep DEF HostExit, At, Goto, Cleared

LEMMA WakeJoinerStep ==
    ASSUME Inv, NEW t \in Tids, WakeJoiner(t)
    PROVE  Inv'
  <1>0. BaseType /\ pc[t] = "cleared" /\ pc' = [pc EXCEPT ![t] = "woken"]
    BY DEF WakeJoiner, At, Goto, Inv
  <1>1. call' \in [Tids -> Call] /\ \A d \in Tids : SameCall(d)
    <2>1. CASE call' = call
      BY <2>1 DEF SameCall, Inv, CallOK, BaseType
    <2>2. CASE call' # call
      <3>1. PICK j \in Tids : call' = [call EXCEPT ![j].asleep = FALSE]
        BY <2>2 DEF WakeJoiner
      <3> QED
        BY ZenonT(60), <1>0, <3>1, AsleepType DEF SameCall, Inv, CallOK
    <2> QED
      BY <2>1, <2>2
  <1>2. BaseType'
    BY <1>0, <1>1 DEF WakeJoiner, BaseType, PcSet, OnStack
  <1> QED
    BY <1>0, <1>1, <1>2, ClearedStep DEF WakeJoiner, Cleared

LEMMA FutexStep ==
    ASSUME Inv, NEW j \in Tids, FutexWait(j) \/ FutexInterrupted(j)
    PROVE  Inv'
  <1>0. BaseType
    BY DEF Inv
  <1>1. call' \in [Tids -> Call] /\ \A d \in Tids : SameCall(d)
    <2>1. CASE FutexWait(j)
      BY ZenonT(60), <1>0, <2>1, AsleepType DEF FutexWait, SameCall, Inv, CallOK
    <2>2. CASE FutexInterrupted(j)
      BY ZenonT(60), <1>0, <2>2, AsleepType DEF FutexInterrupted, SameCall, Inv, CallOK
    <2> QED
      BY <2>1, <2>2
  <1>2. UNCHANGED <<pd, used, cache, unwind, nthreads, nextTid, pc, stk, handle, over, got>>
    BY DEF FutexWait, FutexInterrupted
  <1>3. BaseType'
    BY <1>0, <1>1, <1>2 DEF BaseType
  <1> QED
    BY <1>1, <1>2, <1>3, QuietStep

LEMMA MainReturnsStep ==
    ASSUME Inv, MainReturns
    PROVE  Inv'
  <1>1. BaseType'
    BY DEF MainReturns, Inv, BaseType
  <1>2. \A d \in Tids : SameCall(d)
    BY DEF MainReturns, SameCall, Inv, CallOK
  <1> QED
    BY <1>1, <1>2, QuietStep DEF MainReturns
-----------------------------------------------------------------------------
(***************************************************************************)
(* The steps of a call about a thread.                                     *)
(***************************************************************************)
\* A step of call c about thread v, which owns its stack.
LEMMA CallerStep ==
    ASSUME Inv, BaseType', NEW c \in Tids, NEW v \in Tids, Owned(v),
           call[c].t \in {0, v}, call[c].fn \notin Making, \A d \in Tids \ {c} : call[d].t # v,
           call'[c].t \in {0, v}, call'[c].fn \notin Making,
           \A d \in Tids \ {c} : call'[d] = call[d],
           UNCHANGED <<pc, stk, nextTid>>,
           \A u \in Tids \ {v} : handle'[u] = handle[u] /\ got'[u] = got[u],
           \A r \in Stacks \ {stk[v]} : SameStack(r),
           CallOK(c)', StageOK(c)', OwnOK(v)', PcOK(v)', JoinOK(v)',
           call'[c].t # 0 => handle'[v] # "owned"
    PROVE  Inv'
  <1> DEFINE s == stk[v]
  <1>0. BaseType /\ s \in Stacks /\ nextTid \in Int
    BY OwnedStack, TidsFacts DEF Inv, BaseType
  <1>2. RoomInv'
    BY RoomKept DEF Inv, Creating, Making
  <1>3. Local(c, v, s)
    <2>1. \A d \in Tids \ {c} : SameCall(d) /\ (call[d].t # 0 => call[d].t # v)
      BY DEF SameCall, Inv, CallOK
    <2>2. \A u \in Tids \ {v} : SameThread(u) /\ (Owned(u) => stk[u] # s)
      BY DEF SameThread, Inv, OneUserInv
    <2>3. \A d \in Tids \ {c} : call[d].fn \in Making => call[d].s # s
      BY DEF Inv, OneUserInv
    <2> QED
      BY <1>0, <2>1, <2>2, <2>3 DEF Local
  <1>4. CallOK(v)'
    <2>1. CASE v = c
      BY <2>1
    <2>2. CASE v # c
      BY <2>2 DEF Inv, CallOK
    <2> QED
      BY <2>1, <2>2
  <1>5. MakeOK(c)'
    BY DEF MakeOK, Making
  <1>6. TouchedOK(c, v, s)
    BY <1>4, <1>5 DEF TouchedOK
  <1> QED
    BY <1>2, <1>3, <1>6, LocalStep

\* A call c in progress about thread v with stack s.
About(c, v, s) ==
    /\ call[c].t = v /\ call[c].s = s
    /\ v # 0 /\ v # Main /\ Owned(v) /\ stk[v] = s /\ pc[v] # "none"
    /\ CallOK(c) /\ StageOK(c) /\ OwnOK(v) /\ PcOK(v) /\ JoinOK(v)
    /\ \A d \in Tids \ {c} : call[d].t # v
    /\ handle[v] # "owned" /\ call[c].fn \notin Making
    /\ pd[s] \in Pd /\ call[c] \in Call /\ BaseType

LEMMA CallAbout ==
    ASSUME Inv, NEW c \in Tids, call[c].fn \in OnThread
    PROVE  \E v \in Tids, s \in Stacks : About(c, v, s)
  <1>1. CallOK(c) /\ StageOK(c) /\ BaseType /\ call[c] \in Call
    BY DEF Inv, BaseType
  <1>2. call[c].t \in 2..nextTid /\ nextTid \in Tids
    BY <1>1 DEF CallOK, BaseType
  <1>3. call[c].t \in Tids /\ call[c].t # 0 /\ call[c].t # Main
    BY <1>2, PthreadsAssumption DEF Tids, Main
  <1>4. PcOK(call[c].t) /\ OwnOK(call[c].t) /\ JoinOK(call[c].t) /\ pc[call[c].t] \in PcSet
    BY <1>3 DEF Inv, BaseType
  <1>5. Owned(call[c].t) /\ stk[call[c].t] = call[c].s
    BY <1>1, <1>4, CalledIsOwned
  <1>6. call[c].s \in Stacks /\ call[c].fn \notin Making /\ pc[call[c].t] # "none"
    BY <1>1 DEF CallOK, OnThread, Joining, Detaching, Making
  <1>7. pd[call[c].s] \in Pd
    BY <1>1, <1>6 DEF BaseType
  <1>8. handle[call[c].t] # "owned" /\ \A d \in Tids \ {c} : call[d].t # call[c].t
    BY <1>3 DEF Inv, UserInv
  <1> QED
    BY <1>1, <1>3, <1>4, <1>5, <1>6, <1>7, <1>8 DEF About

\* A call has returned.
LEMMA NoCallOK ==
    ASSUME NEW c \in Tids, call'[c] = NoCall
    PROVE  CallOK(c)' /\ StageOK(c)' /\ MakeOK(c)'
  BY DEF CallOK, StageOK, MakeOK, NoCall, Making, OnThread, Joining, Detaching

LEMMA NoCallType == NoCall \in Call
  BY PthreadsAssumption DEF NoCall, Call, Fns, Waits, NoStack

\* The call returns, and leaves the thread it is about without a user.
LEMMA LastCall ==
    ASSUME Inv, NEW c \in Tids, NEW v \in Tids, NEW s \in Stacks, About(c, v, s), BaseType',
           pc[v] \in Cleared, call' = [call EXCEPT ![c] = NoCall],
           UNCHANGED <<pc, stk, nextTid, handle>>,
           \A u \in Tids \ {v} : got'[u] = got[u], JoinOK(v)',
           \A r \in Stacks \ {s} : SameStack(r)
    PROVE  Inv'
  <1>1. call'[c] = NoCall /\ \A d \in Tids \ {c} : call'[d] = call[d]
    BY DEF About, BaseType
  <1>2. NoCall.t = 0 /\ NoCall.fn \notin Making
    BY DEF NoCall, Making
  <1>3. ~Pending(v)'
    BY <1>1, <1>2 DEF Pending, About
  <1>4. OwnOK(v)'
    BY <1>3 DEF OwnOK, Owned, Cleared, Marked, Living, Stuck
  <1>5. PcOK(v)'
    BY DEF About, PcOK
  <1>6. CallOK(c)' /\ StageOK(c)'
    BY <1>1, NoCallOK
  <1> QED
    BY <1>1, <1>2, <1>4, <1>5, <1>6, CallerStep DEF About

LEMMA DetachCheckStep ==
    ASSUME Inv, NEW d \in Tids, DetachCheck(d)
    PROVE  Inv'
  <1>0. call[d].fn = "detach_check"
    BY DEF DetachCheck, In
  <1>1. PICK v \in Tids, s \in Stacks : About(d, v, s)
    BY <1>0, CallAbout DEF OnThread, Detaching
  <1>2. PICK k : /\ k = IF pd[s].exiting THEN [call[d] EXCEPT !.fn = "detach_free"] ELSE NoCall
                 /\ call' = [call EXCEPT ![d] = k]
    BY <1>1 DEF DetachCheck, ToStep, Return, About
  <1>u. UNCHANGED <<pd, used, cache, unwind, nthreads, nextTid, pc, stk, handle, over, got>>
    BY DEF DetachCheck
  <1>3. /\ k \in Call /\ k.t \in {0, v} /\ k.fn \notin Making /\ k.fn \in {"none", "detach_free"}
        /\ k.fn = "detach_free" => pd[s].exiting
        /\ k.t = v => k.fn = "detach_free"
        /\ k = NoCall \/ k = [call[d] EXCEPT !.fn = "detach_free"]
    BY <1>1, <1>2, NoCallType DEF Call, NoCall, Fns, Making, About
  <1>4. call'[d] = k /\ \A e \in Tids \ {d} : call'[e] = call[e]
    BY <1>1, <1>2 DEF BaseType, About
  <1>5. BaseType'
    BY <1>1, <1>2, <1>u, <1>3 DEF BaseType, About
  <1>6. CallOK(d)' /\ StageOK(d)'
    <2>1. CASE k = NoCall
      BY <1>4, <2>1, NoCallOK
    <2>2. CASE k = [call[d] EXCEPT !.fn = "detach_free"]
      <3>1. k.fn = "detach_free" /\ k.t = v /\ k.s = s /\ k.asleep = call[d].asleep
        BY <1>1, <2>2 DEF Call, About
      <3>2. ~call[d].asleep
        BY <1>0, <1>1 DEF CallOK, Waits, About
      <3>3. pc[v] \notin Living \cup Stuck
        BY <1>1, <1>3, <3>1 DEF OwnOK, About
      <3> QED
        BY <1>0, <1>1, <1>u, <1>4, <3>1, <3>2, <3>3
        DEF CallOK, StageOK, Making, OnThread, Joining, Detaching, About
    <2> QED
      BY <1>3, <2>1, <2>2
  <1>7. OwnOK(v)'
    <2>1. pd[s].detached /\ handle[v] = "spent"
      BY <1>0, <1>1 DEF OwnOK, Detaching, About
    <2>2. ~Failing(v)
      BY <1>0, <1>1 DEF Failing, About
    <2>3. \A e \in Tids : call'[e].t = v => call'[e].fn \in Detaching
      BY <1>1, <1>3, <1>4 DEF Detaching, About
    <2> QED
      BY <1>1, <1>u, <2>1, <2>2, <2>3 DEF OwnOK, About
  <1>8. PcOK(v)' /\ JoinOK(v)'
    BY <1>1, <1>u DEF PcOK, JoinOK, About
  <1>9. \A r \in Stacks \ {stk[v]} : SameStack(r)
    BY <1>u DEF SameStack
  <1> QED
    BY <1>1, <1>3, <1>4, <1>u, <1>5, <1>6, <1>7, <1>8, <1>9, CallerStep DEF About

LEMMA ReapStep ==
    ASSUME Inv, NEW c \in Tids, Reap(c)
    PROVE  Inv'
  <1>0. call[c].fn = "reap" /\ pd[call[c].s].tid = 0 /\ call' = [call EXCEPT ![c] = NoCall]
    BY DEF Reap, In, Return
  <1>1. PICK v \in Tids, s \in Stacks : About(c, v, s)
    BY <1>0, CallAbout DEF OnThread
  <1>2. /\ deallocate_stack(s, {r \in Stacks : Reusable(r)}) /\ nthreads' = nthreads - 1
        /\ UNCHANGED <<pd, unwind, nextTid, pc, stk, handle, over, got>>
    BY <1>1 DEF Reap, About
  <1>3. /\ used' \in SUBSET Stacks /\ cache' \in SUBSET Stacks
        /\ \A r \in Stacks \ {s} : /\ r \in used' <=> r \in used
                                   /\ r \in cache' => r \in cache
                                   /\ r \in cache /\ pd[r].tid > 0 => r \in cache'
    BY <1>1, <1>2, Deallocated DEF About
  <1>4. BaseType'
    BY <1>0, <1>1, <1>2, <1>3, NoCallType DEF BaseType, About
  <1>5. pc[v] \in Cleared
    BY <1>0, <1>1 DEF OwnOK, About
  <1>6. JoinOK(v)' /\ \A r \in Stacks \ {s} : SameStack(r)
    BY <1>1, <1>2, <1>3 DEF JoinOK, SameStack, About
  <1> QED
    BY <1>0, <1>1, <1>2, <1>4, <1>5, <1>6, LastCall

LEMMA JoinDoneStep ==
    ASSUME Inv, NEW j \in Tids, JoinDone(j)
    PROVE  Inv'
  <1>0. /\ call[j].fn \in Joining /\ (call[j].fn = "tryjoin" \/ pd[call[j].s].tid = 0)
        /\ call' = [call EXCEPT ![j] = NoCall]
    BY DEF JoinDone, Return, Joining
  <1>1. PICK v \in Tids, s \in Stacks : About(j, v, s)
    BY <1>0, CallAbout DEF OnThread
  <1>2. PICK p : p = [pd[s] EXCEPT !.tid = -1]
    OBVIOUS
  <1>3. /\ free_tcb(s, p) /\ got' = [got EXCEPT ![v] = pd[s].result] /\ p \in Pd
        /\ UNCHANGED <<unwind, nthreads, nextTid, pc, stk, handle, over>>
    BY <1>1, <1>2, PthreadsAssumption DEF JoinDone, About, Pd
  <1>4. /\ pd' = [pd EXCEPT ![s] = [p EXCEPT !.terminated = TRUE]]
        /\ used' \in SUBSET Stacks /\ cache' \in SUBSET Stacks
        /\ \A r \in Stacks \ {s} : /\ r \in used' <=> r \in used
                                   /\ r \in cache' => r \in cache
                                   /\ r \in cache /\ pd[r].tid > 0 => r \in cache'
    BY <1>1, <1>3, FreedTcb DEF About
  <1>5. [p EXCEPT !.terminated = TRUE] \in Pd /\ pd[s].result \in -1..MaxTid
    <2>1. [p EXCEPT !.terminated = TRUE] \in Pd
      BY <1>3 DEF Pd
    <2>2. pd[s] \in Pd
      BY <1>1 DEF About
    <2>3. pd[s].result \in 0..MaxTid
      BY <2>2 DEF Pd
    <2> QED
      BY <2>1, <2>3, PthreadsAssumption
  <1>6. BaseType'
    BY <1>0, <1>1, <1>3, <1>4, <1>5, NoCallType DEF BaseType, About
  <1>7. pc[v] \in Cleared /\ pd[s].result = v
    <2>1. pc[v] \in Cleared
      BY <1>0, <1>1 DEF OwnOK, StageOK, About
    <2>2. ~Failing(v)
      BY <1>0, <1>1 DEF Failing, About, Joining
    <2> QED
      BY <1>1, <2>1, <2>2 DEF OwnOK, About
  <1>8. got'[v] = v /\ \A u \in Tids \ {v} : got'[u] = got[u]
    BY <1>1, <1>3, <1>7 DEF BaseType, About
  <1>9. JoinOK(v)'
    BY <1>3, <1>7, <1>8 DEF JoinOK
  <1>10. \A r \in Stacks \ {s} : SameStack(r)
    BY <1>1, <1>4 DEF SameStack, About, BaseType
  <1> QED
    <2>1. UNCHANGED <<pc, stk, nextTid, handle>>
      BY <1>3
    <2>2. call' = [call EXCEPT ![j] = NoCall]
      BY <1>0
    <2> QED
      BY <1>1, <1>6, <1>7, <1>8, <1>9, <1>10, <2>1, <2>2, LastCall

LEMMA DetachFreeStep ==
    ASSUME Inv, NEW d \in Tids, DetachFree(d)
    PROVE  Inv'
  <1>0. call[d].fn = "detach_free" /\ call' = [call EXCEPT ![d] = NoCall]
    BY DEF DetachFree, In, Return
  <1>1. PICK v \in Tids, s \in Stacks : About(d, v, s)
    BY <1>0, CallAbout DEF OnThread, Detaching
  <1>2. /\ free_tcb(s, pd[s])
        /\ UNCHANGED <<unwind, nthreads, nextTid, pc, stk, handle, over, got>>
    BY <1>1 DEF DetachFree, About
  <1>3. PICK p : p = [pd[s] EXCEPT !.terminated = TRUE]
    OBVIOUS
  <1>4. /\ p \in Pd /\ p.terminated /\ p.tid = pd[s].tid /\ p.detached = pd[s].detached
        /\ p.exiting = pd[s].exiting /\ p.result = pd[s].result
    BY <1>1, <1>3 DEF Pd, About
  <1>5. /\ pd' = [pd EXCEPT ![s] = p]
        /\ used' \in SUBSET Stacks /\ cache' \in SUBSET Stacks
        /\ \A r \in Stacks \ {s} : /\ r \in used' <=> r \in used
                                   /\ r \in cache' => r \in cache
                                   /\ r \in cache /\ pd[r].tid > 0 => r \in cache'
        /\ ~pd[s].terminated => s \notin used' /\ (pd[s].tid > 0 => s \in cache')
        /\ pd[s].terminated => used' = used /\ cache' = cache
    BY <1>1, <1>2, <1>3, FreedTcb DEF About
  <1>6. pd'[s] = p /\ \A r \in Stacks \ {s} : SameStack(r)
    BY <1>1, <1>5 DEF SameStack, About, BaseType
  <1>7. BaseType'
    BY <1>0, <1>1, <1>2, <1>4, <1>5, NoCallType DEF BaseType, About
  <1>8. JoinOK(v)' /\ PcOK(v)'
    BY <1>1, <1>2 DEF JoinOK, PcOK, About
  <1>9. CASE pc[v] \in Cleared
    BY <1>0, <1>1, <1>2, <1>6, <1>7, <1>8, <1>9, LastCall
  <1>10. CASE pc[v] \notin Cleared
    <2>1. /\ call'[d] = NoCall /\ \A e \in Tids \ {d} : call'[e] = call[e]
          /\ NoCall.t = 0 /\ NoCall.fn \notin Making
      BY <1>0, <1>1 DEF About, BaseType, NoCall, Making
    <2>2. CallOK(d)' /\ StageOK(d)'
      BY <2>1, NoCallOK
    <2>3. /\ pd[s].detached /\ handle[v] = "spent" /\ ~Failing(v) /\ pd[s].tid = v /\ v > 0
          /\ pc[v] \notin Living \cup Stuck
      BY <1>0, <1>1, <1>10, TidsFacts DEF OwnOK, Detaching, Failing, About, StageOK
    <2>4. s \notin used' /\ s \in cache'
      BY <1>1, <1>5, <1>10, <2>3 DEF OwnOK, About
    <2>5. \A e \in Tids : call'[e].t # v
      BY <1>1, <2>1 DEF About
    <2>6. OwnOK(v)'
      <3>1. /\ stk'[v] = s /\ pc'[v] = pc[v] /\ handle'[v] = "spent" /\ pd'[stk'[v]] = p
            /\ p.tid = v /\ p.detached /\ p.exiting = pd[s].exiting /\ p.result = pd[s].result
        BY <1>1, <1>2, <1>4, <1>6, <2>3 DEF About
      <3>2. /\ p.exiting
            /\ pc[v] \in {"returned", "exiting", "out"} \cup Cleared => p.result = v
        BY <1>1, <2>3, <3>1 DEF OwnOK, About
      <3> QED
        BY <1>4, <1>10, <2>3, <2>4, <2>5, <3>1, <3>2 DEF OwnOK, Living
    <2> QED
      BY <1>0, <1>1, <1>2, <1>6, <1>7, <1>8, <2>1, <2>2, <2>6, CallerStep DEF About
  <1> QED
    BY <1>9, <1>10

LEMMA JoinTimesOutStep ==
    ASSUME Inv, NEW j \in Tids, JoinTimesOut(j)
    PROVE  Inv'
  <1>0. call[j].fn = "timedjoin" /\ call' = [call EXCEPT ![j] = NoCall]
    BY DEF JoinTimesOut, In, Return
  <1>1. PICK v \in Tids, s \in Stacks : About(j, v, s)
    BY <1>0, CallAbout DEF OnThread, Joining
  <1>2. PICK p : p = [pd[s] EXCEPT !.detached = FALSE]
    OBVIOUS
  <1>3. /\ pd' = [pd EXCEPT ![s] = p] /\ handle' = [handle EXCEPT ![v] = "owned"]
        /\ UNCHANGED <<used, cache, unwind, nthreads, nextTid, pc, stk, over, got>>
    BY <1>1, <1>2 DEF JoinTimesOut, About
  <1>4. ~pd[s].detached /\ ~Failing(v)
    BY <1>0, <1>1 DEF OwnOK, Failing, Detaching, About
  <1>5. p = pd[s] /\ p \in Pd
    BY <1>1, <1>2, <1>4 DEF Pd, About
  <1>6. BaseType'
    BY <1>0, <1>1, <1>3, <1>5, NoCallType DEF BaseType, About
  <1>7. pd'[s] = pd[s] /\ \A r \in Stacks \ {stk[v]} : SameStack(r)
    BY <1>1, <1>3, <1>5 DEF SameStack, About, BaseType
  <1>8. handle'[v] = "owned" /\ \A u \in Tids \ {v} : handle'[u] = handle[u] /\ got'[u] = got[u]
    BY <1>1, <1>3 DEF About, BaseType
  <1>9. /\ call'[j] = NoCall /\ \A d \in Tids \ {j} : call'[d] = call[d]
        /\ NoCall.t = 0 /\ NoCall.fn \notin Making
    BY <1>0, <1>1 DEF About, BaseType, NoCall, Making
  <1>10. CallOK(j)' /\ StageOK(j)'
    BY <1>9, NoCallOK
  <1>11. PcOK(v)' /\ JoinOK(v)'
    BY <1>1, <1>3 DEF PcOK, JoinOK, About
  <1>12. OwnOK(v)'
    BY <1>1, <1>3, <1>4, <1>7, <1>8 DEF OwnOK, About
  <1> QED
    BY <1>1, <1>3, <1>6, <1>7, <1>8, <1>9, <1>10, <1>11, <1>12, CallerStep DEF About

LEMMA SetAttrStep ==
    ASSUME Inv, NEW c \in Tids, NEW ok \in BOOLEAN, SetAttr(c, ok)
    PROVE  Inv'
  <1>0. call[c].fn = "setattr"
    BY DEF SetAttr, In
  <1>1. PICK v \in Tids, s \in Stacks : About(c, v, s)
    BY <1>0, CallAbout DEF OnThread
  <1>2. PICK p : p = [pd[s] EXCEPT !.lock = FALSE, !.setup_failed = ~ok]
    OBVIOUS
  <1>3. /\ pd' = [pd EXCEPT ![s] = p]
        /\ UNCHANGED <<used, cache, unwind, nthreads, nextTid, pc, stk, over, got>>
    BY <1>1, <1>2 DEF SetAttr, About, BaseType
  <1>4. /\ p \in Pd /\ p.tid = pd[s].tid /\ p.detached = pd[s].detached
        /\ p.exiting = pd[s].exiting /\ p.terminated = pd[s].terminated
        /\ p.stopped = pd[s].stopped /\ (p.setup_failed <=> ~ok)
    BY <1>1, <1>2 DEF Pd, About
  <1>5. /\ pc[v] \in {"spawned", "start", "astray"} /\ pd[s].stopped /\ ~Failing(v)
        /\ ~pd[s].detached /\ ~pd[s].terminated
    BY <1>0, <1>1 DEF OwnOK, StageOK, Failing, Detaching, About
  <1>6. pd'[s] = p /\ \A r \in Stacks \ {stk[v]} : SameStack(r)
    BY <1>1, <1>3 DEF SameStack, About, BaseType
  <1>7. JoinOK(v)'
    BY <1>1, <1>3 DEF JoinOK, About
  <1>8. /\ pd[s].tid = v /\ s \in used /\ s \notin cache /\ ~pd[s].exiting
    BY <1>1, <1>5 DEF OwnOK, About, Cleared, Living, Stuck
  <1>9. CASE ok
    <2>1. call' = [call EXCEPT ![c] = NoCall] /\ handle' = [handle EXCEPT ![v] = "owned"]
      BY <1>1, <1>9 DEF SetAttr, Return, About
    <2>2. /\ call'[c] = NoCall /\ \A d \in Tids \ {c} : call'[d] = call[d]
          /\ NoCall.t = 0 /\ NoCall.fn \notin Making
      BY <1>1, <2>1 DEF About, BaseType, NoCall, Making
    <2>3. handle'[v] = "owned" /\ \A u \in Tids \ {v} : handle'[u] = handle[u] /\ got'[u] = got[u]
      BY <1>1, <1>3, <2>1 DEF About, BaseType
    <2>4. CallOK(c)' /\ StageOK(c)'
      BY <2>2, NoCallOK
    <2>5. PcOK(v)'
      BY <1>1, <1>3 DEF PcOK, About
    <2>6. OwnOK(v)'
      BY <1>1, <1>3, <1>4, <1>5, <1>6, <1>8, <1>9, <2>3 DEF OwnOK, About, Cleared, Living, Stuck
    <2>7. BaseType'
      BY <1>1, <1>3, <1>4, <2>1, NoCallType DEF BaseType, About
    <2> QED
      BY <1>1, <1>3, <1>6, <1>7, <2>2, <2>3, <2>4, <2>5, <2>6, <2>7, CallerStep DEF About
  <1>10. CASE ~ok
    <2>1. PICK k : /\ k = [call[c] EXCEPT !.fn = "reap"] /\ call' = [call EXCEPT ![c] = k]
      BY <1>1, <1>10 DEF SetAttr, ToStep, About
    <2>2. /\ k \in Call /\ k.t = v /\ k.s = s /\ k.fn = "reap" /\ k.asleep = call[c].asleep
      BY <1>1, <2>1 DEF About, Call, Fns, Waits
    <2>3. call'[c] = k /\ (\A d \in Tids \ {c} : call'[d] = call[d]) /\ handle' = handle
      BY <1>1, <1>10, <2>1 DEF About, BaseType, SetAttr
    <2>4. ~call[c].asleep
      BY <1>0, <1>1 DEF CallOK, Waits, About
    <2>5. CallOK(c)'
      BY <1>0, <1>1, <1>3, <2>2, <2>3, <2>4
      DEF CallOK, Making, OnThread, Joining, Detaching, About
    <2>6. StageOK(c)'
      BY ZenonT(60), <1>1, <1>3, <1>4, <1>5, <1>6, <1>10, <2>2, <2>3 DEF StageOK, About
    <2>7. PcOK(v)'
      BY <1>1, <1>3, <2>3 DEF PcOK, About
    <2>8. OwnOK(v)'
      <3>1. Failing(v)' /\ \E d \in Tids : call'[d].t = v /\ call'[d].fn \notin Detaching
        BY <2>2, <2>3 DEF Failing, Detaching
      <3> QED
        BY <1>1, <1>3, <1>4, <1>5, <1>6, <1>8, <1>10, <3>1
        DEF OwnOK, About, Cleared, Living, Stuck
    <2>9. BaseType'
      BY <1>1, <1>3, <1>4, <2>1, <2>2, <2>3 DEF BaseType, About
    <2>10. k.fn \notin Making
      BY <2>2 DEF Making
    <2> QED
      BY <1>1, <1>3, <1>6, <1>7, <2>2, <2>3, <2>5, <2>6, <2>7, <2>8, <2>9, <2>10, CallerStep
      DEF About
  <1> QED
    BY <1>9, <1>10

\* A thread whose handle the program still has.
LEMMA HandleOwned ==
    ASSUME Inv, NEW t \in Tids, handle[t] = "owned"
    PROVE  /\ t # 0 /\ t # Main /\ t \in 2..nextTid /\ Owned(t) /\ stk[t] \in Stacks /\ pc[t] # "none"
           /\ OwnOK(t) /\ PcOK(t) /\ JoinOK(t) /\ BaseType /\ ~Failing(t)
           /\ \A d \in Tids : call[d].t # t
           /\ pd[stk[t]] \in Pd /\ ~pd[stk[t]].detached /\ ~pd[stk[t]].terminated
           /\ pd[stk[t]].tid >= 0
           /\ pd[stk[t]].tid = 0 => pc[t] \in Cleared
  <1>1. PcOK(t) /\ OwnOK(t) /\ JoinOK(t) /\ BaseType /\ pc[t] \in PcSet /\ t \in Int /\ t >= 1
    BY TidsFacts DEF Inv, BaseType
  <1>2. t # Main /\ pc[t] # "none" /\ nextTid \in Int
    BY <1>1, TidsFacts DEF PcOK, BaseType
  <1>3. t \in 2..nextTid
    BY <1>1, <1>2 DEF PcOK, Main
  <1>4. Owned(t)
    BY <1>1, <1>2 DEF Owned, Pending, PcSet, OnStack, Cleared, Marked, Living, Stuck
  <1>5. stk[t] \in Stacks /\ pd[stk[t]] \in Pd
    BY <1>1, <1>2 DEF PcOK, BaseType
  <1>6. \A d \in Tids : call[d].t # t
    <2>1. UserInv /\ t # 0
      BY TidsFacts DEF Inv
    <2> QED
      BY <2>1 DEF UserInv
  <1>7. ~Failing(t)
    BY <1>6 DEF Failing
  <1>8. /\ ~pd[stk[t]].detached /\ ~pd[stk[t]].terminated /\ pd[stk[t]].tid >= 0
        /\ pd[stk[t]].tid = 0 => pc[t] \in Cleared
    BY <1>1, <1>4 DEF OwnOK
  <1> QED
    BY <1>1, <1>2, <1>3, <1>4, <1>5, <1>6, <1>7, <1>8

\* A call is begun about a thread whose handle the program has.
LEMMA EnterStep ==
    ASSUME Inv, NEW c \in Tids, NEW v \in Tids, handle[v] = "owned", InBody(c),
           NEW fn \in Joining \cup {"detach_check"},
           fn = "tryjoin" => pc[v] \in Cleared,
           fn = "detach_check" => c \in Detachers \/ c = v,
           call' = [call EXCEPT ![c] = [NoCall EXCEPT !.fn = fn, !.s = stk[v], !.t = v]],
           handle' = [handle EXCEPT ![v] = "spent"],
           pd' = [pd EXCEPT ![stk[v]].detached = (fn = "detach_check")],
           UNCHANGED <<used, cache, unwind, nthreads, nextTid, pc, stk, over, got>>
    PROVE  Inv'
  <1>1. PICK s \in Stacks : s = stk[v]
    BY HandleOwned
  <1>2. PICK p : p = [pd[s] EXCEPT !.detached = (fn = "detach_check")]
    OBVIOUS
  <1>3. PICK k : k = [NoCall EXCEPT !.fn = fn, !.s = s, !.t = v]
    OBVIOUS
  <1>4. BaseType /\ pd[s] \in Pd
    BY <1>1, HandleOwned
  <1>5. /\ p \in Pd /\ p.tid = pd[s].tid /\ p.terminated = pd[s].terminated
        /\ p.exiting = pd[s].exiting /\ p.result = pd[s].result
        /\ p.setup_failed = pd[s].setup_failed
        /\ p.detached <=> fn = "detach_check"
    BY <1>2, <1>4 DEF Pd
  <1>6. /\ k \in Call /\ k.fn = fn /\ k.s = s /\ k.t = v /\ ~k.asleep
        /\ fn \notin Making /\ k.fn \in OnThread /\ k.fn \notin {"setattr", "reap", "detach_free"}
    <2>1. k = [fn |-> fn, s |-> s, t |-> v, kind |-> "none", asleep |-> FALSE]
      BY <1>3 DEF NoCall
    <2>2. fn \in Fns /\ v \in 0..MaxTid
      BY PthreadsAssumption DEF Fns, Waits, Joining, Tids
    <2>3. k \in Call
      BY <2>1, <2>2 DEF Call
    <2>4. /\ fn \notin Making /\ fn \in OnThread /\ fn \notin {"setattr", "reap", "detach_free"}
      BY DEF Joining, Making, OnThread, Detaching
    <2> QED
      BY <2>1, <2>3, <2>4
  <1>7. /\ call' = [call EXCEPT ![c] = k] /\ pd' = [pd EXCEPT ![s] = p]
    BY <1>1, <1>2, <1>3, <1>4 DEF BaseType
  <1>8. BaseType'
    <2>1. pd \in [Stacks -> Pd] /\ call \in [Tids -> Call] /\ p \in Pd /\ k \in Call
      BY <1>4, <1>5, <1>6 DEF BaseType
    <2>2. pd' \in [Stacks -> Pd]
      BY <1>7, <2>1
    <2>3. call' \in [Tids -> Call]
      BY <1>7, <2>1
    <2>4. handle' \in [Tids -> {"none", "owned", "spent"}]
      BY <1>4 DEF BaseType
    <2> QED
      BY <1>4, <2>2, <2>3, <2>4 DEF BaseType
  <1>9. /\ call'[c] = k /\ \A d \in Tids \ {c} : call'[d] = call[d]
        /\ pd'[s] = p /\ handle'[v] = "spent"
        /\ \A u \in Tids \ {v} : handle'[u] = handle[u] /\ got'[u] = got[u]
    BY <1>4, <1>7 DEF BaseType
  <1>10. \A r \in Stacks \ {stk[v]} : SameStack(r)
    BY <1>1, <1>4, <1>7 DEF SameStack, BaseType
  <1>11. call[c].t = 0 /\ call[c].fn \notin Making /\ pc[c] = "body"
    BY DEF InBody, NoCall, Making
  <1>12. CallOK(c)' /\ StageOK(c)'
    <2>1. v \in 2..nextTid /\ pc[v] # "none"
      BY HandleOwned
    <2>2. CallOK(c)'
      BY ZenonT(60), <1>1, <1>6, <1>9, <1>11, <2>1 DEF CallOK, Making, OnThread, Joining, Detaching
    <2>3. StageOK(c)'
      BY <1>6, <1>9 DEF StageOK
    <2> QED
      BY <2>2, <2>3
  <1>13. OwnOK(v)' /\ PcOK(v)' /\ JoinOK(v)'
    <2>1. /\ OwnOK(v) /\ Owned(v) /\ PcOK(v) /\ JoinOK(v) /\ ~Failing(v) /\ ~pd[s].terminated
          /\ v # Main /\ pc[v] # "none" /\ \A d \in Tids : call[d].t # v
      BY <1>1, HandleOwned
    <2>2. PcOK(v)' /\ JoinOK(v)'
      BY <2>1 DEF PcOK, JoinOK
    <2>3. /\ fn = "detach_check" => \A d \in Tids : call'[d].t = v => call'[d].fn \in Detaching
          /\ fn # "detach_check" => \E d \in Tids : call'[d].t = v /\ call'[d].fn \notin Detaching
      BY <1>6, <1>9, <2>1 DEF Detaching, Joining
    <2>4. OwnOK(v)'
      BY <1>1, <1>5, <1>9, <2>1, <2>3 DEF OwnOK
    <2> QED
      BY <2>2, <2>4
  <1>14. Owned(v) /\ \A d \in Tids : call[d].t # v
    BY HandleOwned
  <1> QED
    BY <1>6, <1>8, <1>9, <1>10, <1>11, <1>12, <1>13, <1>14, CallerStep

LEMMA JoinEnterStep ==
    ASSUME Inv, NEW j \in Tids, NEW t \in Tids, NEW fn \in Joining, JoinEnter(j, t, fn),
           fn = "tryjoin" => pc[t] \in Cleared
    PROVE  Inv'
  <1>1. handle[t] = "owned" /\ InBody(j)
    BY DEF JoinEnter
  <1>2. /\ ~(pd[stk[t]].tid < 0 \/ pd[stk[t]].detached) /\ stk[t] \in Stacks /\ BaseType
        /\ pd[stk[t]] \in Pd
    <2>1. pd[stk[t]] \in Pd /\ pd[stk[t]].tid >= 0 /\ ~pd[stk[t]].detached /\ stk[t] \in Stacks /\ BaseType
      BY <1>1, HandleOwned
    <2>2. pd[stk[t]].tid \in Int
      BY <2>1 DEF Pd
    <2> QED
      BY <2>1, <2>2
  <1>3. /\ call' = [call EXCEPT ![j] = [NoCall EXCEPT !.fn = fn, !.s = stk[t], !.t = t]]
        /\ handle' = [handle EXCEPT ![t] = "spent"]
        /\ UNCHANGED <<pd, used, cache, unwind, nthreads, nextTid, pc, stk, over, got>>
    BY <1>2 DEF JoinEnter
  <1>4. fn # "detach_check"
    BY DEF Joining
  <1>5. pd' = [pd EXCEPT ![stk[t]].detached = (fn = "detach_check")]
    <2>1. [pd[stk[t]] EXCEPT !.detached = FALSE] = pd[stk[t]]
      BY <1>2 DEF Pd
    <2> QED
      BY <1>2, <1>3, <1>4, <2>1 DEF BaseType
  <1> QED
    BY <1>1, <1>3, <1>4, <1>5, EnterStep

LEMMA TryJoinEnterStep ==
    ASSUME Inv, NEW j \in Tids, NEW t \in Tids, TryJoinEnter(j, t)
    PROVE  Inv'
  <1>1. pc[t] \in Cleared
    BY HandleOwned DEF TryJoinEnter
  <1> QED
    BY <1>1, JoinEnterStep DEF TryJoinEnter, Joining

LEMMA DetachStep ==
    ASSUME Inv, NEW d \in Tids, NEW t \in Tids, Detach(d, t)
    PROVE  Inv'
  <1>1. handle[t] = "owned" /\ InBody(d) /\ (d \in Detachers \/ d = t)
    BY DEF Detach
  <1>2. ~(pd[stk[t]].tid < 0)
    <2>1. pd[stk[t]] \in Pd /\ pd[stk[t]].tid >= 0
      BY <1>1, HandleOwned
    <2>2. pd[stk[t]].tid \in Int
      BY <2>1 DEF Pd
    <2> QED
      BY <2>1, <2>2
  <1>3. /\ call' = [call EXCEPT ![d] = [NoCall EXCEPT !.fn = "detach_check", !.s = stk[t], !.t = t]]
        /\ handle' = [handle EXCEPT ![t] = "spent"]
        /\ pd' = [pd EXCEPT ![stk[t]].detached = TRUE]
        /\ UNCHANGED <<used, cache, unwind, nthreads, nextTid, pc, stk, over, got>>
    BY <1>2 DEF Detach
  <1> QED
    BY <1>1, <1>3, EnterStep
-----------------------------------------------------------------------------
(***************************************************************************)
(* The steps of pthread_create.                                            *)
(***************************************************************************)
\* What allocate_stack finds, cached and reusable or not mapped, is nobody's.  The
\* hypothesis rules out the detacher of a thread that has freed its own stack.
LEMMA FoundStack ==
    ASSUME NoStaleDetach, Inv, NEW c \in Tids, c \in Creators, call[c] = NoCall, NEW s \in Stacks,
           (s \in cache /\ Reusable(s)) \/ s \notin used \cup cache
    PROVE  /\ \A d \in Tids : call[d].fn \in Making => call[d].s # s
           /\ \A u \in Tids : Owned(u) => stk[u] # s
  <1>1. ASSUME NEW d \in Tids, call[d].fn \in Making PROVE call[d].s # s
    BY <1>1 DEF Inv, MakeOK
  <1>2. ASSUME NEW u \in Tids, Owned(u), stk[u] = s PROVE FALSE
    <2>1. OwnOK(u) /\ u # 0 /\ u > 0 /\ pd[s].tid \in Int
      BY TidsFacts DEF Inv, BaseType, Pd
    <2>2. pd[s].terminated /\ pc[u] \in Cleared
      BY <1>2, <2>1 DEF OwnOK, Reusable
    <2>3. handle[u] = "spent" /\ \A d \in Tids : call[d].t = u => call[d].fn \in Detaching
      BY <1>2, <2>1, <2>2 DEF OwnOK
    <2>4. PICK d \in Tids : call[d].t = u /\ call[d].fn \in Detaching
      BY <1>2, <2>2, <2>3 DEF Owned, Pending, Cleared, Marked, Living, Stuck
    <2>5. CallOK(d)
      BY DEF Inv
    <2>6. pc[d] = "body" /\ (d \in Detachers \/ d = u)
      BY <2>4, <2>5 DEF CallOK, Detaching
    <2>7. d \in Detachers
      BY <2>2, <2>6 DEF Cleared
    <2> QED
      BY <2>4, <2>7 DEF NoStaleDetach, NoCall, Detaching
  <1> QED
    BY <1>1, <1>2

\* A step of the creator c, which has stack s and its thread v (0: none yet) to itself.
LEMMA MakerStep ==
    ASSUME Inv, BaseType', RoomInv', NEW c \in Tids, NEW v \in Tids \cup {0}, NEW s \in Stacks,
           \A d \in Tids \ {c} : call[d].fn \in Making => call[d].s # s,
           \A u \in Tids : Owned(u) => stk[u] # s,
           \A d \in Tids \ {c} : call[d].t # 0 => call[d].t # v,
           \A d \in Tids \ {c} : call'[d] = call[d],
           call[c].t \in {0, v}, call'[c].t \in {0, v},
           \A u \in Tids \ {v} : SameThread(u),
           \A r \in Stacks \ {s} : SameStack(r),
           nextTid <= nextTid', TouchedOK(c, v, s)
    PROVE  Inv'
  <1>1. nextTid \in Int /\ nextTid' \in Int
    BY TidsFacts DEF Inv, BaseType
  <1>2. \A d \in Tids \ {c} : SameCall(d)
    BY DEF SameCall, Inv, CallOK
  <1>3. Local(c, v, s)
    BY <1>1, <1>2 DEF Local
  <1> QED
    BY <1>3, LocalStep

\* A creation in progress.
LEMMA MakingFacts ==
    ASSUME Inv, NEW c \in Tids, call[c].fn \in Making
    PROVE  /\ BaseType /\ CallOK(c) /\ MakeOK(c) /\ call[c] \in Call /\ call[c].s \in Stacks
           /\ pd[call[c].s] \in Pd /\ pc[c] = "body" /\ c \in Creators /\ call[c].kind \in Kinds
           /\ ~call[c].asleep
           /\ \A d \in Tids \ {c} : call[d].fn \in Making => call[d].s # call[c].s
           /\ \A u \in Tids : Owned(u) => stk[u] # call[c].s
           /\ \A d \in Tids \ {c} : call[d].t # 0 => call[d].t # call[c].t
  <1>1. BaseType /\ CallOK(c) /\ MakeOK(c) /\ call[c] \in Call
    BY DEF Inv, BaseType
  <1>2. /\ call[c].s \in Stacks /\ pc[c] = "body" /\ c \in Creators /\ call[c].kind \in Kinds
        /\ ~call[c].asleep
    BY <1>1 DEF CallOK, Making, Waits
  <1>3. pd[call[c].s] \in Pd
    BY <1>1, <1>2 DEF BaseType
  <1>4. UserInv /\ OneUserInv
    BY DEF Inv
  <1> QED
    BY <1>1, <1>2, <1>3, <1>4 DEF UserInv, OneUserInv

LEMMA AllocateStackStep ==
    ASSUME NoStaleDetach, Inv, NEW c \in Tids, NEW k \in Kinds, AllocateStack(c, k)
    PROVE  Inv'
  <1>0. /\ pc[c] = "body" /\ call[c] = NoCall /\ c \in Creators /\ BaseType
        /\ nextTid + Cardinality(Creating) < MaxTid
        /\ UNCHANGED <<unwind, nthreads, nextTid, pc, stk, handle, over, got>>
    BY DEF AllocateStack, InBody, Inv
  <1>1. PICK s \in Stacks :
          /\ get_cached_stack(s) \/ mmap_stack(s)
          /\ used' = used \cup {s}
          /\ call' = [call EXCEPT ![c] = [NoCall EXCEPT !.fn = "init", !.s = s, !.kind = k]]
    BY DEF AllocateStack
  <1>q. PICK q : q = [NoCall EXCEPT !.fn = "init", !.s = s, !.kind = k]
    OBVIOUS
  <1>2. q = [fn |-> "init", s |-> s, t |-> 0, kind |-> k, asleep |-> FALSE]
    BY <1>q DEF NoCall
  <1>3. call' = [call EXCEPT ![c] = q] /\ q \in Call
    <2>2. q \in Call
      BY <1>2, PthreadsAssumption DEF Call, Fns
    <2> QED
      BY <1>1, <1>q, <2>2
  <1>4. call'[c] = q /\ \A d \in Tids \ {c} : call'[d] = call[d]
    BY <1>0, <1>3 DEF BaseType
  <1>5. /\ (s \in cache /\ Reusable(s)) \/ s \notin used \cup cache
        /\ cache' \in SUBSET Stacks /\ s \notin cache'
        /\ pd' \in [Stacks -> Pd] /\ pd'[s].tid <= 0
        /\ \A r \in Stacks \ {s} : SameStack(r)
    <2>1. CASE get_cached_stack(s)
      BY <1>0, <1>1, <2>1 DEF get_cached_stack, SameStack, BaseType, Reusable
    <2>2. CASE mmap_stack(s)
      <3>1. Zeroed \in Pd /\ Zeroed.tid = 0
        BY PthreadsAssumption DEF Zeroed, Pd
      <3> QED
        BY <1>0, <1>1, <2>2, <3>1 DEF mmap_stack, SameStack, BaseType
    <2> QED
      BY <1>1, <2>1, <2>2
  <1>6. BaseType'
    <2>1. call' \in [Tids -> Call] /\ used' \in SUBSET Stacks
      BY <1>0, <1>1, <1>3 DEF BaseType
    <2> QED
      BY <1>0, <1>5, <2>1 DEF BaseType
  <1>7. /\ \A d \in Tids : call[d].fn \in Making => call[d].s # s
        /\ \A u \in Tids : Owned(u) => stk[u] # s
    BY <1>0, <1>5, FoundStack
  <1>8. RoomInv'
    <2>1. Creating' \subseteq Creating \cup {c}
      BY <1>4 DEF Creating
    <2>2. /\ IsFiniteSet(Creating \cup {c})
          /\ Cardinality(Creating \cup {c}) <= Cardinality(Creating) + 1
          /\ Cardinality(Creating \cup {c}) \in Nat
      <3> DEFINE X == Creating \cup {c}
      <3>1. /\ IsFiniteSet(X)
            /\ Cardinality(X) = IF c \in Creating THEN Cardinality(Creating) ELSE Cardinality(Creating) + 1
        BY CreatingFinite, FS_AddElement
      <3> HIDE DEF X
      <3>2. Cardinality(X) \in Nat /\ Cardinality(X) <= Cardinality(Creating) + 1
        BY <3>1, CreatingFinite
      <3> QED
        BY <3>1, <3>2 DEF X
    <2>3. Cardinality(Creating') <= Cardinality(Creating \cup {c}) /\ Cardinality(Creating') \in Nat
      BY <2>1, <2>2, FS_Subset, FS_CardinalityType
    <2>4. nextTid \in Int /\ MaxTid \in Int
      BY <1>0, TidsFacts, PthreadsAssumption DEF BaseType
    <2> QED
      BY <1>0, <2>2, <2>3, <2>4, CreatingFinite DEF RoomInv
  <1>9. CallOK(c)' /\ MakeOK(c)' /\ StageOK(c)'
    <2>1. /\ call'[c].fn = "init" /\ call'[c].s = s /\ call'[c].t = 0 /\ call'[c].kind = k
          /\ ~call'[c].asleep
      BY <1>2, <1>4
    <2>2. CallOK(c)'
      BY <1>0, <2>1 DEF CallOK, Making, OnThread, Joining, Detaching
    <2>3. MakeOK(c)'
      BY <1>1, <1>5, <2>1 DEF MakeOK, Making
    <2>4. StageOK(c)'
      BY <2>1 DEF StageOK
    <2> QED
      BY <2>2, <2>3, <2>4
  <1>10. TouchedOK(c, 0, s)
    BY <1>2, <1>4, <1>9, TidsFacts DEF TouchedOK
  <1>11. /\ call[c].t = 0 /\ call'[c].t = 0 /\ nextTid <= nextTid'
         /\ \A u \in Tids : SameThread(u)
    BY <1>0, <1>2, <1>4, TidsFacts DEF NoCall, SameThread, BaseType
  <1> QED
    BY <1>4, <1>5, <1>6, <1>7, <1>8, <1>10, <1>11, MakerStep

LEMMA InitPdStep ==
    ASSUME Inv, NEW c \in Tids, InitPd(c)
    PROVE  Inv'
  <1>0. call[c].fn = "init"
    BY DEF InitPd, In
  <1>1. /\ BaseType /\ CallOK(c) /\ MakeOK(c) /\ call[c] \in Call /\ call[c].s \in Stacks
        /\ pd[call[c].s] \in Pd /\ pc[c] = "body" /\ c \in Creators /\ call[c].kind \in Kinds
        /\ ~call[c].asleep
        /\ \A d \in Tids \ {c} : call[d].fn \in Making => call[d].s # call[c].s
        /\ \A u \in Tids : Owned(u) => stk[u] # call[c].s
    BY <1>0, MakingFacts DEF Making
  <1>2. PICK s \in Stacks : s = call[c].s
    BY <1>1
  <1>3. PICK p : p = [Zeroed EXCEPT !.tid = pd[s].tid, !.result = pd[s].result,
                                    !.detached = (call[c].kind = "detached")]
    OBVIOUS
  <1>4. PICK k : k = [call[c] EXCEPT !.fn = "clone"]
    OBVIOUS
  <1>5. /\ p \in Pd /\ p.tid = pd[s].tid /\ ~p.terminated /\ ~p.exiting /\ ~p.setup_failed
        /\ p.detached <=> call[c].kind = "detached"
    <2>1. /\ pd[s].tid \in -1..MaxTid /\ pd[s].result \in 0..MaxTid
          /\ (call[c].kind = "detached") \in BOOLEAN
      BY <1>1, <1>2 DEF Pd
    <2> QED
      BY <1>3, <2>1 DEF Zeroed, Pd
  <1>6. /\ k \in Call /\ k.fn = "clone" /\ k.s = s /\ k.t = call[c].t /\ k.kind = call[c].kind
        /\ k.asleep = call[c].asleep
    BY <1>1, <1>2, <1>4 DEF Call, Fns
  <1>7. /\ pd' = [pd EXCEPT ![s] = p] /\ call' = [call EXCEPT ![c] = k]
        /\ nthreads' = nthreads + 1
        /\ UNCHANGED <<used, cache, unwind, nextTid, pc, stk, handle, over, got>>
    BY <1>1, <1>2, <1>3, <1>4 DEF InitPd, ToStep, BaseType
  <1>8. BaseType'
    BY <1>1, <1>5, <1>6, <1>7 DEF BaseType
  <1>9. /\ call'[c] = k /\ \A d \in Tids \ {c} : call'[d] = call[d]
        /\ pd'[s] = p /\ \A r \in Stacks \ {s} : SameStack(r)
        /\ \A u \in Tids : SameThread(u)
    BY <1>1, <1>7 DEF BaseType, SameStack, SameThread
  <1>10. RoomInv'
    BY <1>0, <1>1, <1>7, <1>9, RoomKept DEF Inv, Creating
  <1>11. call[c].t = 0 /\ pd[s].tid <= 0 /\ s \in used /\ s \notin cache
    BY <1>0, <1>1, <1>2 DEF CallOK, MakeOK, Making
  <1>12. CallOK(c)' /\ MakeOK(c)' /\ StageOK(c)'
    BY <1>1, <1>5, <1>6, <1>7, <1>9, <1>11
    DEF CallOK, MakeOK, StageOK, Making, OnThread, Joining, Detaching
  <1>13. TouchedOK(c, 0, s) /\ nextTid <= nextTid'
    BY <1>1, <1>6, <1>7, <1>9, <1>11, <1>12, TidsFacts DEF TouchedOK, BaseType
  <1> QED
    BY <1>1, <1>2, <1>6, <1>8, <1>9, <1>10, <1>11, <1>13, MakerStep

LEMMA CloneFailsStep ==
    ASSUME Inv, NEW c \in Tids, CloneFails(c)
    PROVE  Inv'
  <1>0. call[c].fn = "clone" /\ call' = [call EXCEPT ![c] = NoCall]
    BY DEF CloneFails, In, Return
  <1>1. /\ BaseType /\ CallOK(c) /\ call[c].s \in Stacks
        /\ \A d \in Tids \ {c} : call[d].fn \in Making => call[d].s # call[c].s
        /\ \A u \in Tids : Owned(u) => stk[u] # call[c].s
    BY <1>0, MakingFacts DEF Making
  <1>2. PICK s \in Stacks : s = call[c].s
    BY <1>1
  <1>3. /\ deallocate_stack(s, {r \in Stacks : Reusable(r)}) /\ nthreads' = nthreads - 1
        /\ UNCHANGED <<pd, unwind, nextTid, pc, stk, handle, over, got>>
    BY <1>2 DEF CloneFails
  <1>4. /\ used' \in SUBSET Stacks /\ cache' \in SUBSET Stacks
        /\ \A r \in Stacks \ {s} : /\ r \in used' <=> r \in used
                                   /\ r \in cache' => r \in cache
                                   /\ r \in cache /\ pd[r].tid > 0 => r \in cache'
    BY <1>1, <1>3, Deallocated
  <1>5. BaseType'
    BY <1>0, <1>1, <1>3, <1>4, NoCallType DEF BaseType
  <1>6. /\ call'[c] = NoCall /\ \A d \in Tids \ {c} : call'[d] = call[d]
        /\ NoCall.t = 0 /\ NoCall.fn \notin Making
    BY <1>0, <1>1 DEF BaseType, NoCall, Making
  <1>7. (\A r \in Stacks \ {s} : SameStack(r)) /\ \A u \in Tids : SameThread(u)
    BY <1>3, <1>4 DEF SameStack, SameThread
  <1>8. RoomInv'
    BY <1>1, <1>3, <1>6, RoomKept DEF Inv, Creating, Making
  <1>9. call[c].t = 0 /\ nextTid <= nextTid'
    BY <1>0, <1>1, <1>3, TidsFacts DEF CallOK, BaseType
  <1>10. TouchedOK(c, 0, s)
    BY <1>6, NoCallOK, TidsFacts DEF TouchedOK
  <1> QED
    BY <1>1, <1>2, <1>5, <1>6, <1>7, <1>8, <1>9, <1>10, MakerStep

LEMMA CloneStep ==
    ASSUME Inv, NEW c \in Tids, Clone(c)
    PROVE  Inv'
  <1>0. call[c].fn = "clone"
    BY DEF Clone, In
  <1>1. /\ BaseType /\ CallOK(c) /\ MakeOK(c) /\ call[c] \in Call /\ call[c].s \in Stacks
        /\ pd[call[c].s] \in Pd /\ pc[c] = "body" /\ c \in Creators /\ call[c].kind \in Kinds
        /\ ~call[c].asleep
        /\ \A d \in Tids \ {c} : call[d].fn \in Making => call[d].s # call[c].s
        /\ \A u \in Tids : Owned(u) => stk[u] # call[c].s
    BY <1>0, MakingFacts DEF Making
  <1>2. PICK s \in Stacks : s = call[c].s
    BY <1>1
  <1>3. PICK v : v = nextTid + 1
    OBVIOUS
  <1>4. /\ v \in Tids /\ v # 0 /\ v # Main /\ nextTid \in Int /\ v > nextTid /\ v \in 2..v
        /\ Cardinality(Creating \ {c}) = Cardinality(Creating) - 1
    <2>1. c \in Creating
      BY <1>0 DEF Creating
    <2>2. /\ Cardinality(Creating \ {c}) = Cardinality(Creating) - 1
          /\ IsFiniteSet(Creating \ {c})
      BY <2>1, CreatingFinite, FS_RemoveElement
    <2>3. Cardinality(Creating \ {c}) \in Nat
      BY <2>2, FS_CardinalityType
    <2>4. nextTid \in Int /\ nextTid >= 1 /\ MaxTid \in Int
      BY <1>1, TidsFacts, PthreadsAssumption DEF BaseType
    <2>5. nextTid + 1 <= MaxTid
      BY <2>2, <2>3, <2>4, CreatingFinite DEF Inv, RoomInv
    <2> QED
      BY <1>3, <2>2, <2>4, <2>5 DEF Tids, Main
  <1>5. /\ PcOK(v) /\ CallOK(v) /\ JoinOK(v) /\ pc[v] = "none" /\ handle[v] = "none"
        /\ call[v].fn = "none" /\ c # v
    BY <1>1, <1>4, NotInBody DEF Inv, PcOK
  <1>6. \A d \in Tids : call[d].t # 0 => call[d].t # v
    <2> SUFFICES ASSUME NEW d \in Tids, call[d].t # 0 PROVE call[d].t # v
      OBVIOUS
    <2>1. CallOK(d) /\ call[d].fn \in {"spawn"} \cup OnThread
      BY <1>1, CallTid DEF Inv
    <2>2. call[d].t \in 2..nextTid
      BY <2>1 DEF CallOK
    <2> QED
      BY <1>4, <2>2
  <1>7. PICK b \in BOOLEAN : b = (call[c].kind = "stopped")
    OBVIOUS
  <1>8. PICK p : p = [pd[s] EXCEPT !.tid = v, !.stopped = b, !.lock = b]
    OBVIOUS
  <1>9. PICK k : k = [call[c] EXCEPT !.fn = "spawn", !.t = v]
    OBVIOUS
  <1>10. /\ p \in Pd /\ p.tid = v /\ p.stopped = b /\ p.lock = b /\ p.detached = pd[s].detached
         /\ p.exiting = pd[s].exiting /\ p.terminated = pd[s].terminated
         /\ p.setup_failed = pd[s].setup_failed
    <2>1. v \in -1..MaxTid
      BY <1>4 DEF Tids
    <2> QED
      BY <1>1, <1>2, <1>8, <2>1 DEF Pd
  <1>11. /\ k \in Call /\ k.fn = "spawn" /\ k.s = s /\ k.t = v /\ k.kind = call[c].kind /\ ~k.asleep
    <2>1. v \in 0..MaxTid
      BY <1>4 DEF Tids
    <2> QED
      BY <1>1, <1>2, <1>9, <2>1 DEF Call, Fns
  <1>12. /\ pd' = [pd EXCEPT ![s] = p] /\ call' = [call EXCEPT ![c] = k] /\ nextTid' = v
         /\ UNCHANGED <<used, cache, unwind, nthreads, pc, stk, handle, over, got>>
    <2>1. pd' = [pd EXCEPT ![s].tid = v, ![s].stopped = b, ![s].lock = b]
      BY <1>2, <1>3, <1>7 DEF Clone
    <2>2. call' = [call EXCEPT ![c].fn = "spawn", ![c].t = v]
      BY <1>3 DEF Clone
    <2>3. pd' = [pd EXCEPT ![s] = p]
      BY <1>1, <1>8, <2>1 DEF BaseType
    <2>4. call' = [call EXCEPT ![c] = k]
      BY <1>1, <1>9, <2>2 DEF BaseType
    <2> QED
      BY <1>3, <2>3, <2>4 DEF Clone
  <1>13. BaseType'
    <2>1. pd' \in [Stacks -> Pd] /\ call' \in [Tids -> Call]
      BY <1>1, <1>10, <1>11, <1>12 DEF BaseType
    <2> QED
      BY <1>1, <1>4, <1>12, <2>1 DEF BaseType
  <1>14. /\ call'[c] = k /\ \A d \in Tids \ {c} : call'[d] = call[d]
         /\ pd'[s] = p /\ \A r \in Stacks \ {s} : SameStack(r)
         /\ \A u \in Tids : SameThread(u)
    BY <1>1, <1>12 DEF BaseType, SameStack, SameThread
  <1>15. RoomInv'
    <2>1. Creating' = Creating \ {c}
      BY <1>11, <1>14 DEF Creating
    <2> QED
      BY <1>3, <1>4, <1>12, <2>1, CreatingFinite, PthreadsAssumption DEF Inv, RoomInv
  <1>16. CallOK(c)'
    BY <1>1, <1>4, <1>5, <1>11, <1>12, <1>14 DEF CallOK, Making, OnThread, Joining, Detaching
  <1>17. MakeOK(c)'
    <2>1. /\ s \in used /\ s \notin cache /\ ~pd[s].terminated /\ ~pd[s].exiting /\ ~pd[s].setup_failed
          /\ pd[s].detached <=> call[c].kind = "detached"
      BY <1>0, <1>1, <1>2 DEF MakeOK, Making
    <2>2. call[c].kind = "stopped" => p.stopped /\ p.lock
      BY <1>7, <1>10
    <2> QED
      BY <1>10, <1>11, <1>12, <1>14, <2>1, <2>2 DEF MakeOK, Making
  <1>18. StageOK(c)'
    BY <1>11, <1>14 DEF StageOK
  <1>19. ~Owned(v)'
    BY <1>5, <1>12 DEF Owned, Marked, Living, Stuck, Cleared
  <1>20. PcOK(v)' /\ JoinOK(v)' /\ OwnOK(v)'
    BY <1>4, <1>5, <1>12, <1>19 DEF PcOK, JoinOK, OwnOK
  <1>21. CallOK(v)'
    BY <1>4, <1>5, <1>12, <1>14 DEF CallOK, Making, OnThread, Joining, Detaching
  <1>22. TouchedOK(c, v, s)
    BY <1>5, <1>11, <1>12, <1>14, <1>16, <1>17, <1>18, <1>19, <1>20, <1>21 DEF TouchedOK
  <1>23. call[c].t = 0 /\ nextTid <= nextTid'
    BY <1>0, <1>1, <1>4, <1>12 DEF CallOK
  <1> QED
    BY <1>1, <1>2, <1>4, <1>6, <1>11, <1>13, <1>14, <1>15, <1>22, <1>23, MakerStep

LEMMA SpawnStep ==
    ASSUME Inv, NEW c \in Tids, Spawn(c)
    PROVE  Inv'
  <1>0. call[c].fn = "spawn"
    BY DEF Spawn, In
  <1>1. /\ BaseType /\ CallOK(c) /\ MakeOK(c) /\ call[c] \in Call /\ call[c].s \in Stacks
        /\ pd[call[c].s] \in Pd /\ pc[c] = "body" /\ c \in Creators /\ call[c].kind \in Kinds
        /\ ~call[c].asleep
        /\ \A d \in Tids \ {c} : call[d].fn \in Making => call[d].s # call[c].s
        /\ \A u \in Tids : Owned(u) => stk[u] # call[c].s
        /\ \A d \in Tids \ {c} : call[d].t # 0 => call[d].t # call[c].t
    BY <1>0, MakingFacts DEF Making
  <1>2. PICK s \in Stacks : s = call[c].s
    BY <1>1
  <1>3. PICK v \in Tids : v = call[c].t /\ v # 0 /\ v # Main /\ v \in 2..nextTid
    <2>1. call[c].t \in 2..nextTid /\ nextTid \in Tids
      BY <1>0, <1>1 DEF CallOK, BaseType
    <2> QED
      BY <2>1, PthreadsAssumption DEF Tids, Main
  <1>4. /\ pc[v] = "none" /\ call[v].fn = "none" /\ c # v /\ JoinOK(v) /\ CallOK(v) /\ PcOK(v)
        /\ got[v] = 0 /\ nextTid \in Int
    <2>1. pc[v] = "none" /\ JoinOK(v) /\ CallOK(v) /\ PcOK(v)
      BY <1>0, <1>1, <1>3 DEF CallOK, Inv
    <2> QED
      BY <1>1, <2>1, NotInBody, TidsFacts DEF JoinOK, Cleared, BaseType
  <1>5. PICK k \in {"plain", "detached", "stopped"} : k = call[c].kind
    BY <1>1, PthreadsAssumption
  <1>6. PICK h : h = CASE k = "plain" -> "owned" [] k = "detached" -> "spent" [] k = "stopped" -> "none"
    OBVIOUS
  <1>7. /\ h \in {"none", "owned", "spent"}
        /\ k = "plain" => h = "owned"
        /\ k = "detached" => h = "spent"
        /\ k = "stopped" => h = "none"
    BY <1>5, <1>6
  <1>8. PICK q : q = IF k = "stopped" THEN [call[c] EXCEPT !.fn = "setattr"] ELSE NoCall
    OBVIOUS
  <1>9. /\ q \in Call /\ q.fn \in {"setattr", "none"} /\ ~q.asleep /\ q.t \in {0, v}
        /\ k = "stopped" => q.fn = "setattr" /\ q.t = v /\ q.s = s
        /\ k # "stopped" => q = NoCall /\ q.t = 0 /\ q.fn = "none"
    BY <1>1, <1>2, <1>3, <1>8, NoCallType DEF Call, Fns, NoCall
  <1>10. /\ unwind' = [unwind EXCEPT ![s] = v] /\ pc' = [pc EXCEPT ![v] = "spawned"]
         /\ stk' = [stk EXCEPT ![v] = s] /\ handle' = [handle EXCEPT ![v] = h]
         /\ call' = [call EXCEPT ![c] = q]
         /\ UNCHANGED <<pd, used, cache, nthreads, nextTid, over, got>>
    <2>1. handle' = [handle EXCEPT ![v] = h]
      BY <1>3, <1>5, <1>6 DEF Spawn
    <2>2. call' = [call EXCEPT ![c] = q]
      BY <1>5, <1>8 DEF Spawn, ToStep, Return
    <2> QED
      BY <1>2, <1>3, <2>1, <2>2 DEF Spawn, Goto
  <1>11. BaseType'
    <2>1. unwind' \in [Stacks -> 0..MaxTid] /\ pc' \in [Tids -> PcSet]
      BY <1>1, <1>10, PthreadsAssumption DEF BaseType, Tids, PcSet, OnStack, Marked, Living
    <2>2. stk' \in [Tids -> Stacks \cup {NoStack}] /\ call' \in [Tids -> Call]
      BY <1>1, <1>9, <1>10 DEF BaseType
    <2>3. handle' \in [Tids -> {"none", "owned", "spent"}]
      BY <1>1, <1>7, <1>10 DEF BaseType
    <2> QED
      BY <1>1, <1>10, <2>1, <2>2, <2>3 DEF BaseType
  <1>12. /\ call'[c] = q /\ \A d \in Tids \ {c} : call'[d] = call[d]
         /\ \A r \in Stacks \ {s} : SameStack(r)
         /\ \A u \in Tids \ {v} : SameThread(u)
         /\ pc'[v] = "spawned" /\ stk'[v] = s /\ handle'[v] = h /\ pc'[c] = "body"
    BY <1>1, <1>4, <1>10 DEF BaseType, SameStack, SameThread
  <1>13. RoomInv'
    BY <1>1, <1>9, <1>10, <1>12, RoomKept DEF Inv, Creating
  <1>14. /\ s \in used /\ s \notin cache /\ ~pd[s].terminated /\ ~pd[s].exiting /\ ~pd[s].setup_failed
         /\ pd[s].detached <=> k = "detached"
         /\ pd[s].tid = v
         /\ k = "stopped" => pd[s].stopped /\ pd[s].lock
    BY <1>0, <1>1, <1>2, <1>3, <1>5 DEF MakeOK, Making
  <1>15. CallOK(c)'
    BY <1>2, <1>3, <1>9, <1>10, <1>12 DEF CallOK, Making, OnThread, Joining, Detaching
  <1>16. MakeOK(c)' /\ q.fn \notin Making
    BY <1>9, <1>12 DEF MakeOK, Making
  <1>17. StageOK(c)'
    BY <1>9, <1>10, <1>12, <1>14 DEF StageOK
  <1>18. CallOK(v)'
    BY <1>4, <1>12 DEF CallOK, Making, OnThread, Joining, Detaching
  <1>19. PcOK(v)' /\ JoinOK(v)'
    BY <1>3, <1>4, <1>10, <1>12 DEF PcOK, JoinOK
  <1>20. OwnOK(v)'
    <2>1. \A d \in Tids \ {c} : call'[d].t # v
      BY <1>1, <1>3, <1>12
    <2>2. k = "detached" => \A d \in Tids : call'[d].t = v => call'[d].fn \in Detaching
      BY <1>3, <1>9, <1>12, <2>1
    <2>3. k = "stopped" => \E d \in Tids : call'[d].t = v /\ call'[d].fn \notin Detaching
      BY <1>9, <1>12 DEF Detaching
    <2>4. "spawned" \in Living /\ "spawned" \notin Cleared
      BY DEF Living, Cleared
    <2> QED
      BY <1>5, <1>7, <1>10, <1>12, <1>14, <2>2, <2>3, <2>4 DEF OwnOK
  <1>21. TouchedOK(c, v, s)
    BY <1>7, <1>9, <1>12, <1>15, <1>16, <1>17, <1>18, <1>19, <1>20 DEF TouchedOK
  <1>22. nextTid <= nextTid' /\ call[c].t = v
    BY <1>3, <1>4, <1>10
  <1> QED
    BY ZenonT(60), <1>1, <1>2, <1>3, <1>9, <1>11, <1>12, <1>13, <1>21, <1>22, MakerStep
-----------------------------------------------------------------------------
(***************************************************************************)
(* The invariant, and what follows from it.                                *)
(***************************************************************************)
LEMMA InvInit == Init => Inv
  <1> SUFFICES ASSUME Init PROVE Inv
    OBVIOUS
  <1>1. BaseType
    <2>1. Zeroed \in Pd /\ Main \in Tids /\ 1 \in Int /\ 0 \in 0..MaxTid /\ 0 \in -1..MaxTid
      BY PthreadsAssumption DEF Zeroed, Pd, Main, Tids
    <2> QED
      BY <2>1, NoCallType DEF Init, BaseType, PcSet, OnStack, Marked, Living
  <1>2. \A c \in Tids : call[c] = NoCall /\ got[c] = 0 /\ handle[c] = "none" /\ stk[c] = NoStack
    BY DEF Init
  <1>3. \A t \in Tids : pc[t] = (IF t = Main THEN "body" ELSE "none") /\ nextTid = Main
    BY DEF Init
  <1>4. RoomInv
    <2>1. Creating = {}
      BY <1>2 DEF Creating, NoCall
    <2>2. Cardinality(Creating) = 0
      BY <2>1, FS_EmptySet
    <2> QED
      BY <2>2, PthreadsAssumption DEF RoomInv, Init, Main
  <1>5. \A t \in Tids : ~Owned(t)
    BY <1>3 DEF Owned, Marked, Living, Stuck, Cleared
  <1>6. UserInv /\ OneUserInv
    BY <1>2, <1>5 DEF UserInv, OneUserInv, NoCall, Making
  <1>7. \A c \in Tids : CallOK(c) /\ MakeOK(c) /\ StageOK(c)
    BY <1>2 DEF CallOK, MakeOK, StageOK, NoCall, Making, OnThread, Joining, Detaching
  <1>8. \A t \in Tids : PcOK(t)
    BY <1>2, <1>3, TidsFacts DEF PcOK
  <1>9. \A t \in Tids : OwnOK(t) /\ JoinOK(t)
    BY <1>2, <1>5 DEF OwnOK, JoinOK
  <1> QED
    BY <1>1, <1>4, <1>6, <1>7, <1>8, <1>9 DEF Inv

LEMMA InvNext ==
    ASSUME NoStaleDetach, Inv, [Next]_vars
    PROVE  Inv'
  <1>1. CASE UNCHANGED vars
    <2>1. BaseType'
      BY <1>1 DEF vars, Inv, BaseType
    <2>2. \A d \in Tids : SameCall(d)
      BY <1>1 DEF vars, SameCall, Inv, CallOK
    <2> QED
      BY <1>1, <2>1, <2>2, QuietStep DEF vars
  <1>2. ASSUME NEW t \in Tids, CallStep(t) PROVE Inv'
    BY <1>2, InitPdStep, CloneStep, CloneFailsStep, SpawnStep, SetAttrStep, ReapStep, FutexStep,
       JoinDoneStep, DetachCheckStep, DetachFreeStep
    DEF CallStep
  <1>3. ASSUME NEW t \in Tids, ThreadStep(t) PROVE Inv'
    BY <1>3, RewindStep, StartStep, SetExitingStep, FreeIfDetachedStep, ClearTidStep,
       WakeJoinerStep, HostExitStep
    DEF ThreadStep
  <1>4. ASSUME NEW t \in Tids, Program(t) PROVE Inv'
    <2>1. CASE \E k \in Kinds : AllocateStack(t, k)
      BY <2>1, AllocateStackStep
    <2>2. ASSUME NEW u \in Tids, JoinEnter(t, u, "join") \/ JoinEnter(t, u, "timedjoin") PROVE Inv'
      BY <2>2, JoinEnterStep DEF Joining
    <2>3. ASSUME NEW u \in Tids, TryJoinEnter(t, u) \/ Detach(t, u) PROVE Inv'
      BY <2>3, TryJoinEnterStep, DetachStep
    <2>4. CASE FutexInterrupted(t) \/ JoinTimesOut(t) \/ Returns(t) \/ Trap(t)
      BY <2>4, FutexStep, JoinTimesOutStep, ReturnsStep, TrapStep
    <2> QED
      BY <1>4, <2>1, <2>2, <2>3, <2>4 DEF Program
  <1> QED
    BY <1>1, <1>2, <1>3, <1>4, MainReturnsStep DEF Next

\* The inductive invariant: a stack block has one user, until its thread has cleared
\* its tid and has been joined, or detached for good.
THEOREM PthreadsInvariant ==
    ASSUME NoStaleDetach
    PROVE  Spec => []Inv
  <1>1. Init => Inv
    BY InvInit
  <1>2. Inv /\ [Next]_vars => Inv'
    BY InvNext
  <1> QED
    BY <1>1, <1>2, PTL DEF Spec

\* pthread_join returns the result of the thread it was asked for, and not before
\* that thread is done with its descriptor.
THEOREM PthreadsJoinRight ==
    ASSUME NoStaleDetach
    PROVE  Spec => []JoinRight
  <1>1. Inv => JoinRight
    BY DEF Inv, JoinRight, JoinOK
  <1> QED
    BY <1>1, PthreadsInvariant, PTL

\* A thread still to deliver its result has its stack off the cache list.
THEOREM PthreadsCachedIsDone ==
    ASSUME NoStaleDetach
    PROVE  Spec => []CachedIsDone
  <1>1. Inv => CachedIsDone
    <2> SUFFICES ASSUME Inv, NEW t \in Tids, pc[t] \in Living, stk[t] \in cache PROVE FALSE
      BY DEF CachedIsDone
    <2>1. CASE t = Main
      BY <2>1, PthreadsAssumption DEF Inv, PcOK, BaseType, NoStack
    <2>2. CASE t # Main
      <3>1. Owned(t) /\ OwnOK(t)
        BY <2>2 DEF Inv, Owned, Marked
      <3> QED
        BY <3>1 DEF OwnOK
    <2> QED
      BY <2>1, <2>2
  <1> QED
    BY <1>1, PthreadsInvariant, PTL

\* No two threads that have not cleared their tid are on one stack.
THEOREM PthreadsMarkedExclusive ==
    ASSUME NoStaleDetach
    PROVE  Spec => []MarkedExclusive
  <1>1. Inv => MarkedExclusive
    <2> SUFFICES ASSUME Inv, NEW t \in Tids, NEW u \in Tids, t # u, pc[t] \in Marked,
                        pc[u] \in Marked, stk[t] = stk[u]
                 PROVE  FALSE
      BY DEF MarkedExclusive
    <2>1. \A w \in Tids : w # Main /\ pc[w] \in Marked => Owned(w) /\ stk[w] # NoStack
      BY OwnedStack DEF Owned
    <2>2. stk[Main] = NoStack
      BY PthreadsAssumption DEF Inv, PcOK, Main, Tids
    <2> QED
      BY <2>1, <2>2 DEF Inv, OneUserInv
  <1> QED
    BY <1>1, PthreadsInvariant, PTL
-----------------------------------------------------------------------------
(***************************************************************************)
(* No stack is leaked.                                                     *)
(***************************************************************************)
Holds(t) == pc[t] \in Living \cup {"exiting", "trapped", "astray"} \/ handle[t] = "owned"

LEMMA HeldBy ==
    ASSUME NEW r
    PROVE  r \in Held <=> (\E c \in Tids : call[c].s = r) \/ (\E t \in Tids : Holds(t) /\ stk[t] = r)
  BY DEF Held, Holds

LEMMA HeldByNext ==
    ASSUME NEW r
    PROVE  r \in Held' <=> \/ \E c \in Tids : call'[c].s = r
                           \/ \E t \in Tids : Holds(t)' /\ stk'[t] = r
  BY DEF Held, Holds

\* A step that touches call c and thread v leaks nothing if it does not leak the
\* stacks of these two.
LEMMA HeldStep ==
    ASSUME used \subseteq Held, NEW c, NEW v,
           \A d \in Tids \ {c} : call'[d].s = call[d].s,
           \A u \in Tids \ {v} : pc'[u] = pc[u] /\ stk'[u] = stk[u] /\ handle'[u] = handle[u],
           used' \subseteq used \cup Held',
           c \in Tids /\ call[c].s \in used' => call[c].s \in Held',
           v \in Tids /\ Holds(v) /\ stk[v] \in used' => stk[v] \in Held'
    PROVE  used' \subseteq Held'
  <1> SUFFICES ASSUME NEW r \in used', r \in used PROVE r \in Held'
    OBVIOUS
  <1>1. r \in Held
    OBVIOUS
  <1>2. CASE \E d \in Tids : call[d].s = r
    BY <1>2, HeldByNext
  <1>3. ASSUME NEW u \in Tids, Holds(u), stk[u] = r PROVE r \in Held'
    <2>1. CASE u = v
      BY <1>3, <2>1
    <2>2. CASE u # v
      <3>1. Holds(u)' /\ stk'[u] = r
        BY <1>3, <2>2 DEF Holds
      <3> QED
        BY <3>1, HeldByNext
    <2> QED
      BY <2>1, <2>2
  <1> QED
    BY <1>1, <1>2, <1>3, HeldBy

\* Thread t moves on, and still holds its stack.
LEMMA HeldThread ==
    ASSUME Inv, used \subseteq Held, NEW t \in Tids, NEW l, pc' = [pc EXCEPT ![t] = l],
           \A d \in Tids : call'[d].s = call[d].s, UNCHANGED <<stk, handle>>, used' \subseteq used,
           \/ l \in Living \cup {"exiting", "trapped", "astray"}
           \/ pc[t] \notin Living \cup {"exiting", "trapped", "astray"}
           \/ stk[t] \notin used'
           \/ \E d \in Tids : call[d].t = t
           \/ handle[t] = "owned"
    PROVE  used' \subseteq Held'
  <1>1. pc \in [Tids -> PcSet]
    BY DEF Inv, BaseType
  <1>2. pc'[t] = l /\ \A u \in Tids \ {t} : pc'[u] = pc[u]
    BY <1>1
  <1>3. ASSUME Holds(t), stk[t] \in used' PROVE stk[t] \in Held'
    <2>1. CASE handle[t] = "owned" \/ l \in Living \cup {"exiting", "trapped", "astray"}
      <3>1. Holds(t)' /\ stk'[t] = stk[t]
        BY <1>2, <2>1 DEF Holds
      <3> QED
        BY <3>1, HeldByNext
    <2>2. ASSUME NEW d \in Tids, call[d].t = t, handle[t] # "owned" PROVE stk[t] \in Held'
      <3>1. CallOK(d) /\ t # 0 /\ BaseType
        BY TidsFacts DEF Inv
      <3>2. call[d].fn \in {"spawn"} \cup OnThread
        BY <2>2, <3>1, CallTid
      <3>3. pc[t] # "none"
        BY <1>3, <2>2 DEF Holds, Living
      <3>4. call[d].s = stk[t]
        BY <2>2, <3>1, <3>2, <3>3 DEF CallOK
      <3> QED
        BY <3>4, HeldByNext
    <2> QED
      BY <1>3, <2>1, <2>2 DEF Holds
  <1> QED
    BY <1>2, <1>3, TidsFacts, HeldStep

LEMMA LeakThreads ==
    ASSUME Inv, used \subseteq Held, NEW t \in Tids,
           ThreadStep(t) \/ Returns(t) \/ Trap(t)
    PROVE  used' \subseteq Held'
  <1>0. UNCHANGED <<stk, handle>>
    BY DEF ThreadStep, Rewind, Start, SetExiting, FreeIfDetached, ClearTid, WakeJoiner, HostExit,
           Returns, Trap
  <1>1. CASE Rewind(t)
    BY <1>0, <1>1, HeldThread DEF Rewind, Goto, Living
  <1>2. CASE Start(t)
    <2>1. CASE pd[stk[t]].stopped /\ pd[stk[t]].setup_failed
      <3>1. Owned(t) /\ OwnOK(t) /\ pc[t] = "start"
        BY <1>2, AtOwned DEF Start, At, Marked, Living
      <3>2. Failing(t)
        BY <2>1, <3>1 DEF OwnOK
      <3> QED
        BY <1>0, <1>2, <2>1, <3>2, HeldThread DEF Start, Goto, Failing
    <2>2. CASE ~(pd[stk[t]].stopped /\ pd[stk[t]].setup_failed)
      BY <1>0, <1>2, <2>2, HeldThread DEF Start, Goto, Living
    <2> QED
      BY <2>1, <2>2
  <1>3. CASE SetExiting(t)
    BY <1>0, <1>3, HeldThread DEF SetExiting, Goto
  <1>4. CASE FreeIfDetached(t)
    <2>0. Owned(t) /\ OwnOK(t) /\ pc[t] = "exiting" /\ stk[t] \in Stacks /\ pd[stk[t]] \in Pd /\ BaseType
      BY <1>4, AtOwned DEF FreeIfDetached, At, Marked
    <2>1. CASE pd[stk[t]].detached
      <3>1. free_tcb(stk[t], pd[stk[t]])
        BY <1>4, <2>1 DEF FreeIfDetached
      <3>2. stk[t] \notin used' /\ used' \subseteq used
        <4>1. CASE pd[stk[t]].terminated
          BY <2>0, <3>1, <4>1 DEF OwnOK, free_tcb, stackVars
        <4>2. CASE ~pd[stk[t]].terminated
          BY <3>1, <4>2 DEF free_tcb, deallocate_stack
        <4> QED
          BY <4>1, <4>2
      <3> QED
        BY <1>0, <1>4, <3>2, HeldThread DEF FreeIfDetached, Goto
    <2>2. CASE ~pd[stk[t]].detached
      <3>1. handle[t] = "owned" \/ \E d \in Tids : call[d].t = t
        BY <2>0, <2>2 DEF OwnOK
      <3> QED
        BY <1>0, <1>4, <2>2, <3>1, HeldThread DEF FreeIfDetached, Goto
    <2> QED
      BY <2>1, <2>2
  <1>5. CASE ClearTid(t)
    BY <1>0, <1>5, HeldThread DEF ClearTid, Goto, At, Living
  <1>6. CASE WakeJoiner(t)
    <2>1. \A d \in Tids : call'[d].s = call[d].s
      <3>1. CASE call' = call
        BY <3>1
      <3>2. CASE call' # call
        <4>1. PICK j \in Tids : call' = [call EXCEPT ![j].asleep = FALSE]
          BY <1>6, <3>2 DEF WakeJoiner
        <4> QED
          BY <4>1, AsleepType DEF Inv
      <3> QED
        BY <3>1, <3>2
    <2> QED
      BY <1>0, <1>6, <2>1, HeldThread DEF WakeJoiner, Goto, At, Living
  <1>7. CASE HostExit(t)
    BY <1>0, <1>7, HeldThread DEF HostExit, Goto, At, Living
  <1>8. CASE Returns(t)
    BY <1>0, <1>8, HeldThread DEF Returns, Goto, Living
  <1>9. CASE Trap(t)
    BY <1>0, <1>9, HeldThread DEF Trap, Goto
  <1> QED
    BY <1>1, <1>2, <1>3, <1>4, <1>5, <1>6, <1>7, <1>8, <1>9 DEF ThreadStep

\* Call c moves on, and its stack is still held or no longer in use.
LEMMA HeldCall ==
    ASSUME Inv, used \subseteq Held, NEW c \in Tids, NEW k, call' = [call EXCEPT ![c] = k],
           UNCHANGED <<pc, stk>>, \A u \in Tids : handle'[u] = handle[u] \/ handle'[u] = "owned",
           used' \subseteq used,
           \/ k.s = call[c].s
           \/ call[c].s \notin used'
           \/ \E u \in Tids : Holds(u)' /\ stk[u] = call[c].s
    PROVE  used' \subseteq Held'
  <1>1. call'[c] = k /\ \A d \in Tids \ {c} : call'[d] = call[d]
    BY DEF Inv, BaseType
  <1> SUFFICES ASSUME NEW r \in used' PROVE r \in Held'
    OBVIOUS
  <1>2. ASSUME NEW d \in Tids, call[d].s = r PROVE r \in Held'
    BY <1>1, <1>2, HeldByNext
  <1>3. ASSUME NEW u \in Tids, Holds(u), stk[u] = r PROVE r \in Held'
    <2>1. Holds(u)' /\ stk'[u] = r
      BY <1>3 DEF Holds
    <2> QED
      BY <2>1, HeldByNext
  <1> QED
    BY <1>2, <1>3, HeldBy

\* A stack given back leaves dl_stack_used.
LEMMA FreedUnused ==
    ASSUME NEW s, NEW p, free_tcb(s, p), p.terminated => s \notin used
    PROVE  s \notin used' /\ used' \subseteq used
  <1>1. CASE p.terminated
    BY <1>1 DEF free_tcb, stackVars
  <1>2. CASE ~p.terminated
    BY <1>2 DEF free_tcb, deallocate_stack
  <1> QED
    BY <1>1, <1>2

LEMMA LeakUses ==
    ASSUME Inv, used \subseteq Held, NEW c \in Tids,
           \/ \E ok \in BOOLEAN : SetAttr(c, ok)
           \/ Reap(c) \/ JoinDone(c) \/ DetachCheck(c) \/ DetachFree(c) \/ JoinTimesOut(c)
    PROVE  used' \subseteq Held'
  <1>0. call[c].fn \in OnThread /\ UNCHANGED <<pc, stk>>
    BY DEF SetAttr, Reap, JoinDone, DetachCheck, DetachFree, JoinTimesOut, In, OnThread, Joining,
           Detaching
  <1>1. PICK v \in Tids, s \in Stacks : About(c, v, s)
    BY <1>0, CallAbout
  <1>2. /\ call[c].s = s /\ call[c].t = v /\ stk[v] = s /\ OwnOK(v) /\ Owned(v) /\ BaseType
        /\ pd[s] \in Pd
    BY <1>1 DEF About
  <1>3. ASSUME NEW ok \in BOOLEAN, SetAttr(c, ok) PROVE used' \subseteq Held'
    <2>1. CASE ok
      <3>1. call' = [call EXCEPT ![c] = NoCall] /\ handle' = [handle EXCEPT ![v] = "owned"] /\ used' = used
        BY <1>2, <1>3, <2>1 DEF SetAttr, Return
      <3>2. Holds(v)' /\ \A u \in Tids : handle'[u] = handle[u] \/ handle'[u] = "owned"
        BY <1>2, <3>1 DEF Holds, BaseType
      <3> QED
        BY <1>0, <1>2, <3>1, <3>2, HeldCall
    <2>2. CASE ~ok
      <3>1. /\ call' = [call EXCEPT ![c] = [call[c] EXCEPT !.fn = "reap"]] /\ handle' = handle
            /\ used' = used
        BY <1>3, <2>2 DEF SetAttr, ToStep
      <3>2. [call[c] EXCEPT !.fn = "reap"].s = call[c].s
        BY <1>1 DEF About, Call
      <3> QED
        BY <1>0, <3>1, <3>2, HeldCall
    <2> QED
      BY <2>1, <2>2
  <1>4. CASE Reap(c)
    <2>1. /\ call' = [call EXCEPT ![c] = NoCall] /\ handle' = handle
          /\ used' = used \ {s}
      BY <1>2, <1>4 DEF Reap, Return, deallocate_stack
    <2> QED
      BY <1>0, <1>2, <2>1, HeldCall
  <1>5. CASE JoinDone(c)
    <2>1. PICK p : p = [pd[s] EXCEPT !.tid = -1]
      OBVIOUS
    <2>2. free_tcb(s, p) /\ call' = [call EXCEPT ![c] = NoCall] /\ handle' = handle
      BY <1>2, <1>5, <2>1 DEF JoinDone, Return
    <2>3. p.terminated = pd[s].terminated
      BY <1>2, <2>1 DEF Pd
    <2>4. s \notin used' /\ used' \subseteq used
      BY <1>2, <2>2, <2>3, FreedUnused DEF OwnOK
    <2> QED
      BY <1>0, <1>2, <2>2, <2>4, HeldCall
  <1>6. CASE DetachFree(c)
    <2>1. free_tcb(s, pd[s]) /\ call' = [call EXCEPT ![c] = NoCall] /\ handle' = handle
      BY <1>2, <1>6 DEF DetachFree, Return
    <2>2. s \notin used' /\ used' \subseteq used
      BY <1>2, <2>1, FreedUnused DEF OwnOK
    <2> QED
      BY <1>0, <1>2, <2>1, <2>2, HeldCall
  <1>7. CASE DetachCheck(c)
    <2>0. handle' = handle /\ used' = used
      BY <1>7 DEF DetachCheck
    <2>1. CASE pd[s].exiting
      <3>1. call' = [call EXCEPT ![c] = [call[c] EXCEPT !.fn = "detach_free"]]
        BY <1>2, <1>7, <2>1 DEF DetachCheck, ToStep
      <3>2. [call[c] EXCEPT !.fn = "detach_free"].s = call[c].s
        BY <1>1 DEF About, Call
      <3> QED
        BY <1>0, <2>0, <3>1, <3>2, HeldCall
    <2>2. CASE ~pd[s].exiting
      <3>1. call' = [call EXCEPT ![c] = NoCall]
        BY <1>2, <1>7, <2>2 DEF DetachCheck, Return
      <3>2. ~Failing(v)
        BY <1>1, <1>7 DEF Failing, About, DetachCheck, In
      <3>3. pc[v] \in Living \cup Stuck
        BY <1>2, <2>2, <3>2 DEF OwnOK
      <3>4. Holds(v)'
        BY <1>0, <3>3 DEF Holds, Stuck
      <3> QED
        BY <1>0, <1>2, <2>0, <3>1, <3>4, HeldCall
    <2> QED
      BY <2>1, <2>2
  <1>8. CASE JoinTimesOut(c)
    <2>1. call' = [call EXCEPT ![c] = NoCall] /\ handle' = [handle EXCEPT ![v] = "owned"] /\ used' = used
      BY <1>2, <1>8 DEF JoinTimesOut, Return
    <2>2. Holds(v)' /\ \A u \in Tids : handle'[u] = handle[u] \/ handle'[u] = "owned"
      BY <1>2, <2>1 DEF Holds, BaseType
    <2> QED
      BY <1>0, <1>2, <2>1, <2>2, HeldCall
  <1> QED
    BY <1>3, <1>4, <1>5, <1>6, <1>7, <1>8

\* A join or detach takes over the handle, and with it the stack.
LEMMA LeakEnters ==
    ASSUME Inv, used \subseteq Held, NEW c \in Tids, NEW t \in Tids,
           \/ JoinEnter(c, t, "join") \/ JoinEnter(c, t, "timedjoin") \/ TryJoinEnter(c, t)
           \/ Detach(c, t)
    PROVE  used' \subseteq Held'
  <1>0. /\ handle[t] = "owned" /\ InBody(c) /\ UNCHANGED <<pc, stk, used>>
        /\ handle' = [handle EXCEPT ![t] = "spent"]
    BY DEF JoinEnter, TryJoinEnter, Detach
  <1>1. ~(pd[stk[t]].tid < 0) /\ ~pd[stk[t]].detached /\ BaseType /\ stk[t] \in Stacks
    <2>1. /\ pd[stk[t]] \in Pd /\ pd[stk[t]].tid >= 0 /\ ~pd[stk[t]].detached /\ stk[t] \in Stacks
          /\ BaseType
      BY <1>0, HandleOwned
    <2>2. pd[stk[t]].tid \in Int
      BY <2>1 DEF Pd
    <2> QED
      BY <2>1, <2>2
  <1>2. PICK fn : call' = [call EXCEPT ![c] = [NoCall EXCEPT !.fn = fn, !.s = stk[t], !.t = t]]
    BY <1>1 DEF JoinEnter, TryJoinEnter, Detach
  <1>3. /\ call'[c].s = stk[t] /\ \A d \in Tids \ {c} : call'[d] = call[d]
        /\ \A u \in Tids \ {t} : handle'[u] = handle[u]
    BY <1>0, <1>1, <1>2 DEF BaseType, NoCall
  <1>4. stk[t] \in Held'
    BY <1>3, HeldByNext
  <1>5. call[c].s \notin used'
    BY <1>0, <1>1, PthreadsAssumption DEF InBody, NoCall, NoStack, BaseType
  <1> QED
    BY <1>0, <1>3, <1>4, <1>5, HeldStep

\* A stack being handed to a new thread is the creator's, then the thread's.
LEMMA LeakMakes ==
    ASSUME Inv, used \subseteq Held, NEW c \in Tids,
           \/ \E k \in Kinds : AllocateStack(c, k)
           \/ InitPd(c) \/ Clone(c) \/ CloneFails(c) \/ Spawn(c)
    PROVE  used' \subseteq Held'
  <1>0. BaseType /\ call[c] \in Call
    BY DEF Inv, BaseType
  <1>1. ASSUME NEW k \in Kinds, AllocateStack(c, k) PROVE used' \subseteq Held'
    <2>1. PICK s \in Stacks :
            /\ used' = used \cup {s}
            /\ call' = [call EXCEPT ![c] = [NoCall EXCEPT !.fn = "init", !.s = s, !.kind = k]]
      BY <1>1 DEF AllocateStack
    <2>2. call'[c].s = s /\ \A d \in Tids \ {c} : call'[d] = call[d]
      BY <1>0, <2>1 DEF BaseType, NoCall
    <2>3. s \in Held'
      BY <2>2, HeldByNext
    <2>4. call[c].s \in used' => call[c].s \in Held'
      <3>1. call[c] = NoCall
        BY <1>1 DEF AllocateStack, InBody
      <3>2. call[c].s \notin Stacks
        BY <3>1, PthreadsAssumption DEF NoCall, NoStack
      <3> QED
        BY <1>0, <2>1, <3>2 DEF BaseType
    <2>5. used' \subseteq used \cup Held'
      BY <2>1, <2>3
    <2>6. UNCHANGED <<pc, stk, handle>>
      BY <1>1 DEF AllocateStack
    <2> QED
      BY <2>2, <2>4, <2>5, <2>6, TidsFacts, HeldStep
  <1>2. CASE InitPd(c)
    <2>1. call' = [call EXCEPT ![c] = [call[c] EXCEPT !.fn = "clone"]] /\ UNCHANGED <<pc, stk, handle, used>>
      BY <1>2 DEF InitPd, ToStep
    <2>2. [call[c] EXCEPT !.fn = "clone"].s = call[c].s
      BY <1>0 DEF Call
    <2> QED
      BY <2>1, <2>2, HeldCall
  <1>3. CASE Clone(c)
    <2>1. PICK k : k = [call[c] EXCEPT !.fn = "spawn", !.t = nextTid + 1]
      OBVIOUS
    <2>2. call' = [call EXCEPT ![c] = k] /\ UNCHANGED <<pc, stk, handle, used>>
      BY <1>0, <1>3, <2>1 DEF Clone, BaseType
    <2>3. k.s = call[c].s
      BY <1>0, <2>1 DEF Call
    <2> QED
      BY <2>2, <2>3, HeldCall
  <1>4. CASE CloneFails(c)
    <2>1. /\ call' = [call EXCEPT ![c] = NoCall] /\ UNCHANGED <<pc, stk, handle>>
          /\ used' = used \ {call[c].s}
      BY <1>4 DEF CloneFails, Return, deallocate_stack
    <2> QED
      BY <2>1, HeldCall
  <1>5. CASE Spawn(c)
    <2>0. call[c].fn = "spawn" /\ CallOK(c)
      BY <1>5 DEF Spawn, In, Inv
    <2>1. call[c].t # 0 /\ call[c].t \in Tids
      <3>1. call[c].t \in 2..nextTid
        BY <2>0 DEF CallOK
      <3> QED
        BY <1>0, <2>0, <3>1, TidsFacts, CallTid DEF BaseType
    <2>2. PICK v \in Tids : v = call[c].t
      BY <2>1
    <2>3. pc[v] = "none" /\ handle[v] = "none"
      BY <2>0, <2>2 DEF CallOK, Inv, PcOK
    <2>4. PICK h : handle' = [handle EXCEPT ![v] = h]
      <3>1. PICK h : h = CASE call[c].kind = "plain" -> "owned"
                           [] call[c].kind = "detached" -> "spent"
                           [] call[c].kind = "stopped" -> "none"
        OBVIOUS
      <3> QED
        BY <1>5, <2>2, <3>1 DEF Spawn
    <2>5. /\ pc' = [pc EXCEPT ![v] = "spawned"] /\ stk' = [stk EXCEPT ![v] = call[c].s]
          /\ used' = used
          /\ call' = [call EXCEPT ![c].fn = "setattr"] \/ call' = [call EXCEPT ![c] = NoCall]
      BY <1>5, <2>2 DEF Spawn, Goto, ToStep, Return
    <2>6. /\ pc'[v] = "spawned" /\ stk'[v] = call[c].s
          /\ \A u \in Tids \ {v} : pc'[u] = pc[u] /\ stk'[u] = stk[u] /\ handle'[u] = handle[u]
          /\ \A d \in Tids \ {c} : call'[d] = call[d]
      BY <1>0, <2>4, <2>5 DEF BaseType
    <2>7. call[c].s \in Held'
      <3>1. Holds(v)'
        BY <2>6 DEF Holds, Living
      <3> QED
        BY <2>6, <3>1, HeldByNext
    <2>8. ~Holds(v)
      BY <2>3 DEF Holds, Living
    <2> QED
      BY <2>5, <2>6, <2>7, <2>8, HeldStep
  <1> QED
    BY <1>1, <1>2, <1>3, <1>4, <1>5

LeakInv == used \subseteq Held

\* Every stack handed out has somebody who will give it back.
THEOREM PthreadsNoStackLeak ==
    ASSUME NoStaleDetach
    PROVE  Spec => []NoStackLeak
  <1>1. Init => LeakInv
    BY DEF Init, LeakInv
  <1>2. Inv /\ LeakInv /\ [Next]_vars => LeakInv'
    <2> SUFFICES ASSUME Inv, used \subseteq Held, [Next]_vars PROVE used' \subseteq Held'
      BY DEF LeakInv
    <2>1. CASE UNCHANGED vars
      <3>1. Held' = Held
        BY <2>1 DEF Held, vars
      <3> QED
        BY <2>1, <3>1 DEF vars
    <2>2. ASSUME NEW t \in Tids, FutexWait(t) \/ FutexInterrupted(t) PROVE used' \subseteq Held'
      <3>1. PICK b \in BOOLEAN : call' = [call EXCEPT ![t].asleep = b]
        BY <2>2 DEF FutexWait, FutexInterrupted
      <3>2. \A d \in Tids : call'[d].s = call[d].s
        BY <3>1, AsleepType DEF Inv
      <3>3. UNCHANGED <<pc, stk, handle, used>>
        BY <2>2 DEF FutexWait, FutexInterrupted
      <3> QED
        BY <3>2, <3>3, TidsFacts, HeldStep
    <2>3. CASE MainReturns
      <3>1. Held' = Held
        BY <2>3 DEF Held, MainReturns
      <3> QED
        BY <2>3, <3>1 DEF MainReturns
    <2>4. ASSUME NEW t \in Tids, CallStep(t) PROVE used' \subseteq Held'
      BY <2>2, <2>4, LeakUses, LeakMakes DEF CallStep
    <2>5. ASSUME NEW t \in Tids, Program(t) PROVE used' \subseteq Held'
      BY <2>2, <2>5, LeakUses, LeakMakes, LeakEnters, LeakThreads DEF Program
    <2> QED
      BY <2>1, <2>3, <2>4, <2>5, LeakThreads DEF Next
  <1>3. LeakInv => NoStackLeak
    BY DEF NoStackLeak, LeakInv
  <1> QED
    BY <1>1, <1>2, <1>3, PthreadsInvariant, PTL DEF Spec
-----------------------------------------------------------------------------
(***************************************************************************)
(* __nptl_nthreads.                                                        *)
(***************************************************************************)
Alive == {t \in Tids : pc[t] \in Living \cup Stuck /\ ~Failing(t)}
Made  == {c \in Tids : call[c].fn \in {"clone", "spawn", "reap"}}
CountInv == nthreads = Cardinality(Alive) + Cardinality(Made)

LEMMA CountIsExact == CountInv <=> NThreadsExact
  <1> DEFINE reaping == {call[c].t : c \in {d \in Tids : call[d].fn = "reap"}}
  <1>1. {t \in Tids : pc[t] \in Living \cup {"trapped", "astray"}} \ reaping = Alive
    BY DEF Alive, Failing, Stuck
  <1> QED
    BY <1>1 DEF CountInv, NThreadsExact, Made

LEMMA CountFinite ==
    /\ IsFiniteSet(Alive) /\ Cardinality(Alive) \in Nat
    /\ IsFiniteSet(Made) /\ Cardinality(Made) \in Nat
  <1>1. IsFiniteSet(Tids)
    BY PthreadsAssumption, FS_Interval DEF Tids
  <1>2. IsFiniteSet(Alive) /\ IsFiniteSet(Made)
    BY <1>1, FS_Subset DEF Alive, Made
  <1> QED
    BY <1>2, FS_CardinalityType

\* A step that starts no thread, ends none and reaps none.
LEMMA CountQuiet ==
    ASSUME CountInv, nthreads' = nthreads,
           \A d \in Tids : /\ call'[d].fn = "reap" <=> call[d].fn = "reap"
                           /\ call[d].fn = "reap" => call'[d].t = call[d].t
                           /\ call'[d].fn \in {"clone", "spawn"} <=> call[d].fn \in {"clone", "spawn"},
           \A u \in Tids : Failing(u) \/ (pc'[u] \in Living \cup Stuck <=> pc[u] \in Living \cup Stuck)
    PROVE  CountInv'
  <1>1. Made' = Made
    BY DEF Made
  <1>2. \A u \in Tids : Failing(u)' <=> Failing(u)
    BY DEF Failing
  <1>3. Alive' = Alive
    BY <1>2 DEF Alive
  <1> QED
    BY <1>1, <1>3 DEF CountInv

\* The same, for a step of a call.
LEMMA CountCall ==
    ASSUME CountInv, BaseType, nthreads' = nthreads, pc' = pc, NEW c \in Tids, NEW k,
           call' = [call EXCEPT ![c] = k], call[c].fn # "reap", k.fn # "reap",
           k.fn \in {"clone", "spawn"} <=> call[c].fn \in {"clone", "spawn"}
    PROVE  CountInv'
  <1>1. call'[c] = k /\ \A d \in Tids \ {c} : call'[d] = call[d]
    BY DEF BaseType
  <1> QED
    BY <1>1, CountQuiet

\* The same, for a step of a thread.
LEMMA CountThread ==
    ASSUME CountInv, BaseType, nthreads' = nthreads, NEW t \in Tids, NEW l,
           pc' = [pc EXCEPT ![t] = l],
           \A d \in Tids : call'[d].fn = call[d].fn /\ call'[d].t = call[d].t,
           Failing(t) \/ (l \in Living \cup Stuck <=> pc[t] \in Living \cup Stuck)
    PROVE  CountInv'
  <1>1. pc'[t] = l /\ \A u \in Tids \ {t} : pc'[u] = pc[u]
    BY DEF BaseType
  <1> QED
    BY <1>1, CountQuiet

LEMMA CountThreads ==
    ASSUME Inv, CountInv, NEW t \in Tids, ThreadStep(t) \/ Returns(t) \/ Trap(t)
    PROVE  CountInv'
  <1>0. BaseType
    BY DEF Inv
  <1>1. CASE Rewind(t)
    BY <1>0, <1>1, CountThread DEF Rewind, Goto, At, Living, Stuck
  <1>2. CASE Start(t)
    <2>1. CASE pd[stk[t]].stopped /\ pd[stk[t]].setup_failed
      <3>1. Owned(t) /\ OwnOK(t) /\ pc[t] = "start"
        BY <1>2, AtOwned DEF Start, At, Marked, Living
      <3>2. Failing(t)
        BY <2>1, <3>1 DEF OwnOK
      <3> QED
        BY <1>0, <1>2, <2>1, <3>2, CountThread DEF Start, Goto
    <2>2. CASE ~(pd[stk[t]].stopped /\ pd[stk[t]].setup_failed)
      BY <1>0, <1>2, <2>2, CountThread DEF Start, Goto, At, Living
    <2> QED
      BY <2>1, <2>2
  <1>3. CASE SetExiting(t)
    <2>0. pc[t] = "returned" /\ t # Main /\ t # 0 /\ pc' = [pc EXCEPT ![t] = "exiting"]
      BY <1>3, TidsFacts DEF SetExiting, At, Goto
    <2>1. ~Failing(t)
      <3>1. \A d \in Tids : call[d].t = t => StageOK(d)
        BY DEF Inv
      <3> QED
        BY <2>0, <3>1 DEF Failing, StageOK, Cleared
    <2>2. call' = call /\ nthreads' = nthreads - 1
      BY <1>3 DEF SetExiting
    <2>3. Made' = Made /\ \A u \in Tids : Failing(u)' <=> Failing(u)
      BY <2>2 DEF Made, Failing
    <2>4. pc'[t] = "exiting" /\ \A u \in Tids \ {t} : pc'[u] = pc[u]
      BY <1>0, <2>0 DEF BaseType
    <2>5. Alive' = Alive \ {t} /\ t \in Alive
      BY <2>0, <2>1, <2>3, <2>4 DEF Alive, Living, Stuck
    <2>6. Cardinality(Alive') = Cardinality(Alive) - 1
      BY <2>5, CountFinite, FS_RemoveElement
    <2> QED
      BY <2>2, <2>3, <2>6, CountFinite DEF CountInv
  <1>4. CASE FreeIfDetached(t)
    BY <1>0, <1>4, CountThread DEF FreeIfDetached, Goto, At, Living, Stuck
  <1>5. CASE ClearTid(t)
    BY <1>0, <1>5, CountThread DEF ClearTid, Goto, At, Living, Stuck
  <1>6. CASE WakeJoiner(t)
    <2>1. \A d \in Tids : call'[d].fn = call[d].fn /\ call'[d].t = call[d].t
      <3>1. CASE call' = call
        BY <3>1
      <3>2. CASE call' # call
        <4>1. PICK j \in Tids : call' = [call EXCEPT ![j].asleep = FALSE]
          BY <1>6, <3>2 DEF WakeJoiner
        <4> QED
          BY <4>1, AsleepType DEF Inv
      <3> QED
        BY <3>1, <3>2
    <2> QED
      BY <1>0, <1>6, <2>1, CountThread DEF WakeJoiner, Goto, At, Living, Stuck
  <1>7. CASE HostExit(t)
    BY <1>0, <1>7, CountThread DEF HostExit, Goto, At, Living, Stuck
  <1>8. CASE Returns(t)
    BY <1>0, <1>8, CountThread DEF Returns, Goto, At, Living, Stuck
  <1>9. CASE Trap(t)
    BY <1>0, <1>9, CountThread DEF Trap, Goto, At, Living, Stuck
  <1> QED
    BY <1>1, <1>2, <1>3, <1>4, <1>5, <1>6, <1>7, <1>8, <1>9 DEF ThreadStep

LEMMA CountUses ==
    ASSUME Inv, CountInv, NEW c \in Tids,
           \/ \E ok \in BOOLEAN : SetAttr(c, ok)
           \/ Reap(c) \/ JoinDone(c) \/ DetachCheck(c) \/ DetachFree(c) \/ JoinTimesOut(c)
    PROVE  CountInv'
  <1>0. call[c].fn \in OnThread /\ pc' = pc /\ NoCall.fn = "none"
    BY DEF SetAttr, Reap, JoinDone, DetachCheck, DetachFree, JoinTimesOut, In, OnThread, Joining,
           Detaching, NoCall
  <1>1. PICK v \in Tids, s \in Stacks : About(c, v, s)
    BY <1>0, CallAbout
  <1>2. /\ call[c].s = s /\ call[c].t = v /\ stk[v] = s /\ OwnOK(v) /\ Owned(v) /\ StageOK(c)
        /\ BaseType /\ call[c] \in Call /\ \A d \in Tids \ {c} : call[d].t # v
    BY <1>1 DEF About
  <1>3. ASSUME NEW ok \in BOOLEAN, SetAttr(c, ok) PROVE CountInv'
    <2>0. call[c].fn = "setattr" /\ nthreads' = nthreads
      BY <1>3 DEF SetAttr, In
    <2>1. CASE ok
      <3>1. call' = [call EXCEPT ![c] = NoCall]
        BY <1>3, <2>1 DEF SetAttr, Return
      <3> QED
        BY <1>0, <1>2, <2>0, <3>1, CountCall
    <2>2. CASE ~ok
      <3>1. call' = [call EXCEPT ![c] = [call[c] EXCEPT !.fn = "reap"]]
        BY <1>3, <2>2 DEF SetAttr, ToStep
      <3>2. call'[c].fn = "reap" /\ call'[c].t = v /\ \A d \in Tids \ {c} : call'[d] = call[d]
        BY <1>2, <3>1 DEF BaseType, Call
      <3>3. Made' = Made \cup {c} /\ c \notin Made
        BY <2>0, <3>2 DEF Made
      <3>4. /\ Failing(v)' /\ ~Failing(v) /\ \A u \in Tids \ {v} : Failing(u)' <=> Failing(u)
        BY <1>2, <2>0, <3>2 DEF Failing
      <3>5. pc[v] \in Living \cup Stuck
        BY <1>2, <2>0 DEF StageOK, Living, Stuck
      <3>6. Alive' = Alive \ {v} /\ v \in Alive
        BY <1>0, <3>4, <3>5 DEF Alive
      <3>7. Cardinality(Made') = Cardinality(Made) + 1
        BY <3>3, CountFinite, FS_AddElement
      <3>8. Cardinality(Alive') = Cardinality(Alive) - 1
        BY <3>6, CountFinite, FS_RemoveElement
      <3> QED
        BY <2>0, <3>7, <3>8, CountFinite DEF CountInv
    <2> QED
      BY <2>1, <2>2
  <1>4. CASE Reap(c)
    <2>0. call[c].fn = "reap" /\ nthreads' = nthreads - 1 /\ call' = [call EXCEPT ![c] = NoCall]
      BY <1>4 DEF Reap, In, Return
    <2>1. call'[c].fn = "none" /\ \A d \in Tids \ {c} : call'[d] = call[d]
      BY <1>0, <1>2, <2>0 DEF BaseType
    <2>2. Made' = Made \ {c} /\ c \in Made
      BY <2>0, <2>1 DEF Made
    <2>3. pc[v] \notin Living \cup Stuck
      <3>1. pd[s].tid = 0 /\ v # 0
        BY <1>1, <1>2, <1>4 DEF Reap, About
      <3>2. pc[v] \in Cleared
        BY <1>2, <3>1 DEF OwnOK
      <3> QED
        BY <3>2 DEF Cleared, Living, Stuck
    <2>4. \A u \in Tids \ {v} : Failing(u)' <=> Failing(u)
      BY <1>2, <2>0, <2>1 DEF Failing
    <2>5. Alive' = Alive
      BY <1>0, <2>3, <2>4 DEF Alive
    <2>6. Cardinality(Made') = Cardinality(Made) - 1
      BY <2>2, CountFinite, FS_RemoveElement
    <2> QED
      BY <2>0, <2>5, <2>6, CountFinite DEF CountInv
  <1>5. CASE JoinDone(c) \/ DetachFree(c) \/ JoinTimesOut(c)
    <2>1. /\ call' = [call EXCEPT ![c] = NoCall] /\ nthreads' = nthreads
          /\ call[c].fn \notin {"reap", "clone", "spawn"}
      BY <1>5 DEF JoinDone, DetachFree, JoinTimesOut, Return, In
    <2> QED
      BY <1>0, <1>2, <2>1, CountCall
  <1>6. CASE DetachCheck(c)
    <2>1. PICK k : k = [call[c] EXCEPT !.fn = "detach_free"]
      OBVIOUS
    <2>2. /\ call' = [call EXCEPT ![c] = NoCall] \/ call' = [call EXCEPT ![c] = k]
          /\ nthreads' = nthreads /\ call[c].fn = "detach_check"
      BY <1>6, <2>1 DEF DetachCheck, ToStep, Return, In
    <2>3. k.fn = "detach_free"
      BY <1>2, <2>1 DEF Call
    <2> QED
      BY <1>0, <1>2, <2>2, <2>3, CountCall
  <1> QED
    BY <1>3, <1>4, <1>5, <1>6

LEMMA CountEnters ==
    ASSUME Inv, CountInv, NEW c \in Tids, NEW t \in Tids,
           \/ JoinEnter(c, t, "join") \/ JoinEnter(c, t, "timedjoin") \/ TryJoinEnter(c, t)
           \/ Detach(c, t)
    PROVE  CountInv'
  <1>0. /\ handle[t] = "owned" /\ InBody(c) /\ UNCHANGED <<pc, nthreads>> /\ BaseType
    BY DEF JoinEnter, TryJoinEnter, Detach, Inv
  <1>1. CASE call' = call
    BY <1>0, <1>1, CountQuiet
  <1>2. CASE call' # call
    <2>1. PICK fn \in {"join", "timedjoin", "tryjoin", "detach_check"} :
            call' = [call EXCEPT ![c] = [NoCall EXCEPT !.fn = fn, !.s = stk[t], !.t = t]]
      BY <1>2 DEF JoinEnter, TryJoinEnter, Detach
    <2>2. PICK k : k = [NoCall EXCEPT !.fn = fn, !.s = stk[t], !.t = t]
      OBVIOUS
    <2>3. k.fn = fn /\ call[c].fn = "none"
      BY <1>0, <2>2 DEF NoCall, InBody
    <2> QED
      BY <1>0, <2>1, <2>2, <2>3, CountCall
  <1> QED
    BY <1>1, <1>2

LEMMA CountMakes ==
    ASSUME Inv, CountInv, NEW c \in Tids,
           \/ \E k \in Kinds : AllocateStack(c, k)
           \/ InitPd(c) \/ Clone(c) \/ CloneFails(c) \/ Spawn(c)
    PROVE  CountInv'
  <1>0. BaseType /\ call[c] \in Call /\ NoCall.fn = "none"
    BY DEF Inv, BaseType, NoCall
  <1>1. ASSUME NEW k \in Kinds, AllocateStack(c, k) PROVE CountInv'
    <2>1. PICK s \in Stacks :
            call' = [call EXCEPT ![c] = [NoCall EXCEPT !.fn = "init", !.s = s, !.kind = k]]
      BY <1>1 DEF AllocateStack
    <2>2. PICK q : q = [NoCall EXCEPT !.fn = "init", !.s = s, !.kind = k]
      OBVIOUS
    <2>3. q.fn = "init" /\ call[c].fn = "none" /\ UNCHANGED <<pc, nthreads>>
      <3>1. q.fn = "init"
        BY <2>2 DEF NoCall
      <3>2. call[c] = NoCall /\ UNCHANGED <<pc, nthreads>>
        BY <1>1 DEF AllocateStack, InBody
      <3> QED
        BY <1>0, <3>1, <3>2
    <2> QED
      BY <1>0, <2>1, <2>2, <2>3, CountCall
  <1>2. CASE InitPd(c)
    <2>1. /\ call' = [call EXCEPT ![c] = [call[c] EXCEPT !.fn = "clone"]] /\ pc' = pc
          /\ nthreads' = nthreads + 1 /\ call[c].fn = "init"
      BY <1>2 DEF InitPd, ToStep, In
    <2>2. call'[c].fn = "clone" /\ \A d \in Tids \ {c} : call'[d] = call[d]
      BY <1>0, <2>1 DEF BaseType, Call
    <2>3. Made' = Made \cup {c} /\ c \notin Made
      BY <2>1, <2>2 DEF Made
    <2>4. \A u \in Tids : Failing(u)' <=> Failing(u)
      BY <2>1, <2>2 DEF Failing
    <2>5. Alive' = Alive
      BY <2>1, <2>4 DEF Alive
    <2>6. Cardinality(Made') = Cardinality(Made) + 1
      BY <2>3, CountFinite, FS_AddElement
    <2> QED
      BY <2>1, <2>5, <2>6, CountFinite DEF CountInv
  <1>3. CASE Clone(c)
    <2>1. PICK k : k = [call[c] EXCEPT !.fn = "spawn", !.t = nextTid + 1]
      OBVIOUS
    <2>2. /\ call' = [call EXCEPT ![c] = k] /\ UNCHANGED <<pc, nthreads>> /\ call[c].fn = "clone"
      BY <1>0, <1>3, <2>1 DEF Clone, BaseType, In
    <2>3. k.fn = "spawn"
      BY <1>0, <2>1 DEF Call
    <2> QED
      BY <1>0, <2>2, <2>3, CountCall
  <1>4. CASE CloneFails(c)
    <2>1. /\ call' = [call EXCEPT ![c] = NoCall] /\ pc' = pc
          /\ nthreads' = nthreads - 1 /\ call[c].fn = "clone"
      BY <1>4 DEF CloneFails, Return, In
    <2>2. call'[c].fn = "none" /\ \A d \in Tids \ {c} : call'[d] = call[d]
      BY <1>0, <2>1 DEF BaseType
    <2>3. Made' = Made \ {c} /\ c \in Made
      BY <2>1, <2>2 DEF Made
    <2>4. \A u \in Tids : Failing(u)' <=> Failing(u)
      BY <2>1, <2>2 DEF Failing
    <2>5. Alive' = Alive
      BY <2>1, <2>4 DEF Alive
    <2>6. Cardinality(Made') = Cardinality(Made) - 1
      BY <2>3, CountFinite, FS_RemoveElement
    <2> QED
      BY <2>1, <2>5, <2>6, CountFinite DEF CountInv
  <1>5. CASE Spawn(c)
    <2>0. call[c].fn = "spawn" /\ CallOK(c)
      BY <1>5 DEF Spawn, In, Inv
    <2>1. call[c].t # 0
      <3>1. call[c].t \in 2..nextTid
        BY <2>0 DEF CallOK
      <3> QED
        BY <3>1
    <2>2. PICK v \in Tids : v = call[c].t
      BY <1>0, <2>0, <2>1, CallTid
    <2>3. pc[v] = "none" /\ \A d \in Tids \ {c} : call[d].t # v
      BY <2>0, <2>1, <2>2 DEF CallOK, Inv, UserInv
    <2>4. PICK k : k = [call[c] EXCEPT !.fn = "setattr"]
      OBVIOUS
    <2>5. /\ pc' = [pc EXCEPT ![v] = "spawned"] /\ nthreads' = nthreads
          /\ call' = [call EXCEPT ![c] = k] \/ call' = [call EXCEPT ![c] = NoCall]
      BY <1>5, <2>2, <2>4 DEF Spawn, Goto, ToStep, Return
    <2>6. /\ pc'[v] = "spawned" /\ \A u \in Tids \ {v} : pc'[u] = pc[u]
          /\ call'[c].fn \in {"setattr", "none"} /\ \A d \in Tids \ {c} : call'[d] = call[d]
      <3>1. k.fn = "setattr"
        BY <1>0, <2>4 DEF Call
      <3> QED
        BY <1>0, <2>5, <3>1 DEF BaseType
    <2>7. Made' = Made \ {c} /\ c \in Made
      BY <2>0, <2>6 DEF Made
    <2>8. ~Failing(v) /\ \A u \in Tids : Failing(u)' <=> Failing(u)
      BY <2>0, <2>3, <2>6 DEF Failing
    <2>9. Alive' = Alive \cup {v} /\ v \notin Alive
      BY <2>3, <2>6, <2>8 DEF Alive, Living, Stuck
    <2>10. Cardinality(Made') = Cardinality(Made) - 1
      BY <2>7, CountFinite, FS_RemoveElement
    <2>11. Cardinality(Alive') = Cardinality(Alive) + 1
      BY <2>9, CountFinite, FS_AddElement
    <2> QED
      BY <2>5, <2>10, <2>11, CountFinite DEF CountInv
  <1> QED
    BY <1>1, <1>2, <1>3, <1>4, <1>5

LEMMA CountInit == Init => CountInv
  <1> SUFFICES ASSUME Init PROVE CountInv
    OBVIOUS
  <1>1. Made = {}
    BY DEF Init, Made, NoCall
  <1>2. Alive = {Main}
    BY PthreadsAssumption DEF Init, Alive, Failing, NoCall, Living, Stuck, Main, Tids
  <1>3. Cardinality(Made) = 0 /\ Cardinality(Alive) = 1
    BY <1>1, <1>2, FS_EmptySet, FS_Singleton
  <1> QED
    BY <1>3 DEF Init, CountInv

\* __nptl_nthreads counts the threads that have not begun to exit and the ones being
\* created, through failed clones and failed setups.
THEOREM PthreadsCountExact ==
    ASSUME NoStaleDetach
    PROVE  Spec => []NThreadsExact
  <1>1. Init => CountInv
    BY CountInit
  <1>2. Inv /\ CountInv /\ [Next]_vars => CountInv'
    <2> SUFFICES ASSUME Inv, CountInv, [Next]_vars PROVE CountInv'
      OBVIOUS
    <2>1. CASE UNCHANGED vars
      BY <2>1, CountQuiet DEF vars
    <2>2. ASSUME NEW t \in Tids, FutexWait(t) \/ FutexInterrupted(t) PROVE CountInv'
      <3>1. PICK b \in BOOLEAN : call' = [call EXCEPT ![t].asleep = b]
        BY <2>2 DEF FutexWait, FutexInterrupted
      <3>2. \A d \in Tids : call'[d].fn = call[d].fn /\ call'[d].t = call[d].t
        BY <3>1, AsleepType DEF Inv
      <3>3. UNCHANGED <<pc, nthreads>>
        BY <2>2 DEF FutexWait, FutexInterrupted
      <3> QED
        BY <3>2, <3>3, CountQuiet
    <2>3. CASE MainReturns
      BY <2>3, CountQuiet DEF MainReturns
    <2>4. ASSUME NEW t \in Tids, CallStep(t) PROVE CountInv'
      BY <2>2, <2>4, CountUses, CountMakes DEF CallStep
    <2>5. ASSUME NEW t \in Tids, Program(t) PROVE CountInv'
      BY <2>2, <2>5, CountUses, CountMakes, CountEnters, CountThreads DEF Program
    <2> QED
      BY <2>1, <2>3, <2>4, <2>5, CountThreads DEF Next
  <1>3. CountInv => NThreadsExact
    BY CountIsExact
  <1> QED
    BY <1>1, <1>2, <1>3, PthreadsInvariant, PTL DEF Spec

\* The count never exceeds the ids there are: a thread being created or reaped has an
\* id that is nobody else's.
LEMMA CountBound ==
    ASSUME Inv, CountInv
    PROVE  nthreads \in 0..MaxTid
  <1> DEFINE Clones == {c \in Tids : call[c].fn = "clone"}
             Users  == {c \in Tids : call[c].fn \in {"spawn", "reap"}}
             Ids    == (1..nextTid) \ Alive
             f      == [c \in Users |-> call[c].t]
  <1>0. BaseType /\ nextTid \in Int /\ nextTid >= 1 /\ MaxTid \in Int
    BY TidsFacts, PthreadsAssumption DEF Inv, BaseType
  <1>1. IsFiniteSet(Tids)
    BY PthreadsAssumption, FS_Interval DEF Tids
  <1>2. /\ IsFiniteSet(Clones) /\ Cardinality(Clones) <= Cardinality(Creating)
        /\ IsFiniteSet(Users) /\ Cardinality(Clones) \in Nat /\ Cardinality(Users) \in Nat
    <2>1. Clones \subseteq Creating /\ Users \subseteq Tids
      BY DEF Creating
    <2> QED
      BY <1>1, <2>1, CreatingFinite, FS_Subset, FS_CardinalityType
  <1>3. Cardinality(Made) <= Cardinality(Clones) + Cardinality(Users)
    <2>1. Made = Clones \cup Users /\ IsFiniteSet(Clones \cap Users)
      BY <1>2, FS_Subset DEF Made
    <2>2. Cardinality(Clones \cap Users) \in Nat
      BY <2>1, FS_CardinalityType
    <2>3. Cardinality(Made) = Cardinality(Clones) + Cardinality(Users) - Cardinality(Clones \cap Users)
      BY <1>2, <2>1, FS_Union
    <2> HIDE DEF Clones, Users
    <2> QED
      BY <1>2, <2>2, <2>3
  <1>4. Alive \subseteq 1..nextTid
    <2> SUFFICES ASSUME NEW t \in Alive PROVE t \in 1..nextTid
      OBVIOUS
    <2>1. t \in Tids /\ pc[t] # "none" /\ PcOK(t)
      BY DEF Alive, Living, Stuck, Inv
    <2> QED
      BY <1>0, <2>1, TidsFacts DEF PcOK
  <1>5. /\ IsFiniteSet(Ids) /\ Cardinality(Ids) = nextTid - Cardinality(Alive)
    <2>1. IsFiniteSet(1..nextTid) /\ Cardinality(1..nextTid) = nextTid
      <3>1. /\ IsFiniteSet(1..nextTid)
            /\ Cardinality(1..nextTid) = IF 1 > nextTid THEN 0 ELSE nextTid - 1 + 1
        BY <1>0, FS_Interval
      <3> QED
        BY <1>0, <3>1
    <2>2. (1..nextTid) \cap Alive = Alive
      BY <1>4
    <2> QED
      BY ZenonT(60), <2>1, <2>2, FS_Difference
  <1>6. f \in Injection(Users, Ids)
    <2>1. ASSUME NEW c \in Users PROVE call[c].t \in Ids /\ call[c].t # 0
      <3>1. c \in Tids /\ CallOK(c) /\ call[c].t \in 2..nextTid
        BY DEF Inv, CallOK, OnThread
      <3>2. call[c].t \notin Alive
        <4>1. CASE call[c].fn = "spawn"
          BY <3>1, <4>1 DEF CallOK, Alive, Living, Stuck
        <4>2. CASE call[c].fn = "reap"
          BY <3>1, <4>2 DEF Alive, Failing
        <4> QED
          BY <4>1, <4>2
      <3> QED
        BY <1>0, <3>1, <3>2
    <2>2. \A c, d \in Users : call[c].t = call[d].t => c = d
      BY <2>1 DEF Inv, UserInv
    <2> HIDE DEF Users, Ids
    <2> QED
      BY <2>1, <2>2 DEF Injection, IsInjective
  <1>7. Cardinality(Users) <= Cardinality(Ids)
    <2> HIDE DEF Users, Ids, f
    <2> QED
      BY <1>5, <1>6, FS_Injection
  <1> HIDE DEF Clones, Users, Ids
  <1> QED
    BY <1>0, <1>2, <1>3, <1>5, <1>7, CountFinite, CreatingFinite DEF CountInv, Inv, RoomInv

\* Type correctness; that the count stays within the thread ids rests on the counting
\* invariant above.
THEOREM PthreadsTypeCorrect ==
    ASSUME NoStaleDetach
    PROVE  Spec => []TypeOK
  <1>1. Inv /\ CountInv => TypeOK
    BY CountBound DEF Inv, BaseType, TypeOK
  <1>2. CountInv <=> NThreadsExact
    BY CountIsExact
  <1> QED
    BY <1>1, <1>2, PthreadsInvariant, PthreadsCountExact, PTL
=============================================================================
