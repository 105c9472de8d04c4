--------------------------- MODULE CageLifeProofs ---------------------------
(***************************************************************************)
(* Theorems about CageLife, for any number of cages, threads and signals.  *)
(***************************************************************************)
EXTENDS CageLife, TLAPS, FiniteSetTheorems, SequenceTheorems

-----------------------------------------------------------------------------
(***************************************************************************)
(* Where a thread can be.                                                  *)
(***************************************************************************)
\* Between its registration and lind_thread_exit.
Forking    == {"fork_add", "fork_start"}
Plain      == {"wasm", "wait_any", "wait_pid", "echild", "eg_record", "eg_kill",
               "term_kill", "unwind", "crash"} \cup SigLoop
Registered == Plain \cup Forking

\* In cage_finalize; the first three come before the zombie is left.
Reporting  == {"finalize", "fin_dec", "fin_push"}
Finalizing == Reporting \cup {"fin_signal", "fin_remove", "fin_count"}

\* The cage has, or had, a thread.
Begun(c) == \E t \in Threads : pc[<<c, t>>] # "none"

\* No thread of the cage can still record a status or leave a zombie.
Ended(c) == \A t \in Threads : pc[<<c, t>>] \notin Registered \cup Reporting \cup {"starting"}

-----------------------------------------------------------------------------
(***************************************************************************)
(* The invariant.                                                          *)
(***************************************************************************)
\* A thread that runs is registered in a cage of CAGE_MAP; the one that runs
\* cage_finalize is the only one left; a forking thread has a child that no one
\* else knows.
ThreadInv(c, t) ==
    LET p == <<c, t>>  ch == arg[p].pid IN
    /\ pc[p] \in Registered => c \in cages /\ t \in threads[c]
    /\ pc[p] \in Finalizing => threads[c] = {} /\ (c \in cages <=> pc[p] # "fin_count")
    /\ pc[p] \in {"fin_dec", "fin_push"} => c # INIT_CAGEID
    /\ pc[p] \in Forking =>
          /\ ch \in 2..nextId /\ parent[ch] = c /\ ~Begun(ch)
          /\ ch \in cages <=> pc[p] = "fork_start"
    /\ pc[p] = "starting" => c \in cages /\ threads[c] # {}
    /\ t \in threads[c] => pc[p] \in Registered \cup {"gone"}

TreeInv ==
    /\ parent[INIT_CAGEID] = INIT_CAGEID
    /\ \A x \in 2..nextId : parent[x] \in (1..nextId) \ {x} /\ Begun(parent[x])
    /\ \A x \in Cages : x > nextId => ~Begun(x)

OneFinalizer ==
    \A c \in Cages : \A t, u \in Threads :
        pc[<<c, t>>] \in Finalizing /\ pc[<<c, u>>] \in Finalizing => t = u

\* No two threads fork the same child.
OneChildEach ==
    \A c, d \in Cages, t, u \in Threads :
        /\ pc[<<c, t>>] \in Forking /\ pc[<<d, u>>] \in Forking
        /\ arg[<<c, t>>].pid = arg[<<d, u>>].pid
        => c = d /\ t = u

BaseInv ==
    /\ TypeOK
    /\ \A c \in Cages, t \in Threads : ThreadInv(c, t)
    /\ TreeInv
    /\ OneFinalizer
    /\ OneChildEach

\* A zombie, and a cage that has been reaped, has ended.
Final(c) == IF status[c] = NoStatus THEN "success" ELSE status[c]

ZombieOK(c, z) ==
    LET ch == z.cageid IN
    /\ ch \in 2..nextId /\ parent[ch] = c
    /\ reaped[ch] = 0 /\ Ended(ch) /\ Begun(ch)
    /\ z.exit_code = Final(ch)

ZombieInv(c) ==
    /\ \A i \in 1..Len(zombies[c]) : ZombieOK(c, zombies[c][i])
    /\ \A i, j \in 1..Len(zombies[c]) :
          zombies[c][i].cageid = zombies[c][j].cageid => i = j

ReapInv ==
    \A ch \in Cages : /\ reaped[ch] \in {0, 1}
                      /\ reaped[ch] = 1 => Ended(ch) /\ Begun(ch)

ReportInv ==
    /\ status = first
    /\ \A c \in Cages : ZombieInv(c)
    /\ ReapInv

\* The parent has, or had, the zombie.
Reported(ch) == reaped[ch] > 0 \/ ZombiesOf(parent[ch], ch) # {}

\* cage_finalize removes a cage only after it was reported, unless there is no
\* parent to report to.
KnownInv ==
    /\ UnreapedKnown
    /\ \A c \in Cages, t \in Threads :
          pc[<<c, t>>] \in {"fin_signal", "fin_remove"} =>
              c = INIT_CAGEID \/ parent[c] \notin cages \/ Reported(c)

\* A cage counts from its first thread's start to the end of cage_finalize.
Counted == {c \in Cages : \/ threads[c] # {}
                          \/ \E t \in Threads : pc[<<c, t>>] \in Finalizing}

HostInv ==
    /\ cage_count = Cardinality(Counted)
    /\ \A c \in cages \ Counted :
          \E d \in Cages, t \in Threads :
              pc[<<d, t>>] = "fork_start" /\ arg[<<d, t>>].pid = c

\* The children cage_finalize has not taken off the count.
Unreported(c) == {ch \in Children(c) : /\ reaped[ch] = 0
                                       /\ ZombiesOf(c, ch) = {}
                                       /\ ~SomeAt(ch, "fin_push")}

ChildInv ==
    \A c \in Cages : c \in cages \/ ~Begun(c) =>
        child_num[c] = Cardinality(Unreported(c))

\* Only the main thread's epoch says "signal", and only while there is one.
SignalThread(c, t) ==
    /\ pc[<<c, t>>] \in {"none", "starting"} => epoch[<<c, t>>] = "normal"
    /\ pc[<<c, t>>] \in SigLoop => t = main[c]
    /\ t \in threads[c] /\ epoch[<<c, t>>] = "signal" =>
          /\ t = main[c]
          /\ pending[c] # <<>> \/ pc[<<c, t>>] \in {"sig_check", "sig_reset"}

SignalInv ==
    \A c \in Cages :
        /\ threads[c] # {} => main[c] \in threads[c]
        /\ ~Begun(c) => main[c] = THREAD_START_ID
        /\ \A t \in Threads : SignalThread(c, t)

Inv == BaseInv /\ ReportInv /\ KnownInv /\ HostInv /\ ChildInv /\ SignalInv

-----------------------------------------------------------------------------
(***************************************************************************)
(* Types.                                                                  *)
(***************************************************************************)
\* The initial state has the types.
LEMMA InitType == Init => TypeOK
BY LifeAssumption DEF Init, TypeOK, Cages, Thr, INIT_CAGEID, THREAD_START_ID, NoStatus,
   PcSet, Arg, NoArg, Pids, Signals, ZombieType

\* A signal keeps the types of the queue and of the epoch.
LEMMA SendType ==
    ASSUME TypeOK, NEW d \in Cages, NEW s \in Signals, Send(d, s)
    PROVE  /\ pending' \in [Cages -> Seq(Signals)]
           /\ epoch' \in [Thr -> {"normal", "signal", "killed"}]
<1>1. Triggered(d) \in [Thr -> {"normal", "signal", "killed"}]
  BY DEF TypeOK, Triggered
<1>2. Append(pending[d], s) \in Seq(Signals)
  BY DEF TypeOK
<1> QED
  BY <1>1, <1>2 DEF TypeOK, Send

\* So does a recorded status.
LEMMA RecordType ==
    ASSUME TypeOK, NEW d \in Cages, NEW s \in Statuses, Record(d, s)
    PROVE  /\ status' \in [Cages -> Statuses \cup {NoStatus}]
           /\ first' \in [Cages -> Statuses \cup {NoStatus}]
BY DEF TypeOK, Record

\* Taking a zombie off a list keeps the others, in their order.
LEMMA CutProperties ==
    ASSUME NEW S, NEW z \in Seq(S), NEW i \in 1..Len(z)
    PROVE  LET y == SubSeq(z, 1, i - 1) \o SubSeq(z, i + 1, Len(z)) IN
           /\ y \in Seq(S)
           /\ Len(y) = Len(z) - 1
           /\ \A k \in 1..(Len(z) - 1) : y[k] = IF k < i THEN z[k] ELSE z[k + 1]
<1>1. PICK a : a = SubSeq(z, 1, i - 1)
  OBVIOUS
<1>2. PICK b : b = SubSeq(z, i + 1, Len(z))
  OBVIOUS
<1>3. /\ a \in Seq(S) /\ Len(a) = i - 1
      /\ \A k \in 1..(i - 1) : a[k] = z[k]
  BY <1>1
<1>4. /\ b \in Seq(S) /\ Len(b) = Len(z) - i
      /\ \A k \in 1..(Len(z) - i) : b[k] = z[i + k]
  BY <1>2
<1>5. /\ a \o b \in Seq(S) /\ Len(a \o b) = Len(a) + Len(b)
      /\ \A k \in 1..(Len(a) + Len(b)) :
            (a \o b)[k] = IF k <= Len(a) THEN a[k] ELSE b[k - Len(a)]
  BY <1>3, <1>4, ConcatProperties
<1>6. PICK n \in Nat : n = Len(z)
  OBVIOUS
<1>7. PICK m \in Nat : m = i - 1
  BY <1>6
<1>8. Len(a) = m /\ Len(b) = n - i /\ m + (n - i) = n - 1
  <2>1. Len(a) = m /\ Len(b) = n - i
    BY <1>3, <1>4, <1>6, <1>7
  <2>2. m + (n - i) = n - 1
    BY ONLY i \in 1..Len(z), <1>6, <1>7
  <2> QED
    BY <2>1, <2>2
<1>9. ASSUME NEW k \in 1..(n - 1)
      PROVE  (a \o b)[k] = IF k < i THEN z[k] ELSE z[k + 1]
  <2>1. (a \o b)[k] = IF k <= m THEN a[k] ELSE b[k - m]
    BY <1>5, <1>8
  <2>2. CASE k < i
    BY <1>3, <1>6, <1>7, <2>1, <2>2
  <2>3. CASE ~(k < i)
    <3>1. k - m \in 1..(n - i) /\ i + (k - m) = k + 1 /\ ~(k <= m)
      BY <1>6, <1>7, <2>3
    <3>2. b[k - m] = z[i + (k - m)]
      BY <1>4, <1>6, <3>1
    <3> QED
      BY <2>1, <2>3, <3>1, <3>2
  <2> QED
    BY <2>2, <2>3
<1>10. Len(a \o b) = Len(z) - 1
  BY <1>5, <1>6, <1>8
<1> QED
  BY ONLY <1>1, <1>2, <1>5, <1>6, <1>9, <1>10

\* What waitpid does when it reaps: one entry of the list goes, and its cage is
\* marked.
TakesZombie(c, t, i) ==
    /\ zombies[c][i].cageid \in Cages
    /\ reaped' = [reaped EXCEPT ![zombies[c][i].cageid] = @ + 1]
    /\ reaped' \in [Cages -> Nat]
    /\ zombies' \in [Cages -> Seq(ZombieType)]
    /\ \A d \in Cages \ {c} : zombies'[d] = zombies[d]
    /\ Len(zombies'[c]) = Len(zombies[c]) - 1
    /\ \A k \in 1..(Len(zombies[c]) - 1) :
          zombies'[c][k] = IF k < i THEN zombies[c][k] ELSE zombies[c][k + 1]
    /\ Return(c, t)

\* Reap does that.
LEMMA ReapEffect ==
    ASSUME TypeOK, NEW c \in Cages, NEW t \in Threads, NEW pid, Reap(c, t, pid)
    PROVE  \E i \in 1..Len(zombies[c]) : TakesZombie(c, t, i)
<1>1. PICK i \in Matches(c, pid) :
         /\ zombies' = [zombies EXCEPT ![c] = SubSeq(@, 1, i - 1)
                                                 \o SubSeq(@, i + 1, Len(@))]
         /\ reaped' = [reaped EXCEPT ![zombies[c][i].cageid] = @ + 1]
         /\ Return(c, t)
  BY DEF Reap
<1>2. PICK z : z = zombies[c]
  OBVIOUS
<1>3. z \in Seq(ZombieType) /\ i \in 1..Len(z)
  BY <1>2 DEF TypeOK, Matches
<1>4. PICK y : y = SubSeq(z, 1, i - 1) \o SubSeq(z, i + 1, Len(z))
  OBVIOUS
<1>5. zombies' = [zombies EXCEPT ![c] = y]
  BY <1>1, <1>2, <1>4
<1>6. /\ y \in Seq(ZombieType) /\ Len(y) = Len(z) - 1
      /\ \A k \in 1..(Len(z) - 1) : y[k] = IF k < i THEN z[k] ELSE z[k + 1]
  BY <1>3, <1>4, CutProperties
<1>7. z[i] \in ZombieType
  BY <1>3
<1>8. zombies[c][i].cageid \in Cages
  BY <1>2, <1>7 DEF ZombieType
<1>9. zombies'[c] = y /\ zombies' \in [Cages -> Seq(ZombieType)]
      /\ \A d \in Cages \ {c} : zombies'[d] = zombies[d]
  BY <1>5, <1>6 DEF TypeOK
<1>10. reaped' \in [Cages -> Nat]
  <2>1. PICK ch \in Cages : ch = zombies[c][i].cageid
    BY <1>8
  <2>2. reaped' = [reaped EXCEPT ![ch] = reaped[ch] + 1]
    BY <1>1, <2>1
  <2>3. reaped \in [Cages -> Nat] /\ reaped[ch] + 1 \in Nat
    BY DEF TypeOK
  <2> QED
    BY <2>2, <2>3
<1> QED
  BY <1>1, <1>2, <1>3, <1>6, <1>8, <1>9, <1>10 DEF TakesZombie

\* What a forking thread's call is about is the id it has allocated.
ForkPid == \A p \in Thr : pc[p] \in Forking => arg[p].pid \in 2..nextId

\* Every step keeps the types.
LEMMA NextType == TypeOK /\ ForkPid /\ Next => TypeOK'
<1> SUFFICES ASSUME TypeOK, ForkPid, NEW c \in Cages, NEW t \in Threads,
                    Guest(c, t) \/ Host(c, t)
             PROVE  TypeOK'
  BY DEF Next
<1> USE LifeAssumption
<1>0. /\ <<c, t>> \in Thr /\ arg[<<c, t>>] \in Arg
      /\ NoArg \in Arg /\ THREAD_START_ID \in Threads
  BY DEF TypeOK, Thr, Arg, NoArg, Pids, Signals, THREAD_START_ID
<1>a. ASSUME NEW pid \in Pids
      PROVE  [arg EXCEPT ![<<c, t>>].pid = pid] \in [Thr -> Arg]
  BY <1>0 DEF TypeOK, Arg
<1>b. ASSUME NEW l \in PcSet, Goto(c, t, l) PROVE pc' \in [Thr -> PcSet]
  BY <1>0, <1>b DEF TypeOK, Goto
<1>c. ASSUME Return(c, t) PROVE arg' \in [Thr -> Arg] /\ pc' \in [Thr -> PcSet]
  BY <1>0, <1>c, <1>b DEF TypeOK, Return, PcSet
<1>d. Statuses \cap {NoStatus} = {} /\ {"code", "crash", "signaled"} \subseteq Statuses
      /\ {"CHLD", "TERM"} \subseteq Signals
  BY DEF Statuses, NoStatus, Signals
<1>e. nextId \in Nat /\ nextId >= 1 /\ nextId <= MaxCageId /\ 1..nextId \subseteq Cages
  BY DEF TypeOK, Cages
<1>f. ASSUME At(c, t, "fork_add") \/ At(c, t, "fork_start")
      PROVE  arg[<<c, t>>].pid \in 1..nextId
  <2>1. arg[<<c, t>>].pid \in 2..nextId
    BY <1>0, <1>f DEF At, ForkPid, Forking
  <2> QED
    BY <1>e, <2>1
<1>1. CASE ForkCount(c, t)
  <2>1. nextId + 1 \in Cages /\ nextId + 1 \in Pids
    BY <1>1, <1>e DEF ForkCount, Cages, Pids
  <2>2. (child_num[c] + 1) % Wrap \in 0..(Wrap - 1)
    BY SMTT(30) DEF TypeOK
  <2>3. /\ nextId' \in Cages /\ cages' \subseteq 1..nextId'
        /\ parent' \in [Cages -> Cages] /\ child_num' \in [Cages -> 0..(Wrap - 1)]
    <3>1. /\ nextId' = nextId + 1 /\ cages' = cages
          /\ parent' = [parent EXCEPT ![nextId + 1] = c]
          /\ child_num' = [child_num EXCEPT ![c] = (@ + 1) % Wrap]
      BY <1>1 DEF ForkCount
    <3>2. 1..nextId \subseteq 1..(nextId + 1)
      BY <1>e
    <3> QED
      BY <2>1, <2>2, <3>1, <3>2 DEF TypeOK
  <2>4. arg' \in [Thr -> Arg] /\ pc' \in [Thr -> PcSet]
    BY <1>1, <1>a, <1>b, <2>1 DEF ForkCount, PcSet, Leaving, SigLoop
  <2> QED
    BY <1>1, <2>3, <2>4 DEF ForkCount, TypeOK, treeVars, waitVars, signalVars
<1>2. CASE ForkAdd(c, t)
  <2>1. arg[<<c, t>>].pid \in 1..nextId
    BY <1>2, <1>f DEF ForkAdd
  <2> QED
    BY <1>2, <1>b, <2>1 DEF ForkAdd, TypeOK, treeVars, waitVars, signalVars, PcSet, Leaving, SigLoop
<1>3. CASE ForkStart(c, t)
  <2>1. PICK ch : ch = arg[<<c, t>>].pid
    OBVIOUS
  <2>2. ch \in Cages
    BY <1>3, <1>e, <1>f, <2>1 DEF ForkStart
  <2>3. pc' = [pc EXCEPT ![<<c, t>>] = "wasm", ![<<ch, THREAD_START_ID>>] = ChildRuns(t)]
        /\ threads' = [threads EXCEPT ![ch] = {THREAD_START_ID}]
        /\ arg' = [arg EXCEPT ![<<c, t>>] = NoArg]
    BY <1>3, <2>1 DEF ForkStart
  <2>4. pc' \in [Thr -> PcSet] /\ threads' \in [Cages -> SUBSET Threads]
        /\ arg' \in [Thr -> Arg]
    BY <1>0, <2>2, <2>3 DEF TypeOK, PcSet, ChildRuns
  <2>5. UNCHANGED <<treeVars, cages, waitVars, status, initiated, signalVars, first>>
        /\ cage_count' = cage_count + 1
    BY <1>3 DEF ForkStart
  <2> QED
    BY SMTT(30), <2>4, <2>5 DEF TypeOK, treeVars, waitVars, signalVars
<1>4. ASSUME NEW u \in Threads, Spawn(c, t, u) PROVE TypeOK'
  <2>1. pc' \in [Thr -> PcSet] /\ threads' \in [Cages -> SUBSET Threads]
    BY <1>4, <1>0 DEF Spawn, Goto, TypeOK, PcSet, Thr
  <2> QED
    BY <1>4, <2>1 DEF Spawn, TypeOK, treeVars, waitVars, signalVars
<1>30. CASE Register(c, t)
  <2>1. threads' \in [Cages -> SUBSET Threads]
    BY <1>30 DEF Register, TypeOK
  <2>2. pc' \in [Thr -> PcSet]
    BY <1>30, <1>b DEF Register, PcSet
  <2> QED
    BY <1>30, <2>1, <2>2 DEF Register, TypeOK, treeVars, waitVars, signalVars
<1>5. ASSUME NEW d \in Cages, Kill(c, t, d) PROVE TypeOK'
  <2>1. /\ pending' \in [Cages -> Seq(Signals)]
        /\ epoch' \in [Thr -> {"normal", "signal", "killed"}]
    BY <1>5, <1>d, SendType DEF Kill
  <2>2. /\ UNCHANGED <<treeVars, cages, waitVars, status, initiated, threads, main,
                        pc, arg, cage_count, first>>
        /\ kills' = kills + 1 /\ kills < MaxKills
    BY <1>5 DEF Kill
  <2>3. kills' \in 0..MaxKills
    BY <2>2 DEF TypeOK
  <2> QED
    BY <2>1, <2>2, <2>3 DEF TypeOK, treeVars, waitVars, signalVars
<1>6. CASE Killed(c, t)
  BY <1>6, <1>b DEF Killed, TypeOK, treeVars, waitVars, signalVars, PcSet, Leaving, SigLoop
<1>7. CASE Callback(c, t)
  BY <1>7, <1>b DEF Callback, TypeOK, treeVars, waitVars, signalVars, PcSet, Leaving, SigLoop
<1>8. CASE SigTake(c, t)
  <2>1. CASE c \in cages /\ pending[c] # <<>>
    <3>1. Head(pending[c]) \in Signals /\ Tail(pending[c]) \in Seq(Signals)
      BY <2>1 DEF TypeOK
    <3>2. arg' \in [Thr -> Arg]
      <4>1. [arg[<<c, t>>] EXCEPT !.signo = Head(pending[c])] \in Arg
        BY <1>0, <3>1 DEF Arg
      <4>2. arg' = [arg EXCEPT ![<<c, t>>].signo = Head(pending[c])]
        BY <1>8, <2>1 DEF SigTake
      <4> QED
        BY <1>0, <4>1, <4>2 DEF TypeOK, Arg
    <3> QED
      BY <1>8, <1>b, <2>1, <3>1, <3>2 DEF SigTake, TypeOK, treeVars, waitVars, signalVars, PcSet, Leaving, SigLoop
  <2>2. CASE ~(c \in cages /\ pending[c] # <<>>)
    BY <1>8, <1>b, <2>2 DEF SigTake, TypeOK, treeVars, waitVars, signalVars, PcSet, Leaving, SigLoop
  <2> QED
    BY <2>1, <2>2
<1>9. CASE SigCheck(c, t)
  BY <1>9, <1>b DEF SigCheck, TypeOK, treeVars, waitVars, signalVars, PcSet, Leaving, SigLoop
<1>10. CASE SigReset(c, t)
  <2>1. epoch' \in [Thr -> {"normal", "signal", "killed"}]
    BY <1>10 DEF SigReset, TypeOK
  <2> QED
    BY <1>10, <1>b, <2>1 DEF SigReset, TypeOK, treeVars, waitVars, signalVars, PcSet, Leaving, SigLoop
<1>11. CASE SigRun(c, t)
  <2>1. arg' \in [Thr -> Arg]
    BY <1>11, <1>0 DEF SigRun, TypeOK
  <2>2. CASE arg[<<c, t>>].signo = "TERM"
    BY <1>11, <1>b, <1>d, <2>1, <2>2, RecordType DEF SigRun, TypeOK, treeVars, waitVars, signalVars, PcSet, Leaving, SigLoop
  <2>3. CASE arg[<<c, t>>].signo # "TERM"
    BY <1>11, <1>b, <2>1, <2>3 DEF SigRun, AfterHandler, TypeOK, treeVars, waitVars, signalVars, PcSet, Leaving, SigLoop
  <2> QED
    BY <2>2, <2>3
<1>12. CASE ExitGroup(c, t)
  BY <1>12, <1>b DEF ExitGroup, TypeOK, treeVars, waitVars, signalVars, PcSet, Leaving, SigLoop
<1>13. CASE ExitGroupRecord(c, t)
  BY <1>13, <1>b, <1>d, RecordType DEF ExitGroupRecord, TypeOK, treeVars, waitVars, signalVars, PcSet, Leaving, SigLoop
<1>14. CASE ExitGroupKill(c, t)
  <2>1. epoch' \in [Thr -> {"normal", "signal", "killed"}]
    BY <1>14 DEF ExitGroupKill, KillAll, TypeOK
  <2> QED
    BY <1>14, <1>b, <2>1 DEF ExitGroupKill, TypeOK, treeVars, waitVars, signalVars, PcSet, Leaving, SigLoop
<1>15. CASE ThreadReturns(c, t)
  BY <1>15, <1>b DEF ThreadReturns, TypeOK, treeVars, waitVars, signalVars, PcSet, Leaving, SigLoop
<1>16. CASE CrashThread(c, t)
  BY <1>16, <1>b DEF CrashThread, TypeOK, treeVars, waitVars, signalVars, PcSet, Leaving, SigLoop
<1>17. CASE Crash(c, t)
  BY <1>17, <1>b, <1>d, RecordType DEF Crash, TypeOK, treeVars, waitVars, signalVars, PcSet, Leaving, SigLoop
<1>18. CASE ThreadExit(c, t)
  <2>1. /\ epoch' \in [Thr -> {"normal", "signal", "killed"}]
        /\ main' \in [Cages -> Threads]
    <3>1. CASE c \in cages /\ ~(main[c] # t \/ threads[c] = {t})
      <4>1. PICK u \in threads[c] \ {t} :
               /\ main' = [main EXCEPT ![c] = u]
               /\ epoch' = IF epoch[<<c, t>>] = "signal" /\ epoch[<<c, u>>] # "killed"
                           THEN [epoch EXCEPT ![<<c, u>>] = "signal"] ELSE epoch
        BY <1>18, <3>1 DEF ThreadExit, HandOver
      <4>2. u \in Threads
        BY DEF TypeOK
      <4> QED
        BY <4>1, <4>2 DEF TypeOK
    <3>2. CASE ~(c \in cages /\ ~(main[c] # t \/ threads[c] = {t}))
      <4>1. main' = main /\ epoch' = epoch
        BY <1>18, <3>2 DEF ThreadExit, HandOver
      <4> QED
        BY <4>1 DEF TypeOK
    <3> QED
      BY <3>1, <3>2
  <2>2. threads' \in [Cages -> SUBSET Threads]
    <3>1. threads' = threads \/ threads' = [threads EXCEPT ![c] = @ \ {t}]
      BY <1>18 DEF ThreadExit
    <3>2. threads \in [Cages -> SUBSET Threads] /\ threads[c] \ {t} \in SUBSET Threads
      BY DEF TypeOK
    <3> QED
      BY <3>1, <3>2
  <2> QED
    BY <1>18, <1>b, <2>1, <2>2 DEF ThreadExit, TypeOK, treeVars, waitVars, signalVars, PcSet, Leaving, SigLoop
<1>19. CASE FinLookup(c, t)
  BY <1>19, <1>b DEF FinLookup, TypeOK, treeVars, waitVars, signalVars, PcSet, Leaving, SigLoop
<1>20. CASE FinDec(c, t)
  <2>1. parent[c] \in Cages /\ (child_num[parent[c]] + Wrap - 1) % Wrap \in 0..(Wrap - 1)
    BY SMTT(30) DEF TypeOK
  <2> QED
    BY <1>20, <1>b, <2>1 DEF FinDec, TypeOK, treeVars, waitVars, signalVars, PcSet, Leaving, SigLoop
<1>21. CASE FinPush(c, t)
  <2>1. parent[c] \in Cages /\ Zombie(c) \in ZombieType
    BY <1>d DEF TypeOK, Zombie, ZombieType, Statuses
  <2>2. zombies' \in [Cages -> Seq(ZombieType)]
    BY <1>21, <2>1 DEF FinPush, TypeOK
  <2> QED
    BY <1>21, <1>b, <2>2 DEF FinPush, TypeOK, treeVars, waitVars, signalVars, PcSet, Leaving, SigLoop
<1>22. CASE FinSignal(c, t)
  <2>1. /\ pending' \in [Cages -> Seq(Signals)]
        /\ epoch' \in [Thr -> {"normal", "signal", "killed"}]
    <3>1. parent[c] \in Cages
      BY DEF TypeOK
    <3> QED
      BY <1>22, <1>d, <3>1, SendType DEF FinSignal
  <2> QED
    BY <1>22, <1>b, <2>1 DEF FinSignal, TypeOK, treeVars, waitVars, signalVars, PcSet, Leaving, SigLoop
<1>23. CASE FinRemove(c, t)
  BY <1>23, <1>b DEF FinRemove, TypeOK, treeVars, waitVars, signalVars, PcSet, Leaving, SigLoop
<1>24. CASE FinCount(c, t)
  BY SMTT(30), <1>24, <1>b DEF FinCount, TypeOK, treeVars, waitVars, signalVars, PcSet, Leaving, SigLoop
<1>25. ASSUME NEW pid \in Pids, WaitReaps(c, t, pid) PROVE TypeOK'
  <2>1. Reap(c, t, pid)
    BY <1>25 DEF WaitReaps
  <2>2. /\ zombies' \in [Cages -> Seq(ZombieType)] /\ Return(c, t)
        /\ reaped' \in [Cages -> Nat]
    <3>1. PICK i \in 1..Len(zombies[c]) :
             /\ reaped' \in [Cages -> Nat]
             /\ zombies' \in [Cages -> Seq(ZombieType)] /\ Return(c, t)
      BY <2>1, ReapEffect DEF TakesZombie
    <3> QED
      BY <3>1
  <2> QED
    BY <1>25, <1>c, <2>2 DEF WaitReaps, TypeOK, treeVars, waitVars, signalVars
<1>26. ASSUME NEW pid \in Pids, WaitFails(c, t, pid) PROVE TypeOK'
  BY <1>26, <1>a, <1>b DEF WaitFails, TypeOK, treeVars, waitVars, signalVars, PcSet, Leaving, SigLoop
<1>27. ASSUME NEW pid \in Pids, NEW nohang \in Options, WaitBlocks(c, t, pid, nohang) PROVE TypeOK'
  <2>1. arg' \in [Thr -> Arg]
    <3>1. [arg[<<c, t>>] EXCEPT !.pid = pid, !.nohang = nohang] \in Arg
      BY <1>0 DEF Arg
    <3> QED
      BY <1>27, <1>0, <3>1 DEF WaitBlocks, TypeOK, Arg
  <2> QED
    BY <1>27, <1>b, <2>1 DEF WaitBlocks, TypeOK, treeVars, waitVars, signalVars, PcSet, Leaving, SigLoop
<1>28. CASE WaitLoop(c, t)
  <2>1. PICK pid : pid = arg[<<c, t>>].pid
    OBVIOUS
  <2>2. CASE Reap(c, t, pid)
    <3>1. /\ zombies' \in [Cages -> Seq(ZombieType)] /\ Return(c, t)
          /\ reaped' \in [Cages -> Nat]
      <4>1. PICK i \in 1..Len(zombies[c]) :
               /\ reaped' \in [Cages -> Nat]
               /\ zombies' \in [Cages -> Seq(ZombieType)] /\ Return(c, t)
        BY <2>2, ReapEffect DEF TakesZombie
      <4> QED
        BY <4>1
    <3> QED
      BY <1>28, <1>c, <3>1 DEF WaitLoop, TypeOK, treeVars, waitVars, signalVars
  <2>3. CASE ~Reap(c, t, pid)
    BY <1>28, <1>c, <2>1, <2>3 DEF WaitLoop, TypeOK, treeVars, waitVars, signalVars
  <2> QED
    BY <2>2, <2>3
<1>29. CASE EchildReturns(c, t)
  BY <1>29, <1>c DEF EchildReturns, TypeOK, treeVars, waitVars, signalVars
<1> QED
  BY <1>1, <1>2, <1>3, <1>4, <1>5, <1>6, <1>7, <1>8, <1>9, <1>10, <1>11, <1>12, <1>13, <1>14, <1>15,
     <1>16, <1>17, <1>18, <1>19, <1>20, <1>21, <1>22, <1>23, <1>24, <1>25, <1>26, <1>27, <1>28, <1>29, <1>30
  DEF Guest, Host, EpochCheck

-----------------------------------------------------------------------------
(***************************************************************************)
(* Kinds of steps.                                                         *)
(***************************************************************************)
\* Only the position and the call of one thread change.
Local(c, t) ==
    /\ pc[<<c, t>>] # "none" /\ pc'[<<c, t>>] # "none"
    /\ \A p \in Thr \ {<<c, t>>} : pc'[p] = pc[p] /\ arg'[p] = arg[p]

\* A registered thread goes on; it may record a status of its cage.
Move(c, t) ==
    /\ Local(c, t)
    /\ pc[<<c, t>>] \in Plain /\ pc'[<<c, t>>] \in Plain
    /\ UNCHANGED <<treeVars, cages, waitVars, threads, cage_count>>
    /\ \/ UNCHANGED <<status, first>>
       \/ \E s \in Statuses : Record(c, s)

\* waitpid takes a zombie.
ReapMove(c, t) ==
    /\ Local(c, t)
    /\ pc[<<c, t>>] \in Plain /\ pc'[<<c, t>>] = "wasm"
    /\ \E pid \in Pids : Reap(c, t, pid)
    /\ UNCHANGED <<treeVars, cages, child_num, threads, cage_count, status, first>>

\* What the steps have in common.
LEMMA GotoLocal ==
    ASSUME TypeOK, NEW c \in Cages, NEW t \in Threads, NEW l \in PcSet \ {"none"},
           pc[<<c, t>>] # "none", Goto(c, t, l),
           \A p \in Thr \ {<<c, t>>} : arg'[p] = arg[p]
    PROVE  Local(c, t) /\ pc'[<<c, t>>] = l
<1>1. <<c, t>> \in Thr
  BY DEF Thr
<1>2. pc'[<<c, t>>] = l /\ \A p \in Thr \ {<<c, t>>} : pc'[p] = pc[p]
  BY <1>1 DEF TypeOK, Goto
<1> QED
  BY <1>2 DEF Local

\* So does a return to Wasm.
LEMMA ReturnLocal ==
    ASSUME TypeOK, NEW c \in Cages, NEW t \in Threads,
           pc[<<c, t>>] # "none", Return(c, t)
    PROVE  Local(c, t) /\ pc'[<<c, t>>] = "wasm"
<1>1. Goto(c, t, "wasm") /\ \A p \in Thr \ {<<c, t>>} : arg'[p] = arg[p]
  BY DEF Return, TypeOK, Thr
<1> QED
  BY <1>1, GotoLocal DEF PcSet

\* The other kinds of steps, of those that a thread makes.
Other(c, t) ==
    \/ ForkCount(c, t) \/ ForkAdd(c, t) \/ ForkStart(c, t)
    \/ \E u \in Threads : Spawn(c, t, u)
    \/ Register(c, t)
    \/ CrashThread(c, t) \/ ThreadExit(c, t)
    \/ FinLookup(c, t) \/ FinDec(c, t) \/ FinPush(c, t) \/ FinSignal(c, t)
    \/ FinRemove(c, t) \/ FinCount(c, t)

\* Every step is of one of these kinds.
LEMMA StepKinds ==
    ASSUME TypeOK, NEW c \in Cages, NEW t \in Threads, Guest(c, t) \/ Host(c, t)
    PROVE  Move(c, t) \/ ReapMove(c, t) \/ Other(c, t)
<1>0. <<c, t>> \in Thr /\ {"code", "crash", "signaled"} \subseteq Statuses
  BY DEF Thr, Statuses
<1>a. ASSUME NEW a, arg' = [arg EXCEPT ![<<c, t>>] = a]
      PROVE  \A p \in Thr \ {<<c, t>>} : arg'[p] = arg[p]
  BY <1>0, <1>a DEF TypeOK
<1>1. ASSUME NEW d \in Cages, Kill(c, t, d) PROVE Move(c, t)
  <2>1. Local(c, t) /\ pc[<<c, t>>] = "wasm" /\ pc'[<<c, t>>] = "wasm"
    BY <1>1 DEF Kill, At, Local
  <2> QED
    BY <1>1, <2>1 DEF Kill, Move, Plain
<1>2. ASSUME Killed(c, t) PROVE Move(c, t)
  <2>1. Local(c, t) /\ pc[<<c, t>>] = "wasm" /\ pc'[<<c, t>>] = "unwind"
    <3>1. pc[<<c, t>>] = "wasm" /\ UNCHANGED arg
      BY <1>2 DEF Killed, At
    <3> QED
      BY <1>2, <3>1, GotoLocal DEF Killed, At, PcSet, SigLoop, Leaving
  <2> QED
    BY <1>2, <1>0, <2>1 DEF Killed, Move, Plain, SigLoop
<1>3. ASSUME Callback(c, t) PROVE Move(c, t)
  <2>1. Local(c, t) /\ pc[<<c, t>>] = "wasm" /\ pc'[<<c, t>>] = "sig"
    <3>1. pc[<<c, t>>] = "wasm" /\ UNCHANGED arg
      BY <1>3 DEF Callback, At
    <3> QED
      BY <1>3, <3>1, GotoLocal DEF Callback, At, PcSet, SigLoop, Leaving
  <2> QED
    BY <1>3, <1>0, <2>1 DEF Callback, Move, Plain, SigLoop
<1>4. ASSUME SigTake(c, t) PROVE Move(c, t)
  <2>1. pc[<<c, t>>] = "sig"
    BY <1>4 DEF SigTake, At
  <2>2. \A p \in Thr \ {<<c, t>>} : arg'[p] = arg[p]
    BY <1>4, <1>a DEF SigTake, TypeOK
  <2>3. Goto(c, t, "sig_check") \/ Goto(c, t, "wasm")
    BY <1>4 DEF SigTake
  <2>4. Local(c, t) /\ pc'[<<c, t>>] \in {"sig_check", "wasm"}
    BY <2>1, <2>2, <2>3, GotoLocal DEF PcSet, SigLoop
  <2> QED
    BY <1>4, <2>1, <2>4 DEF SigTake, Move, Plain, SigLoop, waitVars, treeVars
<1>5. ASSUME SigCheck(c, t) PROVE Move(c, t)
  <2>1. Local(c, t) /\ pc[<<c, t>>] = "sig_check" /\ pc'[<<c, t>>] \in {"sig_reset", "sig_run"}
    <3>1. pc[<<c, t>>] = "sig_check" /\ UNCHANGED arg
      BY <1>5 DEF SigCheck, At
    <3> QED
      BY <1>5, <3>1, GotoLocal DEF SigCheck, At, PcSet, SigLoop, Leaving
  <2> QED
    BY <1>5, <1>0, <2>1 DEF SigCheck, Move, Plain, SigLoop
<1>6. ASSUME SigReset(c, t) PROVE Move(c, t)
  <2>1. Local(c, t) /\ pc[<<c, t>>] = "sig_reset" /\ pc'[<<c, t>>] = "sig_run"
    <3>1. pc[<<c, t>>] = "sig_reset" /\ UNCHANGED arg
      BY <1>6 DEF SigReset, At
    <3> QED
      BY <1>6, <3>1, GotoLocal DEF SigReset, At, PcSet, SigLoop, Leaving
  <2> QED
    BY <1>6, <1>0, <2>1 DEF SigReset, Move, Plain, SigLoop
<1>7. ASSUME SigRun(c, t) PROVE Move(c, t)
  <2>1. pc[<<c, t>>] = "sig_run"
    BY <1>7 DEF SigRun, At
  <2>2. \A p \in Thr \ {<<c, t>>} : arg'[p] = arg[p]
    BY <1>7, <1>a DEF SigRun
  <2>3. Goto(c, t, "term_kill") \/ Goto(c, t, "sig")
    BY <1>7 DEF SigRun, AfterHandler
  <2>4. Local(c, t) /\ pc'[<<c, t>>] \in {"term_kill", "sig"}
    BY <2>1, <2>2, <2>3, GotoLocal DEF PcSet, SigLoop, Leaving
  <2>5. UNCHANGED <<status, first>> \/ Record(c, "signaled")
    BY <1>7 DEF SigRun
  <2> QED
    BY <1>7, <1>0, <2>1, <2>4, <2>5 DEF SigRun, Move, Plain, SigLoop, waitVars, treeVars
<1>8. ASSUME ExitGroup(c, t) PROVE Move(c, t)
  <2>1. Local(c, t) /\ pc[<<c, t>>] = "wasm" /\ pc'[<<c, t>>] \in {"eg_record", "unwind"}
    <3>1. pc[<<c, t>>] = "wasm" /\ UNCHANGED arg
      BY <1>8 DEF ExitGroup, At
    <3> QED
      BY <1>8, <3>1, GotoLocal DEF ExitGroup, At, PcSet, SigLoop, Leaving
  <2> QED
    BY <1>8, <1>0, <2>1 DEF ExitGroup, Move, Plain, SigLoop
<1>9. ASSUME ExitGroupRecord(c, t) PROVE Move(c, t)
  <2>1. Local(c, t) /\ pc[<<c, t>>] = "eg_record" /\ pc'[<<c, t>>] = "eg_kill"
    <3>1. pc[<<c, t>>] = "eg_record" /\ UNCHANGED arg
      BY <1>9 DEF ExitGroupRecord, At
    <3> QED
      BY <1>9, <3>1, GotoLocal DEF ExitGroupRecord, At, PcSet, SigLoop, Leaving
  <2> QED
    BY <1>9, <1>0, <2>1 DEF ExitGroupRecord, Move, Plain, SigLoop
<1>10. ASSUME ExitGroupKill(c, t) PROVE Move(c, t)
  <2>1. Local(c, t) /\ pc[<<c, t>>] \in {"eg_kill", "term_kill"} /\ pc'[<<c, t>>] = "unwind"
    <3>1. pc[<<c, t>>] \in {"eg_kill", "term_kill"} /\ UNCHANGED arg
      BY <1>10 DEF ExitGroupKill, At
    <3> QED
      BY <1>10, <3>1, GotoLocal DEF ExitGroupKill, At, PcSet, SigLoop, Leaving
  <2> QED
    BY <1>10, <1>0, <2>1 DEF ExitGroupKill, Move, Plain, SigLoop
<1>11. ASSUME ThreadReturns(c, t) PROVE Move(c, t)
  <2>1. Local(c, t) /\ pc[<<c, t>>] = "wasm" /\ pc'[<<c, t>>] = "unwind"
    <3>1. pc[<<c, t>>] = "wasm" /\ UNCHANGED arg
      BY <1>11 DEF ThreadReturns, At
    <3> QED
      BY <1>11, <3>1, GotoLocal DEF ThreadReturns, At, PcSet, SigLoop, Leaving
  <2> QED
    BY <1>11, <1>0, <2>1 DEF ThreadReturns, Move, Plain, SigLoop
<1>12. ASSUME Crash(c, t) PROVE Move(c, t)
  <2>1. Local(c, t) /\ pc[<<c, t>>] = "wasm" /\ pc'[<<c, t>>] = "crash"
    <3>1. pc[<<c, t>>] = "wasm" /\ UNCHANGED arg
      BY <1>12 DEF Crash, At
    <3> QED
      BY <1>12, <3>1, GotoLocal DEF Crash, At, PcSet, SigLoop, Leaving
  <2> QED
    BY <1>12, <1>0, <2>1 DEF Crash, Move, Plain, SigLoop
<1>13. ASSUME NEW pid \in Pids, WaitReaps(c, t, pid) PROVE ReapMove(c, t)
  <2>1. pc[<<c, t>>] = "wasm" /\ Reap(c, t, pid)
    BY <1>13 DEF WaitReaps, At
  <2>2. Local(c, t) /\ pc'[<<c, t>>] = "wasm"
    BY <2>1, ReturnLocal DEF Reap
  <2> QED
    BY <1>13, <2>1, <2>2 DEF WaitReaps, ReapMove, Plain
<1>14. ASSUME NEW pid \in Pids, WaitFails(c, t, pid) PROVE Move(c, t)
  <2>1. pc[<<c, t>>] = "wasm" /\ Goto(c, t, "echild")
    BY <1>14 DEF WaitFails, At
  <2>2. \A p \in Thr \ {<<c, t>>} : arg'[p] = arg[p]
    BY <1>14, <1>0 DEF WaitFails, TypeOK
  <2>3. Local(c, t) /\ pc'[<<c, t>>] = "echild"
    BY <2>1, <2>2, GotoLocal DEF PcSet
  <2> QED
    BY <1>14, <2>1, <2>3 DEF WaitFails, Move, Plain, waitVars, treeVars
<1>15. ASSUME NEW pid \in Pids, NEW nohang \in Options, WaitBlocks(c, t, pid, nohang) PROVE Move(c, t)
  <2>1. pc[<<c, t>>] = "wasm" /\ (Goto(c, t, "wait_any") \/ Goto(c, t, "wait_pid"))
    BY <1>15 DEF WaitBlocks, At
  <2>2. \A p \in Thr \ {<<c, t>>} : arg'[p] = arg[p]
    BY <1>15, <1>0 DEF WaitBlocks, TypeOK
  <2>3. Local(c, t) /\ pc'[<<c, t>>] \in {"wait_any", "wait_pid"}
    BY <2>1, <2>2, GotoLocal DEF PcSet
  <2> QED
    BY <1>15, <2>1, <2>3 DEF WaitBlocks, Move, Plain, waitVars, treeVars
<1>16. ASSUME WaitLoop(c, t) PROVE Move(c, t) \/ ReapMove(c, t)
  <2>1. PICK pid \in Pids : pid = arg[<<c, t>>].pid
    <3>1. arg[<<c, t>>] \in Arg
      BY <1>0 DEF TypeOK
    <3> QED
      BY <3>1 DEF Arg
  <2>2. pc[<<c, t>>] \in {"wait_any", "wait_pid"}
    BY <1>16 DEF WaitLoop, At
  <2>3. Local(c, t) /\ pc'[<<c, t>>] = "wasm"
    <3>1. Return(c, t)
      BY <1>16 DEF WaitLoop, Reap
    <3> QED
      BY <2>2, <3>1, ReturnLocal
  <2>4. CASE Reap(c, t, pid)
    BY <1>16, <2>2, <2>3, <2>4 DEF WaitLoop, ReapMove, Plain
  <2>5. CASE ~Reap(c, t, pid)
    <3>1. UNCHANGED <<zombies, reaped>>
      BY <1>16, <2>1, <2>5 DEF WaitLoop
    <3> QED
      BY <1>16, <2>2, <2>3, <3>1 DEF WaitLoop, Move, Plain, waitVars, treeVars
  <2> QED
    BY <2>4, <2>5
<1>17. ASSUME EchildReturns(c, t) PROVE Move(c, t)
  <2>1. pc[<<c, t>>] = "echild" /\ Return(c, t)
    BY <1>17 DEF EchildReturns, At
  <2>2. Local(c, t) /\ pc'[<<c, t>>] = "wasm"
    BY <2>1, ReturnLocal
  <2> QED
    BY <1>17, <2>1, <2>2 DEF EchildReturns, Move, Plain
<1> QED
  BY <1>1, <1>2, <1>3, <1>4, <1>5, <1>6, <1>7, <1>8, <1>9, <1>10, <1>11, <1>12, <1>13, <1>14, <1>15, <1>16, <1>17
  DEF Guest, Host, EpochCheck, Other

\* The id a forking thread has allocated stays in range.
LEMMA NextForkPid == TypeOK /\ ForkPid /\ Next => ForkPid'
<1> SUFFICES ASSUME TypeOK, ForkPid, NEW c \in Cages, NEW t \in Threads,
                    Guest(c, t) \/ Host(c, t)
             PROVE  ForkPid'
  BY DEF Next
<1>0. /\ <<c, t>> \in Thr /\ nextId \in Nat /\ nextId >= 1
      /\ pc \in [Thr -> PcSet] /\ arg \in [Thr -> Arg]
  <2>1. nextId \in 1..MaxCageId /\ pc \in [Thr -> PcSet] /\ arg \in [Thr -> Arg]
    BY DEF TypeOK, Cages
  <2>2. <<c, t>> \in Thr
    BY DEF Thr
  <2> QED
    BY <2>1, <2>2, LifeAssumption
<1>1. Move(c, t) \/ ReapMove(c, t) \/ Other(c, t)
  BY StepKinds
<1>2. ASSUME nextId' = nextId,
             \A p \in Thr : pc'[p] \in Forking => pc[p] \in Forking /\ arg'[p].pid = arg[p].pid
      PROVE  ForkPid'
  BY <1>2 DEF ForkPid
<1>3. CASE Move(c, t) \/ ReapMove(c, t)
  <2>1. Local(c, t) /\ pc'[<<c, t>>] \in Plain /\ nextId' = nextId
    BY <1>3 DEF Move, ReapMove, Plain, treeVars
  <2>2. \A p \in Thr : pc'[p] \in Forking => pc[p] \in Forking /\ arg'[p].pid = arg[p].pid
    BY <2>1 DEF Local, Plain, SigLoop, Forking
  <2> QED
    BY <1>2, <2>1, <2>2
<1>4. CASE ForkCount(c, t)
  <2>1. /\ nextId' = nextId + 1
        /\ arg' = [arg EXCEPT ![<<c, t>>].pid = nextId + 1]
        /\ pc' = [pc EXCEPT ![<<c, t>>] = "fork_add"]
    BY <1>4 DEF ForkCount, Goto
  <2>2. arg[<<c, t>>] \in Arg
    BY <1>0
  <2>3. arg'[<<c, t>>].pid = nextId + 1
    BY <1>0, <2>1, <2>2 DEF Arg
  <2>4. \A p \in Thr \ {<<c, t>>} : pc'[p] = pc[p] /\ arg'[p] = arg[p]
    BY <1>0, <2>1
  <2>5. ASSUME NEW p \in Thr, pc'[p] \in Forking PROVE arg'[p].pid \in 2..nextId'
    <3>1. CASE p = <<c, t>>
      BY <1>0, <2>1, <2>3, <3>1
    <3>2. CASE p # <<c, t>>
      <4>1. pc[p] \in Forking /\ arg'[p].pid = arg[p].pid
        BY <2>4, <2>5, <3>2
      <4>2. arg[p].pid \in 2..nextId
        BY <4>1 DEF ForkPid
      <4> QED
        BY <1>0, <2>1, <4>1, <4>2
    <3> QED
      BY <3>1, <3>2
  <2> QED
    BY <2>5 DEF ForkPid
<1>5. CASE ForkAdd(c, t)
  <2>1. pc[<<c, t>>] = "fork_add" /\ pc' = [pc EXCEPT ![<<c, t>>] = "fork_start"]
        /\ arg' = arg /\ nextId' = nextId
    BY <1>5 DEF ForkAdd, At, Goto, treeVars
  <2>2. \A p \in Thr : pc'[p] \in Forking => pc[p] \in Forking /\ arg'[p].pid = arg[p].pid
    BY <1>0, <2>1 DEF Forking
  <2> QED
    BY <1>2, <2>1, <2>2
<1>6. CASE ForkStart(c, t)
  <2>1. PICK ch : pc' = [pc EXCEPT ![<<c, t>>] = "wasm",
                                  ![<<ch, THREAD_START_ID>>] = ChildRuns(t)]
    BY <1>6 DEF ForkStart
  <2>2. arg' = [arg EXCEPT ![<<c, t>>] = NoArg] /\ nextId' = nextId
    BY <1>6 DEF ForkStart, treeVars
  <2>3. ASSUME NEW p \in Thr, pc'[p] \in Forking PROVE pc'[p] = pc[p] /\ arg'[p] = arg[p]
    <3>1. {"wasm", "gone"} \cap Forking = {} /\ ChildRuns(t) \in {"wasm", "gone"}
      BY DEF Forking, ChildRuns
    <3> QED
      BY <1>0, <2>1, <2>2, <2>3, <3>1
  <2>4. \A p \in Thr : pc'[p] \in Forking => pc[p] \in Forking /\ arg'[p].pid = arg[p].pid
    BY <2>3
  <2> QED
    BY <1>2, <2>2, <2>4
<1>7. CASE \/ \E u \in Threads : Spawn(c, t, u)
           \/ Register(c, t) \/ CrashThread(c, t) \/ ThreadExit(c, t)
           \/ FinLookup(c, t) \/ FinDec(c, t) \/ FinPush(c, t) \/ FinSignal(c, t)
           \/ FinRemove(c, t) \/ FinCount(c, t)
  <2>1. PICK u \in Threads, l \in {"starting", "wasm", "gone", "finalize", "fin_dec",
                "fin_push", "fin_signal", "fin_remove", "fin_count"} :
           pc' = [pc EXCEPT ![<<c, u>>] = l]
    BY <1>7 DEF Spawn, Register, CrashThread, ThreadExit, FinLookup, FinDec, FinPush, FinSignal,
       FinRemove, FinCount, Goto
  <2>2. arg' = arg /\ nextId' = nextId
    BY <1>7 DEF Spawn, Register, CrashThread, ThreadExit, FinLookup, FinDec, FinPush, FinSignal,
       FinRemove, FinCount, treeVars
  <2>3. \A p \in Thr : pc'[p] \in Forking => pc[p] \in Forking /\ arg'[p].pid = arg[p].pid
    BY <1>0, <2>1, <2>2 DEF Forking
  <2> QED
    BY <1>2, <2>2, <2>3
<1> QED
  BY <1>1, <1>3, <1>4, <1>5, <1>6, <1>7 DEF Other

-----------------------------------------------------------------------------
(***************************************************************************)
(* Threads and cages.                                                      *)
(***************************************************************************)
\* Allocated ids are ids.
LEMMA Ids ==
    ASSUME TypeOK
    PROVE  /\ nextId \in Nat /\ nextId >= 1 /\ nextId <= MaxCageId /\ MaxCageId \in Nat
           /\ \A x \in 1..nextId : x \in Cages
           /\ \A x \in 2..nextId : x \in Cages /\ x \in 1..nextId /\ x # INIT_CAGEID
           /\ \A x \in cages : x \in 1..nextId
<1>1. nextId \in 1..MaxCageId /\ MaxCageId \in Nat /\ cages \subseteq 1..nextId
  BY LifeAssumption DEF TypeOK, Cages
<1> QED
  BY <1>1 DEF Cages, INIT_CAGEID

\* A step of a running thread begins no other cage.
LEMMA BegunSame ==
    ASSUME NEW c \in Cages, NEW t \in Threads,
           pc[<<c, t>>] # "none", pc'[<<c, t>>] # "none",
           \A d \in Cages \ {c}, u \in Threads : pc'[<<d, u>>] = pc[<<d, u>>]
    PROVE  \A d \in Cages : Begun(d)' <=> Begun(d)
<1> SUFFICES ASSUME NEW d \in Cages PROVE Begun(d)' <=> Begun(d)
  OBVIOUS
<1>1. CASE d = c
  BY <1>1 DEF Begun
<1>2. CASE d # c
  BY <1>2 DEF Begun
<1> QED
  BY <1>1, <1>2

\* The same for a local step, with what it leaves alone.
LEMMA LocalSame ==
    ASSUME NEW c \in Cages, NEW t \in Threads, Local(c, t)
    PROVE  /\ \A d \in Cages : Begun(d)' <=> Begun(d)
           /\ \A d \in Cages, u \in Threads :
                 d # c \/ u # t => /\ pc'[<<d, u>>] = pc[<<d, u>>]
                                  /\ arg'[<<d, u>>] = arg[<<d, u>>]
<1>1. \A d \in Cages, u \in Threads :
         d # c \/ u # t => pc'[<<d, u>>] = pc[<<d, u>>] /\ arg'[<<d, u>>] = arg[<<d, u>>]
  BY DEF Local, Thr
<1>2. pc[<<c, t>>] # "none" /\ pc'[<<c, t>>] # "none"
  BY DEF Local
<1>3. \A d \in Cages : Begun(d)' <=> Begun(d)
  BY ZenonT(60), <1>1, <1>2, BegunSame
<1> QED
  BY <1>1, <1>3

\* A local step that leaves the tables alone keeps the invariant if its own
\* thread keeps it.
LEMMA QuietBase ==
    ASSUME BaseInv, TypeOK', OneChildEach', NEW c \in Cages, NEW t \in Threads, Local(c, t),
           UNCHANGED <<nextId, parent, cages, threads>>,
           ThreadInv(c, t)',
           pc'[<<c, t>>] \in Finalizing => pc[<<c, t>>] \in Finalizing
    PROVE  BaseInv'
<1>1. /\ \A d \in Cages : Begun(d)' <=> Begun(d)
      /\ \A d \in Cages, u \in Threads :
            d # c \/ u # t => pc'[<<d, u>>] = pc[<<d, u>>] /\ arg'[<<d, u>>] = arg[<<d, u>>]
  BY LocalSame
<1>2. ASSUME NEW d \in Cages, NEW u \in Threads PROVE ThreadInv(d, u)'
  <2>1. CASE d = c /\ u = t
    BY <2>1
  <2>2. CASE d # c \/ u # t
    <3>1. pc'[<<d, u>>] = pc[<<d, u>>] /\ arg'[<<d, u>>] = arg[<<d, u>>]
      BY <1>1, <2>2
    <3>2. ThreadInv(d, u)
      BY DEF BaseInv
    <3>3. pc[<<d, u>>] \in Forking => (~Begun(arg[<<d, u>>].pid))'
      <4>1. pc[<<d, u>>] \in Forking => arg[<<d, u>>].pid \in Cages /\ ~Begun(arg[<<d, u>>].pid)
        BY <3>2, Ids DEF ThreadInv, BaseInv
      <4> QED
        BY <1>1, <3>1, <4>1
    <3> QED
      BY <3>1, <3>2, <3>3 DEF ThreadInv
  <2> QED
    BY <2>1, <2>2
<1>3. TreeInv'
  <2>1. TreeInv /\ \A x \in 2..nextId : parent[x] \in Cages
    BY Ids DEF BaseInv, TreeInv
  <2> QED
    BY <1>1, <2>1 DEF TreeInv
<1>4. OneFinalizer'
  <2>1. ASSUME NEW d \in Cages, NEW u \in Threads, pc'[<<d, u>>] \in Finalizing
        PROVE  pc[<<d, u>>] \in Finalizing
    BY <1>1, <2>1
  <2>2. OneFinalizer
    BY DEF BaseInv
  <2> QED
    BY <2>1, <2>2 DEF OneFinalizer
<1> QED
  BY <1>2, <1>3, <1>4 DEF BaseInv

\* Steps of a running thread that change no table.
LEMMA MoveBase ==
    ASSUME BaseInv, TypeOK', OneChildEach', NEW c \in Cages, NEW t \in Threads,
           Move(c, t) \/ ReapMove(c, t) \/ CrashThread(c, t)
    PROVE  BaseInv'
<1>1. Local(c, t) /\ pc[<<c, t>>] \in Plain /\ pc'[<<c, t>>] \in Plain \cup {"gone"}
      /\ UNCHANGED <<nextId, parent, cages, threads>>
  <2>1. CASE Move(c, t)
    BY <2>1 DEF Move, treeVars
  <2>2. CASE ReapMove(c, t)
    BY <2>2 DEF ReapMove, Plain, treeVars
  <2>3. CASE CrashThread(c, t)
    <3>1. pc[<<c, t>>] = "wasm" /\ UNCHANGED arg /\ Goto(c, t, "gone")
      BY <2>3 DEF CrashThread, At
    <3>2. Local(c, t) /\ pc'[<<c, t>>] = "gone"
      BY <3>1, GotoLocal DEF PcSet, BaseInv
    <3> QED
      BY <2>3, <3>1, <3>2 DEF CrashThread, Plain, treeVars
  <2> QED
    BY <2>1, <2>2, <2>3
<1>2. ThreadInv(c, t)
  BY DEF BaseInv
<1>3. ThreadInv(c, t)'
  BY <1>1, <1>2 DEF ThreadInv, Plain, SigLoop, Registered, Forking, Finalizing, Reporting
<1>4. pc'[<<c, t>>] \notin Finalizing
  BY <1>1 DEF Plain, SigLoop, Finalizing, Reporting
<1> QED
  BY <1>1, <1>3, <1>4, QuietBase

\* Steps of cage_finalize that leave the cage in CAGE_MAP, and the last one.
LEMMA FinBase ==
    ASSUME BaseInv, TypeOK', OneChildEach', NEW c \in Cages, NEW t \in Threads,
           FinLookup(c, t) \/ FinDec(c, t) \/ FinPush(c, t) \/ FinSignal(c, t) \/ FinCount(c, t)
    PROVE  BaseInv'
<1>1. /\ UNCHANGED <<nextId, parent, cages, threads, arg>>
      /\ \/ pc[<<c, t>>] = "finalize" /\ c \in cages /\ parent[c] # c /\ Goto(c, t, "fin_dec")
         \/ pc[<<c, t>>] = "finalize" /\ Goto(c, t, "fin_signal")
         \/ pc[<<c, t>>] = "finalize" /\ Goto(c, t, "fin_remove")
         \/ pc[<<c, t>>] = "fin_dec" /\ Goto(c, t, "fin_push")
         \/ pc[<<c, t>>] = "fin_push" /\ Goto(c, t, "fin_signal")
         \/ pc[<<c, t>>] = "fin_signal" /\ Goto(c, t, "fin_remove")
         \/ pc[<<c, t>>] = "fin_count" /\ Goto(c, t, "gone")
  <2>1. CASE FinLookup(c, t)
    BY <2>1 DEF FinLookup, At, treeVars
  <2>2. CASE FinDec(c, t)
    BY <2>2 DEF FinDec, At, treeVars
  <2>3. CASE FinPush(c, t)
    BY <2>3 DEF FinPush, At, treeVars
  <2>4. CASE FinSignal(c, t)
    BY <2>4 DEF FinSignal, At, treeVars
  <2>5. CASE FinCount(c, t)
    BY <2>5 DEF FinCount, At, treeVars
  <2> QED
    BY <2>1, <2>2, <2>3, <2>4, <2>5
<1>2. PICK l \in {"fin_dec", "fin_push", "fin_signal", "fin_remove", "gone"} :
         /\ Goto(c, t, l)
         /\ pc[<<c, t>>] \in Finalizing
         /\ l # "gone" => pc[<<c, t>>] # "fin_count"
         /\ l \in {"fin_dec", "fin_push"} => \/ pc[<<c, t>>] = "fin_dec"
                                            \/ parent[c] # c
  BY <1>1 DEF Finalizing, Reporting
<1>3. Local(c, t) /\ pc'[<<c, t>>] = l
  BY <1>1, <1>2, GotoLocal DEF PcSet, Leaving, BaseInv, Finalizing, Reporting
<1>4. ThreadInv(c, t) /\ TreeInv
  BY DEF BaseInv
<1>5. t \notin threads[c] /\ l \notin Registered
  BY <1>2, <1>4 DEF ThreadInv, Registered, Plain, SigLoop, Forking
<1>6. l \in {"fin_dec", "fin_push"} => c # INIT_CAGEID
  BY <1>2, <1>4 DEF ThreadInv, TreeInv
<1>7. ThreadInv(c, t)'
  BY <1>1, <1>2, <1>3, <1>4, <1>5, <1>6 DEF ThreadInv, Registered, Finalizing, Reporting
<1> QED
  BY <1>1, <1>2, <1>3, <1>7, QuietBase

\* The effect of the first step of fork.
LEMMA ForkCountEffect ==
    ASSUME BaseInv, NEW c \in Cages, NEW t \in Threads, ForkCount(c, t)
    PROVE  /\ Local(c, t) /\ pc[<<c, t>>] = "wasm" /\ pc'[<<c, t>>] = "fork_add"
           /\ c \in cages
           /\ nextId' = nextId + 1 /\ nextId + 1 \in Cages
           /\ arg'[<<c, t>>].pid = nextId + 1
           /\ parent'[nextId + 1] = c
           /\ \A x \in Cages \ {nextId + 1} : parent'[x] = parent[x]
           /\ child_num' = [child_num EXCEPT ![c] = (@ + 1) % Wrap]
           /\ UNCHANGED <<cages, zombies, reaped, status, first, threads, cage_count>>
<1>0. TypeOK /\ <<c, t>> \in Thr
  BY DEF BaseInv, Thr
<1>1. nextId + 1 \in Cages
  BY <1>0, Ids DEF ForkCount, Cages
<1>2. /\ parent'[nextId + 1] = c
      /\ \A x \in Cages \ {nextId + 1} : parent'[x] = parent[x]
  <2>1. parent' = [parent EXCEPT ![nextId + 1] = c] /\ parent \in [Cages -> Cages]
    BY <1>0 DEF ForkCount, TypeOK
  <2> QED
    BY <1>1, <2>1
<1>3. arg'[<<c, t>>].pid = nextId + 1 /\ \A p \in Thr \ {<<c, t>>} : arg'[p] = arg[p]
  <2>1. arg' = [arg EXCEPT ![<<c, t>>].pid = nextId + 1] /\ arg \in [Thr -> Arg]
    BY <1>0 DEF ForkCount, TypeOK
  <2>2. arg[<<c, t>>] \in Arg
    BY <1>0, <2>1
  <2> QED
    BY <1>0, <2>1, <2>2 DEF Arg
<1>4. Local(c, t) /\ pc[<<c, t>>] = "wasm" /\ pc'[<<c, t>>] = "fork_add"
  <2>1. pc[<<c, t>>] = "wasm" /\ Goto(c, t, "fork_add")
    BY DEF ForkCount, At
  <2> QED
    BY <1>0, <1>3, <2>1, GotoLocal DEF PcSet
<1> QED
  BY <1>1, <1>2, <1>3, <1>4 DEF ForkCount, signalVars

\* fork's first step.
LEMMA ForkCountBase ==
    ASSUME BaseInv, TypeOK', OneChildEach', NEW c \in Cages, NEW t \in Threads, ForkCount(c, t)
    PROVE  BaseInv'
<1>1. /\ Local(c, t) /\ pc[<<c, t>>] = "wasm" /\ pc'[<<c, t>>] = "fork_add"
      /\ c \in cages
      /\ nextId' = nextId + 1 /\ nextId + 1 \in Cages
      /\ arg'[<<c, t>>].pid = nextId + 1
      /\ parent'[nextId + 1] = c
      /\ \A x \in Cages \ {nextId + 1} : parent'[x] = parent[x]
      /\ UNCHANGED <<cages, threads>>
  BY ForkCountEffect
<1>2. /\ \A d \in Cages : Begun(d)' <=> Begun(d)
      /\ \A d \in Cages, u \in Threads :
            d # c \/ u # t => pc'[<<d, u>>] = pc[<<d, u>>] /\ arg'[<<d, u>>] = arg[<<d, u>>]
  BY <1>1, LocalSame
<1>3. /\ nextId \in Nat /\ nextId >= 1 /\ nextId <= MaxCageId /\ MaxCageId \in Nat
      /\ \A x \in 1..nextId : x \in Cages
      /\ \A x \in 2..nextId : x \in Cages /\ x \in 1..nextId /\ x # INIT_CAGEID
      /\ \A x \in cages : x \in 1..nextId
  BY Ids DEF BaseInv
<1>4. ~Begun(nextId + 1) /\ nextId + 1 \notin cages /\ nextId + 1 \in 2..nextId'
  BY <1>1, <1>3 DEF BaseInv, TreeInv
<1>5. ASSUME NEW d \in Cages, NEW u \in Threads PROVE ThreadInv(d, u)'
  <2>1. ThreadInv(d, u)
    BY DEF BaseInv
  <2>2. CASE d = c /\ u = t
    <3>1. t \in threads'[c]
      BY <1>1, <2>1, <2>2 DEF ThreadInv, Registered, Plain
    <3>2. (~Begun(nextId))'
      BY <1>1, <1>2, <1>4
    <3>3. (~Begun(arg[<<c, t>>].pid))'
      BY <1>1, <3>2
    <3> QED
      BY <1>1, <1>4, <2>2, <3>1, <3>3
      DEF ThreadInv, Registered, Plain, SigLoop, Forking, Finalizing, Reporting
  <2>3. CASE d # c \/ u # t
    <3>1. pc'[<<d, u>>] = pc[<<d, u>>] /\ arg'[<<d, u>>] = arg[<<d, u>>]
      BY <1>2, <2>3
    <3>2. pc[<<d, u>>] \in Forking =>
             LET ch == arg[<<d, u>>].pid IN
             ch \in 2..nextId' /\ parent'[ch] = d /\ (~Begun(ch))'
      <4>1. SUFFICES ASSUME pc[<<d, u>>] \in Forking, NEW ch, ch = arg[<<d, u>>].pid
                     PROVE  ch \in 2..nextId' /\ parent'[ch] = d /\ (~Begun(ch))'
        BY <3>1
      <4>2. ch \in 2..nextId /\ parent[ch] = d /\ ~Begun(ch)
        BY <2>1, <4>1 DEF ThreadInv
      <4>3. ch \in Cages /\ ch # nextId + 1
        BY <1>3, <4>2
      <4> QED
        BY <1>1, <1>2, <1>3, <4>2, <4>3
    <3> QED
      BY <1>1, <2>1, <3>1, <3>2 DEF ThreadInv
  <2> QED
    BY <2>2, <2>3
<1>6. TreeInv'
  <2>1. TreeInv
    BY DEF BaseInv
  <2>2. Begun(c)
    BY <1>1 DEF Begun
  <2>3. c \in 1..nextId /\ c # nextId + 1
    BY <1>1, <1>3
  <2>4. parent'[INIT_CAGEID] = INIT_CAGEID
    BY <1>1, <1>3, <2>1 DEF TreeInv, INIT_CAGEID, Cages
  <2>5. ASSUME NEW x \in 2..nextId'
        PROVE  parent'[x] \in (1..nextId') \ {x} /\ Begun(parent[x])'
    <3>1. CASE x = nextId + 1
      <4>1. parent'[x] = c
        BY <1>1, <3>1
      <4>2. Begun(c)'
        BY <1>2, <2>2
      <4>3. Begun(parent[x])'
        BY <4>1, <4>2
      <4> QED
        BY <1>1, <1>3, <2>3, <3>1, <4>1, <4>3
    <3>2. CASE x # nextId + 1
      <4>1. x \in 2..nextId
        BY <1>1, <1>3, <3>2
      <4>2. parent'[x] = parent[x]
        BY <1>1, <1>3, <3>2, <4>1
      <4>3. parent[x] \in (1..nextId) \ {x} /\ Begun(parent[x]) /\ parent[x] \in Cages
        BY <1>3, <2>1, <4>1 DEF TreeInv
      <4>4. Begun(parent[x])'
        BY <1>2, <4>2, <4>3
      <4> QED
        BY <1>1, <1>3, <4>2, <4>3, <4>4
    <3> QED
      BY <3>1, <3>2
  <2>6. \A x \in Cages : x > nextId' => (~Begun(x))'
    BY <1>1, <1>2, <1>3, <2>1 DEF TreeInv, Cages
  <2> QED
    BY <2>4, <2>5, <2>6 DEF TreeInv
<1>7. OneFinalizer'
  <2>1. ASSUME NEW d \in Cages, NEW u \in Threads, pc'[<<d, u>>] \in Finalizing
        PROVE  pc[<<d, u>>] \in Finalizing
    BY <1>1, <1>2, <2>1 DEF Finalizing, Reporting
  <2>2. OneFinalizer
    BY DEF BaseInv
  <2> QED
    BY <2>1, <2>2 DEF OneFinalizer
<1> QED
  BY <1>5, <1>6, <1>7 DEF BaseInv

\* No two threads fork the same child.
LEMMA OneForker ==
    ASSUME BaseInv, NEW c \in Cages, NEW t \in Threads, NEW d \in Cages, NEW u \in Threads,
           pc[<<c, t>>] \in Forking, pc[<<d, u>>] \in Forking,
           arg[<<c, t>>].pid = arg[<<d, u>>].pid
    PROVE  c = d /\ t = u
BY DEF BaseInv, OneChildEach

\* The child is added to CAGE_MAP.
ChildAdded(c, t, ch) ==
    /\ Local(c, t) /\ pc[<<c, t>>] = "fork_add" /\ pc'[<<c, t>>] = "fork_start"
    /\ arg[<<c, t>>].pid = ch /\ arg'[<<c, t>>].pid = ch
    /\ ch \in Cages /\ parent[ch] = c /\ ~Begun(ch) /\ ch \notin cages
    /\ cages' = cages \cup {ch}
    /\ UNCHANGED <<treeVars, waitVars, status, threads, cage_count, first>>

\* The effect of add_cage.
LEMMA ForkAddEffect ==
    ASSUME BaseInv, NEW c \in Cages, NEW t \in Threads, ForkAdd(c, t)
    PROVE  \E ch \in 2..nextId : ChildAdded(c, t, ch)
<1>1. pc[<<c, t>>] = "fork_add" /\ Goto(c, t, "fork_start") /\ arg' = arg
  BY DEF ForkAdd, At
<1>2. TypeOK /\ ThreadInv(c, t)
  BY DEF BaseInv
<1>3. PICK ch \in 2..nextId : /\ arg[<<c, t>>].pid = ch
                             /\ parent[ch] = c /\ ~Begun(ch) /\ ch \notin cages
  BY <1>1, <1>2 DEF ThreadInv, Forking
<1>4. Local(c, t) /\ pc'[<<c, t>>] = "fork_start"
  BY <1>1, <1>2, GotoLocal DEF PcSet
<1>5. ch \in Cages
  BY <1>2, Ids
<1> QED
  BY <1>1, <1>3, <1>4, <1>5 DEF ForkAdd, ChildAdded

\* fork's second step.
LEMMA ForkAddBase ==
    ASSUME BaseInv, TypeOK', OneChildEach', NEW c \in Cages, NEW t \in Threads, ForkAdd(c, t)
    PROVE  BaseInv'
<1>1. PICK ch \in 2..nextId :
         /\ Local(c, t) /\ pc[<<c, t>>] = "fork_add" /\ pc'[<<c, t>>] = "fork_start"
         /\ arg[<<c, t>>].pid = ch /\ arg'[<<c, t>>].pid = ch
         /\ ch \in Cages /\ parent[ch] = c /\ ~Begun(ch) /\ ch \notin cages
         /\ cages' = cages \cup {ch}
         /\ UNCHANGED <<nextId, parent, threads>>
  BY ForkAddEffect DEF ChildAdded, treeVars
<1>2. /\ \A d \in Cages : Begun(d)' <=> Begun(d)
      /\ \A d \in Cages, u \in Threads :
            d # c \/ u # t => pc'[<<d, u>>] = pc[<<d, u>>] /\ arg'[<<d, u>>] = arg[<<d, u>>]
  BY <1>1, LocalSame
<1>3. ASSUME NEW d \in Cages, NEW u \in Threads PROVE ThreadInv(d, u)'
  <2>1. ThreadInv(d, u)
    BY DEF BaseInv
  <2>2. CASE d = c /\ u = t
    <3>1. (~Begun(ch))'
      BY <1>1, <1>2
    <3>2. (~Begun(arg[<<c, t>>].pid))'
      BY <1>1, <3>1
    <3> QED
      BY <1>1, <2>1, <2>2, <3>2
      DEF ThreadInv, Registered, Plain, SigLoop, Forking, Finalizing, Reporting
  <2>3. CASE d # c \/ u # t
    <3>1. pc'[<<d, u>>] = pc[<<d, u>>] /\ arg'[<<d, u>>] = arg[<<d, u>>]
      BY <1>2, <2>3
    <3>2. pc[<<d, u>>] \in Finalizing => d # ch
      BY <1>1 DEF Begun, Finalizing, Reporting
    <3>3. pc[<<d, u>>] \in Forking =>
             /\ (~Begun(arg[<<d, u>>].pid))'
             /\ arg[<<d, u>>].pid # ch
      <4>1. SUFFICES ASSUME pc[<<d, u>>] \in Forking, NEW x, x = arg[<<d, u>>].pid
                     PROVE  (~Begun(x))' /\ x # ch
        BY <3>1
      <4>2. x # ch
        BY <1>1, <2>3, <4>1, OneForker DEF Forking
      <4>3. x \in 2..nextId /\ ~Begun(x)
        BY <2>1, <4>1 DEF ThreadInv
      <4>4. x \in Cages
        BY <4>3, Ids DEF BaseInv
      <4> QED
        BY <1>2, <4>2, <4>3, <4>4
    <3> QED
      BY <1>1, <2>1, <3>1, <3>2, <3>3 DEF ThreadInv
  <2> QED
    BY <2>2, <2>3
<1>4. TreeInv'
  <2>1. TreeInv /\ \A x \in 2..nextId : parent[x] \in Cages
    BY Ids DEF BaseInv, TreeInv
  <2> QED
    BY <1>1, <1>2, <2>1 DEF TreeInv
<1>5. OneFinalizer'
  <2>1. ASSUME NEW d \in Cages, NEW u \in Threads, pc'[<<d, u>>] \in Finalizing
        PROVE  pc[<<d, u>>] \in Finalizing
    BY <1>1, <1>2, <2>1 DEF Finalizing, Reporting
  <2>2. OneFinalizer
    BY DEF BaseInv
  <2> QED
    BY <2>1, <2>2 DEF OneFinalizer
<1> QED
  BY <1>3, <1>4, <1>5 DEF BaseInv

\* The child's thread starts.
ChildStarts(c, t, ch) ==
    /\ pc[<<c, t>>] = "fork_start" /\ pc'[<<c, t>>] = "wasm"
    /\ arg[<<c, t>>].pid = ch /\ ch # c
    /\ ch \in Cages /\ parent[ch] = c /\ ~Begun(ch) /\ ch \in cages
    /\ pc'[<<ch, THREAD_START_ID>>] \in {"wasm", "gone"} /\ THREAD_START_ID \in Threads
    /\ \A d \in Cages, u \in Threads :
          /\ d # c \/ u # t => arg'[<<d, u>>] = arg[<<d, u>>]
          /\ (d # c \/ u # t) /\ (d # ch \/ u # THREAD_START_ID) =>
                pc'[<<d, u>>] = pc[<<d, u>>]
    /\ \A d \in Cages : Begun(d)' <=> Begun(d) \/ d = ch
    /\ threads' = [threads EXCEPT ![ch] = {THREAD_START_ID}]
    /\ cage_count' = cage_count + 1
    /\ UNCHANGED <<treeVars, cages, waitVars, status, signalVars, first>>

\* The effect of the start of the child's thread.
LEMMA ForkStartEffect ==
    ASSUME BaseInv, NEW c \in Cages, NEW t \in Threads, ForkStart(c, t)
    PROVE  \E ch \in 2..nextId : ChildStarts(c, t, ch)
<1>1. pc[<<c, t>>] = "fork_start"
  BY DEF ForkStart, At
<1>2. TypeOK /\ ThreadInv(c, t)
  BY DEF BaseInv
<1>3. PICK ch \in 2..nextId : /\ arg[<<c, t>>].pid = ch
                             /\ parent[ch] = c /\ ~Begun(ch) /\ ch \in cages
  BY <1>1, <1>2 DEF ThreadInv, Forking
<1>4. ch \in Cages /\ ch # c
  BY <1>1, <1>2, <1>3, Ids DEF Begun
<1>5. THREAD_START_ID \in Threads
  BY LifeAssumption DEF THREAD_START_ID
<1>6. <<c, t>> \in Thr /\ <<ch, THREAD_START_ID>> \in Thr /\ <<c, t>> # <<ch, THREAD_START_ID>>
  BY <1>4, <1>5 DEF Thr
<1>7. pc' = [pc EXCEPT ![<<c, t>>] = "wasm", ![<<ch, THREAD_START_ID>>] = ChildRuns(t)]
      /\ arg' = [arg EXCEPT ![<<c, t>>] = NoArg]
      /\ pc \in [Thr -> PcSet] /\ arg \in [Thr -> Arg]
  BY <1>2, <1>3 DEF ForkStart, TypeOK
<1>8. /\ pc'[<<c, t>>] = "wasm" /\ pc'[<<ch, THREAD_START_ID>>] \in {"wasm", "gone"}
      /\ \A p \in Thr \ {<<c, t>>, <<ch, THREAD_START_ID>>} : pc'[p] = pc[p]
      /\ \A p \in Thr \ {<<c, t>>} : arg'[p] = arg[p]
  BY <1>6, <1>7 DEF ChildRuns
<1>9. \A d \in Cages, u \in Threads :
         /\ d # c \/ u # t => arg'[<<d, u>>] = arg[<<d, u>>]
         /\ (d # c \/ u # t) /\ (d # ch \/ u # THREAD_START_ID) =>
               pc'[<<d, u>>] = pc[<<d, u>>]
  BY <1>8 DEF Thr
<1>10. ASSUME NEW d \in Cages PROVE Begun(d)' <=> Begun(d) \/ d = ch
  <2>1. CASE d = ch
    BY <1>5, <1>8, <2>1 DEF Begun
  <2>2. CASE d = c
    BY <1>1, <1>4, <1>8, <2>2 DEF Begun
  <2>3. CASE d # ch /\ d # c
    BY <1>9, <2>3 DEF Begun
  <2> QED
    BY <2>1, <2>2, <2>3
<1>11. /\ threads' = [threads EXCEPT ![ch] = {THREAD_START_ID}]
       /\ cage_count' = cage_count + 1
       /\ UNCHANGED <<treeVars, cages, waitVars, status, signalVars, first>>
  BY <1>3 DEF ForkStart
<1> QED
  BY <1>1, <1>3, <1>4, <1>5, <1>8, <1>9, <1>10, <1>11 DEF ChildStarts

\* fork's last step.
LEMMA ForkStartBase ==
    ASSUME BaseInv, TypeOK', OneChildEach', NEW c \in Cages, NEW t \in Threads, ForkStart(c, t)
    PROVE  BaseInv'
<1>0. PICK ch \in 2..nextId : ChildStarts(c, t, ch)
  BY ForkStartEffect
<1>1. /\ pc[<<c, t>>] = "fork_start" /\ pc'[<<c, t>>] = "wasm"
      /\ arg[<<c, t>>].pid = ch /\ ch # c
      /\ ch \in Cages /\ parent[ch] = c /\ ~Begun(ch) /\ ch \in cages
      /\ pc'[<<ch, THREAD_START_ID>>] \in {"wasm", "gone"} /\ THREAD_START_ID \in Threads
      /\ \A d \in Cages, u \in Threads :
            /\ d # c \/ u # t => arg'[<<d, u>>] = arg[<<d, u>>]
            /\ (d # c \/ u # t) /\ (d # ch \/ u # THREAD_START_ID) =>
                  pc'[<<d, u>>] = pc[<<d, u>>]
      /\ \A d \in Cages : Begun(d)' <=> Begun(d) \/ d = ch
      /\ threads' = [threads EXCEPT ![ch] = {THREAD_START_ID}]
      /\ UNCHANGED <<nextId, parent, cages>>
  BY <1>0 DEF ChildStarts, treeVars
<1>2. threads \in [Cages -> SUBSET Threads]
  BY DEF BaseInv, TypeOK
<1>3. ASSUME NEW d \in Cages, NEW u \in Threads PROVE ThreadInv(d, u)'
  <2>1. ThreadInv(d, u)
    BY DEF BaseInv
  <2>2. CASE d = c /\ u = t
    <3>1. c \in cages /\ t \in threads'[c]
      BY <1>1, <1>2, <2>1, <2>2 DEF ThreadInv, Registered, Forking
    <3> QED
      BY <1>1, <2>2, <3>1
      DEF ThreadInv, Registered, Plain, SigLoop, Forking, Finalizing, Reporting
  <2>3. CASE d = ch
    <3>1. threads'[d] = {THREAD_START_ID}
      BY <1>1, <1>2, <2>3
    <3>2. CASE u = THREAD_START_ID
      BY <1>1, <2>3, <3>1, <3>2
      DEF ThreadInv, Registered, Plain, SigLoop, Forking, Finalizing, Reporting
    <3>3. CASE u # THREAD_START_ID
      <4>1. pc'[<<d, u>>] = "none"
        BY <1>1, <2>3, <3>3 DEF Begun
      <4> QED
        BY <3>1, <3>3, <4>1
        DEF ThreadInv, Registered, Plain, SigLoop, Forking, Finalizing, Reporting
    <3> QED
      BY <3>2, <3>3
  <2>4. CASE (d # c \/ u # t) /\ d # ch
    <3>1. pc'[<<d, u>>] = pc[<<d, u>>] /\ arg'[<<d, u>>] = arg[<<d, u>>]
          /\ threads'[d] = threads[d]
      BY <1>1, <1>2, <2>4
    <3>2. pc[<<d, u>>] \in Forking => (~Begun(arg[<<d, u>>].pid))'
      <4>1. SUFFICES ASSUME pc[<<d, u>>] \in Forking, NEW x, x = arg[<<d, u>>].pid
                     PROVE  (~Begun(x))'
        BY <3>1
      <4>2. x # ch
        BY <1>1, <2>4, <4>1, OneForker DEF Forking
      <4>3. x \in 2..nextId /\ ~Begun(x)
        BY <2>1, <4>1 DEF ThreadInv
      <4>4. x \in Cages
        BY <4>3, Ids DEF BaseInv
      <4> QED
        BY <1>1, <4>2, <4>3, <4>4
    <3> QED
      BY <1>1, <2>1, <3>1, <3>2 DEF ThreadInv
  <2> QED
    BY <2>2, <2>3, <2>4
<1>4. TreeInv'
  <2>1. TreeInv /\ \A x \in 2..nextId : parent[x] \in Cages
    BY Ids DEF BaseInv, TreeInv
  <2>2. \A x \in Cages : x > nextId => (~Begun(x))'
    <3>1. ~(ch > nextId)
      BY Ids DEF BaseInv
    <3> QED
      BY <1>1, <2>1, <3>1 DEF TreeInv
  <2> QED
    BY <1>1, <2>1, <2>2 DEF TreeInv
<1>5. OneFinalizer'
  <2>1. ASSUME NEW d \in Cages, NEW u \in Threads, pc'[<<d, u>>] \in Finalizing
        PROVE  pc[<<d, u>>] \in Finalizing
    BY <1>1, <2>1 DEF Finalizing, Reporting
  <2>2. OneFinalizer
    BY DEF BaseInv
  <2> QED
    BY <2>1, <2>2 DEF OneFinalizer
<1> QED
  BY <1>3, <1>4, <1>5 DEF BaseInv

\* A thread is created in the cage of a registered one.
Created(c, t, u) ==
    /\ pc[<<c, t>>] = "wasm" /\ pc[<<c, u>>] = "none" /\ t # u
    /\ pc'[<<c, u>>] = "starting" /\ pc'[<<c, t>>] = "wasm"
    /\ \A d \in Cages, v \in Threads : d # c \/ v # u => pc'[<<d, v>>] = pc[<<d, v>>]
    /\ \A d \in Cages : Begun(d)' <=> Begun(d)
    /\ c \in cages /\ t \in threads[c]
    /\ UNCHANGED <<treeVars, cages, waitVars, status, threads, signalVars, arg,
                   cage_count, first>>

\* The effect of pthread_create.
LEMMA SpawnEffect ==
    ASSUME BaseInv, NEW c \in Cages, NEW t \in Threads, NEW u \in Threads, Spawn(c, t, u)
    PROVE  Created(c, t, u)
<1>1. pc[<<c, t>>] = "wasm" /\ pc[<<c, u>>] = "none" /\ Goto(c, u, "starting")
  BY DEF Spawn, At
<1>2. TypeOK /\ ThreadInv(c, t)
  BY DEF BaseInv
<1>3. <<c, u>> \in Thr /\ <<c, t>> \in Thr /\ t # u
  BY <1>1 DEF Thr
<1>4. pc'[<<c, u>>] = "starting" /\ \A p \in Thr \ {<<c, u>>} : pc'[p] = pc[p]
  BY <1>1, <1>2, <1>3 DEF Goto, TypeOK
<1>5. /\ \A d \in Cages, v \in Threads : d # c \/ v # u => pc'[<<d, v>>] = pc[<<d, v>>]
      /\ pc'[<<c, t>>] = "wasm"
  BY <1>1, <1>3, <1>4 DEF Thr
<1>6. \A d \in Cages : Begun(d)' <=> Begun(d)
  BY <1>1, <1>5, BegunSame
<1>7. c \in cages /\ t \in threads[c]
  BY <1>1, <1>2 DEF ThreadInv, Registered, Plain
<1> QED
  BY <1>1, <1>3, <1>4, <1>5, <1>6, <1>7 DEF Spawn, Created

\* pthread_create.
LEMMA SpawnBase ==
    ASSUME BaseInv, TypeOK', OneChildEach', NEW c \in Cages, NEW t \in Threads, NEW u \in Threads,
           Spawn(c, t, u)
    PROVE  BaseInv'
<1>1. /\ pc[<<c, t>>] = "wasm" /\ pc[<<c, u>>] = "none" /\ t # u
      /\ pc'[<<c, u>>] = "starting" /\ pc'[<<c, t>>] = "wasm"
      /\ \A d \in Cages, v \in Threads :
            d # c \/ v # u => pc'[<<d, v>>] = pc[<<d, v>>]
      /\ \A d \in Cages : Begun(d)' <=> Begun(d)
      /\ c \in cages /\ t \in threads[c]
      /\ UNCHANGED <<nextId, parent, cages, threads, arg>>
  BY SpawnEffect DEF treeVars, Created
<1>2. threads \in [Cages -> SUBSET Threads]
  BY DEF BaseInv, TypeOK
<1>3. ASSUME NEW d \in Cages, NEW v \in Threads PROVE ThreadInv(d, v)'
  <2>1. ThreadInv(d, v)
    BY DEF BaseInv
  <2>2. CASE d = c /\ v = u
    <3>1. v \notin threads[c]
      BY <1>1, <2>1, <2>2 DEF ThreadInv, Registered, Plain, SigLoop, Forking
    <3> QED
      BY <1>1, <1>2, <2>2, <3>1
      DEF ThreadInv, Registered, Plain, SigLoop, Forking, Finalizing, Reporting
  <2>3. CASE d # c \/ v # u
    <3>1. pc'[<<d, v>>] = pc[<<d, v>>]
      BY <1>1, <2>3
    <3>4. pc[<<d, v>>] \in Forking => (~Begun(arg[<<d, v>>].pid))'
      <4>1. SUFFICES ASSUME pc[<<d, v>>] \in Forking, NEW x, x = arg[<<d, v>>].pid
                     PROVE  (~Begun(x))'
        BY <1>1
      <4>2. x \in 2..nextId /\ ~Begun(x)
        BY <2>1, <4>1 DEF ThreadInv
      <4>3. x \in Cages
        BY <4>2, Ids DEF BaseInv
      <4> QED
        BY <1>1, <4>2, <4>3
    <3> QED
      BY <1>1, <2>1, <3>1, <3>4 DEF ThreadInv
  <2> QED
    BY <2>2, <2>3
<1>4. TreeInv'
  <2>1. TreeInv /\ \A x \in 2..nextId : parent[x] \in Cages
    BY Ids DEF BaseInv, TreeInv
  <2> QED
    BY <1>1, <2>1 DEF TreeInv
<1>5. OneFinalizer'
  <2>1. ASSUME NEW d \in Cages, NEW v \in Threads, pc'[<<d, v>>] \in Finalizing
        PROVE  pc[<<d, v>>] \in Finalizing
    BY <1>1, <2>1 DEF Finalizing, Reporting
  <2>2. OneFinalizer
    BY DEF BaseInv
  <2> QED
    BY <2>1, <2>2 DEF OneFinalizer
<1> QED
  BY <1>3, <1>4, <1>5 DEF BaseInv

\* The effect of lind_signal_init in a new thread.
LEMMA RegisterEffect ==
    ASSUME BaseInv, NEW c \in Cages, NEW t \in Threads, Register(c, t)
    PROVE  /\ Local(c, t) /\ pc[<<c, t>>] = "starting" /\ pc'[<<c, t>>] = "wasm"
           /\ c \in cages /\ threads[c] # {}
           /\ threads' = [threads EXCEPT ![c] = @ \cup {t}]
           /\ UNCHANGED <<treeVars, cages, waitVars, status, signalVars, arg, cage_count, first>>
<1>1. pc[<<c, t>>] = "starting" /\ Goto(c, t, "wasm") /\ UNCHANGED arg
  BY DEF Register, At
<1>2. TypeOK /\ ThreadInv(c, t)
  BY DEF BaseInv
<1>3. c \in cages /\ threads[c] # {}
  BY <1>1, <1>2 DEF ThreadInv
<1>4. Local(c, t) /\ pc'[<<c, t>>] = "wasm"
  BY <1>1, <1>2, GotoLocal DEF PcSet
<1> QED
  BY <1>1, <1>3, <1>4 DEF Register

\* A new thread registers.
LEMMA RegisterBase ==
    ASSUME BaseInv, TypeOK', OneChildEach', NEW c \in Cages, NEW t \in Threads,
           Register(c, t)
    PROVE  BaseInv'
<1>1. /\ Local(c, t) /\ pc[<<c, t>>] = "starting" /\ pc'[<<c, t>>] = "wasm"
      /\ c \in cages /\ threads[c] # {}
      /\ threads' = [threads EXCEPT ![c] = @ \cup {t}]
      /\ UNCHANGED <<nextId, parent, cages, arg>>
  BY RegisterEffect DEF treeVars
<1>2. threads \in [Cages -> SUBSET Threads]
  BY DEF BaseInv, TypeOK
<1>a. /\ \A d \in Cages : Begun(d)' <=> Begun(d)
      /\ \A d \in Cages, v \in Threads :
            d # c \/ v # t => pc'[<<d, v>>] = pc[<<d, v>>]
  BY <1>1, LocalSame
<1>3. ASSUME NEW d \in Cages, NEW v \in Threads PROVE ThreadInv(d, v)'
  <2>1. ThreadInv(d, v)
    BY DEF BaseInv
  <2>2. CASE d = c /\ v = t
    BY <1>1, <1>2, <2>2
    DEF ThreadInv, Registered, Plain, SigLoop, Forking, Finalizing, Reporting
  <2>3. CASE d # c \/ v # t
    <3>1. pc'[<<d, v>>] = pc[<<d, v>>]
      BY <1>a, <2>3
    <3>2. pc[<<d, v>>] \in Finalizing => d # c
      BY <1>1, <2>1 DEF ThreadInv
    <3>3. /\ d # c => threads'[d] = threads[d]
          /\ v \in threads'[d] <=> v \in threads[d]
          /\ threads[d] # {} => threads'[d] # {}
      BY <1>1, <1>2, <2>3
    <3>4. pc[<<d, v>>] \in Forking => (~Begun(arg[<<d, v>>].pid))'
      <4>1. SUFFICES ASSUME pc[<<d, v>>] \in Forking, NEW x, x = arg[<<d, v>>].pid
                     PROVE  (~Begun(x))'
        BY <1>1
      <4>2. x \in 2..nextId /\ ~Begun(x)
        BY <2>1, <4>1 DEF ThreadInv
      <4>3. x \in Cages
        BY <4>2, Ids DEF BaseInv
      <4> QED
        BY <1>a, <4>2, <4>3
    <3> QED
      BY <1>1, <2>1, <3>1, <3>2, <3>3, <3>4 DEF ThreadInv
  <2> QED
    BY <2>2, <2>3
<1>4. TreeInv'
  <2>1. TreeInv /\ \A x \in 2..nextId : parent[x] \in Cages
    BY Ids DEF BaseInv, TreeInv
  <2> QED
    BY <1>1, <1>a, <2>1 DEF TreeInv
<1>5. OneFinalizer'
  <2>1. ASSUME NEW d \in Cages, NEW v \in Threads, pc'[<<d, v>>] \in Finalizing
        PROVE  pc[<<d, v>>] \in Finalizing
    BY <1>1, <1>a, <2>1 DEF Finalizing, Reporting
  <2>2. OneFinalizer
    BY DEF BaseInv
  <2> QED
    BY <2>1, <2>2 DEF OneFinalizer
<1> QED
  BY <1>3, <1>4, <1>5 DEF BaseInv

\* The effect of lind_thread_exit.
LEMMA ThreadExitEffect ==
    ASSUME EndsAlone', BaseInv, NEW c \in Cages, NEW t \in Threads, ThreadExit(c, t)
    PROVE  /\ Local(c, t) /\ pc[<<c, t>>] \in {"unwind", "crash"}
           /\ pc'[<<c, t>>] = IF threads[c] = {t} THEN "finalize" ELSE "gone"
           /\ threads[c] = {t} => \A u \in Threads : pc'[<<c, u>>] # "starting"
           /\ c \in cages /\ t \in threads[c]
           /\ HandOver(c, t) /\ threads' = [threads EXCEPT ![c] = @ \ {t}]
           /\ UNCHANGED <<treeVars, cages, waitVars, status, pending, kills, arg,
                          cage_count, first>>
<1>1. pc[<<c, t>>] \in {"unwind", "crash"} /\ UNCHANGED arg
  BY DEF ThreadExit, At
<1>2. TypeOK /\ ThreadInv(c, t)
  BY DEF BaseInv
<1>3. c \in cages /\ t \in threads[c]
  BY <1>1, <1>2 DEF ThreadInv, Registered, Plain
<1>4. threads[c] \ {t} = {} <=> threads[c] = {t}
  BY <1>3
<1>a. PICK l \in {"finalize", "gone"} :
         Goto(c, t, l) /\ l = IF At(c, t, "crash") \/ threads[c] \ {t} = {}
                              THEN "finalize" ELSE "gone"
  BY <1>3 DEF ThreadExit
<1>b. Local(c, t) /\ pc'[<<c, t>>] = l
  BY <1>1, <1>2, <1>a, GotoLocal DEF PcSet, Leaving
<1>5. l = "finalize" => threads[c] = {t} /\ \A u \in Threads : pc'[<<c, u>>] # "starting"
  <2>1. l = "finalize" => threads'[c] = {} /\ \A u \in Threads : pc'[<<c, u>>] # "starting"
    BY <1>b DEF EndsAlone, At
  <2>2. threads'[c] = threads[c] \ {t}
    BY <1>2, <1>3 DEF ThreadExit, TypeOK
  <2> QED
    BY <1>3, <2>1, <2>2
<1>6. l = IF threads[c] = {t} THEN "finalize" ELSE "gone"
  BY <1>4, <1>5, <1>a
<1> QED
  BY <1>1, <1>3, <1>5, <1>6, <1>b DEF ThreadExit

\* A thread leaves its cage.
LEMMA ThreadExitBase ==
    ASSUME EndsAlone', BaseInv, TypeOK', OneChildEach', NEW c \in Cages, NEW t \in Threads,
           ThreadExit(c, t)
    PROVE  BaseInv'
<1>1. /\ Local(c, t) /\ pc[<<c, t>>] \in {"unwind", "crash"}
      /\ pc'[<<c, t>>] = IF threads[c] = {t} THEN "finalize" ELSE "gone"
      /\ threads[c] = {t} => \A u \in Threads : pc'[<<c, u>>] # "starting"
      /\ c \in cages /\ t \in threads[c]
      /\ threads' = [threads EXCEPT ![c] = @ \ {t}]
      /\ UNCHANGED <<nextId, parent, cages, arg>>
  BY ThreadExitEffect DEF treeVars
<1>2. threads \in [Cages -> SUBSET Threads]
  BY DEF BaseInv, TypeOK
<1>3. /\ \A d \in Cages : Begun(d)' <=> Begun(d)
      /\ \A d \in Cages, u \in Threads :
            d # c \/ u # t => pc'[<<d, u>>] = pc[<<d, u>>]
  BY <1>1, LocalSame
<1>4. \A u \in Threads : pc[<<c, u>>] \notin Finalizing
  BY <1>1 DEF BaseInv, ThreadInv
<1>5. ASSUME NEW d \in Cages, NEW u \in Threads PROVE ThreadInv(d, u)'
  <2>1. ThreadInv(d, u)
    BY DEF BaseInv
  <2>2. CASE d = c /\ u = t
    <3>1. threads'[c] = threads[c] \ {t}
      BY <1>1, <1>2
    <3>2. pc'[<<c, t>>] \in Finalizing => threads'[c] = {} /\ pc'[<<c, t>>] = "finalize"
      BY <1>1, <3>1 DEF Finalizing, Reporting
    <3>3. pc'[<<c, t>>] \in {"finalize", "gone"}
      BY <1>1
    <3> QED
      BY <1>1, <2>2, <3>1, <3>2, <3>3 DEF ThreadInv, Registered, Plain, SigLoop, Forking
  <2>3. CASE d # c \/ u # t
    <3>1. pc'[<<d, u>>] = pc[<<d, u>>]
      BY <1>3, <2>3
    <3>2. pc[<<d, u>>] \in Finalizing => d # c
      BY <1>4
    <3>3. /\ d # c => threads'[d] = threads[d]
          /\ u \in threads'[d] <=> u \in threads[d]
      BY <1>1, <1>2, <2>3
    <3>5. pc[<<d, u>>] = "starting" => threads'[d] # {}
      <4>1. threads'[c] = threads[c] \ {t}
        BY <1>1, <1>2
      <4>2. CASE d # c
        BY <2>1, <3>3, <4>2 DEF ThreadInv
      <4>3. CASE d = c
        BY <1>1, <3>1, <4>1, <4>3
      <4> QED
        BY <4>2, <4>3
    <3>4. pc[<<d, u>>] \in Forking => (~Begun(arg[<<d, u>>].pid))'
      <4>1. SUFFICES ASSUME pc[<<d, u>>] \in Forking, NEW x, x = arg[<<d, u>>].pid
                     PROVE  (~Begun(x))'
        BY <1>1
      <4>2. x \in 2..nextId /\ ~Begun(x)
        BY <2>1, <4>1 DEF ThreadInv
      <4>3. x \in Cages
        BY <4>2, Ids DEF BaseInv
      <4> QED
        BY <1>3, <4>2, <4>3
    <3> QED
      BY <1>1, <2>1, <3>1, <3>2, <3>3, <3>4, <3>5 DEF ThreadInv
  <2> QED
    BY <2>2, <2>3
<1>6. TreeInv'
  <2>1. TreeInv /\ \A x \in 2..nextId : parent[x] \in Cages
    BY Ids DEF BaseInv, TreeInv
  <2> QED
    BY <1>1, <1>3, <2>1 DEF TreeInv
<1>7. OneFinalizer'
  <2>1. ASSUME NEW d \in Cages, NEW u \in Threads, NEW v \in Threads,
               pc'[<<d, u>>] \in Finalizing, pc'[<<d, v>>] \in Finalizing
        PROVE  u = v
    <3>1. CASE d = c
      BY <1>3, <1>4, <2>1, <3>1
    <3>2. CASE d # c
      BY <1>3, <2>1, <3>2 DEF BaseInv, OneFinalizer
    <3> QED
      BY <3>1, <3>2
  <2> QED
    BY <2>1 DEF OneFinalizer
<1> QED
  BY <1>5, <1>6, <1>7 DEF BaseInv

\* The effect of the removal from CAGE_MAP.
LEMMA FinRemoveEffect ==
    ASSUME BaseInv, NEW c \in Cages, NEW t \in Threads, FinRemove(c, t)
    PROVE  /\ Local(c, t) /\ pc[<<c, t>>] = "fin_remove" /\ pc'[<<c, t>>] = "fin_count"
           /\ threads[c] = {} /\ Begun(c)
           /\ cages' = cages \ {c}
           /\ UNCHANGED <<treeVars, waitVars, status, threads, signalVars, arg,
                          cage_count, first>>
<1>1. pc[<<c, t>>] = "fin_remove" /\ Goto(c, t, "fin_count") /\ UNCHANGED arg
  BY DEF FinRemove, At
<1>2. TypeOK /\ ThreadInv(c, t)
  BY DEF BaseInv
<1>3. Local(c, t) /\ pc'[<<c, t>>] = "fin_count"
  BY <1>1, <1>2, GotoLocal DEF PcSet, Leaving
<1>4. threads[c] = {} /\ Begun(c)
  BY <1>1, <1>2 DEF ThreadInv, Finalizing, Begun
<1> QED
  BY <1>1, <1>3, <1>4 DEF FinRemove

\* The removal from CAGE_MAP.
LEMMA FinRemoveBase ==
    ASSUME BaseInv, TypeOK', OneChildEach', NEW c \in Cages, NEW t \in Threads, FinRemove(c, t)
    PROVE  BaseInv'
<1>1. /\ Local(c, t) /\ pc[<<c, t>>] = "fin_remove" /\ pc'[<<c, t>>] = "fin_count"
      /\ threads[c] = {} /\ Begun(c)
      /\ cages' = cages \ {c}
      /\ UNCHANGED <<nextId, parent, threads, arg>>
  BY FinRemoveEffect DEF treeVars
<1>2. /\ \A d \in Cages : Begun(d)' <=> Begun(d)
      /\ \A d \in Cages, u \in Threads :
            d # c \/ u # t => pc'[<<d, u>>] = pc[<<d, u>>]
  BY <1>1, LocalSame
<1>3. ASSUME NEW d \in Cages, NEW u \in Threads PROVE ThreadInv(d, u)'
  <2>1. ThreadInv(d, u)
    BY DEF BaseInv
  <2>2. CASE d = c /\ u = t
    BY <1>1, <2>2
    DEF ThreadInv, Registered, Plain, SigLoop, Forking, Finalizing, Reporting
  <2>3. CASE d # c \/ u # t
    <3>1. pc'[<<d, u>>] = pc[<<d, u>>]
      BY <1>2, <2>3
    <3>2. pc[<<d, u>>] \in Finalizing => d # c
      BY <1>1, <2>3 DEF BaseInv, OneFinalizer, Finalizing
    <3>3. pc[<<d, u>>] \in Registered \cup {"starting"} => d # c
      BY <1>1, <2>1 DEF ThreadInv
    <3>4. pc[<<d, u>>] \in Forking =>
             (~Begun(arg[<<d, u>>].pid))' /\ arg[<<d, u>>].pid # c
      <4>1. SUFFICES ASSUME pc[<<d, u>>] \in Forking, NEW x, x = arg[<<d, u>>].pid
                     PROVE  (~Begun(x))' /\ x # c
        BY <1>1
      <4>2. x \in 2..nextId /\ ~Begun(x)
        BY <2>1, <4>1 DEF ThreadInv
      <4>3. x \in Cages
        BY <4>2, Ids DEF BaseInv
      <4> QED
        BY <1>1, <1>2, <4>2, <4>3
    <3> QED
      BY <1>1, <2>1, <3>1, <3>2, <3>3, <3>4 DEF ThreadInv
  <2> QED
    BY <2>2, <2>3
<1>4. TreeInv'
  <2>1. TreeInv /\ \A x \in 2..nextId : parent[x] \in Cages
    BY Ids DEF BaseInv, TreeInv
  <2> QED
    BY <1>1, <1>2, <2>1 DEF TreeInv
<1>5. OneFinalizer'
  <2>1. ASSUME NEW d \in Cages, NEW u \in Threads, pc'[<<d, u>>] \in Finalizing
        PROVE  pc[<<d, u>>] \in Finalizing
    BY <1>1, <1>2, <2>1 DEF Finalizing
  <2>2. OneFinalizer
    BY DEF BaseInv
  <2> QED
    BY <2>1, <2>2 DEF OneFinalizer
<1> QED
  BY <1>3, <1>4, <1>5 DEF BaseInv

\* The initial state.
LEMMA InitBase == Init => BaseInv
<1> SUFFICES ASSUME Init PROVE BaseInv
  OBVIOUS
<1>1. TypeOK
  BY InitType
<1>2. \A c \in Cages, t \in Threads :
         pc[<<c, t>>] = IF c = INIT_CAGEID /\ t = THREAD_START_ID THEN "wasm" ELSE "none"
  BY DEF Init, Thr
<1>3. cages = {INIT_CAGEID} /\ nextId = 1 /\ INIT_CAGEID \in Cages
  BY LifeAssumption DEF Init, INIT_CAGEID, Cages
<1>4. \A c \in Cages : threads[c] = IF c = INIT_CAGEID THEN {THREAD_START_ID} ELSE {}
  BY DEF Init
<1>5. \A c \in Cages, t \in Threads : ThreadInv(c, t)
  <2> SUFFICES ASSUME NEW c \in Cages, NEW t \in Threads PROVE ThreadInv(c, t)
    OBVIOUS
  <2>1. CASE c = INIT_CAGEID /\ t = THREAD_START_ID
    <3>1. pc[<<c, t>>] = "wasm" /\ c \in cages /\ t \in threads[c]
      BY <1>2, <1>3, <1>4, <2>1
    <3> QED
      BY <3>1 DEF ThreadInv, Registered, Plain, SigLoop, Forking, Finalizing, Reporting
  <2>2. CASE ~(c = INIT_CAGEID /\ t = THREAD_START_ID)
    <3>1. pc[<<c, t>>] = "none" /\ t \notin threads[c]
      BY <1>2, <1>4, <2>2
    <3> QED
      BY <3>1 DEF ThreadInv, Registered, Plain, SigLoop, Forking, Finalizing, Reporting
  <2> QED
    BY <2>1, <2>2
<1>6. TreeInv
  <2>1. parent[INIT_CAGEID] = INIT_CAGEID
    BY <1>3 DEF Init
  <2>2. \A x \in Cages : x > nextId => ~Begun(x)
    <3>1. \A x \in Cages : x > nextId => x # INIT_CAGEID
      BY <1>3 DEF INIT_CAGEID, Cages
    <3> QED
      BY <1>2, <3>1 DEF Begun
  <2> QED
    BY <1>3, <2>1, <2>2 DEF TreeInv
<1>7. OneFinalizer
  BY <1>2 DEF OneFinalizer, Finalizing, Reporting
<1>8. OneChildEach
  BY <1>2 DEF OneChildEach, Forking
<1> QED
  BY <1>1, <1>5, <1>6, <1>7, <1>8 DEF BaseInv

\* A child is forked by one thread: ids are not given twice.
LEMMA NextOneChild ==
    ASSUME EndsAlone', BaseInv, NEW c \in Cages, NEW t \in Threads,
           Guest(c, t) \/ Host(c, t)
    PROVE  OneChildEach'
<1>0. TypeOK /\ OneChildEach /\ \A d \in Cages, u \in Threads : ThreadInv(d, u)
  BY DEF BaseInv
<1>a. Move(c, t) \/ ReapMove(c, t) \/ Other(c, t)
  BY <1>0, StepKinds
<1>1. ASSUME \A d \in Cages, u \in Threads : pc'[<<d, u>>] \in Forking =>
                pc[<<d, u>>] \in Forking /\ arg'[<<d, u>>].pid = arg[<<d, u>>].pid
      PROVE  OneChildEach'
  BY <1>0, <1>1 DEF OneChildEach
<1>2. ASSUME Local(c, t), pc'[<<c, t>>] \notin Forking PROVE OneChildEach'
  BY <1>1, <1>2, LocalSame
<1>3. CASE ForkCount(c, t)
  <2>1. /\ Local(c, t) /\ arg'[<<c, t>>].pid = nextId + 1
    BY <1>3, ForkCountEffect
  <2>2. \A d \in Cages, u \in Threads :
           d # c \/ u # t => pc'[<<d, u>>] = pc[<<d, u>>] /\ arg'[<<d, u>>] = arg[<<d, u>>]
    BY <2>1, LocalSame
  <2>3. \A d \in Cages, u \in Threads :
           pc[<<d, u>>] \in Forking => arg[<<d, u>>].pid # nextId + 1
    <3>1. nextId \in Nat
      BY <1>0, Ids
    <3>2. \A d \in Cages, u \in Threads :
             pc[<<d, u>>] \in Forking => arg[<<d, u>>].pid \in 2..nextId
      BY <1>0 DEF ThreadInv
    <3> QED
      BY <3>1, <3>2
  <2>4. ASSUME NEW d \in Cages, NEW e \in Cages, NEW u \in Threads, NEW v \in Threads,
               pc'[<<d, u>>] \in Forking, pc'[<<e, v>>] \in Forking,
               arg'[<<d, u>>].pid = arg'[<<e, v>>].pid
        PROVE  d = e /\ u = v
    <3>1. CASE d = c /\ u = t
      BY <2>1, <2>2, <2>3, <2>4, <3>1
    <3>2. CASE e = c /\ v = t
      BY <2>1, <2>2, <2>3, <2>4, <3>2
    <3>3. CASE (d # c \/ u # t) /\ (e # c \/ v # t)
      BY <1>0, <2>2, <2>4, <3>3 DEF OneChildEach
    <3> QED
      BY <3>1, <3>2, <3>3
  <2> QED
    BY <2>4 DEF OneChildEach
<1>4. CASE ForkAdd(c, t)
  <2>1. PICK ch \in 2..nextId : ChildAdded(c, t, ch)
    BY <1>4, ForkAddEffect
  <2>2. /\ Local(c, t) /\ pc[<<c, t>>] = "fork_add" /\ arg'[<<c, t>>].pid = arg[<<c, t>>].pid
    BY <2>1 DEF ChildAdded
  <2> QED
    BY <1>1, <2>2, LocalSame DEF Forking
<1>5. CASE ForkStart(c, t)
  <2>1. PICK ch \in 2..nextId : ChildStarts(c, t, ch)
    BY <1>5, ForkStartEffect
  <2>2. ASSUME NEW d \in Cages, NEW u \in Threads, pc'[<<d, u>>] \in Forking
        PROVE  pc[<<d, u>>] \in Forking /\ arg'[<<d, u>>].pid = arg[<<d, u>>].pid
    BY <2>1, <2>2 DEF ChildStarts, Forking
  <2> QED
    BY <1>1, <2>2
<1>6. ASSUME NEW v \in Threads, Spawn(c, t, v) PROVE OneChildEach'
  <2>0. Created(c, t, v)
    BY <1>6, SpawnEffect
  <2>1. /\ pc'[<<c, v>>] = "starting" /\ arg' = arg
        /\ \A d \in Cages, u \in Threads : d # c \/ u # v => pc'[<<d, u>>] = pc[<<d, u>>]
    BY <2>0 DEF Created
  <2> QED
    BY <1>1, <2>1 DEF Forking
<1>7. CASE Register(c, t) \/ ThreadExit(c, t) \/ Move(c, t) \/ ReapMove(c, t)
  <2>1. Local(c, t) /\ pc'[<<c, t>>] \in Plain \cup {"finalize", "gone"}
    BY <1>7, RegisterEffect, ThreadExitEffect DEF Move, ReapMove, Plain
  <2> QED
    BY <1>2, <2>1 DEF Plain, SigLoop, Forking
<1>8. CASE \/ CrashThread(c, t) \/ FinLookup(c, t) \/ FinDec(c, t) \/ FinPush(c, t)
           \/ FinSignal(c, t) \/ FinCount(c, t) \/ FinRemove(c, t)
  <2>1. PICK l \in {"gone", "fin_dec", "fin_push", "fin_signal", "fin_remove", "fin_count"} :
           Goto(c, t, l) /\ UNCHANGED arg /\ pc[<<c, t>>] # "none"
    BY <1>8 DEF CrashThread, FinLookup, FinDec, FinPush, FinSignal, FinCount, FinRemove, At
  <2>2. Local(c, t) /\ pc'[<<c, t>>] = l
    BY <1>0, <2>1, GotoLocal DEF PcSet, Leaving
  <2> QED
    BY <1>2, <2>1, <2>2 DEF Forking
<1> QED
  BY <1>a, <1>3, <1>4, <1>5, <1>6, <1>7, <1>8 DEF Other

\* Every step keeps it.
LEMMA NextBase ==
    ASSUME EndsAlone', BaseInv, NEW c \in Cages, NEW t \in Threads,
           Guest(c, t) \/ Host(c, t)
    PROVE  BaseInv'
<1>1. TypeOK'
  <2>1. ForkPid
    <3>1. \A d \in Cages, u \in Threads : pc[<<d, u>>] \in Forking => arg[<<d, u>>].pid \in 2..nextId
      BY DEF BaseInv, ThreadInv
    <3> QED
      BY <3>1 DEF ForkPid, Thr
  <2> QED
    BY <2>1, NextType DEF BaseInv, Next
<1>2. Move(c, t) \/ ReapMove(c, t) \/ Other(c, t)
  BY StepKinds DEF BaseInv
<1>3. OneChildEach'
  BY NextOneChild
<1> QED
  BY <1>1, <1>2, <1>3, MoveBase, FinBase, ForkCountBase, ForkAddBase, ForkStartBase, SpawnBase,
     RegisterBase, ThreadExitBase, FinRemoveBase DEF Other

-----------------------------------------------------------------------------
(***************************************************************************)
(* Zombies and statuses.                                                   *)
(***************************************************************************)
\* A cage that has ended stays so.
LEMMA EndedStays ==
    ASSUME EndsAlone', BaseInv, NEW c \in Cages, NEW t \in Threads,
           Guest(c, t) \/ Host(c, t),
           NEW d \in Cages, Ended(d), Begun(d)
    PROVE  Ended(d)' /\ Begun(d)'
<1>0. TypeOK /\ ThreadInv(c, t)
  BY DEF BaseInv
<1>1. Move(c, t) \/ ReapMove(c, t) \/ Other(c, t)
  BY <1>0, StepKinds
<1>a. ASSUME Local(c, t), \/ d # c
                          \/ pc'[<<c, t>>] \notin Registered \cup Reporting \cup {"starting"}
                          \/ pc[<<c, t>>] \in Registered \cup Reporting \cup {"starting"}
      PROVE  Ended(d)' /\ Begun(d)'
  <2>1. /\ \A e \in Cages : Begun(e)' <=> Begun(e)
        /\ \A e \in Cages, u \in Threads : e # c \/ u # t => pc'[<<e, u>>] = pc[<<e, u>>]
    BY <1>a, LocalSame
  <2>2. ASSUME NEW u \in Threads PROVE pc'[<<d, u>>] \notin Registered \cup Reporting \cup {"starting"}
    <3>1. pc[<<d, u>>] \notin Registered \cup Reporting \cup {"starting"}
      BY DEF Ended
    <3>2. CASE d # c \/ u # t
      BY <2>1, <3>1, <3>2
    <3>3. CASE d = c /\ u = t
      BY <1>a, <3>1, <3>3
    <3> QED
      BY <3>2, <3>3
  <2> QED
    BY <2>1, <2>2 DEF Ended
<1>2. CASE Move(c, t) \/ ReapMove(c, t)
  BY <1>2, <1>a DEF Move, ReapMove, Registered
<1>3. CASE ForkCount(c, t)
  BY <1>3, <1>a, ForkCountEffect DEF Registered, Plain
<1>4. CASE ForkAdd(c, t)
  BY <1>4, <1>a, ForkAddEffect DEF ChildAdded, Registered, Forking
<1>5. CASE ForkStart(c, t)
  <2>1. PICK ch \in 2..nextId : ChildStarts(c, t, ch)
    BY <1>5, ForkStartEffect
  <2>2. d # c /\ d # ch
    BY <2>1 DEF ChildStarts, Ended, Registered, Forking
  <2> QED
    BY <2>1, <2>2 DEF ChildStarts, Ended
<1>6. ASSUME NEW u \in Threads, Spawn(c, t, u) PROVE Ended(d)' /\ Begun(d)'
  <2>0. Created(c, t, u)
    BY <1>6, SpawnEffect
  <2>1. /\ pc[<<c, t>>] = "wasm"
        /\ \A e \in Cages, v \in Threads :
              e # c \/ v # u => pc'[<<e, v>>] = pc[<<e, v>>]
        /\ \A e \in Cages : Begun(e)' <=> Begun(e)
    BY <2>0 DEF Created
  <2>2. d # c
    BY <2>1 DEF Ended, Registered, Plain
  <2> QED
    BY <2>1, <2>2 DEF Ended
<1>9. CASE Register(c, t)
  BY <1>9, <1>a, RegisterEffect
<1>7. CASE ThreadExit(c, t)
  BY <1>7, <1>a, ThreadExitEffect DEF Registered, Plain
<1>8. CASE \/ CrashThread(c, t) \/ FinLookup(c, t) \/ FinDec(c, t) \/ FinPush(c, t)
           \/ FinSignal(c, t) \/ FinCount(c, t) \/ FinRemove(c, t)
  <2>1. PICK l \in {"gone", "fin_dec", "fin_push", "fin_signal", "fin_remove", "fin_count"} :
           /\ Goto(c, t, l) /\ UNCHANGED arg /\ pc[<<c, t>>] # "none"
           /\ \/ pc[<<c, t>>] \in {"wasm", "finalize", "fin_dec", "fin_push"}
              \/ l \in {"gone", "fin_signal", "fin_remove", "fin_count"}
    BY <1>8 DEF CrashThread, FinLookup, FinDec, FinPush, FinSignal, FinCount, FinRemove, At
  <2>2. Local(c, t) /\ pc'[<<c, t>>] = l
    BY <1>0, <2>1, GotoLocal DEF PcSet, Leaving
  <2> QED
    BY <1>a, <2>1, <2>2 DEF Registered, Plain, SigLoop, Forking, Reporting
<1> QED
  BY <1>1, <1>2, <1>3, <1>4, <1>5, <1>6, <1>7, <1>8, <1>9 DEF Other

\* The status of a cage that has ended does not change.
LEMMA StatusStays ==
    ASSUME EndsAlone', BaseInv, NEW c \in Cages, NEW t \in Threads,
           Guest(c, t) \/ Host(c, t)
    PROVE  /\ status = first => status' = first'
           /\ \A d \in Cages : Ended(d) => status'[d] = status[d]
<1>0. TypeOK /\ ThreadInv(c, t)
  BY DEF BaseInv
<1>1. Move(c, t) \/ ReapMove(c, t) \/ Other(c, t)
  BY <1>0, StepKinds
<1>2. CASE UNCHANGED <<status, first>>
  BY <1>2
<1>3. ASSUME Move(c, t), NEW s \in Statuses, Record(c, s)
      PROVE  /\ status = first => status' = first'
             /\ \A d \in Cages : Ended(d) => status'[d] = status[d]
  <2>1. ~Ended(c)
    BY <1>3 DEF Move, Ended, Registered
  <2>2. status = first => status' = first'
    BY <1>3 DEF Record
  <2>3. \A d \in Cages \ {c} : status'[d] = status[d]
    BY <1>0, <1>3 DEF Record, TypeOK
  <2> QED
    BY <2>1, <2>2, <2>3
<1>4. CASE ReapMove(c, t) \/ Other(c, t)
  <2>1. UNCHANGED <<status, first>>
    BY <1>4 DEF ReapMove, Other, ForkCount, ForkAdd, ForkStart, Spawn, Register, CrashThread, ThreadExit,
       FinLookup, FinDec, FinPush, FinSignal, FinRemove, FinCount
  <2> QED
    BY <1>2, <2>1
<1> QED
  BY <1>1, <1>2, <1>3, <1>4 DEF Move

\* A zombie stays as it is while no one takes it.
LEMMA ZombieStays ==
    ASSUME BaseInv, nextId' \in Nat, nextId' >= nextId,
           \A x \in 2..nextId : parent'[x] = parent[x],
           \A d \in Cages : Ended(d) /\ Begun(d) =>
               Ended(d)' /\ Begun(d)' /\ status'[d] = status[d],
           NEW c \in Cages, NEW z, ZombieOK(c, z), reaped'[z.cageid] = reaped[z.cageid]
    PROVE  ZombieOK(c, z)'
<1>0. /\ nextId \in Nat
      /\ \A x \in 2..nextId : x \in Cages
  BY Ids DEF BaseInv
<1>1. PICK ch : ch = z.cageid
  OBVIOUS
<1>2. /\ ch \in 2..nextId /\ parent[ch] = c
      /\ reaped[ch] = 0 /\ Ended(ch) /\ Begun(ch)
      /\ z.exit_code = Final(ch)
  BY <1>1 DEF ZombieOK
<1>3. ch \in Cages /\ ch \in 2..nextId'
  BY <1>0, <1>2
<1>4. Ended(ch)' /\ Begun(ch)' /\ status'[ch] = status[ch]
  BY <1>2, <1>3
<1>5. Final(ch)' = Final(ch)
  BY <1>4 DEF Final
<1> QED
  BY <1>1, <1>2, <1>3, <1>4, <1>5 DEF ZombieOK

\* Steps that neither leave nor take a zombie.
LEMMA QuietReport ==
    ASSUME BaseInv, ReportInv, UNCHANGED <<zombies, reaped>>, nextId' \in Nat, nextId' >= nextId,
           \A x \in 2..nextId : parent'[x] = parent[x],
           status' = first',
           \A d \in Cages : Ended(d) /\ Begun(d) =>
               Ended(d)' /\ Begun(d)' /\ status'[d] = status[d]
    PROVE  ReportInv'
<1>1. ASSUME NEW c \in Cages PROVE ZombieInv(c)'
  <2>1. ZombieInv(c)
    BY DEF ReportInv
  <2>2. ASSUME NEW i \in 1..Len(zombies'[c]) PROVE ZombieOK(c, zombies[c][i])'
    <3>1. PICK z : z = zombies[c][i]
      OBVIOUS
    <3>2. ZombieOK(c, z)
      BY <2>1, <3>1 DEF ZombieInv
    <3>3. ZombieOK(c, z)'
      BY <3>2, ZombieStays
    <3> QED
      BY <3>1, <3>3
  <2>3. \A i, j \in 1..Len(zombies'[c]) :
           zombies'[c][i].cageid = zombies'[c][j].cageid => i = j
    BY <2>1 DEF ZombieInv
  <2> QED
    BY <2>2, <2>3 DEF ZombieInv
<1>2. ReapInv'
  BY DEF ReportInv, ReapInv
<1> QED
  BY <1>1, <1>2 DEF ReportInv

\* cage_finalize leaves a zombie.
LEMMA PushReport ==
    ASSUME EndsAlone', BaseInv, ReportInv, NEW c \in Cages, NEW t \in Threads,
           FinPush(c, t),
           status' = first',
           \A d \in Cages : Ended(d) /\ Begun(d) =>
               Ended(d)' /\ Begun(d)' /\ status'[d] = status[d]
    PROVE  ReportInv' /\ zombies'[parent[c]] = Append(zombies[parent[c]], Zombie(c))
           /\ \A d \in Cages \ {parent[c]} : zombies'[d] = zombies[d]
<1>0. TypeOK /\ ThreadInv(c, t) /\ TreeInv
  BY DEF BaseInv
<1>1. /\ pc[<<c, t>>] = "fin_push" /\ Goto(c, t, "fin_signal")
      /\ UNCHANGED <<nextId, parent, arg, reaped, status>>
      /\ zombies' = [zombies EXCEPT ![parent[c]] = Append(@, Zombie(c))]
  BY DEF FinPush, At, treeVars
<1>2. Local(c, t) /\ pc'[<<c, t>>] = "fin_signal"
  BY <1>0, <1>1, GotoLocal DEF PcSet, Leaving
<1>3. PICK q \in Cages : q = parent[c]
  BY <1>0 DEF TypeOK
<1>4. PICK z : z = zombies[q]
  OBVIOUS
<1>5. z \in Seq(ZombieType) /\ Len(z) \in Nat
  BY <1>4, <1>0 DEF TypeOK
<1>6. PICK n : n = Zombie(c)
  OBVIOUS
<1>7. /\ zombies'[q] = Append(z, n)
      /\ \A d \in Cages \ {q} : zombies'[d] = zombies[d]
  BY <1>0, <1>1, <1>3, <1>4, <1>6 DEF TypeOK
<1>8. n.cageid = c /\ n.exit_code = Final(c)
  BY <1>6 DEF Zombie, Final
<1>9. n \in ZombieType
  BY <1>0, <1>6 DEF Zombie, ZombieType, TypeOK, Statuses, NoStatus
<1>10. /\ Len(Append(z, n)) = Len(z) + 1 /\ Append(z, n)[Len(z) + 1] = n
       /\ \A i \in 1..Len(z) : Append(z, n)[i] = z[i]
  BY <1>5, <1>9
<1>11. ~Ended(c) /\ Begun(c)
  BY <1>1 DEF Ended, Begun, Reporting
<1>12. c \in 2..nextId
  <2>1. c # INIT_CAGEID
    BY <1>0, <1>1 DEF ThreadInv
  <2>2. ~(c > nextId)
    BY <1>0, <1>11 DEF TreeInv
  <2> QED
    BY <1>0, <2>1, <2>2, Ids DEF Cages, INIT_CAGEID
<1>13. reaped[c] = 0
  BY <1>11 DEF ReportInv, ReapInv
<1>14. Ended(c)' /\ Begun(c)'
  <2>1. /\ \A d \in Cages : Begun(d)' <=> Begun(d)
        /\ \A d \in Cages, u \in Threads : d # c \/ u # t => pc'[<<d, u>>] = pc[<<d, u>>]
    BY <1>2, LocalSame
  <2>2. ASSUME NEW u \in Threads PROVE pc'[<<c, u>>] \notin Registered \cup Reporting \cup {"starting"}
    <3>1. CASE u = t
      BY <1>2, <3>1 DEF Registered, Plain, SigLoop, Forking, Reporting
    <3>2. CASE u # t
      <4>1. pc'[<<c, u>>] = pc[<<c, u>>] /\ ThreadInv(c, u)
        BY <2>1, <3>2 DEF BaseInv
      <4>2. threads[c] = {}
        BY <1>0, <1>1 DEF ThreadInv, Finalizing, Reporting
      <4>3. pc[<<c, u>>] \notin Finalizing
        BY <1>1, <3>2 DEF BaseInv, OneFinalizer, Finalizing, Reporting
      <4> QED
        BY <4>1, <4>2, <4>3 DEF ThreadInv, Finalizing
    <3> QED
      BY <3>1, <3>2
  <2> QED
    BY <1>11, <2>1, <2>2 DEF Ended
<1>15. nextId \in Nat
  BY <1>0, Ids
<1>16. ZombieOK(q, n)'
  <2>1. Final(c)' = Final(c)
    BY <1>1 DEF Final
  <2> QED
    BY <1>1, <1>3, <1>8, <1>12, <1>13, <1>14, <2>1 DEF ZombieOK
<1>17. ASSUME NEW d \in Cages PROVE ZombieInv(d)'
  <2>1. ZombieInv(d)
    BY DEF ReportInv
  <2>2. ASSUME NEW i \in 1..Len(zombies[d]) PROVE ZombieOK(d, zombies[d][i]) /\ zombies[d][i].cageid # c
    BY <1>11, <2>1 DEF ZombieInv, ZombieOK
  <2>3. ASSUME NEW i \in 1..Len(zombies[d]), NEW y, y = zombies[d][i]
        PROVE  ZombieOK(d, y)'
    <3>1. ZombieOK(d, y)
      BY <2>2, <2>3
    <3> QED
      BY <1>1, <1>15, <3>1, ZombieStays
  <2>4. CASE d # q
    <3>1. zombies'[d] = zombies[d]
      BY <1>7, <2>4
    <3>2. ASSUME NEW i \in 1..Len(zombies'[d]) PROVE ZombieOK(d, zombies[d][i])'
      <4>1. PICK y : y = zombies[d][i]
        OBVIOUS
      <4> QED
        BY <2>3, <3>1, <4>1
    <3> QED
      BY <2>1, <3>1, <3>2 DEF ZombieInv
  <2>5. CASE d = q
    <3>1. zombies'[d] = Append(z, n) /\ zombies[d] = z
      BY <1>4, <1>7, <2>5
    <3>2. ASSUME NEW i \in 1..Len(zombies'[d]) PROVE ZombieOK(d, zombies[d][i])'
      <4>1. CASE i = Len(z) + 1
        <5>1. zombies'[d][i] = n
          BY <1>10, <3>1, <4>1
        <5> QED
          BY <1>16, <2>5, <5>1
      <4>2. CASE i # Len(z) + 1
        <5>1. i \in 1..Len(z) /\ zombies'[d][i] = z[i]
          BY <1>5, <1>10, <3>1, <4>2
        <5>2. PICK y : y = z[i]
          OBVIOUS
        <5>3. ZombieOK(d, y)'
          BY <2>3, <3>1, <5>1, <5>2
        <5> QED
          BY <5>1, <5>2, <5>3
      <4> QED
        BY <4>1, <4>2
    <3>3. ASSUME NEW i \in 1..(Len(z) + 1), NEW j \in 1..(Len(z) + 1),
                 Append(z, n)[i].cageid = Append(z, n)[j].cageid
          PROVE  i = j
      <4>1. CASE i # Len(z) + 1 /\ j # Len(z) + 1
        BY <1>5, <1>10, <2>1, <3>1, <3>3, <4>1 DEF ZombieInv
      <4>2. CASE i = Len(z) + 1 /\ j # Len(z) + 1
        BY <1>5, <1>8, <1>10, <2>2, <3>1, <3>3, <4>2
      <4>3. CASE i # Len(z) + 1 /\ j = Len(z) + 1
        BY <1>5, <1>8, <1>10, <2>2, <3>1, <3>3, <4>3
      <4> QED
        BY <4>1, <4>2, <4>3
    <3> QED
      BY <1>10, <3>1, <3>2, <3>3 DEF ZombieInv
  <2> QED
    BY <2>4, <2>5
<1>18. ReapInv'
  BY <1>1 DEF ReportInv, ReapInv
<1> QED
  BY <1>3, <1>4, <1>6, <1>7, <1>17, <1>18 DEF ReportInv

\* waitpid takes one.
LEMMA TakeReport ==
    ASSUME BaseInv, ReportInv, NEW c \in Cages, NEW t \in Threads,
           NEW i \in 1..Len(zombies[c]), TakesZombie(c, t, i),
           UNCHANGED <<nextId, parent>>,
           status' = first',
           \A d \in Cages : Ended(d) /\ Begun(d) =>
               Ended(d)' /\ Begun(d)' /\ status'[d] = status[d]
    PROVE  ReportInv'
<1>0. TypeOK /\ nextId \in Nat /\ Len(zombies[c]) \in Nat
  <2>1. TypeOK
    BY DEF BaseInv
  <2>2. zombies[c] \in Seq(ZombieType)
    BY <2>1 DEF TypeOK
  <2> QED
    BY <2>1, <2>2, Ids
<1>1. PICK ch \in Cages : ch = zombies[c][i].cageid
  BY DEF TakesZombie
<1>2. /\ parent[ch] = c /\ reaped[ch] = 0 /\ Ended(ch) /\ Begun(ch)
  BY <1>1 DEF ReportInv, ZombieInv, ZombieOK
<1>3. reaped'[ch] = 1 /\ \A d \in Cages \ {ch} : reaped'[d] = reaped[d]
  <2>1. reaped' = [reaped EXCEPT ![ch] = reaped[ch] + 1]
    BY <1>1 DEF TakesZombie
  <2>2. reaped \in [Cages -> Nat]
    BY <1>0 DEF TypeOK
  <2> QED
    BY <1>2, <2>1, <2>2
<1>4. ASSUME NEW d \in Cages, NEW y, ZombieOK(d, y), y.cageid # ch PROVE ZombieOK(d, y)'
  <2>1. y.cageid \in Cages
    BY <1>0, <1>4, Ids DEF ZombieOK
  <2>2. reaped'[y.cageid] = reaped[y.cageid]
    BY <1>3, <1>4, <2>1
  <2> QED
    BY <1>0, <1>4, <2>2, ZombieStays
<1>5. ASSUME NEW d \in Cages PROVE ZombieInv(d)'
  <2>1. ZombieInv(d)
    BY DEF ReportInv
  <2>2. CASE d # c
    <3>1. zombies'[d] = zombies[d]
      BY <2>2 DEF TakesZombie
    <3>2. ASSUME NEW k \in 1..Len(zombies'[d]) PROVE ZombieOK(d, zombies[d][k])'
      <4>1. PICK y : y = zombies[d][k]
        OBVIOUS
      <4>2. ZombieOK(d, y)
        BY <2>1, <3>1, <4>1 DEF ZombieInv
      <4>3. y.cageid # ch
        BY <1>2, <2>2, <4>2 DEF ZombieOK
      <4> QED
        BY <1>4, <3>1, <4>1, <4>2, <4>3
    <3> QED
      BY <2>1, <3>1, <3>2 DEF ZombieInv
  <2>3. CASE d = c
    <3>0. Len(zombies'[c]) = Len(zombies[c]) - 1
      BY DEF TakesZombie
    <3>1. ASSUME NEW k \in 1..Len(zombies'[c])
          PROVE  LET m == IF k < i THEN k ELSE k + 1 IN
                 m \in 1..Len(zombies[c]) /\ m # i /\ zombies'[c][k] = zombies[c][m]
      <4>1. k \in 1..(Len(zombies[c]) - 1)
        BY <3>0
      <4>2. zombies'[c][k] = IF k < i THEN zombies[c][k] ELSE zombies[c][k + 1]
        BY <4>1 DEF TakesZombie
      <4> QED
        BY <1>0, <4>1, <4>2
    <3>2. ASSUME NEW k \in 1..Len(zombies'[c]) PROVE ZombieOK(c, zombies[c][k])'
      <4>1. PICK m \in 1..Len(zombies[c]) : m # i /\ zombies'[c][k] = zombies[c][m]
        BY <3>1
      <4>2. PICK y : y = zombies[c][m]
        OBVIOUS
      <4>3. ZombieOK(c, y) /\ y.cageid # ch
        BY <1>1, <2>1, <2>3, <4>1, <4>2 DEF ZombieInv
      <4>4. ZombieOK(c, y)'
        BY <1>4, <4>3
      <4> QED
        BY <4>1, <4>2, <4>4
    <3>3. ASSUME NEW k \in 1..Len(zombies'[c]), NEW j \in 1..Len(zombies'[c]),
                 zombies'[c][k].cageid = zombies'[c][j].cageid
          PROVE  k = j
      <4>1. PICK m \in 1..Len(zombies[c]) :
               m = (IF k < i THEN k ELSE k + 1) /\ zombies'[c][k] = zombies[c][m]
        BY <3>1
      <4>2. PICK n \in 1..Len(zombies[c]) :
               n = (IF j < i THEN j ELSE j + 1) /\ zombies'[c][j] = zombies[c][n]
        BY <3>1
      <4>3. m = n
        BY <2>1, <2>3, <3>3, <4>1, <4>2 DEF ZombieInv
      <4> QED
        BY <1>0, <3>0, <4>1, <4>2, <4>3
    <3> QED
      BY <2>3, <3>2, <3>3 DEF ZombieInv
  <2> QED
    BY <2>2, <2>3
<1>6. ReapInv'
  BY <1>2, <1>3 DEF ReportInv, ReapInv
<1> QED
  BY <1>5, <1>6 DEF ReportInv

\* The initial state.
LEMMA InitReport == Init => ReportInv
BY DEF Init, ReportInv, ZombieInv, ReapInv

\* Every step keeps it.
LEMMA NextReport ==
    ASSUME EndsAlone', BaseInv, BaseInv', ReportInv, NEW c \in Cages, NEW t \in Threads,
           Guest(c, t) \/ Host(c, t)
    PROVE  ReportInv'
<1>0. TypeOK /\ nextId \in Nat /\ nextId' \in Nat /\ status = first
  <2>1. TypeOK /\ TypeOK' /\ status = first
    BY DEF BaseInv, ReportInv
  <2>2. nextId \in 1..MaxCageId /\ nextId' \in 1..MaxCageId
    BY <2>1 DEF TypeOK, Cages
  <2> QED
    BY <2>1, <2>2, LifeAssumption
<1>1. /\ status' = first'
      /\ \A d \in Cages : Ended(d) => status'[d] = status[d]
  BY <1>0, StatusStays
<1>2. \A d \in Cages : Ended(d) /\ Begun(d) =>
         Ended(d)' /\ Begun(d)' /\ status'[d] = status[d]
  BY <1>1, EndedStays
<1>3. CASE UNCHANGED <<zombies, reaped, nextId, parent>>
  BY <1>0, <1>1, <1>2, <1>3, QuietReport
<1>4. CASE ForkCount(c, t)
  <2>1. /\ nextId' = nextId + 1 /\ UNCHANGED <<zombies, reaped>>
        /\ \A x \in Cages \ {nextId + 1} : parent'[x] = parent[x]
    BY <1>4, ForkCountEffect
  <2>2. \A x \in 2..nextId : parent'[x] = parent[x]
    BY <1>0, <2>1, Ids
  <2> QED
    BY <1>0, <1>1, <1>2, <2>1, <2>2, QuietReport
<1>5. CASE FinPush(c, t)
  BY <1>1, <1>2, <1>5, PushReport
<1>6. CASE ReapMove(c, t)
  <2>1. PICK i \in 1..Len(zombies[c]) : TakesZombie(c, t, i)
    BY <1>0, <1>6, ReapEffect DEF ReapMove
  <2>2. UNCHANGED <<nextId, parent>>
    BY <1>6 DEF ReapMove, treeVars
  <2> QED
    BY <1>1, <1>2, <2>1, <2>2, TakeReport
<1>7. Move(c, t) \/ ReapMove(c, t) \/ Other(c, t)
  BY <1>0, StepKinds
<1> QED
  BY <1>3, <1>4, <1>5, <1>6, <1>7
  DEF Move, Other, ForkAdd, ForkStart, Spawn, Register, CrashThread, ThreadExit, FinLookup, FinDec,
      FinSignal, FinRemove, FinCount, treeVars, waitVars

-----------------------------------------------------------------------------
(***************************************************************************)
(* What every step leaves alone.                                           *)
(***************************************************************************)
\* Other threads stay where they are, or start.
LEMMA StepFrame ==
    ASSUME EndsAlone', BaseInv, NEW c \in Cages, NEW t \in Threads,
           Guest(c, t) \/ Host(c, t)
    PROVE  \A d \in Cages, u \in Threads : d # c \/ u # t =>
              /\ \/ pc'[<<d, u>>] = pc[<<d, u>>]
                 \/ pc[<<d, u>>] = "none" /\ pc'[<<d, u>>] \in {"wasm", "gone", "starting"}
              /\ arg'[<<d, u>>] = arg[<<d, u>>]
<1>0. TypeOK
  BY DEF BaseInv
<1>1. Move(c, t) \/ ReapMove(c, t) \/ Other(c, t)
  BY <1>0, StepKinds
<1>2. CASE Local(c, t)
  BY <1>2, LocalSame
<1>3. CASE ForkStart(c, t)
  <2>1. PICK ch \in 2..nextId : ChildStarts(c, t, ch)
    BY <1>3, ForkStartEffect
  <2>2. ASSUME NEW d \in Cages, NEW u \in Threads, d # c \/ u # t
        PROVE  /\ \/ pc'[<<d, u>>] = pc[<<d, u>>]
                  \/ pc[<<d, u>>] = "none" /\ pc'[<<d, u>>] \in {"wasm", "gone", "starting"}
               /\ arg'[<<d, u>>] = arg[<<d, u>>]
    <3>1. CASE d = ch /\ u = THREAD_START_ID
      BY <2>1, <2>2, <3>1 DEF ChildStarts, Begun
    <3>2. CASE d # ch \/ u # THREAD_START_ID
      BY <2>1, <2>2, <3>2 DEF ChildStarts
    <3> QED
      BY <3>1, <3>2
  <2> QED
    BY <2>2
<1>4. ASSUME NEW v \in Threads, Spawn(c, t, v)
      PROVE  \A d \in Cages, u \in Threads : d # c \/ u # t =>
                /\ \/ pc'[<<d, u>>] = pc[<<d, u>>]
                   \/ pc[<<d, u>>] = "none" /\ pc'[<<d, u>>] \in {"wasm", "gone", "starting"}
                /\ arg'[<<d, u>>] = arg[<<d, u>>]
  <2>0. Created(c, t, v)
    BY <1>4, SpawnEffect
  <2>1. /\ pc[<<c, v>>] = "none" /\ pc'[<<c, v>>] = "starting" /\ arg' = arg
        /\ \A d \in Cages, u \in Threads : d # c \/ u # v => pc'[<<d, u>>] = pc[<<d, u>>]
    BY <2>0 DEF Created
  <2>2. ASSUME NEW d \in Cages, NEW u \in Threads
        PROVE  /\ \/ pc'[<<d, u>>] = pc[<<d, u>>]
                  \/ pc[<<d, u>>] = "none" /\ pc'[<<d, u>>] \in {"wasm", "gone", "starting"}
               /\ arg'[<<d, u>>] = arg[<<d, u>>]
    <3>1. CASE d = c /\ u = v
      BY <2>1, <3>1
    <3>2. CASE d # c \/ u # v
      BY <2>1, <3>2
    <3> QED
      BY <3>1, <3>2
  <2> QED
    BY <2>2
<1>5. CASE \/ CrashThread(c, t) \/ FinLookup(c, t) \/ FinDec(c, t) \/ FinPush(c, t)
           \/ FinSignal(c, t) \/ FinCount(c, t) \/ FinRemove(c, t)
  <2>1. PICK l \in {"gone", "fin_dec", "fin_push", "fin_signal", "fin_remove", "fin_count"} :
           Goto(c, t, l) /\ UNCHANGED arg /\ pc[<<c, t>>] # "none"
    BY <1>5 DEF CrashThread, FinLookup, FinDec, FinPush, FinSignal, FinCount, FinRemove, At
  <2>2. Local(c, t)
    BY <1>0, <2>1, GotoLocal DEF PcSet, Leaving
  <2> QED
    BY <1>2, <2>2
<1>6. CASE \/ Move(c, t) \/ ReapMove(c, t) \/ ForkCount(c, t) \/ Register(c, t)
           \/ ThreadExit(c, t)
  <2>1. Local(c, t)
    BY <1>6, ForkCountEffect, RegisterEffect, ThreadExitEffect DEF Move, ReapMove
  <2> QED
    BY <1>2, <2>1
<1>7. CASE ForkAdd(c, t)
  <2>1. Local(c, t)
    BY <1>7, ForkAddEffect DEF ChildAdded
  <2> QED
    BY <1>2, <2>1
<1> QED
  BY <1>1, <1>3, <1>4, <1>5, <1>6, <1>7 DEF Other

\* The tree only grows; CAGE_MAP gains a cage that has not begun and loses the
\* cage of a thread at the end of cage_finalize.
LEMMA StepTree ==
    ASSUME EndsAlone', BaseInv, NEW c \in Cages, NEW t \in Threads,
           Guest(c, t) \/ Host(c, t)
    PROVE  /\ nextId' = nextId \/ (nextId' = nextId + 1 /\ ForkCount(c, t))
           /\ \A x \in 1..nextId : parent'[x] = parent[x]
           /\ \A x \in cages' \ cages : ~Begun(x) /\ ForkAdd(c, t)
           /\ \A x \in cages \ cages' : x = c /\ pc[<<c, t>>] = "fin_remove"
           /\ \A d \in Cages : Begun(d) => Begun(d)'
<1>0. TypeOK
  BY DEF BaseInv
<1>1. Move(c, t) \/ ReapMove(c, t) \/ Other(c, t)
  BY <1>0, StepKinds
<1>2. \A d \in Cages : Begun(d) => Begun(d)'
  <2>1. pc'[<<c, t>>] # "none"
    <3>1. CASE ForkStart(c, t)
      BY <3>1, ForkStartEffect DEF ChildStarts
    <3>2. ASSUME NEW u \in Threads, Spawn(c, t, u) PROVE pc'[<<c, t>>] # "none"
      BY <3>2, SpawnEffect DEF Created
    <3>3. CASE \/ Move(c, t) \/ ReapMove(c, t) \/ ForkCount(c, t) \/ Register(c, t)
               \/ ThreadExit(c, t)
      BY <3>3, ForkCountEffect, RegisterEffect, ThreadExitEffect DEF Move, ReapMove, Local
    <3>4. CASE ForkAdd(c, t)
      BY <3>4, ForkAddEffect DEF ChildAdded
    <3>5. CASE \/ CrashThread(c, t) \/ FinLookup(c, t) \/ FinDec(c, t) \/ FinPush(c, t)
               \/ FinSignal(c, t) \/ FinCount(c, t) \/ FinRemove(c, t)
      <4>1. PICK l \in {"gone", "fin_dec", "fin_push", "fin_signal", "fin_remove", "fin_count"} :
               Goto(c, t, l) /\ UNCHANGED arg /\ pc[<<c, t>>] # "none"
        BY <3>5 DEF CrashThread, FinLookup, FinDec, FinPush, FinSignal, FinCount, FinRemove, At
      <4> QED
        BY <1>0, <4>1, GotoLocal DEF PcSet, Leaving
    <3> QED
      BY <1>1, <3>1, <3>2, <3>3, <3>4, <3>5 DEF Other
  <2> QED
    BY <2>1, StepFrame DEF Begun
<1>3. CASE ForkCount(c, t)
  <2>1. /\ nextId' = nextId + 1 /\ UNCHANGED cages
        /\ \A x \in Cages \ {nextId + 1} : parent'[x] = parent[x]
    BY <1>3, ForkCountEffect
  <2>2. \A x \in 1..nextId : parent'[x] = parent[x]
    BY <1>0, <2>1, Ids
  <2> QED
    BY <1>2, <1>3, <2>1, <2>2
<1>4. CASE ForkAdd(c, t)
  <2>1. PICK ch \in 2..nextId : ChildAdded(c, t, ch)
    BY <1>4, ForkAddEffect
  <2> QED
    BY <1>2, <1>4, <2>1 DEF ChildAdded, treeVars
<1>5. CASE FinRemove(c, t)
  BY <1>2, <1>5 DEF FinRemove, At, treeVars
<1>6. CASE UNCHANGED <<nextId, parent, cages>>
  BY <1>2, <1>6
<1> QED
  BY <1>1, <1>3, <1>4, <1>5, <1>6
  DEF Move, ReapMove, Other, ForkStart, Spawn, Register, CrashThread, ThreadExit, FinLookup, FinDec,
      FinPush, FinSignal, FinCount, treeVars

\* A cage that has been reported stays so.
LEMMA ReportedStays ==
    ASSUME EndsAlone', BaseInv, ReportInv, NEW c \in Cages, NEW t \in Threads,
           Guest(c, t) \/ Host(c, t),
           NEW d \in 2..nextId, Reported(d)
    PROVE  Reported(d)'
<1>0. TypeOK /\ d \in Cages /\ d \in 1..nextId
  BY Ids DEF BaseInv
<1>1. parent'[d] = parent[d] /\ parent[d] \in Cages
  BY <1>0, StepTree DEF TypeOK
<1>2. PICK q \in Cages : q = parent[d]
  BY <1>1
<1>3. reaped[d] > 0 \/ ZombiesOf(q, d) # {}
  BY <1>2 DEF Reported
<1>4. Move(c, t) \/ ReapMove(c, t) \/ Other(c, t)
  BY <1>0, StepKinds
<1>a. zombies[q] \in Seq(ZombieType) /\ Len(zombies[q]) \in Nat
  BY <1>0 DEF TypeOK
<1>5. CASE UNCHANGED <<zombies, reaped>>
  BY <1>1, <1>5 DEF Reported, ZombiesOf
<1>6. CASE FinPush(c, t)
  <2>1. zombies' = [zombies EXCEPT ![parent[c]] = Append(@, Zombie(c))] /\ reaped' = reaped
    BY <1>6 DEF FinPush
  <2>2. ZombiesOf(q, d) # {} => \E i \in 1..Len(zombies'[q]) : zombies'[q][i].cageid = d
    <3>1. CASE parent[c] # q
      <4>1. zombies'[q] = zombies[q]
        BY <1>0, <2>1, <3>1 DEF TypeOK
      <4> QED
        BY <4>1 DEF ZombiesOf
    <3>2. CASE parent[c] = q
      <4>1. PICK n : n = Zombie(c)
        OBVIOUS
      <4>2. n \in ZombieType
        BY <1>0, <4>1 DEF Zombie, ZombieType, TypeOK, Statuses, NoStatus
      <4>3. zombies'[q] = Append(zombies[q], n)
        BY <1>0, <2>1, <3>2, <4>1 DEF TypeOK
      <4>4. /\ Len(zombies'[q]) = Len(zombies[q]) + 1
            /\ \A i \in 1..Len(zombies[q]) : zombies'[q][i] = zombies[q][i]
        BY <1>a, <4>2, <4>3
      <4> QED
        BY <1>a, <4>4 DEF ZombiesOf
    <3> QED
      BY <3>1, <3>2
  <2> QED
    BY <1>1, <1>2, <1>3, <2>1, <2>2 DEF Reported, ZombiesOf
<1>7. CASE ReapMove(c, t)
  <2>1. PICK i \in 1..Len(zombies[c]) : TakesZombie(c, t, i)
    BY <1>0, <1>7, ReapEffect DEF ReapMove
  <2>2. PICK ch \in Cages : ch = zombies[c][i].cageid
    BY <2>1 DEF TakesZombie
  <2>3. /\ reaped'[ch] = reaped[ch] + 1 /\ reaped[ch] \in Nat /\ reaped[d] \in Nat
        /\ \A x \in Cages \ {ch} : reaped'[x] = reaped[x]
    BY <1>0, <2>1, <2>2 DEF TakesZombie, TypeOK
  <2>4. CASE reaped[d] > 0 \/ d = ch
    BY <1>0, <2>3, <2>4 DEF Reported
  <2>5. CASE ~(reaped[d] > 0) /\ d # ch
    <3>1. PICK m \in 1..Len(zombies[q]) : zombies[q][m].cageid = d
      BY <1>3, <2>5 DEF ZombiesOf
    <3>2. \E k \in 1..Len(zombies'[q]) : zombies'[q][k].cageid = d
      <4>1. CASE q # c
        BY <2>1, <3>1, <4>1 DEF TakesZombie
      <4>2. CASE q = c
        <5>1. m # i
          BY <2>2, <2>5, <3>1, <4>2
        <5>2. PICK k \in 1..(Len(zombies[q]) - 1) : m = IF k < i THEN k ELSE k + 1
          <6>1. CASE m < i
            BY <1>a, <4>2, <6>1
          <6>2. CASE m > i
            <7>1. m - 1 \in 1..(Len(zombies[q]) - 1) /\ ~(m - 1 < i) /\ m = (m - 1) + 1
              BY <1>a, <4>2, <6>2
            <7> QED
              BY <7>1
          <6> QED
            BY <1>a, <4>2, <5>1, <6>1, <6>2
        <5>3. zombies'[q][k] = zombies[q][m]
          BY <2>1, <4>2, <5>2 DEF TakesZombie
        <5>4. k \in 1..Len(zombies'[q])
          BY <2>1, <4>2 DEF TakesZombie
        <5> QED
          BY <3>1, <5>3, <5>4
      <4> QED
        BY <4>1, <4>2
    <3> QED
      BY <1>1, <1>2, <3>2 DEF Reported, ZombiesOf
  <2> QED
    BY <2>4, <2>5
<1> QED
  BY <1>4, <1>5, <1>6, <1>7
  DEF Move, Other, ForkCount, ForkAdd, ForkStart, Spawn, Register, CrashThread, ThreadExit, FinLookup,
      FinDec, FinSignal, FinRemove, FinCount, waitVars

-----------------------------------------------------------------------------
(***************************************************************************)
(* UnreapedKnown.                                                          *)
(***************************************************************************)
\* Where the steps of cage_finalize, and a crash, take their thread.
LEMMA PlaceFin ==
    ASSUME BaseInv, NEW c \in Cages, NEW t \in Threads
    PROVE  /\ CrashThread(c, t) =>
                Local(c, t) /\ pc[<<c, t>>] = "wasm" /\ pc'[<<c, t>>] = "gone"
           /\ FinLookup(c, t) =>
                /\ Local(c, t) /\ pc[<<c, t>>] = "finalize"
                /\ pc'[<<c, t>>] = IF parent[c] = c THEN "fin_remove"
                                   ELSE IF parent[c] \in cages THEN "fin_dec" ELSE "fin_signal"
           /\ FinDec(c, t) =>
                Local(c, t) /\ pc[<<c, t>>] = "fin_dec" /\ pc'[<<c, t>>] = "fin_push"
           /\ FinPush(c, t) =>
                Local(c, t) /\ pc[<<c, t>>] = "fin_push" /\ pc'[<<c, t>>] = "fin_signal"
           /\ FinSignal(c, t) =>
                Local(c, t) /\ pc[<<c, t>>] = "fin_signal" /\ pc'[<<c, t>>] = "fin_remove"
           /\ FinCount(c, t) =>
                Local(c, t) /\ pc[<<c, t>>] = "fin_count" /\ pc'[<<c, t>>] = "gone"
<1>0. TypeOK /\ ThreadInv(c, t)
  BY DEF BaseInv
<1>1. {"gone", "fin_dec", "fin_push", "fin_signal", "fin_remove"} \subseteq PcSet \ {"none"}
  BY DEF PcSet, Leaving
<1>2. ASSUME NEW l \in PcSet \ {"none"}, Goto(c, t, l), UNCHANGED arg, pc[<<c, t>>] # "none"
      PROVE  Local(c, t) /\ pc'[<<c, t>>] = l
  BY <1>0, <1>2, GotoLocal
<1>3. ASSUME CrashThread(c, t)
      PROVE  Local(c, t) /\ pc[<<c, t>>] = "wasm" /\ pc'[<<c, t>>] = "gone"
  BY <1>1, <1>2, <1>3 DEF CrashThread, At
<1>4. ASSUME FinLookup(c, t)
      PROVE  /\ Local(c, t) /\ pc[<<c, t>>] = "finalize"
             /\ pc'[<<c, t>>] = IF parent[c] = c THEN "fin_remove"
                                ELSE IF parent[c] \in cages THEN "fin_dec" ELSE "fin_signal"
  <2>1. pc[<<c, t>>] = "finalize" /\ c \in cages
    BY <1>0, <1>4 DEF FinLookup, At, ThreadInv, Finalizing, Reporting
  <2>2. PICK l \in PcSet \ {"none"} :
           l = IF parent[c] = c THEN "fin_remove"
               ELSE IF parent[c] \in cages THEN "fin_dec" ELSE "fin_signal"
    BY <1>1
  <2>3. Goto(c, t, l) /\ UNCHANGED arg
    BY <1>4, <2>1, <2>2 DEF FinLookup
  <2> QED
    BY <1>2, <2>1, <2>2, <2>3
<1>5. ASSUME FinDec(c, t)
      PROVE  Local(c, t) /\ pc[<<c, t>>] = "fin_dec" /\ pc'[<<c, t>>] = "fin_push"
  BY <1>1, <1>2, <1>5 DEF FinDec, At
<1>6. ASSUME FinPush(c, t)
      PROVE  Local(c, t) /\ pc[<<c, t>>] = "fin_push" /\ pc'[<<c, t>>] = "fin_signal"
  BY <1>1, <1>2, <1>6 DEF FinPush, At
<1>7. ASSUME FinSignal(c, t)
      PROVE  Local(c, t) /\ pc[<<c, t>>] = "fin_signal" /\ pc'[<<c, t>>] = "fin_remove"
  BY <1>1, <1>2, <1>7 DEF FinSignal, At
<1>8. ASSUME FinCount(c, t)
      PROVE  Local(c, t) /\ pc[<<c, t>>] = "fin_count" /\ pc'[<<c, t>>] = "gone"
  BY <1>1, <1>2, <1>8 DEF FinCount, At
<1> QED
  BY <1>3, <1>4, <1>5, <1>6, <1>7, <1>8

\* Where every step takes its thread.
LEMMA StepPlaces ==
    ASSUME EndsAlone', BaseInv, NEW c \in Cages, NEW t \in Threads,
           Guest(c, t) \/ Host(c, t)
    PROVE  \/ /\ Move(c, t) \/ ReapMove(c, t)
              /\ pc[<<c, t>>] \in Plain /\ pc'[<<c, t>>] \in Plain
           \/ ForkCount(c, t) /\ pc[<<c, t>>] = "wasm" /\ pc'[<<c, t>>] = "fork_add"
           \/ ForkAdd(c, t) /\ pc[<<c, t>>] = "fork_add" /\ pc'[<<c, t>>] = "fork_start"
           \/ ForkStart(c, t) /\ pc[<<c, t>>] = "fork_start" /\ pc'[<<c, t>>] = "wasm"
           \/ \E u \in Threads :
                 Spawn(c, t, u) /\ pc[<<c, t>>] = "wasm" /\ pc'[<<c, t>>] = "wasm"
           \/ Register(c, t) /\ pc[<<c, t>>] = "starting" /\ pc'[<<c, t>>] = "wasm"
           \/ CrashThread(c, t) /\ pc[<<c, t>>] = "wasm" /\ pc'[<<c, t>>] = "gone"
           \/ /\ ThreadExit(c, t) /\ pc[<<c, t>>] \in {"unwind", "crash"}
              /\ pc'[<<c, t>>] = IF threads[c] = {t} THEN "finalize" ELSE "gone"
           \/ /\ FinLookup(c, t) /\ pc[<<c, t>>] = "finalize"
              /\ pc'[<<c, t>>] = IF parent[c] = c THEN "fin_remove"
                                 ELSE IF parent[c] \in cages THEN "fin_dec" ELSE "fin_signal"
           \/ FinDec(c, t) /\ pc[<<c, t>>] = "fin_dec" /\ pc'[<<c, t>>] = "fin_push"
           \/ FinPush(c, t) /\ pc[<<c, t>>] = "fin_push" /\ pc'[<<c, t>>] = "fin_signal"
           \/ FinSignal(c, t) /\ pc[<<c, t>>] = "fin_signal" /\ pc'[<<c, t>>] = "fin_remove"
           \/ FinRemove(c, t) /\ pc[<<c, t>>] = "fin_remove" /\ pc'[<<c, t>>] = "fin_count"
           \/ FinCount(c, t) /\ pc[<<c, t>>] = "fin_count" /\ pc'[<<c, t>>] = "gone"
<1>0. TypeOK
  BY DEF BaseInv
<1>1. CASE Move(c, t)
  BY <1>1 DEF Move
<1>2. CASE ReapMove(c, t)
  BY <1>2 DEF ReapMove, Plain
<1>3. CASE ForkCount(c, t)
  BY <1>3, ForkCountEffect
<1>4. CASE ForkAdd(c, t)
  <2>1. PICK ch \in 2..nextId : ChildAdded(c, t, ch)
    BY <1>4, ForkAddEffect
  <2> QED
    BY <1>4, <2>1 DEF ChildAdded
<1>5. CASE ForkStart(c, t)
  <2>1. PICK ch \in 2..nextId : ChildStarts(c, t, ch)
    BY <1>5, ForkStartEffect
  <2> QED
    BY <1>5, <2>1 DEF ChildStarts
<1>6. ASSUME NEW u \in Threads, Spawn(c, t, u)
      PROVE  pc[<<c, t>>] = "wasm" /\ pc'[<<c, t>>] = "wasm"
  BY <1>6, SpawnEffect DEF Created
<1>11. CASE Register(c, t)
  BY <1>11, RegisterEffect
<1>7. CASE ThreadExit(c, t)
  BY <1>7, ThreadExitEffect
<1>8. CASE FinRemove(c, t)
  BY <1>8, FinRemoveEffect
<1>9. CASE \/ CrashThread(c, t) \/ FinLookup(c, t) \/ FinDec(c, t) \/ FinPush(c, t)
           \/ FinSignal(c, t) \/ FinCount(c, t)
  BY <1>9, PlaceFin
<1>10. Move(c, t) \/ ReapMove(c, t) \/ Other(c, t)
  BY <1>0, StepKinds
<1> QED
  BY <1>1, <1>2, <1>3, <1>4, <1>5, <1>6, <1>7, <1>8, <1>9, <1>10, <1>11 DEF Other

\* A cage that has begun has been allocated.
LEMMA BegunId ==
    ASSUME BaseInv, NEW d \in Cages, Begun(d)
    PROVE  d = INIT_CAGEID \/ d \in 2..nextId
<1>1. TypeOK /\ TreeInv
  BY DEF BaseInv
<1>2. ~(d > nextId) /\ d \in Nat /\ d >= 1
  BY <1>1, LifeAssumption DEF TreeInv, Cages
<1> QED
  BY <1>1, <1>2, Ids DEF INIT_CAGEID

\* The zombie cage_finalize pushes reports the cage.
LEMMA PushReports ==
    ASSUME BaseInv, NEW c \in Cages, NEW t \in Threads, FinPush(c, t)
    PROVE  Reported(c)'
<1>0. TypeOK /\ parent[c] \in Cages
  BY DEF BaseInv, TypeOK
<1>1. PICK q \in Cages : q = parent[c]
  BY <1>0
<1>2. PICK n : n = Zombie(c)
  OBVIOUS
<1>3. n \in ZombieType /\ n.cageid = c
  BY <1>0, <1>2 DEF Zombie, ZombieType, TypeOK, Statuses, NoStatus
<1>4. zombies' = [zombies EXCEPT ![q] = Append(@, n)] /\ parent' = parent
  BY <1>1, <1>2 DEF FinPush, treeVars
<1>5. zombies[q] \in Seq(ZombieType) /\ zombies'[q] = Append(zombies[q], n)
  BY <1>0, <1>4 DEF TypeOK
<1>6. Len(zombies'[q]) \in 1..Len(zombies'[q]) /\ zombies'[q][Len(zombies'[q])] = n
  BY <1>3, <1>5
<1> QED
  BY <1>1, <1>3, <1>4, <1>6 DEF Reported, ZombiesOf

\* waitpid can find the child.
Findable(x) ==
    \/ x \in cages
    \/ Reported(x)
    \/ \E t \in Threads : /\ At(parent[x], t, "fork_add")
                          /\ arg[<<parent[x], t>>].pid = x

\* The same as UnreapedKnown.
LEMMA KnownIsFindable ==
    ASSUME TypeOK
    PROVE  UnreapedKnown <=> \A x \in 2..nextId : parent[x] \in cages => Findable(x)
<1>1. \A x \in 2..nextId : reaped[x] = 0 <=> ~(reaped[x] > 0)
  <2>1. reaped \in [Cages -> Nat]
    BY DEF TypeOK
  <2> QED
    BY <2>1, Ids
<1> QED
  BY <1>1 DEF UnreapedKnown, Findable, Reported

\* A findable child stays so.
LEMMA FindableStays ==
    ASSUME EndsAlone', BaseInv, ReportInv, KnownInv, NEW c \in Cages, NEW t \in Threads,
           Guest(c, t) \/ Host(c, t),
           NEW x \in 2..nextId, parent[x] \in cages, Findable(x)
    PROVE  Findable(x)'
<1>0. TypeOK /\ x \in Cages /\ x \in 1..nextId /\ x # INIT_CAGEID
  BY Ids DEF BaseInv
<1>1. parent'[x] = parent[x] /\ parent[x] \in Cages
  BY <1>0, StepTree DEF TypeOK
<1>2. CASE Reported(x)
  BY <1>2, ReportedStays DEF Findable
<1>3. CASE x \in cages
  <2>1. CASE x \in cages'
    BY <2>1 DEF Findable
  <2>2. CASE x \notin cages'
    <3>1. x = c /\ pc[<<c, t>>] = "fin_remove"
      BY <1>3, <2>2, StepTree
    <3>2. Reported(x)
      BY <1>0, <3>1 DEF KnownInv
    <3> QED
      BY <1>2, <3>2
  <2> QED
    BY <2>1, <2>2
<1>4. ASSUME NEW u \in Threads, pc[<<parent[x], u>>] = "fork_add", arg[<<parent[x], u>>].pid = x
      PROVE  Findable(x)'
  <2>1. CASE parent[x] # c \/ u # t
    <3>1. pc'[<<parent[x], u>>] = "fork_add" /\ arg'[<<parent[x], u>>].pid = x
      BY <1>1, <1>4, <2>1, StepFrame
    <3> QED
      BY <1>1, <3>1 DEF Findable, At
  <2>2. CASE parent[x] = c /\ u = t
    <3>1. ForkAdd(c, t)
      BY <1>4, <2>2, StepPlaces DEF Plain, SigLoop
    <3>2. x \in cages'
      BY <1>4, <2>2, <3>1 DEF ForkAdd
    <3> QED
      BY <3>2 DEF Findable
  <2> QED
    BY <2>1, <2>2
<1> QED
  BY <1>2, <1>3, <1>4 DEF Findable, At

\* The initial state.
LEMMA InitKnown == Init => KnownInv
<1> SUFFICES ASSUME Init PROVE KnownInv
  OBVIOUS
<1>1. 2..nextId = {}
  BY DEF Init, INIT_CAGEID
<1>2. \A c \in Cages, u \in Threads : pc[<<c, u>>] \in {"wasm", "none"}
  BY DEF Init, Thr
<1> QED
  BY <1>1, <1>2 DEF KnownInv, UnreapedKnown

\* Every step keeps it.
LEMMA NextKnown ==
    ASSUME EndsAlone', BaseInv, BaseInv', ReportInv, KnownInv,
           NEW c \in Cages, NEW t \in Threads, Guest(c, t) \/ Host(c, t)
    PROVE  KnownInv'
<1>0. /\ TypeOK /\ TypeOK' /\ TreeInv /\ nextId \in Nat /\ nextId' \in Nat
      /\ nextId >= 1 /\ INIT_CAGEID = 1
  <2>1. TypeOK /\ TypeOK' /\ TreeInv
    BY DEF BaseInv
  <2>2. nextId \in 1..MaxCageId /\ nextId' \in 1..MaxCageId
    BY <2>1 DEF TypeOK, Cages
  <2> QED
    BY <2>1, <2>2, LifeAssumption DEF INIT_CAGEID
<1>1. ASSUME NEW d \in Cages, Begun(d), d \notin cages
      PROVE  d \notin cages'
  BY <1>1, StepTree
<1>2. ASSUME NEW x \in 2..nextId', parent'[x] \in cages'
      PROVE  Findable(x)'
  <2>1. CASE x \in 2..nextId
    <3>1. parent'[x] = parent[x] /\ parent[x] \in Cages /\ Begun(parent[x])
      BY <1>0, <2>1, StepTree, Ids DEF TreeInv, TypeOK
    <3>2. parent[x] \in cages
      BY <1>1, <1>2, <3>1
    <3>3. Findable(x)
      BY <1>0, <2>1, <3>2, KnownIsFindable DEF KnownInv
    <3> QED
      BY <2>1, <3>2, <3>3, FindableStays
  <2>2. CASE x \notin 2..nextId
    <3>1. ForkCount(c, t) /\ nextId' = nextId + 1 /\ x = nextId + 1
      <4>1. nextId' = nextId \/ (nextId' = nextId + 1 /\ ForkCount(c, t))
        BY StepTree
      <4> QED
        BY <1>0, <1>2, <2>2, <4>1
    <3>2. pc'[<<c, t>>] = "fork_add" /\ arg'[<<c, t>>].pid = x /\ parent'[x] = c
      BY <3>1, ForkCountEffect
    <3> QED
      BY <3>2 DEF Findable, At
  <2> QED
    BY <2>1, <2>2
<1>3. UnreapedKnown'
  <2>1. \A x \in 2..nextId' : reaped'[x] = 0 => ~(reaped'[x] > 0)
    OBVIOUS
  <2> QED
    BY <1>2, <2>1 DEF UnreapedKnown, Findable, Reported, At
<1>4. ASSUME NEW d \in Cages, NEW u \in Threads, pc'[<<d, u>>] \in {"fin_signal", "fin_remove"}
      PROVE  d = INIT_CAGEID \/ parent'[d] \notin cages' \/ Reported(d)'
  <2>1. pc[<<d, u>>] \in {"fin_signal", "fin_remove"} \/ (d = c /\ u = t)
    BY <1>4, StepFrame
  <2>2. Begun(d)
    <3>1. pc[<<c, t>>] # "none"
      BY StepPlaces DEF Plain, SigLoop
    <3> QED
      BY <2>1, <3>1 DEF Begun
  <2>3. CASE d = INIT_CAGEID
    BY <2>3
  <2>4. CASE d # INIT_CAGEID
    <3>1. d \in 2..nextId
      BY <2>2, <2>4, BegunId
    <3>2. /\ parent'[d] = parent[d] /\ parent[d] \in Cages /\ Begun(parent[d])
          /\ parent[d] # d
      BY <1>0, <3>1, StepTree, Ids DEF TreeInv, TypeOK
    <3>3. CASE pc[<<d, u>>] \in {"fin_signal", "fin_remove"}
      <4>1. parent[d] \notin cages \/ Reported(d)
        BY <2>4, <3>3 DEF KnownInv
      <4>2. CASE parent[d] \notin cages
        BY <1>1, <3>2, <4>2
      <4>3. CASE Reported(d)
        BY <3>1, <4>3, ReportedStays
      <4> QED
        BY <4>1, <4>2, <4>3
    <3>4. CASE pc[<<d, u>>] \notin {"fin_signal", "fin_remove"}
      <4>1. d = c /\ u = t
        BY <2>1, <3>4
      <4>2. FinPush(c, t) \/ (FinLookup(c, t) /\ parent[c] \notin cages)
        BY <1>4, <3>2, <3>4, <4>1, StepPlaces DEF Plain, SigLoop
      <4>3. CASE FinPush(c, t)
        BY <4>1, <4>3, PushReports
      <4>4. CASE parent[c] \notin cages
        BY <1>1, <3>2, <4>1, <4>4
      <4> QED
        BY <4>2, <4>3, <4>4
    <3> QED
      BY <3>3, <3>4
  <2> QED
    BY <2>3, <2>4
<1> QED
  BY <1>3, <1>4 DEF KnownInv

-----------------------------------------------------------------------------
(***************************************************************************)
(* The host's count.                                                       *)
(***************************************************************************)
\* The counted cages are finitely many.
LEMMA CountedFinite == IsFiniteSet(Counted) /\ Cardinality(Counted) \in Nat
<1>1. IsFiniteSet(Cages)
  BY LifeAssumption, FS_Interval DEF Cages
<1>2. Counted \subseteq Cages
  BY DEF Counted
<1>3. IsFiniteSet(Counted)
  BY <1>1, <1>2, FS_Subset
<1> QED
  BY <1>3, FS_CardinalityType

\* A cage that has not begun has no thread and is not counted.
LEMMA UnbegunEmpty ==
    ASSUME BaseInv, NEW d \in Cages, ~Begun(d)
    PROVE  threads[d] = {} /\ d \notin Counted
<1>1. \A u \in Threads : pc[<<d, u>>] = "none" /\ ThreadInv(d, u)
  BY DEF Begun, BaseInv
<1>2. \A u \in Threads : u \notin threads[d]
  BY <1>1 DEF ThreadInv, Registered, Plain, Forking, SigLoop
<1>3. threads[d] \subseteq Threads
  BY DEF BaseInv, TypeOK
<1> QED
  BY <1>1, <1>2, <1>3 DEF Counted, Finalizing, Reporting

\* Only the start of a child's first thread and the end of cage_finalize change
\* the set.
LEMMA CountedSame ==
    ASSUME EndsAlone', BaseInv, NEW c \in Cages, NEW t \in Threads,
           Guest(c, t) \/ Host(c, t), ~ForkStart(c, t), ~FinCount(c, t)
    PROVE  Counted' = Counted
<1>0. TypeOK
  BY DEF BaseInv
<1>1. \A d \in Cages, u \in Threads : d # c \/ u # t =>
         (pc'[<<d, u>>] \in Finalizing <=> pc[<<d, u>>] \in Finalizing)
  <2>1. {"wasm", "none", "gone", "starting"} \cap Finalizing = {}
    BY DEF Finalizing, Reporting
  <2> QED
    BY <2>1, StepFrame
<1>2. CASE threads' = threads /\ (pc'[<<c, t>>] \in Finalizing <=> pc[<<c, t>>] \in Finalizing)
  <2>1. \A d \in Cages, u \in Threads :
           pc'[<<d, u>>] \in Finalizing <=> pc[<<d, u>>] \in Finalizing
    <3>1. ASSUME NEW d \in Cages, NEW u \in Threads
          PROVE  pc'[<<d, u>>] \in Finalizing <=> pc[<<d, u>>] \in Finalizing
      <4>1. CASE d = c /\ u = t
        BY <1>2, <4>1
      <4>2. CASE d # c \/ u # t
        BY <1>1, <4>2
      <4> QED
        BY <4>1, <4>2
    <3> QED
      BY <3>1
  <2> QED
    BY <1>2, <2>1 DEF Counted
<1>3. ASSUME \A d \in Cages \ {c} : threads'[d] = threads[d], c \in Counted, c \in Counted'
      PROVE  Counted' = Counted
  <2>1. ASSUME NEW d \in Cages PROVE d \in Counted' <=> d \in Counted
    <3>1. CASE d = c
      BY <1>3, <3>1
    <3>2. CASE d # c
      <4>1. threads'[d] = threads[d]
        BY <1>3, <3>2
      <4> QED
        BY <1>1, <3>2, <4>1 DEF Counted
    <3> QED
      BY <3>1, <3>2
  <2>2. Counted' \subseteq Cages /\ Counted \subseteq Cages
    BY DEF Counted
  <2> QED
    BY <2>1, <2>2
<1>4. ASSUME NEW u \in Threads, Spawn(c, t, u) PROVE Counted' = Counted
  <2>1. threads' = threads /\ pc[<<c, t>>] = "wasm" /\ pc'[<<c, t>>] = "wasm"
    BY <1>4, SpawnEffect DEF Created
  <2> QED
    BY <1>2, <2>1
<1>12. CASE Register(c, t)
  <2>1. threads' = [threads EXCEPT ![c] = @ \cup {t}] /\ threads[c] # {}
    BY <1>12, RegisterEffect
  <2>2. t \in threads'[c] /\ \A d \in Cages \ {c} : threads'[d] = threads[d]
    BY <1>0, <2>1 DEF TypeOK
  <2> QED
    BY <1>3, <2>1, <2>2 DEF Counted
<1>5. CASE ThreadExit(c, t)
  <2>1. /\ pc'[<<c, t>>] = IF threads[c] = {t} THEN "finalize" ELSE "gone"
        /\ t \in threads[c] /\ threads' = [threads EXCEPT ![c] = @ \ {t}]
    BY <1>5, ThreadExitEffect
  <2>2. threads'[c] = threads[c] \ {t} /\ \A d \in Cages \ {c} : threads'[d] = threads[d]
    BY <1>0, <2>1 DEF TypeOK
  <2>3. threads'[c] # {} \/ pc'[<<c, t>>] \in Finalizing
    BY <2>1, <2>2 DEF Finalizing, Reporting
  <2> QED
    BY <1>3, <2>1, <2>2, <2>3 DEF Counted
<1>6. CASE Move(c, t) \/ ReapMove(c, t)
  BY <1>2, <1>6 DEF Move, ReapMove, Plain, SigLoop, Finalizing, Reporting
<1>7. CASE ForkCount(c, t)
  BY <1>2, <1>7, ForkCountEffect DEF Finalizing, Reporting
<1>8. CASE ForkAdd(c, t)
  <2>1. threads' = threads
    BY <1>8 DEF ForkAdd
  <2>2. pc[<<c, t>>] = "fork_add" /\ pc'[<<c, t>>] = "fork_start"
    <3>1. PICK ch \in 2..nextId : ChildAdded(c, t, ch)
      BY <1>8, ForkAddEffect
    <3> QED
      BY <3>1 DEF ChildAdded
  <2> QED
    BY <1>2, <2>1, <2>2 DEF Finalizing, Reporting
<1>9. CASE FinRemove(c, t)
  BY <1>2, <1>9, FinRemoveEffect DEF Finalizing, Reporting
<1>10. CASE \/ CrashThread(c, t) \/ FinLookup(c, t) \/ FinDec(c, t) \/ FinPush(c, t)
            \/ FinSignal(c, t)
  <2>1. threads' = threads
    BY <1>10 DEF CrashThread, FinLookup, FinDec, FinPush, FinSignal
  <2> QED
    BY <1>2, <1>10, <2>1, PlaceFin DEF Finalizing, Reporting
<1>11. Move(c, t) \/ ReapMove(c, t) \/ Other(c, t)
  BY <1>0, StepKinds
<1> QED
  BY <1>4, <1>5, <1>6, <1>7, <1>8, <1>9, <1>10, <1>11, <1>12 DEF Other

\* The new child joins it.
LEMMA CountedGrows ==
    ASSUME BaseInv, NEW c \in Cages, NEW t \in Threads, NEW ch \in Cages,
           ChildStarts(c, t, ch)
    PROVE  Counted' = Counted \cup {ch} /\ ch \notin Counted
<1>0. TypeOK /\ threads \in [Cages -> SUBSET Threads]
  BY DEF BaseInv, TypeOK
<1>1. /\ pc[<<c, t>>] = "fork_start" /\ pc'[<<c, t>>] = "wasm" /\ ~Begun(ch)
      /\ pc'[<<ch, THREAD_START_ID>>] \in {"wasm", "gone"} /\ THREAD_START_ID \in Threads
      /\ threads' = [threads EXCEPT ![ch] = {THREAD_START_ID}]
      /\ \A d \in Cages, u \in Threads : (d # c \/ u # t) /\ (d # ch \/ u # THREAD_START_ID) =>
            pc'[<<d, u>>] = pc[<<d, u>>]
  BY DEF ChildStarts
<1>2. ch \notin Counted
  BY <1>1, UnbegunEmpty
<1>3. \A d \in Cages, u \in Threads :
         pc'[<<d, u>>] \in Finalizing <=> pc[<<d, u>>] \in Finalizing
  <2>1. ASSUME NEW d \in Cages, NEW u \in Threads
        PROVE  pc'[<<d, u>>] \in Finalizing <=> pc[<<d, u>>] \in Finalizing
    <3>1. CASE d = c /\ u = t
      BY <1>1, <3>1 DEF Finalizing, Reporting
    <3>2. CASE d = ch /\ u = THREAD_START_ID
      <4>1. pc[<<d, u>>] = "none"
        BY <1>1, <3>2 DEF Begun
      <4> QED
        BY <1>1, <3>2, <4>1 DEF Finalizing, Reporting
    <3>3. CASE (d # c \/ u # t) /\ (d # ch \/ u # THREAD_START_ID)
      BY <1>1, <3>3
    <3> QED
      BY <3>1, <3>2, <3>3
  <2> QED
    BY <2>1
<1>4. threads'[ch] # {} /\ \A d \in Cages \ {ch} : threads'[d] = threads[d]
  BY <1>0, <1>1
<1>5. ASSUME NEW d \in Cages PROVE d \in Counted' <=> d \in Counted \/ d = ch
  <2>1. CASE d = ch
    BY <1>4, <2>1 DEF Counted
  <2>2. CASE d # ch
    <3>1. threads'[d] = threads[d]
      BY <1>4, <2>2
    <3> QED
      BY <1>3, <2>2, <3>1 DEF Counted
  <2> QED
    BY <2>1, <2>2
<1>6. Counted' \subseteq Cages /\ Counted \subseteq Cages
  BY DEF Counted
<1> QED
  BY <1>2, <1>5, <1>6

\* A cage whose cage_finalize is done leaves it.
LEMMA CountedShrinks ==
    ASSUME BaseInv, NEW c \in Cages, NEW t \in Threads, FinCount(c, t)
    PROVE  Counted' = Counted \ {c} /\ c \in Counted /\ c \notin cages
<1>1. /\ Local(c, t) /\ pc[<<c, t>>] = "fin_count" /\ pc'[<<c, t>>] = "gone"
  BY PlaceFin
<1>2. threads' = threads
  BY DEF FinCount
<1>3. ThreadInv(c, t) /\ OneFinalizer
  BY DEF BaseInv
<1>4. threads[c] = {} /\ c \notin cages /\ c \in Counted
  BY <1>1, <1>3 DEF ThreadInv, Counted, Finalizing, Reporting
<1>5. \A d \in Cages, u \in Threads : d # c \/ u # t => pc'[<<d, u>>] = pc[<<d, u>>]
  BY <1>1, LocalSame
<1>6. \A u \in Threads : pc'[<<c, u>>] \notin Finalizing
  <2>1. ASSUME NEW u \in Threads, pc'[<<c, u>>] \in Finalizing PROVE FALSE
    <3>1. u # t
      BY <1>1, <2>1 DEF Finalizing, Reporting
    <3>2. pc[<<c, u>>] \in Finalizing /\ pc[<<c, t>>] \in Finalizing
      BY <1>1, <1>5, <2>1, <3>1 DEF Finalizing, Reporting
    <3> QED
      BY <1>3, <3>1, <3>2 DEF OneFinalizer
  <2> QED
    BY <2>1
<1>7. ASSUME NEW d \in Cages PROVE d \in Counted' <=> d \in Counted /\ d # c
  <2>1. CASE d = c
    BY <1>2, <1>4, <1>6, <2>1 DEF Counted
  <2>2. CASE d # c
    BY <1>2, <1>5, <2>2 DEF Counted
  <2> QED
    BY <2>1, <2>2
<1>8. Counted' \subseteq Cages /\ Counted \subseteq Cages
  BY DEF Counted
<1> QED
  BY <1>4, <1>7, <1>8

\* The initial state.
LEMMA InitHost == Init => HostInv
<1> SUFFICES ASSUME Init PROVE HostInv
  OBVIOUS
<1>1. THREAD_START_ID \in Threads /\ INIT_CAGEID \in Cages
  BY LifeAssumption DEF THREAD_START_ID, INIT_CAGEID, Cages
<1>2. \A d \in Cages, u \in Threads : pc[<<d, u>>] \notin Finalizing
  BY DEF Init, Thr, Finalizing, Reporting
<1>3. \A d \in Cages : threads[d] # {} <=> d = INIT_CAGEID
  BY <1>1 DEF Init
<1>4. Counted = {INIT_CAGEID}
  BY <1>1, <1>2, <1>3 DEF Counted
<1>5. Cardinality(Counted) = 1
  BY <1>4, FS_Singleton
<1> QED
  BY <1>4, <1>5 DEF Init, HostInv

\* Every step keeps it.
LEMMA NextHost ==
    ASSUME EndsAlone', BaseInv, HostInv, NEW c \in Cages, NEW t \in Threads,
           Guest(c, t) \/ Host(c, t)
    PROVE  HostInv'
<1>0. TypeOK
  BY DEF BaseInv
<1>1. IsFiniteSet(Counted) /\ Cardinality(Counted) \in Nat /\ cage_count = Cardinality(Counted)
  BY CountedFinite DEF HostInv
<1>2. cage_count' = Cardinality(Counted')
  <2>1. CASE ForkStart(c, t)
    <3>1. PICK ch \in 2..nextId : ChildStarts(c, t, ch)
      BY <2>1, ForkStartEffect
    <3>2. ch \in Cages /\ cage_count' = cage_count + 1
      BY <3>1 DEF ChildStarts
    <3>3. Counted' = Counted \cup {ch} /\ ch \notin Counted
      BY <3>1, <3>2, CountedGrows
    <3>4. Cardinality(Counted \cup {ch}) = Cardinality(Counted) + 1
      BY <1>1, <3>3, FS_AddElement
    <3> QED
      BY <1>1, <3>2, <3>3, <3>4
  <2>2. CASE FinCount(c, t)
    <3>1. Counted' = Counted \ {c} /\ c \in Counted
      BY <2>2, CountedShrinks
    <3>2. Cardinality(Counted \ {c}) = Cardinality(Counted) - 1
      BY <1>1, <3>1, FS_RemoveElement
    <3>3. cage_count' = cage_count - 1
      BY <2>2 DEF FinCount
    <3> QED
      BY <1>1, <3>1, <3>2, <3>3
  <2>3. CASE ~ForkStart(c, t) /\ ~FinCount(c, t)
    <3>1. Counted' = Counted
      BY <2>3, CountedSame
    <3>2. Move(c, t) \/ ReapMove(c, t) \/ Other(c, t)
      BY <1>0, StepKinds
    <3>3. cage_count' = cage_count
      BY <2>3, <3>2 DEF Move, ReapMove, Other, ForkCount, ForkAdd, Spawn, Register, CrashThread, ThreadExit,
         FinLookup, FinDec, FinPush, FinSignal, FinRemove
    <3> QED
      BY <1>1, <3>1, <3>3
  <2> QED
    BY <2>1, <2>2, <2>3
<1>3. ASSUME NEW x \in cages', x \notin Counted'
      PROVE  \E d \in Cages, u \in Threads :
                pc'[<<d, u>>] = "fork_start" /\ arg'[<<d, u>>].pid = x
  <2>1. CASE x \notin cages
    <3>1. ForkAdd(c, t)
      BY <1>3, <2>1, StepTree
    <3>2. PICK ch \in 2..nextId : ChildAdded(c, t, ch)
      BY <3>1, ForkAddEffect
    <3>3. /\ pc'[<<c, t>>] = "fork_start" /\ arg'[<<c, t>>].pid = ch
          /\ cages' = cages \cup {ch}
      BY <3>2 DEF ChildAdded
    <3> QED
      BY <1>3, <2>1, <3>3
  <2>2. CASE x \in cages
    <3>1. x \notin Counted
      <4>1. CASE ForkStart(c, t)
        <5>1. PICK ch \in 2..nextId : ChildStarts(c, t, ch)
          BY <4>1, ForkStartEffect
        <5>2. ch \in Cages
          BY <5>1 DEF ChildStarts
        <5> QED
          BY <1>3, <5>1, <5>2, CountedGrows
      <4>2. CASE FinCount(c, t)
        BY <1>3, <2>2, <4>2, CountedShrinks
      <4>3. CASE ~ForkStart(c, t) /\ ~FinCount(c, t)
        BY <1>3, <4>3, CountedSame
      <4> QED
        BY <4>1, <4>2, <4>3
    <3>2. PICK d \in Cages, u \in Threads : pc[<<d, u>>] = "fork_start" /\ arg[<<d, u>>].pid = x
      BY <2>2, <3>1 DEF HostInv
    <3>3. CASE d # c \/ u # t
      <4>1. pc'[<<d, u>>] = "fork_start" /\ arg'[<<d, u>>] = arg[<<d, u>>]
        BY <3>2, <3>3, StepFrame
      <4> QED
        BY <3>2, <4>1
    <3>4. CASE d = c /\ u = t
      <4>1. ForkStart(c, t)
        BY <3>2, <3>4, StepPlaces DEF Plain, SigLoop
      <4>2. PICK ch \in 2..nextId : ChildStarts(c, t, ch)
        BY <4>1, ForkStartEffect
      <4>3. ch \in Cages /\ ch = x
        BY <3>2, <3>4, <4>2 DEF ChildStarts
      <4>4. x \in Counted'
        BY <4>2, <4>3, CountedGrows
      <4> QED
        BY <1>3, <4>4
    <3> QED
      BY <3>3, <3>4
  <2> QED
    BY <2>1, <2>2
<1> QED
  BY <1>2, <1>3 DEF HostInv

\* While there is a cage, one of them is counted.
LEMMA HostFromCount ==
    ASSUME BaseInv, HostInv
    PROVE  HostStays
<1> SUFFICES ASSUME NEW x \in cages PROVE cage_count > 0
  BY DEF HostStays
<1>1. Counted # {}
  <2>1. CASE x \in Counted
    BY <2>1
  <2>2. CASE x \notin Counted
    <3>1. PICK d \in Cages, u \in Threads : pc[<<d, u>>] = "fork_start"
      BY <2>2 DEF HostInv
    <3>2. u \in threads[d]
      BY <3>1 DEF BaseInv, ThreadInv, Registered, Forking
    <3> QED
      BY <3>2 DEF Counted
  <2> QED
    BY <2>1, <2>2
<1>2. Cardinality(Counted) # 0
  BY <1>1, CountedFinite, FS_EmptySet
<1> QED
  BY <1>2, CountedFinite DEF HostInv

-----------------------------------------------------------------------------
(***************************************************************************)
(* The count of children.                                                  *)
(***************************************************************************)
\* One more, below the wrap.
LEMMA ModUp ==
    ASSUME NEW w \in Nat, NEW n \in Nat, n + 1 < w
    PROVE  (n + 1) % w = n + 1
OBVIOUS

\* One less, above zero.
LEMMA ModDown ==
    ASSUME NEW w \in Nat, NEW n \in Nat, n < w, n >= 1
    PROVE  (n + w - 1) % w = n - 1
OBVIOUS

\* The child still counts for its parent.
Owed(x) == ~Reported(x) /\ ~SomeAt(x, "fin_push")

\* Unreported, with the parts that only depend on the child.
LEMMA UnreportedIs ==
    ASSUME BaseInv, NEW q \in Cages
    PROVE  Unreported(q) = {x \in 2..nextId : parent[x] = q /\ Owed(x)}
<1>0. TypeOK /\ TreeInv
  BY DEF BaseInv
<1>1. \A x \in 1..nextId : reaped[x] = 0 <=> ~(reaped[x] > 0)
  <2>1. reaped \in [Cages -> Nat]
    BY <1>0 DEF TypeOK
  <2> QED
    BY <1>0, <2>1, Ids
<1>2. ASSUME NEW x \in 1..nextId
      PROVE  parent[x] = q /\ x # q <=> x \in 2..nextId /\ parent[x] = q
  <2>1. x = 1 \/ x \in 2..nextId
    BY <1>0, Ids
  <2>2. parent[1] = 1 /\ 1 \notin 2..nextId
    BY <1>0 DEF TreeInv, INIT_CAGEID
  <2>3. x \in 2..nextId => parent[x] # x
    BY <1>0 DEF TreeInv
  <2> QED
    BY <2>1, <2>2, <2>3
<1>3. \A x \in 2..nextId : x \in 1..nextId
  BY <1>0, Ids
<1> QED
  BY <1>1, <1>2, <1>3 DEF Unreported, Children, Owed, Reported

\* Only FinPush reports a cage.
LEMMA ReportedBack ==
    ASSUME EndsAlone', BaseInv, ReportInv, NEW c \in Cages, NEW t \in Threads,
           Guest(c, t) \/ Host(c, t),
           NEW d \in 2..nextId, Reported(d)', ~Reported(d)
    PROVE  FinPush(c, t) /\ d = c
<1>0. TypeOK /\ d \in Cages /\ d \in 1..nextId
  BY Ids DEF BaseInv
<1>1. parent'[d] = parent[d] /\ parent[d] \in Cages
  BY <1>0, StepTree DEF TypeOK
<1>2. PICK q \in Cages : q = parent[d]
  BY <1>1
<1>3. /\ ~(reaped[d] > 0) /\ \A i \in 1..Len(zombies[q]) : zombies[q][i].cageid # d
      /\ reaped'[d] > 0 \/ \E i \in 1..Len(zombies'[q]) : zombies'[q][i].cageid = d
  BY <1>1, <1>2 DEF Reported, ZombiesOf
<1>4. Move(c, t) \/ ReapMove(c, t) \/ Other(c, t)
  BY <1>0, StepKinds
<1>a. zombies[q] \in Seq(ZombieType) /\ Len(zombies[q]) \in Nat
  BY <1>0 DEF TypeOK
<1>5. ~UNCHANGED <<zombies, reaped>>
  BY <1>3
<1>6. CASE FinPush(c, t)
  <2>1. zombies' = [zombies EXCEPT ![parent[c]] = Append(@, Zombie(c))] /\ reaped' = reaped
    BY <1>6 DEF FinPush
  <2>2. PICK i \in 1..Len(zombies'[q]) : zombies'[q][i].cageid = d
    BY <1>3, <2>1
  <2>3. parent[c] = q
    <3>1. parent[c] # q => zombies'[q] = zombies[q]
      BY <1>0, <2>1 DEF TypeOK
    <3> QED
      BY <1>3, <2>2, <3>1
  <2>4. PICK n : n = Zombie(c)
    OBVIOUS
  <2>5. n \in ZombieType /\ n.cageid = c
    BY <1>0, <2>4 DEF Zombie, ZombieType, TypeOK, Statuses, NoStatus
  <2>6. zombies'[q] = Append(zombies[q], n)
    BY <1>0, <2>1, <2>3, <2>4 DEF TypeOK
  <2>7. /\ Len(zombies'[q]) = Len(zombies[q]) + 1
        /\ \A k \in 1..Len(zombies[q]) : zombies'[q][k] = zombies[q][k]
        /\ zombies'[q][Len(zombies[q]) + 1] = n
    BY <1>a, <2>5, <2>6
  <2>8. i = Len(zombies[q]) + 1
    BY <1>3, <1>a, <2>2, <2>7
  <2> QED
    BY <1>6, <2>2, <2>5, <2>7, <2>8
<1>7. ~ReapMove(c, t)
  <2> SUFFICES ASSUME ReapMove(c, t) PROVE FALSE
    OBVIOUS
  <2>1. PICK i \in 1..Len(zombies[c]) : TakesZombie(c, t, i)
    BY <1>0, ReapEffect DEF ReapMove
  <2>2. PICK ch \in Cages : ch = zombies[c][i].cageid
    BY <2>1 DEF TakesZombie
  <2>3. \A x \in Cages \ {ch} : reaped'[x] = reaped[x]
    BY <1>0, <2>1, <2>2 DEF TakesZombie, TypeOK
  <2>4. CASE d = ch
    <3>1. parent[ch] = c
      BY <2>2 DEF ReportInv, ZombieInv, ZombieOK
    <3> QED
      BY <1>2, <1>3, <2>2, <2>4, <3>1
  <2>5. CASE d # ch
    <3>1. PICK k \in 1..Len(zombies'[q]) : zombies'[q][k].cageid = d
      BY <1>0, <1>3, <2>3, <2>5
    <3>2. q = c
      BY <1>3, <2>1, <3>1 DEF TakesZombie
    <3>3. k \in 1..(Len(zombies[c]) - 1)
      BY <2>1, <3>1, <3>2 DEF TakesZombie
    <3>4. zombies'[c][k] = IF k < i THEN zombies[c][k] ELSE zombies[c][k + 1]
      BY <2>1, <3>3 DEF TakesZombie
    <3>5. k \in 1..Len(zombies[c]) /\ k + 1 \in 1..Len(zombies[c])
      BY <1>a, <3>2, <3>3
    <3> QED
      BY <1>3, <3>1, <3>2, <3>4, <3>5
  <2> QED
    BY <2>4, <2>5
<1> QED
  BY <1>4, <1>5, <1>6, <1>7
  DEF Move, Other, ForkCount, ForkAdd, ForkStart, Spawn, Register, CrashThread, ThreadExit, FinLookup,
      FinDec, FinSignal, FinRemove, FinCount, waitVars

\* A child counts until its cage_finalize takes it off.
LEMMA OwedSame ==
    ASSUME EndsAlone', BaseInv, BaseInv', ReportInv, NEW c \in Cages, NEW t \in Threads,
           Guest(c, t) \/ Host(c, t),
           NEW d \in 2..nextId, ~(FinDec(c, t) /\ d = c)
    PROVE  Owed(d)' <=> Owed(d)
<1>0. TypeOK /\ d \in Cages
  BY Ids DEF BaseInv
<1>1. CASE FinPush(c, t) /\ d = c
  <2>1. Reported(d)'
    BY <1>1, PushReports
  <2>2. SomeAt(d, "fin_push")
    BY <1>1 DEF FinPush, SomeAt
  <2> QED
    BY <2>1, <2>2 DEF Owed
<1>2. CASE ~(FinPush(c, t) /\ d = c)
  <2>1. Reported(d)' <=> Reported(d)
    BY <1>2, ReportedBack, ReportedStays
  <2>2. ASSUME NEW u \in Threads
        PROVE  pc'[<<d, u>>] = "fin_push" <=> pc[<<d, u>>] = "fin_push"
    <3>1. CASE d # c \/ u # t
      BY <1>0, <3>1, StepFrame
    <3>2. CASE d = c /\ u = t
      BY <1>2, <3>2, StepPlaces DEF Plain, SigLoop
    <3> QED
      BY <3>1, <3>2
  <2> QED
    BY <2>1, <2>2 DEF Owed, SomeAt, At
<1> QED
  BY <1>1, <1>2

\* When cage_finalize takes a child off, it still counts, and then no more.
LEMMA DecOwed ==
    ASSUME BaseInv, ReportInv, NEW c \in Cages, NEW t \in Threads, FinDec(c, t)
    PROVE  c \in 2..nextId /\ Owed(c) /\ ~Owed(c)'
<1>0. TypeOK /\ ThreadInv(c, t) /\ OneFinalizer
  BY DEF BaseInv
<1>1. Local(c, t) /\ pc[<<c, t>>] = "fin_dec" /\ pc'[<<c, t>>] = "fin_push"
  BY PlaceFin
<1>2. c \in 2..nextId
  <2>1. Begun(c) /\ c # INIT_CAGEID
    BY <1>0, <1>1 DEF Begun, ThreadInv
  <2> QED
    BY <2>1, BegunId
<1>3. ~Ended(c)
  BY <1>1 DEF Ended, Reporting
<1>4. ~Reported(c)
  <2>1. ~(reaped[c] > 0)
    BY <1>3 DEF ReportInv, ReapInv
  <2>2. parent[c] \in Cages
    BY <1>0 DEF TypeOK
  <2>3. ZombiesOf(parent[c], c) = {}
    BY <1>3, <2>2 DEF ReportInv, ZombieInv, ZombieOK, ZombiesOf
  <2> QED
    BY <2>1, <2>3 DEF Reported
<1>5. ~SomeAt(c, "fin_push")
  BY <1>0, <1>1 DEF OneFinalizer, SomeAt, At, Finalizing, Reporting
<1>6. SomeAt(c, "fin_push")'
  BY <1>1 DEF SomeAt, At
<1> QED
  BY <1>2, <1>4, <1>5, <1>6 DEF Owed

\* A cage that fork has just numbered counts.
LEMMA NewOwed ==
    ASSUME BaseInv, BaseInv', ReportInv, NEW c \in Cages, NEW t \in Threads, ForkCount(c, t),
           NEW x \in Cages, x = nextId + 1
    PROVE  Owed(x)'
<1>0. TypeOK /\ TreeInv
  BY DEF BaseInv
<1>1. /\ Local(c, t) /\ nextId' = nextId + 1 /\ nextId + 1 \in Cages
      /\ parent'[nextId + 1] = c /\ UNCHANGED <<zombies, reaped>>
      /\ pc'[<<c, t>>] = "fork_add" /\ c \in cages
  BY ForkCountEffect
<1>3. x > nextId /\ x \notin 2..nextId
  BY <1>0, Ids
<1>4. ~Begun(x)
  BY <1>0, <1>3 DEF TreeInv
<1>5. ~Reported(x)'
  <2>1. ~(reaped[x] > 0)
    BY <1>4 DEF ReportInv, ReapInv
  <2>2. \A i \in 1..Len(zombies[c]) : zombies[c][i].cageid # x
    BY <1>3 DEF ReportInv, ZombieInv, ZombieOK
  <2> QED
    BY <1>1, <2>1, <2>2 DEF Reported, ZombiesOf
<1>6. ~Begun(x)'
  BY <1>1, <1>4, LocalSame
<1>7. ~SomeAt(x, "fin_push")'
  BY <1>6 DEF Begun, SomeAt, At
<1> QED
  BY <1>5, <1>7 DEF Owed

\* The unreported children are finitely many, fewer than the wrap.
LEMMA UnreportedSmall ==
    ASSUME BaseInv, NEW q \in Cages
    PROVE  /\ IsFiniteSet(Unreported(q)) /\ Cardinality(Unreported(q)) \in Nat
           /\ Cardinality(Unreported(q)) < nextId
<1>0. nextId \in Nat /\ nextId >= 1
  BY Ids DEF BaseInv
<1>1. Unreported(q) \subseteq 2..nextId
  BY UnreportedIs
<1>2. IsFiniteSet(2..nextId) /\ Cardinality(2..nextId) = nextId - 1
  BY <1>0, FS_Interval
<1>3. IsFiniteSet(Unreported(q)) /\ Cardinality(Unreported(q)) <= nextId - 1
  BY <1>1, <1>2, FS_Subset
<1>4. Cardinality(Unreported(q)) \in Nat
  BY <1>3, FS_CardinalityType
<1> QED
  BY <1>0, <1>3, <1>4

\* The initial state.
LEMMA InitChild == Init => ChildInv
<1> SUFFICES ASSUME Init, NEW q \in Cages PROVE child_num[q] = Cardinality(Unreported(q))
  BY DEF ChildInv
<1>1. BaseInv
  BY InitBase
<1>2. 2..nextId = {}
  BY DEF Init, INIT_CAGEID
<1>3. Unreported(q) = {}
  BY <1>1, <1>2, UnreportedIs
<1>4. Cardinality(Unreported(q)) = 0
  BY <1>3, FS_EmptySet
<1> QED
  BY <1>4 DEF Init

\* Every step keeps it.
LEMMA NextChild ==
    ASSUME EndsAlone', BaseInv, BaseInv', ReportInv, ChildInv,
           NEW c \in Cages, NEW t \in Threads, Guest(c, t) \/ Host(c, t)
    PROVE  ChildInv'
<1> SUFFICES ASSUME NEW q \in Cages, q \in cages' \/ ~Begun(q)'
             PROVE  child_num'[q] = Cardinality(Unreported(q)')
  BY DEF ChildInv
<1>0. /\ TypeOK /\ TypeOK' /\ nextId \in Nat /\ nextId' \in Nat /\ nextId' <= MaxCageId
      /\ Wrap \in Nat /\ Wrap > MaxCageId /\ nextId >= 1 /\ MaxCageId \in Nat
      /\ nextId <= MaxCageId
  <2>1. TypeOK /\ TypeOK'
    BY DEF BaseInv
  <2>2. nextId \in 1..MaxCageId /\ nextId' \in 1..MaxCageId
    BY <2>1 DEF TypeOK, Cages
  <2> QED
    BY <2>1, <2>2, LifeAssumption
<1>1. q \in cages \/ ~Begun(q)
  BY StepTree
<1>2. child_num[q] = Cardinality(Unreported(q))
  BY <1>1 DEF ChildInv
<1>3. PICK U : U = Unreported(q)
  OBVIOUS
<1>4. /\ U = {x \in 2..nextId : parent[x] = q /\ Owed(x)}
      /\ Unreported(q)' = {x \in 2..nextId' : parent'[x] = q /\ Owed(x)'}
  <2>1. U = {x \in 2..nextId : parent[x] = q /\ Owed(x)}
    BY <1>3, UnreportedIs
  <2>2. Unreported(q)' = {x \in 2..nextId' : parent'[x] = q /\ Owed(x)'}
    <3>1. TreeInv'
      BY DEF BaseInv
    <3>2. \A x \in 1..nextId' : reaped'[x] = 0 <=> ~(reaped'[x] > 0)
      <4>1. reaped' \in [Cages -> Nat] /\ nextId' \in 1..MaxCageId
        BY <1>0 DEF TypeOK, Cages
      <4> QED
        BY <1>0, <4>1 DEF Cages
    <3>3. ASSUME NEW x \in 1..nextId'
          PROVE  parent'[x] = q /\ x # q <=> x \in 2..nextId' /\ parent'[x] = q
      <4>1. x = 1 \/ x \in 2..nextId'
        BY <1>0
      <4>2. parent'[1] = 1 /\ 1 \notin 2..nextId'
        BY <3>1 DEF TreeInv, INIT_CAGEID
      <4>3. x \in 2..nextId' => parent'[x] # x
        BY <3>1 DEF TreeInv
      <4> QED
        BY <4>1, <4>2, <4>3
    <3>4. \A x \in 2..nextId' : x \in 1..nextId'
      BY <1>0
    <3> QED
      BY <3>2, <3>3, <3>4 DEF Unreported, Children, Owed, Reported
  <2> QED
    BY <2>1, <2>2
<1>5. IsFiniteSet(U) /\ Cardinality(U) \in Nat /\ Cardinality(U) < nextId
  BY <1>3, UnreportedSmall
<1>6. \A x \in 2..nextId : parent'[x] = parent[x]
  BY <1>0, StepTree, Ids
<1>7. CASE ForkCount(c, t)
  <2>1. /\ nextId' = nextId + 1 /\ nextId + 1 \in Cages
        /\ parent'[nextId + 1] = c
        /\ child_num' = [child_num EXCEPT ![c] = (@ + 1) % Wrap]
    BY <1>7, ForkCountEffect
  <2>2. PICK y \in Cages : y = nextId + 1
    BY <2>1
  <2>3. Owed(y)'
    BY <1>7, <2>2, NewOwed
  <2>4. 2..nextId' = 2..nextId \cup {y} /\ y \notin 2..nextId
    BY <1>0, <2>1, <2>2
  <2>5. \A x \in 2..nextId : Owed(x)' <=> Owed(x)
    <3>1. ~FinDec(c, t)
      BY <1>7, PlaceFin, ForkCountEffect
    <3> QED
      BY <3>1, OwedSame
  <2>6. CASE q = c
    <3>1. Unreported(q)' = U \cup {y} /\ y \notin U
      BY <1>4, <1>6, <2>1, <2>2, <2>3, <2>4, <2>5, <2>6
    <3>2. Cardinality(Unreported(q)') = Cardinality(U) + 1
      BY <1>5, <3>1, FS_AddElement
    <3>3. child_num'[q] = (Cardinality(U) + 1) % Wrap
      BY <1>0, <1>2, <1>3, <2>1, <2>6 DEF TypeOK
    <3>4. (Cardinality(U) + 1) % Wrap = Cardinality(U) + 1
      BY <1>0, <1>5, ModUp
    <3> QED
      BY <3>2, <3>3, <3>4
  <2>7. CASE q # c
    <3>1. Unreported(q)' = U
      BY <1>4, <1>6, <2>1, <2>2, <2>4, <2>5, <2>7
    <3>2. child_num'[q] = child_num[q]
      BY <1>0, <2>1, <2>7 DEF TypeOK
    <3> QED
      BY <1>2, <1>3, <3>1, <3>2
  <2> QED
    BY <2>6, <2>7
<1>8. CASE FinDec(c, t)
  <2>1. /\ nextId' = nextId
        /\ child_num' = [child_num EXCEPT ![parent[c]] = (@ + Wrap - 1) % Wrap]
    BY <1>8 DEF FinDec, treeVars
  <2>2. c \in 2..nextId /\ Owed(c) /\ ~Owed(c)'
    BY <1>8, DecOwed
  <2>3. \A x \in (2..nextId) \ {c} : Owed(x)' <=> Owed(x)
    BY OwedSame
  <2>4. CASE q = parent[c]
    <3>1. Unreported(q)' = U \ {c} /\ c \in U
      BY <1>4, <1>6, <2>1, <2>2, <2>3, <2>4
    <3>2. Cardinality(Unreported(q)') = Cardinality(U) - 1
      BY <1>5, <3>1, FS_RemoveElement
    <3>3. child_num'[q] = (Cardinality(U) + Wrap - 1) % Wrap
      BY <1>0, <1>2, <1>3, <2>1, <2>4 DEF TypeOK
    <3>4. Cardinality(U) >= 1
      <4>1. Cardinality(U) # 0
        BY <1>5, <3>1, FS_EmptySet
      <4> QED
        BY <1>5, <4>1
    <3>5. (Cardinality(U) + Wrap - 1) % Wrap = Cardinality(U) - 1
      BY <1>0, <1>5, <3>4, ModDown
    <3> QED
      BY <3>2, <3>3, <3>5
  <2>5. CASE q # parent[c]
    <3>1. Unreported(q)' = U
      BY <1>4, <1>6, <2>1, <2>2, <2>3, <2>5
    <3>2. child_num'[q] = child_num[q]
      BY <1>0, <2>1, <2>5 DEF TypeOK
    <3> QED
      BY <1>2, <1>3, <3>1, <3>2
  <2> QED
    BY <2>4, <2>5
<1>9. CASE ~ForkCount(c, t) /\ ~FinDec(c, t)
  <2>1. nextId' = nextId
    BY <1>9, StepTree
  <2>2. \A x \in 2..nextId : Owed(x)' <=> Owed(x)
    BY <1>9, OwedSame
  <2>3. Unreported(q)' = U
    BY <1>4, <1>6, <2>1, <2>2
  <2>4. Move(c, t) \/ ReapMove(c, t) \/ Other(c, t)
    BY <1>0, StepKinds
  <2>5. child_num' = child_num
    BY <1>9, <2>4 DEF Move, ReapMove, Other, ForkAdd, ForkStart, Spawn, Register, CrashThread, ThreadExit,
       FinLookup, FinPush, FinSignal, FinRemove, FinCount, waitVars
  <2> QED
    BY <1>2, <1>3, <2>3, <2>5
<1> QED
  BY <1>7, <1>8, <1>9

\* What the run checks.
LEMMA ChildFromCount == TypeOK /\ ChildInv => ChildNumExact
<1> SUFFICES ASSUME ChildInv, TypeOK PROVE ChildNumExact
  OBVIOUS
<1> QED
  BY Ids DEF ChildInv, ChildNumExact, Unreported

-----------------------------------------------------------------------------
(***************************************************************************)
(* Signals.                                                                *)
(***************************************************************************)
\* Positions outside the callback's loop.
Outside == PcSet \ (SigLoop \cup {"none", "starting"})

\* A step that registers no thread and hands over no role.
LEMMA SignalKeeps ==
    ASSUME BaseInv, SignalInv, UNCHANGED <<main, threads>>,
           \A d \in Cages, u \in Threads :
              /\ pc'[<<d, u>>] = "none" <=> pc[<<d, u>>] = "none"
              /\ pc'[<<d, u>>] \in {"none", "starting"} <=> pc[<<d, u>>] \in {"none", "starting"}
              /\ pc'[<<d, u>>] \in SigLoop => u = main[d]
              /\ epoch'[<<d, u>>] = epoch[<<d, u>>] \/ u \in threads[d]
              /\ u \in threads[d] /\ epoch'[<<d, u>>] = "signal" =>
                    /\ u = main[d]
                    /\ pending'[d] # <<>> \/ pc'[<<d, u>>] \in {"sig_check", "sig_reset"}
    PROVE  SignalInv'
<1>1. ASSUME NEW d \in Cages, NEW u \in Threads PROVE SignalThread(d, u)'
  <2>1. ThreadInv(d, u) /\ SignalThread(d, u)
    BY DEF BaseInv, SignalInv
  <2>2. u \in threads[d] => pc[<<d, u>>] \notin {"none", "starting"}
    BY <2>1 DEF ThreadInv, Registered, Plain, Forking, SigLoop
  <2> QED
    BY <2>1, <2>2 DEF SignalThread
<1>2. \A d \in Cages : Begun(d)' <=> Begun(d)
  BY DEF Begun
<1> QED
  BY <1>1, <1>2 DEF SignalInv

\* The position of one thread changes.
LEMMA GotoFrame ==
    ASSUME TypeOK, NEW c \in Cages, NEW t \in Threads, NEW l \in PcSet, Goto(c, t, l)
    PROVE  /\ pc'[<<c, t>>] = l
           /\ \A d \in Cages, u \in Threads : d # c \/ u # t => pc'[<<d, u>>] = pc[<<d, u>>]
<1>1. <<c, t>> \in Thr /\ pc \in [Thr -> PcSet] /\ pc' = [pc EXCEPT ![<<c, t>>] = l]
  BY DEF Thr, TypeOK, Goto
<1> QED
  BY <1>1 DEF Thr

\* So does its place in the loop, and nothing else.
LEMMA SignalGoto ==
    ASSUME BaseInv, SignalInv, NEW c \in Cages, NEW t \in Threads, 
           NEW l \in PcSet \ {"none", "starting"},
           Goto(c, t, l), pc[<<c, t>>] \notin {"none", "starting"},
           UNCHANGED <<main, epoch, pending, threads>>,
           l \in SigLoop => t = main[c],
           /\ pc[<<c, t>>] \in {"sig_check", "sig_reset"} /\ t \in threads[c]
           /\ epoch[<<c, t>>] = "signal"
           => pending[c] # <<>> \/ l \in {"sig_check", "sig_reset"}
    PROVE  SignalInv'
<1>1. /\ pc'[<<c, t>>] = l
      /\ \A d \in Cages, u \in Threads : d # c \/ u # t => pc'[<<d, u>>] = pc[<<d, u>>]
  BY GotoFrame DEF BaseInv
<1>2. ASSUME NEW d \in Cages, NEW u \in Threads
      PROVE  /\ pc'[<<d, u>>] = "none" <=> pc[<<d, u>>] = "none"
             /\ pc'[<<d, u>>] \in {"none", "starting"} <=> pc[<<d, u>>] \in {"none", "starting"}
             /\ pc'[<<d, u>>] \in SigLoop => u = main[d]
             /\ u \in threads[d] /\ epoch'[<<d, u>>] = "signal" =>
                   /\ u = main[d]
                   /\ pending'[d] # <<>> \/ pc'[<<d, u>>] \in {"sig_check", "sig_reset"}
  <2>1. SignalThread(d, u)
    BY DEF SignalInv
  <2>2. CASE d # c \/ u # t
    <3>1. pc'[<<d, u>>] = pc[<<d, u>>]
      BY <1>1, <2>2
    <3> QED
      BY <2>1, <3>1 DEF SignalThread
  <2>3. CASE d = c /\ u = t
    BY <1>1, <2>1, <2>3 DEF SignalThread
  <2> QED
    BY <2>2, <2>3
<1> QED
  BY <1>2, SignalKeeps

\* A signal is sent.
LEMMA SignalSend ==
    ASSUME BaseInv, SignalInv, NEW e \in Cages, NEW s \in Signals, Send(e, s),
           UNCHANGED <<main, threads>>,
           \A d \in Cages, u \in Threads :
              \/ pc'[<<d, u>>] = pc[<<d, u>>]
              \/ pc[<<d, u>>] \in Outside /\ pc'[<<d, u>>] \in Outside
    PROVE  SignalInv'
<1>0. /\ TypeOK /\ pending \in [Cages -> Seq(Signals)] /\ main \in [Cages -> Threads]
      /\ epoch \in [Thr -> {"normal", "signal", "killed"}]
  BY DEF BaseInv, TypeOK
<1>1. \A d \in Cages : pending[d] # <<>> => pending'[d] # <<>>
  <2>1. CASE UNCHANGED pending
    BY <2>1
  <2>2. CASE pending' = [pending EXCEPT ![e] = Append(@, s)]
    <3>1. ASSUME NEW d \in Cages, pending[d] # <<>> PROVE pending'[d] # <<>>
      <4>1. CASE d # e
        BY <1>0, <2>2, <3>1, <4>1
      <4>2. CASE d = e
        <5>1. pending'[e] = Append(pending[e], s) /\ pending[e] \in Seq(Signals)
          BY <1>0, <2>2
        <5>2. pending'[e] # <<>>
          BY <5>1
        <5> QED
          BY <4>2, <5>2
      <4> QED
        BY <4>1, <4>2
    <3> QED
      BY <3>1
  <2> QED
    BY <2>1, <2>2 DEF Send
<1>2. ASSUME NEW d \in Cages, NEW u \in Threads, epoch'[<<d, u>>] # epoch[<<d, u>>]
      PROVE  u \in threads[d] /\ u = main[d] /\ pending'[d] # <<>>
  <2>1. /\ pending' = [pending EXCEPT ![e] = Append(@, s)]
        /\ epoch' = Triggered(e)
    BY <1>2 DEF Send
  <2>2. main[e] \in threads[e] /\ epoch' = [epoch EXCEPT ![<<e, main[e]>>] = "signal"]
    BY <1>2, <2>1 DEF Triggered
  <2>3. d = e /\ u = main[e]
    <3>1. <<d, u>> \in Thr
      BY DEF Thr
    <3>2. <<d, u>> # <<e, main[e]>> => epoch'[<<d, u>>] = epoch[<<d, u>>]
      BY <1>0, <2>2, <3>1
    <3> QED
      BY <1>2, <3>2
  <2>4. pending'[e] = Append(pending[e], s) /\ pending[e] \in Seq(Signals)
    BY <1>0, <2>1
  <2>5. pending'[e] # <<>>
    BY <2>4
  <2> QED
    BY <2>2, <2>3, <2>5
<1>3. ASSUME NEW d \in Cages, NEW u \in Threads
      PROVE  /\ pc'[<<d, u>>] = "none" <=> pc[<<d, u>>] = "none"
             /\ pc'[<<d, u>>] \in {"none", "starting"} <=> pc[<<d, u>>] \in {"none", "starting"}
             /\ pc'[<<d, u>>] \in SigLoop => u = main[d]
             /\ epoch'[<<d, u>>] = epoch[<<d, u>>] \/ u \in threads[d]
             /\ u \in threads[d] /\ epoch'[<<d, u>>] = "signal" =>
                   /\ u = main[d]
                   /\ pending'[d] # <<>> \/ pc'[<<d, u>>] \in {"sig_check", "sig_reset"}
  <2>1. SignalThread(d, u)
    BY DEF SignalInv
  <2>2. /\ pc'[<<d, u>>] = "none" <=> pc[<<d, u>>] = "none"
        /\ pc'[<<d, u>>] \in {"none", "starting"} <=> pc[<<d, u>>] \in {"none", "starting"}
        /\ pc'[<<d, u>>] \in SigLoop <=> pc[<<d, u>>] \in SigLoop
        /\ pc[<<d, u>>] \in {"sig_check", "sig_reset"} => pc'[<<d, u>>] = pc[<<d, u>>]
    BY DEF Outside, SigLoop
  <2>3. CASE epoch'[<<d, u>>] = epoch[<<d, u>>]
    BY <1>1, <2>1, <2>2, <2>3 DEF SignalThread
  <2>4. CASE epoch'[<<d, u>>] # epoch[<<d, u>>]
    BY <1>2, <2>1, <2>2, <2>4 DEF SignalThread
  <2> QED
    BY <2>3, <2>4
<1> QED
  BY <1>3, SignalKeeps

\* A child's first thread registers, as the main thread.
LEMMA SignalStart ==
    ASSUME BaseInv, SignalInv, NEW c \in Cages, NEW t \in Threads, NEW ch \in Cages,
           ChildStarts(c, t, ch)
    PROVE  SignalInv'
<1>0. threads \in [Cages -> SUBSET Threads] /\ main \in [Cages -> Threads]
  BY DEF BaseInv, TypeOK
<1>1. /\ pc[<<c, t>>] = "fork_start" /\ pc'[<<c, t>>] = "wasm" /\ ~Begun(ch) /\ ch # c
      /\ pc'[<<ch, THREAD_START_ID>>] \in {"wasm", "gone"} /\ THREAD_START_ID \in Threads
      /\ threads' = [threads EXCEPT ![ch] = {THREAD_START_ID}]
      /\ \A d \in Cages, u \in Threads : (d # c \/ u # t) /\ (d # ch \/ u # THREAD_START_ID) =>
            pc'[<<d, u>>] = pc[<<d, u>>]
      /\ \A d \in Cages : Begun(d)' <=> Begun(d) \/ d = ch
      /\ UNCHANGED <<main, epoch, pending>>
  BY DEF ChildStarts, signalVars
<1>2. threads'[ch] = {THREAD_START_ID} /\ \A d \in Cages \ {ch} : threads'[d] = threads[d]
  BY <1>0, <1>1
<1>3. main[ch] = THREAD_START_ID
  BY <1>1 DEF SignalInv
<1>4. ASSUME NEW d \in Cages, NEW u \in Threads PROVE SignalThread(d, u)'
  <2>1. SignalThread(d, u)
    BY DEF SignalInv
  <2>2. CASE d = ch
    <3>1. pc[<<d, u>>] = "none"
      BY <1>1, <2>2 DEF Begun
    <3>2. epoch[<<d, u>>] = "normal"
      BY <2>1, <3>1 DEF SignalThread
    <3>3. pc'[<<d, u>>] \in {"none", "wasm", "gone"}
      <4>1. CASE u = THREAD_START_ID
        BY <1>1, <2>2, <4>1
      <4>2. CASE u # THREAD_START_ID
        BY <1>1, <2>2, <3>1, <4>2
      <4> QED
        BY <4>1, <4>2
    <3> QED
      BY <1>1, <3>2, <3>3 DEF SignalThread, SigLoop
  <2>3. CASE d # ch /\ (d # c \/ u # t)
    <3>1. pc'[<<d, u>>] = pc[<<d, u>>] /\ threads'[d] = threads[d]
      BY <1>1, <1>2, <2>3
    <3> QED
      BY <1>1, <2>1, <3>1 DEF SignalThread
  <2>4. CASE d = c /\ u = t
    <3>1. pc[<<d, u>>] = "fork_start" /\ pc'[<<d, u>>] = "wasm" /\ threads'[d] = threads[d]
      BY <1>1, <1>2, <2>4
    <3> QED
      BY <1>1, <2>1, <3>1 DEF SignalThread, SigLoop
  <2> QED
    BY <2>2, <2>3, <2>4
<1>5. ASSUME NEW d \in Cages
      PROVE  /\ threads'[d] # {} => main'[d] \in threads'[d]
             /\ ~Begun(d)' => main'[d] = THREAD_START_ID
  <2>1. CASE d = ch
    BY <1>1, <1>2, <1>3, <2>1
  <2>2. CASE d # ch
    <3>1. threads'[d] = threads[d] /\ main'[d] = main[d] /\ (Begun(d)' <=> Begun(d))
      BY <1>1, <1>2, <2>2
    <3> QED
      BY <3>1 DEF SignalInv
  <2> QED
    BY <2>1, <2>2
<1> QED
  BY <1>4, <1>5 DEF SignalInv

\* A thread is created.
LEMMA SignalSpawn ==
    ASSUME BaseInv, SignalInv, NEW c \in Cages, NEW t \in Threads, NEW v \in Threads,
           Spawn(c, t, v)
    PROVE  SignalInv'
<1>0. Created(c, t, v)
  BY SpawnEffect
<1>1. /\ pc[<<c, v>>] = "none" /\ pc'[<<c, v>>] = "starting"
      /\ \A d \in Cages, u \in Threads : d # c \/ u # v => pc'[<<d, u>>] = pc[<<d, u>>]
      /\ \A d \in Cages : Begun(d)' <=> Begun(d)
  BY <1>0 DEF Created
<1>2. UNCHANGED <<main, epoch, pending, threads>>
  BY DEF Spawn, signalVars
<1>3. ASSUME NEW d \in Cages, NEW u \in Threads PROVE SignalThread(d, u)'
  <2>1. SignalThread(d, u)
    BY DEF SignalInv
  <2>2. CASE d = c /\ u = v
    <3>1. epoch[<<d, u>>] = "normal" /\ pc'[<<d, u>>] = "starting"
      BY <1>1, <2>1, <2>2 DEF SignalThread
    <3> QED
      BY <1>2, <3>1 DEF SignalThread, SigLoop
  <2>3. CASE d # c \/ u # v
    <3>1. pc'[<<d, u>>] = pc[<<d, u>>]
      BY <1>1, <2>3
    <3> QED
      BY <1>2, <2>1, <3>1 DEF SignalThread
  <2> QED
    BY <2>2, <2>3
<1> QED
  BY <1>1, <1>2, <1>3 DEF SignalInv

\* A thread registers.
LEMMA SignalRegister ==
    ASSUME BaseInv, SignalInv, NEW c \in Cages, NEW t \in Threads,
           Register(c, t)
    PROVE  SignalInv'
<1>0. threads \in [Cages -> SUBSET Threads] /\ main \in [Cages -> Threads]
  BY DEF BaseInv, TypeOK
<1>a. /\ pc[<<c, t>>] = "starting" /\ pc'[<<c, t>>] = "wasm" /\ threads[c] # {}
      /\ threads' = [threads EXCEPT ![c] = @ \cup {t}] /\ Local(c, t)
  BY RegisterEffect
<1>b. /\ \A d \in Cages, u \in Threads : d # c \/ u # t => pc'[<<d, u>>] = pc[<<d, u>>]
      /\ \A d \in Cages : Begun(d)' <=> Begun(d)
  BY <1>a, LocalSame
<1>1. /\ pc[<<c, t>>] = "starting" /\ pc'[<<c, t>>] = "wasm" /\ threads[c] # {}
      /\ \A d \in Cages, u \in Threads : d # c \/ u # t => pc'[<<d, u>>] = pc[<<d, u>>]
      /\ \A d \in Cages : Begun(d)' <=> Begun(d)
      /\ threads' = [threads EXCEPT ![c] = @ \cup {t}]
  BY <1>a, <1>b
<1>2. UNCHANGED <<main, epoch, pending>>
  BY DEF Register, signalVars
<1>3. threads'[c] = threads[c] \cup {t} /\ \A d \in Cages \ {c} : threads'[d] = threads[d]
  BY <1>0, <1>1
<1>4. ASSUME NEW d \in Cages, NEW u \in Threads PROVE SignalThread(d, u)'
  <2>1. SignalThread(d, u)
    BY DEF SignalInv
  <2>2. CASE d = c /\ u = t
    <3>1. epoch[<<d, u>>] = "normal" /\ pc'[<<d, u>>] = "wasm"
      BY <1>1, <2>1, <2>2 DEF SignalThread
    <3> QED
      BY <1>2, <3>1 DEF SignalThread, SigLoop
  <2>3. CASE d # c \/ u # t
    <3>1. pc'[<<d, u>>] = pc[<<d, u>>] /\ (u \in threads'[d] => u \in threads[d])
      BY <1>1, <1>3, <2>3
    <3> QED
      BY <1>2, <2>1, <3>1 DEF SignalThread
  <2> QED
    BY <2>2, <2>3
<1>5. ASSUME NEW d \in Cages
      PROVE  /\ threads'[d] # {} => main'[d] \in threads'[d]
             /\ ~Begun(d)' => main'[d] = THREAD_START_ID
  <2>1. /\ threads[d] # {} => main[d] \in threads[d]
        /\ ~Begun(d) => main[d] = THREAD_START_ID
    BY DEF SignalInv
  <2>2. CASE d = c
    BY <1>1, <1>2, <1>3, <2>1, <2>2
  <2>3. CASE d # c
    BY <1>1, <1>2, <1>3, <2>1, <2>3
  <2> QED
    BY <2>2, <2>3
<1> QED
  BY <1>4, <1>5 DEF SignalInv

\* A thread leaves; the role and an unseen signal go to another one.
LEMMA SignalExit ==
    ASSUME EndsAlone', BaseInv, SignalInv, NEW c \in Cages, NEW t \in Threads,
           ThreadExit(c, t)
    PROVE  SignalInv'
<1>0. /\ threads \in [Cages -> SUBSET Threads] /\ main \in [Cages -> Threads]
      /\ epoch \in [Thr -> {"normal", "signal", "killed"}]
  BY DEF BaseInv, TypeOK
<1>1. /\ Local(c, t) /\ pc[<<c, t>>] \in {"unwind", "crash"}
      /\ pc'[<<c, t>>] \in {"finalize", "gone"} /\ t \in threads[c]
      /\ HandOver(c, t) /\ threads' = [threads EXCEPT ![c] = @ \ {t}]
      /\ pending' = pending
  BY ThreadExitEffect
<1>2. threads'[c] = threads[c] \ {t} /\ \A d \in Cages \ {c} : threads'[d] = threads[d]
  BY <1>0, <1>1
<1>3. /\ \A d \in Cages : Begun(d)' <=> Begun(d)
      /\ \A d \in Cages, u \in Threads : d # c \/ u # t => pc'[<<d, u>>] = pc[<<d, u>>]
  BY <1>1, LocalSame
<1>4. Begun(c) /\ main[c] \in threads[c] /\ SignalThread(c, t)
  BY <1>1 DEF SignalInv, Begun
<1>5. CASE main[c] # t \/ threads[c] = {t}
  <2>1. UNCHANGED <<main, epoch>>
    BY <1>1, <1>5 DEF HandOver
  <2>2. ASSUME NEW d \in Cages, NEW u \in Threads PROVE SignalThread(d, u)'
    <3>1. SignalThread(d, u)
      BY DEF SignalInv
    <3>2. CASE d = c /\ u = t
      <4>1. u \notin threads'[d] /\ pc'[<<d, u>>] \in {"finalize", "gone"}
        BY <1>1, <1>2, <3>2
      <4> QED
        BY <4>1 DEF SignalThread, SigLoop
    <3>3. CASE d # c \/ u # t
      <4>1. pc'[<<d, u>>] = pc[<<d, u>>] /\ (u \in threads'[d] => u \in threads[d])
        BY <1>2, <1>3, <3>3
      <4> QED
        BY <1>1, <2>1, <3>1, <4>1 DEF SignalThread
    <3> QED
      BY <3>2, <3>3
  <2>3. ASSUME NEW d \in Cages
        PROVE  /\ threads'[d] # {} => main'[d] \in threads'[d]
               /\ ~Begun(d)' => main'[d] = THREAD_START_ID
    <3>1. /\ threads[d] # {} => main[d] \in threads[d]
          /\ ~Begun(d) => main[d] = THREAD_START_ID
      BY DEF SignalInv
    <3>2. CASE d = c
      BY <1>2, <1>3, <1>4, <1>5, <2>1, <3>2
    <3>3. CASE d # c
      BY <1>2, <1>3, <2>1, <3>1, <3>3
    <3> QED
      BY <3>2, <3>3
  <2> QED
    BY <2>2, <2>3 DEF SignalInv
<1>6. CASE main[c] = t /\ threads[c] # {t}
  <2>1. PICK v \in threads[c] \ {t} :
           /\ main' = [main EXCEPT ![c] = v]
           /\ epoch' = IF epoch[<<c, t>>] = "signal" /\ epoch[<<c, v>>] # "killed"
                       THEN [epoch EXCEPT ![<<c, v>>] = "signal"] ELSE epoch
    BY <1>1, <1>6 DEF HandOver
  <2>2. v \in Threads
    BY <1>0
  <2>3. main'[c] = v /\ \A d \in Cages \ {c} : main'[d] = main[d]
    BY <1>0, <2>1
  <2>4. \A d \in Cages, u \in Threads : d # c \/ u # v => epoch'[<<d, u>>] = epoch[<<d, u>>]
    <3>1. CASE epoch' = epoch
      BY <3>1
    <3>2. CASE epoch' = [epoch EXCEPT ![<<c, v>>] = "signal"]
      BY <1>0, <3>2 DEF Thr
    <3> QED
      BY <2>1, <3>1, <3>2
  <2>5. epoch'[<<c, v>>] = "signal" => pending[c] # <<>>
    <3>1. CASE epoch[<<c, t>>] = "signal"
      BY <1>1, <1>4, <3>1 DEF SignalThread
    <3>2. CASE epoch[<<c, t>>] # "signal"
      <4>1. epoch' = epoch /\ SignalThread(c, v)
        BY <2>1, <2>2, <3>2 DEF SignalInv
      <4> QED
        BY <1>6, <2>1, <4>1 DEF SignalThread
    <3> QED
      BY <3>1, <3>2
  <2>6. ASSUME NEW d \in Cages, NEW u \in Threads PROVE SignalThread(d, u)'
    <3>1. SignalThread(d, u) /\ ThreadInv(c, v)
      BY <2>2 DEF SignalInv, BaseInv
    <3>2. CASE d = c /\ u = t
      <4>1. u \notin threads'[d] /\ pc'[<<d, u>>] \in {"finalize", "gone"}
        BY <1>1, <1>2, <3>2
      <4> QED
        BY <4>1 DEF SignalThread, SigLoop
    <3>3. CASE d = c /\ u = v
      <4>1. pc[<<d, u>>] \notin {"none", "starting"} /\ pc'[<<d, u>>] = pc[<<d, u>>]
        BY <1>3, <2>1, <3>1, <3>3
        DEF ThreadInv, Registered, Plain, Forking, SigLoop
      <4> QED
        BY <1>1, <2>3, <2>5, <3>3, <4>1 DEF SignalThread
    <3>4. CASE d = c /\ u # t /\ u # v
      <4>1. pc'[<<d, u>>] = pc[<<d, u>>] /\ epoch'[<<d, u>>] = epoch[<<d, u>>]
            /\ (u \in threads'[d] => u \in threads[d])
        BY <1>2, <1>3, <2>4, <3>4
      <4> QED
        BY <1>6, <3>1, <3>4, <4>1 DEF SignalThread
    <3>5. CASE d # c
      <4>1. pc'[<<d, u>>] = pc[<<d, u>>] /\ epoch'[<<d, u>>] = epoch[<<d, u>>]
            /\ threads'[d] = threads[d] /\ main'[d] = main[d]
        BY <1>2, <1>3, <2>3, <2>4, <3>5
      <4> QED
        BY <1>1, <3>1, <4>1 DEF SignalThread
    <3> QED
      BY <3>2, <3>3, <3>4, <3>5
  <2>7. ASSUME NEW d \in Cages
        PROVE  /\ threads'[d] # {} => main'[d] \in threads'[d]
               /\ ~Begun(d)' => main'[d] = THREAD_START_ID
    <3>1. CASE d = c
      BY <1>2, <1>3, <1>4, <2>1, <2>3, <3>1
    <3>2. CASE d # c
      <4>1. threads'[d] = threads[d] /\ main'[d] = main[d] /\ (Begun(d)' <=> Begun(d))
        BY <1>2, <1>3, <2>3, <3>2
      <4> QED
        BY <4>1 DEF SignalInv
    <3> QED
      BY <3>1, <3>2
  <2> QED
    BY <2>6, <2>7 DEF SignalInv
<1> QED
  BY <1>5, <1>6

\* The steps of the callback.
LEMMA SignalLoop ==
    ASSUME BaseInv, SignalInv, NEW c \in Cages, NEW t \in Threads,
           \/ Callback(c, t) \/ SigTake(c, t) \/ SigCheck(c, t) \/ SigReset(c, t)
           \/ SigRun(c, t)
    PROVE  SignalInv'
<1>0. /\ TypeOK /\ ThreadInv(c, t) /\ SignalThread(c, t)
      /\ pending \in [Cages -> Seq(Signals)] /\ main \in [Cages -> Threads]
      /\ epoch \in [Thr -> {"normal", "signal", "killed"}] /\ <<c, t>> \in Thr
  BY DEF BaseInv, SignalInv, TypeOK, Thr
<1>1. SigLoop \cup {"wasm", "term_kill"} \subseteq PcSet \ {"none", "starting"}
  BY DEF SigLoop, PcSet, Leaving
<1>2. CASE Callback(c, t)
  <2>1. /\ pc[<<c, t>>] = "wasm" /\ epoch[<<c, t>>] = "signal" /\ Goto(c, t, "sig")
        /\ UNCHANGED <<main, epoch, pending, threads>>
    BY <1>2 DEF Callback, At, signalVars
  <2>2. t \in threads[c]
    BY <1>0, <2>1 DEF ThreadInv, Registered, Plain
  <2>3. t = main[c]
    BY <1>0, <2>1, <2>2 DEF SignalThread
  <2> QED
    BY <1>1, <2>1, <2>3, SignalGoto DEF SigLoop
<1>3. CASE SigCheck(c, t)
  <2>1. /\ pc[<<c, t>>] = "sig_check"
        /\ Goto(c, t, IF no_pending(c) THEN "sig_reset" ELSE "sig_run")
        /\ UNCHANGED <<main, epoch, pending, threads>>
    BY <1>3 DEF SigCheck, At, signalVars
  <2>2. t = main[c]
    BY <1>0, <2>1 DEF SignalThread, SigLoop
  <2>3. CASE no_pending(c)
    BY <1>1, <2>1, <2>2, <2>3, SignalGoto DEF SigLoop
  <2>4. CASE ~no_pending(c)
    <3>1. pending[c] # <<>>
      <4>1. PICK i \in 1..Len(pending[c]) : ~Blocked(c, pending[c][i])
        BY <2>4 DEF no_pending
      <4> QED
        BY <4>1
    <3> QED
      BY <1>1, <2>1, <2>2, <2>4, <3>1, SignalGoto DEF SigLoop
  <2> QED
    BY <2>3, <2>4
<1>4. CASE SigRun(c, t)
  <2>1. /\ pc[<<c, t>>] = "sig_run" /\ UNCHANGED <<main, epoch, pending, threads>>
        /\ Goto(c, t, "term_kill") \/ Goto(c, t, "sig")
    BY <1>4 DEF SigRun, At, signalVars, AfterHandler
  <2>2. t = main[c]
    BY <1>0, <2>1 DEF SignalThread, SigLoop
  <2>3. CASE Goto(c, t, "term_kill")
    BY <1>1, <2>1, <2>2, <2>3, SignalGoto DEF SigLoop
  <2>4. CASE Goto(c, t, "sig")
    BY <1>1, <2>1, <2>2, <2>4, SignalGoto DEF SigLoop
  <2> QED
    BY <2>1, <2>3, <2>4
<1>5. CASE SigTake(c, t)
  <2>1. pc[<<c, t>>] = "sig" /\ UNCHANGED <<main, epoch, threads>>
    BY <1>5 DEF SigTake, At
  <2>2. t = main[c] /\ c \in cages
    BY <1>0, <2>1 DEF SignalThread, SigLoop, ThreadInv, Registered, Plain
  <2>3. CASE pending[c] = <<>>
    <3>1. UNCHANGED pending /\ Goto(c, t, "wasm")
      BY <1>5, <2>3 DEF SigTake
    <3> QED
      BY <1>1, <2>1, <2>3, <3>1, SignalGoto DEF SigLoop
  <2>4. CASE pending[c] # <<>>
    <3>1. pending' = [pending EXCEPT ![c] = Tail(@)] /\ Goto(c, t, "sig_check")
      BY <1>5, <2>2, <2>4 DEF SigTake
    <3>2. \A d \in Cages \ {c} : pending'[d] = pending[d]
      BY <1>0, <3>1
    <3>3. /\ pc'[<<c, t>>] = "sig_check"
          /\ \A d \in Cages, u \in Threads : d # c \/ u # t => pc'[<<d, u>>] = pc[<<d, u>>]
      BY <1>0, <1>1, <3>1, GotoFrame DEF SigLoop
    <3>4. ASSUME NEW d \in Cages, NEW u \in Threads
          PROVE  /\ pc'[<<d, u>>] = "none" <=> pc[<<d, u>>] = "none"
                 /\ pc'[<<d, u>>] \in {"none", "starting"} <=> pc[<<d, u>>] \in {"none", "starting"}
                 /\ pc'[<<d, u>>] \in SigLoop => u = main[d]
                 /\ u \in threads[d] /\ epoch'[<<d, u>>] = "signal" =>
                       /\ u = main[d]
                       /\ pending'[d] # <<>> \/ pc'[<<d, u>>] \in {"sig_check", "sig_reset"}
      <4>1. SignalThread(d, u)
        BY DEF SignalInv
      <4>2. CASE d = c /\ u = t
        BY <2>1, <2>2, <3>3, <4>2
      <4>3. CASE d = c /\ u # t
        BY <2>1, <2>2, <3>3, <4>1, <4>3 DEF SignalThread
      <4>4. CASE d # c
        BY <2>1, <3>2, <3>3, <4>1, <4>4 DEF SignalThread
      <4> QED
        BY <4>2, <4>3, <4>4
    <3> QED
      BY <2>1, <3>4, SignalKeeps
  <2> QED
    BY <2>3, <2>4
<1>6. CASE SigReset(c, t)
  <2>1. pc[<<c, t>>] = "sig_reset" /\ UNCHANGED <<main, pending, threads>> /\ Goto(c, t, "sig_run")
    BY <1>6 DEF SigReset, At
  <2>2. t = main[c] /\ c \in cages /\ t \in threads[c]
    BY <1>0, <2>1 DEF SignalThread, SigLoop, ThreadInv, Registered, Plain
  <2>3. epoch' = [epoch EXCEPT ![<<c, t>>] = "normal"]
    BY <1>6, <2>2 DEF SigReset
  <2>4. /\ epoch'[<<c, t>>] = "normal"
        /\ \A d \in Cages, u \in Threads : d # c \/ u # t => epoch'[<<d, u>>] = epoch[<<d, u>>]
    BY <1>0, <2>3 DEF Thr
  <2>5. /\ pc'[<<c, t>>] = "sig_run"
        /\ \A d \in Cages, u \in Threads : d # c \/ u # t => pc'[<<d, u>>] = pc[<<d, u>>]
    BY <1>0, <1>1, <2>1, GotoFrame DEF SigLoop
  <2>6. ASSUME NEW d \in Cages, NEW u \in Threads
        PROVE  /\ pc'[<<d, u>>] = "none" <=> pc[<<d, u>>] = "none"
               /\ pc'[<<d, u>>] \in {"none", "starting"} <=> pc[<<d, u>>] \in {"none", "starting"}
               /\ pc'[<<d, u>>] \in SigLoop => u = main[d]
               /\ epoch'[<<d, u>>] = epoch[<<d, u>>] \/ u \in threads[d]
               /\ u \in threads[d] /\ epoch'[<<d, u>>] = "signal" =>
                     /\ u = main[d]
                     /\ pending'[d] # <<>> \/ pc'[<<d, u>>] \in {"sig_check", "sig_reset"}
    <3>1. SignalThread(d, u)
      BY DEF SignalInv
    <3>2. CASE d = c /\ u = t
      BY <2>1, <2>2, <2>4, <2>5, <3>2
    <3>3. CASE d # c \/ u # t
      <4>1. pc'[<<d, u>>] = pc[<<d, u>>] /\ epoch'[<<d, u>>] = epoch[<<d, u>>]
        BY <2>4, <2>5, <3>3
      <4> QED
        BY <2>1, <3>1, <4>1 DEF SignalThread
    <3> QED
      BY <3>2, <3>3
  <2> QED
    BY <2>1, <2>6, SignalKeeps
<1> QED
  BY <1>2, <1>3, <1>4, <1>5, <1>6

\* exit_group kills the other threads.
LEMMA SignalKillAll ==
    ASSUME BaseInv, SignalInv, NEW c \in Cages, NEW t \in Threads, ExitGroupKill(c, t)
    PROVE  SignalInv'
<1>0. TypeOK /\ "unwind" \in PcSet
  BY DEF BaseInv, PcSet, Leaving
<1>1. /\ pc[<<c, t>>] \in {"eg_kill", "term_kill"} /\ KillAll(c, t) /\ Goto(c, t, "unwind")
      /\ UNCHANGED <<main, pending, threads>>
  BY DEF ExitGroupKill, At
<1>2. \A d \in Cages, u \in Threads :
         \/ epoch'[<<d, u>>] = epoch[<<d, u>>]
         \/ epoch'[<<d, u>>] = "killed" /\ u \in threads[d]
  <2>1. ASSUME NEW d \in Cages, NEW u \in Threads
        PROVE  \/ epoch'[<<d, u>>] = epoch[<<d, u>>]
               \/ epoch'[<<d, u>>] = "killed" /\ u \in threads[d]
    <3>1. <<d, u>> \in Thr /\ <<d, u>>[1] = d /\ <<d, u>>[2] = u
      BY DEF Thr
    <3>2. epoch'[<<d, u>>] = IF c \in cages /\ d = c /\ u \in threads[c] \ {t}
                             THEN "killed" ELSE epoch[<<d, u>>]
      BY <1>1, <3>1 DEF KillAll
    <3> QED
      BY <3>2
  <2> QED
    BY <2>1
<1>3. /\ pc'[<<c, t>>] = "unwind"
      /\ \A d \in Cages, u \in Threads : d # c \/ u # t => pc'[<<d, u>>] = pc[<<d, u>>]
  BY <1>0, <1>1, GotoFrame
<1>4. ASSUME NEW d \in Cages, NEW u \in Threads
      PROVE  /\ pc'[<<d, u>>] = "none" <=> pc[<<d, u>>] = "none"
             /\ pc'[<<d, u>>] \in {"none", "starting"} <=> pc[<<d, u>>] \in {"none", "starting"}
             /\ pc'[<<d, u>>] \in SigLoop => u = main[d]
             /\ epoch'[<<d, u>>] = epoch[<<d, u>>] \/ u \in threads[d]
             /\ u \in threads[d] /\ epoch'[<<d, u>>] = "signal" =>
                   /\ u = main[d]
                   /\ pending'[d] # <<>> \/ pc'[<<d, u>>] \in {"sig_check", "sig_reset"}
  <2>1. SignalThread(d, u)
    BY DEF SignalInv
  <2>2. CASE d = c /\ u = t
    BY <1>1, <1>2, <1>3, <2>1, <2>2 DEF SignalThread, SigLoop
  <2>3. CASE d # c \/ u # t
    <3>1. pc'[<<d, u>>] = pc[<<d, u>>]
      BY <1>3, <2>3
    <3> QED
      BY <1>1, <1>2, <2>1, <3>1 DEF SignalThread
  <2> QED
    BY <2>2, <2>3
<1> QED
  BY <1>1, <1>4, SignalKeeps

\* The initial state.
LEMMA InitSignal == Init => SignalInv
<1> SUFFICES ASSUME Init PROVE SignalInv
  OBVIOUS
<1>1. \A d \in Cages, u \in Threads : /\ pc[<<d, u>>] \in {"wasm", "none"}
                                      /\ epoch[<<d, u>>] = "normal"
  BY DEF Init, Thr
<1>2. \A d \in Cages, u \in Threads : SignalThread(d, u)
  BY <1>1 DEF SignalThread, SigLoop
<1> QED
  BY <1>2 DEF SignalInv, Init

\* Every step keeps it.
LEMMA NextSignal ==
    ASSUME EndsAlone', BaseInv, SignalInv, NEW c \in Cages, NEW t \in Threads,
           Guest(c, t) \/ Host(c, t)
    PROVE  SignalInv'
<1>0. TypeOK
  BY DEF BaseInv
<1>1. ASSUME NEW l \in Outside, Goto(c, t, l), pc[<<c, t>>] \in Outside,
             UNCHANGED <<main, epoch, pending, threads>>
      PROVE  SignalInv'
  BY <1>1, SignalGoto DEF Outside, SigLoop
<1>2. CASE \/ ForkCount(c, t) \/ ForkAdd(c, t) \/ ExitGroup(c, t) \/ ThreadReturns(c, t)
           \/ Crash(c, t) \/ CrashThread(c, t) \/ Killed(c, t) \/ ExitGroupRecord(c, t)
  <2>1. PICK l \in {"fork_add", "fork_start", "eg_record", "eg_kill", "unwind", "crash", "gone"} :
           /\ Goto(c, t, l) /\ UNCHANGED <<main, epoch, pending, threads>>
           /\ pc[<<c, t>>] \in {"wasm", "fork_add", "eg_record"}
    BY <1>2 DEF ForkCount, ForkAdd, ExitGroup, ThreadReturns, Crash, CrashThread, Killed,
       ExitGroupRecord, At, signalVars
  <2> QED
    BY <1>1, <2>1 DEF Outside, PcSet, Leaving, SigLoop
<1>3. CASE \/ FinLookup(c, t) \/ FinDec(c, t) \/ FinPush(c, t) \/ FinRemove(c, t)
           \/ FinCount(c, t)
  <2>1. PICK l \in {"fin_dec", "fin_push", "fin_signal", "fin_remove", "fin_count", "gone"} :
           /\ Goto(c, t, l) /\ UNCHANGED <<main, epoch, pending, threads>>
           /\ pc[<<c, t>>] \in {"finalize", "fin_dec", "fin_push", "fin_remove", "fin_count"}
    BY <1>3 DEF FinLookup, FinDec, FinPush, FinRemove, FinCount, At, signalVars
  <2> QED
    BY <1>1, <2>1 DEF Outside, PcSet, Leaving, SigLoop
<1>4. ASSUME NEW pid, NEW nohang,
             \/ WaitReaps(c, t, pid) \/ WaitFails(c, t, pid) \/ WaitBlocks(c, t, pid, nohang)
             \/ WaitLoop(c, t) \/ EchildReturns(c, t)
      PROVE  SignalInv'
  <2>1. PICK l \in {"wasm", "echild", "wait_any", "wait_pid"} :
           /\ Goto(c, t, l) /\ UNCHANGED <<main, epoch, pending, threads>>
           /\ pc[<<c, t>>] \in {"wasm", "echild", "wait_any", "wait_pid"}
    <3>1. CASE WaitReaps(c, t, pid)
      BY <3>1 DEF WaitReaps, Reap, Return, At, signalVars
    <3>2. CASE WaitFails(c, t, pid)
      BY <3>2 DEF WaitFails, At, signalVars
    <3>3. CASE WaitBlocks(c, t, pid, nohang)
      BY <3>3 DEF WaitBlocks, At, signalVars
    <3>4. CASE WaitLoop(c, t)
      BY <3>4 DEF WaitLoop, Reap, Return, At, signalVars
    <3>5. CASE EchildReturns(c, t)
      BY <3>5 DEF EchildReturns, Return, At, signalVars
    <3> QED
      BY <1>4, <3>1, <3>2, <3>3, <3>4, <3>5
  <2> QED
    BY <1>1, <2>1 DEF Outside, PcSet, Leaving, SigLoop
<1>5. ASSUME NEW d \in Cages, Kill(c, t, d) PROVE SignalInv'
  <2>1. Send(d, "TERM") /\ UNCHANGED <<main, threads, pc>> /\ "TERM" \in Signals
    BY <1>5 DEF Kill, Signals
  <2> QED
    BY <2>1, SignalSend
<1>6. CASE FinSignal(c, t)
  <2>1. /\ Send(parent[c], "CHLD") /\ UNCHANGED <<main, threads>> /\ "CHLD" \in Signals
        /\ Goto(c, t, "fin_remove") /\ pc[<<c, t>>] = "fin_signal"
    BY <1>6 DEF FinSignal, Signals, At
  <2>2. parent[c] \in Cages
    BY <1>0 DEF TypeOK
  <2>3. /\ pc'[<<c, t>>] = "fin_remove"
        /\ \A d \in Cages, u \in Threads : d # c \/ u # t => pc'[<<d, u>>] = pc[<<d, u>>]
    BY <1>0, <2>1, GotoFrame DEF PcSet, Leaving
  <2>4. pc[<<c, t>>] \in Outside /\ pc'[<<c, t>>] \in Outside
    BY <2>1, <2>3 DEF Outside, PcSet, Leaving, SigLoop
  <2>5. \A d \in Cages, u \in Threads :
           \/ pc'[<<d, u>>] = pc[<<d, u>>]
           \/ pc[<<d, u>>] \in Outside /\ pc'[<<d, u>>] \in Outside
    <3>1. ASSUME NEW d \in Cages, NEW u \in Threads
          PROVE  \/ pc'[<<d, u>>] = pc[<<d, u>>]
                 \/ pc[<<d, u>>] \in Outside /\ pc'[<<d, u>>] \in Outside
      <4>1. CASE d = c /\ u = t
        BY <2>4, <4>1
      <4>2. CASE d # c \/ u # t
        BY <2>3, <4>2
      <4> QED
        BY <4>1, <4>2
    <3> QED
      BY <3>1
  <2> QED
    BY <2>1, <2>2, <2>5, SignalSend
<1>7. CASE ForkStart(c, t)
  <2>1. PICK ch \in 2..nextId : ChildStarts(c, t, ch)
    BY <1>7, ForkStartEffect
  <2>2. ch \in Cages
    BY <2>1 DEF ChildStarts
  <2> QED
    BY <2>1, <2>2, SignalStart
<1>8. ASSUME NEW u \in Threads, Spawn(c, t, u) PROVE SignalInv'
  BY <1>8, SignalSpawn
<1>12. CASE Register(c, t)
  BY <1>12, SignalRegister
<1>9. CASE ThreadExit(c, t)
  BY <1>9, SignalExit
<1>10. CASE ExitGroupKill(c, t)
  BY <1>10, SignalKillAll
<1>11. CASE \/ Callback(c, t) \/ SigTake(c, t) \/ SigCheck(c, t) \/ SigReset(c, t)
            \/ SigRun(c, t)
  BY <1>11, SignalLoop
<1> QED
  BY <1>2, <1>3, <1>4, <1>5, <1>6, <1>7, <1>8, <1>9, <1>10, <1>11, <1>12
  DEF Guest, Host, EpochCheck

-----------------------------------------------------------------------------
(***************************************************************************)
(* The theorems.                                                           *)
(***************************************************************************)
\* The initial state satisfies it.
LEMMA InitInv == Init => Inv
BY InitBase, InitReport, InitKnown, InitHost, InitChild, InitSignal DEF Inv

\* A step after which every cage that ends has no thread left keeps the invariant.
LEMMA NextInv == Inv /\ [Next /\ EndsAlone']_vars => Inv'
<1> SUFFICES ASSUME Inv, [Next /\ EndsAlone']_vars PROVE Inv'
  OBVIOUS
<1>1. CASE UNCHANGED vars
  <2>1. UNCHANGED <<nextId, cages, parent, child_num, zombies, status, threads, main, epoch,
                    pending, pc, arg, cage_count, first, reaped, initiated, kills>>
    BY <1>1 DEF vars
  <2>a. \A d \in Cages : (Begun(d)' <=> Begun(d)) /\ (Ended(d)' <=> Ended(d))
    BY <2>1 DEF Begun, Ended
  <2>2. BaseInv'
    <3>1. TypeOK'
      BY <2>1 DEF Inv, BaseInv, TypeOK
    <3>2. \A d \in Cages, u \in Threads : ThreadInv(d, u)' <=> ThreadInv(d, u)
      BY <2>1 DEF ThreadInv, Begun
    <3>3. (TreeInv' <=> TreeInv) /\ (OneFinalizer' <=> OneFinalizer)
          /\ (OneChildEach' <=> OneChildEach)
      BY <2>1 DEF TreeInv, OneFinalizer, OneChildEach, Begun
    <3> QED
      BY <3>1, <3>2, <3>3 DEF Inv, BaseInv
  <2>3. ReportInv'
    <3>1. ASSUME NEW d \in Cages PROVE ZombieInv(d)' <=> ZombieInv(d)
      BY <2>1 DEF ZombieInv, ZombieOK, Ended, Begun, Final
    <3>2. ReapInv' <=> ReapInv
      BY <2>1, <2>a DEF ReapInv
    <3> QED
      BY <2>1, <3>1, <3>2 DEF Inv, ReportInv
  <2>4. KnownInv'
    BY <2>1 DEF Inv, KnownInv, UnreapedKnown, Reported, ZombiesOf, At
  <2>5. HostInv'
    BY <2>1 DEF Inv, HostInv, Counted
  <2>6. ChildInv'
    <3>1. \A q \in Cages : Unreported(q)' = Unreported(q) /\ (Begun(q)' <=> Begun(q))
      BY <2>1 DEF Unreported, Children, ZombiesOf, SomeAt, At, Begun
    <3> QED
      BY <2>1, <3>1 DEF Inv, ChildInv
  <2>7. SignalInv'
    BY <2>1 DEF Inv, SignalInv, SignalThread, Begun
  <2> QED
    BY <2>2, <2>3, <2>4, <2>5, <2>6, <2>7 DEF Inv
<1>2. ASSUME EndsAlone', NEW c \in Cages, NEW t \in Threads, Guest(c, t) \/ Host(c, t)
      PROVE  Inv'
  <2>1. BaseInv /\ ReportInv /\ KnownInv /\ HostInv /\ ChildInv /\ SignalInv
    BY DEF Inv
  <2>2. BaseInv'
    BY <1>2, <2>1, NextBase DEF Next
  <2>3. ReportInv'
    BY <1>2, <2>1, <2>2, NextReport
  <2>4. KnownInv'
    BY <1>2, <2>1, <2>2, NextKnown
  <2>5. HostInv'
    BY <1>2, <2>1, NextHost
  <2>6. ChildInv'
    BY <1>2, <2>1, <2>2, NextChild
  <2>7. SignalInv'
    BY <1>2, <2>1, NextSignal
  <2> QED
    BY <2>2, <2>3, <2>4, <2>5, <2>6, <2>7 DEF Inv
<1> QED
  BY <1>1, <1>2 DEF Next

\* The invariant follows in every reachable state: the starting point of all the
\* theorems below.
THEOREM LifeInvariant ==
    OrderlySpec => []Inv
BY InitInv, NextInv, PTL DEF OrderlySpec

\* Only the first thread of a cage exists.
Solo == \A c \in Cages, t \in Threads : t # THREAD_START_ID => pc[<<c, t>>] = "none"

\* A cage that creates no thread stays so, and ends with its thread.
LEMMA NextSolo ==
    ASSUME SpawnBy = {}, Inv, Solo, NEW c \in Cages, NEW t \in Threads,
           Guest(c, t) \/ Host(c, t)
    PROVE  Solo' /\ EndsAlone'
<1>0. BaseInv /\ TypeOK
  BY DEF Inv, BaseInv
<1>1. Move(c, t) \/ ReapMove(c, t) \/ Other(c, t)
  BY <1>0, StepKinds
<1>2. \A d \in Cages, u \in Threads : /\ ThreadInv(d, u) /\ pc[<<d, u>>] # "starting"
                                      /\ u \in threads[d] => u = THREAD_START_ID
  <2>1. \A d \in Cages, u \in Threads : ThreadInv(d, u)
    BY <1>0 DEF BaseInv
  <2>2. "none" \notin Registered \cup {"gone"} /\ "starting" \notin Registered \cup {"gone"}
    BY DEF Registered, Plain, SigLoop, Forking
  <2>3. ASSUME NEW d \in Cages, NEW u \in Threads, u \in threads[d]
        PROVE  pc[<<d, u>>] \in Registered \cup {"gone"}
    BY <2>1, <2>3 DEF ThreadInv
  <2>4. ASSUME NEW d \in Cages, NEW u \in Threads, u \in threads[d] PROVE u = THREAD_START_ID
    <3>1. pc[<<d, u>>] # "none"
      BY <2>2, <2>3, <2>4
    <3> QED
      BY <3>1 DEF Solo
  <2>5. ASSUME NEW d \in Cages, NEW u \in Threads, pc[<<d, u>>] = "starting" PROVE FALSE
    <3>1. u = THREAD_START_ID
      BY <2>5 DEF Solo
    <3>2. threads[d] # {} /\ threads[d] \subseteq Threads
      BY SMTT(30), <1>0, <2>1, <2>5 DEF ThreadInv, TypeOK
    <3>3. u \in threads[d]
      BY <2>4, <3>1, <3>2
    <3> QED
      BY <2>2, <2>3, <2>5, <3>3
  <2> QED
    BY <2>1, <2>4, <2>5
<1>3. ASSUME Local(c, t), pc'[<<c, t>>] \notin {"finalize", "starting"}, UNCHANGED threads
      PROVE  Solo' /\ EndsAlone'
  <2>1. \A d \in Cages, u \in Threads : d # c \/ u # t => pc'[<<d, u>>] = pc[<<d, u>>]
    BY <1>3 DEF Local, Thr
  <2>2. t = THREAD_START_ID
    BY <1>3 DEF Local, Solo
  <2>3. Solo'
    BY <2>1, <2>2 DEF Solo
  <2>4. EndsAlone'
    BY <1>2, <1>3, <2>1 DEF EndsAlone, At, ThreadInv, Finalizing, Reporting
  <2> QED
    BY <2>3, <2>4
<1>4. CASE Move(c, t) \/ ReapMove(c, t)
  BY <1>3, <1>4 DEF Move, ReapMove, Plain, SigLoop
<1>5. ASSUME NEW l \in PcSet \ {"none", "finalize", "starting"}, Goto(c, t, l), UNCHANGED threads,
             pc[<<c, t>>] # "none", \A p \in Thr \ {<<c, t>>} : arg'[p] = arg[p]
      PROVE  Solo' /\ EndsAlone'
  BY <1>0, <1>3, <1>5, GotoLocal
<1>6. CASE ForkCount(c, t)
  <2>1. \A p \in Thr \ {<<c, t>>} : arg'[p] = arg[p]
    BY <1>0, <1>6 DEF ForkCount, TypeOK
  <2> QED
    BY <1>5, <1>6, <2>1 DEF ForkCount, At, PcSet, SigLoop, Leaving
<1>7. CASE ForkAdd(c, t) \/ CrashThread(c, t) \/ FinLookup(c, t) \/ FinDec(c, t)
           \/ FinPush(c, t) \/ FinSignal(c, t) \/ FinRemove(c, t) \/ FinCount(c, t)
  <2>1. UNCHANGED <<threads, arg>> /\ pc[<<c, t>>] # "none"
    BY <1>7 DEF ForkAdd, CrashThread, FinLookup, FinDec, FinPush, FinSignal, FinRemove, FinCount, At
  <2>2. PICK l \in {"fork_start", "gone", "fin_dec", "fin_push", "fin_signal", "fin_remove", "fin_count"} :
           Goto(c, t, l)
    BY <1>7 DEF ForkAdd, CrashThread, FinLookup, FinDec, FinPush, FinSignal, FinRemove, FinCount
  <2> QED
    BY <1>5, <2>1, <2>2 DEF PcSet, SigLoop, Leaving
<1>8. CASE ForkStart(c, t)
  <2>1. PICK ch \in 2..nextId : ChildStarts(c, t, ch)
    BY <1>0, <1>8, ForkStartEffect
  <2>2. Solo'
    BY <2>1 DEF ChildStarts, Solo
  <2>3. ASSUME NEW d \in Cages, NEW u \in Threads, pc'[<<d, u>>] = "finalize"
        PROVE  threads'[d] = {} /\ \A v \in Threads : pc'[<<d, v>>] # "starting"
    <3>1. pc[<<d, u>>] = "finalize"
      BY <2>1, <2>3 DEF ChildStarts
    <3>2. d # ch
      BY <2>1, <3>1 DEF ChildStarts, Begun
    <3>3. threads[d] = {}
      BY <1>2, <3>1 DEF ThreadInv, Finalizing, Reporting
    <3>4. threads'[d] = threads[d]
      BY <1>0, <2>1, <3>2 DEF ChildStarts, TypeOK
    <3> QED
      BY <1>2, <2>1, <3>3, <3>4 DEF ChildStarts
  <2> QED
    BY <2>2, <2>3 DEF EndsAlone, At
<1>9. ~Register(c, t) /\ \A u \in Threads : ~Spawn(c, t, u)
  BY <1>2 DEF Register, Spawn, At
<1>10. CASE ThreadExit(c, t)
  <2>1. pc[<<c, t>>] \in {"unwind", "crash"} /\ UNCHANGED arg
    BY <1>10 DEF ThreadExit, At
  <2>2. c \in cages /\ threads[c] \ {t} = {}
    <3>1. c \in cages /\ t = THREAD_START_ID
      BY <1>2, <2>1 DEF ThreadInv, Registered, Plain, Solo
    <3> QED
      BY <1>0, <1>2, <3>1 DEF TypeOK
  <2>3. Goto(c, t, "finalize") /\ threads' = [threads EXCEPT ![c] = {}]
    BY <1>10, <2>2 DEF ThreadExit
  <2>4. Local(c, t) /\ pc'[<<c, t>>] = "finalize"
    BY <1>0, <2>1, <2>3, GotoLocal DEF PcSet, Leaving
  <2>5. \A d \in Cages, u \in Threads : d # c \/ u # t => pc'[<<d, u>>] = pc[<<d, u>>]
    BY <2>4 DEF Local, Thr
  <2>6. Solo'
    BY <2>1, <2>5 DEF Solo
  <2>7. threads'[c] = {} /\ \A d \in Cages : d # c => threads'[d] = threads[d]
    BY <1>0, <2>3 DEF TypeOK
  <2>8. EndsAlone'
    BY <1>2, <2>4, <2>5, <2>7 DEF EndsAlone, At, ThreadInv, Finalizing, Reporting
  <2> QED
    BY <2>6, <2>8
<1> QED
  BY <1>1, <1>4, <1>6, <1>7, <1>8, <1>9, <1>10 DEF Other

\* Where no cage creates threads, cage_finalize is always called by the last
\* thread: the hypothesis of the theorems below holds of every behaviour.
THEOREM LifeSoloOrderly == ASSUME SpawnBy = {} PROVE Spec => OrderlySpec
<1>1. Init => Inv /\ Solo
  BY InitInv DEF Init, Solo, Thr
<1>2. Inv /\ Solo /\ [Next]_vars => [Next /\ EndsAlone']_vars /\ Solo'
  <2> SUFFICES ASSUME Inv, Solo, [Next]_vars PROVE [Next /\ EndsAlone']_vars /\ Solo'
    OBVIOUS
  <2>1. CASE UNCHANGED vars
    BY <2>1 DEF vars, Solo
  <2>2. CASE Next
    BY <2>2, NextSolo DEF Next
  <2> QED
    BY <2>1, <2>2
<1> QED
  BY <1>1, <1>2, NextInv, PTL DEF Spec, OrderlySpec

\* Every variable keeps its type, however a cage ends.
THEOREM LifeTypeCorrect == Spec => []TypeOK
<1>1. Init => TypeOK /\ ForkPid
  <2>1. Init => TypeOK
    BY InitType
  <2>2. Init => ForkPid
    BY DEF Init, ForkPid, Forking
  <2> QED
    BY <2>1, <2>2
<1>2. TypeOK /\ ForkPid /\ [Next]_vars => (TypeOK /\ ForkPid)'
  <2>1. CASE UNCHANGED vars
    BY <2>1 DEF vars, TypeOK, ForkPid
  <2>2. TypeOK /\ ForkPid /\ Next => (TypeOK /\ ForkPid)'
    BY NextType, NextForkPid
  <2> QED
    BY <2>1, <2>2
<1> QED
  BY <1>1, <1>2, PTL DEF Spec

\* The status waitpid hands to a parent is the first one recorded: no thread of a
\* cage that has a zombie can record another.
THEOREM LifeStatusFirst ==
    OrderlySpec => []StatusFirst
<1>1. OrderlySpec => []Inv
  BY LifeInvariant
<1>2. Inv => StatusFirst
  <2> SUFFICES ASSUME Inv, NEW c \in 1..nextId, NEW i \in 1..Len(zombies[c])
               PROVE  zombies[c][i].exit_code =
                         IF first[zombies[c][i].cageid] = NoStatus
                         THEN "success" ELSE first[zombies[c][i].cageid]
    BY DEF StatusFirst
  <2>1. status = first /\ c \in Cages /\ ReportInv
    BY Ids DEF Inv, BaseInv, ReportInv
  <2>2. ZombieOK(c, zombies[c][i])
    BY <2>1 DEF ReportInv, ZombieInv
  <2> QED
    BY <2>1, <2>2 DEF ZombieOK, Final
<1> QED
  BY <1>1, <1>2, PTL

\* cage_finalize and waitpid report a child at most once.
THEOREM LifeZombieOnce ==
    OrderlySpec => []ZombieOnce
<1>1. OrderlySpec => []Inv
  BY LifeInvariant
<1>2. Inv => ZombieOnce
  <2> SUFFICES ASSUME Inv, NEW x \in 2..nextId
               PROVE  Cardinality(ZombiesOf(parent[x], x)) + reaped[x] <= 1
    BY DEF ZombieOnce
  <2>1. TypeOK /\ x \in Cages /\ ReportInv
    BY Ids DEF Inv, BaseInv
  <2>2. PICK q \in Cages : q = parent[x]
    BY <2>1 DEF TypeOK
  <2>3. reaped[x] \in {0, 1} /\ ZombieInv(q)
    BY <2>1 DEF ReportInv, ReapInv
  <2>4. CASE ZombiesOf(q, x) = {}
    <3>1. Cardinality(ZombiesOf(q, x)) = 0
      BY <2>4, FS_EmptySet
    <3> QED
      BY <2>2, <2>3, <3>1
  <2>5. CASE ZombiesOf(q, x) # {}
    <3>1. PICK i \in 1..Len(zombies[q]) : zombies[q][i].cageid = x
      BY <2>5 DEF ZombiesOf
    <3>2. ZombiesOf(q, x) = {i}
      BY <2>3, <3>1 DEF ZombiesOf, ZombieInv
    <3>3. reaped[x] = 0
      BY <2>3, <3>1 DEF ZombieInv, ZombieOK
    <3>4. Cardinality(ZombiesOf(q, x)) = 1
      BY <3>2, FS_Singleton
    <3> QED
      BY <2>2, <3>3, <3>4
  <2> QED
    BY <2>4, <2>5
<1> QED
  BY <1>1, <1>2, PTL

\* waitpid finds every child that it has not reaped: cage_finalize pushes the
\* zombie before it removes the cage.
THEOREM LifeUnreapedKnown ==
    OrderlySpec => []UnreapedKnown
<1>1. OrderlySpec => []Inv
  BY LifeInvariant
<1>2. Inv => UnreapedKnown
  BY DEF Inv, KnownInv
<1> QED
  BY <1>1, <1>2, PTL

\* The host's count is not zero while there is a cage in CAGE_MAP, so the host
\* process does not exit under it.
THEOREM LifeHostStays ==
    OrderlySpec => []HostStays
<1>1. OrderlySpec => []Inv
  BY LifeInvariant
<1>2. Inv => HostStays
  BY HostFromCount DEF Inv
<1> QED
  BY <1>1, <1>2, PTL

\* child_num of a live cage is exactly the number of children that cage_finalize
\* has not taken off it; it never wraps.
THEOREM LifeChildNumExact ==
    OrderlySpec => []ChildNumExact
<1>1. OrderlySpec => []Inv
  BY LifeInvariant
<1>2. Inv => ChildNumExact
  BY ChildFromCount DEF Inv, BaseInv
<1> QED
  BY <1>1, <1>2, PTL

\* A main thread whose epoch says "signal" has a signal to take or is in the loop
\* that resets it, through every hand-over of the role.
THEOREM LifeNoSpuriousSignal ==
    OrderlySpec => []NoSpuriousSignal
<1>1. OrderlySpec => []Inv
  BY LifeInvariant
<1>2. Inv => NoSpuriousSignal
  <2> SUFFICES ASSUME Inv, NEW c \in cages, main[c] \in threads[c],
                      epoch[<<c, main[c]>>] = "signal"
               PROVE  pending[c] # <<>> \/ pc[<<c, main[c]>>] \in SigLoop \cup Leaving
    BY DEF NoSpuriousSignal
  <2>1. TypeOK /\ c \in Cages
    BY Ids DEF Inv, BaseInv
  <2>2. main[c] \in Threads
    BY <2>1 DEF TypeOK
  <2>3. SignalThread(c, main[c])
    BY <2>1, <2>2 DEF Inv, SignalInv
  <2> QED
    BY <2>3 DEF SignalThread, SigLoop
<1> QED
  BY <1>1, <1>2, PTL

-----------------------------------------------------------------------------
(***************************************************************************)
(* No signal is lost.                                                      *)
(***************************************************************************)
\* The main thread knows of the signals that are queued.
Announced(c) ==
    LET p == <<c, main[c]>> IN
    /\ status[c] = NoStatus
    /\ main[c] \in threads[c]
    /\ pending[c] # <<>>
    => epoch[p] = "signal" \/ pc[p] \in SigLoop

\* A thread is marked, or about to mark the others, only after a status was
\* recorded, and nothing is queued in a cage that has not begun.
Calm(c) ==
    /\ ~Begun(c) => pending[c] = <<>>
    /\ \A t \in Threads :
          pc[<<c, t>>] \in {"eg_kill", "term_kill"} \/ epoch[<<c, t>>] = "killed" =>
              status[c] # NoStatus

AnnounceInv == \A c \in Cages : Announced(c) /\ Calm(c)

\* A recorded status stays.
LEMMA StatusKept ==
    ASSUME BaseInv, NEW c \in Cages, NEW t \in Threads, Guest(c, t) \/ Host(c, t)
    PROVE  \A d \in Cages : status[d] # NoStatus => status'[d] = status[d]
<1>0. TypeOK
  BY DEF BaseInv
<1>1. Move(c, t) \/ ReapMove(c, t) \/ Other(c, t)
  BY <1>0, StepKinds
<1>2. CASE UNCHANGED status
  BY <1>2
<1>3. ASSUME NEW s \in Statuses, Record(c, s)
      PROVE  \A d \in Cages : status[d] # NoStatus => status'[d] = status[d]
  BY <1>0, <1>3 DEF Record, TypeOK
<1>4. CASE ReapMove(c, t) \/ Other(c, t)
  <2>1. UNCHANGED status
    BY <1>4 DEF ReapMove, Other, ForkCount, ForkAdd, ForkStart, Spawn, Register, CrashThread,
       ThreadExit, FinLookup, FinDec, FinPush, FinSignal, FinRemove, FinCount
  <2> QED
    BY <1>2, <2>1
<1> QED
  BY <1>1, <1>2, <1>3, <1>4 DEF Move

\* A registered thread records a status in its own cage.
LEMMA RecordDone ==
    ASSUME BaseInv, NEW c \in Cages, NEW t \in Threads, pc[<<c, t>>] \in Plain,
           NEW s \in Statuses, Record(c, s)
    PROVE  status'[c] # NoStatus
<1>1. TypeOK /\ ThreadInv(c, t) /\ NoStatus \notin Statuses
  BY DEF BaseInv, NoStatus, Statuses
<1>2. c \in cages
  BY <1>1 DEF ThreadInv, Registered
<1> QED
  BY <1>1, <1>2 DEF Record, TypeOK

\* The positions a step can reach without marking anyone: the part of Calm that
\* every step keeps when its own thread does.
LEMMA CalmKept ==
    ASSUME EndsAlone', BaseInv, AnnounceInv, NEW c \in Cages, NEW t \in Threads,
           Guest(c, t) \/ Host(c, t), NEW d \in Cages,
           ~Begun(d) => pending'[d] = pending[d],
           pc'[<<c, t>>] \in {"eg_kill", "term_kill"} => status'[c] # NoStatus,
           \A u \in Threads : epoch'[<<d, u>>] = "killed" => status[d] # NoStatus
    PROVE  Calm(d)'
<1>1. Calm(d) /\ (Begun(d) => Begun(d)')
  BY StepTree DEF AnnounceInv
<1>2. (~Begun(d))' => pending'[d] = <<>>
  BY <1>1 DEF Calm
<1>3. status[d] # NoStatus => status'[d] # NoStatus
  BY StatusKept
<1>4. ASSUME NEW u \in Threads, pc'[<<d, u>>] \in {"eg_kill", "term_kill"}
      PROVE  status'[d] # NoStatus
  <2>1. CASE d = c /\ u = t
    BY <1>4, <2>1
  <2>2. CASE d # c \/ u # t
    <3>1. pc'[<<d, u>>] = pc[<<d, u>>]
      BY <1>4, <2>2, StepFrame
    <3> QED
      BY <1>1, <1>3, <1>4, <3>1 DEF Calm
  <2> QED
    BY <2>1, <2>2
<1> QED
  BY <1>2, <1>3, <1>4 DEF Calm

\* A step that leaves the signals of every cage and their threads alone.
LEMMA QuietAnnounce ==
    ASSUME EndsAlone', BaseInv, AnnounceInv, NEW c \in Cages, NEW t \in Threads,
           Guest(c, t) \/ Host(c, t), UNCHANGED <<main, epoch, pending>>,
           \A d \in Cages : main[d] \in threads'[d] =>
              main[d] \in threads[d] \/ pending[d] = <<>>,
           pc'[<<c, t>>] \in {"eg_kill", "term_kill"} => status'[c] # NoStatus,
           pc[<<c, t>>] \in SigLoop =>
              pc'[<<c, t>>] \in SigLoop \/ pending[c] = <<>> \/ status'[c] # NoStatus
    PROVE  AnnounceInv'
<1>1. ASSUME NEW d \in Cages PROVE Announced(d)'
  <2>1. Announced(d) /\ (status[d] # NoStatus => status'[d] = status[d])
    BY StatusKept DEF AnnounceInv
  <2>2. PICK u : u = main[d]
    OBVIOUS
  <2>3. u \in Threads /\ main'[d] = u
    BY <2>2 DEF BaseInv, TypeOK
  <2>4. pc[<<d, u>>] \in SigLoop =>
           pc'[<<d, u>>] \in SigLoop \/ pending[d] = <<>> \/ status'[d] # NoStatus
    <3>1. CASE d = c /\ u = t
      BY <3>1
    <3>2. CASE d # c \/ u # t
      <4>1. \/ pc'[<<d, u>>] = pc[<<d, u>>]
            \/ pc[<<d, u>>] = "none"
        BY <2>3, <3>2, StepFrame
      <4> QED
        BY <4>1 DEF SigLoop
    <3> QED
      BY <3>1, <3>2
  <2> QED
    BY <2>1, <2>2, <2>3, <2>4 DEF Announced
<1>2. ASSUME NEW d \in Cages PROVE Calm(d)'
  <2>1. \A u \in Threads : epoch'[<<d, u>>] = "killed" => status[d] # NoStatus
    BY DEF AnnounceInv, Calm
  <2> QED
    BY <2>1, CalmKept
<1> QED
  BY <1>1, <1>2 DEF AnnounceInv

\* A signal is sent to a cage that has begun: its main thread is told, unless it is
\* in the loop already.
LEMMA SendAnnounce ==
    ASSUME EndsAlone', BaseInv, SignalInv, AnnounceInv, NEW c \in Cages, NEW t \in Threads,
           Guest(c, t) \/ Host(c, t), NEW e \in Cages, NEW s \in Signals, Send(e, s), Begun(e),
           UNCHANGED <<main, threads, status>>,
           pc[<<c, t>>] \notin SigLoop, pc'[<<c, t>>] \notin {"eg_kill", "term_kill"}
    PROVE  AnnounceInv'
<1>0. /\ TypeOK /\ pending \in [Cages -> Seq(Signals)] /\ main \in [Cages -> Threads]
      /\ epoch \in [Thr -> {"normal", "signal", "killed"}]
  BY DEF BaseInv, TypeOK
<1>1. \A d \in Cages \ {e} : pending'[d] = pending[d]
  <2>1. UNCHANGED pending \/ pending' = [pending EXCEPT ![e] = Append(@, s)]
    BY DEF Send
  <2> QED
    BY <1>0, <2>1
<1>2. \A d \in Cages, u \in Threads :
         \/ epoch'[<<d, u>>] = epoch[<<d, u>>]
         \/ epoch'[<<d, u>>] = "signal"
  <2>1. \/ epoch' = epoch
        \/ epoch' = [epoch EXCEPT ![<<e, main[e]>>] = "signal"]
    BY DEF Send, Triggered
  <2> QED
    BY <1>0, <2>1 DEF Thr
<1>3. \A d \in Cages, u \in Threads : pc[<<d, u>>] \in SigLoop => pc'[<<d, u>>] \in SigLoop
  <2>1. ASSUME NEW d \in Cages, NEW u \in Threads, pc[<<d, u>>] \in SigLoop
        PROVE  pc'[<<d, u>>] \in SigLoop
    <3>1. d # c \/ u # t
      BY <2>1
    <3>2. pc'[<<d, u>>] = pc[<<d, u>>] \/ pc[<<d, u>>] = "none"
      BY <3>1, StepFrame
    <3> QED
      BY <2>1, <3>2 DEF SigLoop
  <2> QED
    BY <2>1
<1>4. ASSUME NEW d \in Cages PROVE Announced(d)'
  <2>1. Announced(d) /\ main[d] \in Threads
    BY <1>0 DEF AnnounceInv
  <2>2. CASE d # e \/ UNCHANGED pending
    <3>1. pending'[d] = pending[d]
      BY <1>1, <2>2
    <3> QED
      BY <1>2, <1>3, <2>1, <3>1 DEF Announced
  <2>3. CASE d = e /\ ~UNCHANGED pending
    <3>1. epoch' = IF Blocked(e, s) THEN epoch ELSE Triggered(e)
      BY <2>3 DEF Send
    <3>2. CASE Blocked(e, s)
      <4>1. PICK u \in Threads : pc[<<e, u>>] \in SigLoop
        BY <3>2 DEF Blocked
      <4>2. u = main[e]
        BY <4>1 DEF SignalInv, SignalThread
      <4> QED
        BY <1>3, <2>1, <2>3, <4>1, <4>2 DEF Announced
    <3>3. CASE ~Blocked(e, s)
      <4>1. main[e] \in threads[e] => epoch'[<<e, main[e]>>] = "signal"
        BY <1>0, <3>1, <3>3 DEF Triggered, Thr
      <4> QED
        BY <2>3, <4>1 DEF Announced
    <3> QED
      BY <3>2, <3>3
  <2> QED
    BY <2>2, <2>3
<1>5. ASSUME NEW d \in Cages PROVE Calm(d)'
  <2>1. ~Begun(d) => pending'[d] = pending[d]
    BY <1>1
  <2>2. \A u \in Threads : epoch'[<<d, u>>] = "killed" => status[d] # NoStatus
    BY <1>2 DEF AnnounceInv, Calm
  <2> QED
    BY <2>1, <2>2, CalmKept
<1> QED
  BY <1>4, <1>5 DEF AnnounceInv

\* The main thread leaves, and another one is told what it knew.
LEMMA ExitAnnounce ==
    ASSUME EndsAlone', BaseInv, SignalInv, AnnounceInv, NEW c \in Cages, NEW t \in Threads,
           ThreadExit(c, t)
    PROVE  AnnounceInv'
<1>0. /\ threads \in [Cages -> SUBSET Threads] /\ main \in [Cages -> Threads]
      /\ epoch \in [Thr -> {"normal", "signal", "killed"}]
  BY DEF BaseInv, TypeOK
<1>1. /\ Local(c, t) /\ pc[<<c, t>>] \in {"unwind", "crash"}
      /\ pc'[<<c, t>>] \in {"finalize", "gone"}
      /\ HandOver(c, t) /\ threads' = [threads EXCEPT ![c] = @ \ {t}]
      /\ UNCHANGED <<pending, status>>
  BY ThreadExitEffect
<1>2. \A d \in Cages, u \in Threads : u \in threads'[d] => u \in threads[d]
  BY <1>0, <1>1
<1>3. Guest(c, t) \/ Host(c, t)
  BY DEF Host
<1>4. CASE main[c] # t \/ threads[c] = {t}
  <2>1. UNCHANGED <<main, epoch>>
    BY <1>1, <1>4 DEF HandOver
  <2> QED
    BY <1>0, <1>1, <1>2, <1>3, <2>1, QuietAnnounce DEF SigLoop
<1>5. CASE main[c] = t /\ threads[c] # {t}
  <2>1. PICK v \in threads[c] \ {t} :
           /\ main' = [main EXCEPT ![c] = v]
           /\ epoch' = IF epoch[<<c, t>>] = "signal" /\ epoch[<<c, v>>] # "killed"
                       THEN [epoch EXCEPT ![<<c, v>>] = "signal"] ELSE epoch
    BY <1>1, <1>5 DEF HandOver
  <2>2. v \in Threads
    BY <1>0
  <2>3. \A d \in Cages, u \in Threads :
           /\ d # c \/ u # v => epoch'[<<d, u>>] = epoch[<<d, u>>]
           /\ epoch'[<<d, u>>] = "killed" => epoch[<<d, u>>] = "killed"
    <3>1. CASE epoch' = epoch
      BY <3>1
    <3>2. CASE epoch' = [epoch EXCEPT ![<<c, v>>] = "signal"]
      BY <1>0, <3>2 DEF Thr
    <3> QED
      BY <2>1, <3>1, <3>2
  <2>4. main'[c] = v /\ \A d \in Cages \ {c} : main'[d] = main[d]
    BY <1>0, <2>1
  <2>5. ASSUME NEW d \in Cages PROVE Announced(d)'
    <3>1. CASE d = c
      <4>1. Announced(c) /\ Calm(c)
        BY DEF AnnounceInv
      <4>2. t \in threads[c]
        BY <1>1, ThreadExitEffect
      <4>3. pc[<<c, t>>] \notin SigLoop
        BY <1>1 DEF SigLoop
      <4>4. status[c] = NoStatus /\ pending[c] # <<>> => epoch[<<c, t>>] = "signal"
        BY <1>5, <4>1, <4>2, <4>3 DEF Announced
      <4>5. status[c] = NoStatus => epoch[<<c, v>>] # "killed"
        BY <2>2, <4>1 DEF Calm
      <4>6. status[c] = NoStatus /\ pending[c] # <<>> => epoch'[<<c, v>>] = "signal"
        BY <1>0, <2>1, <2>2, <4>4, <4>5 DEF Thr
      <4> QED
        BY <1>1, <2>4, <3>1, <4>6 DEF Announced
    <3>2. CASE d # c
      <4>1. main[d] \in Threads
        BY <1>0
      <4>2. pc'[<<d, main[d]>>] = pc[<<d, main[d]>>]
        BY <1>1, <3>2, <4>1, LocalSame
      <4>3. epoch'[<<d, main[d]>>] = epoch[<<d, main[d]>>] /\ main'[d] = main[d]
        BY <2>3, <2>4, <3>2, <4>1
      <4>4. Announced(d)
        BY DEF AnnounceInv
      <4> QED
        BY <1>1, <1>2, <4>1, <4>2, <4>3, <4>4 DEF Announced
    <3> QED
      BY <3>1, <3>2
  <2>6. ASSUME NEW d \in Cages PROVE Calm(d)'
    <3>1. \A u \in Threads : epoch'[<<d, u>>] = "killed" => status[d] # NoStatus
      BY <2>3 DEF AnnounceInv, Calm
    <3> QED
      BY <1>1, <1>3, <3>1, CalmKept
  <2> QED
    BY <2>5, <2>6 DEF AnnounceInv
<1> QED
  BY <1>4, <1>5

\* The steps of the callback that change a queue or an epoch.
LEMMA TakeAnnounce ==
    ASSUME EndsAlone', BaseInv, SignalInv, AnnounceInv, NEW c \in Cages, NEW t \in Threads,
           SigTake(c, t) \/ SigReset(c, t)
    PROVE  AnnounceInv'
<1>0. /\ TypeOK /\ SignalThread(c, t) /\ pending \in [Cages -> Seq(Signals)]
      /\ main \in [Cages -> Threads]
      /\ epoch \in [Thr -> {"normal", "signal", "killed"}] /\ <<c, t>> \in Thr
  BY DEF BaseInv, SignalInv, TypeOK, Thr
<1>1. Guest(c, t) \/ Host(c, t)
  BY DEF Host
<1>2. pc[<<c, t>>] \in {"sig", "sig_reset"} /\ UNCHANGED <<main, threads, status>>
  BY DEF SigTake, SigReset, At
<1>3. t = main[c]
  BY <1>0, <1>2 DEF SignalThread, SigLoop
<1>4. /\ \A d \in Cages \ {c} : pending'[d] = pending[d]
      /\ \A d \in Cages \ {c}, u \in Threads : epoch'[<<d, u>>] = epoch[<<d, u>>]
      /\ \A u \in Threads : epoch'[<<c, u>>] = "killed" => epoch[<<c, u>>] = "killed"
  <2>1. CASE SigTake(c, t)
    <3>1. epoch' = epoch /\ (pending' = pending \/ pending' = [pending EXCEPT ![c] = Tail(@)])
      BY <2>1 DEF SigTake
    <3> QED
      BY <1>0, <3>1
  <2>2. CASE SigReset(c, t)
    <3>1. pending' = pending /\ \/ epoch' = epoch
                                \/ epoch' = [epoch EXCEPT ![<<c, main[c]>>] = "normal"]
      BY <2>2 DEF SigReset
    <3> QED
      BY <1>0, <3>1 DEF Thr
  <2> QED
    BY <2>1, <2>2
<1>5. \/ pc'[<<c, t>>] \in {"sig_check", "sig_run"}
      \/ pc'[<<c, t>>] = "wasm" /\ UNCHANGED pending /\ pending[c] = <<>>
  <2>1. CASE SigTake(c, t)
    <3>1. ThreadInv(c, t)
      BY DEF BaseInv
    <3>2. c \in cages
      BY <2>1, <3>1 DEF SigTake, At, ThreadInv, Registered, Plain, SigLoop
    <3>3. \/ Goto(c, t, "sig_check")
          \/ Goto(c, t, "wasm") /\ UNCHANGED pending /\ pending[c] = <<>>
      BY <2>1, <3>2 DEF SigTake
    <3> QED
      BY <1>0, <3>3 DEF Goto, TypeOK
  <2>2. CASE SigReset(c, t)
    BY <1>0, <2>2 DEF SigReset, Goto, TypeOK
  <2> QED
    BY <2>1, <2>2
<1>6. ASSUME NEW d \in Cages PROVE Announced(d)'
  <2>1. CASE d = c
    BY <1>2, <1>3, <1>5, <2>1 DEF Announced, SigLoop
  <2>2. CASE d # c
    <3>1. main[d] \in Threads
      BY <1>0
    <3>2. pc'[<<d, main[d]>>] = pc[<<d, main[d]>>] \/ pc[<<d, main[d]>>] = "none"
      BY <1>1, <2>2, <3>1, StepFrame
    <3>3. pending'[d] = pending[d] /\ epoch'[<<d, main[d]>>] = epoch[<<d, main[d]>>]
      BY <1>4, <2>2, <3>1
    <3>4. Announced(d)
      BY DEF AnnounceInv
    <3> QED
      BY <1>2, <3>2, <3>3, <3>4 DEF Announced, SigLoop
  <2> QED
    BY <2>1, <2>2
<1>7. ASSUME NEW d \in Cages PROVE Calm(d)'
  <2>1. Begun(c)
    BY <1>2 DEF Begun
  <2>2. ~Begun(d) => pending'[d] = pending[d]
    BY <1>4, <2>1
  <2>3. \A u \in Threads : epoch'[<<d, u>>] = "killed" => epoch[<<d, u>>] = "killed"
    BY <1>4
  <2>4. \A u \in Threads : epoch'[<<d, u>>] = "killed" => status[d] # NoStatus
    BY <2>3 DEF AnnounceInv, Calm
  <2>5. pc'[<<c, t>>] \notin {"eg_kill", "term_kill"}
    BY <1>5
  <2> QED
    BY <1>1, <2>2, <2>4, <2>5, CalmKept
<1> QED
  BY <1>6, <1>7 DEF AnnounceInv

\* epoch_kill_all marks the threads of a cage that has a status.
LEMMA KillAnnounce ==
    ASSUME EndsAlone', BaseInv, AnnounceInv, NEW c \in Cages, NEW t \in Threads,
           ExitGroupKill(c, t)
    PROVE  AnnounceInv'
<1>0. TypeOK /\ main \in [Cages -> Threads]
  BY DEF BaseInv, TypeOK
<1>1. Guest(c, t) \/ Host(c, t)
  BY DEF Host
<1>2. /\ pc[<<c, t>>] \in {"eg_kill", "term_kill"} /\ KillAll(c, t) /\ Goto(c, t, "unwind")
      /\ UNCHANGED <<main, pending, threads, status>>
  BY DEF ExitGroupKill, At
<1>3. status[c] # NoStatus
  BY <1>2 DEF AnnounceInv, Calm
<1>4. \A d \in Cages \ {c}, u \in Threads : epoch'[<<d, u>>] = epoch[<<d, u>>]
  <2>1. ASSUME NEW d \in Cages \ {c}, NEW u \in Threads
        PROVE  epoch'[<<d, u>>] = epoch[<<d, u>>]
    <3>1. <<d, u>> \in Thr /\ <<d, u>>[1] = d
      BY DEF Thr
    <3> QED
      BY <1>2, <3>1 DEF KillAll
  <2> QED
    BY <2>1
<1>5. /\ pc'[<<c, t>>] = "unwind"
      /\ \A d \in Cages, u \in Threads : d # c \/ u # t => pc'[<<d, u>>] = pc[<<d, u>>]
  BY <1>0, <1>2, GotoFrame DEF PcSet, Leaving
<1>6. ASSUME NEW d \in Cages PROVE Announced(d)'
  <2>1. CASE d = c
    BY <1>2, <1>3, <2>1 DEF Announced
  <2>2. CASE d # c
    <3>1. main[d] \in Threads /\ Announced(d)
      BY <1>0 DEF AnnounceInv
    <3>2. /\ pc'[<<d, main[d]>>] = pc[<<d, main[d]>>]
          /\ epoch'[<<d, main[d]>>] = epoch[<<d, main[d]>>]
      BY <1>4, <1>5, <2>2, <3>1
    <3> QED
      BY <1>2, <3>1, <3>2 DEF Announced
  <2> QED
    BY <2>1, <2>2
<1>7. ASSUME NEW d \in Cages PROVE Calm(d)'
  <2>1. \A u \in Threads : epoch'[<<d, u>>] = "killed" => status[d] # NoStatus
    BY <1>3, <1>4 DEF AnnounceInv, Calm
  <2> QED
    BY <1>1, <1>2, <1>5, <2>1, CalmKept
<1> QED
  BY <1>6, <1>7 DEF AnnounceInv

\* Every step keeps it.
LEMMA NextAnnounce ==
    ASSUME ~EarlyKill, EndsAlone', BaseInv, SignalInv, AnnounceInv,
           NEW c \in Cages, NEW t \in Threads, Guest(c, t) \/ Host(c, t)
    PROVE  AnnounceInv'
<1>0. TypeOK /\ ThreadInv(c, t) /\ threads \in [Cages -> SUBSET Threads]
  BY DEF BaseInv, TypeOK
<1>a. ASSUME NEW l \in PcSet, Goto(c, t, l) PROVE pc'[<<c, t>>] = l
  BY <1>0, <1>a, GotoFrame
<1>1. ASSUME NEW l \in PcSet \ {"eg_kill", "term_kill"}, Goto(c, t, l), pc[<<c, t>>] \notin SigLoop,
             UNCHANGED <<main, epoch, pending, threads>>
      PROVE  AnnounceInv'
  BY <1>1, <1>a, QuietAnnounce
<1>2. CASE \/ ForkCount(c, t) \/ ForkAdd(c, t) \/ ExitGroup(c, t) \/ ThreadReturns(c, t)
           \/ Crash(c, t) \/ CrashThread(c, t) \/ Killed(c, t)
  <2>1. PICK l \in {"fork_add", "fork_start", "eg_record", "unwind", "crash", "gone"} :
           /\ Goto(c, t, l) /\ UNCHANGED <<main, epoch, pending, threads>>
           /\ pc[<<c, t>>] \in {"wasm", "fork_add"}
    BY <1>2 DEF ForkCount, ForkAdd, ExitGroup, ThreadReturns, Crash, CrashThread, Killed,
       At, signalVars
  <2> QED
    BY <1>1, <2>1 DEF PcSet, Leaving, SigLoop
<1>3. CASE \/ FinLookup(c, t) \/ FinDec(c, t) \/ FinPush(c, t) \/ FinRemove(c, t)
           \/ FinCount(c, t)
  <2>1. PICK l \in {"fin_dec", "fin_push", "fin_signal", "fin_remove", "fin_count", "gone"} :
           /\ Goto(c, t, l) /\ UNCHANGED <<main, epoch, pending, threads>>
           /\ pc[<<c, t>>] \in {"finalize", "fin_dec", "fin_push", "fin_remove", "fin_count"}
    BY <1>3 DEF FinLookup, FinDec, FinPush, FinRemove, FinCount, At, signalVars
  <2> QED
    BY <1>1, <2>1 DEF PcSet, Leaving, SigLoop
<1>4. ASSUME NEW pid, NEW nohang,
             \/ WaitReaps(c, t, pid) \/ WaitFails(c, t, pid) \/ WaitBlocks(c, t, pid, nohang)
             \/ WaitLoop(c, t) \/ EchildReturns(c, t)
      PROVE  AnnounceInv'
  <2>1. PICK l \in {"wasm", "echild", "wait_any", "wait_pid"} :
           /\ Goto(c, t, l) /\ UNCHANGED <<main, epoch, pending, threads>>
           /\ pc[<<c, t>>] \in {"wasm", "echild", "wait_any", "wait_pid"}
    <3>1. CASE WaitReaps(c, t, pid)
      BY <3>1 DEF WaitReaps, Reap, Return, At, signalVars
    <3>2. CASE WaitFails(c, t, pid)
      BY <3>2 DEF WaitFails, At, signalVars
    <3>3. CASE WaitBlocks(c, t, pid, nohang)
      BY <3>3 DEF WaitBlocks, At, signalVars
    <3>4. CASE WaitLoop(c, t)
      BY <3>4 DEF WaitLoop, Reap, Return, At, signalVars
    <3>5. CASE EchildReturns(c, t)
      BY <3>5 DEF EchildReturns, Return, At, signalVars
    <3> QED
      BY <1>4, <3>1, <3>2, <3>3, <3>4, <3>5
  <2> QED
    BY <1>1, <2>1 DEF PcSet, Leaving, SigLoop
<1>5. ASSUME NEW d \in Cages, Kill(c, t, d) PROVE AnnounceInv'
  <2>1. /\ Send(d, "TERM") /\ UNCHANGED <<main, threads, pc, status>> /\ "TERM" \in Signals
        /\ pc[<<c, t>>] = "wasm" /\ pc[<<d, THREAD_START_ID>>] # "none"
    BY <1>5 DEF Kill, Signals, At
  <2>2. Begun(d)
    BY <2>1, LifeAssumption DEF Begun, THREAD_START_ID
  <2> QED
    BY <2>1, <2>2, SendAnnounce DEF SigLoop
<1>6. CASE FinSignal(c, t)
  <2>1. /\ Send(parent[c], "CHLD") /\ UNCHANGED <<main, threads, status>> /\ "CHLD" \in Signals
        /\ Goto(c, t, "fin_remove") /\ pc[<<c, t>>] = "fin_signal"
    BY <1>6 DEF FinSignal, Signals, At
  <2>2. PICK q \in Cages : q = parent[c]
    BY <1>0 DEF TypeOK
  <2>3. Begun(c)
    BY <2>1 DEF Begun
  <2>4. Begun(q)
    BY <2>2, <2>3, BegunId DEF BaseInv, TreeInv
  <2>5. pc'[<<c, t>>] = "fin_remove"
    BY <1>a, <2>1 DEF PcSet, Leaving
  <2> QED
    BY <2>1, <2>2, <2>4, <2>5, SendAnnounce DEF SigLoop
<1>7. CASE ForkStart(c, t)
  <2>1. PICK ch \in 2..nextId : ChildStarts(c, t, ch)
    BY <1>7, ForkStartEffect
  <2>2. /\ pc[<<c, t>>] = "fork_start" /\ pc'[<<c, t>>] = "wasm" /\ ~Begun(ch) /\ ch \in Cages
        /\ threads' = [threads EXCEPT ![ch] = {THREAD_START_ID}]
        /\ UNCHANGED <<main, epoch, pending>>
    BY <2>1 DEF ChildStarts, signalVars
  <2>3. pending[ch] = <<>>
    BY <2>2 DEF AnnounceInv, Calm
  <2>4. \A d \in Cages : main[d] \in threads'[d] => main[d] \in threads[d] \/ pending[d] = <<>>
    BY <1>0, <2>2, <2>3
  <2> QED
    BY <2>2, <2>4, QuietAnnounce DEF SigLoop
<1>8. ASSUME NEW u \in Threads, Spawn(c, t, u) PROVE AnnounceInv'
  <2>1. Created(c, t, u)
    BY <1>8, SpawnEffect
  <2>2. /\ pc[<<c, t>>] = "wasm" /\ pc'[<<c, t>>] = "wasm"
        /\ UNCHANGED <<main, epoch, pending, threads>>
    BY <2>1 DEF Created, signalVars
  <2> QED
    BY <2>2, QuietAnnounce DEF SigLoop
<1>9. CASE Register(c, t)
  <2>1. /\ pc[<<c, t>>] = "starting" /\ pc'[<<c, t>>] = "wasm" /\ threads[c] # {}
        /\ threads' = [threads EXCEPT ![c] = @ \cup {t}]
        /\ UNCHANGED <<main, epoch, pending>>
    BY <1>9, RegisterEffect DEF signalVars
  <2>2. main[c] \in threads[c]
    BY <2>1 DEF SignalInv
  <2>3. \A d \in Cages : main[d] \in threads'[d] => main[d] \in threads[d] \/ pending[d] = <<>>
    BY <1>0, <2>1, <2>2
  <2> QED
    BY <2>1, <2>3, QuietAnnounce DEF SigLoop
<1>10. CASE ExitGroupRecord(c, t)
  <2>1. /\ pc[<<c, t>>] = "eg_record" /\ Record(c, "code") /\ "code" \in Statuses
        /\ UNCHANGED <<main, epoch, pending, threads>>
    BY <1>10 DEF ExitGroupRecord, At, signalVars, Statuses
  <2>2. status'[c] # NoStatus
    BY <2>1, RecordDone DEF Plain
  <2> QED
    BY <2>1, <2>2, QuietAnnounce DEF SigLoop
<1>11. CASE Callback(c, t)
  <2>1. pc[<<c, t>>] = "wasm" /\ Goto(c, t, "sig") /\ UNCHANGED <<main, epoch, pending, threads>>
    BY <1>11 DEF Callback, At, signalVars
  <2> QED
    BY <1>1, <2>1 DEF PcSet, SigLoop
<1>12. CASE SigCheck(c, t)
  <2>1. PICK l \in {"sig_reset", "sig_run"} :
           Goto(c, t, l) /\ UNCHANGED <<main, epoch, pending, threads>>
    BY <1>12 DEF SigCheck, signalVars
  <2>2. pc'[<<c, t>>] \in {"sig_reset", "sig_run"}
    BY <1>a, <2>1 DEF PcSet, SigLoop
  <2> QED
    BY <2>1, <2>2, QuietAnnounce DEF SigLoop
<1>13. CASE SigRun(c, t)
  <2>1. pc[<<c, t>>] = "sig_run" /\ UNCHANGED <<main, epoch, pending, threads>>
        /\ "signaled" \in Statuses
    BY <1>13 DEF SigRun, At, signalVars, Statuses
  <2>2. CASE Record(c, "signaled") /\ Goto(c, t, "term_kill")
    <3>1. status'[c] # NoStatus
      BY <2>1, <2>2, RecordDone DEF Plain, SigLoop
    <3> QED
      BY <2>1, <3>1, QuietAnnounce
  <2>3. CASE Goto(c, t, "sig")
    <3>1. pc'[<<c, t>>] = "sig"
      BY <1>a, <2>3 DEF PcSet, SigLoop
    <3> QED
      BY <2>1, <3>1, QuietAnnounce DEF SigLoop
  <2> QED
    BY <1>13, <2>2, <2>3 DEF SigRun, AfterHandler
<1> QED
  BY <1>2, <1>3, <1>4, <1>5, <1>6, <1>7, <1>8, <1>9, <1>10, <1>11, <1>12, <1>13,
     ExitAnnounce, TakeAnnounce, KillAnnounce
  DEF Guest, Host, EpochCheck

\* In a cage that nothing has begun to end, no queued signal is forgotten, whoever
\* leaves, registers or inherits the main role.  A signal sent to a cage before its
\* first thread registers is: EarlyKill excludes it.
THEOREM LifeNoLostSignal ==
    ASSUME ~EarlyKill PROVE OrderlySpec => []NoLostSignal
<1>1. OrderlySpec => []Inv
  BY LifeInvariant
<1>2. Init => AnnounceInv
  <2> SUFFICES ASSUME Init PROVE AnnounceInv
    OBVIOUS
  <2>1. \A d \in Cages, u \in Threads : /\ pc[<<d, u>>] \in {"wasm", "none"}
                                        /\ epoch[<<d, u>>] = "normal"
    BY DEF Init, Thr
  <2>2. \A d \in Cages : pending[d] = <<>>
    BY DEF Init
  <2> QED
    BY <2>1, <2>2 DEF AnnounceInv, Announced, Calm
<1>3. Inv /\ AnnounceInv /\ [Next /\ EndsAlone']_vars => AnnounceInv'
  <2> SUFFICES ASSUME Inv, AnnounceInv, [Next /\ EndsAlone']_vars PROVE AnnounceInv'
    OBVIOUS
  <2>1. CASE UNCHANGED vars
    <3>1. UNCHANGED <<status, threads, main, epoch, pending, pc>>
      BY <2>1 DEF vars
    <3> QED
      BY <3>1 DEF AnnounceInv, Announced, Calm, Begun
  <2>2. ASSUME EndsAlone', NEW c \in Cages, NEW t \in Threads, Guest(c, t) \/ Host(c, t)
        PROVE  AnnounceInv'
    BY <2>2, NextAnnounce DEF Inv
  <2> QED
    BY <2>1, <2>2 DEF Next
<1>4. Inv /\ AnnounceInv => NoLostSignal
  <2> SUFFICES ASSUME Inv, AnnounceInv, NEW c \in cages
               PROVE  Announced(c)
    BY DEF NoLostSignal, Announced
  <2> QED
    BY Ids DEF Inv, BaseInv, AnnounceInv
<1> QED
  BY <1>1, <1>2, <1>3, <1>4, PTL DEF OrderlySpec
=============================================================================
