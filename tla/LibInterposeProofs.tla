------------------------- MODULE LibInterposeProofs -------------------------
(***************************************************************************)
(* Proofs about LibInterpose, for any set of grates, symbols, instances    *)
(* and stackings, any registrations, and any depth of nested calls.        *)
(***************************************************************************)
EXTENDS LibInterpose, FiniteSetTheorems, SequenceTheorems, TLAPS

\* A frame that holds a count of grate g.
Counted == {"check", "wait", "run", "leave"}
Holds(f, g) == f.g = g /\ f.step \in Counted
CountedFrames(g) ==
    {p \in Instances \X (1..MaxDepth) :
        p[2] <= Len(stack[p[1]]) /\ Holds(stack[p[1]][p[2]], g)}

\* The frames of one instance: client code first, under it the handlers it is
\* waiting for, each in the grate its caller called.
ShapeOf(q) ==
    /\ \A d \in 1..Len(q) : q[d].step # "body" => q[d].g \in Grates /\ d < MaxDepth
    /\ \A d \in 1..(Len(q) - 1) : q[d].step = "run" /\ q[d + 1].at = q[d].g
    /\ Len(q) > 0 => q[1].at = "client"
ShapeInv == \A i \in Instances : ShapeOf(stack[i])

\* What is known of instances that do not run: they were never linked, or have ended.
StartInv ==
    \A i \in Instances :
        /\ home[i] = NoCage => link[i] = Unlinked
        /\ link[i] = Unlinked => stack[i] = <<>>

\* A cage that has gone is dead and was in nobody's use.
RemovedInv == \A g \in Grates : removed[g] => is_dead[g] /\ inflight[g] = 0

CountInv == \A g \in Grates : inflight[g] = Cardinality(CountedFrames(g))

Inv == TypeOK /\ ShapeInv /\ StartInv /\ RemovedInv /\ CountInv

-----------------------------------------------------------------------------
(***************************************************************************)
(* Frames and stacks.                                                      *)
(***************************************************************************)
\* A frame above another one is a handler's, in the grate the lower one called.
LEMMA HandlerInGrate ==
    ASSUME NEW q \in Seq(Frame), ShapeOf(q), NEW d \in 1..Len(q), q[d].at # "client" \/ d > 1
    PROVE  /\ d > 1 /\ q[d].at \in Grates /\ q[d].at # "client"
           /\ q[d - 1].step = "run" /\ q[d - 1].g = q[d].at
  <1>1. d > 1
    BY DEF ShapeOf
  <1>2. d - 1 \in 1..(Len(q) - 1)
    BY <1>1
  <1>3. q[d - 1].step = "run" /\ q[d].at = q[d - 1].g
    BY <1>2 DEF ShapeOf
  <1>4. q[d - 1].g \in Grates
    BY <1>2, <1>3 DEF ShapeOf
  <1> QED
    BY <1>1, <1>3, <1>4, LibAssumption

LEMMA CagesNumbered == NoCage \notin Cages /\ 1 \in Cages /\ Cages \subseteq Int
  <1>1. Cardinality(Cages) \in Nat
    BY LibAssumption, FS_CardinalityType
  <1> QED
    BY <1>1, LibAssumption DEF NoCage

LEMMA DepthBound == MaxDepth \in Nat /\ MaxDepth >= 1
  BY LibAssumption

LEMMA DepthAtLeastOne == \A n \in {0, 1} : n <= MaxDepth
  BY DepthBound

LEMMA Prefix ==
    ASSUME NEW q \in Seq(Frame), NEW n \in 0..Len(q)
    PROVE  LET p == SubSeq(q, 1, n) IN
           /\ p \in Seq(Frame) /\ Len(p) = n
           /\ \A d \in 1..n : p[d] = q[d]
  <1>1. \A d \in 1..n : q[d] \in Frame
    OBVIOUS
  <1>2. /\ SubSeq(q, 1, n) \in Seq(Frame)
        /\ Len(SubSeq(q, 1, n)) = IF 1 <= n THEN n - 1 + 1 ELSE 0
        /\ \A d \in 1..(n - 1 + 1) : SubSeq(q, 1, n)[d] = q[1 + d - 1]
    BY <1>1, SubSeqProperties
  <1> QED
    BY <1>2

LEMMA TopFacts ==
    ASSUME TypeOK, NEW i \in Instances, Depth(i) > 0
    PROVE  /\ Depth(i) \in 1..MaxDepth /\ Depth(i) = Len(stack[i])
           /\ Top(i) = stack[i][Depth(i)] /\ Top(i) \in Frame
  BY LibAssumption DEF TypeOK, Depth, Top

\* Another frame takes the place of the innermost one.
LEMMA SetTop ==
    ASSUME NEW q \in Seq(Frame), Len(q) > 0, NEW f \in Frame
    PROVE  LET r == [q EXCEPT ![Len(q)] = f] IN
           /\ r \in Seq(Frame) /\ Len(r) = Len(q) /\ r[Len(q)] = f
           /\ \A d \in 1..(Len(q) - 1) : r[d] = q[d]
  OBVIOUS

\* A frame is put on top.
LEMMA Push ==
    ASSUME NEW q \in Seq(Frame), Len(q) > 0, NEW e \in Frame, NEW f \in Frame
    PROVE  LET r == Append([q EXCEPT ![Len(q)] = e], f) IN
           /\ r \in Seq(Frame) /\ Len(r) = Len(q) + 1 /\ r[Len(q) + 1] = f
           /\ r[Len(q)] = e
           /\ \A d \in 1..(Len(q) - 1) : r[d] = q[d]
  OBVIOUS

\* The innermost frame is taken off and the one under it changes.
LEMMA Pop ==
    ASSUME NEW q \in Seq(Frame), Len(q) > 1, NEW f \in Frame
    PROVE  LET r == Append(SubSeq(q, 1, Len(q) - 2), f) IN
           /\ r \in Seq(Frame) /\ Len(r) = Len(q) - 1 /\ r[Len(q) - 1] = f
           /\ \A d \in 1..(Len(q) - 2) : r[d] = q[d]
  <1> DEFINE p == SubSeq(q, 1, Len(q) - 2)
  <1>1. /\ p \in Seq(Frame) /\ Len(p) = Len(q) - 2
        /\ \A d \in 1..(Len(q) - 2) : p[d] = q[d]
    BY SMTT(30), Prefix
  <1> HIDE DEF p
  <1>2. LET r == Append(p, f) IN
        /\ r \in Seq(Frame) /\ Len(r) = Len(q) - 1 /\ r[Len(q) - 1] = f
        /\ \A d \in 1..(Len(q) - 2) : r[d] = q[d]
    BY <1>1
  <1> QED
    BY <1>2 DEF p

\* The three ways a stack changes keep its shape.
LEMMA ShapeTop ==
    ASSUME NEW q \in Seq(Frame), Len(q) > 0, ShapeOf(q), NEW r \in Seq(Frame),
           Len(r) = Len(q), \A d \in 1..(Len(q) - 1) : r[d] = q[d],
           r[Len(q)].at = q[Len(q)].at,
           r[Len(q)].step # "body" => r[Len(q)].g \in Grates /\ Len(q) < MaxDepth
    PROVE  ShapeOf(r)
  <1>1. \A d \in 1..Len(r) : r[d].step # "body" => r[d].g \in Grates /\ d < MaxDepth
    <2> SUFFICES ASSUME NEW d \in 1..Len(r), r[d].step # "body"
                 PROVE  r[d].g \in Grates /\ d < MaxDepth
      OBVIOUS
    <2>1. CASE d \in 1..(Len(q) - 1)
      BY <2>1 DEF ShapeOf
    <2>2. CASE d \notin 1..(Len(q) - 1)
      BY <2>2 DEF ShapeOf
    <2> QED
      BY <2>1, <2>2
  <1>2. \A d \in 1..(Len(r) - 1) : r[d].step = "run" /\ r[d + 1].at = r[d].g
    <2> SUFFICES ASSUME NEW d \in 1..(Len(r) - 1)
                 PROVE  r[d].step = "run" /\ r[d + 1].at = r[d].g
      OBVIOUS
    <2>1. CASE d \in 1..(Len(q) - 2)
      BY <2>1 DEF ShapeOf
    <2>2. CASE d \notin 1..(Len(q) - 2)
      BY <2>2 DEF ShapeOf
    <2> QED
      BY <2>1, <2>2
  <1>3. Len(r) > 0 => r[1].at = "client"
    BY DEF ShapeOf
  <1> QED
    BY <1>1, <1>2, <1>3 DEF ShapeOf

LEMMA ShapePush ==
    ASSUME NEW q \in Seq(Frame), Len(q) > 0, ShapeOf(q), NEW r \in Seq(Frame),
           Len(r) = Len(q) + 1, \A d \in 1..(Len(q) - 1) : r[d] = q[d],
           r[Len(q)].at = q[Len(q)].at, r[Len(q)].step = "run", r[Len(q)].g \in Grates,
           r[Len(q) + 1].at = r[Len(q)].g, r[Len(q) + 1].step = "body", Len(q) < MaxDepth
    PROVE  ShapeOf(r)
  <1>1. \A d \in 1..Len(r) : r[d].step # "body" => r[d].g \in Grates /\ d < MaxDepth
    <2> SUFFICES ASSUME NEW d \in 1..Len(r), r[d].step # "body"
                 PROVE  r[d].g \in Grates /\ d < MaxDepth
      OBVIOUS
    <2>1. CASE d \in 1..(Len(q) - 1)
      BY <2>1 DEF ShapeOf
    <2>2. CASE d \notin 1..(Len(q) - 1)
      BY <2>2 DEF ShapeOf
    <2> QED
      BY <2>1, <2>2
  <1>2. \A d \in 1..(Len(r) - 1) : r[d].step = "run" /\ r[d + 1].at = r[d].g
    <2> SUFFICES ASSUME NEW d \in 1..(Len(r) - 1)
                 PROVE  r[d].step = "run" /\ r[d + 1].at = r[d].g
      OBVIOUS
    <2>1. CASE d \in 1..(Len(q) - 2)
      BY SMTT(30), <2>1 DEF ShapeOf
    <2>2. CASE d \notin 1..(Len(q) - 2)
      BY <2>2 DEF ShapeOf
    <2> QED
      BY <2>1, <2>2
  <1>3. Len(r) > 0 => r[1].at = "client"
    BY DEF ShapeOf
  <1> QED
    BY <1>1, <1>2, <1>3 DEF ShapeOf

LEMMA ShapePop ==
    ASSUME NEW q \in Seq(Frame), Len(q) > 1, ShapeOf(q), NEW r \in Seq(Frame),
           Len(r) = Len(q) - 1, \A d \in 1..(Len(q) - 2) : r[d] = q[d],
           r[Len(q) - 1].at = q[Len(q) - 1].at, r[Len(q) - 1].g = q[Len(q) - 1].g
    PROVE  ShapeOf(r)
  <1>1. \A d \in 1..Len(r) : r[d].step # "body" => r[d].g \in Grates /\ d < MaxDepth
    <2> SUFFICES ASSUME NEW d \in 1..Len(r), r[d].step # "body"
                 PROVE  r[d].g \in Grates /\ d < MaxDepth
      OBVIOUS
    <2>1. CASE d \in 1..(Len(q) - 2)
      BY <2>1 DEF ShapeOf
    <2>2. CASE d \notin 1..(Len(q) - 2)
      BY <2>2 DEF ShapeOf
    <2> QED
      BY <2>1, <2>2
  <1>2. \A d \in 1..(Len(r) - 1) : r[d].step = "run" /\ r[d + 1].at = r[d].g
    <2> SUFFICES ASSUME NEW d \in 1..(Len(r) - 1)
                 PROVE  r[d].step = "run" /\ r[d + 1].at = r[d].g
      OBVIOUS
    <2>1. q[d].step = "run" /\ q[d + 1].at = q[d].g
      BY DEF ShapeOf
    <2>2. r[d] = q[d] /\ r[d + 1].at = q[d + 1].at
      <3>1. CASE d = Len(q) - 2
        BY <3>1
      <3>2. CASE d + 1 \in 1..(Len(q) - 2)
        BY SMTT(30), <3>2
      <3> QED
        BY <3>1, <3>2
    <2> QED
      BY <2>1, <2>2
  <1>3. Len(r) > 0 => r[1].at = "client"
    BY DEF ShapeOf
  <1> QED
    BY <1>1, <1>2, <1>3 DEF ShapeOf
-----------------------------------------------------------------------------
(***************************************************************************)
(* What a change of one stack does to the counted frames.                  *)
(***************************************************************************)
HoldsAt(q, d, g) == d <= Len(q) /\ Holds(q[d], g)

LEMMA FramesFinite ==
    ASSUME NEW F \in SUBSET (Instances \X (1..MaxDepth))
    PROVE  /\ IsFiniteSet(F) /\ Cardinality(F) \in Nat
           /\ Cardinality(F) <= Cardinality(Instances) * MaxDepth
  <1> DEFINE D == 1..MaxDepth
  <1>1. IsFiniteSet(D) /\ Cardinality(D) = MaxDepth
    BY DepthBound, FS_Interval
  <1>2. /\ IsFiniteSet(Instances \X D)
        /\ Cardinality(Instances \X D) = Cardinality(Instances) * Cardinality(D)
    BY <1>1, LibAssumption, FS_Product
  <1> QED
    BY <1>1, <1>2, FS_Subset, FS_CardinalityType

LEMMA CountedFinite ==
    ASSUME NEW g \in Grates
    PROVE  IsFiniteSet(CountedFrames(g)) /\ Cardinality(CountedFrames(g)) \in Nat
  BY FramesFinite DEF CountedFrames

LEMMA CountKept ==
    ASSUME TypeOK, NEW i \in Instances, NEW q \in Seq(Frame), NEW g \in Grates,
           stack' = [stack EXCEPT ![i] = q],
           \A d \in 1..MaxDepth : HoldsAt(q, d, g) <=> HoldsAt(stack[i], d, g)
    PROVE  CountedFrames(g)' = CountedFrames(g)
  <1>1. \A p \in Instances \X (1..MaxDepth) :
           HoldsAt(stack'[p[1]], p[2], g) <=> HoldsAt(stack[p[1]], p[2], g)
    BY DEF TypeOK
  <1> QED
    BY <1>1 DEF CountedFrames, HoldsAt

LEMMA CountGrows ==
    ASSUME TypeOK, NEW i \in Instances, NEW q \in Seq(Frame), NEW g \in Grates,
           NEW e \in 1..MaxDepth, stack' = [stack EXCEPT ![i] = q],
           HoldsAt(q, e, g), ~HoldsAt(stack[i], e, g),
           \A d \in 1..MaxDepth : d # e => (HoldsAt(q, d, g) <=> HoldsAt(stack[i], d, g))
    PROVE  Cardinality(CountedFrames(g)') = Cardinality(CountedFrames(g)) + 1
  <1>1. \A p \in Instances \X (1..MaxDepth) : p # <<i, e>> =>
           (HoldsAt(stack'[p[1]], p[2], g) <=> HoldsAt(stack[p[1]], p[2], g))
    BY DEF TypeOK
  <1>2. HoldsAt(stack'[i], e, g)
    BY DEF TypeOK
  <1>3. CountedFrames(g)' = CountedFrames(g) \cup {<<i, e>>} /\ <<i, e>> \notin CountedFrames(g)
    BY <1>1, <1>2 DEF CountedFrames, HoldsAt
  <1> QED
    BY <1>3, CountedFinite, FS_AddElement

LEMMA CountShrinks ==
    ASSUME TypeOK, NEW i \in Instances, NEW q \in Seq(Frame), NEW g \in Grates,
           NEW e \in 1..MaxDepth, stack' = [stack EXCEPT ![i] = q],
           ~HoldsAt(q, e, g), HoldsAt(stack[i], e, g),
           \A d \in 1..MaxDepth : d # e => (HoldsAt(q, d, g) <=> HoldsAt(stack[i], d, g))
    PROVE  Cardinality(CountedFrames(g)') = Cardinality(CountedFrames(g)) - 1
  <1>1. \A p \in Instances \X (1..MaxDepth) : p # <<i, e>> =>
           (HoldsAt(stack'[p[1]], p[2], g) <=> HoldsAt(stack[p[1]], p[2], g))
    BY DEF TypeOK
  <1>2. ~HoldsAt(stack'[i], e, g)
    BY DEF TypeOK
  <1>3. CountedFrames(g)' = CountedFrames(g) \ {<<i, e>>} /\ <<i, e>> \in CountedFrames(g)
    BY <1>1, <1>2 DEF CountedFrames, HoldsAt
  <1> QED
    BY ZenonT(60), <1>3, CountedFinite, FS_RemoveElement

\* A frame that holds a count makes the count positive.
LEMMA HolderCounted ==
    ASSUME TypeOK, CountInv, NEW i \in Instances, NEW d \in 1..Len(stack[i]),
           NEW g \in Grates, Holds(stack[i][d], g)
    PROVE  inflight[g] > 0
  <1>1. <<i, d>> \in CountedFrames(g)
    BY LibAssumption DEF TypeOK, CountedFrames
  <1>2. Cardinality(CountedFrames(g)) # 0
    BY <1>1, CountedFinite, FS_EmptySet
  <1> QED
    BY <1>2, CountedFinite DEF CountInv
-----------------------------------------------------------------------------
(***************************************************************************)
(* The steps, by what they do to the stack of their instance.              *)
(***************************************************************************)
\* What holds of the new stack of instance i after a step of any kind.
Restacked(i, q) ==
    /\ q \in Seq(Frame) /\ Len(q) <= MaxDepth /\ ShapeOf(q)
    /\ stack' = [stack EXCEPT ![i] = q]

\* The innermost frame of i becomes f.
Retopped(i, f) == stack' = [stack EXCEPT ![i] = [stack[i] EXCEPT ![Depth(i)] = f]]

LEMMA RetopKeeps ==
    ASSUME TypeOK, ShapeInv, NEW i \in Instances, Depth(i) > 0, NEW f \in Frame,
           f.at = Top(i).at, f.step # "body" => f.g \in Grates /\ Depth(i) < MaxDepth, Retopped(i, f)
    PROVE  \E q : /\ Restacked(i, q) /\ Len(q) = Depth(i) /\ q[Depth(i)] = f
                  /\ \A d \in 1..(Depth(i) - 1) : q[d] = stack[i][d]
  <1> DEFINE q == [stack[i] EXCEPT ![Depth(i)] = f]
  <1>0. stack[i] \in Seq(Frame) /\ Len(stack[i]) > 0 /\ Len(stack[i]) <= MaxDepth /\ ShapeOf(stack[i])
    BY DEF TypeOK, ShapeInv, Depth
  <1>1. /\ q \in Seq(Frame) /\ Len(q) = Len(stack[i]) /\ q[Len(stack[i])] = f
        /\ \A d \in 1..(Len(stack[i]) - 1) : q[d] = stack[i][d]
    BY <1>0, SetTop DEF Depth
  <1> HIDE DEF q
  <1>2. ShapeOf(q)
    BY <1>0, <1>1, ShapeTop DEF Top, Depth
  <1>3. stack' = [stack EXCEPT ![i] = q]
    BY DEF q, Retopped
  <1> QED
    BY <1>0, <1>1, <1>2, <1>3 DEF Restacked, Depth

\* When the old and the new frame hold the same counts, so do all frames.
LEMMA RetopSameCount ==
    ASSUME TypeOK, ShapeInv, NEW i \in Instances, Depth(i) > 0, NEW f \in Frame,
           f.at = Top(i).at, f.step # "body" => f.g \in Grates /\ Depth(i) < MaxDepth, Retopped(i, f),
           NEW g \in Grates, Holds(f, g) <=> Holds(Top(i), g)
    PROVE  CountedFrames(g)' = CountedFrames(g)
  <1>1. PICK q : /\ Restacked(i, q) /\ Len(q) = Depth(i) /\ q[Depth(i)] = f
                 /\ \A d \in 1..(Depth(i) - 1) : q[d] = stack[i][d]
    BY RetopKeeps
  <1>2. \A d \in 1..MaxDepth : HoldsAt(q, d, g) <=> HoldsAt(stack[i], d, g)
    BY <1>1, TopFacts DEF HoldsAt, Depth, Top
  <1> QED
    BY <1>1, <1>2, CountKept DEF Restacked

LEMMA RetopCounts ==
    ASSUME TypeOK, ShapeInv, NEW i \in Instances, Depth(i) > 0, NEW f \in Frame,
           f.at = Top(i).at, f.step # "body" => f.g \in Grates /\ Depth(i) < MaxDepth, Retopped(i, f),
           NEW g \in Grates, Holds(f, g), ~Holds(Top(i), g)
    PROVE  Cardinality(CountedFrames(g)') = Cardinality(CountedFrames(g)) + 1
  <1>1. PICK q : /\ Restacked(i, q) /\ Len(q) = Depth(i) /\ q[Depth(i)] = f
                 /\ \A d \in 1..(Depth(i) - 1) : q[d] = stack[i][d]
    BY RetopKeeps
  <1>2. \A d \in 1..MaxDepth : d # Depth(i) => (HoldsAt(q, d, g) <=> HoldsAt(stack[i], d, g))
    BY <1>1, TopFacts DEF HoldsAt, Depth, Top
  <1>3. HoldsAt(q, Depth(i), g) /\ ~HoldsAt(stack[i], Depth(i), g) /\ Depth(i) \in 1..MaxDepth
    BY <1>1, TopFacts DEF HoldsAt, Depth, Top
  <1> QED
    BY <1>1, <1>2, <1>3, CountGrows DEF Restacked

LEMMA RetopUncounts ==
    ASSUME TypeOK, ShapeInv, NEW i \in Instances, Depth(i) > 0, NEW f \in Frame,
           f.at = Top(i).at, f.step # "body" => f.g \in Grates /\ Depth(i) < MaxDepth, Retopped(i, f),
           NEW g \in Grates, ~Holds(f, g), Holds(Top(i), g)
    PROVE  Cardinality(CountedFrames(g)') = Cardinality(CountedFrames(g)) - 1
  <1>1. PICK q : /\ Restacked(i, q) /\ Len(q) = Depth(i) /\ q[Depth(i)] = f
                 /\ \A d \in 1..(Depth(i) - 1) : q[d] = stack[i][d]
    BY RetopKeeps
  <1>2. \A d \in 1..MaxDepth : d # Depth(i) => (HoldsAt(q, d, g) <=> HoldsAt(stack[i], d, g))
    BY <1>1, TopFacts DEF HoldsAt, Depth, Top
  <1>3. ~HoldsAt(q, Depth(i), g) /\ HoldsAt(stack[i], Depth(i), g) /\ Depth(i) \in 1..MaxDepth
    BY <1>1, TopFacts DEF HoldsAt, Depth, Top
  <1> QED
    BY <1>1, <1>2, <1>3, CountShrinks DEF Restacked

StackType ==
    /\ stack \in [Instances -> Seq(Frame)]
    /\ \A i \in Instances : Len(stack[i]) <= MaxDepth
StackInv == StackType /\ ShapeInv /\ CountInv

LEMMA RestackedKeeps ==
    ASSUME TypeOK, ShapeInv, NEW i \in Instances, NEW q, Restacked(i, q)
    PROVE  StackType' /\ ShapeInv'
  BY DEF TypeOK, ShapeInv, StackType, Restacked

\* The innermost frame changes and the counts do not.
LEMMA RetopQuiet ==
    ASSUME TypeOK, ShapeInv, CountInv, NEW i \in Instances, Depth(i) > 0, NEW f \in Frame,
           f.at = Top(i).at, f.step # "body" => f.g \in Grates /\ Depth(i) < MaxDepth, Retopped(i, f),
           inflight' = inflight, \A g \in Grates : Holds(f, g) <=> Holds(Top(i), g)
    PROVE  StackInv'
  <1>1. StackType' /\ ShapeInv'
    BY RetopKeeps, RestackedKeeps
  <1>2. CountInv'
    BY RetopSameCount DEF CountInv
  <1> QED
    BY <1>1, <1>2 DEF StackInv

LEMMA WriteErrnoStack ==
    ASSUME Inv, NEW i \in Instances, NEW v \in Errnos, WriteErrno(i, v)
    PROVE  StackInv'
  <1> USE DEF Inv
  <1> DEFINE f == [Top(i) EXCEPT !.view = v]
  <1>0. Depth(i) > 0 /\ Top(i).step = "body" /\ Top(i) \in Frame
    BY TopFacts DEF WriteErrno, AtStep
  <1>1. f \in Frame /\ f.at = Top(i).at /\ f.step = "body"
    BY <1>0 DEF Frame
  <1>2. Retopped(i, f)
    BY DEF WriteErrno, Retopped, Top, Depth
  <1>3. \A g \in Grates : Holds(f, g) <=> Holds(Top(i), g)
    BY <1>0, <1>1 DEF Holds, Counted
  <1>4. inflight' = inflight
    BY DEF WriteErrno, grateVars
  <1> HIDE DEF f
  <1> QED
    BY <1>0, <1>1, <1>2, <1>3, <1>4, RetopQuiet

LEMMA LibCallStack ==
    ASSUME Inv, NEW i \in Instances, NEW h \in Grates, LibCall(i, h) \/ SysCall(i, h)
    PROVE  StackInv'
  <1> USE DEF Inv
  <1>0. Depth(i) > 0 /\ Top(i).step = "body" /\ Top(i) \in Frame
    BY TopFacts DEF LibCall, SysCall, AtStep
  <1>2. PICK k \in {"lib", "sys"} :
           Retopped(i, [Top(i) EXCEPT !.step = "enter", !.kind = k, !.g = h])
    <2>1. CASE LibCall(i, h)
      BY <2>1 DEF LibCall, Retopped, Top, Depth
    <2>2. CASE SysCall(i, h)
      BY <2>2 DEF SysCall, Retopped, Top, Depth
    <2> QED
      BY <2>1, <2>2
  <1> DEFINE f == [Top(i) EXCEPT !.step = "enter", !.kind = k, !.g = h]
  <1>1. f \in Frame /\ f.at = Top(i).at /\ f.step = "enter" /\ f.g = h
    BY <1>0 DEF Frame, Steps
  <1>3. \A g \in Grates : Holds(f, g) <=> Holds(Top(i), g)
    BY <1>0, <1>1 DEF Holds, Counted
  <1>4. inflight' = inflight /\ Depth(i) < MaxDepth
    BY DEF LibCall, SysCall, grateVars
  <1> HIDE DEF f
  <1> QED
    BY <1>0, <1>1, <1>2, <1>3, <1>4, RetopQuiet DEF f

\* The innermost frame of i, at step l, as it is after ToStep.
LEMMA ToStepRetops ==
    ASSUME Inv, NEW i \in Instances, Depth(i) > 0, NEW l \in Steps, ToStep(i, l)
    PROVE  LET f == [Top(i) EXCEPT !.step = l] IN
           /\ Retopped(i, f) /\ f \in Frame /\ f.at = Top(i).at /\ f.g = Top(i).g /\ f.step = l
           /\ Top(i) \in Frame /\ (Top(i).step # "body" => Top(i).g \in Grates /\ Depth(i) < MaxDepth)
  <1> USE DEF Inv
  <1>1. Top(i) \in Frame
    BY TopFacts
  <1>2. Retopped(i, [Top(i) EXCEPT !.step = l])
    BY DEF ToStep, Retopped, Top, Depth
  <1>3. Top(i).step # "body" => Top(i).g \in Grates /\ Depth(i) < MaxDepth
    BY TopFacts DEF ShapeInv, ShapeOf, Top, Depth
  <1> QED
    BY <1>1, <1>2, <1>3 DEF Frame

\* The innermost frame of i as it is after the call was rejected.
LEMMA RejectedRetops ==
    ASSUME Inv, NEW i \in Instances, Depth(i) > 0, Top(i).step # "body", Rejected(i)
    PROVE  LET f == [Top(i) EXCEPT !.step = "after", !.view = Unrelayed(i, Top(i))] IN
           /\ Retopped(i, f) /\ f \in Frame /\ f.at = Top(i).at /\ f.g = Top(i).g
           /\ f.step = "after" /\ f.kind = Top(i).kind /\ f.view = Unrelayed(i, Top(i))
           /\ Top(i) \in Frame /\ Top(i).g \in Grates /\ Depth(i) < MaxDepth
  <1> USE DEF Inv
  <1>1. Top(i) \in Frame
    BY TopFacts
  <1>2. Retopped(i, [Top(i) EXCEPT !.step = "after", !.view = Unrelayed(i, Top(i))])
    BY DEF Rejected, Retopped, Top, Depth
  <1>3. Top(i).g \in Grates /\ Depth(i) < MaxDepth
    BY TopFacts DEF ShapeInv, ShapeOf, Top, Depth
  <1>4. Unrelayed(i, Top(i)) \in Errnos \cup {None}
    BY <1>1 DEF Unrelayed, Frame
  <1> QED
    BY <1>1, <1>2, <1>3, <1>4 DEF Frame, Steps

LEMMA EnterStack ==
    ASSUME Inv, NEW i \in Instances, Enter(i)
    PROVE  StackInv'
  <1> USE DEF Inv
  <1>0. Depth(i) > 0 /\ Top(i).step = "enter"
    BY DEF Enter, AtStep
  <1>1. CASE removed[Top(i).g]
    <2> DEFINE f == [Top(i) EXCEPT !.step = "after", !.view = Unrelayed(i, Top(i))]
    <2>1. /\ Retopped(i, f) /\ f \in Frame /\ f.at = Top(i).at /\ f.g = Top(i).g /\ f.step = "after"
          /\ Top(i) \in Frame /\ Top(i).g \in Grates /\ Depth(i) < MaxDepth
      BY <1>0, <1>1, RejectedRetops DEF Enter
    <2> HIDE DEF f
    <2>2. \A g \in Grates : Holds(f, g) <=> Holds(Top(i), g)
      BY <1>0, <2>1 DEF Holds, Counted
    <2>3. inflight' = inflight
      BY <1>1 DEF Enter
    <2> QED
      BY <1>0, <2>1, <2>2, <2>3, RetopQuiet
  <1>2. CASE ~removed[Top(i).g]
    <2> DEFINE f == [Top(i) EXCEPT !.step = "check"]
    <2>1. /\ Retopped(i, f) /\ f \in Frame /\ f.at = Top(i).at /\ f.g = Top(i).g /\ f.step = "check"
          /\ Top(i) \in Frame /\ Top(i).g \in Grates /\ Depth(i) < MaxDepth
      BY <1>0, <1>2, ToStepRetops DEF Enter, Steps
    <2> HIDE DEF f
    <2>2. StackType' /\ ShapeInv'
      BY <1>0, <2>1, RetopKeeps, RestackedKeeps
    <2>3. inflight' = [inflight EXCEPT ![Top(i).g] = @ + 1]
      BY <1>2 DEF Enter
    <2>4. ASSUME NEW g \in Grates PROVE inflight'[g] = Cardinality(CountedFrames(g)')
      <3>1. CASE g = Top(i).g
        <4>1. Holds(f, g) /\ ~Holds(Top(i), g)
          BY <1>0, <2>1, <3>1 DEF Holds, Counted
        <4>2. Cardinality(CountedFrames(g)') = Cardinality(CountedFrames(g)) + 1
          BY <1>0, <2>1, <4>1, RetopCounts
        <4> QED
          BY <2>3, <3>1, <4>2 DEF CountInv, TypeOK
      <3>2. CASE g # Top(i).g
        <4>1. Holds(f, g) <=> Holds(Top(i), g)
          BY <2>1, <3>2 DEF Holds
        <4>2. CountedFrames(g)' = CountedFrames(g)
          BY <1>0, <2>1, <4>1, RetopSameCount
        <4> QED
          BY <2>3, <3>2, <4>2 DEF CountInv, TypeOK
      <3> QED
        BY <3>1, <3>2
    <2> QED
      BY <2>2, <2>4 DEF StackInv, CountInv
  <1> QED
    BY <1>1, <1>2

\* A count is given back.
LEMMA UncountStack ==
    ASSUME Inv, NEW i \in Instances, Depth(i) > 0, Top(i).step \in {"check", "leave"},
           NEW f \in Frame, Retopped(i, f), f.at = Top(i).at, f.g = Top(i).g, f.step = "after",
           inflight' = [inflight EXCEPT ![Top(i).g] = @ - 1]
    PROVE  StackInv'
  <1> USE DEF Inv
  <1>1. Top(i) \in Frame /\ Top(i).g \in Grates /\ Depth(i) < MaxDepth
    BY TopFacts DEF ShapeInv, ShapeOf, Top, Depth
  <1>2. StackType' /\ ShapeInv'
    BY <1>1, RetopKeeps, RestackedKeeps
  <1>3. ASSUME NEW g \in Grates PROVE inflight'[g] = Cardinality(CountedFrames(g)')
    <2>1. CASE g = Top(i).g
      <3>1. ~Holds(f, g) /\ Holds(Top(i), g)
        BY <1>1, <2>1 DEF Holds, Counted
      <3>2. Cardinality(CountedFrames(g)') = Cardinality(CountedFrames(g)) - 1
        BY <1>1, <3>1, RetopUncounts
      <3> QED
        BY <2>1, <3>2 DEF CountInv, TypeOK
    <2>2. CASE g # Top(i).g
      <3>1. Holds(f, g) <=> Holds(Top(i), g)
        BY <1>1, <2>2 DEF Holds
      <3>2. CountedFrames(g)' = CountedFrames(g)
        BY <1>1, <3>1, RetopSameCount
      <3> QED
        BY <1>1, <2>2, <3>2 DEF CountInv, TypeOK
    <2> QED
      BY <2>1, <2>2
  <1> QED
    BY <1>2, <1>3 DEF StackInv, CountInv

LEMMA CheckStack ==
    ASSUME Inv, NEW i \in Instances, Check(i)
    PROVE  StackInv'
  <1> USE DEF Inv
  <1>0. Depth(i) > 0 /\ Top(i).step = "check"
    BY DEF Check, AtStep
  <1>1. CASE is_dead[Top(i).g]
    BY <1>0, <1>1, UncountStack, RejectedRetops DEF Check
  <1>2. CASE ~is_dead[Top(i).g]
    <2> DEFINE f == [Top(i) EXCEPT !.step = "wait"]
    <2>1. /\ Retopped(i, f) /\ f \in Frame /\ f.at = Top(i).at /\ f.g = Top(i).g /\ f.step = "wait"
          /\ Top(i) \in Frame /\ Top(i).g \in Grates /\ Depth(i) < MaxDepth
      BY <1>0, <1>2, ToStepRetops DEF Check, Steps
    <2> HIDE DEF f
    <2>2. \A g \in Grates : Holds(f, g) <=> Holds(Top(i), g)
      BY <1>0, <2>1 DEF Holds, Counted
    <2>3. inflight' = inflight
      BY <1>2 DEF Check
    <2> QED
      BY <1>0, <2>1, <2>2, <2>3, RetopQuiet
  <1> QED
    BY <1>1, <1>2

LEMMA LeaveStack ==
    ASSUME Inv, NEW i \in Instances, Leave(i)
    PROVE  StackInv'
  BY UncountStack, ToStepRetops DEF Leave, AtStep, Steps

LEMMA AfterStack ==
    ASSUME Inv, NEW i \in Instances, After(i)
    PROVE  StackInv'
  <1> USE DEF Inv
  <1> DEFINE relay == Top(i).kind = "lib" /\ last[i] # None /\ Exposes(i)
             reads == IF relay THEN last[i] ELSE Errno(i)
             f == NewFrame(Top(i).at, IF Top(i).view = None THEN reads ELSE Top(i).view)
  <1>0. Depth(i) > 0 /\ Top(i).step = "after" /\ Top(i) \in Frame
    BY TopFacts DEF After, AtStep
  <1>a. reads \in Errnos
    BY <1>0 DEF Errno, TypeOK, Frame
  <1> HIDE DEF reads
  <1>1. f \in Frame /\ f.at = Top(i).at /\ f.step = "body"
    BY <1>0, <1>a DEF Frame, NewFrame, Steps
  <1> USE DEF reads
  <1>2. Retopped(i, f)
    BY DEF After, Retopped, Top, Depth
  <1>3. \A g \in Grates : Holds(f, g) <=> Holds(Top(i), g)
    BY <1>0, <1>1 DEF Holds, Counted
  <1>4. inflight' = inflight
    BY DEF After, grateVars
  <1> HIDE DEF f
  <1> QED
    BY <1>0, <1>1, <1>2, <1>3, <1>4, RetopQuiet

\* A handler's frame is put on the stack; its caller goes on holding the count.
LEMMA RunStack ==
    ASSUME Inv, NEW i \in Instances, Run(i)
    PROVE  StackInv' /\ Top(i).g \in Grates
  <1> USE DEF Inv
  <1> DEFINE g == Top(i).g
             to == IF seed[i] # None /\ g \in HasErrno THEN seed[i] ELSE gerrno[g]
             v == IF Top(i).kind = "lib" /\ Claims(i) /\ g \in HasErrno THEN Top(i).view ELSE to
             e == [Top(i) EXCEPT !.step = "run"]
             f == NewFrame(g, v)
             q == Append([stack[i] EXCEPT ![Depth(i)] = e], f)
  <1>0. /\ Depth(i) > 0 /\ Top(i).step = "wait" /\ Top(i) \in Frame
        /\ Depth(i) \in 1..MaxDepth /\ Depth(i) = Len(stack[i]) /\ Top(i) = stack[i][Depth(i)]
        /\ stack[i] \in Seq(Frame) /\ ShapeOf(stack[i])
    BY TopFacts DEF Run, AtStep, TypeOK, ShapeInv
  <1>1. g \in Grates /\ Depth(i) < MaxDepth
    BY <1>0 DEF ShapeOf
  <1>2. to \in Errnos
    BY <1>1, LibAssumption DEF TypeOK
  <1>3. v \in Errnos \cup {None}
    BY <1>0, <1>2 DEF Frame
  <1>4. f \in Frame /\ f.at = g /\ f.step = "body"
    BY <1>1, <1>3 DEF NewFrame, Frame, Steps
  <1>5. e \in Frame /\ e.at = Top(i).at /\ e.g = g /\ e.step = "run"
    BY <1>0 DEF Frame, Steps
  <1>6. stack' = [stack EXCEPT ![i] = q]
    BY DEF Run, Top
  <1> HIDE DEF to, v, e, f
  <1>7. /\ q \in Seq(Frame) /\ Len(q) = Len(stack[i]) + 1 /\ q[Len(stack[i]) + 1] = f
        /\ q[Len(stack[i])] = e /\ \A d \in 1..(Len(stack[i]) - 1) : q[d] = stack[i][d]
    BY <1>0, <1>4, <1>5, Push
  <1> HIDE DEF q
  <1>8. ShapeOf(q)
    BY <1>0, <1>1, <1>4, <1>5, <1>7, ShapePush
  <1>9. Restacked(i, q)
    BY <1>0, <1>1, <1>6, <1>7, <1>8, LibAssumption DEF Restacked
  <1>10. ASSUME NEW h \in Grates PROVE CountedFrames(h)' = CountedFrames(h)
    <2>1. \A d \in 1..MaxDepth : HoldsAt(q, d, h) <=> HoldsAt(stack[i], d, h)
      <3> SUFFICES ASSUME NEW d \in 1..MaxDepth
                   PROVE  HoldsAt(q, d, h) <=> HoldsAt(stack[i], d, h)
        OBVIOUS
      <3>1. CASE d < Depth(i)
        BY <1>0, <1>7, <3>1 DEF HoldsAt
      <3>2. CASE d = Depth(i)
        BY <1>0, <1>5, <1>7, <3>2 DEF HoldsAt, Holds, Counted
      <3>3. CASE d > Depth(i)
        BY <1>0, <1>4, <1>7, <3>3 DEF HoldsAt, Holds, Counted
      <3> QED
        BY <1>0, <3>1, <3>2, <3>3
    <2> QED
      BY <1>6, <1>7, <2>1, CountKept
  <1>11. CountInv'
    BY <1>10 DEF CountInv, Run, grateVars
  <1> QED
    BY <1>1, <1>9, <1>11, RestackedKeeps DEF StackInv

\* A handler's frame is taken off and its caller is to leave.
LEMMA PopStack ==
    ASSUME Inv, NEW i \in Instances, Depth(i) > 1, Top(i).step = "body", NEW q \in Seq(Frame),
           Len(q) = Depth(i) - 1, \A d \in 1..(Depth(i) - 2) : q[d] = stack[i][d],
           q[Depth(i) - 1].at = stack[i][Depth(i) - 1].at,
           q[Depth(i) - 1].g = stack[i][Depth(i) - 1].g, q[Depth(i) - 1].step = "leave",
           stack' = [stack EXCEPT ![i] = q], inflight' = inflight
    PROVE  StackInv'
  <1> USE DEF Inv
  <1>0. /\ Depth(i) \in 1..MaxDepth /\ Depth(i) = Len(stack[i]) /\ Top(i) = stack[i][Depth(i)]
        /\ stack[i] \in Seq(Frame) /\ ShapeOf(stack[i])
    <2>1. Depth(i) > 0
      BY DEF TypeOK, Depth
    <2> QED
      BY <2>1, TopFacts DEF TypeOK, ShapeInv
  <1>1. ShapeOf(q)
    BY <1>0, ShapePop
  <1>2. Restacked(i, q)
    BY <1>0, <1>1, LibAssumption DEF Restacked
  <1>3. stack[i][Depth(i) - 1].step = "run"
    <2>1. Len(stack[i]) \in Int /\ Depth(i) - 1 \in 1..(Len(stack[i]) - 1)
      BY <1>0, DepthBound
    <2>2. \A d \in 1..(Len(stack[i]) - 1) : stack[i][d].step = "run"
      BY <1>0 DEF ShapeOf
    <2> QED
      BY <2>1, <2>2
  <1>4. ASSUME NEW h \in Grates PROVE CountedFrames(h)' = CountedFrames(h)
    <2>1. \A d \in 1..MaxDepth : HoldsAt(q, d, h) <=> HoldsAt(stack[i], d, h)
      <3> SUFFICES ASSUME NEW d \in 1..MaxDepth
                   PROVE  HoldsAt(q, d, h) <=> HoldsAt(stack[i], d, h)
        OBVIOUS
      <3>1. CASE d < Depth(i) - 1
        BY <1>0, <3>1 DEF HoldsAt
      <3>2. CASE d = Depth(i) - 1
        BY <1>0, <1>3, <3>2 DEF HoldsAt, Holds, Counted
      <3>3. CASE d > Depth(i) - 1
        BY <1>0, <3>3 DEF HoldsAt, Holds, Counted
      <3> QED
        BY <1>0, <3>1, <3>2, <3>3
    <2> QED
      BY <2>1, CountKept
  <1>5. CountInv'
    BY <1>4 DEF CountInv
  <1> QED
    BY <1>2, <1>5, RestackedKeeps DEF StackInv

LEMMA ReturnStack ==
    ASSUME Inv, NEW i \in Instances, HandlerReturns(i)
    PROVE  StackInv'
  <1> USE DEF Inv
  <1> DEFINE d == Depth(i)
             c == stack[i][d - 1]
             v == IF c.kind # "lib" \/ Top(i).at \notin HasErrno THEN Unrelayed(i, c)
                  ELSE IF shared[Top(i).at] THEN None ELSE Top(i).view
             f == [c EXCEPT !.step = "leave", !.view = v]
             q == Append(SubSeq(stack[i], 1, d - 2), f)
  <1>0. /\ d \in 1..MaxDepth /\ d = Len(stack[i]) /\ Top(i) \in Frame /\ d > 1
        /\ stack[i] \in Seq(Frame) /\ Top(i).step = "body"
    BY TopFacts DEF TypeOK, HandlerReturns, AtStep
  <1>1. c \in Frame
    BY <1>0
  <1>a. v \in Errnos \cup {None}
    BY <1>0, <1>1 DEF Unrelayed, Frame
  <1>3. stack' = [stack EXCEPT ![i] = q]
    BY DEF HandlerReturns
  <1> HIDE DEF v
  <1>2. f \in Frame /\ f.at = c.at /\ f.g = c.g /\ f.step = "leave"
    BY <1>0, <1>1, <1>a DEF Frame, Steps
  <1> HIDE DEF f
  <1>4. /\ q \in Seq(Frame) /\ Len(q) = d - 1 /\ q[d - 1] = f
        /\ \A e \in 1..(d - 2) : q[e] = stack[i][e]
    BY <1>0, <1>2, Pop
  <1> HIDE DEF q
  <1>5. inflight' = inflight
    BY DEF HandlerReturns, grateVars
  <1> QED
    BY <1>0, <1>2, <1>3, <1>4, <1>5, PopStack

LEMMA TrapStack ==
    ASSUME Inv, NEW i \in Instances, HandlerTraps(i)
    PROVE  StackInv'
  <1> USE DEF Inv
  <1> DEFINE d == Depth(i)
             c == stack[i][d - 1]
             f == [c EXCEPT !.step = "leave", !.view = Unrelayed(i, c)]
             q == Append(SubSeq(stack[i], 1, d - 2), f)
  <1>0. /\ d \in 1..MaxDepth /\ d = Len(stack[i]) /\ d > 1
        /\ stack[i] \in Seq(Frame) /\ Top(i).step = "body"
    BY TopFacts DEF TypeOK, HandlerTraps, AtStep
  <1>1. c \in Frame
    BY <1>0
  <1>2. f \in Frame /\ f.at = c.at /\ f.g = c.g /\ f.step = "leave"
    BY <1>0, <1>1 DEF Unrelayed, Frame, Steps
  <1>3. stack' = [stack EXCEPT ![i] = q]
    BY DEF HandlerTraps
  <1> HIDE DEF f
  <1>4. /\ q \in Seq(Frame) /\ Len(q) = d - 1 /\ q[d - 1] = f
        /\ \A e \in 1..(d - 2) : q[e] = stack[i][e]
    BY <1>0, <1>2, Pop
  <1> HIDE DEF q
  <1>5. inflight' = inflight
    BY DEF HandlerTraps, grateVars
  <1> QED
    BY <1>0, <1>2, <1>3, <1>4, <1>5, PopStack

\* An instance begins or ends; there is no call of it in progress.
LEMMA RestartStack ==
    ASSUME Inv, NEW i \in Instances, NEW v \in Errnos, NEW q,
           stack[i] = <<>> \/ (Len(stack[i]) = 1 /\ stack[i][1].step = "body"),
           q = <<>> \/ q = <<NewFrame("client", v)>>,
           stack' = [stack EXCEPT ![i] = q], inflight' = inflight
    PROVE  StackInv'
  <1> USE DEF Inv
  <1> DEFINE f == NewFrame("client", v)
  <1>1. f \in Frame /\ f.at = "client" /\ f.step = "body"
    BY DEF NewFrame, Frame, Steps
  <1> HIDE DEF f
  <1>2. /\ q \in Seq(Frame) /\ Len(q) \in {0, 1}
        /\ Len(q) = 1 => q[1].at = "client" /\ q[1].step = "body"
    <2>1. CASE q = <<>>
      BY <2>1
    <2>2. CASE q = <<f>>
      BY <1>1, <2>2
    <2> QED
      BY <2>1, <2>2 DEF f
  <1>3. ShapeOf(q)
    BY <1>2 DEF ShapeOf
  <1>4. Restacked(i, q)
    <2>1. Len(q) <= MaxDepth
      BY <1>2, DepthAtLeastOne, Zenon
    <2> QED
      BY <1>2, <1>3, <2>1 DEF Restacked
  <1>5. ASSUME NEW h \in Grates PROVE CountedFrames(h)' = CountedFrames(h)
    <2>1. \A d \in 1..MaxDepth : ~HoldsAt(q, d, h)
      BY <1>2 DEF HoldsAt, Holds, Counted
    <2>2. \A d \in 1..MaxDepth : ~HoldsAt(stack[i], d, h)
      BY DEF HoldsAt, Holds, Counted
    <2> QED
      BY <1>2, <2>1, <2>2, CountKept
  <1>6. CountInv'
    BY <1>5 DEF CountInv
  <1> QED
    BY <1>4, <1>6, RestackedKeeps DEF StackInv

LEMMA ExecStack ==
    ASSUME Inv, NEW i \in Instances, Exec(i)
    PROVE  StackInv'
  <1>1. stack[i] = <<>> \/ (Len(stack[i]) = 1 /\ stack[i][1].step = "body")
    BY DEF Exec, Inv, StartInv
  <1>2. errno[i] \in Errnos
    BY DEF Inv, TypeOK
  <1> QED
    BY <1>1, <1>2, RestartStack DEF Exec, grateVars

LEMMA TrapCallStack ==
    ASSUME Inv, NEW i \in Instances, TrapCall(i)
    PROVE  StackInv'
  <1>1. Len(stack[i]) = 1 /\ stack[i][1].step = "body"
    BY DEF TrapCall, InClient, Top, Depth
  <1>2. errno[i] \in Errnos
    BY DEF Inv, TypeOK
  <1> QED
    BY <1>1, <1>2, RestartStack DEF TrapCall, grateVars

LEMMA StartStack ==
    ASSUME Inv, NEW i \in Instances, NEW j \in Instances, NEW c, Start(i, j, c)
    PROVE  StackInv'
  <1>1. stack[j] = <<>>
    BY DEF Start, Inv, StartInv
  <1>2. errno[i] \in Errnos
    BY DEF Inv, TypeOK
  <1> QED
    BY <1>1, <1>2, RestartStack DEF Start, grateVars

\* The actions that leave all stacks and counts alone.
LEMMA QuietStack ==
    ASSUME Inv, stack' = stack, inflight' = inflight
    PROVE  StackInv'
  BY DEF Inv, TypeOK, StackInv, StackType, ShapeInv, CountInv, CountedFrames

LEMMA StackStep ==
    ASSUME Inv, Next
    PROVE  StackInv'
  <1>1. CASE Register
    BY <1>1, QuietStack DEF Register, grateVars
  <1>2. ASSUME NEW i \in Instances, Exec(i) \/ TrapCall(i)
        PROVE  StackInv'
    BY <1>2, ExecStack, TrapCallStack
  <1>3. ASSUME NEW i \in Instances, CallStep(i)
        PROVE  StackInv'
    BY <1>3, EnterStack, CheckStack, RunStack, ReturnStack, TrapStack, LeaveStack, AfterStack
    DEF CallStep
  <1>4. ASSUME NEW i \in Instances, NEW j \in Instances, CreateThread(i, j) \/ Fork(i, j)
        PROVE  StackInv'
    BY <1>4, StartStack DEF CreateThread, Fork
  <1>5. ASSUME NEW i \in Instances, NEW v \in Errnos, WriteErrno(i, v)
        PROVE  StackInv'
    BY <1>5, WriteErrnoStack
  <1>6. ASSUME NEW i \in Instances, NEW g \in Grates, LibCall(i, g) \/ SysCall(i, g)
        PROVE  StackInv'
    BY <1>6, LibCallStack
  <1>7. ASSUME NEW g \in Grates, Die(g) \/ Remove(g)
        PROVE  StackInv'
    BY <1>7, QuietStack DEF Die, Remove
  <1> QED
    BY <1>1, <1>2, <1>3, <1>4, <1>5, <1>6, <1>7 DEF Next
-----------------------------------------------------------------------------
(***************************************************************************)
(* The other variables.                                                    *)
(***************************************************************************)
LEMMA LinkType ==
    ASSUME NEW c, NEW force \in BOOLEAN, table \subseteq Range(Wants)
    PROVE  instance_dylink(c, force) \in [Syms -> Linked]
  <1> SUFFICES ASSUME NEW s \in Syms
               PROVE  instance_dylink(c, force)[s] \in Linked
    BY DEF instance_dylink
  <1>1. ASSUME get_lib_handler(c, s) # {}
        PROVE  \E g \in Grates : g \in get_lib_handler(c, s)
    <2>1. PICK x \in table : x[1] = c /\ x[2] = s
      BY <1>1 DEF get_lib_handler
    <2>2. x \in Cages \X Syms \X Grates
      BY LibAssumption DEF Range
    <2> QED
      BY <2>1, <2>2 DEF get_lib_handler
  <1> QED
    BY <1>1 DEF instance_dylink, Linked

\* Linking leaves no symbol unlinked.
LEMMA LinkDone ==
    ASSUME NEW c, NEW force \in BOOLEAN, table \subseteq Range(Wants)
    PROVE  instance_dylink(c, force) # Unlinked
  <1>1. PICK s \in Syms : TRUE
    BY LibAssumption
  <1>2. instance_dylink(c, force)[s] # "none"
    BY LibAssumption DEF instance_dylink, get_lib_handler, Range
  <1> QED
    BY <1>2 DEF Unlinked

\* The cells of an image are table indices.
LEMMA PortalsType ==
    ASSUME NEW c
    PROVE  Portals(c) \in SUBSET Syms
  BY DEF Portals

LEMMA SlotsType ==
    ASSUME NEW P \in SUBSET Syms
    PROVE  FillGOT(P) \in [Syms -> Nat]
  <1> SUFFICES ASSUME NEW s \in Syms PROVE FillGOT(P)[s] \in Nat
    BY DEF FillGOT
  <1>1. /\ Cardinality({p \in P : Lib[p] < Lib[s]}) \in Nat
        /\ Cardinality({t \in Syms : Lib[t] <= Lib[s]}) \in Nat
        /\ Cardinality({p \in P : Place[p] <= Place[s]}) \in Nat
    <2>1. \A T \in SUBSET Syms : Cardinality(T) \in Nat
      BY LibAssumption, FS_Subset, FS_CardinalityType
    <2>2. /\ {p \in P : Lib[p] < Lib[s]} \in SUBSET Syms
          /\ {t \in Syms : Lib[t] <= Lib[s]} \in SUBSET Syms
          /\ {p \in P : Place[p] <= Place[s]} \in SUBSET Syms
      OBVIOUS
    <2> QED
      BY <2>1, <2>2, Zenon
  <1>2. Place[s] \in Nat
    BY LibAssumption, FS_CardinalityType
  <1>3. OwnSlot(P, s) \in Nat /\ PortalSlot(P, s) \in Nat
    BY <1>1, <1>2 DEF OwnSlot, PortalSlot
  <1> QED
    BY <1>3 DEF FillGOT, cache_symbol

ErrnoType ==
    /\ errno \in [Instances -> Errnos] /\ gerrno \in [Grates -> Errnos]
    /\ seed \in [Instances -> Errnos \cup {None}]
    /\ last \in [Instances -> Errnos \cup {None}]
    /\ shared \in [Grates -> BOOLEAN]

LEMMA ErrnoStep ==
    ASSUME Inv, Next
    PROVE  ErrnoType'
  <1> USE DEF Inv, linkVars, grateVars, errnoVars
  <1>0. ErrnoType /\ 0 \in Errnos
    BY LibAssumption DEF TypeOK, ErrnoType, Errnos
  <1>1. ASSUME NEW i \in Instances, Depth(i) > 0
        PROVE  Errno(i) \in Errnos /\ (Top(i).at # "client" => Top(i).at \in Grates)
    BY <1>0, <1>1, TopFacts DEF Errno, ErrnoType, Frame
  <1>2. ASSUME NEW i \in Instances, NEW v \in Errnos, Depth(i) > 0, SetErrno(i, v)
        PROVE  errno' \in [Instances -> Errnos] /\ gerrno' \in [Grates -> Errnos]
    BY <1>0, <1>1, <1>2 DEF SetErrno, ErrnoType
  <1>3. ASSUME NEW i \in Instances, NEW v \in Errnos, WriteErrno(i, v)
        PROVE  ErrnoType'
    BY <1>0, <1>2, <1>3 DEF WriteErrno, AtStep, ErrnoType
  <1>4. ASSUME NEW i \in Instances, NEW g \in Grates, LibCall(i, g) \/ SysCall(i, g)
        PROVE  ErrnoType'
    BY <1>0, <1>1, <1>4 DEF LibCall, SysCall, AtStep, ErrnoType
  <1>5. ASSUME NEW i \in Instances, TrapCall(i) PROVE ErrnoType'
    BY <1>0, <1>5 DEF TrapCall, ErrnoType
  <1>6. ASSUME NEW i \in Instances, Run(i) PROVE ErrnoType'
    <2>1. Top(i).g \in Grates /\ Busy(Top(i).g) \in BOOLEAN
      BY <1>6, RunStack DEF Busy
    <2>2. shared' \in [Grates -> BOOLEAN]
      BY Zenon, <1>0, <1>6, <2>1 DEF Run, ErrnoType
    <2>3. /\ errno' \in [Instances -> Errnos] /\ gerrno' \in [Grates -> Errnos]
          /\ seed' \in [Instances -> Errnos \cup {None}]
          /\ last' \in [Instances -> Errnos \cup {None}]
      BY <1>0, <1>6, <2>1 DEF Run, ErrnoType
    <2> QED
      BY <2>2, <2>3 DEF ErrnoType
  <1>7. ASSUME NEW i \in Instances, HandlerReturns(i) PROVE ErrnoType'
    <2>1. gerrno[Top(i).at] \in Errnos \/ Top(i).at \notin HasErrno \/ Top(i).at = "client"
      BY <1>0, LibAssumption DEF ErrnoType
    <2>2. Top(i).at # "client"
      BY <1>7, HandlerInGrate DEF HandlerReturns, AtStep, Top, Depth, TypeOK, ShapeInv
    <2> QED
      BY <1>0, <1>7, <2>1, <2>2 DEF HandlerReturns, ErrnoType
  <1>8. ASSUME NEW i \in Instances, After(i) PROVE ErrnoType'
    <2> DEFINE relay == Top(i).kind = "lib" /\ last[i] # None /\ Exposes(i)
               reads == IF relay THEN last[i] ELSE Errno(i)
    <2>1. Depth(i) > 0 /\ UNCHANGED <<seed, shared>>
      BY <1>8 DEF After, AtStep
    <2>2. reads \in Errnos
      BY <1>0, <1>1, <2>1 DEF ErrnoType
    <2>3. relay => SetErrno(i, reads)
      BY <1>8 DEF After
    <2>4. ~relay => UNCHANGED <<errno, gerrno>>
      BY <1>8 DEF After
    <2>5. last' \in [Instances -> Errnos \cup {None}]
      BY <1>0, <1>8 DEF After, ErrnoType
    <2> HIDE DEF relay, reads
    <2> QED
      BY <1>0, <1>2, <2>1, <2>2, <2>3, <2>4, <2>5 DEF ErrnoType
  <1>9. ASSUME NEW i \in Instances, NEW j \in Instances, NEW c, Start(i, j, c) PROVE ErrnoType'
    BY <1>0, <1>9 DEF Start, ErrnoType
  <1>10. ASSUME UNCHANGED errnoVars PROVE ErrnoType'
    BY <1>0, <1>10 DEF ErrnoType
  <1> QED
    BY <1>3, <1>4, <1>5, <1>6, <1>7, <1>8, <1>9, <1>10
    DEF Next, Register, Exec, CallStep, CreateThread, Fork, Die, Remove, Enter, Check,
        HandlerTraps, Leave

LEMMA TypeStep ==
    ASSUME Inv, Next
    PROVE  TypeOK'
  <1> USE DEF Inv, linkVars, grateVars, errnoVars
  <1>0. StackType' /\ CountInv'
    BY StackStep DEF StackInv
  <1>1. table' \subseteq Range(Wants) /\ made' \in 0..Len(Wants)
    <2>1. CASE Register
      <3>1. made' \in 1..Len(Wants) /\ Wants[made'] \in Range(Wants)
        BY SMTT(30), <2>1, LibAssumption DEF Register, TypeOK, Range
      <3> QED
        BY <2>1, <3>1 DEF Register, TypeOK
    <2>2. CASE ~Register
      BY ZenonT(60), <2>2 DEF Next, TypeOK, Exec, TrapCall, CallStep, CreateThread, Fork, Start, WriteErrno,
         LibCall, SysCall, Die, Remove, Enter, Check, Run, HandlerReturns, HandlerTraps, Leave, After
    <2> QED
      BY <2>1, <2>2
  <1>2. home' \in [Instances -> Cages \cup {NoCage}]
    <2>1. ASSUME NEW i \in Instances, NEW j \in Instances, NEW c \in Cages \cup {NoCage},
                 Start(i, j, c)
          PROVE  home' \in [Instances -> Cages \cup {NoCage}]
      BY <2>1 DEF Start, TypeOK
    <2>2. ASSUME home' = home PROVE home' \in [Instances -> Cages \cup {NoCage}]
      BY <2>2 DEF TypeOK
    <2>3. \A i \in Instances : home[i] \in Cages \cup {NoCage}
      BY DEF TypeOK
    <2> QED
      BY ZenonT(60), <2>1, <2>2, <2>3 DEF Next, Register, Exec, TrapCall, CallStep, CreateThread, Fork, WriteErrno,
         LibCall, SysCall, Die, Remove, Enter, Check, Run, HandlerReturns, HandlerTraps, Leave, After
  <1>3. link' \in [Instances -> [Syms -> Linked]]
    <2>1. ASSUME NEW i \in Instances, Exec(i) PROVE link' \in [Instances -> [Syms -> Linked]]
      BY <2>1, LinkType, LibAssumption DEF Exec, TypeOK
    <2>2. ASSUME NEW i \in Instances, NEW j \in Instances, NEW c, Start(i, j, c)
          PROVE  link' \in [Instances -> [Syms -> Linked]]
      BY <2>2, LinkType DEF Start, TypeOK
    <2>3. ASSUME link' = link PROVE link' \in [Instances -> [Syms -> Linked]]
      BY <2>3 DEF TypeOK
    <2> QED
      BY ZenonT(60), <2>1, <2>2, <2>3 DEF Next, Register, TrapCall, CallStep, CreateThread, Fork, WriteErrno,
         LibCall, SysCall, Die, Remove, Enter, Check, Run, HandlerReturns, HandlerTraps, Leave, After
  <1>7. grown' \in [Instances -> SUBSET Syms] /\ got' \in [Instances -> [Syms -> Nat]]
    <2>1. ASSUME NEW i \in Instances, Exec(i)
          PROVE  grown' \in [Instances -> SUBSET Syms] /\ got' \in [Instances -> [Syms -> Nat]]
      <3>1. Portals(home[i]) \in SUBSET Syms /\ FillGOT(Portals(home[i])) \in [Syms -> Nat]
        BY PortalsType, SlotsType
      <3> QED
        BY <2>1, <3>1 DEF Exec, TypeOK
    <2>2. ASSUME NEW i \in Instances, NEW j \in Instances, NEW c, Start(i, j, c)
          PROVE  grown' \in [Instances -> SUBSET Syms] /\ got' \in [Instances -> [Syms -> Nat]]
      BY <2>2 DEF Start, TypeOK
    <2>3. ASSUME grown' = grown, got' = got
          PROVE  grown' \in [Instances -> SUBSET Syms] /\ got' \in [Instances -> [Syms -> Nat]]
      BY <2>3 DEF TypeOK
    <2> QED
      BY ZenonT(60), <2>1, <2>2, <2>3 DEF Next, Register, TrapCall, CallStep, CreateThread, Fork, WriteErrno,
         LibCall, SysCall, Die, Remove, Enter, Check, Run, HandlerReturns, HandlerTraps, Leave, After
  <1>4. /\ is_dead' \in [Grates -> BOOLEAN] /\ removed' \in [Grates -> BOOLEAN]
    BY ZenonT(60) DEF Next, TypeOK, Register, Exec, TrapCall, CallStep, CreateThread, Fork, Start, WriteErrno,
         LibCall, SysCall, Die, Remove, Enter, Check, Run, HandlerReturns, HandlerTraps, Leave, After
  <1>5. inflight' \in [Grates -> 0..Cardinality(Instances) * MaxDepth]
    <2>1. inflight' = [g \in Grates |-> inflight'[g]]
      BY ZenonT(60) DEF Next, TypeOK, Register, Exec, TrapCall, CallStep, CreateThread, Fork, Start, WriteErrno,
         LibCall, SysCall, Die, Remove, Enter, Check, Run, HandlerReturns, HandlerTraps, Leave, After
    <2>2. ASSUME NEW g \in Grates
          PROVE  inflight'[g] \in 0..Cardinality(Instances) * MaxDepth
      <3>1. CountedFrames(g)' \in SUBSET (Instances \X (1..MaxDepth))
        BY DEF CountedFrames
      <3>2. inflight'[g] = Cardinality(CountedFrames(g)')
        BY <1>0 DEF CountInv
      <3>3. Cardinality(Instances) * MaxDepth \in Int
        BY DepthBound, LibAssumption, FS_CardinalityType
      <3> QED
        BY <3>1, <3>2, <3>3, FramesFinite
    <2> QED
      BY <2>1, <2>2
  <1>6. /\ errno' \in [Instances -> Errnos] /\ gerrno' \in [Grates -> Errnos]
        /\ seed' \in [Instances -> Errnos \cup {None}]
        /\ last' \in [Instances -> Errnos \cup {None}] /\ shared' \in [Grates -> BOOLEAN]
    BY ErrnoStep DEF ErrnoType
  <1> QED
    BY <1>0, <1>1, <1>2, <1>3, <1>4, <1>5, <1>6, <1>7 DEF TypeOK, StackType

LEMMA InvInit == Init => Inv
  <1> SUFFICES ASSUME Init PROVE Inv
    OBVIOUS
  <1>0. 0 \in Errnos /\ 1 \in Cages
    BY LibAssumption, CagesNumbered DEF Errnos
  <1>1. \A i \in Instances : stack[i] = <<>> /\ Len(stack[i]) = 0
    BY DEF Init
  <1>2. TypeOK
    <2>1. 0 \in 0..Len(Wants) /\ 0 \in 0..Cardinality(Instances) * MaxDepth
      <3>1. {} \in SUBSET (Instances \X (1..MaxDepth))
        OBVIOUS
      <3>2. Cardinality(Instances) * MaxDepth \in Int
        BY DepthBound, LibAssumption, FS_CardinalityType
      <3>3. Cardinality({}) = 0
        BY FS_EmptySet
      <3> QED
        BY <3>1, <3>2, <3>3, FramesFinite, LibAssumption
    <2>2. stack \in [Instances -> Seq(Frame)] /\ \A i \in Instances : Len(stack[i]) <= MaxDepth
      BY <1>1, DepthBound DEF Init
    <2>3. link \in [Instances -> [Syms -> Linked]]
      BY DEF Init, Unlinked, Linked
    <2>4. grown \in [Instances -> SUBSET Syms] /\ got \in [Instances -> [Syms -> Nat]]
      BY DEF Init
    <2> QED
      BY <1>0, <2>1, <2>2, <2>3, <2>4 DEF Init, TypeOK
  <1>3. ShapeInv
    BY <1>1 DEF ShapeInv, ShapeOf
  <1>4. StartInv
    BY DEF Init, StartInv
  <1>5. RemovedInv
    BY DEF Init, RemovedInv
  <1>6. CountInv
    <2>1. \A g \in Grates : CountedFrames(g) = {}
      BY <1>1 DEF CountedFrames
    <2> QED
      BY <2>1, FS_EmptySet DEF Init, CountInv
  <1> QED
    BY <1>2, <1>3, <1>4, <1>5, <1>6 DEF Inv

LEMMA StartStep ==
    ASSUME Inv, Next
    PROVE  StartInv'
  <1> USE DEF Inv, linkVars
  <1>1. ASSUME NEW i \in Instances, Exec(i) PROVE StartInv'
    <2>1. instance_dylink(home[i], Interposed) # Unlinked
      BY LinkDone, LibAssumption DEF TypeOK
    <2> QED
      BY <1>1, <2>1 DEF Exec, StartInv, TypeOK, Unlinked
  <1>2. ASSUME NEW i \in Instances, NEW j \in Instances, NEW c \in Cages, Start(i, j, c)
        PROVE  StartInv'
    <2>1. instance_dylink(c, FALSE) # Unlinked
      BY LinkDone DEF TypeOK
    <2> QED
      BY <1>2, <2>1, CagesNumbered DEF Start, StartInv, TypeOK, Unlinked
  <1>3. ASSUME NEW i \in Instances, NEW j \in Instances, CreateThread(i, j) PROVE StartInv'
    <2>1. home[i] \in Cages
      <3>1. stack[i] # <<>>
        BY <1>3 DEF CreateThread, Start, InClient, Depth
      <3> QED
        BY <3>1 DEF StartInv, TypeOK
    <2> QED
      BY <1>2, <1>3, <2>1 DEF CreateThread
  <1>4. ASSUME UNCHANGED linkVars, NEW i \in Instances, Depth(i) > 0,
               \A j \in Instances \ {i} : stack'[j] = stack[j]
        PROVE  StartInv'
    <2>1. stack[i] # <<>>
      BY <1>4 DEF Depth
    <2> QED
      BY <1>4, <2>1 DEF StartInv, Unlinked
  <1>5. ASSUME home' = home, link' = link, stack' = stack PROVE StartInv'
    BY <1>5 DEF StartInv, Unlinked
  <1>6. ASSUME NEW i \in Instances, TrapCall(i) PROVE StartInv'
    BY <1>4, <1>6 DEF TrapCall, InClient, TypeOK
  <1>7. ASSUME NEW i \in Instances, CallStep(i) PROVE StartInv'
    <2>1. UNCHANGED linkVars /\ Depth(i) > 0 /\ \A j \in Instances \ {i} : stack'[j] = stack[j]
      BY <1>7 DEF CallStep, Enter, Check, Run, HandlerReturns, HandlerTraps, Leave, After,
         ToStep, Rejected, AtStep, TypeOK
    <2> QED
      BY <1>4, <2>1
  <1>8. ASSUME NEW i \in Instances, NEW v \in Errnos, WriteErrno(i, v) PROVE StartInv'
    BY <1>4, <1>8 DEF WriteErrno, AtStep, TypeOK
  <1>9. ASSUME NEW i \in Instances, NEW g \in Grates, LibCall(i, g) \/ SysCall(i, g)
        PROVE  StartInv'
    BY <1>4, <1>9 DEF LibCall, SysCall, AtStep, TypeOK
  <1> QED
    BY <1>1, <1>2, <1>3, <1>5, <1>6, <1>7, <1>8, <1>9 DEF Next, Register, Fork, Die, Remove

LEMMA RemovedStep ==
    ASSUME Inv, Next
    PROVE  RemovedInv'
  <1> USE DEF Inv, grateVars
  <1>1. ASSUME NEW i \in Instances, Enter(i) PROVE RemovedInv'
    BY <1>1 DEF Enter, RemovedInv, TypeOK
  <1>2. ASSUME NEW i \in Instances, Depth(i) > 0, Top(i).step \in {"check", "leave"},
               inflight' = [inflight EXCEPT ![Top(i).g] = @ - 1], UNCHANGED <<is_dead, removed>>
        PROVE  RemovedInv'
    <2>1. Top(i).g \in Grates /\ Depth(i) \in 1..Len(stack[i]) /\ Holds(stack[i][Depth(i)], Top(i).g)
      BY <1>2, TopFacts DEF ShapeInv, ShapeOf, Holds, Counted
    <2>2. inflight[Top(i).g] > 0
      BY <2>1, HolderCounted
    <2> QED
      BY <1>2, <2>1, <2>2 DEF RemovedInv, TypeOK
  <1>3. ASSUME NEW i \in Instances, Check(i) \/ Leave(i) PROVE RemovedInv'
    <2>1. CASE inflight' = inflight
      BY <1>3, <2>1 DEF Check, Leave, RemovedInv
    <2>2. CASE inflight' # inflight
      BY <1>2, <1>3, <2>2 DEF Check, Leave, AtStep
    <2> QED
      BY <2>1, <2>2
  <1>4. ASSUME NEW g \in Grates, Die(g) \/ Remove(g) PROVE RemovedInv'
    BY <1>4 DEF Die, Remove, RemovedInv, TypeOK
  <1>5. ASSUME UNCHANGED grateVars PROVE RemovedInv'
    BY <1>5 DEF RemovedInv
  <1> QED
    BY ZenonT(60), <1>1, <1>3, <1>4, <1>5 DEF Next, Register, Exec, TrapCall, CallStep, CreateThread, Fork,
       Start, WriteErrno, LibCall, SysCall, Run, HandlerReturns, HandlerTraps, After

LEMMA InvNext == Inv /\ [Next]_vars => Inv'
  <1>1. ASSUME Inv, Next PROVE Inv'
    BY <1>1, TypeStep, StackStep, StartStep, RemovedStep DEF Inv, StackInv
  <1>2. ASSUME Inv, UNCHANGED vars PROVE Inv'
    BY <1>2 DEF Inv, vars, TypeOK, ShapeInv, StartInv, RemovedInv, CountInv, CountedFrames, Unlinked
  <1> QED
    BY <1>1, <1>2

\* The inductive invariant of calls through portals: types, the shape of the stacks,
\* what has not started, what is removed, and what is counted.
THEOREM LibInvariant == Spec => []Inv
  BY InvInit, InvNext, PTL DEF Spec

\* The types of the library table, the links, the stacks and the counts hold in
\* every state, for every number of instances, grates and registrations.
THEOREM LibTypeCorrect == Spec => []TypeOK
  BY LibInvariant, PTL DEF Inv

\* grate_inflight counts exactly the calls between Enter and Leave: no order of
\* calls, nested calls, traps, thread starts and grate exits loses or leaks one.
THEOREM LibInflightCorrect == Spec => []InflightExact
  <1>1. Inv => InflightExact
    BY DEF Inv, CountInv, CountedFrames, InflightExact, Holds, Counted
  <1> QED
    BY <1>1, LibInvariant, PTL

\* A handler never runs in a grate whose cage has been removed, however deep the
\* calls are nested: the frame below it holds a count, and cage_finalize waits for zero.
THEOREM LibHandlerSafe == Spec => []HandlerHasCage
  <1>1. Inv => HandlerHasCage
    <2> SUFFICES ASSUME Inv, NEW i \in Instances, NEW d \in 1..Len(stack[i]),
                        stack[i][d].at # "client"
                 PROVE  ~removed[stack[i][d].at]
      BY DEF HandlerHasCage
    <2> DEFINE g == stack[i][d].at
    <2>1. /\ d > 1 /\ g \in Grates /\ stack[i][d - 1].step = "run" /\ stack[i][d - 1].g = g
      BY HandlerInGrate DEF Inv, TypeOK, ShapeInv
    <2>2. d - 1 \in 1..Len(stack[i]) /\ Holds(stack[i][d - 1], g)
      BY <2>1 DEF Holds, Counted, Inv, TypeOK
    <2>3. inflight[g] > 0
      BY <2>1, <2>2, HolderCounted DEF Inv
    <2> QED
      BY <2>1, <2>3 DEF Inv, RemovedInv, TypeOK
  <1> QED
    BY <1>1, LibInvariant, PTL
-----------------------------------------------------------------------------
(***************************************************************************)
(* The relay of errno.                                                     *)
(*                                                                         *)
(* Nothing is claimed of a grate that several calls are in, nor of a       *)
(* caller whose portal finds a value of an earlier dispatch in the slot.   *)
(* Everywhere else the errno of each frame is its view, or the relay is    *)
(* about to make it so.                                                    *)
(***************************************************************************)
Relayed == {"leave", "after"}
Offered == {"enter", "check", "wait"}

\* The errno of the code of frame f, where e is its instance's and ge the grates'.
Native(f, e, ge) == IF f.at = "client" THEN e ELSE ge[f.at]

\* The code of frame f is the only one that writes its errno.
Alone(f, sh) == f.at = "client" \/ ~sh[f.at]

\* Until the handler it waits for has returned, a frame's errno is what its code should
\* read; then it is, or the relay of a library call is about to make it so.  The seed
\* that waits for the handler is the caller's errno.
FrameErrno(f, e, ge, s, l, sh) ==
    f.at \in HasErrno /\ Alone(f, sh) =>
       /\ f.step \notin Relayed => f.view = Native(f, e, ge)
       /\ f.step \in Relayed /\ f.view # None =>
             f.view = IF f.kind = "lib" /\ l # None THEN l ELSE Native(f, e, ge)
       /\ f.step \in Offered /\ f.kind = "lib" => s = f.view

StackErrno(q, e, ge, s, l, sh) == \A d \in 1..Len(q) : FrameErrno(q[d], e, ge, s, l, sh)

StacksErrno ==
    \A i \in Instances : StackErrno(stack[i], errno[i], gerrno, seed[i], last[i], shared)

\* A grate that is not shared has one frame at most, of all instances.
OneFrame ==
    \A i, j \in Instances : \A d \in 1..Len(stack[i]), e \in 1..Len(stack[j]) :
        /\ stack[i][d].at # "client" /\ ~shared[stack[i][d].at]
        /\ stack[j][e].at = stack[i][d].at
        => i = j /\ d = e

RelayInv == StacksErrno /\ OneFrame

LEMMA Apart == "client" \notin Grates /\ None \notin Errnos
  <1>1. "client" \notin Grates
    BY LibAssumption
  <1>2. None \notin Errnos
    BY DEF Errnos, None
  <1> QED
    BY <1>1, <1>2

\* What a step of instance i leaves alone of the other ones.
OthersKept(i) ==
    \A j \in Instances \ {i} :
        /\ stack'[j] = stack[j] /\ errno'[j] = errno[j] /\ seed'[j] = seed[j] /\ last'[j] = last[j]
        /\ \A d \in 1..Len(stack[j]) :
              stack[j][d].at # "client" /\ ~shared'[stack[j][d].at] =>
                 ~shared[stack[j][d].at] /\ gerrno'[stack[j][d].at] = gerrno[stack[j][d].at]

LEMMA StacksStep ==
    ASSUME StacksErrno, NEW i \in Instances, OthersKept(i),
           StackErrno(stack'[i], errno'[i], gerrno', seed'[i], last'[i], shared')
    PROVE  StacksErrno'
  <1> SUFFICES ASSUME NEW j \in Instances
               PROVE  StackErrno(stack'[j], errno'[j], gerrno', seed'[j], last'[j], shared')
    BY DEF StacksErrno
  <1>1. CASE j # i
    <2>1. StackErrno(stack[j], errno[j], gerrno, seed[j], last[j], shared)
      BY DEF StacksErrno
    <2>2. /\ stack'[j] = stack[j] /\ errno'[j] = errno[j] /\ seed'[j] = seed[j] /\ last'[j] = last[j]
          /\ \A d \in 1..Len(stack[j]) :
                stack[j][d].at # "client" /\ ~shared'[stack[j][d].at] =>
                   ~shared[stack[j][d].at] /\ gerrno'[stack[j][d].at] = gerrno[stack[j][d].at]
      BY <1>1 DEF OthersKept
    <2> HIDE DEF StacksErrno, OthersKept
    <2>3. \A d \in 1..Len(stack[j]) :
             FrameErrno(stack[j][d], errno[j], gerrno', seed[j], last[j], shared')
      BY <2>1, <2>2 DEF StackErrno, FrameErrno, Native, Alone
    <2> QED
      BY <2>1, <2>2, <2>3 DEF StackErrno
  <1> QED
    BY <1>1

\* No frame moves to another grate.
LEMMA OneFrameKept ==
    ASSUME TypeOK, OneFrame, NEW i \in Instances, NEW q, stack' = [stack EXCEPT ![i] = q],
           shared' = shared,
           \A d \in 1..Len(q) :
              q[d].at = "client" \/ (d \in 1..Len(stack[i]) /\ q[d].at = stack[i][d].at)
    PROVE  OneFrame'
  <1>1. \A j \in Instances : \A d \in 1..Len(stack'[j]) :
           stack'[j][d].at # "client" => d \in 1..Len(stack[j]) /\ stack'[j][d].at = stack[j][d].at
    BY DEF TypeOK
  <1> QED
    BY SMTT(30), <1>1 DEF OneFrame

\* The innermost frame of i is replaced, and only its errno changes.
LEMMA RetopRelay ==
    ASSUME Inv, RelayInv, NEW i \in Instances, Depth(i) > 0, NEW f \in Frame,
           f.at = Top(i).at, f.step # "body" => f.g \in Grates /\ Depth(i) < MaxDepth, Retopped(i, f),
           \A j \in Instances \ {i} : errno'[j] = errno[j] /\ seed'[j] = seed[j] /\ last'[j] = last[j],
           errno'[i] = errno[i] \/ Top(i).at = "client", shared' = shared,
           \A x \in Grates : x # Top(i).at => gerrno'[x] = gerrno[x],
           FrameErrno(f, errno'[i], gerrno', seed'[i], last'[i], shared)
    PROVE  RelayInv'
  <1> USE DEF Inv, RelayInv
  <1>1. PICK q : /\ Restacked(i, q) /\ Len(q) = Depth(i) /\ q[Depth(i)] = f
                 /\ \A d \in 1..(Depth(i) - 1) : q[d] = stack[i][d]
    BY RetopKeeps
  <1>2. /\ stack'[i] = q /\ \A j \in Instances \ {i} : stack'[j] = stack[j]
    BY <1>1 DEF Restacked, TypeOK
  <1>3. /\ Depth(i) \in 1..Len(stack[i]) /\ Depth(i) = Len(stack[i]) /\ Top(i) = stack[i][Depth(i)]
        /\ Depth(i) \in Nat /\ Len(q) \in Nat /\ stack[i] \in Seq(Frame) /\ ShapeOf(stack[i])
    BY <1>1, TopFacts DEF Depth, TypeOK, ShapeInv
  <1>4. OneFrame'
    <2>1. \A d \in 1..Len(q) : d \in 1..Len(stack[i]) /\ q[d].at = stack[i][d].at
      BY <1>1, <1>3
    <2> QED
      BY <1>1, <2>1, OneFrameKept DEF Restacked
  <1>5. \A j \in Instances : \A d \in 1..Len(stack[j]) :
           (j # i \/ d # Depth(i)) /\ stack[j][d].at # "client" /\ ~shared[stack[j][d].at] =>
              gerrno'[stack[j][d].at] = gerrno[stack[j][d].at]
    <2> SUFFICES ASSUME NEW j \in Instances, NEW d \in 1..Len(stack[j]),
                        j # i \/ d # Depth(i), stack[j][d].at # "client", ~shared[stack[j][d].at]
                 PROVE  gerrno'[stack[j][d].at] = gerrno[stack[j][d].at]
      OBVIOUS
    <2>1. stack[j][d].at \in Grates
      BY HandlerInGrate DEF TypeOK, ShapeInv
    <2>2. stack[j][d].at # Top(i).at
      BY <1>3 DEF OneFrame
    <2> QED
      BY <2>1, <2>2
  <1>6. OthersKept(i)
    BY <1>2, <1>5 DEF OthersKept
  <1>7. StackErrno(q, errno'[i], gerrno', seed'[i], last'[i], shared)
    <2>1. ASSUME NEW d \in 1..Len(q), d # Depth(i)
          PROVE  FrameErrno(q[d], errno'[i], gerrno', seed'[i], last'[i], shared)
      <3>1. d \in 1..(Depth(i) - 1) /\ q[d] = stack[i][d] /\ d \in 1..Len(stack[i])
        BY <1>1, <1>3, <2>1
      <3>2. q[d].step = "run"
        BY <1>3, <3>1 DEF ShapeOf
      <3>3. FrameErrno(stack[i][d], errno[i], gerrno, seed[i], last[i], shared)
        BY <3>1 DEF StacksErrno, StackErrno
      <3>4. Alone(q[d], shared) => Native(q[d], errno'[i], gerrno') = Native(q[d], errno[i], gerrno)
        <4>1. CASE q[d].at # "client"
          BY <1>5, <2>1, <3>1, <4>1 DEF Native, Alone
        <4>2. CASE q[d].at = "client"
          <5>1. Depth(i) > 1
            BY <1>3, <3>1
          <5>2. Top(i).at # "client"
            BY <1>3, <5>1, HandlerInGrate
          <5> QED
            BY <4>2, <5>2 DEF Native
        <4> QED
          BY <4>1, <4>2
      <3> QED
        BY <3>1, <3>2, <3>3, <3>4 DEF FrameErrno, Relayed, Offered
    <2> QED
      BY <1>1, <2>1 DEF StackErrno
  <1>8. StacksErrno'
    BY <1>2, <1>6, <1>7, StacksStep
  <1> QED
    BY <1>4, <1>8

\* The frame that instance i runs, as RelayInv has it.
LEMMA TopErrno ==
    ASSUME Inv, RelayInv, NEW i \in Instances, Depth(i) > 0
    PROVE  /\ FrameErrno(Top(i), errno[i], gerrno, seed[i], last[i], shared)
           /\ Errno(i) = Native(Top(i), errno[i], gerrno) /\ Errno(i) \in Errnos
           /\ Claims(i) <=> Top(i).at \in HasErrno /\ Alone(Top(i), shared)
           /\ Top(i) \in Frame /\ (Top(i).at # "client" => Top(i).at \in Grates)
           /\ Top(i).step # "body" => Top(i).g \in Grates /\ Depth(i) < MaxDepth
  <1> USE DEF Inv, RelayInv
  <1>1. /\ Depth(i) \in 1..Len(stack[i]) /\ Depth(i) = Len(stack[i]) /\ Top(i) = stack[i][Depth(i)]
        /\ Top(i) \in Frame /\ stack[i] \in Seq(Frame) /\ ShapeOf(stack[i])
    BY TopFacts DEF Depth, TypeOK, ShapeInv
  <1>2. StackErrno(stack[i], errno[i], gerrno, seed[i], last[i], shared)
    BY DEF StacksErrno
  <1>3. FrameErrno(Top(i), errno[i], gerrno, seed[i], last[i], shared)
    BY <1>1, <1>2 DEF StackErrno
  <1>5. Top(i).step # "body" => Top(i).g \in Grates /\ Depth(i) < MaxDepth
    BY <1>1 DEF ShapeOf
  <1>6. Top(i).at # "client" => Top(i).at \in Grates
    BY <1>1 DEF Frame
  <1>7. Errno(i) = Native(Top(i), errno[i], gerrno) /\ Errno(i) \in Errnos
    BY <1>6 DEF Errno, Native, TypeOK
  <1>8. Claims(i) <=> Top(i).at \in HasErrno /\ Alone(Top(i), shared)
    BY DEF Claims, Exposes, Alone
  <1> QED
    BY <1>1, <1>3, <1>5, <1>6, <1>7, <1>8

LEMMA WriteRelay ==
    ASSUME Inv, RelayInv, NEW i \in Instances, NEW v \in Errnos, WriteErrno(i, v)
    PROVE  RelayInv'
  <1> DEFINE f == [Top(i) EXCEPT !.view = v]
  <1>0. /\ Depth(i) > 0 /\ Top(i).step = "body" /\ SetErrno(i, v) /\ seed' = seed /\ last' = last
        /\ shared' = shared
    BY DEF WriteErrno, AtStep
  <1>1. /\ f \in Frame /\ f.at = Top(i).at /\ f.step = "body" /\ f.kind = Top(i).kind
        /\ f.g = Top(i).g /\ f.view = v
    BY <1>0, TopErrno DEF Frame
  <1>2. Retopped(i, f)
    BY DEF WriteErrno, Retopped, Top, Depth
  <1>3. /\ \A j \in Instances \ {i} : errno'[j] = errno[j]
        /\ errno'[i] = errno[i] \/ Top(i).at = "client"
        /\ \A x \in Grates : x # Top(i).at => gerrno'[x] = gerrno[x]
        /\ Native(Top(i), errno'[i], gerrno') = v
    BY <1>0, TopErrno DEF SetErrno, Inv, TypeOK, Native
  <1> HIDE DEF f
  <1>4. FrameErrno(f, errno'[i], gerrno', seed'[i], last'[i], shared)
    BY <1>0, <1>1, <1>3 DEF FrameErrno, Native, Relayed, Offered
  <1> QED
    BY <1>0, <1>1, <1>2, <1>3, <1>4, RetopRelay

\* The innermost frame changes and no errno does.
LEMMA RetopSameErrno ==
    ASSUME Inv, RelayInv, NEW i \in Instances, Depth(i) > 0, NEW f \in Frame,
           f.at = Top(i).at,
           f.step # "body" => f.g \in Grates /\ Depth(i) < MaxDepth, Retopped(i, f),
           UNCHANGED <<errno, gerrno, shared>>,
           \A j \in Instances \ {i} : seed'[j] = seed[j] /\ last'[j] = last[j],
           FrameErrno(f, errno[i], gerrno, seed'[i], last'[i], shared)
    PROVE  RelayInv'
  BY RetopRelay

LEMMA CallRelay ==
    ASSUME Inv, RelayInv, NEW i \in Instances, NEW h \in Grates, LibCall(i, h) \/ SysCall(i, h)
    PROVE  RelayInv'
  <1>0. /\ Depth(i) > 0 /\ Top(i).step = "body" /\ Depth(i) < MaxDepth
        /\ UNCHANGED <<errno, gerrno, last, shared>>
    BY DEF LibCall, SysCall, AtStep, errnoVars
  <1>1. PICK k \in {"lib", "sys"} :
           /\ Retopped(i, [Top(i) EXCEPT !.step = "enter", !.kind = k, !.g = h])
           /\ k = "lib" => LibCall(i, h)
           /\ k = "sys" => SysCall(i, h)
    <2>1. CASE LibCall(i, h)
      BY <2>1 DEF LibCall, Retopped, Top, Depth
    <2>2. CASE SysCall(i, h)
      BY <2>2 DEF SysCall, Retopped, Top, Depth
    <2> QED
      BY <2>1, <2>2
  <1> DEFINE f == [Top(i) EXCEPT !.step = "enter", !.kind = k, !.g = h]
  <1>2. /\ f \in Frame /\ f.at = Top(i).at /\ f.step = "enter" /\ f.g = h /\ f.kind = k
        /\ f.view = Top(i).view
    BY <1>0, TopErrno DEF Frame, Steps
  <1>3. Retopped(i, f)
    BY <1>1
  <1> HIDE DEF f
  <1>4. \A j \in Instances \ {i} : seed'[j] = seed[j] /\ last'[j] = last[j]
    BY <1>0 DEF LibCall, SysCall, errnoVars, Inv, TypeOK
  <1>5. f.at \in HasErrno /\ Alone(f, shared) => f.view = Native(f, errno[i], gerrno)
    BY <1>0, <1>2, TopErrno DEF FrameErrno, Native, Relayed, Alone
  <1>6. f.at \in HasErrno /\ Alone(f, shared) /\ k = "lib" => seed'[i] = f.view
    <2> SUFFICES ASSUME f.at \in HasErrno, Alone(f, shared), k = "lib" PROVE seed'[i] = f.view
      OBVIOUS
    <2>1. seed'[i] = Errno(i)
      BY <1>1, <1>2 DEF LibCall, Exposes, Inv, TypeOK
    <2> QED
      BY <1>0, <1>2, <1>5, <2>1, TopErrno DEF Native
  <1>7. FrameErrno(f, errno[i], gerrno, seed'[i], last'[i], shared)
    BY <1>2, <1>5, <1>6 DEF FrameErrno, Relayed, Offered
  <1> QED
    BY <1>0, <1>2, <1>3, <1>4, <1>7, RetopSameErrno

\* A call goes on, into the handler or out of it.
LEMMA GoesOn ==
    ASSUME Inv, RelayInv, NEW i \in Instances, Depth(i) > 0, NEW l \in {"check", "wait", "after"},
           l = "after" <=> Top(i).step = "leave", Top(i).step \in {"enter", "check", "leave"},
           ToStep(i, l), UNCHANGED errnoVars
    PROVE  RelayInv'
  <1> DEFINE f == [Top(i) EXCEPT !.step = l]
  <1>0. l \in Steps /\ Top(i).step # "body"
    BY DEF Steps
  <1>1. /\ f \in Frame /\ f.at = Top(i).at /\ f.step = l /\ f.g = Top(i).g
        /\ Retopped(i, f) /\ f.g \in Grates /\ Depth(i) < MaxDepth /\ Top(i) \in Frame
    BY <1>0, ToStepRetops
  <1>2. f.kind = Top(i).kind /\ f.view = Top(i).view
    BY <1>1 DEF Frame
  <1> HIDE DEF f
  <1>3. FrameErrno(f, errno[i], gerrno, seed'[i], last'[i], shared)
    BY <1>1, <1>2, TopErrno DEF FrameErrno, Native, Relayed, Offered, errnoVars, Alone
  <1> QED
    BY <1>1, <1>3, RetopSameErrno DEF errnoVars

\* A rejected call claims nothing if there is a value in the slot that its portal
\* takes for its own.
LEMMA RejectedRelay ==
    ASSUME Inv, RelayInv, NEW i \in Instances, Depth(i) > 0,
           Top(i).step \in {"enter", "check"}, Rejected(i), UNCHANGED errnoVars
    PROVE  RelayInv'
  <1> DEFINE f == [Top(i) EXCEPT !.step = "after", !.view = Unrelayed(i, Top(i))]
  <1>1. /\ f \in Frame /\ f.at = Top(i).at /\ f.step = "after" /\ f.g = Top(i).g
        /\ f.kind = Top(i).kind /\ f.view = Unrelayed(i, Top(i)) /\ Retopped(i, f)
        /\ f.g \in Grates /\ Depth(i) < MaxDepth
    BY RejectedRetops
  <1> HIDE DEF f
  <1>2. FrameErrno(f, errno[i], gerrno, seed'[i], last'[i], shared)
    BY <1>1, TopErrno
    DEF FrameErrno, Native, Relayed, Offered, errnoVars, Alone, Unrelayed
  <1> QED
    BY <1>1, <1>2, RetopSameErrno DEF errnoVars

LEMMA EnterRelay ==
    ASSUME Inv, RelayInv, NEW i \in Instances, Enter(i)
    PROVE  RelayInv'
  <1>1. Depth(i) > 0 /\ Top(i).step = "enter" /\ UNCHANGED errnoVars
    BY DEF Enter, AtStep
  <1>2. CASE removed[Top(i).g]
    BY <1>1, <1>2, RejectedRelay DEF Enter
  <1>3. CASE ~removed[Top(i).g]
    BY <1>1, <1>3, GoesOn DEF Enter
  <1> QED
    BY <1>2, <1>3

LEMMA CheckRelay ==
    ASSUME Inv, RelayInv, NEW i \in Instances, Check(i)
    PROVE  RelayInv'
  <1>1. Depth(i) > 0 /\ Top(i).step = "check" /\ UNCHANGED errnoVars
    BY DEF Check, AtStep
  <1>2. CASE is_dead[Top(i).g]
    BY <1>1, <1>2, RejectedRelay DEF Check
  <1>3. CASE ~is_dead[Top(i).g]
    BY <1>1, <1>3, GoesOn DEF Check
  <1> QED
    BY <1>2, <1>3

LEMMA LeaveRelay ==
    ASSUME Inv, RelayInv, NEW i \in Instances, Leave(i)
    PROVE  RelayInv'
  BY GoesOn DEF Leave, AtStep

LEMMA AfterRelay ==
    ASSUME Inv, RelayInv, NEW i \in Instances, After(i)
    PROVE  RelayInv'
  <1> DEFINE relay == Top(i).kind = "lib" /\ last[i] # None /\ Exposes(i)
             reads == IF relay THEN last[i] ELSE Errno(i)
             v == IF Top(i).view = None THEN reads ELSE Top(i).view
             f == NewFrame(Top(i).at, v)
  <1>0. Depth(i) > 0 /\ Top(i).step = "after" /\ seed' = seed /\ shared' = shared
    BY DEF After, AtStep
  <1>a. /\ FrameErrno(Top(i), errno[i], gerrno, seed[i], last[i], shared)
        /\ Errno(i) = Native(Top(i), errno[i], gerrno) /\ Errno(i) \in Errnos
        /\ Top(i) \in Frame /\ (Top(i).at # "client" => Top(i).at \in Grates)
    BY <1>0, TopErrno
  <1>b. reads \in Errnos /\ v \in Errnos
    BY <1>a DEF Inv, TypeOK, Frame
  <1>c. Top(i).at \in HasErrno /\ Alone(Top(i), shared) => v = reads
    BY <1>0, <1>a DEF FrameErrno, Relayed, Exposes
  <1>2. Retopped(i, f)
    BY DEF After, Retopped, Top, Depth
  <1>3. /\ \A j \in Instances \ {i} : last'[j] = last[j]
        /\ relay => SetErrno(i, reads)
        /\ ~relay => UNCHANGED <<errno, gerrno>>
    BY DEF After, Inv, TypeOK
  <1> HIDE DEF v
  <1>1. f \in Frame /\ f.at = Top(i).at /\ f.step = "body" /\ f.kind = "none" /\ f.view = v
    BY <1>a, <1>b DEF Frame, NewFrame, Steps
  <1> HIDE DEF f
  <1>d. ~relay => reads = Errno(i)
    OBVIOUS
  <1> HIDE DEF relay, reads
  <1>4. /\ \A j \in Instances \ {i} : errno'[j] = errno[j]
        /\ errno'[i] = errno[i] \/ Top(i).at = "client"
        /\ \A x \in Grates : x # Top(i).at => gerrno'[x] = gerrno[x]
        /\ Native(Top(i), errno'[i], gerrno') = reads
    <2>1. CASE relay
      BY <1>3, <1>a, <2>1 DEF SetErrno, Inv, TypeOK, Native
    <2>2. CASE ~relay
      BY <1>3, <1>a, <1>d, <2>2
    <2> QED
      BY <2>1, <2>2
  <1>5. FrameErrno(f, errno'[i], gerrno', seed'[i], last'[i], shared)
    BY <1>1, <1>4, <1>c DEF FrameErrno, Native, Alone, Relayed, Offered
  <1> QED
    BY <1>0, <1>1, <1>2, <1>3, <1>4, <1>5, RetopRelay

\* The worker's errno becomes what the handler should read.  If the grate was in use
\* it is shared from now on; otherwise no frame has its errno there.
LEMMA RunRelay ==
    ASSUME Inv, RelayInv, NEW i \in Instances, Run(i)
    PROVE  RelayInv'
  <1> USE DEF Inv, RelayInv
  <1> DEFINE g == Top(i).g
             to == IF seed[i] # None /\ g \in HasErrno THEN seed[i] ELSE gerrno[g]
             v == IF Top(i).kind = "lib" /\ Claims(i) /\ g \in HasErrno THEN Top(i).view ELSE to
             e == [Top(i) EXCEPT !.step = "run"]
             f == NewFrame(g, v)
             n == Depth(i)
             q == Append([stack[i] EXCEPT ![n] = e], f)
  <1>0. /\ n > 0 /\ Top(i).step = "wait" /\ n \in Nat
        /\ n = Len(stack[i]) /\ Top(i) = stack[i][n] /\ stack[i] \in Seq(Frame) /\ ShapeOf(stack[i])
    BY TopFacts DEF Run, AtStep, Depth, TypeOK, ShapeInv
  <1>1. /\ FrameErrno(Top(i), errno[i], gerrno, seed[i], last[i], shared)
        /\ Errno(i) = Native(Top(i), errno[i], gerrno) /\ Errno(i) \in Errnos
        /\ Claims(i) <=> Top(i).at \in HasErrno /\ Alone(Top(i), shared)
        /\ Top(i) \in Frame /\ g \in Grates
    BY <1>0, TopErrno
  <1>2. to \in Errnos
    BY <1>1 DEF TypeOK
  <1>5. v = to
    <2> SUFFICES ASSUME g \in HasErrno, Top(i).kind = "lib", Claims(i) PROVE Top(i).view = to
      OBVIOUS
    <2>1. seed[i] = Top(i).view /\ Top(i).view = Errno(i)
      BY <1>0, <1>1 DEF FrameErrno, Relayed, Offered
    <2>2. seed[i] # None
      BY <1>1, <2>1, Apart
    <2> QED
      BY <2>1, <2>2
  <1>6. /\ stack' = [stack EXCEPT ![i] = q] /\ errno' = errno
        /\ last' = [last EXCEPT ![i] = None] /\ seed' = [seed EXCEPT ![i] = None]
        /\ gerrno' = [gerrno EXCEPT ![g] = to] /\ shared' = [shared EXCEPT ![g] = Busy(g)]
    BY DEF Run, Top
  <1> HIDE DEF to, v
  <1>3. f \in Frame /\ f.at = g /\ f.step = "body" /\ f.kind = "none" /\ f.view = to
    BY <1>1, <1>2, <1>5 DEF NewFrame, Frame, Steps
  <1>4. /\ e \in Frame /\ e.at = Top(i).at /\ e.g = g /\ e.step = "run" /\ e.kind = Top(i).kind
        /\ e.view = Top(i).view
    BY <1>1 DEF Frame, Steps
  <1> HIDE DEF e, f
  <1>7. /\ q \in Seq(Frame) /\ Len(q) = n + 1 /\ q[n + 1] = f
        /\ q[n] = e /\ \A d \in 1..(n - 1) : q[d] = stack[i][d]
    BY <1>0, <1>3, <1>4, Push
  <1> HIDE DEF q
  <1>8. \A j \in Instances : \A d \in 1..Len(stack[j]) : stack[j][d].at = g => shared'[g]
    BY <1>1, <1>6 DEF Busy, TypeOK
  <1>9. \A j \in Instances : \A d \in 1..Len(stack[j]) :
           stack[j][d].at # "client" /\ ~shared'[stack[j][d].at] =>
              /\ stack[j][d].at # g /\ ~shared[stack[j][d].at]
              /\ gerrno'[stack[j][d].at] = gerrno[stack[j][d].at]
    <2> SUFFICES ASSUME NEW j \in Instances, NEW d \in 1..Len(stack[j]), stack[j][d].at # "client",
                        ~shared'[stack[j][d].at]
                 PROVE  /\ stack[j][d].at # g /\ ~shared[stack[j][d].at]
                        /\ gerrno'[stack[j][d].at] = gerrno[stack[j][d].at]
      OBVIOUS
    <2>1. stack[j][d].at \in Grates
      BY HandlerInGrate DEF TypeOK, ShapeInv
    <2>2. stack[j][d].at # g
      BY <1>8
    <2> QED
      BY <1>6, <2>1, <2>2 DEF TypeOK
  <1>10. OthersKept(i)
    BY <1>6, <1>9 DEF OthersKept, TypeOK
  <1>11. stack'[i] = q /\ errno'[i] = errno[i] /\ seed'[i] = None /\ last'[i] = None /\ gerrno'[g] = to
    BY <1>1, <1>6 DEF TypeOK
  <1>12. ASSUME NEW d \in 1..n
         PROVE  /\ FrameErrno(q[d], errno[i], gerrno', None, None, shared')
                /\ q[d].at = stack[i][d].at
    <2>0. d \in 1..Len(stack[i])
      BY <1>0
    <2>1. FrameErrno(stack[i][d], errno[i], gerrno, seed[i], last[i], shared)
      BY <2>0 DEF StacksErrno, StackErrno
    <2>2. /\ q[d].step = "run" /\ q[d].at = stack[i][d].at /\ q[d].view = stack[i][d].view
          /\ stack[i][d].step \in {"run", "wait"}
      <3>1. CASE d = n
        BY <1>0, <1>4, <1>7, <3>1
      <3>2. CASE d # n
        BY <1>0, <1>7, <3>2 DEF ShapeOf
      <3> QED
        BY <3>1, <3>2
    <2>3. Alone(q[d], shared') =>
             /\ Alone(stack[i][d], shared)
             /\ Native(q[d], errno[i], gerrno') = Native(stack[i][d], errno[i], gerrno)
      BY <1>9, <2>0, <2>2 DEF Native, Alone
    <2> QED
      BY <2>1, <2>2, <2>3 DEF FrameErrno, Relayed, Offered
  <1>13. FrameErrno(q[n + 1], errno[i], gerrno', None, None, shared')
    BY <1>1, <1>3, <1>7, <1>11, Apart DEF FrameErrno, Native, Relayed, Offered
  <1>14. StackErrno(q, errno[i], gerrno', None, None, shared')
    BY <1>0, <1>7, <1>12, <1>13 DEF StackErrno
  <1>15. StacksErrno'
    BY <1>10, <1>11, <1>14, StacksStep
  <1>16. OneFrame'
    <2>1. \A j \in Instances : \A d \in 1..Len(stack'[j]) :
             \/ j = i /\ d = n + 1 /\ stack'[j][d].at = g
             \/ d \in 1..Len(stack[j]) /\ stack'[j][d].at = stack[j][d].at
      <3> SUFFICES ASSUME NEW j \in Instances, NEW d \in 1..Len(stack'[j]), j # i \/ d # n + 1
                   PROVE  d \in 1..Len(stack[j]) /\ stack'[j][d].at = stack[j][d].at
        BY <1>3, <1>7, <1>11
      <3>1. CASE j # i
        BY <1>6, <3>1 DEF TypeOK
      <3>2. CASE j = i
        BY <1>0, <1>7, <1>11, <1>12, <3>2
      <3> QED
        BY <3>1, <3>2
    <2>2. ASSUME NEW j \in Instances, NEW k \in Instances, NEW d \in 1..Len(stack'[j]),
                 NEW m \in 1..Len(stack'[k]), stack'[j][d].at # "client",
                 ~shared'[stack'[j][d].at], stack'[k][m].at = stack'[j][d].at
          PROVE  j = k /\ d = m
      <3>1. CASE j = i /\ d = n + 1 /\ stack'[j][d].at = g
        BY <1>8, <2>1, <2>2, <3>1
      <3>2. CASE d \in 1..Len(stack[j]) /\ stack'[j][d].at = stack[j][d].at
        <4>1. stack[j][d].at # g /\ ~shared[stack[j][d].at]
          BY <1>9, <2>2, <3>2
        <4>2. m \in 1..Len(stack[k]) /\ stack'[k][m].at = stack[k][m].at
          BY <2>1, <2>2, <3>2, <4>1
        <4> QED
          BY <2>2, <3>2, <4>1, <4>2 DEF OneFrame
      <3> QED
        BY <2>1, <3>1, <3>2
    <2> QED
      BY <2>2 DEF OneFrame
  <1> QED
    BY <1>15, <1>16

\* A handler has returned or trapped, and its caller is to leave; errno is unchanged.
LEMMA PopRelay ==
    ASSUME Inv, RelayInv, NEW i \in Instances, Depth(i) > 1, NEW q \in Seq(Frame),
           Len(q) = Depth(i) - 1, \A d \in 1..(Depth(i) - 2) : q[d] = stack[i][d],
           q[Depth(i) - 1].at = stack[i][Depth(i) - 1].at, stack' = [stack EXCEPT ![i] = q],
           UNCHANGED <<errno, gerrno, seed, shared>>, \A j \in Instances \ {i} : last'[j] = last[j],
           FrameErrno(q[Depth(i) - 1], errno[i], gerrno, seed[i], last'[i], shared)
    PROVE  RelayInv'
  <1> USE DEF Inv, RelayInv
  <1> DEFINE n == Depth(i)
  <1>0. n \in Nat /\ n = Len(stack[i]) /\ stack[i] \in Seq(Frame) /\ ShapeOf(stack[i])
    BY DEF Depth, TypeOK, ShapeInv
  <1> HIDE DEF n
  <1>1. stack'[i] = q /\ OthersKept(i)
    BY DEF OthersKept, TypeOK
  <1>2. ASSUME NEW d \in 1..Len(q)
        PROVE  FrameErrno(q[d], errno[i], gerrno, seed[i], last'[i], shared)
    <2>1. CASE d = n - 1
      BY <2>1 DEF n
    <2>2. CASE d # n - 1
      <3>1. d \in 1..(n - 2) /\ d \in 1..(Len(stack[i]) - 1) /\ d \in 1..Len(stack[i])
        BY <1>0, <2>2 DEF n
      <3>2. q[d] = stack[i][d] /\ q[d].step = "run"
        BY <1>0, <3>1 DEF ShapeOf, n
      <3>3. FrameErrno(stack[i][d], errno[i], gerrno, seed[i], last[i], shared)
        BY <3>1 DEF StacksErrno, StackErrno
      <3> QED
        BY <3>2, <3>3 DEF FrameErrno, Relayed, Offered
    <2> QED
      BY <2>1, <2>2
  <1>3. StackErrno(q, errno[i], gerrno, seed[i], last'[i], shared)
    BY <1>2 DEF StackErrno
  <1>4. OneFrame'
    <2>1. \A d \in 1..Len(q) : d \in 1..Len(stack[i]) /\ q[d].at = stack[i][d].at
      BY <1>0 DEF n
    <2> QED
      BY <2>1, OneFrameKept
  <1>5. StacksErrno'
    BY <1>1, <1>3, StacksStep
  <1> QED
    BY <1>4, <1>5

\* The frame that called the innermost one, and that one.
LEMMA CallerErrno ==
    ASSUME Inv, RelayInv, NEW i \in Instances, AtStep(i, "body"), Depth(i) > 1
    PROVE  LET c == stack[i][Depth(i) - 1] IN
           /\ c \in Frame /\ c.step = "run" /\ Top(i).at \in Grates /\ Top(i) \in Frame
           /\ FrameErrno(c, errno[i], gerrno, seed[i], last[i], shared)
           /\ Top(i).at \in HasErrno /\ ~shared[Top(i).at] => Top(i).view = gerrno[Top(i).at]
           /\ Depth(i) \in Nat /\ Depth(i) = Len(stack[i]) /\ stack[i] \in Seq(Frame)
  <1> USE DEF Inv, RelayInv
  <1> DEFINE n == Depth(i)
             c == stack[i][n - 1]
  <1>0. /\ n \in Nat /\ n = Len(stack[i]) /\ n \in 1..Len(stack[i]) /\ n - 1 \in 1..Len(stack[i])
        /\ stack[i] \in Seq(Frame) /\ ShapeOf(stack[i]) /\ Top(i) = stack[i][n] /\ n > 0
    BY DEF Depth, TypeOK, ShapeInv, Top
  <1>1. c \in Frame /\ c.step = "run" /\ Top(i).at \in Grates /\ Top(i).at # "client" /\ Top(i) \in Frame
    BY <1>0, HandlerInGrate
  <1>2. FrameErrno(c, errno[i], gerrno, seed[i], last[i], shared)
    BY <1>0 DEF StacksErrno, StackErrno
  <1>3. Top(i).at \in HasErrno /\ ~shared[Top(i).at] => Top(i).view = gerrno[Top(i).at]
    BY <1>0, <1>1, TopErrno DEF AtStep, FrameErrno, Native, Relayed, Alone
  <1> QED
    BY <1>0, <1>1, <1>2, <1>3

LEMMA ReturnRelay ==
    ASSUME Inv, RelayInv, NEW i \in Instances, HandlerReturns(i)
    PROVE  RelayInv'
  <1> DEFINE n == Depth(i)
             g == Top(i).at
             c == stack[i][n - 1]
             v == IF c.kind # "lib" \/ g \notin HasErrno THEN Unrelayed(i, c)
                  ELSE IF shared[g] THEN None ELSE Top(i).view
             f == [c EXCEPT !.step = "leave", !.view = v]
             q == Append(SubSeq(stack[i], 1, n - 2), f)
  <1>0. AtStep(i, "body") /\ n > 1 /\ UNCHANGED <<errno, gerrno, seed, shared>>
    BY DEF HandlerReturns
  <1>1. /\ c \in Frame /\ c.step = "run" /\ g \in Grates /\ Top(i) \in Frame
        /\ FrameErrno(c, errno[i], gerrno, seed[i], last[i], shared)
        /\ g \in HasErrno /\ ~shared[g] => Top(i).view = gerrno[g]
        /\ n \in Nat /\ n = Len(stack[i]) /\ stack[i] \in Seq(Frame)
    BY <1>0, CallerErrno
  <1>a. v \in Errnos \cup {None}
    BY <1>1 DEF Unrelayed, Frame
  <1>3. stack' = [stack EXCEPT ![i] = q]
    BY DEF HandlerReturns
  <1>5. /\ last'[i] = IF g \in HasErrno THEN gerrno[g] ELSE last[i]
        /\ \A j \in Instances \ {i} : last'[j] = last[j]
    BY <1>1 DEF HandlerReturns, Inv, TypeOK
  <1>6. gerrno[g] # None
    BY <1>1, Apart DEF Inv, TypeOK
  <1>b. c.at \in HasErrno /\ Alone(c, shared) /\ v # None =>
           v = IF c.kind = "lib" /\ last'[i] # None THEN last'[i] ELSE Native(c, errno[i], gerrno)
    BY <1>1, <1>5, <1>6 DEF FrameErrno, Unrelayed, Relayed
  <1> HIDE DEF v
  <1>2. /\ f \in Frame /\ f.at = c.at /\ f.g = c.g /\ f.kind = c.kind /\ f.step = "leave"
        /\ f.view = v
    BY <1>1, <1>a DEF Frame, Steps
  <1> HIDE DEF f
  <1>4. /\ q \in Seq(Frame) /\ Len(q) = n - 1 /\ q[n - 1] = f
        /\ \A d \in 1..(n - 2) : q[d] = stack[i][d]
    BY <1>0, <1>1, <1>2, Pop
  <1> HIDE DEF q
  <1>7. FrameErrno(f, errno[i], gerrno, seed[i], last'[i], shared)
    BY <1>2, <1>b DEF FrameErrno, Relayed, Offered, Native, Alone
  <1> QED
    BY <1>0, <1>2, <1>3, <1>4, <1>5, <1>7, PopRelay

LEMMA TrapRelay ==
    ASSUME Inv, RelayInv, NEW i \in Instances, HandlerTraps(i)
    PROVE  RelayInv'
  <1> DEFINE n == Depth(i)
             c == stack[i][n - 1]
             f == [c EXCEPT !.step = "leave", !.view = Unrelayed(i, c)]
             q == Append(SubSeq(stack[i], 1, n - 2), f)
  <1>0. AtStep(i, "body") /\ n > 1 /\ UNCHANGED errnoVars
    BY DEF HandlerTraps
  <1>1. /\ c \in Frame /\ c.step = "run"
        /\ FrameErrno(c, errno[i], gerrno, seed[i], last[i], shared)
        /\ n \in Nat /\ n = Len(stack[i]) /\ stack[i] \in Seq(Frame)
    BY <1>0, CallerErrno
  <1>2. /\ f \in Frame /\ f.at = c.at /\ f.g = c.g /\ f.kind = c.kind /\ f.step = "leave"
        /\ f.view = Unrelayed(i, c)
    BY <1>1 DEF Frame, Steps, Unrelayed
  <1>3. stack' = [stack EXCEPT ![i] = q]
    BY DEF HandlerTraps
  <1> HIDE DEF f
  <1>4. /\ q \in Seq(Frame) /\ Len(q) = n - 1 /\ q[n - 1] = f
        /\ \A d \in 1..(n - 2) : q[d] = stack[i][d]
    BY <1>0, <1>1, <1>2, Pop
  <1> HIDE DEF q
  <1>5. FrameErrno(f, errno[i], gerrno, seed[i], last'[i], shared)
    BY <1>0, <1>1, <1>2 DEF FrameErrno, Relayed, Offered, Native, Alone, Unrelayed, errnoVars
  <1> QED
    BY <1>0, <1>1, <1>2, <1>3, <1>4, <1>5, PopRelay DEF errnoVars

\* An instance begins or ends.
LEMMA RestartRelay ==
    ASSUME Inv, RelayInv, NEW i \in Instances, NEW v \in Errnos, NEW q,
           q = <<>> \/ (q = <<NewFrame("client", v)>> /\ errno'[i] = v),
           stack' = [stack EXCEPT ![i] = q], gerrno' = gerrno, shared' = shared,
           \A j \in Instances \ {i} : errno'[j] = errno[j] /\ seed'[j] = seed[j] /\ last'[j] = last[j]
    PROVE  RelayInv'
  <1> USE DEF Inv, RelayInv
  <1> DEFINE f == NewFrame("client", v)
  <1>1. f.at = "client" /\ f.step = "body" /\ f.kind = "none" /\ f.view = v
    BY DEF NewFrame
  <1> HIDE DEF f
  <1>2. Len(q) = 0 \/ (Len(q) = 1 /\ q[1] = f /\ errno'[i] = v)
    <2>1. CASE q = <<>>
      BY <2>1
    <2>2. CASE q = <<f>> /\ errno'[i] = v
      BY <2>2
    <2> QED
      BY <2>1, <2>2 DEF f
  <1>3. stack'[i] = q /\ OthersKept(i)
    BY DEF OthersKept, TypeOK
  <1>6. StackErrno(q, errno'[i], gerrno', seed'[i], last'[i], shared')
    BY <1>1, <1>2 DEF StackErrno, FrameErrno, Native, Relayed, Offered
  <1>7. OneFrame'
    <2>1. \A d \in 1..Len(q) : q[d].at = "client"
      BY <1>1, <1>2
    <2> QED
      BY <2>1, OneFrameKept
  <1>8. StacksErrno'
    BY <1>3, <1>6, StacksStep
  <1> QED
    BY <1>7, <1>8

LEMMA RelayQuiet ==
    ASSUME RelayInv, UNCHANGED <<stack, errnoVars>>
    PROVE  RelayInv'
  BY DEF RelayInv, StacksErrno, OneFrame, errnoVars

LEMMA RelayStep ==
    ASSUME Inv, RelayInv, Next
    PROVE  RelayInv'
  <1>1. CASE Register
    BY <1>1, RelayQuiet DEF Register
  <1>2. ASSUME NEW i \in Instances, Exec(i) PROVE RelayInv'
    <2>1. errno[i] \in Errnos
      BY DEF Inv, TypeOK
    <2> QED
      BY <1>2, <2>1, RestartRelay DEF Exec, errnoVars
  <1>3. ASSUME NEW i \in Instances, TrapCall(i) PROVE RelayInv'
    <2>1. errno[i] \in Errnos
      BY DEF Inv, TypeOK
    <2>2. /\ stack' = [stack EXCEPT ![i] = <<>>] /\ gerrno' = gerrno /\ shared' = shared
          /\ \A j \in Instances \ {i} : errno'[j] = errno[j] /\ seed'[j] = seed[j] /\ last'[j] = last[j]
      BY <1>3 DEF TrapCall, Inv, TypeOK
    <2> QED
      BY <2>1, <2>2, RestartRelay
  <1>4. ASSUME NEW i \in Instances, CallStep(i) PROVE RelayInv'
    BY <1>4, EnterRelay, CheckRelay, RunRelay, ReturnRelay, TrapRelay, LeaveRelay, AfterRelay
    DEF CallStep
  <1>5. ASSUME NEW i \in Instances, NEW j \in Instances, NEW c, Start(i, j, c)
        PROVE  RelayInv'
    <2>1. errno[i] \in Errnos
      BY DEF Inv, TypeOK
    <2>2. /\ stack' = [stack EXCEPT ![j] = <<NewFrame("client", errno[i])>>] /\ gerrno' = gerrno
          /\ last' = last /\ seed' = seed /\ errno'[j] = errno[i] /\ shared' = shared
          /\ \A k \in Instances \ {j} : errno'[k] = errno[k]
      BY <1>5 DEF Start, Inv, TypeOK
    <2> QED
      BY <2>1, <2>2, RestartRelay
  <1>6. ASSUME NEW i \in Instances, NEW v \in Errnos, WriteErrno(i, v)
        PROVE  RelayInv'
    BY <1>6, WriteRelay
  <1>7. ASSUME NEW i \in Instances, NEW g \in Grates, LibCall(i, g) \/ SysCall(i, g)
        PROVE  RelayInv'
    BY <1>7, CallRelay
  <1>8. ASSUME NEW g \in Grates, Die(g) \/ Remove(g)
        PROVE  RelayInv'
    BY <1>8, RelayQuiet DEF Die, Remove
  <1> QED
    BY <1>1, <1>2, <1>3, <1>4, <1>5, <1>6, <1>7, <1>8 DEF Next, CreateThread, Fork

LEMMA RelayInit == Init => RelayInv
  <1> SUFFICES ASSUME Init PROVE RelayInv
    OBVIOUS
  <1>1. \A i \in Instances : stack[i] = <<>> /\ Len(stack[i]) = 0
    BY DEF Init
  <1> QED
    BY <1>1 DEF RelayInv, StacksErrno, StackErrno, OneFrame

\* An interposed program reads the errno it would read without interposition, in
\* clients and in the handlers that have their grate to themselves, at every depth,
\* whatever calls nest, overlap elsewhere, are rejected or trap.
THEOREM LibErrnoRelayed == Spec => []ErrnoAsNative
  <1>1. Inv /\ RelayInv /\ [Next]_vars => RelayInv'
    <2>1. ASSUME Inv, RelayInv, Next PROVE RelayInv'
      BY <2>1, RelayStep
    <2>2. ASSUME RelayInv, UNCHANGED vars PROVE RelayInv'
      BY <2>2, RelayQuiet DEF vars, errnoVars
    <2> QED
      BY <2>1, <2>2
  <1>2. Inv /\ RelayInv => ErrnoAsNative
    <2> SUFFICES ASSUME Inv, RelayInv, NEW i \in Instances, AtStep(i, "body"), Claims(i)
                 PROVE  Errno(i) = Top(i).view
      BY DEF ErrnoAsNative
    <2> QED
      BY TopErrno DEF AtStep, FrameErrno, Relayed
  <1> QED
    BY <1>1, <1>2, RelayInit, LibInvariant, PTL DEF Spec
=============================================================================
