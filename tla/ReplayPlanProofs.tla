-------------------------- MODULE ReplayPlanProofs --------------------------
(***************************************************************************)
(* Proofs about ReplayPlan: whatever is cached and recorded, adding the    *)
(* operations one by one yields the plan that its purpose defines.         *)
(***************************************************************************)
EXTENDS ReplayPlan, DeviceSyncProofs

\* The positions FirstOfVersion picks.
Firsts(ops) ==
  {i \in DOMAIN ops :
     \A j \in DOMAIN ops : ops[j].version = ops[i].version => i <= j}

\* A version that occurs occurs a first time.
LEMMA FirstExists ==
  ASSUME NEW ops \in Seq(Op), NEW k \in DOMAIN ops
  PROVE  \E i \in Firsts(ops) : ops[i].version = ops[k].version
<1>1. PICK l \in Nat : l = Len(ops) /\ DOMAIN ops = 1 .. l
  OBVIOUS
<1> DEFINE T == {j \in 1 .. l : ops[j].version = ops[k].version}
<1>2. T \in SUBSET Nat /\ k \in T
  BY <1>1
<1>3. PICK i \in T : \A j \in T : i <= j
  BY <1>2, LeastNumber
<1>4. i \in Firsts(ops)
  BY <1>1, <1>3 DEF Firsts
<1> QED
  BY <1>3, <1>4

LEMMA FirstsOf ==
  ASSUME NEW ops \in Seq(Op)
  PROVE  /\ FirstOfVersion(ops) = At(ops, Firsts(ops))
         /\ Firsts(ops) \in SUBSET DOMAIN ops
         /\ FirstOfVersion(ops) \in Seq(Op)
<1>1. FirstOfVersion(ops) = At(ops, Firsts(ops)) /\ Firsts(ops) \in SUBSET DOMAIN ops
  BY DEF FirstOfVersion, Firsts
<1> QED
  BY <1>1, AtElements

\* The plan holds a version exactly when one of the operations has it.
LEMMA PlannedVersions ==
  ASSUME NEW ops \in Seq(Op), NEW version
  PROVE  (\E n \in DOMAIN FirstOfVersion(ops) : FirstOfVersion(ops)[n].version = version)
           <=> \E k \in DOMAIN ops : ops[k].version = version
<1>1. PICK l \in Nat : l = Len(ops) /\ DOMAIN ops = 1 .. l
  OBVIOUS
<1>2. /\ FirstOfVersion(ops) = At(ops, Firsts(ops))
      /\ Firsts(ops) \in SUBSET (1 .. l) /\ Firsts(ops) \in SUBSET DOMAIN ops
  BY <1>1, FirstsOf
<1>3. ASSUME NEW n \in DOMAIN FirstOfVersion(ops),
             FirstOfVersion(ops)[n].version = version
      PROVE  \E k \in DOMAIN ops : ops[k].version = version
  <2>1. PICK i \in Firsts(ops) : At(ops, Firsts(ops))[n] = ops[i]
    BY <1>2, AtElements
  <2> QED
    BY <1>2, <1>3, <2>1
<1>4. ASSUME NEW k \in DOMAIN ops, ops[k].version = version
      PROVE  \E n \in DOMAIN FirstOfVersion(ops) : FirstOfVersion(ops)[n].version = version
  <2>1. PICK i \in Firsts(ops) : ops[i].version = version
    BY <1>4, FirstExists
  <2>2. PICK n \in 1 .. Cardinality(Firsts(ops)) : At(ops, Firsts(ops))[n] = ops[i]
    BY <1>2, AtRank
  <2>3. DOMAIN At(ops, Firsts(ops)) = 1 .. Cardinality(Firsts(ops))
    BY <1>2, AtElements
  <2> QED
    BY <1>2, <2>1, <2>2, <2>3
<1> QED
  BY <1>3, <1>4

\* Picking one more position, behind all others, appends its element.
LEMMA AtAppended ==
  ASSUME NEW ops \in Seq(Op), NEW op \in Op, NEW P \in SUBSET DOMAIN ops
  PROVE  /\ At(Append(ops, op), P) = At(ops, P)
         /\ At(Append(ops, op), P \cup {Len(ops) + 1}) = Append(At(ops, P), op)
<1> DEFINE more == Append(ops, op)
<1>1. PICK l \in Nat : l = Len(ops) /\ DOMAIN ops = 1 .. l
  OBVIOUS
<1>2. /\ more \in Seq(Op) /\ DOMAIN more = 1 .. l + 1
      /\ more[l + 1] = op /\ \A i \in 1 .. l : more[i] = ops[i]
  BY <1>1
<1> HIDE DEF more
<1> DEFINE Q == P \cup {l + 1}
<1>3. P \in SUBSET (1 .. l) /\ P \in SUBSET (1 .. l + 1) /\ Q \in SUBSET (1 .. l + 1)
      /\ P \in SUBSET DOMAIN more /\ Q \in SUBSET DOMAIN more
  BY <1>1, <1>2
<1>4. \A i \in P : i \in Nat /\ i < l + 1
  BY <1>3
<1>5. PICK c \in Nat : c = Cardinality(P) /\ IsFiniteSet(P)
  BY <1>1, <1>3, UpToFinite
<1>6. Cardinality(Q) = c + 1
  <2>1. l + 1 \notin P
    BY <1>1, <1>4
  <2> QED
    BY <1>5, <2>1, FS_AddElement
<1>7. /\ At(ops, P) \in Seq(Op) /\ Len(At(ops, P)) = c /\ DOMAIN At(ops, P) = 1 .. c
      /\ At(more, P) \in Seq(Op) /\ Len(At(more, P)) = c /\ DOMAIN At(more, P) = 1 .. c
      /\ At(more, Q) \in Seq(Op) /\ Len(At(more, Q)) = c + 1
      /\ DOMAIN At(more, Q) = 1 .. c + 1
  BY <1>2, <1>3, <1>5, <1>6, AtElements
<1>12. \A i \in Q : At(more, Q)[Cardinality(UpTo(Q, i))] = more[i]
  <2>1. PICK m \in Nat : m = l + 1
    BY <1>1
  <2>2. Q \in SUBSET (1 .. m)
    BY <1>3, <2>1
  <2> HIDE DEF Q
  <2> QED
    BY <2>2, AtRank
<1>8. ASSUME NEW n \in 1 .. c
      PROVE  At(more, P)[n] = At(ops, P)[n] /\ At(more, Q)[n] = At(ops, P)[n]
  <2>0. \A m \in DOMAIN At(ops, P) : \E i \in P :
          m = Cardinality(UpTo(P, i)) /\ At(ops, P)[m] = ops[i]
    BY AtElements
  <2>1. PICK i \in P : n = Cardinality(UpTo(P, i)) /\ At(ops, P)[n] = ops[i]
    BY <1>7, <2>0
  <2>2. At(more, P)[n] = more[i]
    BY <1>3, <2>1, AtRank
  <2>3. UpTo(Q, i) = UpTo(P, i)
    <3>1. i \in Nat /\ ~(l + 1 <= i)
      BY <1>4
    <3> QED
      BY <3>1 DEF UpTo
  <2>4. At(more, Q)[n] = more[i]
    BY <1>12, <2>1, <2>3
  <2> QED
    BY <1>2, <1>3, <2>1, <2>2, <2>4
<1>9. At(more, Q)[c + 1] = op
  <2>1. UpTo(Q, l + 1) = Q
    <3>1. \A i \in Q : i <= l + 1
      BY <1>3
    <3> QED
      BY <3>1 DEF UpTo
  <2>2. At(more, Q)[Cardinality(UpTo(Q, l + 1))] = more[l + 1]
    BY <1>12
  <2> QED
    BY <1>2, <1>6, <2>1, <2>2
<1>10. At(more, P) = At(ops, P)
  BY <1>7, <1>8, SeqEqual
<1>11. At(more, Q) = Append(At(ops, P), op)
  <2>1. /\ Append(At(ops, P), op) \in Seq(Op) /\ Len(Append(At(ops, P), op)) = c + 1
        /\ Append(At(ops, P), op)[c + 1] = op
        /\ \A n \in 1 .. c : Append(At(ops, P), op)[n] = At(ops, P)[n]
    BY <1>7
  <2>2. \A n \in 1 .. c + 1 : At(more, Q)[n] = Append(At(ops, P), op)[n]
    <3>1. \A n \in 1 .. c + 1 : n \in 1 .. c \/ n = c + 1
      BY <1>5, <1>7
    <3> QED
      BY <1>8, <1>9, <2>1, <3>1
  <2> QED
    BY <1>7, <2>1, <2>2, SeqEqual
<1> QED
  BY <1>1, <1>10, <1>11 DEF more

\* Adding an operation to a plan of the operations before it.
LEMMA AddFirst ==
  ASSUME NEW ops \in Seq(Op), NEW op \in Op
  PROVE  Add(FirstOfVersion(ops), op) = FirstOfVersion(Append(ops, op))
<1> DEFINE more == Append(ops, op)
<1>1. PICK l \in Nat : l = Len(ops) /\ DOMAIN ops = 1 .. l
  OBVIOUS
<1>2. /\ more \in Seq(Op) /\ DOMAIN more = 1 .. l + 1
      /\ more[l + 1] = op /\ \A i \in 1 .. l : more[i] = ops[i]
  BY <1>1
<1> HIDE DEF more
<1>3. FirstOfVersion(more) = At(more, Firsts(more))
  BY <1>2, FirstsOf
<1>4. \A i \in 1 .. l : i \in Firsts(more) <=> i \in Firsts(ops)
  <2>1. \A i \in 1 .. l : i <= l + 1
    BY <1>1
  <2> QED
    BY <1>1, <1>2, <2>1 DEF Firsts
<1>5. l + 1 \in Firsts(more) <=> ~(\E k \in 1 .. l : ops[k].version = op.version)
  <2>1. l + 1 \in 1 .. l + 1 /\ \A j \in 1 .. l + 1 : j \in 1 .. l \/ j = l + 1
    BY <1>1
  <2>2. \A j \in 1 .. l : ~(l + 1 <= j)
    BY <1>1
  <2>3. l + 1 <= l + 1
    BY <1>1
  <2> QED
    BY <1>2, <2>1, <2>2, <2>3 DEF Firsts
<1>6. Firsts(ops) \in SUBSET (1 .. l) /\ Firsts(more) \in SUBSET (1 .. l + 1)
  BY <1>1, <1>2 DEF Firsts
<1>7. CASE \E k \in 1 .. l : ops[k].version = op.version
  <2>1. Firsts(more) = Firsts(ops)
    <3>1. \A i \in 1 .. l + 1 : i \in 1 .. l \/ i = l + 1
      BY <1>1
    <3> QED
      BY <1>4, <1>5, <1>6, <1>7, <3>1
  <2>2. At(more, Firsts(ops)) = At(ops, Firsts(ops))
    BY <1>1, <1>6, AtAppended DEF more
  <2>3. Add(FirstOfVersion(ops), op) = FirstOfVersion(ops)
    <3>1. \E n \in DOMAIN FirstOfVersion(ops) :
            FirstOfVersion(ops)[n].version = op.version
      <4>1. \E k \in DOMAIN ops : ops[k].version = op.version
        BY <1>1, <1>7
      <4> QED
        BY <4>1, PlannedVersions
    <3> QED
      BY <3>1 DEF Add
  <2> QED
    BY <1>3, <2>1, <2>2, <2>3, FirstsOf DEF more
<1>8. CASE ~(\E k \in 1 .. l : ops[k].version = op.version)
  <2>1. Firsts(more) = Firsts(ops) \cup {l + 1}
    <3>1. \A i \in 1 .. l + 1 : i \in 1 .. l \/ i = l + 1
      BY <1>1
    <3> QED
      BY <1>4, <1>5, <1>6, <1>8, <3>1
  <2>2. At(more, Firsts(ops) \cup {l + 1}) = Append(At(ops, Firsts(ops)), op)
    <3>1. Firsts(ops) \in SUBSET DOMAIN ops /\ l = Len(ops)
      BY <1>1, <1>6
    <3> HIDE DEF Firsts
    <3> QED
      BY <3>1, AtAppended DEF more
  <2>3. Add(FirstOfVersion(ops), op) = Append(FirstOfVersion(ops), op)
    <3>1. ~(\E n \in DOMAIN FirstOfVersion(ops) :
              FirstOfVersion(ops)[n].version = op.version)
      <4>1. ~(\E k \in DOMAIN ops : ops[k].version = op.version)
        BY <1>1, <1>8
      <4> QED
        BY <4>1, PlannedVersions
    <3> QED
      BY <3>1 DEF Add
  <2> QED
    BY <1>3, <2>1, <2>2, <2>3, FirstsOf DEF more
<1> QED
  BY <1>7, <1>8

\* The recursion of AddEach: it is defined as far as the operations go.
LEMMA AddEachDefined ==
  ASSUME NEW plan, NEW ops \in Seq(Op)
  PROVE  \E added :
           /\ added = [i \in 0 .. Len(ops) |->
                         IF i = 0 THEN plan ELSE Add(added[i - 1], ops[i])]
           /\ AddEach(plan, ops) = added[Len(ops)]
<1> DEFINE Upto(n, f) == f = [i \in 0 .. n |-> IF i = 0 THEN plan
                                               ELSE Add(f[i - 1], ops[i])]
           T == {n \in Nat : \E f : Upto(n, f)}
<1>1. 0 \in T
  <2> DEFINE f == [i \in 0 .. 0 |-> plan]
  <2>1. f = [i \in 0 .. 0 |-> IF i = 0 THEN plan ELSE Add(f[i - 1], ops[i])]
    OBVIOUS
  <2> QED
    BY <2>1
<1>2. ASSUME NEW n \in T PROVE n + 1 \in T
  <2>1. PICK f : Upto(n, f)
    OBVIOUS
  <2> DEFINE g == [i \in 0 .. n + 1 |-> IF i = n + 1 THEN Add(f[n], ops[n + 1])
                                        ELSE f[i]]
  <2>2. ASSUME NEW i \in 0 .. n + 1
        PROVE  g[i] = IF i = 0 THEN plan ELSE Add(g[i - 1], ops[i])
    <3>1. CASE i = n + 1
      <4>1. i # 0 /\ i - 1 = n /\ n \in 0 .. n + 1 /\ n # n + 1
        BY <3>1
      <4> QED
        BY <3>1, <4>1
    <3>2. CASE i # n + 1
      <4>1. i \in 0 .. n
        BY <3>2
      <4>2. i # 0 => i - 1 \in 0 .. n + 1 /\ i - 1 # n + 1
        BY <3>2
      <4>3. f[i] = IF i = 0 THEN plan ELSE Add(f[i - 1], ops[i])
        BY <2>1, <4>1
      <4> QED
        BY <3>2, <4>2, <4>3
    <3> QED
      BY <3>1, <3>2
  <2>3. Upto(n + 1, g)
    <3>1. g = [i \in 0 .. n + 1 |-> g[i]]
      OBVIOUS
    <3> HIDE DEF g
    <3> QED
      BY <2>2, <3>1
  <2> HIDE DEF g, Upto
  <2> QED
    BY <2>3
<1>3. T = Nat
  BY <1>1, <1>2, Induction
<1>4. \E f : Upto(Len(ops), f)
  <2>1. Len(ops) \in T
    BY <1>3
  <2> QED
    BY <2>1
<1>5. AddEach(plan, ops) = (CHOOSE f : Upto(Len(ops), f))[Len(ops)]
  BY DEF AddEach
<1> QED
  BY <1>4, <1>5

\* A plan of a, with b added, is the plan of both.
LEMMA AddEachFirst ==
  ASSUME NEW a \in Seq(Op), NEW b \in Seq(Op)
  PROVE  AddEach(FirstOfVersion(a), b) = FirstOfVersion(a \o b)
<1> DEFINE plan == FirstOfVersion(a)
<1>1. PICK l \in Nat : l = Len(b) /\ DOMAIN b = 1 .. l
  OBVIOUS
<1> HIDE DEF plan
<1>2. PICK added :
        /\ added = [i \in 0 .. l |-> IF i = 0 THEN plan ELSE Add(added[i - 1], b[i])]
        /\ AddEach(plan, b) = added[l]
  BY <1>1, AddEachDefined
<1> DEFINE T == {n \in Nat : n <= l => added[n] = FirstOfVersion(a \o SubSeq(b, 1, n))}
<1>3. 0 \in T
  <2>1. a \o SubSeq(b, 1, 0) = a
    OBVIOUS
  <2>2. added[0] = plan
    BY <1>2
  <2> QED
    BY <2>1, <2>2 DEF plan
<1>4. ASSUME NEW n \in T PROVE n + 1 \in T
  <2> SUFFICES ASSUME n + 1 <= l
               PROVE  added[n + 1] = FirstOfVersion(a \o SubSeq(b, 1, n + 1))
    OBVIOUS
  <2>1. added[n] = FirstOfVersion(a \o SubSeq(b, 1, n))
    BY <1>1
  <2>2. added[n + 1] = Add(added[n], b[n + 1])
    BY <1>1, <1>2
  <2>3. SubSeq(b, 1, n + 1) = Append(SubSeq(b, 1, n), b[n + 1]) /\ b[n + 1] \in Op
        /\ SubSeq(b, 1, n) \in Seq(Op)
    BY <1>1
  <2>4. a \o SubSeq(b, 1, n + 1) = Append(a \o SubSeq(b, 1, n), b[n + 1])
        /\ a \o SubSeq(b, 1, n) \in Seq(Op)
    BY <2>3
  <2> QED
    BY <2>1, <2>2, <2>3, <2>4, AddFirst
<1>5. T = Nat
  BY <1>3, <1>4, Induction
<1>6. l \in T
  BY <1>5
<1>7. added[l] = FirstOfVersion(a \o SubSeq(b, 1, l))
  BY <1>6
<1>8. SubSeq(b, 1, l) = b
  BY <1>1
<1> QED
  BY <1>2, <1>7, <1>8 DEF plan

LEMMA EmptyPlan == FirstOfVersion(<<>>) = <<>>
<1>1. <<>> \in Seq(Op) /\ DOMAIN <<>> = {}
  OBVIOUS
<1>2. Firsts(<<>>) = {} /\ FirstOfVersion(<<>>) = At(<<>>, Firsts(<<>>))
  BY <1>1, FirstsOf DEF Firsts
<1>3. FirstOfVersion(<<>>) = [n \in 1 .. 0 |-> FirstOfVersion(<<>>)[n]]
  BY <1>2, FS_EmptySet DEF At
<1> QED
  BY <1>3

\* NewReplayPlan merges the cached operations and the resumed ones as meant,
\* for every pair of lists.
THEOREM PlanMergesOnce ==
  ASSUME NEW cached \in Seq(Op), NEW online \in Seq(Op)
  PROVE  NewReplayPlan(cached, online) = FirstOfVersion(cached \o online)
<1>1. AddEach(<<>>, cached) = FirstOfVersion(cached)
  <2>1. <<>> \in Seq(Op) /\ <<>> \o cached = cached
    OBVIOUS
  <2> QED
    BY <2>1, EmptyPlan, AddEachFirst
<1> QED
  BY <1>1, AddEachFirst DEF NewReplayPlan

\* At any time a reconciliation would deliver each version once, and of two
\* operations of a version the cached one (Service.Reconcile, replay.go).
THEOREM EachVersionPlannedOnce == SyncSpec => []PlanHasEachVersionOnce
<1>1. StoreInv /\ PushesOK /\ HandlesOK => PlanHasEachVersionOnce
  <2> SUFFICES ASSUME StoreInv, HandlesOK, NEW d \in Devices
               PROVE  Reconcile(d) = FirstOfVersion(Cached(d) \o Resumed(d))
    BY DEF PlanHasEachVersionOnce
  <2>1. Cached(d) \in Seq(Op)
    BY DEF HandlesOK, Cached
  <2>2. Resumed(d) \in Seq(Op)
    BY ListedType DEF StoreInv, Resumed
  <2> QED
    BY <2>1, <2>2, PlanMergesOnce DEF Reconcile
<1> QED
  BY <1>1, DevicesInvariant, PTL

=============================================================================
