-------------------------- MODULE DeviceSyncProofs --------------------------
(***************************************************************************)
(* Proofs about DeviceSync, for any devices, requests and reconnects: what *)
(* the store's proofs show of the stored documents holds on with the       *)
(* registry, deliveries and resumes running beside the store.              *)
(***************************************************************************)
EXTENDS DeviceSync, HistoryProofs, WellFoundedInduction

\* The watermark a resume filters by is a version the device was pushed
\* (Device.MarkDelivered): what ReconnectProofs needs of the unlocked handle.
WatermarkInv ==
  /\ DOMAIN lastDelivered = Devices /\ DOMAIN received = Devices
  /\ \A d \in Devices :
       lastDelivered[d] = 0 \/ \E op \in received[d] : op.version = lastDelivered[d]

\* A step that forgets nothing that was pushed and leaves the watermarks alone.
LEMMA MorePushed ==
  ASSUME WatermarkInv, UNCHANGED lastDelivered, DOMAIN received' = Devices,
         \A d \in Devices : received[d] \subseteq received'[d]
  PROVE  WatermarkInv'
  BY DEF WatermarkInv

LEMMA ComparePushes ==
  ASSUME WatermarkInv, NEW w \in Workers, CompareWatermark(w)
  PROVE  WatermarkInv'
<1> DEFINE d == push[w].device
           op == push[w].op
<1>1. /\ UNCHANGED lastDelivered
      /\ received' = received \/ received' = [received EXCEPT ![d] = @ \cup {op}]
  BY DEF CompareWatermark, Received
<1>2. QED
  BY <1>1, MorePushed DEF WatermarkInv

\* The watermark and the record of what was pushed move in one step.
LEMMA MarkPushes ==
  ASSUME WatermarkInv, NEW w \in Workers, MarkDelivered(w)
  PROVE  WatermarkInv'
<1> DEFINE d == push[w].device
           op == push[w].op
<1>1. /\ lastDelivered' = [lastDelivered EXCEPT ![d] = op.version]
      /\ received' = [received EXCEPT ![d] = @ \cup {op}]
  BY DEF MarkDelivered, Received
<1>2. DOMAIN lastDelivered' = Devices /\ DOMAIN received' = Devices
  BY <1>1 DEF WatermarkInv
<1>3. ASSUME NEW e \in Devices
      PROVE  lastDelivered'[e] = 0
               \/ \E x \in received'[e] : x.version = lastDelivered'[e]
  <2>1. CASE e = d
    <3>1. op \in received'[e] /\ lastDelivered'[e] = op.version
      BY <1>1, <2>1 DEF WatermarkInv
    <3>2. QED
      BY <3>1
  <2>2. CASE e # d
    BY <1>1, <2>2 DEF WatermarkInv
  <2>3. QED
    BY <2>1, <2>2
<1>4. QED
  BY <1>2, <1>3 DEF WatermarkInv

\* Every other step leaves both alone.
LEMMA NextWatermark == WatermarkInv /\ [SyncNext]_allVars => WatermarkInv'
<1> SUFFICES ASSUME WatermarkInv, [SyncNext]_allVars PROVE WatermarkInv'
  OBVIOUS
<1>1. CASE UNCHANGED <<lastDelivered, received>>
  BY <1>1, MorePushed DEF WatermarkInv
<1>2. CASE StoreStep \/ UNCHANGED allVars
  BY <1>1, <1>2 DEF StoreStep, allVars, deviceVars
<1>3. ASSUME NEW d \in Devices, Register(d) \/ Disconnect(d) PROVE WatermarkInv'
  BY <1>1, <1>3 DEF Register, Disconnect
<1>4. ASSUME NEW w \in Workers, NEW d \in Devices, Reconnect(w, d) PROVE WatermarkInv'
  BY <1>1, <1>4 DEF Reconnect
<1>5. ASSUME NEW w \in Workers,
             \/ DeliverUnreached(w) \/ DeliverOnline(w) \/ ReadWatermark(w) \/ List(w)
             \/ ReplayDone(w) \/ ReadVersion(w) \/ PublishEmit(w) \/ PublishRecord(w)
      PROVE  WatermarkInv'
  BY <1>1, <1>5 DEF DeliverUnreached, DeliverOnline, ReadWatermark, List, ReplayDone,
                    ReadVersion, PublishEmit, PublishRecord, deviceVars
<1>6. QED
  BY <1>2, <1>3, <1>4, <1>5, ComparePushes, MarkPushes DEF SyncNext

-----------------------------------------------------------------------------
(***************************************************************************)
(* The store among devices.  A step of the composition is one of the store *)
(* or leaves it alone, except that Publish calls the commit hook and       *)
(* appends to the history for an event that no commit made.                *)
(***************************************************************************)
\* The local variables of a call of sync.Service, as far as the store sees them.
PushOK(p) ==
  /\ p \in [pc: {p.pc}, device: {p.device}, op: {p.op}, ops: {p.ops},
            start: {p.start}, event: {p.event}]
  /\ p.pc # "none" => p.device \in Devices
  /\ p.event \in Event

PushInv == push = [w \in Workers |-> push[w]] /\ \A w \in Workers : PushOK(push[w])

\* What Publish does to the store's variables.
Publishes ==
  /\ UNCHANGED <<next, documents, tombstones, task, rolledBack>>
  /\ history' \in [Devices -> Seq(Event)]
  /\ onChange' \in [Devices -> Event]

LEMMA NoPushOK == PushOK(NoPush)
  BY NilType DEF PushOK, NoPush, NoEvent, Event

\* One call of sync.Service moves on; the others stand still.
LEMMA PushMoves ==
  ASSUME PushInv, NEW w \in Workers, NEW p, PushOK(p), push' = [push EXCEPT ![w] = p]
  PROVE  PushInv'
  BY DEF PushInv

LEMMA PushStands == PushInv /\ push' = push => PushInv'
  BY DEF PushInv

\* The event is the one local variable whose value matters to the store.
LEMMA AnswerStep ==
  ASSUME PushInv, NEW w \in Workers, NEW delivered \in BOOLEAN, Answer(w, delivered),
         push[w].pc # "none" \/ task[w].pc = "deliver"
  PROVE  PushInv' /\ [Next]_vars
<1>1. CASE task[w].pc = "deliver"
  <2>1. PushInv'
    BY <1>1, NoPushOK, PushMoves DEF Answer
  <2>2. Step(w)
    BY <1>1 DEF Answer, Step
  <2> QED
    BY <2>1, <2>2 DEF Next
<1>2. CASE task[w].pc # "deliver"
  <2> DEFINE pc == IF delivered THEN "replay" ELSE "version"
             ops == IF delivered THEN Tail(push[w].ops) ELSE <<>>
             p == [push[w] EXCEPT !.pc = pc, !.op = NoOp, !.ops = ops]
  <2>1. push' = [push EXCEPT ![w] = p] /\ UNCHANGED vars
    BY <1>2 DEF Answer, PushInv
  <2> HIDE DEF pc, ops
  <2>2. PushOK(p)
    BY <1>2 DEF PushInv, PushOK
  <2> HIDE DEF p
  <2> QED
    BY <2>1, <2>2, PushMoves
<1> QED
  BY <1>1, <1>2

LEMMA LocalSteps ==
  ASSUME PushInv, TypeOK, NEW w \in Workers,
         \/ DeliverOnline(w) \/ ReadWatermark(w) \/ List(w) \/ ReplayDone(w)
  PROVE  PushInv' /\ UNCHANGED vars
<1>0. UNCHANGED vars
  BY DEF DeliverOnline, ReadWatermark, List, ReplayDone
<1>1. CASE DeliverOnline(w)
  <2>1. Target(w) \in Devices
    BY <1>1 DEF DeliverOnline, Target, OwnDelivery, Replay, PushInv, PushOK, TypeOK
  <2>2. ASSUME NEW d \in Devices, NEW op,
               push' = [push EXCEPT ![w].pc = "compare", ![w].device = d, ![w].op = op]
        PROVE  PushInv'
    BY <2>2 DEF PushInv, PushOK
  <2> QED
    BY <1>1, <2>1, <2>2 DEF DeliverOnline
<1>2. CASE ReadWatermark(w)
  <2>1. ASSUME NEW start, push[w].pc = "start",
               push' = [push EXCEPT ![w].pc = "list", ![w].start = start]
        PROVE  PushInv'
    BY <2>1 DEF PushInv, PushOK
  <2> QED
    BY <1>2, <2>1 DEF ReadWatermark
<1>3. CASE List(w)
  <2>1. ASSUME NEW ops, push[w].pc = "list",
               push' = [push EXCEPT ![w].pc = "replay", ![w].start = 0,
                                    ![w].ops = ops]
        PROVE  PushInv'
    BY <2>1 DEF PushInv, PushOK
  <2> QED
    BY <1>3, <2>1 DEF List
<1>4. CASE ReplayDone(w)
  BY <1>4 DEF ReplayDone, PushInv, PushOK
<1> QED
  BY <1>0, <1>1, <1>2, <1>3, <1>4

LEMMA ReadVersionStep ==
  ASSUME PushInv, StoreInv, NEW w \in Workers, ReadVersion(w)
  PROVE  PushInv' /\ UNCHANGED vars
<1> DEFINE event == [type |-> "reconnect", snapshot |-> Nil,
                     version |-> documents[push[w].device].version]
<1>0. push[w].device \in Devices /\ push[w].pc # "none"
  BY DEF ReadVersion, PushInv, PushOK
<1>1. event \in Event
  BY <1>0, NilType DEF StoreInv, TypeOK, Document, Event
<1>2. push' = [push EXCEPT ![w].pc = "emit", ![w].event = event]
  BY DEF ReadVersion
<1> HIDE DEF event
<1>3. PushInv'
  BY <1>0, <1>1, <1>2 DEF PushInv, PushOK
<1> QED
  BY <1>3 DEF ReadVersion

LEMMA PublishEmitStep ==
  ASSUME PushInv, StoreInv, NEW w \in Workers, PublishEmit(w)
  PROVE  PushInv' /\ Publishes
<1> DEFINE d == push[w].device
           event == [push[w].event EXCEPT !.snapshot = documents[d]]
<1>0. d \in Devices /\ push[w].pc # "none"
  BY DEF PublishEmit, PushInv, PushOK
<1>1. event \in Event
  <2>1. push[w].event \in Event
    BY <1>0 DEF PushInv, PushOK
  <2>2. documents[d] \in Document
    BY <1>0 DEF StoreInv, TypeOK
  <2> QED
    BY <2>1, <2>2 DEF Event
<1>2. /\ push' = [push EXCEPT ![w].pc = "record", ![w].event = event]
      /\ onChange' = [onChange EXCEPT ![d] = event]
      /\ UNCHANGED <<next, documents, tombstones, history, task, rolledBack>>
  BY DEF PublishEmit, storeVars
<1> HIDE DEF event
<1>3. PushInv'
  BY <1>0, <1>1, <1>2 DEF PushInv, PushOK
<1>4. Publishes
  BY <1>1, <1>2 DEF Publishes, StoreInv, TypeOK
<1> QED
  BY <1>3, <1>4

LEMMA PublishRecordStep ==
  ASSUME PushInv, StoreInv, NEW w \in Workers, PublishRecord(w)
  PROVE  PushInv' /\ Publishes
<1> DEFINE d == push[w].device
<1>0. d \in Devices
  BY DEF PublishRecord, PushInv, PushOK
<1>1. history[d] \in Seq(Event) /\ push[w].event \in Event
  BY <1>0 DEF PushInv, PushOK, StoreInv, TypeOK
<1>2. Recorded(history[d], push[w].event) \in Seq(Event)
  <2>1. Append(history[d], push[w].event) \in Seq(Event)
    BY <1>1
  <2> QED
    BY <2>1, TrimType DEF Recorded
<1>3. /\ history' = [history EXCEPT ![d] = Recorded(@, push[w].event)]
      /\ push' = [push EXCEPT ![w] = NoPush]
      /\ UNCHANGED <<next, documents, tombstones, onChange, task, rolledBack>>
  BY DEF PublishRecord
<1>4. Publishes
  BY <1>2, <1>3 DEF Publishes, StoreInv, TypeOK
<1> QED
  BY <1>3, <1>4, NoPushOK, PushMoves

LEMMA SyncActions ==
  ASSUME PushInv, StoreInv, [SyncNext]_allVars
  PROVE  /\ PushInv'
         /\ [Next]_vars \/ \E w \in Workers : PublishEmit(w) \/ PublishRecord(w)
<1>1. CASE UNCHANGED <<vars, push>>
  BY <1>1, PushStands
<1>2. CASE StoreStep
  <2>1. push' = push /\ Next
    BY <1>2 DEF StoreStep, Next
  <2> QED
    BY <2>1, PushStands
<1>3. ASSUME NEW d \in Devices, Register(d) \/ Disconnect(d)
      PROVE  UNCHANGED <<vars, push>>
  BY <1>3 DEF Register, Disconnect
<1>4. ASSUME NEW w \in Workers, NEW d \in Devices, Reconnect(w, d)
      PROVE  PushInv' /\ UNCHANGED vars
  <2> DEFINE p == [NoPush EXCEPT !.pc = "start", !.device = d]
  <2>1. push' = [push EXCEPT ![w] = p] /\ UNCHANGED vars
    BY <1>4 DEF Reconnect
  <2>2. PushOK(p)
    BY NoPushOK DEF PushOK
  <2> HIDE DEF p
  <2> QED
    BY <2>1, <2>2, PushMoves
<1>5. ASSUME NEW w \in Workers, DeliverUnreached(w)
      PROVE  PushInv' /\ [Next]_vars
  <2>1. Answer(w, FALSE) /\ (push[w].pc # "none" \/ task[w].pc = "deliver")
    BY <1>5 DEF DeliverUnreached, OwnDelivery, Replay
  <2> QED
    BY <2>1, AnswerStep
<1>6. ASSUME NEW w \in Workers, CompareWatermark(w)
      PROVE  PushInv' /\ [Next]_vars
  <2>1. push[w].pc = "compare"
    BY <1>6 DEF CompareWatermark
  <2>2. CASE push[w].op.version > lastDelivered[push[w].device]
    <3>1. push' = [push EXCEPT ![w].pc = "mark"] /\ UNCHANGED vars
      BY <1>6, <2>2 DEF CompareWatermark
    <3>2. PushInv'
      BY <2>1, <3>1 DEF PushInv, PushOK
    <3> QED
      BY <3>1, <3>2
  <2>3. CASE ~(push[w].op.version > lastDelivered[push[w].device])
    <3>1. Answer(w, TRUE)
      BY <1>6, <2>3 DEF CompareWatermark
    <3> QED
      BY <2>1, <3>1, AnswerStep
  <2> QED
    BY <2>2, <2>3
<1>7. ASSUME NEW w \in Workers, MarkDelivered(w)
      PROVE  PushInv' /\ [Next]_vars
  <2>1. Answer(w, TRUE) /\ push[w].pc = "mark"
    BY <1>7 DEF MarkDelivered
  <2> QED
    BY <2>1, AnswerStep
<1>8. TypeOK
  BY DEF StoreInv
<1> QED
  BY <1>1, <1>2, <1>3, <1>4, <1>5, <1>6, <1>7, <1>8, PushStands, LocalSteps,
     ReadVersionStep, PublishEmitStep, PublishRecordStep
     DEF SyncNext, allVars

LEMMA SyncStep ==
  ASSUME PushInv, StoreInv, [SyncNext]_allVars
  PROVE  PushInv' /\ ([Next]_vars \/ Publishes)
  BY SyncActions, PublishEmitStep, PublishRecordStep

LEMMA PublishesKeeps ==
  ASSUME StoreInv, Publishes
  PROVE  StoreInv'
<1>1. TypeOK'
  BY DEF StoreInv, TypeOK, Publishes
<1>2. KindInv' /\ DocumentInv' /\ VersionInv'
  BY DEF StoreInv, Publishes, KindInv, KindOK, DocumentInv, DocumentOK,
         TombstoneExcludesDocument, Live, VersionInv, DeviceOK, Holds
<1> QED
  BY <1>1, <1>2 DEF StoreInv

LEMMA NextStoreInv ==
  ASSUME StoreInv, [Next]_vars
  PROVE  StoreInv'
  BY NextType, NextKind, NextDocument, NextVersion DEF StoreInv

\* The invariant the store is proved with holds on in the composition, although
\* Publish writes the history and calls the hook without a commit.
THEOREM StoreInvariant == SyncSpec => [](StoreInv /\ PushInv)
<1>1. SyncInit => StoreInv /\ PushInv
  BY InitType, InitKind, InitDocument, InitVersion, NoPushOK
     DEF SyncInit, StoreInv, PushInv
<1>2. StoreInv /\ PushInv /\ [SyncNext]_allVars => (StoreInv /\ PushInv)'
  BY SyncStep, PublishesKeeps, NextStoreInv
<1> QED
  BY <1>1, <1>2, PTL DEF SyncSpec

\* With devices connecting, failing to be reached and resuming beside the
\* requests, the stored documents keep what the store alone guarantees: nothing
\* rebuilds a deleted shadow, the watermark is the larger section version, and
\* the two sections never share a version (Store, sync.Service).
THEOREM DevicesLeaveDocumentsSound ==
  SyncSpec => /\ []TombstoneExcludesDocument
              /\ []WatermarkIsMax
              /\ []SectionVersionsDistinct
<1>1. StoreInv => TombstoneExcludesDocument /\ WatermarkIsMax
  BY DEF StoreInv, DocumentInv, DocumentOK, WatermarkIsMax
<1>2. StoreInv => SectionVersionsDistinct
  BY DEF StoreInv, TypeOK, Document, DocumentInv, DocumentOK, VersionInv,
         DeviceOK, MaxVersion, SectionVersionsDistinct
<1> QED
  BY <1>1, <1>2, StoreInvariant, PTL

\* Nor does any delivery, replay or reconnect event let a section of a live
\* shadow go back (conflict.MergeDesired, Store.Restore, Store.Publish).
THEOREM DevicesNeverRegressVersions == SyncSpec => VersionsNeverRegress
<1> DEFINE A == \A d \in Devices : Live(d) /\ Live(d)' =>
                  /\ documents'[d].desiredVersion >= documents[d].desiredVersion
                  /\ documents'[d].reportedVersion >= documents[d].reportedVersion
                  /\ documents'[d].version >= documents[d].version
<1>1. StoreInv /\ [Next]_vars => A
  BY SectionStep DEF StoreInv, Live
<1>2. StoreInv /\ Publishes => A
  BY DEF StoreInv, TypeOK, Document, Publishes
<1>3. StoreInv /\ PushInv /\ [SyncNext]_allVars => [A]_vars
  BY <1>1, <1>2, SyncStep
<1> QED
  BY <1>3, StoreInvariant, PTL DEF SyncSpec, VersionsNeverRegress

-----------------------------------------------------------------------------
(***************************************************************************)
(* Picking the elements at some positions of a sequence.  The n-th of them *)
(* is the element at the position with n positions up to it, so every      *)
(* number up to that of the positions is the rank of exactly one.          *)
(***************************************************************************)
LEMMA LeastNumber ==
  ASSUME NEW T \in SUBSET Nat, T # {}
  PROVE  \E n \in T : \A m \in T : n <= m
<1> DEFINE R == OpToRel(<, Nat)
<1>1. IsWellFoundedOn(R, Nat)
  BY NatLessThanWellFounded
<1>2. \A x, y \in Nat : x < y => <<x, y>> \in R
  BY DEF OpToRel
<1> HIDE DEF R
<1>3. PICK n \in T : \A m \in T : ~ (<<m, n>> \in R)
  BY <1>1, WFMin, Zenon
<1>4. ASSUME NEW m \in T PROVE n <= m
  <2>1. m \in Nat /\ n \in Nat
    OBVIOUS
  <2>2. ~ (<<m, n>> \in R)
    BY <1>3
  <2>3. ~ (m < n)
    BY <1>2, <2>1, <2>2, Zenon
  <2> QED
    BY <2>1, <2>3
<1> QED
  BY <1>4

LEMMA Induction ==
  ASSUME NEW T \in SUBSET Nat, 0 \in T, \A n \in T : n + 1 \in T
  PROVE  T = Nat
<1> SUFFICES ASSUME Nat \ T # {} PROVE FALSE
  OBVIOUS
<1>1. PICK n \in Nat \ T : \A m \in Nat \ T : n <= m
  BY LeastNumber
<1>2. n # 0 /\ n - 1 \in Nat /\ n - 1 \in T
  BY <1>1
<1> QED
  BY <1>1, <1>2

UpTo(S, i) == {j \in S : j <= i}

LEMMA UpToFinite ==
  ASSUME NEW l \in Nat, NEW S \in SUBSET (1 .. l), NEW i \in Nat
  PROVE  /\ IsFiniteSet(S) /\ Cardinality(S) \in Nat
         /\ IsFiniteSet(UpTo(S, i)) /\ Cardinality(UpTo(S, i)) \in Nat
<1>1. IsFiniteSet(1 .. l)
  BY FS_Interval
<1>2. IsFiniteSet(S)
  BY <1>1, FS_Subset
<1>3. IsFiniteSet(UpTo(S, i))
  BY <1>2, FS_Subset DEF UpTo
<1> QED
  BY <1>2, <1>3, FS_CardinalityType

LEMMA RankExists ==
  ASSUME NEW l \in Nat, NEW S \in SUBSET (1 .. l), NEW n \in 1 .. Cardinality(S)
  PROVE  \E i \in S : Cardinality(UpTo(S, i)) = n
<1> DEFINE T == {m \in Nat : n <= Cardinality(UpTo(S, m))}
<1>0. n \in Nat /\ n > 0
  BY UpToFinite
<1>9. \A j \in S : j \in Nat /\ 1 <= j /\ j <= l
  OBVIOUS
<1>1. UpTo(S, l) = S /\ UpTo(S, 0) = {}
  <2>1. \A j \in S : j <= l /\ ~(j <= 0)
    BY <1>9
  <2> QED
    BY <2>1 DEF UpTo
<1>2. l \in T /\ 0 \notin T
  BY <1>0, <1>1, UpToFinite, FS_EmptySet
<1>3. PICK m \in T : \A k \in T : m <= k
  BY <1>2, LeastNumber
<1>4. m \in Nat /\ m # 0 /\ m - 1 \in Nat /\ m - 1 \notin T
  BY <1>2, <1>3
<1>5. /\ n <= Cardinality(UpTo(S, m)) /\ ~(n <= Cardinality(UpTo(S, m - 1)))
      /\ IsFiniteSet(UpTo(S, m - 1)) /\ Cardinality(UpTo(S, m - 1)) \in Nat
  BY <1>3, <1>4, UpToFinite
<1>6. m \in S
  <2> SUFFICES ASSUME m \notin S PROVE FALSE
    OBVIOUS
  <2>1. UpTo(S, m) = UpTo(S, m - 1)
    <3>1. \A j \in S : j <= m <=> j <= m - 1
      BY <1>4, <1>9
    <3> QED
      BY <3>1 DEF UpTo
  <2> QED
    BY <1>5, <2>1
<1>7. UpTo(S, m) = UpTo(S, m - 1) \cup {m} /\ m \notin UpTo(S, m - 1)
  <2>1. \A j \in S : j <= m <=> j = m \/ j <= m - 1
    BY <1>4, <1>9
  <2>2. ~(m <= m - 1) /\ m <= m
    BY <1>4
  <2> QED
    BY <1>6, <2>1, <2>2 DEF UpTo
<1>8. Cardinality(UpTo(S, m)) = Cardinality(UpTo(S, m - 1)) + 1
  BY <1>5, <1>7, FS_AddElement
<1> QED
  BY <1>0, <1>5, <1>6, <1>8

LEMMA RankGrows ==
  ASSUME NEW l \in Nat, NEW S \in SUBSET (1 .. l), NEW i \in S, NEW k \in S, i < k
  PROVE  Cardinality(UpTo(S, i)) < Cardinality(UpTo(S, k))
<1>1. i \in Nat /\ k \in Nat
  OBVIOUS
<1>2. UpTo(S, i) \subseteq UpTo(S, k) /\ k \in UpTo(S, k) /\ k \notin UpTo(S, i)
  <2>1. \A j \in S : j <= i => j <= k
    OBVIOUS
  <2>2. k <= k /\ ~(k <= i)
    BY <1>1
  <2> QED
    BY <2>1, <2>2 DEF UpTo
<1>3. /\ IsFiniteSet(UpTo(S, k)) /\ Cardinality(UpTo(S, k)) \in Nat
      /\ Cardinality(UpTo(S, i)) \in Nat
  BY <1>1, UpToFinite
<1>4. Cardinality(UpTo(S, i)) <= Cardinality(UpTo(S, k))
  BY <1>2, <1>3, FS_Subset
<1>5. Cardinality(UpTo(S, i)) # Cardinality(UpTo(S, k))
  BY <1>2, <1>3, FS_Subset
<1> QED
  BY <1>3, <1>4, <1>5

LEMMA RankOnce ==
  ASSUME NEW l \in Nat, NEW S \in SUBSET (1 .. l), NEW i \in S, NEW k \in S,
         Cardinality(UpTo(S, i)) = Cardinality(UpTo(S, k))
  PROVE  i = k
<1>1. i \in Nat /\ k \in Nat
  OBVIOUS
<1>2. Cardinality(UpTo(S, i)) \in Nat
  BY <1>1, UpToFinite
<1>3. CASE i < k
  <2>1. Cardinality(UpTo(S, i)) < Cardinality(UpTo(S, k))
    BY <1>3, RankGrows
  <2> QED
    BY <1>2, <2>1
<1>4. CASE k < i
  <2>1. Cardinality(UpTo(S, k)) < Cardinality(UpTo(S, i))
    BY <1>4, RankGrows
  <2> QED
    BY <1>2, <2>1
<1> QED
  BY <1>1, <1>3, <1>4

\* The element at a position stands where its rank says.
LEMMA AtRank ==
  ASSUME NEW l \in Nat, NEW S \in SUBSET (1 .. l), NEW seq, NEW i \in S
  PROVE  /\ Cardinality(UpTo(S, i)) \in 1 .. Cardinality(S)
         /\ At(seq, S)[Cardinality(UpTo(S, i))] = seq[i]
<1> DEFINE n == Cardinality(UpTo(S, i))
           k == CHOOSE j \in S : Cardinality({x \in S : x <= j}) = n
<1>1. i \in Nat /\ i \in UpTo(S, i) /\ UpTo(S, i) \subseteq S
  BY DEF UpTo
<1>2. IsFiniteSet(S) /\ Cardinality(S) \in Nat /\ n \in Nat /\ IsFiniteSet(UpTo(S, i))
  BY <1>1, UpToFinite
<1>3. n <= Cardinality(S) /\ n # 0
  BY <1>1, <1>2, FS_Subset, FS_EmptySet
<1>4. n \in 1 .. Cardinality(S)
  BY <1>2, <1>3
<1>5. k \in S /\ Cardinality(UpTo(S, k)) = n
  <2>1. \E j \in S : Cardinality({x \in S : x <= j}) = n
    BY DEF UpTo
  <2>2. k \in S /\ Cardinality({x \in S : x <= k}) = n
    BY <2>1
  <2> QED
    BY <2>2 DEF UpTo
<1>6. k = i
  BY <1>5, RankOnce
<1>7. At(seq, S)[n] = seq[k]
  BY <1>4 DEF At
<1> QED
  BY <1>4, <1>6, <1>7

\* Picking elements of a sequence yields a sequence of such elements.
LEMMA AtElements ==
  ASSUME NEW S, NEW seq \in Seq(S), NEW P \in SUBSET DOMAIN seq
  PROVE  /\ At(seq, P) \in Seq(S) /\ Len(At(seq, P)) = Cardinality(P)
         /\ DOMAIN At(seq, P) = 1 .. Cardinality(P)
         /\ \A n \in DOMAIN At(seq, P) : \E i \in P :
              n = Cardinality(UpTo(P, i)) /\ At(seq, P)[n] = seq[i]
<1>1. PICK l \in Nat : l = Len(seq)
  OBVIOUS
<1>2. P \in SUBSET (1 .. l)
  BY <1>1
<1>3. Cardinality(P) \in Nat
  BY <1>2, UpToFinite
<1>4. PICK c \in Nat : c = Cardinality(P)
  BY <1>3
<1>5. ASSUME NEW n \in 1 .. c
      PROVE  \E i \in P : n = Cardinality(UpTo(P, i)) /\ At(seq, P)[n] = seq[i]
  <2>1. PICK i \in P : Cardinality(UpTo(P, i)) = n
    BY <1>2, <1>4, <1>5, RankExists
  <2>2. At(seq, P)[Cardinality(UpTo(P, i))] = seq[i]
    BY <1>2, AtRank
  <2> QED
    BY <2>1, <2>2
<1>6. At(seq, P) = [n \in 1 .. c |-> At(seq, P)[n]]
  BY <1>4 DEF At
<1>7. \A n \in 1 .. c : At(seq, P)[n] \in S
  BY <1>1, <1>2, <1>5
<1>8. At(seq, P) \in [1 .. c -> S]
  BY <1>6, <1>7
<1>9. At(seq, P) \in Seq(S) /\ Len(At(seq, P)) = c
  BY <1>8
<1> QED
  BY <1>4, <1>5, <1>6, <1>9

-----------------------------------------------------------------------------
(***************************************************************************)
(* The types of the device side.                                           *)
(***************************************************************************)
PushShape(p) == p \in Push /\ (p.pc = "none" <=> p = NoPush)
                           /\ (p.pc # "none" => p.device \in Devices)

\* A call of sync.Service is made while its worker serves no other step, and a
\* resume that is delivering has an operation to deliver.
PushesOK ==
  /\ push \in [Workers -> Push]
  /\ \A w \in Workers :
       /\ PushShape(push[w])
       /\ push[w].pc # "none" => task[w].pc \in {"idle", "deliver"}
       /\ push[w].pc \in {"compare", "mark"} /\ task[w].pc # "deliver"
            => push[w].ops # <<>>

HandlesOK ==
  /\ status \in [Devices -> Status] /\ lastDelivered \in [Devices -> Nat]
  /\ cache \in [Devices -> Seq(Op)] /\ received \in [Devices -> SUBSET Op]
  /\ reconnects \in [Devices -> 0 .. MaxReconnects]

LEMMA SyncTypeParts == TypeOK /\ PushesOK /\ HandlesOK => SyncTypeOK
  BY DEF SyncTypeOK, PushesOK, PushShape, HandlesOK

LEMMA NoPushType == PushShape(NoPush) /\ NoOp \in Op
<1>1. NoEvent \in Event
  BY NilType DEF NoEvent, Event
<1>2. NoOp \in Op
  BY DEF NoOp, Op
<1>3. NoPush \in Push
  BY <1>1, <1>2 DEF NoPush, Push
<1> QED
  BY <1>2, <1>3 DEF PushShape, NoPush

LEMMA PushesStand ==
  ASSUME PushesOK, push' = push,
         \A x \in Workers : push[x].pc # "none" => task'[x].pc = task[x].pc
  PROVE  PushesOK'
  BY DEF PushesOK

LEMMA PushesMove ==
  ASSUME PushesOK, NEW w \in Workers, NEW p, PushShape(p),
         push' = [push EXCEPT ![w] = p],
         p.pc # "none" => task'[w].pc \in {"idle", "deliver"},
         p.pc \in {"compare", "mark"} => task'[w].pc = "deliver" \/ p.ops # <<>>,
         \A x \in Workers \ {w} : task'[x].pc = task[x].pc
  PROVE  PushesOK'
  BY DEF PushesOK, PushShape

LEMMA ListedType ==
  ASSUME TypeOK, NEW d \in Devices, NEW watermark
  PROVE  ListDesiredSince(d, watermark) \in Seq(Op)
<1> DEFINE log == history[d]
           newer == At(log, {i \in DOMAIN log : /\ log[i].type = "desired"
                                                /\ log[i].version > watermark})
<1>1. log \in Seq(Event)
  BY DEF TypeOK
<1>2. newer \in Seq(Event)
  BY <1>1, AtElements
<1> HIDE DEF newer
<1>3. ASSUME NEW n \in DOMAIN newer
      PROVE  [version |-> newer[n].version, props |-> newer[n].snapshot.desired] \in Op
  <2>1. newer[n] \in Event
    BY <1>2
  <2> QED
    BY <2>1 DEF Event, Document, Op
<1>4. PICK l \in Nat : l = Len(newer) /\ DOMAIN newer = 1 .. l
  BY <1>2
<1>5. [n \in 1 .. l |-> [version |-> newer[n].version,
                         props |-> newer[n].snapshot.desired]] \in [1 .. l -> Op]
  BY <1>3, <1>4
<1> QED
  <2>1. [1 .. l -> Op] \subseteq Seq(Op)
    OBVIOUS
  <2> QED
    BY <1>4, <1>5, <2>1 DEF ListDesiredSince, newer

\* What a worker delivers next, and to whom.
LEMMA NextOpType ==
  ASSUME TypeOK, PushesOK, NEW w \in Workers, OwnDelivery(w) \/ Replay(w)
  PROVE  /\ NextOp(w) \in Op /\ Target(w) \in Devices
         /\ task[w].pc \in {"idle", "deliver"}
         /\ push[w] \in Push
<1>1. push[w] \in Push /\ PushShape(push[w])
  BY DEF PushesOK
<1>2. CASE OwnDelivery(w)
  <2>1. task[w].version \in Nat /\ task[w].props \in Nat /\ task[w].device \in Devices
    BY <1>2, BusyWorker DEF OwnDelivery
  <2> QED
    BY <1>1, <1>2, <2>1 DEF NextOp, Target, OwnDelivery, Op
<1>3. CASE ~OwnDelivery(w)
  <2>1. push[w].ops \in Seq(Op) /\ push[w].ops # <<>> /\ push[w].pc = "replay"
    BY <1>1, <1>3 DEF Replay, Push
  <2>2. Head(push[w].ops) \in Op
    BY <2>1
  <2> QED
    BY <1>1, <1>3, <2>1, <2>2 DEF NextOp, Target, PushesOK, PushShape
<1> QED
  BY <1>2, <1>3

LEMMA AnswerType ==
  ASSUME TypeOK, PushesOK, NEW w \in Workers, NEW delivered \in BOOLEAN,
         Answer(w, delivered),
         \/ task[w].pc = "deliver"
         \/ push[w].pc \in {"replay", "compare", "mark"},
         delivered => push[w].pc # "replay"
  PROVE  PushesOK'
<1>0. push[w] \in Push /\ PushShape(push[w]) /\ push \in [Workers -> Push]
  BY DEF PushesOK
<1>1. CASE task[w].pc = "deliver"
  <2>1. push' = [push EXCEPT ![w] = NoPush] /\ NoPush.pc = "none"
    BY <1>1 DEF Answer, NoPush
  <2>2. \A x \in Workers \ {w} : task'[x].pc = task[x].pc
    BY <1>1 DEF Answer, Deliver, DeliverAndMark, TypeOK
  <2> QED
    BY <2>1, <2>2, NoPushType, PushesMove
<1>2. CASE task[w].pc # "deliver"
  <2> DEFINE pc == IF delivered THEN "replay" ELSE "version"
             ops == IF delivered THEN Tail(push[w].ops) ELSE <<>>
             p == [push[w] EXCEPT !.pc = pc, !.op = NoOp, !.ops = ops]
  <2>1. push' = [push EXCEPT ![w] = p] /\ task' = task
    BY <1>0, <1>2 DEF Answer, vars
  <2>2. push[w].ops \in Seq(Op) /\ push[w].device \in Devices /\ task[w].pc = "idle"
    BY <1>0, <1>2 DEF Push, PushShape, PushesOK
  <2>3. delivered => push[w].pc # "replay" /\ push[w].ops # <<>>
    BY <1>2 DEF PushesOK
  <2>4. ops \in Seq(Op)
    BY <2>2, <2>3
  <2>5. pc \in {"replay", "version"}
    OBVIOUS
  <2> HIDE DEF pc, ops
  <2>6. /\ p \in Push /\ p.pc = pc /\ p.device = push[w].device
    BY <1>0, <2>4, <2>5, NoPushType DEF Push
  <2>7. PushShape(p) /\ p.pc \in {"replay", "version"}
    BY <2>2, <2>5, <2>6 DEF PushShape, NoPush
  <2> HIDE DEF p
  <2> QED
    BY <2>1, <2>2, <2>7, PushesMove
<1> QED
  BY <1>1, <1>2

\* A step of the store leaves every worker in a call of sync.Service alone.
LEMMA StorePushes ==
  ASSUME TypeOK, KindInv, PushesOK, StoreStep
  PROVE  PushesOK'
<1>0. push' = push
  BY DEF StoreStep
<1>1. ASSUME NEW w \in Workers, push[w].pc = "none", Start(w) \/ Step(w)
      PROVE  PushesOK'
  <2>1. \A x \in Workers \ {w} : Stays(x)
    BY <1>1, StartTask, StepTask DEF TaskStep
  <2> QED
    BY <1>0, <1>1, <2>1, PushesStand DEF Stays
<1>2. CASE GCTombstones
  BY <1>0, <1>2, PushesStand DEF GCTombstones
<1> QED
  BY <1>1, <1>2 DEF StoreStep

LEMMA DeliveryPushes ==
  ASSUME TypeOK, PushesOK, HandlesOK, NEW w \in Workers,
         \/ DeliverUnreached(w) \/ DeliverOnline(w)
         \/ CompareWatermark(w) \/ MarkDelivered(w)
  PROVE  PushesOK'
<1>0. push[w] \in Push /\ PushShape(push[w]) /\ push \in [Workers -> Push]
  BY DEF PushesOK
<1>1. CASE DeliverUnreached(w)
  <2>1. Answer(w, FALSE) /\ (task[w].pc = "deliver" \/ push[w].pc = "replay")
    BY <1>1 DEF DeliverUnreached, OwnDelivery, Replay
  <2> QED
    BY <2>1, AnswerType
<1>2. CASE DeliverOnline(w)
  <2> DEFINE p == [push[w] EXCEPT !.pc = "compare", !.device = Target(w),
                                  !.op = NextOp(w)]
  <2>1. push' = [push EXCEPT ![w] = p] /\ task' = task
    BY <1>0, <1>2 DEF DeliverOnline, vars
  <2>2. /\ NextOp(w) \in Op /\ Target(w) \in Devices
        /\ task[w].pc \in {"idle", "deliver"}
    BY <1>2, NextOpType DEF DeliverOnline
  <2>3. task[w].pc = "deliver" \/ push[w].ops # <<>>
    BY <1>2 DEF DeliverOnline, OwnDelivery, Replay
  <2>4. p \in Push /\ p.pc = "compare" /\ p.device = Target(w) /\ p.ops = push[w].ops
    BY <1>0, <2>2 DEF Push
  <2>5. PushShape(p)
    BY <2>2, <2>4 DEF PushShape, NoPush
  <2> HIDE DEF p
  <2> QED
    BY <2>1, <2>2, <2>3, <2>4, <2>5, PushesMove
<1>3. CASE CompareWatermark(w)
  <2>1. push[w].pc = "compare"
    BY <1>3 DEF CompareWatermark
  <2>2. CASE push[w].op.version > lastDelivered[push[w].device]
    <3> DEFINE p == [push[w] EXCEPT !.pc = "mark"]
    <3>1. push' = [push EXCEPT ![w] = p] /\ task' = task
      BY <1>0, <1>3, <2>2 DEF CompareWatermark, vars
    <3>2. p \in Push /\ p.pc = "mark" /\ p.device = push[w].device /\ p.ops = push[w].ops
      BY <1>0 DEF Push
    <3>3. PushShape(p)
      BY <1>0, <2>1, <3>2 DEF PushShape, NoPush
    <3>4. /\ task[w].pc \in {"idle", "deliver"}
          /\ task[w].pc = "deliver" \/ push[w].ops # <<>>
      BY <2>1 DEF PushesOK
    <3> HIDE DEF p
    <3> QED
      BY <3>1, <3>2, <3>3, <3>4, PushesMove
  <2>3. CASE ~(push[w].op.version > lastDelivered[push[w].device])
    <3>1. Answer(w, TRUE)
      BY <1>3, <2>3 DEF CompareWatermark
    <3> QED
      BY <2>1, <3>1, AnswerType
  <2> QED
    BY <2>2, <2>3
<1>4. CASE MarkDelivered(w)
  <2>1. Answer(w, TRUE) /\ push[w].pc = "mark"
    BY <1>4 DEF MarkDelivered
  <2> QED
    BY <2>1, AnswerType
<1> QED
  BY <1>1, <1>2, <1>3, <1>4

\* The steps of a resume: every one of them changes the worker's own call only.
LEMMA ResumePushes ==
  ASSUME TypeOK, PushesOK, HandlesOK, NEW w \in Workers,
         \/ \E d \in Devices : Reconnect(w, d)
         \/ ReadWatermark(w) \/ List(w) \/ ReplayDone(w)
         \/ ReadVersion(w) \/ PublishEmit(w) \/ PublishRecord(w)
  PROVE  PushesOK'
<1>0. push[w] \in Push /\ PushShape(push[w]) /\ push \in [Workers -> Push]
  BY DEF PushesOK
<1>1. ASSUME NEW p \in Push, p.pc \notin {"none", "compare", "mark"},
             p.device \in Devices, task[w].pc \in {"idle", "deliver"},
             push' = [push EXCEPT ![w] = p], task' = task
      PROVE  PushesOK'
  BY <1>1, PushesMove DEF PushShape, NoPush
<1>2. ASSUME NEW d \in Devices, Reconnect(w, d) PROVE PushesOK'
  <2> DEFINE p == [NoPush EXCEPT !.pc = "start", !.device = d]
  <2>1. push' = [push EXCEPT ![w] = p] /\ task' = task /\ task[w].pc = "idle"
    BY <1>2 DEF Reconnect, vars
  <2>2. p \in Push /\ p.pc = "start" /\ p.device = d
    BY NoPushType DEF PushShape, Push
  <2> HIDE DEF p
  <2> QED
    BY <1>1, <2>1, <2>2
<1>3. ASSUME push[w].pc # "none"
      PROVE  push[w].device \in Devices /\ task[w].pc \in {"idle", "deliver"}
  BY <1>3 DEF PushesOK, PushShape
<1>4. CASE ReadWatermark(w)
  <2> DEFINE p == [push[w] EXCEPT !.pc = "list", !.start = ResumeFrom(push[w].device)]
  <2>1. push' = [push EXCEPT ![w] = p] /\ task' = task /\ push[w].pc = "start"
    BY <1>0, <1>4 DEF ReadWatermark, vars
  <2>2. ResumeFrom(push[w].device) \in Nat
    BY <1>3, <2>1 DEF ResumeFrom, HandlesOK
  <2>3. p \in Push /\ p.pc = "list" /\ p.device = push[w].device
    BY <1>0, <2>2 DEF Push
  <2> HIDE DEF p
  <2> QED
    BY <1>1, <1>3, <2>1, <2>3
<1>5. CASE List(w)
  <2> DEFINE ops == ListDesiredSince(push[w].device, push[w].start)
             p == [push[w] EXCEPT !.pc = "replay", !.start = 0, !.ops = ops]
  <2>1. push' = [push EXCEPT ![w] = p] /\ task' = task /\ push[w].pc = "list"
    BY <1>0, <1>5 DEF List, vars
  <2>2. ops \in Seq(Op)
    BY <1>3, <2>1, ListedType
  <2> HIDE DEF ops
  <2>3. p \in Push /\ p.pc = "replay" /\ p.device = push[w].device
    BY <1>0, <2>2 DEF Push
  <2> HIDE DEF p
  <2> QED
    BY <1>1, <1>3, <2>1, <2>3
<1>6. CASE ReplayDone(w)
  <2> DEFINE p == [push[w] EXCEPT !.pc = "version"]
  <2>1. push' = [push EXCEPT ![w] = p] /\ task' = task /\ push[w].pc = "replay"
    BY <1>0, <1>6 DEF ReplayDone, vars
  <2>2. p \in Push /\ p.pc = "version" /\ p.device = push[w].device
    BY <1>0 DEF Push
  <2> HIDE DEF p
  <2> QED
    BY <1>1, <1>3, <2>1, <2>2
<1>7. CASE ReadVersion(w)
  <2> DEFINE event == [type |-> "reconnect", snapshot |-> Nil,
                       version |-> documents[push[w].device].version]
             p == [push[w] EXCEPT !.pc = "emit", !.event = event]
  <2>1. push' = [push EXCEPT ![w] = p] /\ task' = task /\ push[w].pc = "version"
    BY <1>0, <1>7 DEF ReadVersion, vars
  <2>2. event \in Event
    BY <1>3, <2>1, NilType DEF TypeOK, Document, Event
  <2> HIDE DEF event
  <2>3. p \in Push /\ p.pc = "emit" /\ p.device = push[w].device
    BY <1>0, <2>2 DEF Push
  <2> HIDE DEF p
  <2> QED
    BY <1>1, <1>3, <2>1, <2>3
<1>8. CASE PublishEmit(w)
  <2> DEFINE event == [push[w].event EXCEPT !.snapshot = documents[push[w].device]]
             p == [push[w] EXCEPT !.pc = "record", !.event = event]
  <2>1. push' = [push EXCEPT ![w] = p] /\ task' = task /\ push[w].pc = "emit"
    BY <1>0, <1>8 DEF PublishEmit
  <2>2. push[w].event \in Event /\ documents[push[w].device] \in Document
    BY <1>0, <1>3, <2>1 DEF Push, TypeOK
  <2>3. event \in Event
    BY <2>2 DEF Event
  <2> HIDE DEF event
  <2>4. p \in Push /\ p.pc = "record" /\ p.device = push[w].device
    BY <1>0, <2>3 DEF Push
  <2> HIDE DEF p
  <2> QED
    BY <1>1, <1>3, <2>1, <2>4
<1>9. CASE PublishRecord(w)
  <2>1. push' = [push EXCEPT ![w] = NoPush] /\ task' = task
    BY <1>9 DEF PublishRecord
  <2> QED
    BY <2>1, NoPushType, PushesMove DEF NoPush
<1> QED
  BY <1>2, <1>4, <1>5, <1>6, <1>7, <1>8, <1>9

LEMMA HandlesStand ==
  ASSUME HandlesOK, UNCHANGED deviceVars
  PROVE  HandlesOK'
  BY DEF HandlesOK, deviceVars

LEMMA RegistryHandles ==
  ASSUME HandlesOK, NEW d \in Devices,
         \/ Register(d) \/ Disconnect(d)
         \/ \E w \in Workers : Reconnect(w, d)
  PROVE  HandlesOK'
<1>1. CASE Register(d) \/ Disconnect(d)
  BY <1>1 DEF Register, Disconnect, HandlesOK, Status
<1>2. ASSUME NEW w \in Workers, Reconnect(w, d) PROVE HandlesOK'
  <2>1. reconnects' \in [Devices -> 0 .. MaxReconnects]
    <3>1. reconnects[d] \in 0 .. MaxReconnects /\ reconnects[d] < MaxReconnects
      BY <1>2 DEF Reconnect, HandlesOK
    <3>2. reconnects[d] + 1 \in 0 .. MaxReconnects
      BY <3>1, SyncAssumption
    <3> QED
      BY <1>2, <3>2 DEF Reconnect, HandlesOK
  <2> QED
    BY <1>2, <2>1 DEF Reconnect, HandlesOK, Status
<1> QED
  BY <1>1, <1>2

LEMMA DeliveryHandles ==
  ASSUME TypeOK, PushesOK, HandlesOK, NEW w \in Workers,
         DeliverUnreached(w) \/ CompareWatermark(w) \/ MarkDelivered(w)
  PROVE  HandlesOK'
<1>0. push[w] \in Push /\ PushShape(push[w])
  BY DEF PushesOK
<1>1. CASE DeliverUnreached(w)
  <2>1. NextOp(w) \in Op /\ Target(w) \in Devices
    BY <1>1, NextOpType DEF DeliverUnreached
  <2>2. Append(cache[Target(w)], NextOp(w)) \in Seq(Op)
    BY <2>1 DEF HandlesOK
  <2>3. cache' \in [Devices -> Seq(Op)]
    BY <1>1, <2>1, <2>2 DEF DeliverUnreached, HandlesOK
  <2> QED
    BY <1>1, <2>3 DEF DeliverUnreached, HandlesOK
<1>2. CASE CompareWatermark(w) \/ MarkDelivered(w)
  <2>1. push[w].op \in Op /\ push[w].device \in Devices /\ push[w].op.version \in Nat
    BY <1>0, <1>2 DEF CompareWatermark, MarkDelivered, Push, PushShape, Op
  <2>2. received[push[w].device] \cup {push[w].op} \in SUBSET Op
    BY <2>1 DEF HandlesOK
  <2>3. Received(w) => received' \in [Devices -> SUBSET Op]
    BY <2>2 DEF Received, HandlesOK
  <2>4. CASE CompareWatermark(w)
    BY <2>3, <2>4 DEF CompareWatermark, HandlesOK
  <2>5. CASE MarkDelivered(w)
    BY <2>1, <2>3, <2>5 DEF MarkDelivered, HandlesOK
  <2> QED
    BY <1>2, <2>4, <2>5
<1> QED
  BY <1>1, <1>2

LEMMA NextSyncType ==
  ASSUME TypeOK, KindInv, PushesOK, HandlesOK, [SyncNext]_allVars
  PROVE  PushesOK' /\ HandlesOK'
<1>1. CASE UNCHANGED allVars
  <2>1. push' = push /\ task' = task /\ UNCHANGED deviceVars
    BY <1>1 DEF allVars, vars
  <2> QED
    BY <2>1, PushesStand, HandlesStand
<1>2. CASE StoreStep
  BY <1>2, StorePushes, HandlesStand DEF StoreStep
<1>3. ASSUME NEW d \in Devices, Register(d) \/ Disconnect(d)
      PROVE  PushesOK' /\ HandlesOK'
  <2>1. push' = push /\ task' = task
    BY <1>3 DEF Register, Disconnect, vars
  <2> QED
    BY <1>3, <2>1, PushesStand, RegistryHandles
<1>4. ASSUME NEW w \in Workers, NEW d \in Devices, Reconnect(w, d)
      PROVE  PushesOK' /\ HandlesOK'
  BY <1>4, ResumePushes, RegistryHandles
<1>5. ASSUME NEW w \in Workers,
             DeliverUnreached(w) \/ CompareWatermark(w) \/ MarkDelivered(w)
      PROVE  PushesOK' /\ HandlesOK'
  BY <1>5, DeliveryPushes, DeliveryHandles
<1>6. ASSUME NEW w \in Workers, DeliverOnline(w)
      PROVE  PushesOK' /\ HandlesOK'
  BY <1>6, DeliveryPushes, HandlesStand DEF DeliverOnline
<1>7. ASSUME NEW w \in Workers,
             \/ ReadWatermark(w) \/ List(w) \/ ReplayDone(w)
             \/ ReadVersion(w) \/ PublishEmit(w) \/ PublishRecord(w)
      PROVE  PushesOK' /\ HandlesOK'
  <2>1. UNCHANGED deviceVars
    BY <1>7 DEF ReadWatermark, List, ReplayDone, ReadVersion, PublishEmit,
                PublishRecord
  <2> QED
    BY <1>7, <2>1, ResumePushes, HandlesStand
<1> QED
  BY <1>1, <1>2, <1>3, <1>4, <1>5, <1>6, <1>7 DEF SyncNext

LEMMA DevicesInvariant == SyncSpec => [](StoreInv /\ PushesOK /\ HandlesOK)
<1>1. SyncInit => PushesOK /\ HandlesOK
  <2> SUFFICES ASSUME SyncInit PROVE PushesOK /\ HandlesOK
    OBVIOUS
  <2>1. PushesOK
    BY NoPushType DEF SyncInit, Init, PushesOK, PushShape, NoPush
  <2>2. HandlesOK
    BY SyncAssumption DEF SyncInit, HandlesOK, Status
  <2> QED
    BY <2>1, <2>2
<1>2. StoreInv /\ PushesOK /\ HandlesOK /\ [SyncNext]_allVars
        => (PushesOK /\ HandlesOK)'
  BY NextSyncType DEF StoreInv
<1> QED
  BY <1>1, <1>2, StoreInvariant, PTL DEF SyncSpec

\* The registry, the watermarks, the cache and the local variables of every
\* delivery and resume keep their types, a worker that is in a call of
\* sync.Service serves no other step, and a resume that delivers has an
\* operation to deliver: Head and Tail are never taken of an empty list.
THEOREM SyncTypeCorrect == SyncSpec => []SyncTypeOK
<1>1. StoreInv /\ PushesOK /\ HandlesOK => SyncTypeOK
  BY SyncTypeParts DEF StoreInv
<1> QED
  BY <1>1, DevicesInvariant, PTL

=============================================================================
