--------------------------- MODULE ReconnectProofs ---------------------------
(***************************************************************************)
(* A device that reconnects is sent what it desires.  This is about an     *)
(* instance whose clients write and delete: a report moves the watermark   *)
(* that every resume filters by and an undone transaction stays in the     *)
(* history, and with either the property is false.                         *)
(***************************************************************************)
EXTENDS DeviceSyncProofs

OnlyWrites == Requests \subseteq {"desired", "batch", "delete"}

Latest(d) == documents[d].desiredVersion

\* Where nothing is reported the watermark is the version of the last write.
Plain(doc) ==
  /\ doc.reportedVersion = 0 /\ doc.version = doc.desiredVersion
  /\ doc.desired \in {0, doc.desiredVersion}

PlainInv ==
  /\ \A d \in Devices : Plain(documents[d])
  /\ \A x \in Workers : PropsOK(task[x])

\* A worker with a desired write to publish.  However its read is torn, the
\* event is the same: a mark in place changes neither version nor payload.
Writer(x) == Publishing(x) /\ task[x].kind \in DesiredKind

SeenInv ==
  \A x \in Workers : Writer(x) =>
    \A s \in task[x].seen : /\ s.version = task[x].doc.version
                            /\ s.desired = task[x].doc.desired

EventOp(e) == [version |-> e.version, props |-> e.snapshot.desired]
DocOp(doc) == [version |-> doc.version, props |-> doc.desired]

\* The operation that a request delivers for itself.
OwnOp(t) == [version |-> t.version, props |-> t.props]

\* An operation under way is not newer than the shadow, and if it is of the
\* last write then it carries what the shadow desires.
Fresh(op, doc) ==
  /\ op.version <= doc.desiredVersion
  /\ op.version = doc.desiredVersion => doc.desired \in {0, op.props}
OpOK(op, d) == Fresh(op, documents[d])

StoreCurrent(d) ==
  /\ \A i \in DOMAIN history[d] :
       history[d][i].type = "desired" => OpOK(EventOp(history[d][i]), d)
  /\ \A x \in Workers : task[x].device = d /\ task[x].kind \in DesiredKind =>
       /\ Publishing(x) => OpOK(OwnOp(task[x]), d) /\ OpOK(DocOp(task[x].doc), d)
       /\ task[x].pc = "deliver" => OpOK(OwnOp(task[x]), d)

\* The version of the shadow moves with the commit of a desired write only.
Writes(w, d) ==
  /\ Commits(w) /\ task[w].device = d /\ task[w].kind \in DesiredKind
  /\ documents'[d].desiredVersion = task[w].version
  /\ documents'[d].desired = task[w].props

Moves(d) ==
  \/ /\ documents'[d].desiredVersion = documents[d].desiredVersion
     /\ documents'[d].desired = documents[d].desired
  \/ /\ documents'[d].desiredVersion > documents[d].desiredVersion
     /\ \E w \in Workers : Writes(w, d)

LEMMA NoUndo ==
  ASSUME OnlyWrites, KindInv, NEW x \in Workers
  PROVE  /\ task[x].kind \in {"desired", "batch", "delete", "none"}
         /\ task[x].pc \notin {"alloc", "reread", "restore"}
  BY DEF OnlyWrites, KindInv, KindOK

LEMMA NilPlain == Plain(Nil)
  BY DEF Nil, Plain

LEMMA DocumentMoves ==
  ASSUME OnlyWrites, StoreInv, StoreInv', PlainInv, HistoryShape, [Next]_vars,
         NEW d \in Devices
  PROVE  Plain(documents'[d]) /\ (d \in tombstones' \/ Moves(d))
<1> USE DEF StoreInv
<1> DEFINE doc == documents[d]
           out == documents'[d]
           Kept == out.desiredVersion = doc.desiredVersion /\ out.desired = doc.desired
<1>1. doc \in Document /\ out \in Document /\ Plain(doc)
  BY DEF TypeOK, PlainInv
<1>2. CASE out = doc
  BY <1>1, <1>2 DEF Moves
<1>3. ASSUME NEW w \in Workers, DesiredWrite(w, d)
      PROVE  Plain(out) /\ Moves(d)
  <2> DEFINE v == task[w].version
             e == Ensure(d, v)
  <2>1. /\ v \in Nat /\ task[w].props \in Nat /\ e \in Document
        /\ e.desiredVersion = doc.desiredVersion /\ e.desired = doc.desired
        /\ e.reportedVersion = doc.reportedVersion /\ e.version = doc.version
    <3>1. v \in Nat /\ task[w].props \in Nat /\ e \in Document
      BY <1>3, BusyWorker, EnsureType DEF DesiredWrite
    <3>2. CASE Live(d)
      BY <3>1, <3>2 DEF Live, Ensure
    <3>3. CASE ~Live(d)
      <4>1. doc = Nil
        BY <3>3 DEF Live, DocumentInv, DocumentOK
      <4> QED
        BY <3>1, <3>3, <4>1 DEF Live, Ensure, NewDocument, Nil
    <3> QED
      BY <3>2, <3>3
  <2>2. out = MergeDesired(e, [version |-> v, props |-> task[w].props])
    BY <1>3 DEF DesiredWrite
  <2>3. v # doc.desiredVersion
    BY <1>3 DEF DesiredWrite, VersionInv, DeviceOK, Holds
  <2>4. task[w].props \in {0, v}
    BY <1>3 DEF DesiredWrite, PlainInv, PropsOK
  <2>5. doc.desiredVersion \in Nat /\ doc.reportedVersion = 0
        /\ doc.version = doc.desiredVersion /\ doc.desired \in {0, doc.desiredVersion}
    BY <1>1 DEF Document, Plain
  <2> HIDE DEF v, e, doc, out
  <2>6. CASE v < e.desiredVersion
    BY <2>1, <2>2, <2>5, <2>6, MergeDesiredFields DEF Plain, Moves, doc, out
  <2>7. CASE v >= e.desiredVersion
    <3>1. /\ out.obj = v /\ out.desiredVersion = v /\ out.desired = task[w].props
          /\ out.reportedVersion = 0 /\ out.version = MaxVersion(v, 0)
      BY <2>1, <2>2, <2>5, <2>7, MergeDesiredFields
    <3>2. out.version = v
      BY <2>1, <3>1 DEF MaxVersion
    <3>3. v > doc.desiredVersion /\ v # 0
      BY <2>1, <2>3, <2>5, <2>7
    <3>4. PICK x \in Workers : Commits(x) /\ task[x].device = d /\ task[x].kind \in DesiredKind
      <4>1. UndoInv
        BY NoUndo DEF UndoInv
      <4>2. /\ documents'[d].desiredVersion # 0
            /\ documents'[d].desiredVersion # documents[d].desiredVersion
        BY <2>1, <2>3, <3>1, <3>3 DEF doc, out
      <4> QED
        BY <4>1, <4>2, DesiredVersionMoves
    <3>5. x = w
      <4>1. task[x].version = v
        BY <3>1, <3>4 DEF Commits, out
      <4>2. Holds(x, d) /\ Holds(w, d)
        BY <1>3, <3>4 DEF Holds, Commits, DesiredWrite
      <4> QED
        BY <4>1, <4>2 DEF v, VersionInv, DeviceOK
    <3> QED
      BY <2>4, <3>1, <3>2, <3>3, <3>4, <3>5 DEF Plain, Moves, Writes, doc, out, v
  <2> QED
    BY <2>1, <2>5, <2>6, <2>7
<1>4. ASSUME NEW w \in Workers PROVE ~ReportWrite(w, d) /\ ~Creation(w, d) /\ ~Rollback(w, d)
  BY NoUndo DEF ReportWrite, Creation, Rollback
<1>5. ASSUME NEW w \in Workers, Mark(w, d) PROVE Plain(out) /\ Moves(d)
  BY <1>1, <1>5 DEF Mark, Plain, Moves, Document
<1>6. CASE Miss(d)
  <2>1. out = doc
    BY <1>6 DEF Miss, Live, DocumentInv, DocumentOK
  <2> QED
    BY <1>2, <2>1
<1>7. ASSUME NEW e \in Devices, documents' = [documents EXCEPT ![e] = Nil],
             tombstones' = tombstones \cup {e}
      PROVE  Plain(out) /\ (d \in tombstones' \/ Moves(d))
  BY <1>2, <1>7, NilPlain DEF TypeOK
<1>8. CASE DocumentStep(d)
  BY <1>2, <1>3, <1>4, <1>5, <1>6, <1>8 DEF DocumentStep
<1> QED
  BY <1>2, <1>7, <1>8, DocumentSteps

LEMMA NextPlain ==
  ASSUME OnlyWrites, StoreInv, StoreInv', PlainInv, HistoryShape, [Next]_vars
  PROVE  PlainInv'
  BY DocumentMoves, NextProps DEF PlainInv

LEMMA NextSeen ==
  ASSUME OnlyWrites, StoreInv, OwnInv, SeenInv, HistoryShape, [Next]_vars
  PROVE  SeenInv'
<1> SUFFICES ASSUME NEW x \in Workers, Writer(x)', NEW s \in task'[x].seen
             PROVE  s.version = task'[x].doc.version /\ s.desired = task'[x].doc.desired
  BY DEF SeenInv
<1>1. CASE Carries(x)
  BY <1>1 DEF Carries, Writer, Publishing, SameRequest, SeenInv
<1>2. ASSUME NEW w \in Workers, x # w, Rewrites(w), ~Carries(x)
      PROVE  s.version = task'[x].doc.version /\ s.desired = task'[x].doc.desired
  <2> DEFINE d == task[w].device
             doc == documents'[d]
  <2>1. Shares(x, doc) /\ task[x].device = d /\ d \in Devices
    BY <1>2 DEF Rewrites, Writer, Publishing
  <2>2. /\ Writer(x) /\ task[x].doc.obj = task[x].version
        /\ documents[d].obj = task[x].version => task[x].doc = documents[d]
        /\ task[x].version # 0 /\ task[x].doc.obj = doc.obj
    <3>1. Writer(x) /\ Owns(x) /\ task[x].version \in Nat
      BY <2>1, BusyWorker DEF Shares, Writer, Publishing, SameRequest, Owns, DesiredKind, StoreInv
    <3>2. OwnedOK(x)
      BY <3>1 DEF OwnInv
    <3> QED
      BY <2>1, <3>1, <3>2 DEF OwnedOK, Writer, Shares
  <2>3. doc # Nil
    BY <2>2 DEF Nil
  <2>4. doc = [documents[d] EXCEPT !.state = "stale"]
    BY <1>2, <2>3, NoUndo DEF Rewrites, StoreInv
  <2>5. documents[d] \in Document
    BY <2>1 DEF StoreInv, TypeOK
  <2>6. /\ doc.version = documents[d].version /\ doc.desired = documents[d].desired
        /\ doc.obj = documents[d].obj
    BY <2>4, <2>5 DEF Document
  <2>7. task[x].doc = documents[d]
    BY <2>2, <2>6
  <2> HIDE DEF doc
  <2>8. task'[x].doc = doc /\ (s = doc \/ s \in task[x].seen)
    BY <2>1 DEF Shares
  <2> QED
    BY <2>2, <2>6, <2>7, <2>8 DEF SeenInv
<1>3. ASSUME NEW w \in Workers, x = w,
             \/ Commits(w) \/ Discards(w) \/ Records(w) \/ Rewrites(w)
             \/ \E e \in Devices : Deletes(w, e)
      PROVE  s.version = task'[x].doc.version /\ s.desired = task'[x].doc.desired
  BY <1>3 DEF Commits, Discards, Records, Rewrites, Deletes, Writer, Publishing, DesiredKind
<1> QED
  BY <1>1, <1>2, <1>3
     DEF HistoryShape, Quiet, Commits, Discards, Records, Deletes, OthersCarry

-----------------------------------------------------------------------------
(* What the store's steps do to the operations under way.                  *)

\* An operation is as good after a step as it was before.
LEMMA OpKept ==
  ASSUME TypeOK, TypeOK', NEW d \in Devices, Moves(d), NEW op, op.version \in Nat,
         OpOK(op, d)
  PROVE  OpOK(op, d)'
<1>1. documents[d].desiredVersion \in Nat /\ documents'[d].desiredVersion \in Nat
  BY DEF TypeOK, Document
<1> QED
  BY <1>1 DEF OpOK, Fresh, Moves

LEMMA LatestGrows ==
  ASSUME TypeOK, TypeOK', NEW d \in Devices, Moves(d)
  PROVE  Latest(d) \in Nat /\ Latest(d)' \in Nat /\ Latest(d) <= Latest(d)'
<1>1. documents[d].desiredVersion \in Nat /\ documents'[d].desiredVersion \in Nat
  BY DEF TypeOK, Document
<1> QED
  BY <1>1 DEF Moves, Latest

\* What a plain document holds is a good operation.
LEMMA PlainOp ==
  ASSUME NEW doc \in Document, Plain(doc)
  PROVE  Fresh(DocOp(doc), doc)
  BY DEF Fresh, DocOp, Plain, Document

\* The same of the operation that a request is about to deliver for itself.
LEMMA OwnOpKept ==
  ASSUME TypeOK, TypeOK', NEW d \in Devices, Moves(d), NEW x \in Workers,
         task[x].pc # "idle", SameRequest(x), OpOK(OwnOp(task[x]), d)
  PROVE  Fresh(OwnOp(task'[x]), documents'[d])
<1>1. PICK op : op = OwnOp(task[x])
  OBVIOUS
<1>2. op.version \in Nat /\ op = OwnOp(task'[x])
  BY <1>1, BusyWorker DEF OwnOp, SameRequest
<1> QED
  BY <1>1, <1>2, OpKept DEF OpOK

\* A worker with a desired write to publish publishes it and goes on to deliver.
LEMMA WriterGoesOn ==
  ASSUME StoreInv, [Next]_vars, NEW x \in Workers, Writer(x)
  PROVE  SameRequest(x) /\ task'[x].pc \in {"emit", "record", "deliver"}
<1>0. task \in [Workers -> Task] /\ TypeOK /\ KindInv
  BY DEF StoreInv, TypeOK
<1>1. CASE Stays(x)
  BY <1>1 DEF Stays, Writer, Publishing, SameRequest
<1>2. CASE Emit(x)
  BY <1>0, <1>2 DEF Emit, SameRequest, Task
<1>3. CASE Record(x)
  <2> DEFINE u == [task[x] EXCEPT !.pc = "deliver", !.doc = Nil, !.seen = {}]
  <2>1. /\ u.pc = "deliver" /\ u.kind = task[x].kind /\ u.device = task[x].device
        /\ u.version = task[x].version /\ u.props = task[x].props
    BY <1>0 DEF Task
  <2>2. task' = [task EXCEPT ![x] = u]
    BY <1>3 DEF Record, Writer
  <2> HIDE DEF u
  <2> QED
    BY <1>0, <2>1, <2>2 DEF SameRequest
<1>4. ASSUME NEW w \in Workers, Start(w) PROVE Stays(x)
  <2>1. task[w].pc = "idle" /\ \A y \in Workers \ {w} : Stays(y)
    BY <1>0, <1>4, StartTask DEF Start, HandleReport, ApplyDesired, ApplyTransactional,
                                 Delete, Begin, TaskStep
  <2> QED
    BY <2>1 DEF Writer, Publishing
<1>5. ASSUME NEW w \in Workers, Step(w), ~Stays(x) PROVE Emit(x) \/ Record(x)
  <2>1. x = w
    BY <1>0, <1>5, StepTask DEF TaskStep
  <2> QED
    BY <1>5, <2>1 DEF Writer, Publishing, Step, AllocTransaction, CommitDesired, CommitReport,
           DesiredOnTombstone, DiscardReport, ReportOnTombstone, Deliver,
           DeliverAndMark, RereadVersion, Restore, MarkBatchPartial
<1>6. CASE UNCHANGED vars \/ GCTombstones
  BY <1>1, <1>6 DEF vars, GCTombstones, Stays
<1> QED
  BY <1>1, <1>2, <1>3, <1>4, <1>5, <1>6 DEF Next

\* A worker that delivers a desired write has published it, unless its device
\* was deleted before the write was committed.
LEMMA DeliverBefore ==
  ASSUME StoreInv, [Next]_vars, NEW x \in Workers, task'[x].pc = "deliver"
  PROVE  /\ SameRequest(x) /\ task[x].device \in Devices
         /\ \/ Publishing(x) \/ task[x].pc = "deliver"
            \/ task[x].device \in tombstones
<1>0. task \in [Workers -> Task] /\ TypeOK /\ KindInv
  BY DEF StoreInv, TypeOK
<1>1. CASE Stays(x)
  BY <1>0, <1>1 DEF Stays, SameRequest, TypeOK
<1>2. CASE Record(x)
  <2> DEFINE u == [task[x] EXCEPT !.pc = "deliver", !.doc = Nil, !.seen = {}]
  <2>1. /\ u.pc = "deliver" /\ u.kind = task[x].kind /\ u.device = task[x].device
        /\ u.version = task[x].version /\ u.props = task[x].props
    BY <1>0 DEF Task
  <2>2. task' = [task EXCEPT ![x] = u]
    BY <1>0, <1>2, IdleType DEF Record
  <2> HIDE DEF u
  <2>3. task[x].device \in Devices
    BY <1>0, <1>2, BusyWorker DEF Record
  <2> QED
    BY <1>0, <1>2, <2>1, <2>2, <2>3 DEF SameRequest, Record, Publishing
<1>3. CASE DesiredOnTombstone(x)
  BY <1>0, <1>3, BusyWorker DEF DesiredOnTombstone, SameRequest, Task
<1>4. ASSUME NEW w \in Workers, Start(w), ~Stays(x) PROVE FALSE
  <2>1. x = w
    BY <1>0, <1>4, StartTask DEF TaskStep
  <2>2. task'[w].pc \in {"commit", "alloc", "emit"}
    <3>1. \A t : Begin(w, t) => task'[w] = t
      BY <1>0 DEF Begin
    <3>2. ASSUME NEW d \in Devices, NEW base \in ClaimedBases, NEW keys \in SUBSET Keys,
                 HandleReport(w, d, base, keys)
          PROVE  task'[w].pc \in {"commit", "alloc", "emit"}
      BY <3>1, <3>2 DEF HandleReport, Idle
    <3>3. ASSUME NEW d \in Devices, NEW kind \in {"desired", "batch"}, NEW empty \in BOOLEAN,
                 ApplyDesired(w, d, kind, empty)
          PROVE  task'[w].pc \in {"commit", "alloc", "emit"}
      BY <3>1, <3>3 DEF ApplyDesired, Idle
    <3>4. ASSUME NEW d \in Devices, ApplyTransactional(w, d) \/ Delete(w, d)
          PROVE  task'[w].pc \in {"commit", "alloc", "emit"}
      BY <3>1, <3>4 DEF ApplyTransactional, Delete, Idle
    <3> QED
      BY <1>4, <3>2, <3>3, <3>4 DEF Start
  <2> QED
    BY <2>1, <2>2
<1>5. ASSUME NEW w \in Workers, Step(w), ~Stays(x)
      PROVE  Record(x) \/ DesiredOnTombstone(x)
  <2>1. x = w /\ Idle.pc = "idle"
    BY <1>0, <1>5, StepTask, IdleType DEF TaskStep
  <2>2. ASSUME Commit(x, documents'[task[x].device]) PROVE FALSE
    BY <1>0, <2>2 DEF Commit, Idle
  <2>3. ~CommitDesired(x) /\ ~CommitReport(x)
    <3>1. ASSUME NEW merged, Commit(x, merged) PROVE FALSE
      <4>1. task'[x].pc = "emit"
        BY <1>0, <3>1 DEF Commit, Idle
      <4> QED
        BY <4>1
    <3> QED
      BY <3>1 DEF CommitDesired, CommitReport
  <2>4. /\ ~AllocTransaction(x) /\ ~Emit(x) /\ ~RereadVersion(x)
        /\ ~DiscardReport(x) /\ ~ReportOnTombstone(x)
    BY <1>0, <2>1 DEF AllocTransaction, Emit, RereadVersion, DiscardReport,
                      ReportOnTombstone, Task
  <2>5. ~Restore(x) /\ ~MarkBatchPartial(x)
    BY <1>0, <2>1 DEF Restore, MarkBatchPartial, WriteInPlace
  <2>6. ASSUME DeliverAndMark(x) \/ \E delivered \in BOOLEAN : Deliver(x, delivered)
        PROVE  FALSE
    BY <1>0, <2>1, <2>6 DEF Deliver, DeliverAndMark, Task
  <2> QED
    BY <1>5, <2>1, <2>3, <2>4, <2>5, <2>6 DEF Step
<1>6. CASE UNCHANGED vars \/ GCTombstones
  BY <1>1, <1>6 DEF vars, GCTombstones, Stays
<1> QED
  BY <1>1, <1>2, <1>3, <1>4, <1>5, <1>6 DEF Next

\* The event of a desired write is its operation.
LEMMA WrittenEvent ==
  ASSUME TypeOK, SeenInv, NEW w \in Workers, NEW d \in Devices, NEW e \in Event, NEW s,
         AppendsEvent(w, d, e, s)
  PROVE  /\ e.type = "desired" <=> task[w].kind \in DesiredKind
         /\ Writer(w) => EventOp(e) = DocOp(task[w].doc)
<1>1. PICK read \in Readings(task[w]) : e = ChangeEvent(task[w], read)
  BY DEF AppendsEvent
<1>2. task[w].doc \in Document /\ Publishing(w)
  BY BusyWorker DEF AppendsEvent, Publishing
<1>3. read.event \in task[w].seen /\ read.desired \in task[w].seen
  BY DEF Readings
<1>4. e.snapshot.desired = read.desired.desired /\ e.version = read.event.version
  BY <1>1, <1>2 DEF ChangeEvent, Document
<1>5. e.type = EventType(task[w].kind)
  BY <1>1 DEF ChangeEvent
<1> QED
  BY <1>3, <1>4, <1>5 DEF SeenInv, EventOp, DocOp, EventType, DesiredKind


-----------------------------------------------------------------------------
(* What the store holds of a shadow that lives is not newer than it.       *)

LEMMA NextStoreCurrent ==
  ASSUME HistoryBase, PlainInv', SeenInv, HistoryShape, [Next]_vars,
         StoreInv', NEW d \in Devices, d \notin tombstones, Moves(d), StoreCurrent(d)
  PROVE  StoreCurrent(d)'
<1> USE DEF HistoryBase, StoreInv
<1>0. /\ Latest(d) \in Nat /\ Latest(d)' \in Nat /\ Latest(d) <= Latest(d)'
      /\ documents'[d] \in Document /\ Plain(documents'[d])
  BY LatestGrows DEF TypeOK, PlainInv
<1>1. ASSUME NEW i \in DOMAIN history'[d], history'[d][i].type = "desired"
      PROVE  Fresh(EventOp(history'[d][i]), documents'[d])
  <2>1. CASE history'[d] = history[d]
    <3>1. history[d][i] \in Event
      BY <1>1, <2>1 DEF TypeOK
    <3>2. EventOp(history[d][i]).version \in Nat
      BY <3>1 DEF EventOp, Event
    <3>3. OpOK(EventOp(history[d][i]), d)
      BY <1>1, <2>1 DEF StoreCurrent
    <3>4. PICK op : op = EventOp(history[d][i])
      OBVIOUS
    <3>5. Fresh(op, documents'[d])
      BY <3>2, <3>3, <3>4, OpKept DEF OpOK
    <3> QED
      BY <2>1, <3>4, <3>5
  <2>2. ASSUME NEW w \in Workers, NEW e \in Event, NEW s \in {0, 1}, AppendsEvent(w, d, e, s)
        PROVE  Fresh(EventOp(history'[d][i]), documents'[d])
    <3>1. /\ Appended(history[d], e, history'[d], s) /\ task[w].device = d
          /\ Publishing(w) /\ history[d] \in Seq(Event)
      BY <2>2 DEF AppendsEvent, TypeOK
    <3>2. PICK log : log = history'[d]
      OBVIOUS
    <3>3. /\ log \in Seq(Event) /\ Len(log) \in Nat /\ i \in 1 .. Len(log)
          /\ log[Len(log)] = e /\ log[i] \in Event
      BY <1>1, <3>1, <3>2 DEF Appended
    <3>4. PICK op : op = EventOp(log[i])
      OBVIOUS
    <3>5. op.version \in Nat
      BY <3>3, <3>4 DEF EventOp, Event
    <3>6. OpOK(op, d)
      <4>1. CASE i = Len(log)
        <5>1. task[w].kind \in DesiredKind /\ EventOp(e) = DocOp(task[w].doc)
          BY <1>1, <2>2, <3>1, <3>2, <3>3, <4>1, WrittenEvent DEF Writer
        <5> QED
          BY <3>1, <3>3, <3>4, <4>1, <5>1 DEF StoreCurrent
      <4>2. CASE i # Len(log)
        <5>1. i \in 1 .. Len(log) - 1 /\ Appended(history[d], e, log, s)
          BY <3>1, <3>2, <3>3, <4>2
        <5>2. PICK old \in Seq(Event) : old = history[d]
          BY <3>1
        <5>3. i + s \in DOMAIN old /\ log[i] = old[i + s]
          <6>1. Appended(old, e, log, s)
            BY <5>1, <5>2
          <6> QED
            BY <5>1, <6>1, KeptEvent
        <5> QED
          BY <1>1, <3>2, <3>4, <5>2, <5>3 DEF StoreCurrent
      <4> QED
        BY <4>1, <4>2
    <3>7. Fresh(op, documents'[d])
      BY <3>5, <3>6, OpKept DEF OpOK
    <3> QED
      BY <3>2, <3>4, <3>7
  <2> QED
    BY <2>1, <2>2, HistoryGrows
<1>2. ASSUME NEW x \in Workers, task'[x].device = d, task'[x].kind \in DesiredKind,
             Publishing(x)'
      PROVE  /\ Fresh(OwnOp(task'[x]), documents'[d])
             /\ Fresh(DocOp(task'[x].doc), documents'[d])
  <2> DEFINE Good == /\ Fresh(OwnOp(task'[x]), documents'[d])
                     /\ Fresh(DocOp(task'[x].doc), documents'[d])
  <2>0. Publishing(x) => task[x].doc.version \in Nat
    <3>1. Publishing(x) => task[x].doc \in Document
      BY BusyWorker DEF Publishing
    <3> QED
      BY <3>1 DEF Document
  <2>1. Fresh(DocOp(documents'[d]), documents'[d])
    BY <1>0, PlainOp
  <2>2. ASSUME Publishing(x), SameRequest(x)
        PROVE  Fresh(OwnOp(task'[x]), documents'[d]) /\ OpOK(DocOp(task[x].doc), d)
    <3>1. OpOK(OwnOp(task[x]), d) /\ OpOK(DocOp(task[x].doc), d)
      BY <1>2, <2>2 DEF StoreCurrent, SameRequest
    <3> QED
      BY <2>2, <3>1, OwnOpKept DEF Publishing
  <2>3. CASE Carries(x)
    <3>1. Publishing(x) /\ SameRequest(x) /\ task'[x].doc = task[x].doc
      BY <1>2, <2>3 DEF Carries, Publishing
    <3>2. PICK op : op = DocOp(task[x].doc)
      OBVIOUS
    <3>3. op.version \in Nat /\ OpOK(op, d)
      BY <2>0, <2>2, <3>1, <3>2 DEF DocOp
    <3>4. Fresh(op, documents'[d])
      BY <3>3, OpKept DEF OpOK
    <3> QED
      BY <2>2, <3>1, <3>2, <3>4
  <2>4. ASSUME NEW w \in Workers, x # w, Rewrites(w), ~Carries(x) PROVE Good
    <3>1. /\ Shares(x, documents'[task[w].device]) /\ task[x].device = task[w].device
      BY <1>2, <2>4 DEF Rewrites, Publishing
    <3>2. Publishing(x) /\ SameRequest(x) /\ task'[x].doc = documents'[d]
      BY <1>2, <3>1 DEF Shares, SameRequest
    <3> QED
      BY <2>1, <2>2, <3>2
  <2>5. ASSUME Commits(x) PROVE Good
    <3>1. /\ task'[x].doc = documents'[d] /\ OwnOp(task'[x]) = OwnOp(task[x])
          /\ documents'[d].version >= task[x].version /\ Holds(x, d)
          /\ task[x].version \in Nat
      BY <1>2, <2>5, BusyWorker DEF Commits, SameRequest, OwnOp, Holds
    <3>2. /\ OwnOp(task[x]).version = task[x].version
          /\ OwnOp(task[x]).props = task[x].props
      BY DEF OwnOp
    <3>3. task[x].version # Latest(d)
      BY <3>1 DEF VersionInv, DeviceOK, Latest
    <3>4. task[x].version <= documents'[d].desiredVersion
      BY <1>0, <3>1 DEF Plain, Document
    <3>5. CASE documents'[d].desiredVersion = documents[d].desiredVersion
      BY <2>1, <3>1, <3>2, <3>3, <3>4, <3>5 DEF Fresh, Latest
    <3>6. ASSUME NEW w \in Workers, Writes(w, d) PROVE Good
      <4>1. x = w
        BY <1>2, <2>5, <3>6 DEF Writes, Commits, OthersCarry, Carries, Publishing
      <4> QED
        BY <2>1, <3>1, <3>2, <3>4, <3>6, <4>1 DEF Fresh, Writes
    <3> QED
      BY <3>5, <3>6 DEF Moves
  <2>6. ASSUME Discards(x) \/ Records(x) \/ Rewrites(x) \/ \E e \in Devices : Deletes(x, e)
        PROVE  FALSE
    BY <1>2, <2>6 DEF Discards, Records, Rewrites, Deletes, Publishing, DesiredKind
  <2>7. Carries(x) => Good
    BY <2>3
  <2> HIDE DEF Good
  <2>8. Good
    BY <2>4, <2>5, <2>6, <2>7
       DEF HistoryShape, Quiet, Commits, Discards, Records, Deletes, OthersCarry
  <2> QED
    BY <2>8 DEF Good
<1>3. ASSUME NEW x \in Workers, task'[x].device = d, task'[x].kind \in DesiredKind,
             task'[x].pc = "deliver"
      PROVE  Fresh(OwnOp(task'[x]), documents'[d])
  <2>1. SameRequest(x) /\ (Publishing(x) \/ task[x].pc = "deliver")
    BY <1>3, DeliverBefore DEF SameRequest
  <2>2. OpOK(OwnOp(task[x]), d) /\ task[x].pc # "idle"
    BY <1>3, <2>1 DEF StoreCurrent, SameRequest, Publishing
  <2> QED
    BY <2>1, <2>2, OwnOpKept
<1> QED
  BY <1>1, <1>2, <1>3 DEF StoreCurrent, Publishing, Latest, OpOK, EventOp, DocOp, OwnOp



-----------------------------------------------------------------------------
(***************************************************************************)
(* A resume can read the last write of a shadow from the history, or else  *)
(* the worker that committed it has yet to append its event, and has still *)
(* to deliver the write after that.                                        *)
(***************************************************************************)
Owner(x, d) ==
  /\ task[x].device = d /\ task[x].kind \in DesiredKind
  /\ task[x].version = Latest(d)

LatestListed(d) ==
  \E i \in DOMAIN history[d] :
    history[d][i].type = "desired" /\ history[d][i].version = Latest(d)

DesiredKnown(d) ==
  \/ LatestListed(d)
  \/ \E x \in Workers : /\ Owner(x, d) /\ Publishing(x)
                        /\ task[x].doc.version = Latest(d)

Complete(d) == Latest(d) # 0 /\ Len(history[d]) < HistoryCap

KnownInv == \A d \in Devices : Complete(d) => DesiredKnown(d)

\* An append that evicts nothing moves no event.
LEMMA KeptListed ==
  ASSUME TypeOK, NEW d \in Devices, NEW e \in Event, NEW s,
         Appended(history[d], e, history'[d], s), Len(history'[d]) < HistoryCap
  PROVE  /\ Len(history[d]) < HistoryCap
         /\ \A i \in DOMAIN history[d] :
              i \in DOMAIN history'[d] /\ history'[d][i] = history[d][i]
         /\ \E n \in DOMAIN history'[d] : history'[d][n] = e
<1>1. PICK new, old : new = history'[d] /\ old = history[d]
  OBVIOUS
<1>2. HistoryCap \in Nat /\ old \in Seq(Event) /\ Len(old) \in Nat
  BY <1>1, StoreAssumption DEF TypeOK
<1>3. /\ new \in Seq(Event) /\ Len(new) \in 1 .. HistoryCap
      /\ s \in {0, 1} /\ Len(new) + s = Len(old) + 1 /\ (s = 1 => Len(new) = HistoryCap)
      /\ new[Len(new)] = e /\ \A k \in 1 .. Len(new) - 1 : new[k] = old[k + s]
  BY <1>1 DEF Appended
<1>4. PICK n \in Nat : n = Len(new) /\ n >= 1 /\ n < HistoryCap
  BY <1>1, <1>2, <1>3
<1>5. s = 0 /\ Len(old) = n - 1
  BY <1>2, <1>3, <1>4
<1>6. \A k \in 1 .. n - 1 : k \in 1 .. n /\ k + 0 = k /\ new[k] = old[k]
  BY <1>3, <1>4, <1>5
<1>7. DOMAIN new = 1 .. n /\ DOMAIN old = 1 .. n - 1 /\ n \in 1 .. n /\ n - 1 < HistoryCap
  BY <1>2, <1>3, <1>4, <1>5
<1> QED
  BY <1>1, <1>3, <1>4, <1>5, <1>6, <1>7

\* What a worker with a desired write holds after a step that commits nothing.
LEMMA WriterKept ==
  ASSUME HistoryBase, PlainInv', SeenInv, HistoryShape, [Next]_vars, NEW d \in Devices,
         Latest(d)' = Latest(d), Len(history'[d]) < HistoryCap,
         NEW x \in Workers, Owner(x, d), Publishing(x), task[x].doc.version = Latest(d)
  PROVE  DesiredKnown(d)'
<1> USE DEF HistoryBase, StoreInv
<1>1. CASE Records(x)
  <2>1. PICK e \in Event, s \in {0, 1} : AppendsEvent(x, d, e, s)
    BY <1>1, RecordsAppend DEF Owner
  <2>2. e.type = "desired" /\ e.version = Latest(d)
    <3>1. Writer(x) /\ task[x].kind \in DesiredKind
      BY DEF Owner, Writer
    <3>2. e.type = "desired" /\ EventOp(e) = DocOp(task[x].doc)
      BY <2>1, <3>1, WrittenEvent
    <3> QED
      BY <3>2 DEF EventOp, DocOp
  <2>3. \E n \in DOMAIN history'[d] : history'[d][n] = e
    BY <2>1, KeptListed DEF AppendsEvent
  <2> QED
    BY <2>2, <2>3 DEF DesiredKnown, LatestListed
<1>2. CASE Publishing(x)' /\ Carries(x)
  BY <1>2 DEF Carries, Publishing, SameRequest, Owner, DesiredKnown
<1>3. CASE Publishing(x)' /\ Shares(x, documents'[d])
  <2>1. Plain(documents'[d])
    BY DEF PlainInv
  <2>2. task'[x].doc.version = documents'[d].desiredVersion
    BY <1>3, <2>1 DEF Shares, Plain
  <2> QED
    BY <1>3, <2>2 DEF Shares, SameRequest, Owner, DesiredKnown, Latest
<1> QED
  BY <1>1, <1>2, <1>3, StillPublishing DEF Owner

LEMMA NextKnown ==
  ASSUME HistoryBase, StoreInv', PlainInv', SeenInv, HistoryShape, [Next]_vars,
         NEW d \in Devices, Moves(d), Complete(d) => DesiredKnown(d), Complete(d)'
  PROVE  DesiredKnown(d)'
<1> USE DEF HistoryBase, StoreInv
<1>1. ASSUME NEW w \in Workers, Writes(w, d) PROVE DesiredKnown(d)'
  <2>1. /\ task'[w].pc = "emit" /\ SameRequest(w) /\ task'[w].doc = documents'[d]
        /\ task[w].device = d /\ task[w].kind \in DesiredKind
        /\ documents'[d].desiredVersion = task[w].version
    BY <1>1 DEF Writes, Commits
  <2>2. Plain(documents'[d])
    BY DEF PlainInv
  <2>3. task'[w].doc.version = documents'[d].desiredVersion
    BY <2>1, <2>2 DEF Plain
  <2> QED
    BY <2>1, <2>3 DEF SameRequest, Publishing, Owner, DesiredKnown, Latest
<1>2. CASE Latest(d)' = Latest(d)
  <2>1. CASE history'[d] = history[d]
    BY <1>2, <2>1, WriterKept DEF Complete, DesiredKnown, LatestListed
  <2>2. ASSUME NEW w \in Workers, NEW e \in Event, NEW s \in {0, 1}, AppendsEvent(w, d, e, s)
        PROVE  DesiredKnown(d)'
    <3>1. /\ Len(history[d]) < HistoryCap
          /\ \A i \in DOMAIN history[d] :
               i \in DOMAIN history'[d] /\ history'[d][i] = history[d][i]
      BY <2>2, KeptListed DEF AppendsEvent, Complete
    <3>2. CASE LatestListed(d)
      BY <1>2, <3>1, <3>2 DEF DesiredKnown, LatestListed
    <3>3. CASE ~LatestListed(d)
      BY <1>2, <3>1, <3>3, WriterKept DEF Complete, DesiredKnown
    <3> QED
      BY <3>2, <3>3
  <2> QED
    BY <2>1, <2>2, HistoryGrows
<1> QED
  BY <1>1, <1>2 DEF Moves, Latest


-----------------------------------------------------------------------------
(* The calls of sync.Service, one step at a time.                          *)

Only(w) == \A x \in Workers \ {w} : push'[x] = push[x]

\* w's call goes on for the same device with the same operations to replay.
GoesOn(w) ==
  /\ push'[w].device = push[w].device /\ push'[w].ops = push[w].ops
  /\ Only(w) /\ UNCHANGED deviceVars

LEMMA DeliverOnlineCall ==
  ASSUME PushesOK, NEW w \in Workers, DeliverOnline(w)
  PROVE  /\ push'[w].pc = "compare" /\ push'[w].device = Target(w)
         /\ push'[w].op = NextOp(w) /\ push'[w].ops = push[w].ops
         /\ Only(w) /\ UNCHANGED <<vars, deviceVars>>
<1>1. push \in [Workers -> Push] /\ push[w] \in Push
  BY DEF PushesOK
<1>2. PICK d, op : d = Target(w) /\ op = NextOp(w)
  OBVIOUS
<1>3. push' = [push EXCEPT ![w].pc = "compare", ![w].device = d, ![w].op = op]
  BY <1>2 DEF DeliverOnline
<1>4. /\ push'[w].pc = "compare" /\ push'[w].device = d /\ push'[w].op = op
      /\ push'[w].ops = push[w].ops /\ Only(w)
  BY <1>1, <1>3 DEF Push, Only
<1> QED
  BY <1>2, <1>4 DEF DeliverOnline

LEMMA ResumeCalls ==
  ASSUME PushesOK, NEW w \in Workers
  PROVE  /\ \A d \in Devices : Reconnect(w, d) =>
              /\ push'[w].pc = "start" /\ push'[w].device = d /\ push'[w].ops = <<>>
              /\ Only(w) /\ UNCHANGED vars
         /\ ReadWatermark(w) =>
              /\ push[w].pc = "start" /\ push'[w].pc = "list"
              /\ push'[w].start = lastDelivered[push[w].device]
              /\ GoesOn(w) /\ UNCHANGED vars
         /\ List(w) =>
              /\ push[w].pc = "list" /\ push'[w].pc = "replay"
              /\ push'[w].device = push[w].device
              /\ push'[w].ops = ListDesiredSince(push[w].device, push[w].start)
              /\ Only(w) /\ UNCHANGED <<vars, deviceVars>>
<1>1. push \in [Workers -> Push] /\ push[w] \in Push /\ NoPush \in Push
  BY NoPushType DEF PushesOK, PushShape
<1>2. ASSUME NEW d \in Devices, Reconnect(w, d)
      PROVE  /\ push'[w].pc = "start" /\ push'[w].device = d /\ push'[w].ops = <<>>
             /\ Only(w) /\ UNCHANGED vars
  <2> DEFINE p == [NoPush EXCEPT !.pc = "start", !.device = d]
  <2>1. p.pc = "start" /\ p.device = d /\ p.ops = <<>>
    BY DEF NoPush
  <2>2. push' = [push EXCEPT ![w] = p] /\ UNCHANGED vars
    BY <1>2 DEF Reconnect
  <2> HIDE DEF p
  <2> QED
    BY <1>1, <2>1, <2>2 DEF Only
<1>3. ASSUME ReadWatermark(w)
      PROVE  /\ push[w].pc = "start" /\ push'[w].pc = "list"
             /\ push'[w].start = lastDelivered[push[w].device]
             /\ GoesOn(w) /\ UNCHANGED vars
  <2>1. PICK start : start = lastDelivered[push[w].device]
    OBVIOUS
  <2>2. push' = [push EXCEPT ![w].pc = "list", ![w].start = start]
    BY <1>3, <2>1 DEF ReadWatermark, ResumeFrom
  <2>3. /\ push'[w].pc = "list" /\ push'[w].start = start /\ Only(w)
        /\ push'[w].device = push[w].device /\ push'[w].ops = push[w].ops
    BY <1>1, <2>2 DEF Push, Only
  <2> QED
    BY <1>3, <2>1, <2>3 DEF ReadWatermark, GoesOn
<1>4. ASSUME List(w)
      PROVE  /\ push[w].pc = "list" /\ push'[w].pc = "replay"
             /\ push'[w].device = push[w].device
             /\ push'[w].ops = ListDesiredSince(push[w].device, push[w].start)
             /\ Only(w) /\ UNCHANGED <<vars, deviceVars>>
  <2>1. PICK ops : ops = ListDesiredSince(push[w].device, push[w].start)
    OBVIOUS
  <2>2. push' = [push EXCEPT ![w].pc = "replay", ![w].start = 0, ![w].ops = ops]
    BY <1>4, <2>1 DEF List
  <2>3. /\ push'[w].pc = "replay" /\ push'[w].ops = ops /\ Only(w)
        /\ push'[w].device = push[w].device
    BY <1>1, <2>2 DEF Push, Only
  <2> QED
    BY <1>4, <2>1, <2>3 DEF List
<1> QED
  BY <1>2, <1>3, <1>4

\* The end of a resume, with its reconnect event.
LEMMA PublishCalls ==
  ASSUME PushesOK, NEW w \in Workers
  PROVE  /\ ReplayDone(w) => /\ push[w].pc = "replay" /\ push[w].ops = <<>>
                             /\ push'[w].pc = "version" /\ GoesOn(w) /\ UNCHANGED vars
         /\ ReadVersion(w) => /\ push[w].pc = "version" /\ push'[w].pc = "emit"
                              /\ push'[w].event.type = "reconnect"
                              /\ GoesOn(w) /\ UNCHANGED vars
         /\ PublishEmit(w) => /\ push[w].pc = "emit" /\ push'[w].pc = "record"
                              /\ push'[w].event.type = push[w].event.type
                              /\ GoesOn(w) /\ UNCHANGED task
         /\ PublishRecord(w) => /\ push[w].pc = "record" /\ push'[w] = NoPush
                                /\ Only(w) /\ UNCHANGED <<task, deviceVars>>
<1>1. push \in [Workers -> Push] /\ push[w] \in Push /\ push[w].event \in Event
  BY DEF PushesOK, Push
<1>2. ASSUME ReplayDone(w)
      PROVE  /\ push[w].pc = "replay" /\ push[w].ops = <<>>
             /\ push'[w].pc = "version" /\ GoesOn(w) /\ UNCHANGED vars
  BY <1>1, <1>2 DEF ReplayDone, Push, GoesOn, Only
<1>3. ASSUME NEW pc, NEW event, push' = [push EXCEPT ![w].pc = pc, ![w].event = event]
      PROVE  /\ push'[w].pc = pc /\ push'[w].event = event /\ Only(w)
             /\ push'[w].device = push[w].device /\ push'[w].ops = push[w].ops
  BY <1>1, <1>3 DEF Push, Only
<1>4. ASSUME ReadVersion(w)
      PROVE  /\ push[w].pc = "version" /\ push'[w].pc = "emit"
             /\ push'[w].event.type = "reconnect"
             /\ GoesOn(w) /\ UNCHANGED vars
  <2>1. PICK event : event = [type |-> "reconnect", snapshot |-> Nil,
                              version |-> documents[push[w].device].version]
    OBVIOUS
  <2>2. push' = [push EXCEPT ![w].pc = "emit", ![w].event = event]
    BY <1>4, <2>1 DEF ReadVersion
  <2>3. /\ push'[w].pc = "emit" /\ push'[w].event = event /\ Only(w)
        /\ push'[w].device = push[w].device /\ push'[w].ops = push[w].ops
    BY <1>3, <2>2
  <2> QED
    BY <1>4, <2>1, <2>3 DEF ReadVersion, GoesOn
<1>5. ASSUME PublishEmit(w)
      PROVE  /\ push[w].pc = "emit" /\ push'[w].pc = "record"
             /\ push'[w].event.type = push[w].event.type
             /\ GoesOn(w) /\ UNCHANGED task
  <2>1. PICK event : event = [push[w].event EXCEPT !.snapshot = documents[push[w].device]]
    OBVIOUS
  <2>2. event.type = push[w].event.type
    BY <1>1, <2>1 DEF Event
  <2>3. push' = [push EXCEPT ![w].pc = "record", ![w].event = event]
    BY <1>5, <2>1 DEF PublishEmit
  <2>4. /\ push'[w].pc = "record" /\ push'[w].event = event /\ Only(w)
        /\ push'[w].device = push[w].device /\ push'[w].ops = push[w].ops
    BY <1>3, <2>3
  <2> QED
    BY <1>5, <2>2, <2>4 DEF PublishEmit, GoesOn, deviceVars
<1>6. ASSUME PublishRecord(w)
      PROVE  /\ push[w].pc = "record" /\ push'[w] = NoPush
             /\ Only(w) /\ UNCHANGED <<task, deviceVars>>
  BY <1>1, <1>6 DEF PublishRecord, Only
<1> QED
  BY <1>2, <1>4, <1>5, <1>6

\* How a delivery ends: a request serves on, a resume takes its next operation.
LEMMA AnswerCall ==
  ASSUME PushesOK, NEW w \in Workers, NEW delivered \in BOOLEAN, Answer(w, delivered)
  PROVE  /\ Only(w)
         /\ task[w].pc = "deliver" =>
              /\ push'[w] = NoPush
              /\ Deliver(w, delivered) \/ DeliverAndMark(w)
         /\ task[w].pc # "deliver" =>
              /\ UNCHANGED vars /\ push'[w].device = push[w].device
              /\ push'[w].pc = IF delivered THEN "replay" ELSE "version"
              /\ push'[w].ops = IF delivered THEN Tail(push[w].ops) ELSE <<>>
<1>1. push \in [Workers -> Push] /\ push[w] \in Push
  BY DEF PushesOK
<1>2. CASE task[w].pc = "deliver"
  BY <1>1, <1>2 DEF Answer, Only
<1>3. CASE task[w].pc # "deliver"
  <2>1. PICK pc, ops : /\ pc = IF delivered THEN "replay" ELSE "version"
                       /\ ops = IF delivered THEN Tail(push[w].ops) ELSE <<>>
    OBVIOUS
  <2>2. push' = [push EXCEPT ![w].pc = pc, ![w].op = NoOp, ![w].ops = ops]
    BY <1>3, <2>1 DEF Answer
  <2>3. push'[w].pc = pc /\ push'[w].ops = ops /\ push'[w].device = push[w].device /\ Only(w)
    BY <1>1, <2>2 DEF Push, Only
  <2> QED
    BY <1>3, <2>1, <2>3 DEF Answer
<1> QED
  BY <1>2, <1>3


\* The comparison with the watermark: a newer operation is marked delivered
\* in a step of its own, an older one is delivered without.
LEMMA CompareCall ==
  ASSUME PushesOK, NEW w \in Workers, CompareWatermark(w)
  PROVE  /\ push[w].pc = "compare"
         /\ \/ /\ push'[w].pc = "mark" /\ push'[w].op = push[w].op
               /\ GoesOn(w) /\ UNCHANGED vars
            \/ /\ Received(w) /\ Answer(w, TRUE)
               /\ UNCHANGED <<status, lastDelivered, cache, reconnects>>
<1>1. push \in [Workers -> Push] /\ push[w] \in Push
  BY DEF PushesOK
<1>2. CASE push[w].op.version > lastDelivered[push[w].device]
  <2>1. push' = [push EXCEPT ![w].pc = "mark"] /\ UNCHANGED <<vars, deviceVars>>
    BY <1>2 DEF CompareWatermark, deviceVars
  <2>2. /\ push'[w].pc = "mark" /\ push'[w].op = push[w].op /\ Only(w)
        /\ push'[w].device = push[w].device /\ push'[w].ops = push[w].ops
    BY <1>1, <2>1 DEF Push, Only
  <2> QED
    BY <2>1, <2>2 DEF CompareWatermark, GoesOn
<1>3. CASE ~(push[w].op.version > lastDelivered[push[w].device])
  BY <1>3 DEF CompareWatermark
<1> QED
  BY <1>2, <1>3

\* A step of the store leaves alone every worker that has something to deliver.
LEMMA StoreLeaves ==
  ASSUME TypeOK, KindInv, StoreStep
  PROVE  /\ push' = push /\ UNCHANGED deviceVars /\ Next
         /\ \A x \in Workers : push[x].pc # "none" \/ task[x].pc = "deliver" => Stays(x)
<1>1. ASSUME NEW w \in Workers, push[w].pc = "none",
             Start(w) \/ (task[w].pc # "deliver" /\ Step(w))
      PROVE  \A x \in Workers : push[x].pc # "none" \/ task[x].pc = "deliver" => Stays(x)
  <2>1. \A x \in Workers \ {w} : Stays(x)
    BY <1>1, StartTask, StepTask DEF TaskStep
  <2>2. task[w].pc # "deliver"
    BY <1>1 DEF Start, HandleReport, ApplyDesired, ApplyTransactional, Delete, Begin
  <2> QED
    BY <1>1, <2>1, <2>2
<1>2. ASSUME GCTombstones PROVE \A x \in Workers : Stays(x)
  BY <1>2 DEF GCTombstones, Stays
<1> QED
  BY <1>1, <1>2 DEF StoreStep, Next

(***************************************************************************)
(* What a call delivers: the operation of its worker's own request, or the *)
(* first one that its resume has still to replay.                          *)
(***************************************************************************)
CallOK(p, t) ==
  /\ p.pc \in {"compare", "mark"} =>
       IF t.pc = "deliver"
       THEN /\ p.op = OwnOp(t)
            /\ p.device = t.device
       ELSE p.op = Head(p.ops)
  /\ t.pc = "deliver" => p.pc \in {"none", "compare", "mark"}
  /\ p.pc \in {"emit", "record"} => p.event.type = "reconnect"

CallsInv == \A x \in Workers : CallOK(push[x], task[x])

LEMMA CallsStand ==
  ASSUME CallsInv, push' = push, \A x \in Workers : push[x].pc # "none" => Stays(x)
  PROVE  CallsInv'
<1> SUFFICES ASSUME NEW x \in Workers PROVE CallOK(push[x], task'[x])
  BY DEF CallsInv, CallOK
<1>1. CASE push[x].pc = "none"
  BY <1>1 DEF CallOK
<1>2. CASE Stays(x)
  BY <1>2 DEF CallsInv, CallOK, Stays, OwnOp
<1> QED
  BY <1>1, <1>2

LEMMA CallMoves ==
  ASSUME CallsInv, NEW w \in Workers, Only(w), CallOK(push'[w], task'[w]),
         \A x \in Workers \ {w} : task'[x] = task[x]
  PROVE  CallsInv'
<1> SUFFICES ASSUME NEW x \in Workers PROVE CallOK(push'[x], task'[x])
  BY DEF CallsInv, CallOK
<1> QED
  BY DEF CallsInv, Only

LEMMA NextCalls ==
  ASSUME StoreInv, PushesOK, CallsInv, [SyncNext]_allVars
  PROVE  CallsInv'
<1> USE DEF StoreInv
<1>1. CASE task' = task /\ push' = push
  BY <1>1, CallsStand DEF Stays
<1>2. CASE StoreStep
  BY <1>2, StoreLeaves, CallsStand
<1>3. ASSUME NEW w \in Workers, NEW d \in Devices, Reconnect(w, d) PROVE CallsInv'
  <2>1. push'[w].pc = "start" /\ Only(w) /\ task' = task /\ task[w].pc = "idle"
    BY <1>3, ResumeCalls DEF vars, Reconnect
  <2> QED
    BY <2>1, CallMoves DEF CallOK
<1>4. ASSUME NEW w \in Workers, NEW delivered \in BOOLEAN, Answer(w, delivered)
      PROVE  CallsInv'
  <2>1. Only(w)
    BY <1>4, AnswerCall
  <2>2. CASE task[w].pc = "deliver"
    <3>1. push'[w].pc = "none"
      BY <1>4, <2>2, AnswerCall DEF NoPush
    <3>2. \A x \in Workers \ {w} : task'[x] = task[x]
      BY <1>4, <2>2, AnswerCall DEF Deliver, DeliverAndMark, TypeOK
    <3> QED
      BY <2>1, <3>1, <3>2, CallMoves DEF CallOK
  <2>3. CASE task[w].pc # "deliver"
    <3>1. push'[w].pc \in {"replay", "version"} /\ task' = task
      BY <1>4, <2>3, AnswerCall DEF vars
    <3> QED
      BY <2>1, <2>3, <3>1, CallMoves DEF CallOK
  <2> QED
    BY <2>2, <2>3
<1>5. ASSUME NEW w \in Workers, DeliverOnline(w) PROVE CallsInv'
  <2>1. /\ push'[w].pc = "compare" /\ push'[w].device = Target(w)
        /\ push'[w].op = NextOp(w) /\ push'[w].ops = push[w].ops
        /\ Only(w) /\ task' = task
    BY <1>5, DeliverOnlineCall DEF vars
  <2>2. CallOK(push'[w], task'[w])
    <3>1. task[w].pc = "deliver" => OwnDelivery(w)
      BY <1>5 DEF DeliverOnline, OwnDelivery, Replay, CallsInv, CallOK
    <3>2. task[w].pc # "deliver" => ~OwnDelivery(w)
      BY DEF OwnDelivery
    <3> QED
      BY <2>1, <3>1, <3>2 DEF CallOK, Target, NextOp, OwnOp
  <2> QED
    BY <2>1, <2>2, CallMoves
<1>6. ASSUME NEW w \in Workers, CompareWatermark(w) PROVE CallsInv'
  <2>1. CASE Answer(w, TRUE)
    BY <1>4, <2>1
  <2>2. CASE ~Answer(w, TRUE)
    <3>1. /\ push[w].pc = "compare" /\ push'[w].pc = "mark" /\ push'[w].op = push[w].op
          /\ GoesOn(w) /\ task' = task
      BY <1>6, <2>2, CompareCall DEF vars
    <3> QED
      BY <3>1, CallMoves DEF GoesOn, CallsInv, CallOK
  <2> QED
    BY <2>1, <2>2
<1>7. ASSUME NEW w \in Workers, ReadWatermark(w) \/ List(w) PROVE CallsInv'
  <2>1. /\ push[w].pc \in {"start", "list"} /\ push'[w].pc \in {"list", "replay"}
        /\ Only(w) /\ task' = task
    BY <1>7, ResumeCalls DEF vars, GoesOn
  <2>2. CallOK(push'[w], task'[w])
    BY <2>1 DEF CallsInv, CallOK
  <2> QED
    BY <2>1, <2>2, CallMoves
<1>8. ASSUME NEW w \in Workers,
             ReplayDone(w) \/ ReadVersion(w) \/ PublishEmit(w) \/ PublishRecord(w)
      PROVE  CallsInv'
  <2>1. Only(w) /\ task' = task
    BY <1>8, PublishCalls DEF vars, GoesOn
  <2>2. CallOK(push'[w], task'[w])
    BY <1>8, <2>1, PublishCalls DEF CallsInv, CallOK, NoPush
  <2> QED
    BY <2>1, <2>2, CallMoves
<1>9. ASSUME NEW w \in Workers, DeliverUnreached(w) \/ MarkDelivered(w) PROVE CallsInv'
  BY <1>4, <1>9 DEF DeliverUnreached, MarkDelivered
<1>10. ASSUME NEW d \in Devices, Register(d) \/ Disconnect(d) PROVE task' = task /\ push' = push
  BY <1>10 DEF Register, Disconnect, vars
<1>11. ASSUME UNCHANGED allVars PROVE task' = task /\ push' = push
  BY <1>11 DEF allVars, vars
<1> QED
  BY <1>1, <1>2, <1>3, <1>5, <1>6, <1>7, <1>8, <1>9, <1>10, <1>11 DEF SyncNext


-----------------------------------------------------------------------------
(***************************************************************************)
(* A step of the composition, as the store's variables see it.             *)
(***************************************************************************)
\* Publish appends a reconnect event, which is no event of a desired write.
Reconnects ==
  /\ UNCHANGED <<next, documents, tombstones, task, rolledBack>>
  /\ \A d \in Devices :
       \/ history'[d] = history[d]
       \/ \E e \in Event, s \in {0, 1} :
            e.type = "reconnect" /\ Appended(history[d], e, history'[d], s)

StoreMoves == ([Next]_vars /\ HistoryShape) \/ Reconnects

LEMMA CallTypes == PushesOK => PushInv
<1> SUFFICES ASSUME PushesOK PROVE PushInv
  OBVIOUS
<1>1. push \in [Workers -> Push] /\ \A w \in Workers : PushShape(push[w])
  BY DEF PushesOK
<1>2. ASSUME NEW w \in Workers PROVE PushOK(push[w])
  BY <1>1 DEF PushOK, PushShape, Push
<1> QED
  BY <1>1, <1>2 DEF PushInv

LEMMA PublishReconnects ==
  ASSUME TypeOK, CapInv, PushesOK, CallsInv, NEW w \in Workers,
         PublishEmit(w) \/ PublishRecord(w)
  PROVE  Reconnects
<1>1. CASE PublishEmit(w)
  BY <1>1 DEF PublishEmit, storeVars, Reconnects
<1>2. CASE PublishRecord(w)
  <2> DEFINE d == push[w].device
             e == push[w].event
  <2>1. d \in Devices /\ e \in Event /\ e.type = "reconnect" /\ history[d] \in Seq(Event)
    BY <1>2 DEF PublishRecord, PushesOK, PushShape, Push, CallsInv, CallOK, TypeOK
  <2>2. history' = [history EXCEPT ![d] = Recorded(@, e)]
        /\ UNCHANGED <<next, documents, tombstones, task, rolledBack>>
    BY <1>2 DEF PublishRecord
  <2> HIDE DEF d, e
  <2>3. PICK s \in {0, 1} : Appended(history[d], e, Recorded(history[d], e), s)
    BY <2>1, RecordedShape DEF CapInv
  <2>4. history'[d] = Recorded(history[d], e) /\ \A x \in Devices \ {d} : history'[x] = history[x]
    BY <2>1, <2>2 DEF TypeOK
  <2> QED
    BY <2>1, <2>2, <2>3, <2>4 DEF Reconnects
<1> QED
  BY <1>1, <1>2

LEMMA ReconnectsBase ==
  ASSUME HistoryBase, StoreInv', Reconnects
  PROVE  HistoryBase'
<1>1. HeldInv' /\ OwnInv' /\ IssuedInv'
  BY DEF HistoryBase, Reconnects, HeldInv, OwnInv, OwnedOK, Owns, IssuedInv, Publishing
<1>2. CapInv'
  <2> SUFFICES ASSUME NEW d \in Devices PROVE Len(history'[d]) <= HistoryCap
    BY DEF CapInv
  <2>1. \A n \in 1 .. HistoryCap : n <= HistoryCap
    BY StoreAssumption
  <2> QED
    BY <2>1 DEF HistoryBase, CapInv, Reconnects, Appended
<1> QED
  BY <1>1, <1>2 DEF HistoryBase

LEMMA SyncMoves ==
  ASSUME HistoryBase, PushesOK, CallsInv, [SyncNext]_allVars
  PROVE  HistoryBase' /\ StoreInv /\ StoreInv' /\ StoreMoves
<1>0. StoreInv /\ TypeOK /\ CapInv /\ PushInv
  BY CallTypes DEF HistoryBase, StoreInv
<1>1. CASE [Next]_vars
  BY <1>1, NextBase DEF StoreMoves
<1>2. ASSUME NEW w \in Workers, PublishEmit(w) \/ PublishRecord(w)
      PROVE  HistoryBase' /\ StoreInv' /\ StoreMoves
  <2>1. Publishes
    BY <1>0, <1>2, PublishEmitStep, PublishRecordStep
  <2>2. StoreInv'
    BY <1>0, <2>1, PublishesKeeps
  <2>3. Reconnects
    BY <1>0, <1>2, PublishReconnects
  <2> QED
    BY <2>2, <2>3, ReconnectsBase DEF StoreMoves
<1> QED
  BY <1>0, <1>1, <1>2, SyncActions

\* The store's part of the invariant over all steps.
LEMMA MovesPlain ==
  ASSUME OnlyWrites, HistoryBase, StoreInv, StoreInv', PlainInv, SeenInv, StoreMoves
  PROVE  PlainInv' /\ SeenInv'
<1>1. CASE Reconnects
  BY <1>1 DEF Reconnects, PlainInv, SeenInv, Writer, Publishing
<1>2. CASE [Next]_vars /\ HistoryShape
  BY <1>2, NextPlain, NextSeen DEF HistoryBase
<1> QED
  BY <1>1, <1>2 DEF StoreMoves

\* A shadow that is not deleted by the step.
LEMMA MovesDocument ==
  ASSUME OnlyWrites, StoreInv, StoreInv', PlainInv, StoreMoves,
         NEW d \in Devices, d \notin tombstones'
  PROVE  d \notin tombstones /\ Moves(d)
<1>1. CASE Reconnects
  BY <1>1 DEF Reconnects, Moves
<1>2. CASE [Next]_vars /\ HistoryShape
  <2>1. "gc" \notin Requests
    BY DEF OnlyWrites
  <2>2. tombstones \subseteq tombstones'
    BY <1>2, <2>1, TombstonesStay DEF StoreInv
  <2> QED
    BY <1>2, <2>2, DocumentMoves
<1> QED
  BY <1>1, <1>2 DEF StoreMoves

LEMMA MovesCurrent ==
  ASSUME HistoryBase, StoreInv', PlainInv', SeenInv, StoreMoves,
         NEW d \in Devices, d \notin tombstones, Moves(d), StoreCurrent(d)
  PROVE  StoreCurrent(d)'
<1>1. CASE Reconnects
  <2>1. ASSUME NEW e \in Event, NEW s \in {0, 1}, e.type = "reconnect",
               Appended(history[d], e, history'[d], s),
               NEW i \in DOMAIN history'[d], history'[d][i].type = "desired"
        PROVE  Fresh(EventOp(history'[d][i]), documents'[d])
    <3>1. PICK log, old \in Seq(Event) : log = history'[d] /\ old = history[d]
      BY DEF HistoryBase, StoreInv, TypeOK
    <3>2. Appended(old, e, log, s) /\ Len(log) \in Nat /\ i \in 1 .. Len(log)
          /\ log[Len(log)] = e /\ log[i].type = "desired"
      BY <2>1, <3>1 DEF Appended
    <3>3. i \in 1 .. Len(log) - 1
      BY <2>1, <3>2
    <3>4. i + s \in DOMAIN old /\ log[i] = old[i + s]
      BY <3>2, <3>3, KeptEvent
    <3> QED
      BY <1>1, <2>1, <3>1, <3>4 DEF StoreCurrent, OpOK, Reconnects
  <2>2. ASSUME NEW i \in DOMAIN history'[d], history'[d][i].type = "desired"
        PROVE  Fresh(EventOp(history'[d][i]), documents'[d])
    BY <1>1, <2>1, <2>2 DEF StoreCurrent, OpOK, Reconnects
  <2> QED
    BY <1>1, <2>2 DEF StoreCurrent, Reconnects, Publishing, OpOK, Latest, EventOp, DocOp
<1>2. CASE [Next]_vars /\ HistoryShape
  BY <1>2, NextStoreCurrent
<1> QED
  BY <1>1, <1>2 DEF StoreMoves

LEMMA MovesKnown ==
  ASSUME HistoryBase, StoreInv', PlainInv', SeenInv, StoreMoves,
         NEW d \in Devices, Moves(d), Complete(d) => DesiredKnown(d), Complete(d)'
  PROVE  DesiredKnown(d)'
<1>1. CASE Reconnects
  <2>1. CASE history'[d] = history[d]
    BY <1>1, <2>1 DEF Reconnects, Complete, DesiredKnown, LatestListed, Owner, Latest, Publishing
  <2>2. ASSUME NEW e \in Event, NEW s \in {0, 1}, Appended(history[d], e, history'[d], s)
        PROVE  DesiredKnown(d)'
    <3>1. /\ Len(history[d]) < HistoryCap
          /\ \A i \in DOMAIN history[d] :
               i \in DOMAIN history'[d] /\ history'[d][i] = history[d][i]
      BY <2>2, KeptListed DEF Complete, HistoryBase, StoreInv
    <3> QED
      BY <1>1, <3>1 DEF Reconnects, Complete, DesiredKnown, LatestListed, Owner, Latest,
                        Publishing
  <2> QED
    BY <1>1, <2>1, <2>2 DEF Reconnects
<1>2. CASE [Next]_vars /\ HistoryShape
  BY <1>2, NextKnown
<1> QED
  BY <1>1, <1>2 DEF StoreMoves


-----------------------------------------------------------------------------
(***************************************************************************)
(* Nor is what was sent to a device, or is about to be.                    *)
(***************************************************************************)
DeviceCurrent(d) ==
  /\ lastDelivered[d] <= Latest(d)
  /\ \A op \in received[d] : OpOK(op, d)
  /\ \A x \in Workers : push[x].device = d =>
       \A i \in DOMAIN push[x].ops : OpOK(push[x].ops[i], d)

CurrentInv == \A d \in Devices \ tombstones : StoreCurrent(d) /\ DeviceCurrent(d)

\* The operations a resume lists are those of the newer events, every one.
LEMMA ListedOps ==
  ASSUME TypeOK, NEW d \in Devices, NEW watermark
  PROVE  /\ \A n \in DOMAIN ListDesiredSince(d, watermark) :
              \E i \in DOMAIN history[d] :
                /\ history[d][i].type = "desired"
                /\ ListDesiredSince(d, watermark)[n] = EventOp(history[d][i])
         /\ \A i \in DOMAIN history[d] :
              history[d][i].type = "desired" /\ history[d][i].version > watermark =>
                \E n \in DOMAIN ListDesiredSince(d, watermark) :
                  ListDesiredSince(d, watermark)[n] = EventOp(history[d][i])
<1>1. PICK log \in Seq(Event) : log = history[d]
  BY DEF TypeOK
<1>2. PICK l \in Nat : l = Len(log) /\ DOMAIN log = 1 .. l
  BY <1>1
<1> DEFINE P == {i \in DOMAIN log : log[i].type = "desired" /\ log[i].version > watermark}
           newer == At(log, P)
<1>3. /\ DOMAIN newer = 1 .. Cardinality(P)
      /\ \A n \in DOMAIN newer : \E i \in P : newer[n] = log[i]
  <2>1. P \in SUBSET DOMAIN log
    OBVIOUS
  <2> HIDE DEF P
  <2> QED
    BY <2>1, AtElements
<1>4. ASSUME NEW i \in P PROVE \E n \in DOMAIN newer : newer[n] = log[i]
  <2>1. P \in SUBSET (1 .. l)
    BY <1>2
  <2> HIDE DEF P
  <2>2. /\ Cardinality(UpTo(P, i)) \in 1 .. Cardinality(P)
        /\ At(log, P)[Cardinality(UpTo(P, i))] = log[i]
    BY <2>1, AtRank
  <2> QED
    BY <1>3, <2>2
<1>5. ListDesiredSince(d, watermark) =
        [n \in DOMAIN newer |-> [version |-> newer[n].version,
                                 props   |-> newer[n].snapshot.desired]]
  BY <1>1 DEF ListDesiredSince
<1> HIDE DEF newer
<1>6. \A n \in DOMAIN newer : \E i \in DOMAIN log : log[i].type = "desired" /\ newer[n] = log[i]
  BY <1>3
<1>7. \A i \in DOMAIN log : log[i].type = "desired" /\ log[i].version > watermark =>
        \E n \in DOMAIN newer : newer[n] = log[i]
  BY <1>4
<1> HIDE DEF P
<1>8. /\ DOMAIN ListDesiredSince(d, watermark) = DOMAIN newer
      /\ \A n \in DOMAIN newer : ListDesiredSince(d, watermark)[n] = EventOp(newer[n])
  BY <1>5 DEF EventOp
<1> QED
  BY <1>1, <1>6, <1>7, <1>8

\* What is delivered next.
LEMMA NextOpCurrent ==
  ASSUME TypeOK, KindInv, PushesOK, CallsInv, PlainInv, CurrentInv,
         NEW w \in Workers, push[w].pc \in {"compare", "mark"},
         push[w].device \notin tombstones
  PROVE  /\ push[w].device \in Devices /\ push[w].op \in Op
         /\ OpOK(push[w].op, push[w].device)
<1> DEFINE d == push[w].device
           op == push[w].op
<1>1. push[w] \in Push /\ d \in Devices /\ op \in Op /\ push[w].ops \in Seq(Op)
  BY DEF PushesOK, PushShape, Push
<1>2. StoreCurrent(d) /\ DeviceCurrent(d)
  BY <1>1 DEF CurrentInv
<1>3. CASE task[w].pc = "deliver"
  <2>1. op = OwnOp(task[w]) /\ task[w].device = d
    BY <1>3 DEF CallsInv, CallOK
  <2>2. task[w].kind \in DesiredKind
    BY <1>3 DEF KindInv, KindOK
  <2> QED
    BY <1>1, <1>2, <1>3, <2>1, <2>2 DEF StoreCurrent
<1>4. CASE task[w].pc # "deliver"
  <2>1. op = push[w].ops[1] /\ 1 \in DOMAIN push[w].ops
    <3>1. push[w].ops # <<>> /\ op = Head(push[w].ops)
      BY <1>4 DEF PushesOK, CallsInv, CallOK
    <3> QED
      BY <1>1, <3>1
  <2> QED
    BY <1>1, <1>2, <2>1 DEF DeviceCurrent
<1> QED
  BY <1>3, <1>4

\* What was good for a shadow is good for it after the step.
LEMMA DeviceKept ==
  ASSUME TypeOK, TypeOK', HandlesOK, NEW d \in Devices, Moves(d),
         DeviceCurrent(d), lastDelivered'[d] \in Nat, lastDelivered'[d] <= Latest(d),
         \A op \in received'[d] : op \in received[d] \/ (op \in Op /\ OpOK(op, d)),
         \A x \in Workers : push'[x].device = d =>
           \A i \in DOMAIN push'[x].ops :
             push'[x].ops[i] \in Op /\ OpOK(push'[x].ops[i], d)
  PROVE  DeviceCurrent(d)'
<1>1. lastDelivered'[d] <= Latest(d)'
  BY LatestGrows
<1>2. ASSUME NEW op \in Op, OpOK(op, d) PROVE Fresh(op, documents'[d])
  <2>1. op.version \in Nat
    BY DEF Op
  <2> QED
    BY <1>2, <2>1, OpKept DEF OpOK
<1>3. \A op \in received'[d] : Fresh(op, documents'[d])
  <2>1. \A op \in received[d] : op \in Op
    BY DEF HandlesOK
  <2> QED
    BY <1>2, <2>1 DEF DeviceCurrent
<1>4. ASSUME NEW x \in Workers, push'[x].device = d, NEW i \in DOMAIN push'[x].ops
      PROVE  Fresh(push'[x].ops[i], documents'[d])
  BY <1>2, <1>4
<1> QED
  BY <1>1, <1>3, <1>4 DEF DeviceCurrent, OpOK

\* The operations of a call that goes on, or of one that stands still.
LEMMA OpsKept ==
  ASSUME PushesOK, NEW d \in Devices, DeviceCurrent(d), NEW x \in Workers,
         push[x].device = d
  PROVE  /\ push[x].ops \in Seq(Op)
         /\ \A i \in DOMAIN push[x].ops : push[x].ops[i] \in Op /\ OpOK(push[x].ops[i], d)
         /\ push[x].ops # <<>> =>
              \A i \in DOMAIN Tail(push[x].ops) :
                Tail(push[x].ops)[i] \in Op /\ OpOK(Tail(push[x].ops)[i], d)
<1>1. push[x].ops \in Seq(Op)
  BY DEF PushesOK, Push
<1>2. PICK ops \in Seq(Op) : ops = push[x].ops
  BY <1>1
<1>3. \A i \in DOMAIN ops : ops[i] \in Op /\ OpOK(ops[i], d)
  BY <1>2 DEF DeviceCurrent
<1>4. ASSUME ops # <<>>, NEW i \in DOMAIN Tail(ops)
      PROVE  i + 1 \in DOMAIN ops /\ Tail(ops)[i] = ops[i + 1]
  BY <1>4
<1> QED
  BY <1>1, <1>2, <1>3, <1>4


\* A step in which one call at most changes its operations.
LEMMA CallCurrent ==
  ASSUME TypeOK, TypeOK', PushesOK, HandlesOK, HandlesOK', NEW d \in Devices, Moves(d),
         DeviceCurrent(d), lastDelivered'[d] <= Latest(d),
         \A op \in received'[d] : op \in received[d] \/ (op \in Op /\ OpOK(op, d)),
         push' = push \/ \E w \in Workers :
           /\ Only(w)
           /\ push'[w].device = d =>
                \/ push'[w].device = push[w].device /\ push'[w].ops = push[w].ops
                \/ \A i \in DOMAIN push'[w].ops :
                     push'[w].ops[i] \in Op /\ OpOK(push'[w].ops[i], d)
  PROVE  DeviceCurrent(d)'
<1>1. ASSUME NEW x \in Workers, push'[x].device = d, NEW i \in DOMAIN push'[x].ops
      PROVE  push'[x].ops[i] \in Op /\ OpOK(push'[x].ops[i], d)
  <2>1. CASE push'[x].device = push[x].device /\ push'[x].ops = push[x].ops
    BY <1>1, <2>1, OpsKept
  <2>2. CASE ~(push'[x].device = push[x].device /\ push'[x].ops = push[x].ops)
    BY <1>1, <2>2 DEF Only
  <2> QED
    BY <2>1, <2>2
<1>2. lastDelivered'[d] \in Nat
  BY DEF HandlesOK
<1> QED
  BY <1>1, <1>2, DeviceKept

LEMMA NextDevice ==
  ASSUME HistoryBase, StoreInv, StoreInv', PushesOK, HandlesOK, HandlesOK', PlainInv,
         CallsInv, CurrentInv, [SyncNext]_allVars,
         NEW d \in Devices, d \notin tombstones, Moves(d)
  PROVE  DeviceCurrent(d)'
<1> USE DEF StoreInv
<1>0. /\ StoreCurrent(d) /\ DeviceCurrent(d)
      /\ lastDelivered[d] <= Latest(d)
      /\ \A x \in Workers : push[x] \in Push /\ PushShape(push[x])
  BY DEF CurrentInv, DeviceCurrent, PushesOK
<1>1. CASE push' = push /\ UNCHANGED <<lastDelivered, received>>
  BY <1>0, <1>1, CallCurrent
<1>2. ASSUME NEW w \in Workers, GoesOn(w) PROVE DeviceCurrent(d)'
  <2>1. UNCHANGED <<lastDelivered, received>>
    BY <1>2 DEF GoesOn, deviceVars
  <2> QED
    BY <1>0, <1>2, <2>1, CallCurrent DEF GoesOn
<1>3. ASSUME NEW w \in Workers, Only(w), UNCHANGED <<lastDelivered, received>>,
             push'[w].ops = <<>>
      PROVE  DeviceCurrent(d)'
  BY <1>0, <1>3, CallCurrent
<1>4. ASSUME NEW w \in Workers, NEW delivered \in BOOLEAN, Answer(w, delivered),
             delivered => push[w].pc \in {"compare", "mark"},
             lastDelivered'[d] <= Latest(d),
             \A op \in received'[d] : op \in received[d] \/ (op \in Op /\ OpOK(op, d))
      PROVE  DeviceCurrent(d)'
  <2>1. Only(w)
    BY <1>4, AnswerCall
  <2>2. ASSUME push'[w].device = d, NEW i \in DOMAIN push'[w].ops
        PROVE  push'[w].ops[i] \in Op /\ OpOK(push'[w].ops[i], d)
    <3>1. task[w].pc # "deliver" /\ push[w].device = d
      <4>1. NoPush.ops = <<>>
        BY DEF NoPush
      <4> QED
        BY <1>4, <2>2, <4>1, AnswerCall
    <3>2. CASE delivered
      <4>1. push[w].ops # <<>> /\ push'[w].ops = Tail(push[w].ops)
        BY <1>4, <3>1, <3>2, AnswerCall DEF PushesOK
      <4> QED
        BY <1>0, <2>2, <3>1, <4>1, OpsKept
    <3>3. CASE ~delivered
      BY <1>4, <2>2, <3>1, <3>3, AnswerCall
    <3> QED
      BY <3>2, <3>3
  <2> QED
    BY <1>0, <1>4, <2>1, <2>2, CallCurrent
<1>5. CASE StoreStep
  BY <1>1, <1>5, StoreLeaves DEF deviceVars
<1>6. ASSUME NEW e \in Devices, Register(e) \/ Disconnect(e)
      PROVE  push' = push /\ UNCHANGED <<lastDelivered, received>>
  BY <1>6 DEF Register, Disconnect
<1>7. ASSUME NEW w \in Workers, NEW e \in Devices, Reconnect(w, e) PROVE DeviceCurrent(d)'
  BY <1>3, <1>7, ResumeCalls DEF Reconnect
<1>8. ASSUME NEW w \in Workers, DeliverUnreached(w) PROVE DeviceCurrent(d)'
  BY <1>0, <1>4, <1>8 DEF DeliverUnreached
<1>9. ASSUME NEW w \in Workers, DeliverOnline(w) PROVE DeviceCurrent(d)'
  <2>1. /\ push'[w].device = Target(w) /\ push'[w].ops = push[w].ops /\ Only(w)
        /\ UNCHANGED <<lastDelivered, received>>
    BY <1>9, DeliverOnlineCall DEF deviceVars
  <2>2. CASE OwnDelivery(w)
    <3>1. push[w].ops = <<>>
      BY <1>0, <2>2 DEF OwnDelivery, PushShape, NoPush
    <3> QED
      BY <1>3, <2>1, <3>1
  <2>3. CASE ~OwnDelivery(w)
    <3>1. push'[w].device = push[w].device
      BY <2>1, <2>3 DEF Target
    <3> QED
      BY <1>0, <2>1, <3>1, CallCurrent
  <2> QED
    BY <2>2, <2>3
<1>10. ASSUME NEW w \in Workers, push[w].pc \in {"compare", "mark"}, Received(w)
       PROVE  /\ \A op \in received'[d] : op \in received[d] \/ (op \in Op /\ OpOK(op, d))
              /\ push[w].device = d => OpOK(push[w].op, d) /\ push[w].op \in Op
  <2>1. push[w].device \in Devices /\ received \in [Devices -> SUBSET Op]
    BY <1>0, <1>10 DEF PushShape, HandlesOK
  <2>2. push[w].device = d => push[w].op \in Op /\ OpOK(push[w].op, d)
    BY <1>10, NextOpCurrent
  <2> QED
    BY <1>10, <2>1, <2>2 DEF Received
<1>11. ASSUME NEW w \in Workers, CompareWatermark(w) PROVE DeviceCurrent(d)'
  <2>1. CASE GoesOn(w)
    BY <1>2, <2>1
  <2>2. CASE ~GoesOn(w)
    <3>1. /\ push[w].pc = "compare" /\ Received(w) /\ Answer(w, TRUE)
          /\ lastDelivered' = lastDelivered
      BY <1>11, <2>2, CompareCall
    <3> QED
      BY <1>0, <1>4, <1>10, <3>1
  <2> QED
    BY <2>1, <2>2
<1>12. ASSUME NEW w \in Workers, MarkDelivered(w) PROVE DeviceCurrent(d)'
  <2>1. /\ push[w].pc = "mark" /\ Received(w) /\ Answer(w, TRUE)
        /\ lastDelivered' = [lastDelivered EXCEPT ![push[w].device] = push[w].op.version]
    BY <1>12 DEF MarkDelivered
  <2>2. push[w].device = d => push[w].op.version <= Latest(d)
    BY <1>10, <2>1 DEF OpOK, Fresh, Latest
  <2>3. lastDelivered'[d] <= Latest(d)
    BY <1>0, <2>1, <2>2 DEF HandlesOK
  <2> QED
    BY <1>4, <1>10, <2>1, <2>3
<1>13. ASSUME NEW w \in Workers, ReadWatermark(w) PROVE DeviceCurrent(d)'
  BY <1>2, <1>13, ResumeCalls
<1>14. ASSUME NEW w \in Workers, List(w) PROVE DeviceCurrent(d)'
  <2>1. PICK ops : ops = ListDesiredSince(push[w].device, push[w].start)
    OBVIOUS
  <2>2. /\ push'[w].device = push[w].device /\ push'[w].ops = ops /\ Only(w)
        /\ UNCHANGED <<lastDelivered, received>>
    BY <1>14, <2>1, ResumeCalls DEF deviceVars
  <2>3. ASSUME push[w].device = d, NEW n \in DOMAIN ops
        PROVE  ops[n] \in Op /\ OpOK(ops[n], d)
    <3>1. PICK i \in DOMAIN history[d] : /\ history[d][i].type = "desired"
                                         /\ ops[n] = EventOp(history[d][i])
      BY <2>1, <2>3, ListedOps
    <3>2. ops \in Seq(Op)
      BY <2>1, <2>3, ListedType
    <3> QED
      BY <1>0, <2>3, <3>1, <3>2 DEF StoreCurrent
  <2> QED
    BY <1>0, <2>2, <2>3, CallCurrent
<1>15. ASSUME NEW w \in Workers, ReplayDone(w) \/ ReadVersion(w) \/ PublishEmit(w)
       PROVE  GoesOn(w)
  BY <1>15, PublishCalls
<1>16. ASSUME NEW w \in Workers, PublishRecord(w) PROVE DeviceCurrent(d)'
  <2>1. Only(w) /\ UNCHANGED <<lastDelivered, received>> /\ push'[w].ops = <<>>
    BY <1>16, PublishCalls DEF deviceVars, NoPush
  <2> QED
    BY <1>3, <2>1
<1>17. ASSUME UNCHANGED allVars PROVE push' = push /\ UNCHANGED <<lastDelivered, received>>
  BY <1>17 DEF allVars, deviceVars
<1> QED
  BY <1>1, <1>2, <1>5, <1>6, <1>7, <1>8, <1>9, <1>11, <1>12, <1>13, <1>14, <1>15, <1>16,
     <1>17 DEF SyncNext


-----------------------------------------------------------------------------
(***************************************************************************)
(* The last write of a device that reconnected was received, or its worker *)
(* has still to deliver it, or a resume has still to replay it.            *)
(***************************************************************************)
Delivering(x, d) == Owner(x, d) /\ (Publishing(x) \/ task[x].pc = "deliver")

Replays(p, d) == \E i \in DOMAIN p.ops : p.ops[i].version = Latest(d)

Resuming(x, d) ==
  /\ push[x].device = d /\ task[x].pc # "deliver"
  /\ \/ push[x].pc = "start"
     \/ push[x].pc = "list" /\ push[x].start < Latest(d)
     \/ push[x].pc \in {"replay", "compare", "mark"} /\ Replays(push[x], d)

Got(d) == \E op \in received[d] : op.version = Latest(d)

Covered(d) ==
  \/ Got(d)
  \/ \E x \in Workers : Delivering(x, d)
  \/ \E x \in Workers : Resuming(x, d)

CoverInv == \A d \in Devices : Complete(d) /\ status[d] = "reconnected" => Covered(d)

\* A step of the store leaves the resumes alone, and a write that becomes the
\* last one has its worker to deliver it.
LEMMA StoreCovers ==
  ASSUME HistoryBase, StoreInv, StoreStep, NEW d \in Devices, Moves(d),
         Latest(d)' = Latest(d) => Covered(d)
  PROVE  Covered(d)'
<1> USE DEF StoreInv
<1>0. /\ push' = push /\ UNCHANGED deviceVars /\ [Next]_vars
      /\ \A x \in Workers : push[x].pc # "none" \/ task[x].pc = "deliver" => Stays(x)
  BY StoreLeaves
<1>1. ASSUME NEW w \in Workers, Writes(w, d) PROVE Covered(d)'
  BY <1>1 DEF Writes, Commits, SameRequest, Covered, Delivering, Owner, Publishing, Latest
<1>2. CASE Latest(d)' = Latest(d)
  <2>1. CASE Got(d)
    BY <1>0, <1>2, <2>1 DEF Covered, Got, deviceVars
  <2>2. ASSUME NEW x \in Workers, Delivering(x, d) PROVE Covered(d)'
    <3>1. CASE Publishing(x)
      <4>1. SameRequest(x) /\ task'[x].pc \in {"emit", "record", "deliver"}
        BY <1>0, <2>2, <3>1, WriterGoesOn DEF Delivering, Owner, Writer
      <4> QED
        BY <1>2, <2>2, <4>1 DEF SameRequest, Covered, Delivering, Owner, Publishing
    <3>2. CASE task[x].pc = "deliver"
      BY <1>0, <1>2, <2>2, <3>2 DEF Stays, Covered, Delivering, Owner
    <3> QED
      BY <2>2, <3>1, <3>2 DEF Delivering
  <2>3. ASSUME NEW x \in Workers, Resuming(x, d) PROVE Covered(d)'
    <3>1. Stays(x)
      BY <1>0, <2>3 DEF Resuming
    <3> QED
      BY <1>0, <1>2, <2>3, <3>1 DEF Stays, Covered, Resuming, Replays
  <2> QED
    BY <1>2, <2>1, <2>2, <2>3 DEF Covered
<1> QED
  BY <1>1, <1>2 DEF Moves, Latest

\* A step that changes one call, if it was not what covered the device.
LEMMA OtherCovers ==
  ASSUME NEW w \in Workers, Only(w), NEW d \in Devices, documents' = documents,
         \A x \in Workers \ {w} : task'[x] = task[x], received[d] \subseteq received'[d],
         \/ Got(d)
         \/ \E x \in Workers \ {w} : Delivering(x, d) \/ Resuming(x, d)
         \/ Delivering(w, d)' \/ Resuming(w, d)'
  PROVE  Covered(d)'
<1>1. Latest(d)' = Latest(d)
  BY DEF Latest
<1>2. CASE Got(d)
  BY <1>1, <1>2 DEF Covered, Got
<1>3. ASSUME NEW x \in Workers \ {w}, Delivering(x, d) PROVE Delivering(x, d)'
  BY <1>1, <1>3 DEF Delivering, Owner, Publishing
<1>4. ASSUME NEW x \in Workers \ {w}, Resuming(x, d) PROVE Resuming(x, d)'
  BY <1>1, <1>4 DEF Only, Resuming, Replays
<1> QED
  BY <1>2, <1>3, <1>4 DEF Covered

\* A device is online all the way through the step.
LEMMA AnswerCovers ==
  ASSUME TypeOK, PushesOK, CallsInv, HandlesOK, NEW w \in Workers, NEW d \in Devices,
         push[w].pc \in {"compare", "mark"}, Received(w), Answer(w, TRUE), Covered(d)
  PROVE  Covered(d)'
<1> DEFINE op == push[w].op
<1>0. /\ push[w] \in Push /\ push[w].device \in Devices /\ Only(w)
      /\ received[d] \subseteq received'[d]
      /\ push[w].device = d => op \in received'[d]
  BY AnswerCall DEF PushesOK, PushShape, Received, HandlesOK
<1>1. documents' = documents /\ \A x \in Workers \ {w} : task'[x] = task[x]
  BY AnswerCall DEF Deliver, DeliverAndMark, TypeOK, storeVars, vars
<1>2. ASSUME push[w].device = d, op.version = Latest(d) PROVE Covered(d)'
  BY <1>0, <1>1, <1>2 DEF Covered, Got, Latest
<1>3. CASE Delivering(w, d)
  <2>1. task[w].pc = "deliver"
    BY <1>3 DEF Delivering, Publishing, PushesOK
  <2>2. op.version = Latest(d) /\ push[w].device = d
    <3>1. CallOK(push[w], task[w]) /\ task[w].version = Latest(d) /\ task[w].device = d
      BY <1>3 DEF CallsInv, Delivering, Owner
    <3>2. op = OwnOp(task[w])
      BY <2>1, <3>1 DEF CallOK
    <3>3. op.version = task[w].version
      BY <3>2 DEF OwnOp
    <3> QED
      BY <2>1, <3>1, <3>3 DEF CallOK
  <2> QED
    BY <1>2, <2>2
<1>4. CASE Resuming(w, d)
  <2>1. PICK ops \in Seq(Op) : ops = push[w].ops
    BY <1>0 DEF Push
  <2>2. ops # <<>> /\ op = Head(ops) /\ push[w].device = d /\ task[w].pc # "deliver"
    BY <1>4, <2>1 DEF PushesOK, CallsInv, CallOK, Resuming
  <2>3. PICK i \in DOMAIN ops : ops[i].version = Latest(d)
    BY <1>4, <2>1 DEF Resuming, Replays
  <2>4. CASE i = 1
    BY <1>2, <2>2, <2>3, <2>4
  <2>5. CASE i # 1
    <3>1. i - 1 \in DOMAIN Tail(ops) /\ Tail(ops)[i - 1] = ops[i]
      BY <2>2, <2>3, <2>5
    <3>2. /\ push'[w].pc = "replay" /\ push'[w].ops = Tail(ops) /\ push'[w].device = d
          /\ task'[w].pc # "deliver"
      BY <2>1, <2>2, AnswerCall DEF vars
    <3>3. Resuming(w, d)'
      BY <1>1, <2>3, <3>1, <3>2 DEF Resuming, Replays, Latest
    <3> QED
      BY <1>0, <1>1, <3>3, OtherCovers
  <2> QED
    BY <2>4, <2>5
<1> QED
  BY <1>0, <1>1, <1>3, <1>4, OtherCovers DEF Covered


\* A step of a resume that serves no request.
LEMMA ResumeCovers ==
  ASSUME NEW w \in Workers, Only(w), NEW d \in Devices,
         UNCHANGED <<documents, task, received>>, Covered(d),
         Resuming(w, d) => \/ Got(d) \/ Resuming(w, d)'
                           \/ \E x \in Workers : Delivering(x, d)
  PROVE  Covered(d)'
<1>1. Latest(d)' = Latest(d)
  BY DEF Latest
<1>2. CASE Got(d)
  BY <1>1, <1>2 DEF Covered, Got
<1>3. ASSUME NEW x \in Workers, Delivering(x, d) PROVE Delivering(x, d)'
  BY <1>1, <1>3 DEF Delivering, Owner, Publishing
<1>4. ASSUME NEW x \in Workers \ {w}, Resuming(x, d) PROVE Resuming(x, d)'
  BY <1>1, <1>4 DEF Only, Resuming, Replays
<1> QED
  BY <1>2, <1>3, <1>4 DEF Covered

LEMMA ReadWatermarkCovers ==
  ASSUME WatermarkInv, HandlesOK, PushesOK, NEW d \in Devices, DeviceCurrent(d),
         documents[d] \in Document, Latest(d) # 0, NEW w \in Workers,
         ReadWatermark(w), Covered(d)
  PROVE  Covered(d)'
<1>1. /\ push[w].pc = "start" /\ push'[w].pc = "list" /\ Only(w)
      /\ push'[w].start = lastDelivered[push[w].device]
      /\ push'[w].device = push[w].device
      /\ UNCHANGED <<documents, task, received>>
  BY ResumeCalls DEF vars, GoesOn, deviceVars
<1>2. ASSUME Resuming(w, d) PROVE Got(d) \/ Resuming(w, d)'
  <2>1. /\ push[w].device = d /\ lastDelivered[d] <= Latest(d)
        /\ lastDelivered[d] \in Nat /\ Latest(d) \in Nat
    BY <1>2 DEF Resuming, DeviceCurrent, HandlesOK, Latest, Document
  <2>2. CASE lastDelivered[d] = Latest(d)
    BY <2>2 DEF WatermarkInv, Got
  <2>3. CASE lastDelivered[d] # Latest(d)
    <3>1. lastDelivered[d] < Latest(d)
      BY <2>1, <2>3
    <3> QED
      BY <1>1, <1>2, <2>1, <3>1 DEF Resuming, Latest
  <2> QED
    BY <2>2, <2>3
<1> QED
  BY <1>1, <1>2, ResumeCovers

LEMMA ListCovers ==
  ASSUME TypeOK, PushesOK, NEW d \in Devices, DesiredKnown(d), NEW w \in Workers,
         List(w), Covered(d)
  PROVE  Covered(d)'
<1>1. PICK ops : ops = ListDesiredSince(push[w].device, push[w].start)
  OBVIOUS
<1>2. /\ push[w].pc = "list" /\ push'[w].pc = "replay" /\ Only(w)
      /\ push'[w].ops = ops /\ push'[w].device = push[w].device
      /\ UNCHANGED <<documents, task, received>>
  BY <1>1, ResumeCalls DEF vars, deviceVars
<1>3. ASSUME Resuming(w, d), LatestListed(d) PROVE Resuming(w, d)'
  <2>1. push[w].device = d /\ push[w].start < Latest(d) /\ task[w].pc # "deliver"
    BY <1>2, <1>3 DEF Resuming
  <2>2. PICK i \in DOMAIN history[d] :
          history[d][i].type = "desired" /\ history[d][i].version = Latest(d)
    BY <1>3 DEF LatestListed
  <2>3. push[w].start \in Nat /\ Latest(d) \in Nat
    BY DEF PushesOK, Push, TypeOK, Document, Latest
  <2>4. history[d][i].version > push[w].start
    BY <2>1, <2>2, <2>3
  <2>5. \E n \in DOMAIN ops : ops[n] = EventOp(history[d][i])
    BY <1>1, <2>1, <2>2, <2>4, ListedOps
  <2>6. EventOp(history[d][i]).version = Latest(d)
    BY <2>2 DEF EventOp
  <2> QED
    BY <1>2, <2>1, <2>5, <2>6 DEF Resuming, Replays, Latest
<1>4. ASSUME NEW x \in Workers, Owner(x, d), Publishing(x) PROVE Delivering(x, d)
  BY <1>4 DEF Delivering
<1> QED
  BY <1>2, <1>3, <1>4, ResumeCovers DEF DesiredKnown

LEMMA DeliverCovers ==
  ASSUME TypeOK, PushesOK, CallsInv, HandlesOK, NEW w \in Workers, NEW d \in Devices,
         Covered(d), status[d] = "reconnected",
         \/ DeliverUnreached(w) \/ DeliverOnline(w)
         \/ CompareWatermark(w) \/ MarkDelivered(w)
  PROVE  Covered(d)'
<1>0. push[w] \in Push /\ PushShape(push[w])
  BY DEF PushesOK
<1>1. CASE DeliverUnreached(w)
  <2>1. Target(w) # d /\ Answer(w, FALSE) /\ received' = received
    BY <1>1 DEF DeliverUnreached, Online
  <2>2. Only(w) /\ documents' = documents /\ \A x \in Workers \ {w} : task'[x] = task[x]
    BY <2>1, AnswerCall DEF Deliver, DeliverAndMark, TypeOK, storeVars, vars
  <2>3. ~Delivering(w, d)
    <3>1. SUFFICES ASSUME Delivering(w, d) PROVE FALSE
      OBVIOUS
    <3>2. push[w].pc \in {"none", "replay"}
      BY <1>1 DEF DeliverUnreached, OwnDelivery, Replay
    <3>3. CASE task[w].pc = "deliver"
      <4>1. push[w].pc = "none"
        BY <3>2, <3>3 DEF CallsInv, CallOK
      <4> QED
        BY <2>1, <3>1, <3>3, <4>1 DEF Target, OwnDelivery, Delivering, Owner
    <3>4. CASE task[w].pc # "deliver"
      <4>1. push[w].pc = "replay"
        BY <1>1, <3>4 DEF DeliverUnreached, OwnDelivery, Replay
      <4> QED
        BY <3>1, <3>4, <4>1 DEF Delivering, Publishing, PushesOK
    <3> QED
      BY <3>3, <3>4
  <2>4. ~Resuming(w, d)
    BY <2>1 DEF Resuming, Target, OwnDelivery
  <2> QED
    BY <2>1, <2>2, <2>3, <2>4, OtherCovers DEF Covered
<1>2. CASE DeliverOnline(w)
  <2>1. /\ push'[w].pc = "compare" /\ push'[w].device = Target(w) /\ Only(w)
        /\ push'[w].ops = push[w].ops /\ UNCHANGED <<documents, task, received>>
    BY <1>2, DeliverOnlineCall DEF vars, deviceVars
  <2>2. ASSUME Resuming(w, d) PROVE Resuming(w, d)'
    <3>1. ~OwnDelivery(w) /\ push[w].pc = "replay" /\ push[w].device = d
          /\ Replays(push[w], d) /\ task[w].pc # "deliver"
      BY <1>2, <2>2 DEF Resuming, OwnDelivery, DeliverOnline, Replay
    <3> QED
      BY <2>1, <3>1 DEF Resuming, Replays, Target, Latest
  <2> QED
    BY <2>1, <2>2, ResumeCovers
<1>3. CASE CompareWatermark(w)
  <2>1. push[w].pc = "compare"
    BY <1>3, CompareCall
  <2>2. CASE Received(w) /\ Answer(w, TRUE)
    BY <2>1, <2>2, AnswerCovers
  <2>3. CASE push'[w].pc = "mark" /\ GoesOn(w) /\ UNCHANGED vars
    <3>1. Resuming(w, d) => Resuming(w, d)'
      BY <2>1, <2>3 DEF GoesOn, vars, Resuming, Replays, Latest
    <3>2. Only(w) /\ UNCHANGED <<documents, task, received>>
      BY <2>3 DEF GoesOn, vars, deviceVars
    <3> QED
      BY <3>1, <3>2, ResumeCovers
  <2> QED
    BY <1>3, <2>2, <2>3, CompareCall
<1>4. CASE MarkDelivered(w)
  BY <1>4, AnswerCovers DEF MarkDelivered
<1> QED
  BY <1>1, <1>2, <1>3, <1>4


LEMMA LivesOn ==
  ASSUME StoreInv, NEW d \in Devices, Latest(d) # 0
  PROVE  d \notin tombstones
BY DEF StoreInv, DocumentInv, DocumentOK, TombstoneExcludesDocument, Live, Latest, Nil

\* A history that has not dropped an event had not dropped one before.
LEMMA CompleteBefore ==
  ASSUME HistoryBase, StoreMoves, NEW d \in Devices, Latest(d)' = Latest(d), Complete(d)'
  PROVE  Complete(d)
<1>1. \/ history'[d] = history[d]
      \/ \E e \in Event, s \in {0, 1} : Appended(history[d], e, history'[d], s)
  BY HistoryGrows DEF StoreMoves, Reconnects, HistoryBase, StoreInv, AppendsEvent
<1>2. Len(history'[d]) < HistoryCap /\ Latest(d) # 0
  BY DEF Complete
<1>3. ASSUME NEW e \in Event, NEW s \in {0, 1}, Appended(history[d], e, history'[d], s)
      PROVE  Len(history[d]) < HistoryCap
  BY <1>2, <1>3, KeptListed DEF HistoryBase, StoreInv
<1> QED
  BY <1>1, <1>2, <1>3 DEF Complete

LEMMA NextCover ==
  ASSUME HistoryBase, StoreInv, StoreInv', StoreMoves, PushesOK, HandlesOK, WatermarkInv,
         CallsInv, CurrentInv, KnownInv, CoverInv, [SyncNext]_allVars,
         NEW d \in Devices, d \notin tombstones, Moves(d),
         Complete(d)', status'[d] = "reconnected"
  PROVE  Covered(d)'
<1> USE DEF StoreInv
<1>1. CASE StoreStep
  <2>1. status' = status
    BY <1>1, StoreLeaves DEF deviceVars
  <2>2. Latest(d)' = Latest(d) => Covered(d)
    BY <2>1, CompleteBefore DEF CoverInv
  <2> QED
    BY <1>1, <2>2, StoreCovers
<1>2. ASSUME NEW w \in Workers, Reconnect(w, d) PROVE Covered(d)'
  <2>1. /\ push'[w].pc = "start" /\ push'[w].device = d /\ task' = task
        /\ task[w].pc = "idle"
    BY <1>2, ResumeCalls DEF vars, Reconnect
  <2> QED
    BY <2>1 DEF Covered, Resuming
<1>3. ASSUME status'[d] = status[d], documents' = documents
      PROVE  /\ Covered(d) /\ DesiredKnown(d) /\ DeviceCurrent(d)
             /\ status[d] = "reconnected" /\ Latest(d) # 0 /\ documents[d] \in Document
  <2>1. Latest(d)' = Latest(d)
    BY <1>3 DEF Latest
  <2>2. Complete(d)
    BY <2>1, CompleteBefore
  <2> QED
    BY <1>3, <2>2 DEF Complete, CoverInv, KnownInv, CurrentInv, TypeOK
<1>4. ASSUME UNCHANGED <<documents, task, received>>, push' = push, status'[d] = status[d]
      PROVE  Covered(d)'
  <2>1. Covered(d)
    BY <1>3, <1>4
  <2> QED
    BY <1>4, <2>1 DEF Covered, Got, Delivering, Resuming, Owner, Publishing, Replays, Latest
<1>5. ASSUME NEW e \in Devices, Register(e) \/ Disconnect(e) PROVE Covered(d)'
  <2>1. UNCHANGED <<documents, task, received>> /\ push' = push
    BY <1>5 DEF Register, Disconnect, vars
  <2>2. status'[d] = status[d]
    BY <1>5 DEF Register, Disconnect, HandlesOK
  <2> QED
    BY <1>4, <2>1, <2>2
<1>6. ASSUME NEW w \in Workers, NEW e \in Devices \ {d}, Reconnect(w, e) PROVE Covered(d)'
  <2>1. /\ push'[w].device = e /\ Only(w) /\ UNCHANGED <<documents, task, received>>
        /\ status'[d] = status[d] /\ push[w].pc = "none"
    BY <1>6, ResumeCalls DEF Reconnect, vars, HandlesOK
  <2>2. Covered(d) /\ ~Resuming(w, d)
    BY <1>3, <2>1 DEF Resuming
  <2> QED
    BY <2>1, <2>2, ResumeCovers
<1>7. ASSUME NEW w \in Workers,
             \/ DeliverUnreached(w) \/ DeliverOnline(w)
             \/ CompareWatermark(w) \/ MarkDelivered(w)
      PROVE  Covered(d)'
  <2>1. status' = status
    BY <1>7 DEF DeliverUnreached, DeliverOnline, CompareWatermark, MarkDelivered, deviceVars
  <2>2. documents' = documents
    <3>1. ASSUME NEW delivered \in BOOLEAN, Answer(w, delivered) PROVE documents' = documents
      BY <3>1 DEF Answer, Deliver, DeliverAndMark, storeVars, vars
    <3> QED
      BY <1>7, <3>1
         DEF DeliverUnreached, DeliverOnline, CompareWatermark, MarkDelivered, vars
  <2> QED
    BY <1>3, <1>7, <2>1, <2>2, DeliverCovers
<1>8. ASSUME NEW w \in Workers, ReadWatermark(w) PROVE Covered(d)'
  <2>1. status' = status /\ documents' = documents
    BY <1>8 DEF ReadWatermark, vars, deviceVars
  <2> QED
    BY <1>3, <1>8, <2>1, ReadWatermarkCovers
<1>9. ASSUME NEW w \in Workers, List(w) PROVE Covered(d)'
  <2>1. status' = status /\ documents' = documents
    BY <1>9 DEF List, vars, deviceVars
  <2> QED
    BY <1>3, <1>9, <2>1, ListCovers
<1>10. ASSUME NEW w \in Workers,
              ReplayDone(w) \/ ReadVersion(w) \/ PublishEmit(w) \/ PublishRecord(w)
       PROVE  Covered(d)'
  <2>1. Only(w) /\ UNCHANGED <<task, received, status>>
    BY <1>10, PublishCalls DEF vars, GoesOn, deviceVars
  <2>2. documents' = documents
    BY <1>10 DEF ReplayDone, ReadVersion, PublishEmit, PublishRecord, vars, storeVars
  <2>3. ~Resuming(w, d)
    <3>1. push[w].pc = "replay" => push[w].ops = <<>>
      BY <1>10, PublishCalls
    <3>2. push[w].pc \in {"replay", "version", "emit", "record"}
      BY <1>10, PublishCalls
    <3> QED
      BY <3>1, <3>2 DEF Resuming, Replays
  <2>4. Covered(d)
    BY <1>3, <2>1, <2>2
  <2> QED
    BY <2>1, <2>2, <2>3, <2>4, ResumeCovers
<1>11. CASE UNCHANGED allVars
  BY <1>4, <1>11 DEF allVars, vars, deviceVars
<1> QED
  BY <1>1, <1>2, <1>5, <1>6, <1>7, <1>8, <1>9, <1>10, <1>11 DEF SyncNext

-----------------------------------------------------------------------------
ReconnectInv ==
  /\ HistoryBase /\ PushesOK /\ HandlesOK /\ WatermarkInv
  /\ PlainInv /\ SeenInv /\ CallsInv
  /\ CurrentInv /\ KnownInv /\ CoverInv

LEMMA InitReconnect == SyncInit => ReconnectInv
<1> SUFFICES ASSUME SyncInit PROVE ReconnectInv
  OBVIOUS
<1>1. HistoryBase /\ PushesOK /\ HandlesOK
  <2>1. HistoryBase
    BY InitHistory DEF SyncInit
  <2>2. PushesOK
    BY NoPushType DEF SyncInit, Init, PushesOK, PushShape, NoPush
  <2>3. HandlesOK
    BY SyncAssumption DEF SyncInit, HandlesOK, Status
  <2> QED
    BY <2>1, <2>2, <2>3
<1>2. WatermarkInv
  BY DEF SyncInit, WatermarkInv
<1>3. /\ \A x \in Workers : task[x] = Idle /\ push[x] = NoPush
      /\ \A d \in Devices : /\ documents[d] = Nil /\ history[d] = <<>>
                            /\ lastDelivered[d] = 0 /\ received[d] = {}
  BY DEF SyncInit, Init
<1>4. /\ Idle.pc = "idle" /\ Idle.kind = "none" /\ NoPush.pc = "none" /\ NoPush.ops = <<>>
      /\ Nil.desiredVersion = 0
  BY DEF Idle, NoPush, Nil
<1>5. PlainInv /\ SeenInv /\ CallsInv
  BY <1>3, <1>4, NilPlain DEF PlainInv, PropsOK, SeenInv, Writer, Publishing, CallsInv, CallOK
<1>6. CurrentInv
  BY <1>3, <1>4 DEF CurrentInv, StoreCurrent, DeviceCurrent, DesiredKind, Latest
<1>7. KnownInv /\ CoverInv
  BY <1>3, <1>4 DEF KnownInv, CoverInv, Complete, Latest
<1> QED
  BY <1>1, <1>2, <1>5, <1>6, <1>7 DEF ReconnectInv

LEMMA NextReconnect ==
  ASSUME OnlyWrites, ReconnectInv, [SyncNext]_allVars
  PROVE  ReconnectInv'
<1> USE DEF ReconnectInv
<1>1. HistoryBase' /\ StoreInv /\ StoreInv' /\ StoreMoves
  BY SyncMoves
<1>2. PushesOK' /\ HandlesOK'
  BY <1>1, NextSyncType DEF StoreInv
<1>3. WatermarkInv' /\ CallsInv'
  BY <1>1, NextWatermark, NextCalls
<1>4. PlainInv' /\ SeenInv'
  BY <1>1, MovesPlain
<1>5. CurrentInv'
  <2>1. ASSUME NEW d \in Devices, d \notin tombstones'
        PROVE  StoreCurrent(d)' /\ DeviceCurrent(d)'
    <3>1. d \notin tombstones /\ Moves(d)
      BY <1>1, <2>1, MovesDocument
    <3>2. StoreCurrent(d)
      BY <3>1 DEF CurrentInv
    <3> QED
      BY <1>1, <1>2, <1>4, <3>1, <3>2, MovesCurrent, NextDevice
  <2> QED
    BY <2>1 DEF CurrentInv
<1>6. ASSUME NEW d \in Devices, Complete(d)'
      PROVE  d \notin tombstones /\ Moves(d)
  <2>1. d \notin tombstones'
    BY <1>1, <1>6
       DEF Complete, StoreInv, DocumentInv, DocumentOK, TombstoneExcludesDocument, Live,
           Latest, Nil
  <2> QED
    BY <1>1, <2>1, MovesDocument
<1>7. KnownInv'
  <2>1. ASSUME NEW d \in Devices, Complete(d)' PROVE DesiredKnown(d)'
    BY <1>1, <1>4, <1>6, <2>1, MovesKnown DEF KnownInv
  <2> QED
    BY <2>1 DEF KnownInv
<1>8. CoverInv'
  <2>1. ASSUME NEW d \in Devices, Complete(d)', status'[d] = "reconnected"
        PROVE  Covered(d)'
    BY <1>1, <1>6, <2>1, NextCover
  <2> QED
    BY <2>1 DEF CoverInv
<1> QED
  BY <1>1, <1>2, <1>3, <1>4, <1>5, <1>7, <1>8

\* Where clients write and delete, a device that reconnected and is online was
\* sent the desired section of its shadow as soon as nothing is under way, unless
\* the history had to drop events: whatever raced, no resume filtered the last
\* write away, and a write that no resume could list yet was delivered by the
\* request that committed it (sync.Service.Resume, Store.ListDesiredSince).
THEOREM WritesReachReconnected ==
  ASSUME OnlyWrites
  PROVE  SyncSpec => []ReachedAfterReconnect
<1>1. SyncInit => ReconnectInv
  BY InitReconnect
<1>2. ReconnectInv /\ [SyncNext]_allVars => ReconnectInv'
  BY NextReconnect
<1>3. ReconnectInv => ReachedAfterReconnect
  <2> SUFFICES ASSUME ReconnectInv, NEW d \in Devices, status[d] = "reconnected",
                      ~Busy(d), Len(history[d]) < HistoryCap, documents[d].desired # 0
               PROVE  \E op \in received[d] : op.props = documents[d].desired
    BY DEF ReachedAfterReconnect
  <2>1. StoreInv /\ Plain(documents[d])
    BY DEF ReconnectInv, HistoryBase, PlainInv
  <2>2. Latest(d) # 0 /\ documents[d].desired = Latest(d)
    BY <2>1 DEF Plain, Latest
  <2>3. Covered(d)
    BY <2>2 DEF ReconnectInv, CoverInv, Complete
  <2>4. Got(d)
    BY <2>3 DEF Covered, Delivering, Owner, Resuming, Busy
  <2>5. DeviceCurrent(d)
    BY <2>1, <2>2, LivesOn DEF ReconnectInv, CurrentInv
  <2> QED
    BY <2>2, <2>4, <2>5 DEF Got, DeviceCurrent, OpOK, Fresh, Latest
<1> QED
  BY <1>1, <1>2, <1>3, PTL DEF SyncSpec

=============================================================================
