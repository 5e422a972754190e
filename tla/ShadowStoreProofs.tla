-------------------------- MODULE ShadowStoreProofs --------------------------
(***************************************************************************)
(* Theorems about ShadowStore, for every set of devices and workers, every *)
(* mix of requests, either conflict policy, any claimed bases, any history *)
(* cap and any number of versions.                                         *)
(***************************************************************************)
EXTENDS ShadowStore, SequenceTheorems, TLAPS

-----------------------------------------------------------------------------
(* The operators of Conflict.                                              *)

\* Documents are built from documents: the constructors, the watermark and
\* the two merges stay within the type.
LEMMA NilType == Nil \in Document
  BY DEF Nil, Document, State

LEMMA NewDocumentType ==
  ASSUME NEW obj \in Nat
  PROVE  NewDocument(obj) \in Document
  BY DEF NewDocument, Nil, Document, State

LEMMA MaxVersionType ==
  ASSUME NEW a \in Nat, NEW b \in Nat
  PROVE  /\ MaxVersion(a, b) \in Nat
         /\ MaxVersion(a, b) >= a /\ MaxVersion(a, b) >= b
         /\ MaxVersion(a, b) \in {a, b}
  BY DEF MaxVersion

LEMMA RefreshWatermarkType ==
  ASSUME NEW doc \in Document
  PROVE  /\ RefreshWatermark(doc) \in Document
         /\ RefreshWatermark(doc).version =
              MaxVersion(doc.desiredVersion, doc.reportedVersion)
  BY MaxVersionType DEF RefreshWatermark, Document

\* Every field of a document after a desired write: a stale write changes
\* nothing but the object, any other one only the desired section.
LEMMA MergeDesiredFields ==
  ASSUME NEW doc \in Document, NEW v \in Nat, NEW p \in Nat
  PROVE  LET out == MergeDesired(doc, [version |-> v, props |-> p]) IN
         /\ out \in Document
         /\ out.obj = v
         /\ out.reported = doc.reported
         /\ out.reportedVersion = doc.reportedVersion
         /\ v < doc.desiredVersion =>
              /\ out.desired = doc.desired
              /\ out.desiredVersion = doc.desiredVersion
              /\ out.version = doc.version
              /\ out.state = doc.state
         /\ v >= doc.desiredVersion =>
              /\ out.desired = p
              /\ out.desiredVersion = v
              /\ out.version = MaxVersion(v, doc.reportedVersion)
              /\ out.state = "stale"
<1> DEFINE out == MergeDesired(doc, [version |-> v, props |-> p])
<1>1. CASE v < doc.desiredVersion
  <2>1. out = [doc EXCEPT !.obj = v]
    BY <1>1 DEF MergeDesired, Clone, Resolve, Document
  <2> QED
    BY <1>1, <2>1 DEF Document
<1>2. CASE v >= doc.desiredVersion
  <2> DEFINE written == [Clone(doc, v) EXCEPT
               !.desired = p, !.desiredVersion = MaxVersion(@, v),
               !.state = "stale"]
  <2>1. MaxVersion(doc.desiredVersion, v) = v
    BY <1>2 DEF MaxVersion, Document
  <2>2. out = RefreshWatermark(written)
    BY <1>2 DEF MergeDesired, Resolve, Document
  <2>3. /\ written \in Document
        /\ written.obj = v /\ written.desired = p
        /\ written.desiredVersion = v /\ written.state = "stale"
        /\ written.reported = doc.reported
        /\ written.reportedVersion = doc.reportedVersion
    BY <2>1 DEF Clone, Document, State
  <2> HIDE DEF written
  <2>4. /\ out \in Document
        /\ out.obj = v /\ out.desired = p
        /\ out.desiredVersion = v /\ out.state = "stale"
        /\ out.reported = doc.reported
        /\ out.reportedVersion = doc.reportedVersion
        /\ out.version = MaxVersion(v, doc.reportedVersion)
    BY <2>2, <2>3, MaxVersionType DEF RefreshWatermark, Document
  <2> QED
    BY <1>2, <2>4 DEF Document
<1> QED
  BY <1>1, <1>2 DEF Document

LEMMA MergeMapsType ==
  ASSUME NEW base \in [Keys -> Nat], NEW keys \in SUBSET Keys, NEW v \in Nat
  PROVE  /\ MergeMaps(base, keys, v) \in [Keys -> Nat]
         /\ \A k \in Keys : MergeMaps(base, keys, v)[k] \in {base[k], v}
  BY DEF MergeMaps

\* Every field of a document after a report: a stale report changes nothing
\* but the object, any other one only the reported section.
LEMMA MergeReportFields ==
  ASSUME NEW doc \in Document, NEW v \in Nat, NEW b \in Int,
         NEW keys \in SUBSET Keys
  PROVE  LET out == MergeReport(doc, [version |-> v, base |-> b, keys |-> keys])
         IN
         /\ out \in Document
         /\ out.obj = v
         /\ out.desired = doc.desired
         /\ out.desiredVersion = doc.desiredVersion
         /\ b < doc.reportedVersion =>
              /\ out.reported = doc.reported
              /\ out.reportedVersion = doc.reportedVersion
              /\ out.version = doc.version
              /\ out.state = doc.state
         /\ b >= doc.reportedVersion =>
              /\ \A k \in Keys : out.reported[k] \in {doc.reported[k], v}
              /\ out.reportedVersion = MaxVersion(doc.reportedVersion, v)
              /\ out.version = MaxVersion(doc.desiredVersion, out.reportedVersion)
              /\ out.state = "synced"
<1> DEFINE out == MergeReport(doc, [version |-> v, base |-> b, keys |-> keys])
<1>1. CASE b < doc.reportedVersion
  <2>1. out = [doc EXCEPT !.obj = v]
    BY <1>1 DEF MergeReport, Clone, Resolve, Document
  <2> QED
    BY <1>1, <2>1 DEF Document
<1>2. CASE b >= doc.reportedVersion
  <2> DEFINE merged == MergeMaps(doc.reported, keys, v)
             newest == MaxVersion(doc.reportedVersion, v)
             written == [Clone(doc, v) EXCEPT
               !.reported = MergeMaps(@, keys, v),
               !.reportedVersion = MaxVersion(@, v),
               !.state = "synced"]
  <2>1. /\ merged \in [Keys -> Nat] /\ newest \in Nat
        /\ \A k \in Keys : merged[k] \in {doc.reported[k], v}
    BY MergeMapsType, MaxVersionType DEF Document
  <2>2. out = RefreshWatermark(written)
    BY <1>2 DEF MergeReport, Resolve, Document
  <2> HIDE DEF merged, newest
  <2>3. /\ written \in Document
        /\ written.obj = v /\ written.desired = doc.desired
        /\ written.desiredVersion = doc.desiredVersion
        /\ written.state = "synced"
        /\ written.reported = merged
        /\ written.reportedVersion = newest
    BY <2>1 DEF Clone, Document, State, merged, newest
  <2> HIDE DEF written
  <2>4. /\ out \in Document
        /\ out.obj = v /\ out.desired = doc.desired
        /\ out.desiredVersion = doc.desiredVersion
        /\ out.state = "synced"
        /\ out.reported = merged
        /\ out.reportedVersion = newest
        /\ out.version = MaxVersion(doc.desiredVersion, newest)
    BY <2>2, <2>3, MaxVersionType DEF RefreshWatermark, Document
  <2> QED
    BY <1>2, <2>1, <2>4 DEF Document, newest
<1> QED
  BY <1>1, <1>2 DEF Document

\* The same under either policy: replacing the section may also drop keys.
LEMMA PolicyApplyReportFields ==
  ASSUME NEW doc \in Document, NEW v \in Nat, NEW b \in Int,
         NEW keys \in SUBSET Keys, NEW replace \in BOOLEAN
  PROVE  LET out == PolicyApplyReport(replace, doc,
                      [version |-> v, base |-> b, keys |-> keys])
         IN
         /\ out \in Document
         /\ out.obj = v
         /\ out.desired = doc.desired
         /\ out.desiredVersion = doc.desiredVersion
         /\ b < doc.reportedVersion =>
              /\ out.reported = doc.reported
              /\ out.reportedVersion = doc.reportedVersion
              /\ out.version = doc.version
              /\ out.state = doc.state
         /\ b >= doc.reportedVersion =>
              /\ \A k \in Keys :
                   \/ out.reported[k] \in {doc.reported[k], v}
                   \/ replace /\ out.reported[k] = 0
              /\ out.reportedVersion = MaxVersion(doc.reportedVersion, v)
              /\ out.version = MaxVersion(doc.desiredVersion, out.reportedVersion)
              /\ out.state = "synced"
<1> DEFINE op == [version |-> v, base |-> b, keys |-> keys]
           out == PolicyApplyReport(replace, doc, op)
<1>1. CASE ~(replace /\ b = doc.reportedVersion /\ b > 0)
  <2>1. out = MergeReport(doc, op)
    BY <1>1 DEF PolicyApplyReport
  <2> QED
    BY <2>1, MergeReportFields
<1>2. CASE replace /\ b = doc.reportedVersion /\ b > 0
  <2> DEFINE fresh == MergeMaps(Nil.reported, keys, v)
             newest == MaxVersion(doc.reportedVersion, v)
             written == [Clone(doc, v) EXCEPT
               !.reported = fresh, !.reportedVersion = newest,
               !.state = "synced"]
  <2>1. /\ fresh \in [Keys -> Nat] /\ newest \in Nat
        /\ \A k \in Keys : fresh[k] \in {0, v}
    BY MaxVersionType DEF MergeMaps, Nil, Document
  <2> HIDE DEF fresh
  <2>2. out = RefreshWatermark(written)
    BY <1>2 DEF PolicyApplyReport, Clone, Document, fresh
  <2> HIDE DEF newest
  <2>3. /\ written \in Document
        /\ written.obj = v /\ written.desired = doc.desired
        /\ written.desiredVersion = doc.desiredVersion
        /\ written.state = "synced"
        /\ written.reported = fresh
        /\ written.reportedVersion = newest
    BY <2>1 DEF Clone, Document, State
  <2> HIDE DEF written
  <2>4. /\ out \in Document
        /\ out.obj = v /\ out.desired = doc.desired
        /\ out.desiredVersion = doc.desiredVersion
        /\ out.state = "synced"
        /\ out.reported = fresh
        /\ out.reportedVersion = newest
        /\ out.version = MaxVersion(doc.desiredVersion, newest)
    BY <2>2, <2>3, MaxVersionType DEF RefreshWatermark, Document
  <2>5. \A k \in Keys : \/ out.reported[k] \in {doc.reported[k], v}
                        \/ replace /\ out.reported[k] = 0
    BY <1>2, <2>1, <2>4
  <2>6. b >= doc.reportedVersion /\ ~(b < doc.reportedVersion)
    BY <1>2 DEF Document
  <2> QED
    BY <2>4, <2>5, <2>6 DEF newest
<1> QED
  BY <1>1, <1>2

\* A rollback keeps the reported section and never lowers a version.
LEMMA RestoredDocumentFields ==
  ASSUME NEW doc \in Document, NEW before \in Nat, NEW v \in Nat
  PROVE  LET out == RestoredDocument(doc, before, v) IN
         /\ out \in Document
         /\ out.obj = doc.obj
         /\ out.desired = before
         /\ out.desiredVersion \in {doc.desiredVersion, v}
         /\ out.desiredVersion >= doc.desiredVersion /\ out.desiredVersion >= v
         /\ out.reported = doc.reported
         /\ out.reportedVersion = doc.reportedVersion
         /\ out.version = MaxVersion(out.desiredVersion, out.reportedVersion)
         /\ out.state \in {"stale", "synced"}
<1> DEFINE newest == MaxVersion(doc.desiredVersion, v)
           written == [doc EXCEPT
             !.desired = before, !.desiredVersion = newest,
             !.state = IF before # 0 THEN "stale" ELSE "synced"]
<1>1. /\ newest \in Nat /\ newest \in {doc.desiredVersion, v}
      /\ newest >= doc.desiredVersion /\ newest >= v
  BY MaxVersionType DEF Document
<1>2. RestoredDocument(doc, before, v) = RefreshWatermark(written)
  BY DEF RestoredDocument, Document
<1> HIDE DEF newest
<1>3. /\ written \in Document
      /\ written.obj = doc.obj /\ written.desired = before
      /\ written.desiredVersion = newest
      /\ written.state \in {"stale", "synced"}
      /\ written.reported = doc.reported
      /\ written.reportedVersion = doc.reportedVersion
  BY <1>1 DEF Document, State
<1> HIDE DEF written
<1> QED
  BY <1>2, <1>3, <1>1, MaxVersionType DEF RefreshWatermark, Document

\* Trimming the history keeps a sequence of the same elements.
LEMMA TrimType ==
  ASSUME NEW S, NEW log \in Seq(S)
  PROVE  Trim(log) \in Seq(S)
<1> DEFINE first == Len(log) - HistoryCap + 1
<1>1. CASE Len(log) > HistoryCap
  <2>1. Len(log) \in Int /\ HistoryCap \in Int /\ first \in 1 .. Len(log)
    BY <1>1, StoreAssumption
  <2>2. \A i \in first .. Len(log) : log[i] \in S
    BY <2>1, ElementOfSeq
  <2> HIDE DEF first
  <2>3. SubSeq(log, first, Len(log)) \in Seq(S)
    BY <2>1, <2>2, SubSeqProperties
  <2> QED
    BY <1>1, <2>3 DEF Trim, first
<1>2. CASE ~(Len(log) > HistoryCap)
  BY <1>2 DEF Trim
<1> QED
  BY <1>1, <1>2

LEMMA EnsureType ==
  ASSUME TypeOK, NEW d \in Devices, NEW obj \in Nat
  PROVE  Ensure(d, obj) \in Document
  BY NewDocumentType DEF Ensure, TypeOK

\* However a read is torn, what the hook and the history get is an event.
LEMMA ChangeEventType ==
  ASSUME NEW t \in Task, NEW read \in Readings(t)
  PROVE  ChangeEvent(t, read) \in Event
<1>1. t.doc \in Document /\ t.seen \in SUBSET Document
  BY DEF Task
<1>2. /\ read.event \in Document /\ read.desired \in Document
      /\ read.desiredVersion \in Document /\ read.version \in Document
      /\ read.state \in Document
  BY <1>1 DEF Readings
<1>3. EventType(t.kind) \in {"none", "desired", "report", "delete"}
  BY DEF EventType, Task, DesiredKind
<1>4. /\ read.event.version \in Nat /\ read.desired.desired \in Nat
      /\ read.desiredVersion.desiredVersion \in Nat
      /\ read.version.version \in Nat /\ read.state.state \in State
  BY <1>2 DEF Document
<1>5. [t.doc EXCEPT !.desired = read.desired.desired,
         !.desiredVersion = read.desiredVersion.desiredVersion,
         !.version = read.version.version,
         !.state = read.state.state] \in Document
  BY <1>1, <1>4 DEF Document
<1> QED
  BY <1>3, <1>4, <1>5 DEF ChangeEvent, Event

-----------------------------------------------------------------------------
(* Type correctness.                                                       *)

LEMMA IdleType == Idle \in Task /\ Idle.pc = "idle"
  BY NilType DEF Idle, Task

LEMMA InitType == Init => TypeOK
<1> SUFFICES ASSUME Init PROVE TypeOK
  OBVIOUS
<1>1. Idle \in Task /\ Idle.pc = "idle"
  BY IdleType
<1>2. NoEvent \in Event
  BY NilType DEF NoEvent, Event
<1>3. <<>> \in Seq(Event)
  BY EmptySeq
<1> QED
  BY <1>1, <1>2, <1>3, NilType DEF Init, TypeOK

LEMMA IssueType ==
  ASSUME TypeOK, NEW d \in Devices, Issue(d)
  PROVE  next' \in [Devices -> Nat]
  BY DEF TypeOK, Issue

\* A worker takes a request.
LEMMA BeginType ==
  ASSUME TypeOK, NEW w \in Workers, NEW t \in Task, Begin(w, t),
         t.device \in Devices
  PROVE  /\ task' \in [Workers -> Task]
         /\ \A x \in Workers : task'[x].pc # "idle" => task'[x].device \in Devices
  BY DEF TypeOK, Begin

LEMMA StartType ==
  ASSUME TypeOK, NEW w \in Workers, Start(w)
  PROVE  TypeOK'
<1> USE StoreAssumption
<1> PICK d \in Devices :
       \/ \E base \in ClaimedBases, keys \in SUBSET Keys :
            HandleReport(w, d, base, keys)
       \/ \E kind \in {"desired", "batch"}, empty \in BOOLEAN :
            ApplyDesired(w, d, kind, empty)
       \/ ApplyTransactional(w, d)
       \/ Delete(w, d)
  BY DEF Start
<1>0. next[d] + 1 \in Nat /\ documents[d].desired \in Nat
  BY DEF TypeOK, Document
<1>1. ASSUME NEW base \in ClaimedBases, NEW keys \in SUBSET Keys,
             HandleReport(w, d, base, keys)
      PROVE  TypeOK'
  <2> DEFINE t == [Idle EXCEPT !.pc = "commit", !.kind = "report",
                    !.device = d, !.version = next[d] + 1, !.base = base,
                    !.keys = keys]
  <2>1. t \in Task /\ t.device \in Devices
    BY <1>0, IdleType DEF Task
  <2>2. Begin(w, t)
    BY <1>1 DEF HandleReport
  <2> HIDE DEF t
  <2>3. next' \in [Devices -> Nat]
    BY <1>1, IssueType DEF HandleReport
  <2> QED
    BY <1>1, <2>1, <2>2, <2>3, BeginType DEF HandleReport, storeVars, TypeOK
<1>2. ASSUME NEW kind \in {"desired", "batch"}, NEW empty \in BOOLEAN,
             ApplyDesired(w, d, kind, empty)
      PROVE  TypeOK'
  <2> DEFINE props == IF empty THEN 0 ELSE next[d] + 1
             t == [Idle EXCEPT !.pc = "commit", !.kind = kind, !.device = d,
                    !.version = next[d] + 1, !.props = props]
  <2>1. props \in Nat
    BY <1>0
  <2>2. Begin(w, t)
    BY <1>2 DEF ApplyDesired
  <2> HIDE DEF props
  <2>3. t \in Task /\ t.device \in Devices
    BY <1>0, <2>1, IdleType DEF Task
  <2> HIDE DEF t
  <2>4. next' \in [Devices -> Nat]
    BY <1>2, IssueType DEF ApplyDesired
  <2> QED
    BY <1>2, <2>2, <2>3, <2>4, BeginType DEF ApplyDesired, storeVars, TypeOK
<1>3. ASSUME ApplyTransactional(w, d) PROVE TypeOK'
  <2> DEFINE t == [Idle EXCEPT !.pc = "alloc", !.kind = "transaction",
                    !.device = d, !.before = documents[d].desired]
  <2>1. t \in Task /\ t.device \in Devices
    BY <1>0, IdleType DEF Task
  <2>2. Begin(w, t)
    BY <1>3 DEF ApplyTransactional
  <2> HIDE DEF t
  <2> QED
    BY <1>3, <2>1, <2>2, BeginType DEF ApplyTransactional, storeVars, TypeOK
<1>4. ASSUME Delete(w, d) PROVE TypeOK'
  <2> DEFINE t == [Idle EXCEPT !.pc = "emit", !.kind = "delete", !.device = d,
                    !.seen = {Nil}]
  <2>1. t \in Task /\ t.device \in Devices
    BY IdleType, NilType DEF Task
  <2>2. Begin(w, t)
    BY <1>4 DEF Delete
  <2> HIDE DEF t
  <2> QED
    BY <1>4, <2>1, <2>2, BeginType, NilType DEF Delete, TypeOK
<1> QED
  BY <1>1, <1>2, <1>3, <1>4

\* A worker that is past its version allocation serves a device, and so can
\* index every per-device function.
LEMMA BusyWorker ==
  ASSUME TypeOK, NEW w \in Workers, task[w].pc # "idle"
  PROVE  /\ task[w] \in Task /\ task[w].device \in Devices
         /\ task[w].version \in Nat /\ task[w].base \in Int
         /\ task[w].keys \in SUBSET Keys /\ task[w].props \in Nat
         /\ task[w].before \in Nat /\ task[w].undo \in Nat
         /\ task[w].doc \in Document /\ task[w].seen \in SUBSET Document
         /\ documents[task[w].device] \in Document
  BY DEF TypeOK, Task

LEMMA CommitType ==
  ASSUME TypeOK, NEW w \in Workers, task[w].pc # "idle",
         NEW merged \in Document, Commit(w, merged)
  PROVE  TypeOK'
<1> DEFINE t == [Idle EXCEPT !.pc = "emit", !.kind = task[w].kind,
                   !.device = task[w].device, !.version = task[w].version,
                   !.props = task[w].props, !.before = task[w].before,
                   !.doc = merged, !.seen = {merged}]
<1>0. task[w] \in Task /\ task[w].device \in Devices
  BY BusyWorker
<1>1. t \in Task /\ t.device \in Devices
  BY <1>0, IdleType DEF Task
<1>2. task' = [task EXCEPT ![w] = t]
  BY DEF Commit
<1> HIDE DEF t
<1>3. documents' \in [Devices -> Document]
  BY <1>0 DEF Commit, TypeOK
<1>4. UNCHANGED <<next, tombstones, history, onChange, rolledBack>>
  BY DEF Commit
<1> QED
  BY <1>1, <1>2, <1>3, <1>4 DEF TypeOK

\* An in-place write replaces the document wherever the pointer is held.
LEMMA WriteInPlaceType ==
  ASSUME TypeOK, NEW w \in Workers, NEW d \in Devices, NEW doc \in Document,
         WriteInPlace(w, d, doc)
  PROVE  /\ documents' \in [Devices -> Document]
         /\ task' \in [Workers -> Task]
         /\ \A x \in Workers : task'[x].pc # "idle" => task'[x].device \in Devices
<1>1. documents' \in [Devices -> Document]
  BY DEF WriteInPlace, TypeOK
<1>2. ASSUME NEW x \in Workers
      PROVE  /\ task'[x] \in Task
             /\ task'[x].pc # "idle" => task'[x].device \in Devices
  <2> DEFINE t == [task[x] EXCEPT !.doc = doc, !.seen = @ \cup {doc}]
  <2>1. task'[x] \in {Idle, t, task[x]}
    BY DEF WriteInPlace
  <2>2. task[x] \in Task /\ task[x].seen \cup {doc} \in SUBSET Document
    BY DEF TypeOK, Task
  <2>3. t \in Task /\ t.pc = task[x].pc /\ t.device = task[x].device
    BY <2>2 DEF Task
  <2> HIDE DEF t
  <2> QED
    BY <2>1, <2>3, IdleType DEF TypeOK
<1>3. DOMAIN task' = Workers /\ task' = [x \in Workers |-> task'[x]]
  BY DEF WriteInPlace
<1> QED
  BY <1>1, <1>2, <1>3

LEMMA StepType ==
  ASSUME TypeOK, NEW w \in Workers, Step(w)
  PROVE  TypeOK'
<1> DEFINE t == task[w]
           d == task[w].device
<1>1. ASSUME AllocTransaction(w) PROVE TypeOK'
  <2> DEFINE u == [t EXCEPT !.pc = "commit", !.version = next[d] + 1,
                            !.props = next[d] + 1]
  <2>1. d \in Devices /\ t \in Task /\ next[d] + 1 \in Nat
    BY <1>1, BusyWorker DEF AllocTransaction, TypeOK
  <2>2. u \in Task /\ u.device \in Devices
    BY <2>1 DEF Task
  <2>3. task' = [task EXCEPT ![w] = u]
    BY <1>1 DEF AllocTransaction, TypeOK
  <2>4. next' \in [Devices -> Nat]
    BY <1>1, <2>1, IssueType DEF AllocTransaction
  <2> HIDE DEF u
  <2> QED
    BY <1>1, <2>2, <2>3, <2>4 DEF AllocTransaction, storeVars, TypeOK
<1>2. ASSUME CommitDesired(w) PROVE TypeOK'
  <2>1. MergeDesired(Ensure(d, t.version),
          [version |-> t.version, props |-> t.props]) \in Document
    BY <1>2, BusyWorker, EnsureType, MergeDesiredFields DEF CommitDesired
  <2> QED
    BY <1>2, <2>1, CommitType DEF CommitDesired
<1>3. ASSUME DesiredOnTombstone(w) PROVE TypeOK'
  <2> DEFINE u == [t EXCEPT !.pc = "deliver"]
  <2>0. t \in Task /\ t.device \in Devices
    BY <1>3, BusyWorker DEF DesiredOnTombstone
  <2>1. u \in Task /\ u.device \in Devices
    BY <2>0 DEF Task
  <2>2. task' = [task EXCEPT ![w] = u]
    BY <1>3 DEF DesiredOnTombstone, TypeOK
  <2> HIDE DEF u
  <2> QED
    BY <1>3, <2>1, <2>2 DEF DesiredOnTombstone, storeVars, TypeOK
<1>4. ASSUME CommitReport(w) PROVE TypeOK'
  <2>1. PolicyApplyReport(ReplaceSection, Ensure(d, t.version),
          [version |-> t.version, base |-> t.base, keys |-> t.keys])
            \in Document
    BY <1>4, BusyWorker, EnsureType, PolicyApplyReportFields, StoreAssumption
       DEF CommitReport
  <2> QED
    BY <1>4, <2>1, CommitType DEF CommitReport
<1>5. ASSUME DiscardReport(w) PROVE TypeOK'
  <2>1. Ensure(d, t.version) \in Document /\ d \in Devices
    BY <1>5, BusyWorker, EnsureType DEF DiscardReport
  <2> QED
    BY <1>5, <2>1, IdleType DEF DiscardReport, TypeOK
<1>6. ASSUME ReportOnTombstone(w) PROVE TypeOK'
  BY <1>6, IdleType DEF ReportOnTombstone, storeVars, TypeOK
<1>7. ASSUME Emit(w) PROVE TypeOK'
  <2>1. PICK read \in Readings(t) :
          onChange' = [onChange EXCEPT ![d] = ChangeEvent(t, read)]
    BY <1>7 DEF Emit
  <2>2. ChangeEvent(t, read) \in Event /\ d \in Devices
    BY <1>7, BusyWorker, ChangeEventType DEF Emit
  <2>3. onChange' \in [Devices -> Event]
    BY <2>1, <2>2 DEF TypeOK
  <2> DEFINE u == [t EXCEPT !.pc = "record", !.seen = {t.doc}]
  <2>3a. t \in Task /\ t.device \in Devices /\ t.doc \in Document
    BY <1>7, BusyWorker DEF Emit, Task
  <2>4. u \in Task /\ u.device \in Devices
    BY <2>3a DEF Task
  <2>5. task' = [task EXCEPT ![w] = u]
    BY <1>7 DEF Emit, TypeOK
  <2> HIDE DEF u
  <2>6. UNCHANGED <<next, storeVars, rolledBack>>
    BY <1>7 DEF Emit
  <2> QED
    BY <2>3, <2>4, <2>5, <2>6 DEF storeVars, TypeOK
<1>8. ASSUME Record(w) PROVE TypeOK'
  <2>1. PICK read \in Readings(t) :
          history' = [history EXCEPT
                        ![d] = Trim(Append(@, ChangeEvent(t, read)))]
    BY <1>8 DEF Record, Recorded
  <2>2. ChangeEvent(t, read) \in Event /\ d \in Devices /\ t \in Task
    BY <1>8, BusyWorker, ChangeEventType DEF Record
  <2>3. Append(history[d], ChangeEvent(t, read)) \in Seq(Event)
    BY <2>2, AppendProperties DEF TypeOK
  <2>4. Trim(Append(history[d], ChangeEvent(t, read))) \in Seq(Event)
    BY <2>3, TrimType
  <2>5. history' \in [Devices -> Seq(Event)]
    BY <2>1, <2>4 DEF TypeOK
  <2> DEFINE u == [t EXCEPT !.pc = "deliver", !.doc = Nil, !.seen = {}]
  <2>6. u \in Task /\ u.device \in Devices
    BY <2>2, NilType DEF Task
  <2>7. \E v \in {u, Idle} : task' = [task EXCEPT ![w] = v]
    BY <1>8 DEF Record
  <2> HIDE DEF u
  <2> QED
    BY <1>8, <2>5, <2>6, <2>7, IdleType DEF Record, TypeOK
<1>9. ASSUME NEW delivered \in BOOLEAN, Deliver(w, delivered) PROVE TypeOK'
  <2> DEFINE u == [t EXCEPT !.pc = "markStale"]
             v == [t EXCEPT !.pc = "reread"]
  <2>1. u \in Task /\ u.device \in Devices /\ v \in Task /\ v.device \in Devices
    BY <1>9, BusyWorker DEF Deliver, Task
  <2>2. PICK x \in {u, v, Idle} : task' = [task EXCEPT ![w] = x]
    BY <1>9 DEF Deliver
  <2> HIDE DEF u, v
  <2>3. x \in Task /\ (x.pc # "idle" => x.device \in Devices)
    BY <2>1, IdleType
  <2>4. UNCHANGED <<next, storeVars, onChange, rolledBack>>
    BY <1>9 DEF Deliver
  <2> QED
    BY <2>2, <2>3, <2>4 DEF storeVars, TypeOK
<1>9a. ASSUME DeliverAndMark(w) PROVE TypeOK'
  <2> DEFINE u == [t EXCEPT !.pc = "markStale"]
  <2>1. t \in Task /\ t.device \in Devices
    BY <1>9a, BusyWorker DEF DeliverAndMark
  <2>2. u \in Task /\ u.device \in Devices
    BY <2>1 DEF Task
  <2>3. task' = [task EXCEPT ![w] = u]
    BY <1>9a DEF DeliverAndMark, TypeOK
  <2> HIDE DEF u
  <2> QED
    BY <1>9a, <2>2, <2>3 DEF DeliverAndMark, storeVars, TypeOK
<1>10. ASSUME RereadVersion(w) PROVE TypeOK'
  <2> DEFINE u == [t EXCEPT !.pc = "restore",
                            !.undo = documents[d].desiredVersion]
  <2>1. documents[d].desiredVersion \in Nat
    BY <1>10, BusyWorker DEF RereadVersion, Document
  <2>1a. t \in Task /\ t.device \in Devices
    BY <1>10, BusyWorker DEF RereadVersion
  <2>2. u \in Task /\ u.device \in Devices
    BY <2>1, <2>1a DEF Task
  <2>3. task' = [task EXCEPT ![w] = u]
    BY <1>10 DEF RereadVersion, TypeOK
  <2> HIDE DEF u
  <2> QED
    BY <1>10, <2>2, <2>3 DEF RereadVersion, storeVars, TypeOK
<1>11. ASSUME Restore(w) PROVE TypeOK'
  <2> DEFINE doc == IF documents[d].state = "absent" THEN Nil
                    ELSE RestoredDocument(documents[d], t.before, t.undo)
  <2>1. d \in Devices /\ doc \in Document /\ t.version \in Nat
    BY <1>11, BusyWorker, NilType, RestoredDocumentFields DEF Restore
  <2>2. WriteInPlace(w, d, doc)
    BY <1>11 DEF Restore
  <2> HIDE DEF doc
  <2>3. rolledBack' \in [Devices -> SUBSET Nat]
    BY <1>11, <2>1 DEF Restore, TypeOK
  <2> QED
    BY <1>11, <2>1, <2>2, <2>3, WriteInPlaceType DEF Restore, TypeOK
<1>12. ASSUME MarkBatchPartial(w) PROVE TypeOK'
  <2> DEFINE doc == IF documents[d].state = "absent" THEN Nil
                    ELSE [documents[d] EXCEPT !.state = "stale"]
  <2>1. d \in Devices /\ doc \in Document
    BY <1>12, BusyWorker, NilType DEF MarkBatchPartial, Document, State
  <2>2. WriteInPlace(w, d, doc)
    BY <1>12 DEF MarkBatchPartial
  <2> HIDE DEF doc
  <2> QED
    BY <1>12, <2>1, <2>2, WriteInPlaceType DEF MarkBatchPartial, TypeOK
<1> QED
  BY <1>1, <1>2, <1>3, <1>4, <1>5, <1>6, <1>7, <1>8, <1>9, <1>9a, <1>10, <1>11,
     <1>12 DEF Step

LEMMA NextType ==
  ASSUME TypeOK, [Next]_vars
  PROVE  TypeOK'
<1>1. CASE UNCHANGED vars
  BY <1>1 DEF vars, TypeOK
<1>2. CASE GCTombstones
  BY <1>2 DEF GCTombstones, TypeOK
<1> QED
  BY <1>1, <1>2, StartType, StepType DEF Next

\* The state stays well-typed whatever requests, bases and failures arrive; in
\* particular versions never go below zero and a worker never loses the device
\* it serves.
THEOREM TypeCorrect == Spec => []TypeOK
  BY InitType, NextType, PTL DEF Spec

-----------------------------------------------------------------------------
(***************************************************************************)
(* What a step does to one document.  Every later proof about documents    *)
(* goes through these shapes instead of through the actions.               *)
(***************************************************************************)
DesiredWrite(w, d) ==
  /\ task[w].pc = "commit" /\ task[w].kind \in DesiredKind
  /\ task'[w].pc # "commit"
  /\ d = task[w].device /\ d \notin tombstones
  /\ documents'[d] = MergeDesired(Ensure(d, task[w].version),
       [version |-> task[w].version, props |-> task[w].props])

ReportWrite(w, d) ==
  /\ task[w].pc = "commit" /\ task[w].kind = "report"
  /\ task'[w].pc # "commit"
  /\ d = task[w].device /\ d \notin tombstones
  /\ ~ReportIsStale(task[w], Ensure(d, task[w].version))
  /\ documents'[d] = PolicyApplyReport(ReplaceSection,
       Ensure(d, task[w].version),
       [version |-> task[w].version, base |-> task[w].base,
        keys |-> task[w].keys])

Creation(w, d) ==
  /\ task[w].pc = "commit" /\ task[w].kind = "report"
  /\ task'[w].pc # "commit"
  /\ d = task[w].device /\ d \notin tombstones
  /\ documents'[d] = Ensure(d, task[w].version)

Rollback(w, d) ==
  /\ task[w].pc = "restore" /\ d = task[w].device /\ Live(d)
  /\ documents'[d] = RestoredDocument(documents[d], task[w].before, task[w].undo)
  /\ task'[w] = Idle

Mark(w, d) ==
  /\ task[w].pc = "markStale" /\ d = task[w].device /\ Live(d)
  /\ documents'[d] = [documents[d] EXCEPT !.state = "stale"]

\* A rollback or a mark of a shadow that is gone.
Miss(d) == ~Live(d) /\ documents'[d] = Nil

DocumentStep(d) ==
  \/ documents'[d] = documents[d]
  \/ Miss(d)
  \/ \E w \in Workers :
       DesiredWrite(w, d) \/ ReportWrite(w, d) \/ Creation(w, d)
         \/ Rollback(w, d) \/ Mark(w, d)

\* A step deletes one shadow, or expires tombstones, or leaves the tombstones
\* alone and changes each document in one of the shapes above.
LEMMA DocumentSteps ==
  ASSUME TypeOK, [Next]_vars
  PROVE  \/ \E d \in Devices :
              /\ documents' = [documents EXCEPT ![d] = Nil]
              /\ tombstones' = tombstones \cup {d}
              /\ next' = next
         \/ documents' = documents /\ tombstones' \subseteq tombstones
         \/ tombstones' = tombstones /\ \A d \in Devices : DocumentStep(d)
<1> DEFINE Kept == documents' = documents /\ tombstones' \subseteq tombstones
           Changed == /\ tombstones' = tombstones
                      /\ \A d \in Devices : DocumentStep(d)
<1>1. CASE UNCHANGED vars
  BY <1>1 DEF vars
<1>2. CASE GCTombstones
  BY <1>2 DEF GCTombstones
<1>3. ASSUME NEW w \in Workers, Start(w)
      PROVE  \/ Kept
             \/ \E d \in Devices :
                  /\ documents' = [documents EXCEPT ![d] = Nil]
                  /\ tombstones' = tombstones \cup {d}
                  /\ next' = next
  BY <1>3 DEF Start, HandleReport, ApplyDesired, ApplyTransactional, Delete,
              storeVars
<1>4. ASSUME NEW w \in Workers, CommitDesired(w) PROVE Changed
  BY <1>4, BusyWorker DEF CommitDesired, Commit, DocumentStep, DesiredWrite,
                          TypeOK
<1>5. ASSUME NEW w \in Workers, CommitReport(w) PROVE Changed
  <2>1. task'[w].pc # "commit"
    BY <1>5, IdleType DEF CommitReport, Commit, TypeOK, Task
  <2> QED
    BY <1>5, <2>1, BusyWorker
       DEF CommitReport, Commit, DocumentStep, ReportWrite, TypeOK
<1>6. ASSUME NEW w \in Workers, DiscardReport(w) PROVE Changed
  <2>1. task'[w].pc # "commit"
    BY <1>6, IdleType DEF DiscardReport, TypeOK
  <2> QED
    BY <1>6, <2>1, BusyWorker DEF DiscardReport, DocumentStep, Creation, TypeOK
<1>7. ASSUME NEW w \in Workers, Restore(w) PROVE Changed
  BY <1>7, BusyWorker DEF Restore, WriteInPlace, DocumentStep, Rollback, Miss,
                          Live, TypeOK
<1>8. ASSUME NEW w \in Workers, MarkBatchPartial(w) PROVE Changed
  BY <1>8, BusyWorker DEF MarkBatchPartial, WriteInPlace, DocumentStep, Mark,
                          Miss, Live, TypeOK
<1>9. ASSUME NEW w \in Workers,
             \/ AllocTransaction(w) \/ DesiredOnTombstone(w)
             \/ ReportOnTombstone(w) \/ Emit(w) \/ Record(w)
             \/ \E delivered \in BOOLEAN : Deliver(w, delivered)
             \/ DeliverAndMark(w) \/ RereadVersion(w)
      PROVE  Kept
  BY <1>9 DEF AllocTransaction, DesiredOnTombstone, ReportOnTombstone, Emit,
              Record, Deliver, DeliverAndMark, RereadVersion, storeVars
<1> QED
  BY <1>1, <1>2, <1>3, <1>4, <1>5, <1>6, <1>7, <1>8, <1>9 DEF Next, Step

-----------------------------------------------------------------------------
(* Each document on its own.                                               *)

DocumentOK(doc) ==
  /\ doc.state = "absent" => doc = Nil
  /\ doc.version = MaxVersion(doc.desiredVersion, doc.reportedVersion)
  /\ \A k \in Keys : doc.reported[k] <= doc.reportedVersion

LEMMA NilOK == DocumentOK(Nil)
  BY DEF DocumentOK, Nil, MaxVersion

LEMMA NewDocumentOK ==
  ASSUME NEW obj \in Nat
  PROVE  DocumentOK(NewDocument(obj))
  BY DEF DocumentOK, NewDocument, Nil, MaxVersion

LEMMA EnsureOK ==
  ASSUME TypeOK, NEW d \in Devices, NEW obj \in Nat, DocumentOK(documents[d])
  PROVE  /\ DocumentOK(Ensure(d, obj)) /\ Ensure(d, obj).state # "absent"
         /\ Live(d) => Ensure(d, obj) = documents[d]
         /\ Ensure(d, obj).desiredVersion = documents[d].desiredVersion
         /\ Ensure(d, obj).reportedVersion = documents[d].reportedVersion
         /\ Ensure(d, obj).version = documents[d].version
<1>1. CASE Live(d)
  BY <1>1 DEF Live, Ensure
<1>2. CASE ~Live(d)
  <2>1. documents[d] = Nil /\ Ensure(d, obj) = NewDocument(obj)
    BY <1>2 DEF Live, Ensure, DocumentOK
  <2> QED
    BY <2>1, <1>2, NewDocumentOK DEF NewDocument, Nil
<1> QED
  BY <1>1, <1>2

\* A write to one section keeps the watermark the larger of the two.
LEMMA MergeDesiredOK ==
  ASSUME NEW doc \in Document, NEW v \in Nat, NEW p \in Nat,
         DocumentOK(doc), doc.state # "absent"
  PROVE  DocumentOK(MergeDesired(doc, [version |-> v, props |-> p]))
<1> DEFINE out == MergeDesired(doc, [version |-> v, props |-> p])
<1>1. doc.desiredVersion \in Nat
  BY DEF Document
<1>2. CASE v < doc.desiredVersion
  <2>1. /\ out.state # "absent" /\ out.reported = doc.reported
        /\ out.reportedVersion = doc.reportedVersion
        /\ out.desiredVersion = doc.desiredVersion /\ out.version = doc.version
    BY <1>2, MergeDesiredFields
  <2> QED
    BY <2>1 DEF DocumentOK
<1>3. CASE v >= doc.desiredVersion
  <2>1. /\ out.state # "absent" /\ out.reported = doc.reported
        /\ out.reportedVersion = doc.reportedVersion
        /\ out.desiredVersion = v
        /\ out.version = MaxVersion(v, doc.reportedVersion)
    BY <1>3, MergeDesiredFields
  <2> QED
    BY <2>1 DEF DocumentOK
<1> QED
  BY <1>1, <1>2, <1>3

LEMMA PolicyApplyReportOK ==
  ASSUME NEW doc \in Document, NEW v \in Nat, NEW b \in Int,
         NEW keys \in SUBSET Keys, DocumentOK(doc), doc.state # "absent"
  PROVE  DocumentOK(PolicyApplyReport(ReplaceSection, doc,
                      [version |-> v, base |-> b, keys |-> keys]))
<1> DEFINE out == PolicyApplyReport(ReplaceSection, doc,
                    [version |-> v, base |-> b, keys |-> keys])
<1>1. /\ doc.reportedVersion \in Nat
      /\ \A k \in Keys : doc.reported[k] \in Nat
                         /\ doc.reported[k] <= doc.reportedVersion
  BY DEF Document, DocumentOK
<1>2. CASE b < doc.reportedVersion
  <2>1. /\ out.state # "absent" /\ out.reported = doc.reported
        /\ out.reportedVersion = doc.reportedVersion
        /\ out.desiredVersion = doc.desiredVersion /\ out.version = doc.version
    BY <1>2, PolicyApplyReportFields, StoreAssumption
  <2> QED
    BY <2>1 DEF DocumentOK
<1>3. CASE b >= doc.reportedVersion
  <2> DEFINE newest == MaxVersion(doc.reportedVersion, v)
  <2>1. /\ out.state = "synced"
        /\ \A k \in Keys : out.reported[k] \in {0, doc.reported[k], v}
        /\ out.reportedVersion = newest
        /\ out.desiredVersion = doc.desiredVersion
        /\ out.version = MaxVersion(doc.desiredVersion, out.reportedVersion)
    BY <1>3, PolicyApplyReportFields, StoreAssumption
  <2>2. newest \in Nat /\ newest >= v /\ newest >= doc.reportedVersion
    BY <1>1, MaxVersionType
  <2> HIDE DEF newest
  <2>3. ASSUME NEW k \in Keys PROVE out.reported[k] <= out.reportedVersion
    <3>1. CASE out.reported[k] = 0
      BY <2>1, <2>2, <3>1
    <3>2. CASE out.reported[k] = v
      BY <2>1, <2>2, <3>2
    <3>3. CASE out.reported[k] = doc.reported[k]
      <4>1. doc.reported[k] \in Nat /\ doc.reported[k] <= doc.reportedVersion
        BY <1>1
      <4> QED
        BY <1>1, <2>1, <2>2, <3>3, <4>1
    <3> QED
      BY <2>1, <3>1, <3>2, <3>3
  <2> QED
    BY <2>1, <2>3 DEF DocumentOK
<1> QED
  BY <1>1, <1>2, <1>3

LEMMA RestoredDocumentOK ==
  ASSUME NEW doc \in Document, NEW before \in Nat, NEW v \in Nat, DocumentOK(doc)
  PROVE  DocumentOK(RestoredDocument(doc, before, v))
<1> DEFINE out == RestoredDocument(doc, before, v)
<1>1. /\ out.state # "absent" /\ out.reported = doc.reported
      /\ out.reportedVersion = doc.reportedVersion
      /\ out.version = MaxVersion(out.desiredVersion, out.reportedVersion)
  BY RestoredDocumentFields
<1> QED
  BY <1>1 DEF DocumentOK

LEMMA WrittenOK ==
  ASSUME TypeOK, NEW d \in Devices, DocumentOK(documents[d]), DocumentStep(d)
  PROVE  DocumentOK(documents'[d])
<1>1. CASE documents'[d] = documents[d]
  BY <1>1
<1>2. CASE Miss(d)
  BY <1>2, NilOK DEF Miss
<1>3. ASSUME NEW w \in Workers, DesiredWrite(w, d) PROVE DocumentOK(documents'[d])
  BY <1>3, BusyWorker, EnsureType, EnsureOK, MergeDesiredOK DEF DesiredWrite
<1>4. ASSUME NEW w \in Workers, ReportWrite(w, d) PROVE DocumentOK(documents'[d])
  BY <1>4, BusyWorker, EnsureType, EnsureOK, PolicyApplyReportOK DEF ReportWrite
<1>5. ASSUME NEW w \in Workers, Creation(w, d) PROVE DocumentOK(documents'[d])
  BY <1>5, BusyWorker, EnsureOK DEF Creation
<1>6. ASSUME NEW w \in Workers, Rollback(w, d) PROVE DocumentOK(documents'[d])
  BY <1>6, BusyWorker, RestoredDocumentOK DEF Rollback
<1>7. ASSUME NEW w \in Workers, Mark(w, d) PROVE DocumentOK(documents'[d])
  <2>1. documents[d] \in Document
    BY DEF TypeOK
  <2> QED
    BY <1>7, <2>1 DEF Mark, DocumentOK, Document
<1> QED
  BY <1>1, <1>2, <1>3, <1>4, <1>5, <1>6, <1>7 DEF DocumentStep

DocumentInv ==
  /\ \A d \in Devices : DocumentOK(documents[d])
  /\ TombstoneExcludesDocument

LEMMA InitDocument == Init => DocumentInv
  BY NilOK DEF Init, DocumentInv, TombstoneExcludesDocument

LEMMA NextDocument ==
  ASSUME TypeOK, DocumentInv, [Next]_vars
  PROVE  DocumentInv'
<1>1. ASSUME NEW d \in Devices,
             documents' = [documents EXCEPT ![d] = Nil],
             tombstones' = tombstones \cup {d}
      PROVE  DocumentInv'
  BY <1>1, NilOK DEF DocumentInv, TombstoneExcludesDocument, Live, Nil, TypeOK
<1>2. CASE documents' = documents /\ tombstones' \subseteq tombstones
  BY <1>2 DEF DocumentInv, TombstoneExcludesDocument, Live
<1>3. CASE tombstones' = tombstones /\ \A d \in Devices : DocumentStep(d)
  <2>1. \A d \in Devices : DocumentOK(documents'[d])
    BY <1>3, WrittenOK DEF DocumentInv
  <2>2. ASSUME NEW d \in tombstones PROVE documents'[d].state = "absent"
    <3>1. d \in Devices /\ documents[d].state = "absent"
      BY DEF DocumentInv, TombstoneExcludesDocument, Live, TypeOK
    <3>2. documents'[d] \in {documents[d], Nil}
      BY <1>3, <3>1 DEF DocumentStep, Miss, DesiredWrite, ReportWrite, Creation,
                        Rollback, Mark, Live
    <3> QED
      BY <3>1, <3>2, Nil.state = "absent" DEF Nil
  <2> QED
    BY <1>3, <2>1, <2>2 DEF DocumentInv, TombstoneExcludesDocument, Live
<1> QED
  BY <1>1, <1>2, <1>3, DocumentSteps

LEMMA DocumentInvariant == Spec => [](TypeOK /\ DocumentInv)
  BY InitType, NextType, InitDocument, NextDocument, PTL DEF Spec

\* A deleted shadow stays deleted as long as its tombstone is kept, with any
\* number of requests in flight (Store.Delete, Store.ensure).
THEOREM DeletedStaysDeleted == Spec => []TombstoneExcludesDocument
  BY DocumentInvariant, PTL DEF DocumentInv

\* The watermark is the larger section version after every commit, rollback
\* and mark (Document.RefreshWatermark).
THEOREM WatermarkCorrect == Spec => []WatermarkIsMax
<1>1. DocumentInv => WatermarkIsMax
  BY DEF DocumentInv, DocumentOK, WatermarkIsMax
<1> QED
  BY <1>1, DocumentInvariant, PTL

-----------------------------------------------------------------------------
(* How the sections of a live shadow move.                                 *)

LEMMA RestoredDocumentMoves ==
  ASSUME NEW doc \in Document, NEW before \in Nat, NEW v \in Nat,
         doc.version = MaxVersion(doc.desiredVersion, doc.reportedVersion)
  PROVE  LET out == RestoredDocument(doc, before, v) IN
         /\ out.desiredVersion >= doc.desiredVersion
         /\ out.reported = doc.reported
         /\ out.reportedVersion = doc.reportedVersion
         /\ out.version >= doc.version
<1> DEFINE out == RestoredDocument(doc, before, v)
<1>1. doc.desiredVersion \in Nat /\ doc.reportedVersion \in Nat
  BY DEF Document
<1>2. /\ out.desiredVersion \in {doc.desiredVersion, v}
      /\ out.desiredVersion >= doc.desiredVersion
      /\ out.reported = doc.reported
      /\ out.reportedVersion = doc.reportedVersion
      /\ out.version = MaxVersion(out.desiredVersion, out.reportedVersion)
  BY RestoredDocumentFields
<1>3. out.version >= doc.version
  BY <1>1, <1>2 DEF MaxVersion
<1> QED
  BY <1>2, <1>3

\* Only one section of a live shadow moves in a step, and it moves forward,
\* unless the step deletes the shadow.
LEMMA SectionStep ==
  ASSUME TypeOK, DocumentInv, [Next]_vars, NEW d \in Devices,
         Live(d), documents'[d].state # "absent" \/ d \notin tombstones'
  PROVE  /\ documents'[d].desiredVersion >= documents[d].desiredVersion
         /\ documents'[d].reportedVersion >= documents[d].reportedVersion
         /\ documents'[d].version >= documents[d].version
         /\ \/ /\ documents'[d].desired = documents[d].desired
               /\ documents'[d].desiredVersion = documents[d].desiredVersion
            \/ /\ documents'[d].reported = documents[d].reported
               /\ documents'[d].reportedVersion = documents[d].reportedVersion
<1> DEFINE doc == documents[d]
           out == documents'[d]
<1>0. /\ doc \in Document
      /\ doc.desiredVersion \in Nat /\ doc.reportedVersion \in Nat
      /\ doc.version = MaxVersion(doc.desiredVersion, doc.reportedVersion)
      /\ doc.version \in Nat
  BY DEF TypeOK, DocumentInv, DocumentOK, Document
<1> DEFINE Goal ==
      /\ out.desiredVersion >= doc.desiredVersion
      /\ out.reportedVersion >= doc.reportedVersion
      /\ out.version >= doc.version
      /\ \/ out.desired = doc.desired /\ out.desiredVersion = doc.desiredVersion
         \/ out.reported = doc.reported /\ out.reportedVersion = doc.reportedVersion
<1>1. ASSUME NEW w \in Workers, DesiredWrite(w, d) PROVE Goal
  <2>1. /\ Ensure(d, task[w].version) = doc
        /\ task[w].version \in Nat /\ task[w].props \in Nat
    BY <1>1, BusyWorker DEF DesiredWrite, Ensure, Live
  <2>2. out = MergeDesired(doc,
          [version |-> task[w].version, props |-> task[w].props])
    BY <1>1, <2>1 DEF DesiredWrite
  <2>3. CASE task[w].version < doc.desiredVersion
    BY <1>0, <2>1, <2>2, <2>3, MergeDesiredFields
  <2>4. CASE task[w].version >= doc.desiredVersion
    BY <1>0, <2>1, <2>2, <2>4, MergeDesiredFields DEF MaxVersion
  <2> QED
    BY <1>0, <2>1, <2>3, <2>4
<1>2. ASSUME NEW w \in Workers, ReportWrite(w, d) PROVE Goal
  <2>1. /\ Ensure(d, task[w].version) = doc
        /\ task[w].version \in Nat /\ task[w].base \in Int
        /\ task[w].keys \in SUBSET Keys
    BY <1>2, BusyWorker DEF ReportWrite, Ensure, Live
  <2>2. out = PolicyApplyReport(ReplaceSection, doc,
          [version |-> task[w].version, base |-> task[w].base,
           keys |-> task[w].keys])
    BY <1>2, <2>1 DEF ReportWrite
  <2>3. CASE task[w].base < doc.reportedVersion
    BY <1>0, <2>1, <2>2, <2>3, PolicyApplyReportFields, StoreAssumption
  <2>4. CASE task[w].base >= doc.reportedVersion
    BY <1>0, <2>1, <2>2, <2>4, PolicyApplyReportFields, StoreAssumption
       DEF MaxVersion
  <2> QED
    BY <1>0, <2>1, <2>3, <2>4
<1>3. ASSUME NEW w \in Workers, Creation(w, d) PROVE Goal
  BY <1>0, <1>3 DEF Creation, Ensure, Live
<1>4. ASSUME NEW w \in Workers, Rollback(w, d) PROVE Goal
  BY <1>0, <1>4, BusyWorker, RestoredDocumentMoves DEF Rollback
<1>5. ASSUME NEW w \in Workers, Mark(w, d) PROVE Goal
  BY <1>0, <1>5 DEF Mark, Document
<1>6. CASE out = doc
  BY <1>0, <1>6
<1>7. out = doc \/ DocumentStep(d)
  <2>1. ASSUME NEW e \in Devices, documents' = [documents EXCEPT ![e] = Nil],
               tombstones' = tombstones \cup {e}
        PROVE  out = doc
    BY <2>1 DEF TypeOK, Nil
  <2> QED
    BY <2>1, DocumentSteps
<1> QED
  BY <1>1, <1>2, <1>3, <1>4, <1>5, <1>6, <1>7 DEF DocumentStep, Miss, Live

\* While a shadow lives, neither section version nor the watermark regresses
\* (Document.RefreshWatermark, conflict.MergeDesired, MergeReport).
THEOREM VersionsMonotonic == Spec => VersionsNeverRegress
<1>1. TypeOK /\ DocumentInv /\ [Next]_vars =>
        [\A d \in Devices : Live(d) /\ Live(d)' =>
           /\ documents'[d].desiredVersion >= documents[d].desiredVersion
           /\ documents'[d].reportedVersion >= documents[d].reportedVersion
           /\ documents'[d].version >= documents[d].version]_vars
  BY SectionStep DEF Live
<1> QED
  BY <1>1, DocumentInvariant, PTL DEF Spec, VersionsNeverRegress

\* "Desired and reported sections advance independently" (conflict.go).
THEOREM SectionsAreIndependent == Spec => SectionsIndependent
<1>1. TypeOK /\ DocumentInv /\ [Next]_vars =>
        [\A d \in Devices : Live(d) /\ Live(d)' =>
           \/ /\ documents'[d].desired = documents[d].desired
              /\ documents'[d].desiredVersion = documents[d].desiredVersion
           \/ /\ documents'[d].reported = documents[d].reported
              /\ documents'[d].reportedVersion = documents[d].reportedVersion]_vars
  BY SectionStep DEF Live
<1> QED
  BY <1>1, DocumentInvariant, PTL DEF Spec, SectionsIndependent

-----------------------------------------------------------------------------
(* How the operations in flight move.                                      *)

\* Only transactions are undone, and only what clients request is served.
KindOK(t) ==
  /\ t.kind \in Requests \cup {"none"}
  /\ t.pc \in {"alloc", "reread", "restore"} => t.kind = "transaction"
  /\ t.pc = "deliver" => t.kind \in DesiredKind

KindInv == \A x \in Workers : KindOK(task[x])

Stays(x) ==
  /\ task'[x].pc = task[x].pc /\ task'[x].kind = task[x].kind
  /\ task'[x].device = task[x].device /\ task'[x].version = task[x].version
  /\ task'[x].base = task[x].base /\ task'[x].props = task[x].props
  /\ task'[x].undo = task[x].undo

\* x has just been given a version: the next one of its device.
Issued(x) ==
  LET d == task'[x].device IN
  /\ task'[x].pc = "commit"
  /\ d \in Devices
  /\ next' = [next EXCEPT ![d] = @ + 1]
  /\ task'[x].version = next[d] + 1
  /\ TrustedBases /\ task'[x].kind = "report" => task'[x].base <= next[d]

\* x has just read the version its rollback will use.
Reread(x) ==
  LET d == task[x].device IN
  /\ task'[x].pc = "restore"
  /\ next' = next /\ documents' = documents
  /\ d \in Devices /\ task'[x].device = d
  /\ task'[x].undo = documents[d].desiredVersion

\* x does anything else.
Works(x) == next' = next /\ task'[x].pc \notin {"commit", "restore"}

\* In a step one worker moves at most; the others keep everything but, after an
\* in-place write, the document they hold.
TaskStep(w) ==
  /\ \A x \in Workers \ {w} : Stays(x)
  /\ Issued(w) \/ Reread(w) \/ Works(w)
  /\ KindOK(task'[w])

LEMMA StartTask ==
  ASSUME TypeOK, NEW w \in Workers, Start(w)
  PROVE  TaskStep(w)
<1>0. task \in [Workers -> Task]
  BY DEF TypeOK
<1>1. ASSUME NEW t, Begin(w, t)
      PROVE  task'[w] = t /\ \A x \in Workers \ {w} : Stays(x)
  BY <1>0, <1>1 DEF Begin, Stays
<1>2. ASSUME NEW d \in Devices, NEW base \in ClaimedBases,
             NEW keys \in SUBSET Keys, HandleReport(w, d, base, keys)
      PROVE  TaskStep(w)
  <2> DEFINE t == [Idle EXCEPT !.pc = "commit", !.kind = "report",
                    !.device = d, !.version = next[d] + 1, !.base = base,
                    !.keys = keys]
  <2>1. /\ t.pc = "commit" /\ t.device = d /\ t.version = next[d] + 1
        /\ t.base = base /\ t.kind = "report"
    BY DEF Idle
  <2>2. Begin(w, t)
    BY <1>2 DEF HandleReport
  <2> HIDE DEF t
  <2> QED
    BY <1>1, <1>2, <2>1, <2>2 DEF HandleReport, Issue, Issued, TaskStep, KindOK
<1>3. ASSUME NEW d \in Devices, NEW kind \in {"desired", "batch"},
             NEW empty \in BOOLEAN, ApplyDesired(w, d, kind, empty)
      PROVE  TaskStep(w)
  <2> DEFINE t == [Idle EXCEPT !.pc = "commit", !.kind = kind, !.device = d,
                    !.version = next[d] + 1,
                    !.props = IF empty THEN 0 ELSE next[d] + 1]
  <2>1. /\ t.pc = "commit" /\ t.device = d /\ t.version = next[d] + 1
        /\ t.kind = kind /\ t.kind # "report"
    BY DEF Idle
  <2>2. Begin(w, t)
    BY <1>3 DEF ApplyDesired
  <2> HIDE DEF t
  <2> QED
    BY <1>1, <1>3, <2>1, <2>2 DEF ApplyDesired, Issue, Issued, TaskStep, KindOK
<1>4. ASSUME NEW d \in Devices, ApplyTransactional(w, d) PROVE TaskStep(w)
  <2> DEFINE t == [Idle EXCEPT !.pc = "alloc", !.kind = "transaction",
                    !.device = d, !.before = documents[d].desired]
  <2>1. t.pc = "alloc" /\ t.kind = "transaction"
    BY DEF Idle
  <2>2. Begin(w, t)
    BY <1>4 DEF ApplyTransactional
  <2> HIDE DEF t
  <2> QED
    BY <1>1, <1>4, <2>1, <2>2 DEF ApplyTransactional, Works, TaskStep, KindOK
<1>5. ASSUME NEW d \in Devices, Delete(w, d) PROVE TaskStep(w)
  <2> DEFINE t == [Idle EXCEPT !.pc = "emit", !.kind = "delete", !.device = d,
                    !.seen = {Nil}]
  <2>1. t.pc = "emit" /\ t.kind = "delete"
    BY DEF Idle
  <2>2. Begin(w, t)
    BY <1>5 DEF Delete
  <2> HIDE DEF t
  <2> QED
    BY <1>1, <1>5, <2>1, <2>2 DEF Delete, Works, TaskStep, KindOK
<1> QED
  BY <1>2, <1>3, <1>4, <1>5 DEF Start

LEMMA IdleKind == KindOK(Idle) /\ Idle.pc = "idle"
  BY DEF Idle, KindOK

LEMMA StepTask ==
  ASSUME TypeOK, KindInv, NEW w \in Workers, Step(w)
  PROVE  TaskStep(w)
<1> DEFINE t == task[w]
<1>0. task \in [Workers -> Task] /\ KindOK(t) /\ Idle.pc = "idle" /\ KindOK(Idle)
  BY IdleKind DEF TypeOK, KindInv
<1>1. CASE AllocTransaction(w)
  <2>1. t.device \in Devices /\ t \in Task
    BY <1>1, BusyWorker DEF AllocTransaction
  <2>2. /\ \A x \in Workers \ {w} : task'[x] = task[x]
        /\ task'[w].pc = "commit" /\ task'[w].kind = t.kind
        /\ task'[w].device = t.device
        /\ task'[w].version = next[t.device] + 1
    BY <1>0, <1>1, <2>1 DEF AllocTransaction, Task
  <2>3. t.kind = "transaction"
    BY <1>0, <1>1 DEF AllocTransaction, KindOK
  <2> QED
    BY <1>0, <1>1, <2>1, <2>2, <2>3
       DEF AllocTransaction, Issue, Issued, Stays, TaskStep, KindOK
<1>2. ASSUME NEW merged, Commit(w, merged), t.kind # "none" PROVE TaskStep(w)
  <2> DEFINE u == [Idle EXCEPT !.pc = "emit", !.kind = t.kind,
                    !.device = t.device, !.version = t.version,
                    !.props = t.props, !.before = t.before, !.doc = merged,
                    !.seen = {merged}]
  <2>1. u.pc = "emit" /\ u.kind = t.kind
    BY DEF Idle
  <2>2. task' = [task EXCEPT ![w] = u] /\ next' = next
    BY <1>2 DEF Commit
  <2> HIDE DEF u
  <2> QED
    BY <1>0, <2>1, <2>2 DEF Works, Stays, TaskStep, KindOK
<1>3. CASE CommitDesired(w) \/ CommitReport(w)
  BY <1>2, <1>3 DEF CommitDesired, CommitReport, DesiredKind
<1>4. CASE DesiredOnTombstone(w)
  BY <1>0, <1>4 DEF DesiredOnTombstone, storeVars, Works, Stays, TaskStep,
                    KindOK, Task
<1>5. CASE DiscardReport(w) \/ ReportOnTombstone(w)
  BY <1>0, <1>5 DEF DiscardReport, ReportOnTombstone, storeVars, Works, Stays,
                    TaskStep
<1>6. CASE Emit(w)
  BY <1>0, <1>6 DEF Emit, Works, Stays, TaskStep, KindOK, Task
<1>7. CASE Record(w)
  <2> DEFINE u == [t EXCEPT !.pc = "deliver", !.doc = Nil, !.seen = {}]
  <2>1. u.pc = "deliver" /\ u.kind = t.kind
    BY <1>0 DEF Task
  <2>2. \/ t.kind \in DesiredKind /\ task' = [task EXCEPT ![w] = u]
        \/ task' = [task EXCEPT ![w] = Idle]
    BY <1>7 DEF Record
  <2> HIDE DEF u
  <2> QED
    BY <1>0, <1>7, <2>1, <2>2 DEF Record, Works, Stays, TaskStep, KindOK
<1>8. ASSUME NEW delivered \in BOOLEAN, Deliver(w, delivered) PROVE TaskStep(w)
  <2> DEFINE u == [t EXCEPT !.pc = "markStale"]
             v == [t EXCEPT !.pc = "reread"]
  <2>1. u.pc = "markStale" /\ u.kind = t.kind /\ v.pc = "reread" /\ v.kind = t.kind
    BY <1>0 DEF Task
  <2>2. \/ task' = [task EXCEPT ![w] = Idle]
        \/ task' = [task EXCEPT ![w] = u]
        \/ t.kind = "transaction" /\ task' = [task EXCEPT ![w] = v]
    BY <1>0, <1>8 DEF Deliver, KindOK, DesiredKind
  <2>3. next' = next
    BY <1>8 DEF Deliver
  <2> HIDE DEF u, v
  <2> QED
    BY <1>0, <2>1, <2>2, <2>3 DEF Works, Stays, TaskStep, KindOK
<1>8a. CASE DeliverAndMark(w)
  <2> DEFINE u == [t EXCEPT !.pc = "markStale"]
  <2>1. u.pc = "markStale" /\ u.kind = t.kind
    BY <1>0 DEF Task
  <2>2. task' = [task EXCEPT ![w] = u] /\ next' = next
    BY <1>8a DEF DeliverAndMark
  <2> HIDE DEF u
  <2> QED
    BY <1>0, <1>8a, <2>1, <2>2 DEF DeliverAndMark, Works, Stays, TaskStep, KindOK
<1>9. CASE RereadVersion(w)
  BY <1>0, <1>9, BusyWorker DEF RereadVersion, storeVars, Reread, Stays,
                                TaskStep, KindOK, Task
<1>10. ASSUME NEW d \in Devices, NEW doc, WriteInPlace(w, d, doc), next' = next
       PROVE  TaskStep(w)
  <2>1. task'[w] = Idle
    BY <1>10 DEF WriteInPlace
  <2>2. ASSUME NEW x \in Workers \ {w} PROVE Stays(x)
    <3>1. task'[x] \in {task[x], [task[x] EXCEPT !.doc = doc,
                                              !.seen = @ \cup {doc}]}
      BY <1>10 DEF WriteInPlace
    <3> QED
      BY <1>0, <3>1 DEF Stays, Task
  <2> QED
    BY <1>0, <1>10, <2>1, <2>2 DEF Works, TaskStep
<1>11. CASE Restore(w)
  BY <1>10, <1>11, BusyWorker DEF Restore
<1>12. CASE MarkBatchPartial(w)
  BY <1>10, <1>12, BusyWorker DEF MarkBatchPartial
<1> QED
  BY <1>1, <1>3, <1>4, <1>5, <1>6, <1>7, <1>8, <1>8a, <1>9, <1>11, <1>12 DEF Step

LEMMA TaskSteps ==
  ASSUME TypeOK, KindInv, [Next]_vars
  PROVE  \/ next' = next /\ \A x \in Workers : Stays(x)
         \/ \E w \in Workers : TaskStep(w)
<1>1. CASE UNCHANGED vars
  BY <1>1 DEF vars, Stays
<1>2. CASE GCTombstones
  BY <1>2 DEF GCTombstones, Stays
<1> QED
  BY <1>1, <1>2, StartTask, StepTask DEF Next

LEMMA InitKind == Init => KindInv
  BY IdleKind DEF Init, KindInv

LEMMA NextKind ==
  ASSUME TypeOK, KindInv, [Next]_vars
  PROVE  KindInv'
  BY TaskSteps DEF KindInv, TaskStep, Stays, KindOK

-----------------------------------------------------------------------------
(***************************************************************************)
(* Where the versions are.  The version of an operation about to commit is *)
(* in no document and no other operation has it, and the version a         *)
(* rollback is about to write is not one of these and is not reported.     *)
(***************************************************************************)
Holds(x, d) == task[x].pc = "commit" /\ task[x].device = d

\* d's document and the operations of d that are about to commit or undo.
DeviceOK(d) ==
  /\ documents[d].version <= next[d]
  /\ documents[d].desiredVersion = documents[d].reportedVersion
       => documents[d].desiredVersion = 0
  /\ \A x \in Workers : Holds(x, d) =>
       /\ 0 < task[x].version /\ task[x].version <= next[d]
       /\ task[x].version # documents[d].desiredVersion
       /\ task[x].version # documents[d].reportedVersion
       /\ TrustedBases /\ task[x].kind = "report" => task[x].base < task[x].version
       /\ \A y \in Workers \ {x} :
            Holds(y, d) => task[x].version # task[y].version
  /\ \A x \in Workers : task[x].pc = "restore" /\ task[x].device = d =>
       /\ task[x].undo <= next[d]
       /\ task[x].undo # 0 =>
            /\ task[x].undo # documents[d].reportedVersion
            /\ \A y \in Workers : Holds(y, d) => task[x].undo # task[y].version

VersionInv == \A d \in Devices : DeviceOK(d)

\* The two versions of d after a step, in terms of the operation that ran.
VersionsStep(d) ==
  LET doc == documents[d]
      out == documents'[d]
  IN
  \/ out.desiredVersion = 0 /\ out.reportedVersion = 0
  \/ out.desiredVersion = doc.desiredVersion
     /\ out.reportedVersion = doc.reportedVersion
  \/ \E w \in Workers :
       /\ Holds(w, d) /\ task'[w].pc # "commit"
       /\ \/ /\ task[w].kind \in DesiredKind
             /\ out.desiredVersion = task[w].version
             /\ out.reportedVersion = doc.reportedVersion
          \/ /\ task[w].kind = "report"
             /\ out.desiredVersion = doc.desiredVersion
             /\ out.reportedVersion = task[w].version
  \/ \E w \in Workers :
       /\ task[w].pc = "restore" /\ task[w].device = d
       /\ out.desiredVersion = task[w].undo
       /\ out.reportedVersion = doc.reportedVersion

LEMMA RestoredVersions ==
  ASSUME NEW doc \in Document, NEW before \in Nat, NEW v \in Nat
  PROVE  /\ RestoredDocument(doc, before, v).reportedVersion = doc.reportedVersion
         /\ RestoredDocument(doc, before, v).desiredVersion
              \in {doc.desiredVersion, v}
  BY RestoredDocumentFields

LEMMA DocumentVersions ==
  ASSUME TypeOK, DocumentInv, NEW d \in Devices, DocumentStep(d)
  PROVE  VersionsStep(d)
<1> DEFINE doc == documents[d]
           out == documents'[d]
<1>0. doc \in Document /\ doc.desiredVersion \in Nat /\ doc.reportedVersion \in Nat
      /\ DocumentOK(doc)
  BY DEF TypeOK, Document, DocumentInv
<1>1. CASE out = doc
  BY <1>1 DEF VersionsStep
<1>2. CASE Miss(d)
  BY <1>2 DEF Miss, Nil, VersionsStep
<1>3. ASSUME NEW w \in Workers, DesiredWrite(w, d) PROVE VersionsStep(d)
  <2> DEFINE e == Ensure(d, task[w].version)
  <2>1. /\ task[w].version \in Nat /\ task[w].props \in Nat
        /\ e \in Document /\ e.desiredVersion = doc.desiredVersion
        /\ e.reportedVersion = doc.reportedVersion
    BY <1>0, <1>3, BusyWorker, EnsureType, EnsureOK DEF DesiredWrite
  <2>2. out = MergeDesired(e, [version |-> task[w].version,
                               props |-> task[w].props])
    BY <1>3 DEF DesiredWrite
  <2> HIDE DEF e
  <2>3. /\ out.reportedVersion = doc.reportedVersion
        /\ out.desiredVersion \in {doc.desiredVersion, task[w].version}
    BY <1>0, <2>1, <2>2, MergeDesiredFields
  <2> QED
    BY <1>3, <2>3 DEF DesiredWrite, Holds, VersionsStep
<1>4. ASSUME NEW w \in Workers, ReportWrite(w, d) PROVE VersionsStep(d)
  <2> DEFINE e == Ensure(d, task[w].version)
  <2>1. /\ task[w].version \in Nat /\ task[w].base \in Int
        /\ task[w].keys \in SUBSET Keys
        /\ e \in Document /\ e.desiredVersion = doc.desiredVersion
        /\ e.reportedVersion = doc.reportedVersion
    BY <1>0, <1>4, BusyWorker, EnsureType, EnsureOK DEF ReportWrite
  <2>2. out = PolicyApplyReport(ReplaceSection, e,
                [version |-> task[w].version, base |-> task[w].base,
                 keys |-> task[w].keys])
    BY <1>4 DEF ReportWrite
  <2> HIDE DEF e
  <2>3. /\ out.desiredVersion = doc.desiredVersion
        /\ \/ out.reportedVersion = doc.reportedVersion
           \/ out.reportedVersion = MaxVersion(doc.reportedVersion, task[w].version)
    BY <1>0, <2>1, <2>2, PolicyApplyReportFields, StoreAssumption
  <2>4. out.reportedVersion \in {doc.reportedVersion, task[w].version}
    BY <2>3 DEF MaxVersion
  <2> QED
    BY <1>4, <2>3, <2>4 DEF ReportWrite, Holds, VersionsStep
<1>5. ASSUME NEW w \in Workers, Creation(w, d) PROVE VersionsStep(d)
  BY <1>0, <1>5, BusyWorker, EnsureOK DEF Creation, VersionsStep
<1>6. ASSUME NEW w \in Workers, Rollback(w, d) PROVE VersionsStep(d)
  <2>1. /\ out.reportedVersion = doc.reportedVersion
        /\ out.desiredVersion \in {doc.desiredVersion, task[w].undo}
    BY <1>0, <1>6, BusyWorker, RestoredVersions DEF Rollback
  <2> QED
    BY <1>6, <2>1 DEF Rollback, VersionsStep
<1>7. ASSUME NEW w \in Workers, Mark(w, d) PROVE VersionsStep(d)
  BY <1>0, <1>7 DEF Mark, Document, VersionsStep
<1> QED
  BY <1>1, <1>2, <1>3, <1>4, <1>5, <1>6, <1>7 DEF DocumentStep

LEMMA VersionsSteps ==
  ASSUME TypeOK, DocumentInv, [Next]_vars, NEW d \in Devices
  PROVE  VersionsStep(d)
<1>1. CASE DocumentStep(d)
  BY <1>1, DocumentVersions
<1>2. ASSUME NEW e \in Devices, documents' = [documents EXCEPT ![e] = Nil]
      PROVE  VersionsStep(d)
  BY <1>2 DEF TypeOK, Nil, VersionsStep
<1>3. CASE documents' = documents
  BY <1>3 DEF VersionsStep
<1> QED
  BY <1>1, <1>2, <1>3, DocumentSteps

\* An operation that stays in flight during a step still has its version to
\* itself after it.
LEMMA VersionsClean ==
  ASSUME TypeOK, NEW d \in Devices, DeviceOK(d), VersionsStep(d),
         documents[d].version =
           MaxVersion(documents[d].desiredVersion, documents[d].reportedVersion)
  PROVE  LET out == documents'[d] IN
         /\ out.desiredVersion \in Nat /\ out.desiredVersion <= next[d]
         /\ out.reportedVersion \in Nat /\ out.reportedVersion <= next[d]
         /\ out.desiredVersion = out.reportedVersion => out.desiredVersion = 0
         /\ \A x \in Workers : Holds(x, d) /\ task'[x].pc = "commit" =>
              /\ task[x].version # out.desiredVersion
              /\ task[x].version # out.reportedVersion
         /\ \A x \in Workers :
              /\ task[x].pc = "restore" /\ task[x].device = d
              /\ task[x].undo # 0
              => task[x].undo # out.reportedVersion
<1> DEFINE doc == documents[d]
           out == documents'[d]
<1>0. /\ next[d] \in Nat
      /\ doc.desiredVersion \in Nat /\ doc.reportedVersion \in Nat
      /\ doc.desiredVersion <= next[d] /\ doc.reportedVersion <= next[d]
      /\ \A x \in Workers : task[x].version \in Nat /\ task[x].undo \in Nat
  <2>1. next[d] \in Nat /\ doc.desiredVersion \in Nat /\ doc.reportedVersion \in Nat
    BY DEF TypeOK, Document
  <2>2. \A x \in Workers : task[x].version \in Nat /\ task[x].undo \in Nat
    BY DEF TypeOK, Task
  <2> QED
    BY <2>1, <2>2 DEF DeviceOK, MaxVersion
<1>1. CASE out.desiredVersion = 0 /\ out.reportedVersion = 0
  BY <1>0, <1>1 DEF DeviceOK
<1>2. CASE /\ out.desiredVersion = doc.desiredVersion
           /\ out.reportedVersion = doc.reportedVersion
  BY <1>0, <1>2 DEF DeviceOK
<1>3. ASSUME NEW w \in Workers, Holds(w, d), task'[w].pc # "commit",
             out.desiredVersion = task[w].version,
             out.reportedVersion = doc.reportedVersion
      PROVE  /\ out.desiredVersion <= next[d]
             /\ out.desiredVersion # out.reportedVersion
             /\ \A x \in Workers : Holds(x, d) /\ task'[x].pc = "commit" =>
                  /\ task[x].version # out.desiredVersion
                  /\ task[x].version # out.reportedVersion
             /\ \A x \in Workers :
                  /\ task[x].pc = "restore" /\ task[x].device = d
                  /\ task[x].undo # 0
                  => task[x].undo # out.reportedVersion
  BY <1>0, <1>3 DEF DeviceOK
<1>4. ASSUME NEW w \in Workers, Holds(w, d), task'[w].pc # "commit",
             out.reportedVersion = task[w].version,
             out.desiredVersion = doc.desiredVersion
      PROVE  /\ out.reportedVersion <= next[d]
             /\ out.desiredVersion # out.reportedVersion
             /\ \A x \in Workers : Holds(x, d) /\ task'[x].pc = "commit" =>
                  /\ task[x].version # out.desiredVersion
                  /\ task[x].version # out.reportedVersion
             /\ \A x \in Workers :
                  /\ task[x].pc = "restore" /\ task[x].device = d
                  /\ task[x].undo # 0
                  => task[x].undo # out.reportedVersion
  BY <1>0, <1>4 DEF DeviceOK
<1>5. ASSUME NEW w \in Workers, task[w].pc = "restore", task[w].device = d,
             out.desiredVersion = task[w].undo,
             out.reportedVersion = doc.reportedVersion
      PROVE  /\ out.desiredVersion <= next[d]
             /\ out.desiredVersion = out.reportedVersion => out.desiredVersion = 0
             /\ \A x \in Workers : Holds(x, d) =>
                  /\ task[x].version # out.desiredVersion
                  /\ task[x].version # out.reportedVersion
             /\ \A x \in Workers :
                  /\ task[x].pc = "restore" /\ task[x].device = d
                  /\ task[x].undo # 0
                  => task[x].undo # out.reportedVersion
  BY <1>0, <1>5 DEF DeviceOK
<1> QED
  BY <1>0, <1>1, <1>2, <1>3, <1>4, <1>5 DEF VersionsStep

LEMMA InitVersion == Init => VersionInv
  BY DEF Init, VersionInv, DeviceOK, Holds, Idle, Nil

LEMMA NextVersion ==
  ASSUME TypeOK, TypeOK', KindInv, DocumentInv, DocumentInv', VersionInv,
         [Next]_vars
  PROVE  VersionInv'
<1> SUFFICES ASSUME NEW d \in Devices PROVE DeviceOK(d)'
  BY DEF VersionInv
<1> DEFINE doc == documents[d]
           out == documents'[d]
<1>0. /\ DeviceOK(d)
      /\ next[d] \in Nat
      /\ doc.desiredVersion \in Nat /\ doc.reportedVersion \in Nat
      /\ doc.version = MaxVersion(doc.desiredVersion, doc.reportedVersion)
      /\ out.version = MaxVersion(out.desiredVersion, out.reportedVersion)
      /\ \A x \in Workers : /\ task[x].version \in Nat /\ task[x].undo \in Nat
                            /\ task[x].base \in Int
  BY DEF TypeOK, Document, Task, VersionInv, DocumentInv, DocumentOK
<1>1. /\ out.desiredVersion \in Nat /\ out.desiredVersion <= next[d]
      /\ out.reportedVersion \in Nat /\ out.reportedVersion <= next[d]
      /\ out.desiredVersion = out.reportedVersion => out.desiredVersion = 0
      /\ \A x \in Workers : Holds(x, d) /\ task'[x].pc = "commit" =>
           /\ task[x].version # out.desiredVersion
           /\ task[x].version # out.reportedVersion
      /\ \A x \in Workers :
           /\ task[x].pc = "restore" /\ task[x].device = d
           /\ task[x].undo # 0
           => task[x].undo # out.reportedVersion
  BY <1>0, VersionsSteps, VersionsClean
<1>2. out.version <= next[d]
  BY <1>0, <1>1 DEF MaxVersion
<1>3. ASSUME next' = next, \A x \in Workers : Stays(x)
      PROVE  DeviceOK(d)'
  BY <1>0, <1>1, <1>2, <1>3 DEF Stays, Holds, DeviceOK
<1>4. ASSUME NEW w \in Workers, \A x \in Workers \ {w} : Stays(x), Works(w)
      PROVE  DeviceOK(d)'
  BY <1>0, <1>1, <1>2, <1>4 DEF Stays, Works, Holds, DeviceOK
<1>5. ASSUME NEW w \in Workers, \A x \in Workers \ {w} : Stays(x), Issued(w)
      PROVE  DeviceOK(d)'
  <2>1. CASE task'[w].device = d
    <3>1. /\ next'[d] = next[d] + 1 /\ task'[w].version = next[d] + 1
          /\ task'[w].pc = "commit"
          /\ TrustedBases /\ task'[w].kind = "report" => task'[w].base <= next[d]
          /\ task'[w].base \in Int
      BY <1>5, <2>1 DEF Issued, TypeOK, Task
    <3>2. ASSUME NEW x \in Workers, Holds(x, d)'
          PROVE  /\ 0 < task'[x].version /\ task'[x].version <= next'[d]
                 /\ task'[x].version # out.desiredVersion
                 /\ task'[x].version # out.reportedVersion
                 /\ TrustedBases /\ task'[x].kind = "report" =>
                      task'[x].base < task'[x].version
                 /\ \A y \in Workers \ {x} :
                      Holds(y, d)' => task'[x].version # task'[y].version
      <4>1. CASE x = w
        BY <1>0, <1>1, <1>5, <3>1, <4>1 DEF Stays, Holds, DeviceOK
      <4>2. CASE x # w
        BY <1>0, <1>1, <1>5, <3>1, <3>2, <4>2 DEF Stays, Holds, DeviceOK
      <4> QED
        BY <4>1, <4>2
    <3>3. ASSUME NEW x \in Workers, task'[x].pc = "restore", task'[x].device = d
          PROVE  /\ task'[x].undo <= next'[d]
                 /\ task'[x].undo # 0 =>
                      /\ task'[x].undo # out.reportedVersion
                      /\ \A y \in Workers :
                           Holds(y, d)' => task'[x].undo # task'[y].version
      BY <1>0, <1>1, <1>5, <3>1, <3>3 DEF Stays, Holds, DeviceOK
    <3>4. out.version <= next'[d]
      <4>1. out.version \in Nat
        BY <1>0, <1>1 DEF MaxVersion
      <4> HIDE DEF out
      <4> QED
        BY <1>0, <1>2, <3>1, <4>1
    <3> QED
      BY <1>1, <3>2, <3>3, <3>4 DEF DeviceOK, Holds
  <2>2. CASE task'[w].device # d
    <3>1. next'[d] = next[d]
      BY <1>5, <2>2 DEF Issued, TypeOK
    <3> QED
      BY <1>0, <1>1, <1>2, <1>5, <2>2, <3>1 DEF Stays, Holds, DeviceOK
  <2> QED
    BY <2>1, <2>2
<1>6. ASSUME NEW w \in Workers, \A x \in Workers \ {w} : Stays(x), Reread(w)
      PROVE  DeviceOK(d)'
  <2>1. /\ next' = next /\ out = doc /\ task'[w].pc = "restore"
        /\ task'[w].device = d => task'[w].undo = doc.desiredVersion
    BY <1>6 DEF Reread
  <2> QED
    BY <1>0, <1>1, <1>2, <1>6, <2>1 DEF Stays, Holds, DeviceOK
<1> QED
  BY <1>3, <1>4, <1>5, <1>6, TaskSteps DEF TaskStep

LEMMA Invariant == Spec => [](TypeOK /\ KindInv /\ DocumentInv /\ VersionInv)
<1> DEFINE Inv == TypeOK /\ KindInv /\ DocumentInv /\ VersionInv
<1>1. Init => Inv
  BY InitType, InitKind, InitDocument, InitVersion
<1>2. Inv /\ [Next]_vars => Inv'
  BY NextType, NextKind, NextDocument, NextVersion
<1> QED
  BY <1>1, <1>2, PTL DEF Spec

\* However requests interleave, the two sections never carry the same version
\* and no version that was not issued (VersionAllocator, Store).
THEOREM VersionsDistinct == Spec => []SectionVersionsDistinct
<1>1. TypeOK /\ DocumentInv /\ VersionInv => SectionVersionsDistinct
  BY DEF TypeOK, Document, DocumentInv, DocumentOK, VersionInv, DeviceOK,
         MaxVersion, SectionVersionsDistinct
<1> QED
  BY <1>1, Invariant, PTL

-----------------------------------------------------------------------------
(* Reports that claim a version already issued.                            *)

\* An accepted report is newer than everything in the shadow.
LEMMA AcceptedReport ==
  ASSUME TypeOK, DocumentInv, VersionInv, TrustedBases,
         NEW d \in Devices, NEW w \in Workers, ReportWrite(w, d)
  PROVE  /\ task[w].version > documents[d].desiredVersion
         /\ task[w].version > documents[d].reportedVersion
<1> DEFINE doc == documents[d]
           e == Ensure(d, task[w].version)
<1>1. /\ doc.desiredVersion \in Nat /\ doc.reportedVersion \in Nat
      /\ doc.version = MaxVersion(doc.desiredVersion, doc.reportedVersion)
      /\ DocumentOK(doc)
      /\ task[w].version \in Nat /\ task[w].base \in Int
  BY BusyWorker DEF TypeOK, Document, DocumentInv, DocumentOK, ReportWrite
<1>2. task[w].base < task[w].version
  BY DEF ReportWrite, VersionInv, DeviceOK, Holds
<1>3. e.version = doc.version
  BY <1>1, EnsureOK
<1>4. ~(task[w].base < doc.version)
  BY <1>3 DEF ReportWrite, ReportIsStale
<1> QED
  BY <1>1, <1>2, <1>4 DEF MaxVersion

\* What a report does to the stored values, fields of the shadow it found.
LEMMA ReportValues ==
  ASSUME NEW doc \in Document, DocumentOK(doc), NEW v \in Nat, NEW b \in Int,
         NEW keys \in SUBSET Keys, v > doc.reportedVersion,
         v > doc.desiredVersion, b >= doc.reportedVersion
  PROVE  LET out == PolicyApplyReport(ReplaceSection, doc,
                      [version |-> v, base |-> b, keys |-> keys])
         IN
         /\ \A k \in Keys : \/ out.reported[k] >= doc.reported[k]
                            \/ ReplaceSection /\ out.reported[k] = 0
         /\ out.reportedVersion > out.desiredVersion
<1> DEFINE out == PolicyApplyReport(ReplaceSection, doc,
                    [version |-> v, base |-> b, keys |-> keys])
<1>1. /\ doc.reportedVersion \in Nat /\ doc.desiredVersion \in Nat
      /\ \A k \in Keys : doc.reported[k] \in Nat
                         /\ doc.reported[k] <= doc.reportedVersion
  BY DEF Document, DocumentOK
<1>2. /\ out.desiredVersion = doc.desiredVersion
      /\ out.reportedVersion = MaxVersion(doc.reportedVersion, v)
      /\ \A k \in Keys : \/ out.reported[k] \in {doc.reported[k], v}
                         \/ ReplaceSection /\ out.reported[k] = 0
  BY PolicyApplyReportFields, StoreAssumption
<1>3. MaxVersion(doc.reportedVersion, v) = v
  BY <1>1 DEF MaxVersion
<1>4. ASSUME NEW k \in Keys
      PROVE  \/ out.reported[k] >= doc.reported[k]
             \/ ReplaceSection /\ out.reported[k] = 0
  <2>1. doc.reported[k] \in Nat /\ v >= doc.reported[k]
    BY <1>1
  <2>2. \/ out.reported[k] = doc.reported[k] \/ out.reported[k] = v
        \/ ReplaceSection /\ out.reported[k] = 0
    BY <1>2
  <2> HIDE DEF out
  <2> QED
    BY <2>1, <2>2
<1> QED
  BY <1>1, <1>2, <1>3, <1>4

LEMMA AcceptedReportValues ==
  ASSUME TypeOK, DocumentInv, VersionInv, TrustedBases,
         NEW d \in Devices, NEW w \in Workers, ReportWrite(w, d)
  PROVE  /\ \A k \in Keys :
              \/ documents'[d].reported[k] >= documents[d].reported[k]
              \/ ReplaceSection /\ documents'[d].reported[k] = 0
         /\ documents'[d].reportedVersion > documents'[d].desiredVersion
<1> DEFINE e == Ensure(d, task[w].version)
<1>1. /\ task[w].version \in Nat /\ task[w].base \in Int
      /\ task[w].keys \in SUBSET Keys
      /\ documents[d] \in Document /\ DocumentOK(documents[d])
  BY BusyWorker DEF TypeOK, DocumentInv, ReportWrite
<1>2. /\ e \in Document /\ DocumentOK(e)
      /\ e.desiredVersion = documents[d].desiredVersion
      /\ e.reportedVersion = documents[d].reportedVersion
      /\ e.version = documents[d].version
      /\ e.reported = documents[d].reported
  <2>1. e.reported = documents[d].reported
    <3>1. CASE Live(d)
      BY <3>1 DEF Live, Ensure
    <3>2. CASE ~Live(d)
      BY <1>1, <3>2 DEF Live, Ensure, DocumentOK, NewDocument, Nil
    <3> QED
      BY <3>1, <3>2
  <2> QED
    BY <1>1, <2>1, EnsureType, EnsureOK
<1>3. /\ task[w].version > e.desiredVersion /\ task[w].version > e.reportedVersion
  BY <1>2, AcceptedReport
<1>4. task[w].base >= e.reportedVersion
  <2>1. e.version \in Nat /\ e.reportedVersion \in Nat /\ e.desiredVersion \in Nat
    BY <1>2 DEF Document
  <2>2. task[w].base >= e.version
    BY <1>1, <2>1 DEF ReportWrite, ReportIsStale
  <2>3. e.version >= e.reportedVersion
    BY <1>2, <2>1 DEF DocumentOK, MaxVersion
  <2> HIDE DEF e
  <2> QED
    BY <1>1, <2>1, <2>2, <2>3
<1>5. documents'[d] = PolicyApplyReport(ReplaceSection, e,
        [version |-> task[w].version, base |-> task[w].base,
         keys |-> task[w].keys])
  BY DEF ReportWrite
<1> HIDE DEF e
<1> QED
  BY <1>1, <1>2, <1>3, <1>4, <1>5, ReportValues

\* No reported property ever returns to an older report, with any number of
\* reports in flight, as long as devices only claim bases they were given
\* (Store.ApplyReport).
THEOREM ReportsNeverRollBack ==
  ASSUME TrustedBases
  PROVE  Spec => NoReportRollback
<1> DEFINE Forward(d) ==
      \A k \in Keys : \/ documents'[d].reported[k] >= documents[d].reported[k]
                      \/ ReplaceSection /\ documents'[d].reported[k] = 0
<1>1. ASSUME TypeOK, DocumentInv, VersionInv, [Next]_vars, NEW d \in Devices,
             Live(d), documents'[d].state # "absent"
      PROVE  Forward(d)
  <2>1. /\ documents[d] \in Document
        /\ \A k \in Keys : documents[d].reported[k] \in Nat
    BY <1>1 DEF TypeOK, Document
  <2>2. CASE documents'[d].reported = documents[d].reported
    BY <2>1, <2>2
  <2>3. ASSUME NEW w \in Workers, ReportWrite(w, d) PROVE Forward(d)
    BY <1>1, <2>3, AcceptedReportValues
  <2>4. ASSUME NEW w \in Workers, DesiredWrite(w, d)
        PROVE  documents'[d].reported = documents[d].reported
    BY <1>1, <2>1, <2>4, BusyWorker, MergeDesiredFields
       DEF DesiredWrite, Ensure, Live
  <2>5. ASSUME NEW w \in Workers, Rollback(w, d)
        PROVE  documents'[d].reported = documents[d].reported
    BY <1>1, <2>1, <2>5, BusyWorker, RestoredDocumentMoves
       DEF Rollback, DocumentInv, DocumentOK
  <2>6. ASSUME NEW w \in Workers, Creation(w, d) \/ Mark(w, d)
        PROVE  documents'[d].reported = documents[d].reported
    BY <1>1, <2>1, <2>6 DEF Creation, Mark, Ensure, Live, Document
  <2>7. DocumentStep(d) \/ documents' = documents
          \/ documents'[d] = documents[d] \/ documents'[d] = Nil
    BY <1>1, DocumentSteps DEF TypeOK
  <2> QED
    BY <1>1, <2>2, <2>3, <2>4, <2>5, <2>6, <2>7
       DEF DocumentStep, Miss, Live, Nil
<1>2. TypeOK /\ DocumentInv /\ VersionInv /\ [Next]_vars =>
        [\A d \in Devices : Live(d) /\ Live(d)' => Forward(d)]_vars
  BY <1>1 DEF Live
<1> QED
  BY <1>2, Invariant, PTL DEF Spec, NoReportRollback

\* A shadow becomes synced only through a report that is newer than its latest
\* desired write, or in the step that undoes a transaction which had found
\* nothing desired: a late write turns it stale, a report made before that write
\* is discarded, and a rollback that restores anything leaves it stale
\* (conflict.MergeDesired, Store.ApplyReport, Store.Restore).
THEOREM SyncedIsReported ==
  ASSUME TrustedBases
  PROVE  Spec => SyncedMeansReportIsNewest
<1> DEFINE Synced(d) ==
      documents'[d].state = "synced" =>
        \/ documents'[d].reportedVersion > documents'[d].desiredVersion
        \/ documents'[d] = Clone(documents[d], documents'[d].obj)
        \/ /\ documents'[d].desired = 0
           /\ \E w \in Workers : task[w].pc = "restore" /\ task[w].device = d
                                 /\ task[w].before = 0 /\ task'[w] = Idle
<1>1. ASSUME TypeOK, DocumentInv, VersionInv, [Next]_vars, NEW d \in Devices
      PROVE  Synced(d)
  <2>1. documents[d] \in Document
    BY <1>1 DEF TypeOK
  <2>2. CASE documents'[d] \in {documents[d], Nil}
    BY <2>1, <2>2 DEF Clone, Document, Nil
  <2>3. ASSUME NEW w \in Workers, DesiredWrite(w, d) PROVE Synced(d)
    <3>1. PICK v \in Nat, p \in Nat, doc \in Document :
            /\ v = task[w].version /\ p = task[w].props /\ doc = Ensure(d, v)
      BY <1>1, <2>3, BusyWorker, EnsureType DEF DesiredWrite
    <3>2. documents'[d] = MergeDesired(doc, [version |-> v, props |-> p])
      BY <2>3, <3>1 DEF DesiredWrite
    <3>3. doc.desiredVersion \in Nat
      BY DEF Document
    <3>4. CASE v >= doc.desiredVersion
      BY <3>2, <3>4, MergeDesiredFields
    <3>5. CASE v < doc.desiredVersion
      <4>1. documents'[d] = Clone(doc, v)
        BY <3>2, <3>3, <3>5 DEF MergeDesired, Resolve
      <4>2. documents'[d].obj = v /\ documents'[d].state = doc.state
        BY <4>1 DEF Clone, Document
      <4>3. CASE Live(d)
        BY <3>1, <4>1, <4>2, <4>3 DEF Ensure, Live
      <4>4. CASE ~Live(d)
        BY <3>1, <4>2, <4>4 DEF Ensure, Live, NewDocument, Nil
      <4> QED
        BY <4>3, <4>4
    <3> QED
      BY <3>1, <3>3, <3>4, <3>5
  <2>4. ASSUME NEW w \in Workers, ReportWrite(w, d) PROVE Synced(d)
    BY <1>1, <2>4, AcceptedReportValues
  <2>5. ASSUME NEW w \in Workers, Creation(w, d) PROVE Synced(d)
    BY <2>1, <2>5 DEF Creation, Ensure, NewDocument, Nil, Clone, Document
  <2>6. ASSUME NEW w \in Workers, Rollback(w, d) PROVE Synced(d)
    <3>1. /\ documents'[d].desired = task[w].before
          /\ documents'[d].state = IF task[w].before # 0 THEN "stale" ELSE "synced"
      BY <2>1, <2>6 DEF Rollback, RestoredDocument, RefreshWatermark, Document
    <3> QED
      BY <2>6, <3>1 DEF Rollback
  <2>7. ASSUME NEW w \in Workers, Mark(w, d) PROVE Synced(d)
    BY <2>1, <2>7 DEF Mark, Document
  <2>8. DocumentStep(d) \/ documents'[d] \in {documents[d], Nil}
    BY <1>1, DocumentSteps DEF TypeOK
  <2> HIDE DEF Synced
  <2> QED
    BY <2>2, <2>3, <2>4, <2>5, <2>6, <2>7, <2>8 DEF DocumentStep, Miss, Synced
<1>2. TypeOK /\ DocumentInv /\ VersionInv /\ [Next]_vars =>
        [\A d \in Devices : Synced(d)]_vars
  BY <1>1
<1> QED
  BY <1>2, Invariant, PTL DEF Spec, SyncedMeansReportIsNewest

=============================================================================
