---------------------------- MODULE ShadowStore ----------------------------
(***************************************************************************)
(* The shadow store (internal/shadow) under the requests that change it:   *)
(* device reports (internal/report), single, batched and transactional     *)
(* desired writes (internal/desired), deletes, and the tombstone sweep.    *)
(*                                                                         *)
(* A worker is a goroutine serving one request.  A step is what happens    *)
(* between two releases of a lock: version allocation, the commit under    *)
(* Store.mu, the commit hook, the append under Store.historyMu, and so on. *)
(* Workers interleave freely between those steps, as the goroutines do.    *)
(*                                                                         *)
(* Whether a desired write reaches its device is a free choice here: the   *)
(* device side, which decides it, is not part of this module.              *)
(***************************************************************************)
EXTENDS Conflict, Sequences, FiniteSets

CONSTANTS
  Devices,
  Workers,         \* request goroutines
  NoDevice,        \* the device of a worker that serves nothing
  Requests,        \* the operations clients issue in an instance
  ReplaceSection,  \* conflict.Policy of the store
  ClaimedBases,    \* base versions that reports may claim
  TrustedBases,    \* TRUE: a report only claims a version already issued
  HistoryCap,      \* historyCap
  MaxVersions      \* bound: versions issued per device

RequestKind == {"report", "desired", "batch", "transaction", "delete", "gc"}
DesiredKind == {"desired", "batch", "transaction"}

ASSUME StoreAssumption ==
  /\ NoDevice \notin Devices /\ IsFiniteSet(Workers)
  /\ Requests \subseteq RequestKind
  /\ ReplaceSection \in BOOLEAN /\ TrustedBases \in BOOLEAN
  /\ ClaimedBases \subseteq Int
  /\ HistoryCap \in Nat \ {0}
  /\ MaxVersions \in Nat

VARIABLES
  next,        \* VersionAllocator.next: the last version issued per device
  documents,   \* Store.documents, Nil where the map has no entry
  tombstones,  \* the keys of Store.tombstones
  history,     \* Store.history
  onChange,    \* the last event the commit hook was called with
  task,        \* the local variables of each worker
  rolledBack   \* history variable: the transactions undone, by version

vars == <<next, documents, tombstones, history, onChange, task, rolledBack>>
storeVars == <<documents, tombstones, history>>

-----------------------------------------------------------------------------
Event == [type: {"none", "desired", "report", "delete", "reconnect"},
          version: Nat, snapshot: Document]
NoEvent == [type |-> "none", version |-> 0, snapshot |-> Nil]

(***************************************************************************)
(* doc is the *Document a worker holds after its commit (merged in the     *)
(* code); it is read after the lock is released, so doc follows in-place   *)
(* writes to that object.  seen holds every value the object has had since *)
(* the worker last synchronised: an unlocked read may see any of them.     *)
(* before and undo are RollbackPlan.before and the version it restores     *)
(* with.                                                                   *)
(***************************************************************************)
Task == [pc: {"idle", "alloc", "commit", "emit", "record", "deliver",
              "reread", "restore", "markStale"},
         kind: {"none", "report", "desired", "batch", "transaction", "delete"},
         device: Devices \cup {NoDevice},
         version: Nat, base: Int, keys: SUBSET Keys, props: Nat,
         before: Nat, undo: Nat, doc: Document, seen: SUBSET Document]

Idle == [pc |-> "idle", kind |-> "none", device |-> NoDevice,
         version |-> 0, base |-> 0, keys |-> {}, props |-> 0,
         before |-> 0, undo |-> 0, doc |-> Nil, seen |-> {}]

Init ==
  /\ next = [d \in Devices |-> 0]
  /\ documents = [d \in Devices |-> Nil]
  /\ tombstones = {}
  /\ history = [d \in Devices |-> <<>>]
  /\ onChange = [d \in Devices |-> NoEvent]
  /\ task = [w \in Workers |-> Idle]
  /\ rolledBack = [d \in Devices |-> {}]

-----------------------------------------------------------------------------
(* Starting a request.                                                     *)

IssueUnlocked(d) ==
  /\ next[d] < MaxVersions
  /\ next' \in {next, [next EXCEPT ![d] = @ + 1]}

\* VersionAllocator.Next: the counter is read and advanced under its mutex.
Issue(d) ==
  /\ next[d] < MaxVersions
  /\ next' = [next EXCEPT ![d] = @ + 1]

Begin(w, t) ==
  /\ task[w].pc = "idle"
  /\ task' = [task EXCEPT ![w] = t]

\* Service.HandleReport up to the allocated version.
HandleReport(w, d, base, keys) ==
  /\ "report" \in Requests
  /\ TrustedBases => base <= next[d]
  /\ Issue(d)
  /\ Begin(w, [Idle EXCEPT !.pc = "commit", !.kind = "report", !.device = d,
                           !.version = next[d] + 1, !.base = base,
                           !.keys = keys])
  /\ UNCHANGED <<storeVars, onChange, rolledBack>>

\* Service.ApplyDesired (which returns early on an empty map) and one item of
\* BatchService.ApplyBatch (which does not) up to the allocated version.
ApplyDesired(w, d, kind, empty) ==
  /\ kind \in Requests \cap {"desired", "batch"}
  /\ empty => kind = "batch"
  /\ Issue(d)
  /\ Begin(w, [Idle EXCEPT !.pc = "commit", !.kind = kind, !.device = d,
                           !.version = next[d] + 1,
                           !.props = IF empty THEN 0 ELSE next[d] + 1])
  /\ UNCHANGED <<storeVars, onChange, rolledBack>>

\* BatchService.ApplyTransactional: NewRollbackPlan reads the pre-image
\* through Store.Get, and only then a version is allocated.
ApplyTransactional(w, d) ==
  /\ "transaction" \in Requests
  /\ Begin(w, [Idle EXCEPT !.pc = "alloc", !.kind = "transaction",
                           !.device = d, !.before = documents[d].desired])
  /\ UNCHANGED <<next, storeVars, onChange, rolledBack>>

AllocTransaction(w) ==
  LET d == task[w].device IN
  /\ task[w].pc = "alloc"
  /\ Issue(d)
  /\ task' = [task EXCEPT ![w].pc = "commit", ![w].version = next[d] + 1,
                          ![w].props = next[d] + 1]
  /\ UNCHANGED <<storeVars, onChange, rolledBack>>

-----------------------------------------------------------------------------
(* Committing under Store.mu.                                              *)

\* ensure: the document of a device without tombstone, created when missing.
Ensure(d, obj) ==
  IF documents[d].state = "absent" THEN NewDocument(obj) ELSE documents[d]

\* The merged document replaces the stored one and the lock is released; the
\* worker keeps its pointer to it for the two events, and the payload of a
\* desired write for its delivery.
Commit(w, merged) ==
  /\ documents' = [documents EXCEPT ![task[w].device] = merged]
  /\ task' = [task EXCEPT
       ![w] = [Idle EXCEPT !.pc = "emit", !.kind = task[w].kind,
                           !.device = task[w].device,
                           !.version = task[w].version,
                           !.props = task[w].props,
                           !.before = task[w].before,
                           !.doc = merged, !.seen = {merged}]]
  /\ UNCHANGED <<next, tombstones, history, onChange, rolledBack>>

CommitDesiredAnyway(w) ==
  LET t == task[w] IN
  /\ t.pc = "commit" /\ t.kind \in DesiredKind
  /\ Commit(w, MergeDesired(Ensure(t.device, t.version),
                            [version |-> t.version, props |-> t.props]))

CommitDesired(w) ==
  LET t == task[w] IN
  /\ t.pc = "commit" /\ t.kind \in DesiredKind
  /\ t.device \notin tombstones
  /\ Commit(w, MergeDesired(Ensure(t.device, t.version),
                            [version |-> t.version, props |-> t.props]))

\* ensure answered nil: nothing is stored, no event is produced, and the
\* caller ignores it and goes on to deliver the operation.
DesiredOnTombstone(w) ==
  LET t == task[w] IN
  /\ t.pc = "commit" /\ t.kind \in DesiredKind
  /\ t.device \in tombstones
  /\ task' = [task EXCEPT ![w].pc = "deliver"]
  /\ UNCHANGED <<next, storeVars, onChange, rolledBack>>

\* The store discards a report based on a version older than the watermark.
ReportIsStale(t, doc) == t.base < doc.version

CommitReport(w) ==
  LET t   == task[w]
      doc == Ensure(t.device, t.version)
  IN
  /\ t.pc = "commit" /\ t.kind = "report"
  /\ t.device \notin tombstones
  /\ ~ReportIsStale(t, doc)
  /\ Commit(w, PolicyApplyReport(ReplaceSection, doc,
                 [version |-> t.version, base |-> t.base, keys |-> t.keys]))

\* A discarded report still leaves behind the document ensure created.
DiscardReport(w) ==
  LET t   == task[w]
      doc == Ensure(t.device, t.version)
  IN
  /\ t.pc = "commit" /\ t.kind = "report"
  /\ t.device \notin tombstones
  /\ ReportIsStale(t, doc)
  /\ documents' = [documents EXCEPT ![t.device] = doc]
  /\ task' = [task EXCEPT ![w] = Idle]
  /\ UNCHANGED <<next, tombstones, history, onChange, rolledBack>>

\* ErrNoShadow.
ReportOnTombstone(w) ==
  /\ task[w].pc = "commit" /\ task[w].kind = "report"
  /\ task[w].device \in tombstones
  /\ task' = [task EXCEPT ![w] = Idle]
  /\ UNCHANGED <<next, storeVars, onChange, rolledBack>>

Delete(w, d) ==
  /\ "delete" \in Requests
  /\ documents' = [documents EXCEPT ![d] = Nil]
  /\ tombstones' = tombstones \cup {d}
  /\ Begin(w, [Idle EXCEPT !.pc = "emit", !.kind = "delete", !.device = d,
                           !.seen = {Nil}])
  /\ UNCHANGED <<next, history, onChange, rolledBack>>

\* gcLoop drops the tombstones older than a cutoff.  Time is not modelled:
\* any set of tombstones may be the expired one.
GCTombstones ==
  /\ "gc" \in Requests
  /\ \E expired \in SUBSET tombstones \ {{}} :
       tombstones' = tombstones \ expired
  /\ UNCHANGED <<next, documents, history, onChange, task, rolledBack>>

-----------------------------------------------------------------------------
(* Publishing the change, after Store.mu was released.                     *)

(***************************************************************************)
(* The event's version is read from the document, and Clone then reads it  *)
(* field by field, while another worker may be writing it in place under   *)
(* the lock this reader no longer holds: each field that in-place writes   *)
(* assign is read from one of the values seen.                             *)
(***************************************************************************)
Readings(t) ==
  [event: t.seen, desired: t.seen, desiredVersion: t.seen, version: t.seen,
   state: t.seen]

EventTypeOfRequest(kind) == kind

EventType(kind) == IF kind \in DesiredKind THEN "desired" ELSE kind

ChangeEvent(t, read) ==
  [type |-> EventType(t.kind), version |-> read.event.version,
   snapshot |-> [t.doc EXCEPT !.desired = read.desired.desired,
                   !.desiredVersion = read.desiredVersion.desiredVersion,
                   !.version = read.version.version,
                   !.state = read.state.state]]

Emit(w) ==
  LET t == task[w] IN
  /\ t.pc = "emit"
  /\ \E read \in Readings(t) :
       onChange' = [onChange EXCEPT ![t.device] = ChangeEvent(t, read)]
  /\ task' = [task EXCEPT ![w].pc = "record", ![w].seen = {t.doc}]
  /\ UNCHANGED <<next, storeVars, rolledBack>>

TrimNewest(log) ==
  IF Len(log) > HistoryCap THEN SubSeq(log, 1, HistoryCap) ELSE log

\* History keeps the last HistoryCap events of a device.
Trim(log) ==
  IF Len(log) > HistoryCap
  THEN SubSeq(log, Len(log) - HistoryCap + 1, Len(log))
  ELSE log

RecordedFirst(log, event) == Trim(<<event>> \o log)

\* Store.record.
Recorded(log, event) == Trim(Append(log, event))

Record(w) ==
  LET t == task[w] IN
  /\ t.pc = "record"
  /\ \E read \in Readings(t) :
       history' = [history EXCEPT
                     ![t.device] = Recorded(@, ChangeEvent(t, read))]
  /\ task' = [task EXCEPT
       ![w] = IF t.kind \in DesiredKind
              THEN [t EXCEPT !.pc = "deliver", !.doc = Nil, !.seen = {}]
              ELSE Idle]
  /\ UNCHANGED <<next, documents, tombstones, onChange, rolledBack>>

-----------------------------------------------------------------------------
(* Delivery and what follows a failed one.                                 *)

\* sync.Service.Deliver answers whether the device received the operation.
\* Each item of a batch, and each retry of one, is a request of its own here.
Deliver(w, delivered) ==
  LET t == task[w] IN
  /\ t.pc = "deliver"
  /\ task' = [task EXCEPT
       ![w] = IF delivered \/ t.kind = "desired" THEN Idle
              ELSE IF t.kind = "batch" THEN [t EXCEPT !.pc = "markStale"]
              ELSE [t EXCEPT !.pc = "reread"]]
  /\ UNCHANGED <<next, storeVars, onChange, rolledBack>>

\* A delivered item of a batch that lists its device as failed all the same,
\* for another item or an earlier pass (Batch.Failed is never cleared): the
\* device is marked with the other failed ones.
DeliverAndMark(w) ==
  /\ task[w].pc = "deliver" /\ task[w].kind = "batch"
  /\ task' = [task EXCEPT ![w].pc = "markStale"]
  /\ UNCHANGED <<next, storeVars, onChange, rolledBack>>

\* RollbackPlan.Restore reads the current desired version through Store.Get.
RereadVersion(w) ==
  LET t == task[w] IN
  /\ t.pc = "reread"
  /\ task' = [task EXCEPT ![w].pc = "restore",
                          ![w].undo = documents[t.device].desiredVersion]
  /\ UNCHANGED <<next, storeVars, onChange, rolledBack>>

\* An in-place write to the stored document: every worker that still holds a
\* pointer to that object reads the new value.
WriteInPlace(w, d, doc) ==
  /\ documents' = [documents EXCEPT ![d] = doc]
  /\ task' = [x \in Workers |->
       IF x = w THEN Idle
       ELSE IF task[x].device = d /\ task[x].doc.obj = doc.obj
       THEN [task[x] EXCEPT !.doc = doc, !.seen = @ \cup {doc}]
       ELSE task[x]]

RestoredAsNewVersion(doc, before, version) ==
  RefreshWatermark([doc EXCEPT
    !.desired = before, !.desiredVersion = @ + 1, !.state = "stale"])

RestoredDocument(doc, before, version) ==
  RefreshWatermark([doc EXCEPT
    !.desired = before,
    !.desiredVersion = MaxVersion(@, version),
    !.state = IF before # 0 THEN "stale" ELSE "synced"])

\* Store.Restore.  No event is emitted.
Restore(w) ==
  LET t   == task[w]
      doc == documents[t.device]
  IN
  /\ t.pc = "restore"
  /\ WriteInPlace(w, t.device,
       IF doc.state = "absent" THEN Nil
       ELSE RestoredDocument(doc, t.before, t.undo))
  /\ rolledBack' = [rolledBack EXCEPT ![t.device] = @ \cup {t.version}]
  /\ UNCHANGED <<next, tombstones, history, onChange>>

\* Store.MarkBatchPartial for the failed device.  No event is emitted.
MarkBatchPartial(w) ==
  LET t   == task[w]
      doc == documents[t.device]
  IN
  /\ t.pc = "markStale"
  /\ WriteInPlace(w, t.device,
       IF doc.state = "absent" THEN Nil ELSE [doc EXCEPT !.state = "stale"])
  /\ UNCHANGED <<next, tombstones, history, onChange, rolledBack>>

-----------------------------------------------------------------------------
Start(w) ==
  \E d \in Devices :
    \/ \E base \in ClaimedBases, keys \in SUBSET Keys :
         HandleReport(w, d, base, keys)
    \/ \E kind \in {"desired", "batch"}, empty \in BOOLEAN :
         ApplyDesired(w, d, kind, empty)
    \/ ApplyTransactional(w, d)
    \/ Delete(w, d)

Step(w) ==
  \/ AllocTransaction(w)
  \/ CommitDesired(w)
  \/ DesiredOnTombstone(w)
  \/ CommitReport(w)
  \/ DiscardReport(w)
  \/ ReportOnTombstone(w)
  \/ Emit(w)
  \/ Record(w)
  \/ \E delivered \in BOOLEAN : Deliver(w, delivered)
  \/ DeliverAndMark(w)
  \/ RereadVersion(w)
  \/ Restore(w)
  \/ MarkBatchPartial(w)

Next == (\E w \in Workers : Start(w) \/ Step(w)) \/ GCTombstones

Spec == Init /\ [][Next]_vars

-----------------------------------------------------------------------------
(* Properties of the stored documents.                                     *)

TypeOK ==
  /\ next \in [Devices -> Nat]
  /\ documents \in [Devices -> Document]
  /\ tombstones \in SUBSET Devices
  /\ history \in [Devices -> Seq(Event)]
  /\ onChange \in [Devices -> Event]
  /\ task \in [Workers -> Task]
  /\ \A w \in Workers : task[w].pc # "idle" => task[w].device \in Devices
  /\ rolledBack \in [Devices -> SUBSET Nat]

Live(d) == documents[d].state # "absent"

\* A deleted shadow is not rebuilt by an operation still in flight: as long
\* as a device is tombstoned no commit, discarded report, rollback or batch
\* mark gives it a document again (Store.ensure, Store.Delete).
TombstoneExcludesDocument == \A d \in tombstones : ~Live(d)

\* The watermark that sync offsets and notifications use is the larger of the
\* two section versions, after every kind of commit and every in-place write
\* (Document.RefreshWatermark: "must be called after any section version
\* change").
WatermarkIsMax ==
  \A d \in Devices :
    documents[d].version = MaxVersion(documents[d].desiredVersion,
                                      documents[d].reportedVersion)

\* One allocator serves both directions: however reports and desired writes
\* interleave between allocation and commit, the two sections never carry the
\* same version, and no version that was not issued (VersionAllocator).
SectionVersionsDistinct ==
  \A d \in Devices :
    /\ documents[d].version <= next[d]
    /\ documents[d].desiredVersion = documents[d].reportedVersion
         => documents[d].version = 0

\* A desired write that lost the race to a newer one leaves no trace: the
\* desired section is the payload of exactly the write its version names
\* (conflict.MergeDesired).  An empty batch item writes 0; rollbacks, which
\* break the link on purpose, are left out of the runs that check this.
DesiredMatchesVersion ==
  \A d \in Devices :
    \/ documents[d].desired = documents[d].desiredVersion
    \/ documents[d].desired = 0 /\ "batch" \in Requests

\* A shadow becomes synced only through a report that is newer than its latest
\* desired write, however late writes, late reports, rollbacks and marks
\* interleave (State, doc.go).  The one other way is the step by which a
\* transaction that had found nothing desired is undone: Store.Restore declares
\* such a shadow synced without a report.  No later step is excused by it.
SyncedMeansReportIsNewest ==
  [][\A d \in Devices : documents'[d].state = "synced" =>
       \/ documents'[d].reportedVersion > documents'[d].desiredVersion
       \/ documents'[d] = Clone(documents[d], documents'[d].obj)
       \/ /\ documents'[d].desired = 0
          /\ \E w \in Workers : task[w].pc = "restore" /\ task[w].device = d
                                /\ task[w].before = 0 /\ task'[w] = Idle]_vars

\* "A report that races a newer report never rolls the shadow back"
\* (Store.ApplyReport): no reported property returns to an older report, as long
\* as no report claims a base that was not issued (TrustedBases).
NoReportRollback ==
  [][\A d \in Devices : Live(d) /\ Live(d)' =>
       \A k \in Keys :
         \/ documents'[d].reported[k] >= documents[d].reported[k]
         \/ ReplaceSection /\ documents'[d].reported[k] = 0]_vars

\* "Desired and reported sections advance independently" (conflict.go): a step
\* that changes one section of a live shadow leaves the other one and its version
\* alone (conflict.MergeDesired, MergeReport, Store.Restore).  What that sentence
\* infers from it is JudgedByOwnSection.
SectionsIndependent ==
  [][\A d \in Devices : Live(d) /\ Live(d)' =>
       \/ /\ documents'[d].desired = documents[d].desired
          /\ documents'[d].desiredVersion = documents[d].desiredVersion
       \/ /\ documents'[d].reported = documents[d].reported
          /\ documents'[d].reportedVersion = documents[d].reportedVersion]_vars

\* While a shadow lives, neither section version nor the watermark regresses,
\* whatever order operations commit in and whatever a rollback restores.
VersionsNeverRegress ==
  [][\A d \in Devices : Live(d) /\ Live(d)' =>
       /\ documents'[d].desiredVersion >= documents[d].desiredVersion
       /\ documents'[d].reportedVersion >= documents[d].reportedVersion
       /\ documents'[d].version >= documents[d].version]_vars

\* "Desired and reported sections advance independently, so an operation is only
\* judged stale against its own section version" (package conflict), "a report
\* that is stale against the reported section is rejected" (HandleReport): a
\* report based on the reported version, or a later one, is committed.
JudgedByOwnSection ==
  [][\A w \in Workers :
       LET t == task[w]  d == task[w].device IN
       /\ t.pc = "commit" /\ t.kind = "report" /\ task'[w].pc # "commit"
       /\ d \notin tombstones
       /\ t.base >= documents[d].reportedVersion
       => task'[w].pc = "emit"]_vars

-----------------------------------------------------------------------------
(* Properties of the change events.                                        *)

Logged(d) == {history[d][i] : i \in DOMAIN history[d]}

\* Events are appended outside the store's lock, so one can be appended late,
\* but only by a goroutine that was already between its commit and the append.
\* "Commit order" (audit.go) holds up to one such event per other goroutine.
HistoryInCommitOrder ==
  \A d \in Devices : \A i \in DOMAIN history[d] :
    Cardinality({j \in i + 1 .. Len(history[d]) :
                   /\ history[d][i].type # "delete" /\ history[d][j].type # "delete"
                   /\ history[d][j].version < history[d][i].version})
      < Cardinality(Workers)

\* What an event tells of the present shadow.  Rollbacks and marks follow their
\* write's event and have none of their own, so they alone may be missing.
Shows(snapshot, d) ==
  LET doc == documents[d] IN
  /\ snapshot.reported = doc.reported
  /\ snapshot.reportedVersion = doc.reportedVersion
  /\ rolledBack[d] = {} =>
       /\ snapshot.desired = doc.desired
       /\ snapshot.desiredVersion = doc.desiredVersion
       /\ snapshot.state = doc.state \/ doc.state = "stale"

\* The cap evicts old events and no others: with no request under way, the
\* present shadow is told of by one of the last events, one for every goroutine
\* that may have been appending (Store.record), however commits and appends
\* interleaved.
HistoryKeepsNewest ==
  \A d \in Devices :
    (\A w \in Workers : task[w].pc = "idle") /\ documents[d].version > 0
    => \E i \in DOMAIN history[d] :
         /\ i > Len(history[d]) - Cardinality(Workers)
         /\ history[d][i].version = documents[d].version
         /\ Shows(history[d][i].snapshot, d)

\* What the reconnect sync depends on (Store.ListDesiredSince): the latest
\* desired write of a live shadow is in the history, or the worker that
\* committed it is about to append it, or newer events have evicted it.
LatestDesiredRecorded ==
  \A d \in Devices : documents[d].desiredVersion > 0 =>
    \/ \E e \in Logged(d) :
         /\ e.type = "desired"
         /\ e.snapshot.desiredVersion >= documents[d].desiredVersion
    \/ \E w \in Workers :
         /\ task[w].device = d /\ task[w].pc \in {"emit", "record"}
         /\ task[w].kind \in DesiredKind
         /\ task[w].doc.desiredVersion >= documents[d].desiredVersion
    \/ /\ Len(history[d]) = HistoryCap
       /\ Cardinality({i \in DOMAIN history[d] :
                         history[d][i].version < documents[d].desiredVersion})
            < Cardinality(Workers)

\* "Snapshot is a deep copy taken at commit time so consumers never observe a
\* half update" (event.go): the snapshot the hook gets is a state the document
\* was in, and the event's version is that snapshot's version.
SnapshotNeverHalfUpdated ==
  [][\A w \in Workers :
       LET t == task[w]  event == onChange'[t.device] IN
       t.pc = "emit" /\ t.kind # "delete" /\ task'[w].pc = "record" =>
         event.snapshot \in t.seen /\ event.version = event.snapshot.version]_vars

-----------------------------------------------------------------------------
(* Properties of rollbacks.                                                *)

\* "the shadow desired section is rolled back to its pre-image so no property
\* stays in the half-applied state" (rollback.go): the payload of a
\* transaction that was undone is not in the shadow.
RolledBackStaysOut ==
  \A d \in Devices : documents[d].desired \notin rolledBack[d]

-----------------------------------------------------------------------------
(***************************************************************************)
(* The store implements a pair of registers per device (ShadowRegisters):  *)
(* a version is pending from its allocation to the end of the operation's  *)
(* commit.                                                                 *)
(***************************************************************************)
PendingVersions(d) ==
  {task[w].version : w \in {x \in Workers : task[x].device = d
                                          /\ task[x].pc = "commit"}}

Registers == INSTANCE ShadowRegisters WITH
  issued   <- next,
  pending  <- [d \in Devices |-> PendingVersions(d)],
  desired  <- [d \in Devices |-> documents[d].desiredVersion],
  reported <- [d \in Devices |-> documents[d].reportedVersion]

\* Every behaviour of the store is one of the two registers: no interleaving
\* of requests spends a version twice or lets an older operation win.
ImplementsRegisters == Registers!Spec

=============================================================================
