-------------------------- MODULE RegistersProofs --------------------------
(***************************************************************************)
(* Proofs that the shadow store implements the pair of registers of        *)
(* ShadowRegisters, and that its desired section is the payload of the     *)
(* write its version names.                                                *)
(***************************************************************************)
EXTENDS ShadowStoreProofs

StoreInv == TypeOK /\ KindInv /\ DocumentInv /\ VersionInv

-----------------------------------------------------------------------------
(* Without the sweep a deleted shadow never lives again, and so a rollback *)
(* restores a version that is not newer than the desired section.          *)

UndoInv ==
  \A x \in Workers :
    task[x].pc = "restore" /\ task[x].device \notin tombstones =>
      task[x].undo <= documents[task[x].device].desiredVersion

LEMMA TombstonesStay ==
  ASSUME TypeOK, [Next]_vars, "gc" \notin Requests
  PROVE  tombstones \subseteq tombstones'
<1>1. CASE UNCHANGED vars
  BY <1>1 DEF vars
<1>2. ASSUME NEW w \in Workers, Start(w) PROVE tombstones \subseteq tombstones'
  BY <1>2 DEF Start, HandleReport, ApplyDesired, ApplyTransactional, Delete, storeVars
<1>3. ASSUME NEW w \in Workers, Step(w) PROVE tombstones' = tombstones
  BY <1>3 DEF Step, AllocTransaction, CommitDesired, DesiredOnTombstone, CommitReport,
              DiscardReport, ReportOnTombstone, Commit, Emit, Record, Deliver,
              DeliverAndMark, RereadVersion, Restore, MarkBatchPartial, storeVars
<1>4. ~GCTombstones
  BY DEF GCTombstones
<1>5. QED
  BY <1>1, <1>2, <1>3, <1>4 DEF Next

LEMMA DesiredVersionGrows ==
  ASSUME TypeOK, DocumentInv, TypeOK', [Next]_vars, NEW d \in Devices, d \notin tombstones'
  PROVE  documents'[d].desiredVersion >= documents[d].desiredVersion
<1>1. CASE Live(d)
  BY <1>1, SectionStep
<1>2. CASE ~Live(d)
  <2>1. documents[d].desiredVersion = 0 /\ documents'[d].desiredVersion \in Nat
    BY <1>2 DEF TypeOK, Document, Live, DocumentInv, DocumentOK, Nil
  <2>2. QED
    BY <2>1
<1>3. QED
  BY <1>1, <1>2

LEMMA NextUndo ==
  ASSUME TypeOK, TypeOK', KindInv, DocumentInv, UndoInv, [Next]_vars,
         "gc" \notin Requests
  PROVE  UndoInv'
<1> SUFFICES ASSUME NEW x \in Workers, task'[x].pc = "restore",
                    task'[x].device \notin tombstones'
             PROVE  task'[x].undo <= documents'[task'[x].device].desiredVersion
  BY DEF UndoInv
<1>1. task'[x].device \in Devices
  BY DEF TypeOK
<1>2. CASE Stays(x)
  <2> DEFINE d == task[x].device
  <2>1. /\ task[x].pc = "restore" /\ d \in Devices /\ d \notin tombstones
        /\ task'[x].undo = task[x].undo /\ task'[x].device = d /\ d \notin tombstones'
    BY <1>1, <1>2, TombstonesStay DEF Stays
  <2>2. task[x].undo <= documents[d].desiredVersion
    BY <2>1 DEF UndoInv
  <2>3. documents'[d].desiredVersion >= documents[d].desiredVersion
    BY <2>1, DesiredVersionGrows
  <2>4. /\ task[x].undo \in Nat /\ documents[d].desiredVersion \in Nat
        /\ documents'[d].desiredVersion \in Nat
    BY <2>1 DEF TypeOK, Task, Document
  <2> HIDE DEF d
  <2>5. QED
    BY <2>1, <2>2, <2>3, <2>4
<1>3. CASE Reread(x)
  BY <1>1, <1>3 DEF Reread, TypeOK, Document
<1>4. Stays(x) \/ Reread(x)
  BY TaskSteps DEF TaskStep, Issued, Works
<1>5. QED
  BY <1>2, <1>3, <1>4

-----------------------------------------------------------------------------
(* What a step does to the registers.                                      *)

Others(w) == \A x \in Workers \ {w} : Stays(x)

Keeps(d) ==
  /\ documents'[d].desiredVersion = documents[d].desiredVersion
  /\ documents'[d].reportedVersion = documents[d].reportedVersion

\* w is given a version.
Issues(w) ==
  /\ Others(w) /\ task[w].pc # "commit" /\ Issued(w)
  /\ documents' = documents

\* The operation of w ends, and its version wins a section or is dropped.
Settles(w) ==
  LET d == task[w].device  v == task[w].version IN
  /\ Others(w) /\ task[w].pc = "commit" /\ task'[w].pc # "commit"
  /\ d \in Devices /\ next' = next
  /\ \A e \in Devices : e # d => Keeps(e)
  /\ \/ Keeps(d)
     \/ /\ v > documents[d].desiredVersion
        /\ documents'[d].desiredVersion = v
        /\ documents'[d].reportedVersion = documents[d].reportedVersion
     \/ /\ v > documents[d].desiredVersion /\ v > documents[d].reportedVersion
        /\ documents'[d].reportedVersion = v
        /\ documents'[d].desiredVersion = documents[d].desiredVersion

\* w does something else.
Rests(w) ==
  /\ Others(w) /\ task[w].pc # "commit" /\ task'[w].pc # "commit"
  /\ next' = next

LEMMA IssueStep ==
  ASSUME StoreInv, NEW w \in Workers, TaskStep(w), task[w].pc # "commit",
         NEW d \in Devices, Issue(d), documents' = documents
  PROVE  Issues(w)
<1>1. next' # next
  BY DEF Issue, StoreInv, TypeOK
<1>2. QED
  BY <1>1 DEF TaskStep, Reread, Works, Issues, Others

\* Starting a request issues a version, deletes a shadow or does neither.
LEMMA StartShape ==
  ASSUME StoreInv, NEW w \in Workers, Start(w)
  PROVE  \/ Issues(w)
         \/ Rests(w) /\ documents' = documents
         \/ \E d \in Devices : Rests(w) /\ documents' = [documents EXCEPT ![d] = Nil]
<1>1. TaskStep(w)
  BY StartTask DEF StoreInv
<1>2. task[w].pc = "idle"
  BY DEF Start, HandleReport, ApplyDesired, ApplyTransactional, Delete, Begin
<1>3. ASSUME NEW d \in Devices, NEW base \in ClaimedBases, NEW keys \in SUBSET Keys,
             HandleReport(w, d, base, keys)
      PROVE  Issues(w)
  BY <1>1, <1>2, <1>3, IssueStep DEF HandleReport, storeVars
<1>4. ASSUME NEW d \in Devices, NEW kind \in {"desired", "batch"},
             NEW empty \in BOOLEAN, ApplyDesired(w, d, kind, empty)
      PROVE  Issues(w)
  BY <1>1, <1>2, <1>4, IssueStep DEF ApplyDesired, storeVars
<1>5. ASSUME next' = next, task'[w].pc # "commit" PROVE Rests(w)
  BY <1>1, <1>2, <1>5 DEF TaskStep, Rests, Others
<1>6. ASSUME NEW d \in Devices, ApplyTransactional(w, d)
      PROVE  Rests(w) /\ documents' = documents
  <2> DEFINE t == [Idle EXCEPT !.pc = "alloc", !.kind = "transaction",
                    !.device = d, !.before = documents[d].desired]
  <2>1. t.pc = "alloc"
    BY DEF Idle
  <2>2. Begin(w, t) /\ next' = next /\ documents' = documents
    BY <1>6 DEF ApplyTransactional, storeVars
  <2> HIDE DEF t
  <2>3. task'[w].pc = "alloc"
    BY <2>1, <2>2 DEF Begin, StoreInv, TypeOK
  <2>4. QED
    BY <1>5, <2>2, <2>3
<1>7. ASSUME NEW d \in Devices, Delete(w, d)
      PROVE  Rests(w) /\ documents' = [documents EXCEPT ![d] = Nil]
  <2> DEFINE t == [Idle EXCEPT !.pc = "emit", !.kind = "delete", !.device = d,
                    !.seen = {Nil}]
  <2>1. t.pc = "emit"
    BY DEF Idle
  <2>2. Begin(w, t) /\ next' = next /\ documents' = [documents EXCEPT ![d] = Nil]
    BY <1>7 DEF Delete
  <2> HIDE DEF t
  <2>3. task'[w].pc = "emit"
    BY <2>1, <2>2 DEF Begin, StoreInv, TypeOK
  <2>4. QED
    BY <1>5, <2>2, <2>3
<1>8. QED
  BY <1>3, <1>4, <1>6, <1>7 DEF Start

\* A commit ends an operation: nothing is issued and w is past it.
LEMMA SettleStep ==
  ASSUME StoreInv, NEW w \in Workers, TaskStep(w), task[w].pc = "commit",
         next' = next
  PROVE  /\ Others(w) /\ task'[w].pc # "commit" /\ task[w].device \in Devices
         /\ Holds(w, task[w].device)
<1>1. ~Issued(w)
  <2>1. SUFFICES ASSUME Issued(w) PROVE FALSE
    OBVIOUS
  <2>2. PICK d \in Devices : next' = [next EXCEPT ![d] = @ + 1]
    BY <2>1 DEF Issued
  <2>3. QED
    BY <2>2 DEF StoreInv, TypeOK
<1>2. QED
  BY <1>1, BusyWorker DEF TaskStep, Reread, Works, Others, StoreInv, Holds

LEMMA CommitDesiredShape ==
  ASSUME StoreInv, NEW w \in Workers, TaskStep(w), CommitDesired(w)
  PROVE  Settles(w)
<1> DEFINE d == task[w].device
           v == task[w].version
           doc == documents[d]
           e == Ensure(d, v)
           out == MergeDesired(e, [version |-> v, props |-> task[w].props])
<1>1. /\ task[w].pc = "commit" /\ d \in Devices /\ next' = next
      /\ documents' = [documents EXCEPT ![d] = out]
      /\ v \in Nat /\ task[w].props \in Nat
  BY BusyWorker DEF CommitDesired, Commit, StoreInv
<1>2. Others(w) /\ task'[w].pc # "commit" /\ Holds(w, d)
  BY <1>1, SettleStep
<1>3. /\ e \in Document /\ e.desiredVersion = doc.desiredVersion
      /\ e.reportedVersion = doc.reportedVersion /\ doc.desiredVersion \in Nat
  BY <1>1, EnsureType, EnsureOK DEF StoreInv, DocumentInv, TypeOK, Document
<1>4. v # doc.desiredVersion
  BY <1>1, <1>2 DEF StoreInv, VersionInv, DeviceOK
<1> HIDE DEF e
<1>5. /\ out.reportedVersion = doc.reportedVersion
      /\ v < doc.desiredVersion => out.desiredVersion = doc.desiredVersion
      /\ v >= doc.desiredVersion => out.desiredVersion = v
  BY <1>1, <1>3, MergeDesiredFields
<1>6. documents'[d] = out /\ \A x \in Devices : x # d => Keeps(x)
  BY <1>1 DEF StoreInv, TypeOK, Keeps
<1> HIDE DEF out
<1>7. \/ Keeps(d)
      \/ /\ v > doc.desiredVersion /\ documents'[d].desiredVersion = v
         /\ documents'[d].reportedVersion = doc.reportedVersion
  BY <1>1, <1>3, <1>4, <1>5, <1>6 DEF Keeps
<1>8. QED
  BY <1>1, <1>2, <1>6, <1>7 DEF Settles

LEMMA CommitReportShape ==
  ASSUME StoreInv, NEW w \in Workers, TaskStep(w), CommitReport(w), TrustedBases
  PROVE  Settles(w)
<1> DEFINE d == task[w].device
           v == task[w].version
           doc == documents[d]
           e == Ensure(d, v)
           out == PolicyApplyReport(ReplaceSection, e,
                    [version |-> v, base |-> task[w].base, keys |-> task[w].keys])
<1>1. /\ task[w].pc = "commit" /\ task[w].kind = "report" /\ d \in Devices
      /\ next' = next /\ documents' = [documents EXCEPT ![d] = out]
      /\ ~ReportIsStale(task[w], e) /\ d \notin tombstones
      /\ v \in Nat /\ task[w].base \in Int /\ task[w].keys \in SUBSET Keys
  BY BusyWorker DEF CommitReport, Commit, StoreInv
<1>2. Others(w) /\ task'[w].pc # "commit"
  BY <1>1, SettleStep
<1>3. documents'[d] = out /\ \A x \in Devices : x # d => Keeps(x)
  BY <1>1 DEF StoreInv, TypeOK, Keeps
<1>4. v > doc.desiredVersion /\ v > doc.reportedVersion
  <2>1. ReportWrite(w, d)
    BY <1>1, <1>2, <1>3 DEF ReportWrite
  <2>2. QED
    BY <1>1, <2>1, AcceptedReport DEF StoreInv
<1>5. /\ e \in Document /\ e.desiredVersion = doc.desiredVersion
      /\ e.reportedVersion = doc.reportedVersion /\ e.version = doc.version
      /\ doc.desiredVersion \in Nat /\ doc.reportedVersion \in Nat
      /\ doc.version = MaxVersion(doc.desiredVersion, doc.reportedVersion)
  BY <1>1, EnsureType, EnsureOK DEF StoreInv, DocumentInv, DocumentOK, TypeOK, Document
<1>6. task[w].base >= e.reportedVersion
  BY <1>1, <1>5 DEF ReportIsStale, MaxVersion
<1> HIDE DEF e
<1>7. /\ out.desiredVersion = doc.desiredVersion
      /\ out.reportedVersion = MaxVersion(doc.reportedVersion, v)
  BY <1>1, <1>5, <1>6, PolicyApplyReportFields, StoreAssumption
<1>8. MaxVersion(doc.reportedVersion, v) = v
  BY <1>1, <1>4, <1>5 DEF MaxVersion
<1> HIDE DEF out
<1>9. QED
  BY <1>1, <1>2, <1>3, <1>4, <1>7, <1>8 DEF Settles

\* An operation that finds a tombstone, and a stale report, are dropped.
LEMMA DropShape ==
  ASSUME StoreInv, NEW w \in Workers, TaskStep(w),
         DesiredOnTombstone(w) \/ DiscardReport(w) \/ ReportOnTombstone(w)
  PROVE  Settles(w)
<1> DEFINE d == task[w].device
<1>1. task[w].pc = "commit" /\ next' = next
  BY DEF DesiredOnTombstone, DiscardReport, ReportOnTombstone, storeVars
<1>2. Others(w) /\ task'[w].pc # "commit" /\ d \in Devices
  BY <1>1, SettleStep
<1>3. \A x \in Devices : Keeps(x)
  <2>1. CASE DiscardReport(w)
    <3>1. documents' = [documents EXCEPT ![d] = Ensure(d, task[w].version)]
      BY <2>1 DEF DiscardReport
    <3>2. /\ Ensure(d, task[w].version).desiredVersion = documents[d].desiredVersion
          /\ Ensure(d, task[w].version).reportedVersion = documents[d].reportedVersion
      BY <1>1, <1>2, BusyWorker, EnsureOK DEF StoreInv, DocumentInv
    <3>3. QED
      BY <1>2, <3>1, <3>2 DEF StoreInv, TypeOK, Keeps
  <2>2. CASE DesiredOnTombstone(w) \/ ReportOnTombstone(w)
    BY <2>2 DEF DesiredOnTombstone, ReportOnTombstone, storeVars, Keeps
  <2>3. QED
    BY <2>1, <2>2
<1>4. QED
  BY <1>1, <1>2, <1>3 DEF Settles

\* A rollback writes no version that the desired section does not have yet.
LEMMA RestoreKeeps ==
  ASSUME StoreInv, UndoInv, NEW w \in Workers, Restore(w)
  PROVE  \A d \in Devices : Keeps(d)
<1> DEFINE d == task[w].device
           doc == documents[d]
           out == IF doc.state = "absent" THEN Nil
                  ELSE RestoredDocument(doc, task[w].before, task[w].undo)
<1>1. /\ task[w].pc = "restore" /\ d \in Devices /\ doc \in Document
      /\ task[w].before \in Nat /\ task[w].undo \in Nat
      /\ doc.desiredVersion \in Nat
  BY BusyWorker DEF Restore, StoreInv, Document
<1>2. documents' = [documents EXCEPT ![d] = out]
  BY DEF Restore, WriteInPlace
<1>3. /\ out.desiredVersion = doc.desiredVersion
      /\ out.reportedVersion = doc.reportedVersion
  <2>1. CASE doc.state = "absent"
    BY <1>1, <2>1 DEF StoreInv, DocumentInv, DocumentOK
  <2>2. CASE doc.state # "absent"
    <3>1. d \notin tombstones
      BY <1>1, <2>2 DEF StoreInv, DocumentInv, TombstoneExcludesDocument, Live
    <3>2. task[w].undo <= doc.desiredVersion
      BY <1>1, <3>1 DEF UndoInv
    <3>3. /\ out.reportedVersion = doc.reportedVersion
          /\ out.desiredVersion \in {doc.desiredVersion, task[w].undo}
          /\ out.desiredVersion >= doc.desiredVersion
      <4>1. PICK old \in Document, before \in Nat, undo \in Nat :
              old = doc /\ before = task[w].before /\ undo = task[w].undo
        BY <1>1
      <4>2. out = RestoredDocument(old, before, undo)
        BY <2>2, <4>1
      <4>3. /\ out.reportedVersion = old.reportedVersion
            /\ out.desiredVersion \in {old.desiredVersion, undo}
            /\ out.desiredVersion >= old.desiredVersion
        BY <4>2, RestoredDocumentFields
      <4> QED
        BY <4>1, <4>3
    <3> HIDE DEF out
    <3>4. QED
      BY <1>1, <3>2, <3>3
  <2>3. QED
    BY <2>1, <2>2
<1> HIDE DEF out
<1>4. QED
  BY <1>1, <1>2, <1>3 DEF StoreInv, TypeOK, Keeps

LEMMA MarkKeeps ==
  ASSUME StoreInv, NEW w \in Workers, MarkBatchPartial(w)
  PROVE  \A d \in Devices : Keeps(d)
<1> DEFINE d == task[w].device
           doc == documents[d]
           out == IF doc.state = "absent" THEN Nil ELSE [doc EXCEPT !.state = "stale"]
<1>1. d \in Devices /\ doc \in Document
  BY BusyWorker DEF MarkBatchPartial, StoreInv
<1>2. documents' = [documents EXCEPT ![d] = out]
  BY DEF MarkBatchPartial, WriteInPlace
<1>3. /\ out.desiredVersion = doc.desiredVersion
      /\ out.reportedVersion = doc.reportedVersion
  BY <1>1 DEF StoreInv, DocumentInv, DocumentOK, Document
<1> HIDE DEF out
<1>4. QED
  BY <1>1, <1>2, <1>3 DEF StoreInv, TypeOK, Keeps

LEMMA StepShape ==
  ASSUME StoreInv, UndoInv, TrustedBases, NEW w \in Workers, Step(w)
  PROVE  \/ Issues(w) \/ Settles(w)
         \/ Rests(w) /\ \A d \in Devices : Keeps(d)
<1>1. TaskStep(w)
  BY StepTask DEF StoreInv
<1>2. CASE AllocTransaction(w)
  <2>1. task[w].pc # "commit" /\ task[w].device \in Devices
    BY <1>2, BusyWorker DEF AllocTransaction, StoreInv
  <2>2. QED
    BY <1>1, <1>2, <2>1, IssueStep DEF AllocTransaction, storeVars
<1>3. CASE \/ CommitDesired(w) \/ CommitReport(w) \/ DesiredOnTombstone(w)
           \/ DiscardReport(w) \/ ReportOnTombstone(w)
  BY <1>1, <1>3, CommitDesiredShape, CommitReportShape, DropShape
<1>4. ASSUME task[w].pc # "commit", next' = next PROVE Rests(w)
  <2>1. ~Issued(w)
    <3>1. SUFFICES ASSUME Issued(w) PROVE FALSE
      OBVIOUS
    <3>2. PICK d \in Devices : next' = [next EXCEPT ![d] = @ + 1]
      BY <3>1 DEF Issued
    <3>3. QED
      BY <1>4, <3>2 DEF StoreInv, TypeOK
  <2>2. QED
    BY <1>1, <1>4, <2>1 DEF TaskStep, Reread, Works, Rests, Others
<1>5. CASE Restore(w)
  <2>1. task[w].pc # "commit" /\ next' = next
    BY <1>5 DEF Restore
  <2>2. QED
    BY <1>4, <1>5, <2>1, RestoreKeeps
<1>6. CASE MarkBatchPartial(w)
  <2>1. task[w].pc # "commit" /\ next' = next
    BY <1>6 DEF MarkBatchPartial
  <2>2. QED
    BY <1>4, <1>6, <2>1, MarkKeeps
<1>7. CASE \/ Emit(w) \/ Record(w) \/ RereadVersion(w)
           \/ DeliverAndMark(w) \/ \E delivered \in BOOLEAN : Deliver(w, delivered)
  <2>1. task[w].pc # "commit" /\ next' = next /\ documents' = documents
    BY <1>7 DEF Emit, Record, RereadVersion, Deliver, DeliverAndMark, storeVars
  <2>2. QED
    BY <1>4, <2>1 DEF Keeps
<1>8. QED
  BY <1>2, <1>3, <1>5, <1>6, <1>7 DEF Step

-----------------------------------------------------------------------------
(* The refinement.                                                         *)

Pending == [d \in Devices |-> PendingVersions(d)]
Desired == [d \in Devices |-> documents[d].desiredVersion]
Reported == [d \in Devices |-> documents[d].reportedVersion]

LEMMA KeptRegisters ==
  ASSUME \A d \in Devices : Keeps(d)
  PROVE  UNCHANGED <<Desired, Reported>>
  BY DEF Keeps, Desired, Reported

LEMMA IssuesPending ==
  ASSUME StoreInv, NEW w \in Workers, Issues(w)
  PROVE  \E d \in Devices :
           /\ next' = [next EXCEPT ![d] = @ + 1]
           /\ Pending' = [Pending EXCEPT ![d] = @ \cup {next[d] + 1}]
<1> DEFINE d == task'[w].device
<1>1. /\ d \in Devices /\ next' = [next EXCEPT ![d] = @ + 1]
      /\ task'[w].pc = "commit" /\ task'[w].version = next[d] + 1
      /\ task[w].pc # "commit"
  BY DEF Issues, Issued
<1>2. \A x \in Workers \ {w} : Stays(x)
  BY DEF Issues, Others
<1>3. ASSUME NEW e \in Devices
      PROVE  PendingVersions(e)' = IF e = d THEN PendingVersions(e) \cup {next[d] + 1}
                                   ELSE PendingVersions(e)
  <2>1. ASSUME NEW v
        PROVE  v \in PendingVersions(e)' <=>
                 v \in PendingVersions(e) \/ (e = d /\ v = next[d] + 1)
    BY <1>1, <1>2 DEF PendingVersions, Stays
  <2>2. QED
    BY <2>1
<1>4. Pending' = [Pending EXCEPT ![d] = @ \cup {next[d] + 1}]
  BY <1>1, <1>3 DEF Pending
<1>5. QED
  BY <1>1, <1>4

LEMMA RestsPending ==
  ASSUME NEW w \in Workers, Rests(w)
  PROVE  Pending' = Pending
<1>1. ASSUME NEW e \in Devices PROVE PendingVersions(e)' = PendingVersions(e)
  <2>1. ASSUME NEW v PROVE v \in PendingVersions(e)' <=> v \in PendingVersions(e)
    BY DEF PendingVersions, Rests, Others, Stays
  <2>2. QED
    BY <2>1
<1>2. QED
  BY <1>1 DEF Pending

LEMMA SettlesPending ==
  ASSUME StoreInv, NEW w \in Workers, Settles(w)
  PROVE  LET d == task[w].device IN
         /\ d \in Devices /\ task[w].version \in Pending[d]
         /\ Pending' = [Pending EXCEPT ![d] = @ \ {task[w].version}]
<1> DEFINE d == task[w].device
<1>1. /\ task[w].pc = "commit" /\ task'[w].pc # "commit" /\ d \in Devices
      /\ \A x \in Workers \ {w} : Stays(x)
  BY DEF Settles, Others
<1>2. \A x \in Workers \ {w} :
        task[x].pc = "commit" /\ task[x].device = d => task[x].version # task[w].version
  BY <1>1 DEF StoreInv, VersionInv, DeviceOK, Holds
<1>3. ASSUME NEW e \in Devices
      PROVE  PendingVersions(e)' = IF e = d THEN PendingVersions(e) \ {task[w].version}
                                   ELSE PendingVersions(e)
  <2>1. ASSUME NEW v
        PROVE  v \in PendingVersions(e)' <=>
                 v \in PendingVersions(e) /\ (e = d => v # task[w].version)
    BY <1>1, <1>2 DEF PendingVersions, Stays
  <2>2. QED
    BY <2>1
<1>4. Pending' = [Pending EXCEPT ![d] = @ \ {task[w].version}]
  BY <1>1, <1>3 DEF Pending
<1>5. task[w].version \in Pending[d]
  BY <1>1 DEF Pending, PendingVersions
<1>6. QED
  BY <1>1, <1>4, <1>5

LEMMA SettlesRegisters ==
  ASSUME StoreInv, NEW w \in Workers, Settles(w)
  PROVE  Registers!Next
<1>0. PICK d \in Devices, v \in Nat : d = task[w].device /\ v = task[w].version
  BY DEF Settles, StoreInv, TypeOK, Task
<1>1. /\ d \in Devices /\ v \in Pending[d]
      /\ Pending' = [Pending EXCEPT ![d] = @ \ {v}] /\ next' = next
  BY <1>0, SettlesPending DEF Settles
<1>2. Registers!Spend(d, v)
  BY <1>1 DEF Registers!Spend, Pending
<1>3. \A e \in Devices : e # d => Keeps(e)
  BY <1>0 DEF Settles
<1>4. CASE Keeps(d)
  <2>1. Registers!Drop(d, v)
    BY <1>2, <1>3, <1>4 DEF Registers!Drop, Keeps
  <2>2. QED
    BY <1>1, <2>1 DEF Registers!Next, Pending
<1>5. CASE /\ v > documents[d].desiredVersion
           /\ documents'[d].desiredVersion = v
           /\ documents'[d].reportedVersion = documents[d].reportedVersion
  <2>1. /\ v > Desired[d] /\ Desired' = [Desired EXCEPT ![d] = v]
        /\ UNCHANGED Reported
    BY <1>1, <1>3, <1>5 DEF Keeps, Desired, Reported
  <2>2. Registers!WinDesired(d, v)
    BY <1>2, <2>1 DEF Registers!WinDesired, Desired, Reported
  <2>3. \E u \in Pending[d] : Registers!WinDesired(d, u)
    BY <1>1, <2>2
  <2>4. QED
    BY <1>1, <2>3 DEF Registers!Next, Pending
<1>6. CASE /\ v > documents[d].desiredVersion /\ v > documents[d].reportedVersion
           /\ documents'[d].reportedVersion = v
           /\ documents'[d].desiredVersion = documents[d].desiredVersion
  <2>1. /\ v > Desired[d] /\ v > Reported[d]
        /\ Reported' = [Reported EXCEPT ![d] = v] /\ UNCHANGED Desired
    BY <1>1, <1>3, <1>6 DEF Keeps, Desired, Reported
  <2>2. Registers!WinReported(d, v)
    BY <1>2, <2>1 DEF Registers!WinReported, Desired, Reported
  <2>3. \E u \in Pending[d] : Registers!WinReported(d, u)
    BY <1>1, <2>2
  <2>4. QED
    BY <1>1, <2>3 DEF Registers!Next, Pending
<1>7. QED
  BY <1>0, <1>4, <1>5, <1>6 DEF Settles

LEMMA IssuesRegisters ==
  ASSUME StoreInv, NEW w \in Workers, Issues(w)
  PROVE  Registers!Next
<1>1. UNCHANGED <<Desired, Reported>>
  BY DEF Issues, Desired, Reported
<1>2. PICK d \in Devices : /\ next' = [next EXCEPT ![d] = @ + 1]
                           /\ Pending' = [Pending EXCEPT ![d] = @ \cup {next[d] + 1}]
  BY IssuesPending
<1>3. Registers!Issue(d)
  BY <1>1, <1>2 DEF Registers!Issue, Pending, Desired, Reported
<1>4. QED
  BY <1>3 DEF Registers!Next

LEMMA RestsRegisters ==
  ASSUME StoreInv, NEW w \in Workers, Rests(w), \A d \in Devices : Keeps(d)
  PROVE  UNCHANGED Registers!vars
  BY RestsPending, KeptRegisters
     DEF Registers!vars, Rests, Pending, Desired, Reported

LEMMA DeleteRegisters ==
  ASSUME StoreInv, NEW w \in Workers, Rests(w), NEW d \in Devices,
         documents' = [documents EXCEPT ![d] = Nil]
  PROVE  Registers!Next
<1>1. Pending' = Pending /\ next' = next
  BY RestsPending DEF Rests
<1>2. /\ Desired' = [Desired EXCEPT ![d] = 0]
      /\ Reported' = [Reported EXCEPT ![d] = 0]
  BY DEF StoreInv, TypeOK, Desired, Reported, Nil
<1>3. Registers!Remove(d)
  BY <1>1, <1>2 DEF Registers!Remove, Pending, Desired, Reported
<1>4. QED
  BY <1>3 DEF Registers!Next

LEMMA RegisterStep ==
  ASSUME StoreInv, UndoInv, TrustedBases, "gc" \notin Requests, [Next]_vars
  PROVE  [Registers!Next]_(Registers!vars)
<1>1. CASE UNCHANGED vars
  <2>1. Pending' = Pending
    <3>1. ASSUME NEW e \in Devices PROVE PendingVersions(e)' = PendingVersions(e)
      BY <1>1 DEF vars, PendingVersions
    <3>2. QED
      BY <3>1 DEF Pending
  <2>2. QED
    BY <1>1, <2>1 DEF vars, Registers!vars, Pending
<1>2. ASSUME NEW w \in Workers, Start(w) PROVE [Registers!Next]_(Registers!vars)
  <2>1. CASE Issues(w)
    BY <2>1, IssuesRegisters
  <2>2. CASE Rests(w) /\ documents' = documents
    BY <2>2, RestsRegisters DEF Keeps
  <2>3. ASSUME NEW d \in Devices, Rests(w), documents' = [documents EXCEPT ![d] = Nil]
        PROVE  Registers!Next
    BY <2>3, DeleteRegisters
  <2>4. QED
    BY <1>2, <2>1, <2>2, <2>3, StartShape
<1>3. ASSUME NEW w \in Workers, Step(w) PROVE [Registers!Next]_(Registers!vars)
  BY <1>3, StepShape, IssuesRegisters, SettlesRegisters, RestsRegisters
<1>4. ~GCTombstones
  BY DEF GCTombstones
<1>5. QED
  BY <1>1, <1>2, <1>3, <1>4 DEF Next

\* While no tombstone expires and devices claim only bases they were given, the
\* store is a pair of registers: no interleaving of requests, and no rollback,
\* spends a version twice or lets an older operation win (Store, conflict).
THEOREM StoreImplementsRegisters ==
  ASSUME TrustedBases, "gc" \notin Requests
  PROVE  Spec => ImplementsRegisters
<1> DEFINE Inv == StoreInv /\ UndoInv
<1>1. Init => Registers!Init
  <2>1. SUFFICES ASSUME Init PROVE Registers!Init
    OBVIOUS
  <2>2. \A d \in Devices : PendingVersions(d) = {} /\ documents[d] = Nil
    BY <2>1 DEF Init, PendingVersions, Idle
  <2>3. QED
    BY <2>1, <2>2 DEF Init, Registers!Init, Nil
<1>2. Init => Inv
  BY InitType, InitKind, InitDocument, InitVersion DEF Init, StoreInv, UndoInv, Idle
<1>3. Inv /\ [Next]_vars => Inv'
  BY NextType, NextKind, NextDocument, NextVersion, NextUndo DEF StoreInv
<1>4. Inv /\ [Next]_vars => [Registers!Next]_(Registers!vars)
  BY RegisterStep
<1> HIDE DEF Inv
<1>5. QED
  BY <1>1, <1>2, <1>3, <1>4, PTL DEF Spec, ImplementsRegisters, Registers!Spec

-----------------------------------------------------------------------------
(* Payloads.                                                               *)

\* An operation about to commit carries the payload of its own version; only an
\* item of a batch may be empty.
PropsOK(t) ==
  t.pc = "commit" /\ t.kind \in DesiredKind =>
    t.props = t.version \/ (t.props = 0 /\ "batch" \in Requests)

LEMMA NextProps ==
  ASSUME StoreInv, \A x \in Workers : PropsOK(task[x]), [Next]_vars
  PROVE  \A x \in Workers : PropsOK(task'[x])
<1>0. task \in [Workers -> Task]
  BY DEF StoreInv, TypeOK
<1>1. CASE UNCHANGED vars \/ GCTombstones
  BY <1>1 DEF vars, GCTombstones
<1>2. ASSUME NEW w \in Workers, NEW t, task' = [task EXCEPT ![w] = t], PropsOK(t)
      PROVE  \A x \in Workers : PropsOK(task'[x])
  BY <1>0, <1>2
<1>3. ASSUME NEW w \in Workers, Start(w) PROVE \A x \in Workers : PropsOK(task'[x])
  <2>1. ASSUME NEW d \in Devices, NEW base \in ClaimedBases, NEW keys \in SUBSET Keys,
               HandleReport(w, d, base, keys)
        PROVE  \A x \in Workers : PropsOK(task'[x])
    <3> DEFINE t == [Idle EXCEPT !.pc = "commit", !.kind = "report",
                      !.device = d, !.version = next[d] + 1, !.base = base,
                      !.keys = keys]
    <3>1. PropsOK(t)
      BY DEF Idle, PropsOK, DesiredKind
    <3>2. task' = [task EXCEPT ![w] = t]
      BY <2>1 DEF HandleReport, Begin
    <3> HIDE DEF t
    <3>3. QED
      BY <1>2, <3>1, <3>2
  <2>2. ASSUME NEW d \in Devices, NEW kind \in {"desired", "batch"},
               NEW empty \in BOOLEAN, ApplyDesired(w, d, kind, empty)
        PROVE  \A x \in Workers : PropsOK(task'[x])
    <3> DEFINE t == [Idle EXCEPT !.pc = "commit", !.kind = kind, !.device = d,
                      !.version = next[d] + 1,
                      !.props = IF empty THEN 0 ELSE next[d] + 1]
    <3>1. PropsOK(t)
      BY <2>2 DEF Idle, PropsOK, ApplyDesired
    <3>2. task' = [task EXCEPT ![w] = t]
      BY <2>2 DEF ApplyDesired, Begin
    <3> HIDE DEF t
    <3>3. QED
      BY <1>2, <3>1, <3>2
  <2>3. ASSUME NEW d \in Devices, ApplyTransactional(w, d)
        PROVE  \A x \in Workers : PropsOK(task'[x])
    <3> DEFINE t == [Idle EXCEPT !.pc = "alloc", !.kind = "transaction",
                      !.device = d, !.before = documents[d].desired]
    <3>1. PropsOK(t)
      BY DEF Idle, PropsOK
    <3>2. task' = [task EXCEPT ![w] = t]
      BY <2>3 DEF ApplyTransactional, Begin
    <3> HIDE DEF t
    <3>3. QED
      BY <1>2, <3>1, <3>2
  <2>4. ASSUME NEW d \in Devices, Delete(w, d)
        PROVE  \A x \in Workers : PropsOK(task'[x])
    <3> DEFINE t == [Idle EXCEPT !.pc = "emit", !.kind = "delete", !.device = d,
                      !.seen = {Nil}]
    <3>1. PropsOK(t)
      BY DEF Idle, PropsOK
    <3>2. task' = [task EXCEPT ![w] = t]
      BY <2>4 DEF Delete, Begin
    <3> HIDE DEF t
    <3>3. QED
      BY <1>2, <3>1, <3>2
  <2>5. QED
    BY <1>3, <2>1, <2>2, <2>3, <2>4 DEF Start
<1>4. ASSUME NEW w \in Workers, AllocTransaction(w)
      PROVE  \A x \in Workers : PropsOK(task'[x])
  <2>1. /\ \A x \in Workers \ {w} : task'[x] = task[x]
        /\ task'[w].version = next[task[w].device] + 1
        /\ task'[w].props = next[task[w].device] + 1
    BY <1>0, <1>4 DEF AllocTransaction, Task
  <2>2. QED
    BY <2>1 DEF PropsOK
\* No other step prepares a commit, and an in-place write leaves payloads alone.
<1>5. ASSUME NEW w \in Workers, Step(w), ~AllocTransaction(w)
      PROVE  \A x \in Workers : PropsOK(task'[x])
  <2>1. ASSUME NEW x \in Workers \ {w}
        PROVE  /\ task'[x].pc = task[x].pc /\ task'[x].kind = task[x].kind
               /\ task'[x].version = task[x].version /\ task'[x].props = task[x].props
    <3>1. task[x] \in Task
      BY <1>0
    <3>2. CASE Restore(w) \/ MarkBatchPartial(w)
      <4> DEFINE d == task[w].device
                 restored == IF documents[d].state = "absent" THEN Nil
                             ELSE RestoredDocument(documents[d], task[w].before,
                                                   task[w].undo)
                 marked == IF documents[d].state = "absent" THEN Nil
                           ELSE [documents[d] EXCEPT !.state = "stale"]
      <4>1. task'[x] \in {task[x],
                [task[x] EXCEPT !.doc = restored, !.seen = @ \cup {restored}],
                [task[x] EXCEPT !.doc = marked, !.seen = @ \cup {marked}]}
        BY <3>2 DEF Restore, MarkBatchPartial, WriteInPlace
      <4> HIDE DEF restored, marked
      <4>2. QED
        BY <3>1, <4>1 DEF Task
    <3>3. CASE ~(Restore(w) \/ MarkBatchPartial(w))
      BY <1>0, <1>5, <3>3 DEF Step, CommitDesired, DesiredOnTombstone, CommitReport,
           DiscardReport, ReportOnTombstone, Commit, Emit, Record, Deliver,
           DeliverAndMark, RereadVersion
    <3>4. Stays(x)
      BY <1>5, StepTask DEF StoreInv, TaskStep
    <3>5. QED
      BY <3>2, <3>3, <3>4 DEF Stays
  <2>2. task'[w].pc # "commit"
    <3>1. TaskStep(w)
      BY <1>5, StepTask DEF StoreInv
    <3>2. next' = next
      BY <1>5 DEF Step, CommitDesired, DesiredOnTombstone, CommitReport,
           DiscardReport, ReportOnTombstone, Commit, Emit, Record, Deliver,
           DeliverAndMark, RereadVersion, Restore, MarkBatchPartial
    <3>3. ~Issued(w)
      <4>1. SUFFICES ASSUME Issued(w) PROVE FALSE
        OBVIOUS
      <4>2. PICK d \in Devices : next' = [next EXCEPT ![d] = @ + 1]
        BY <4>1 DEF Issued
      <4>3. QED
        BY <3>2, <4>2 DEF StoreInv, TypeOK
    <3>4. QED
      BY <3>1, <3>3 DEF TaskStep, Reread, Works
  <2>3. QED
    BY <2>1, <2>2 DEF PropsOK
<1>6. QED
  BY <1>1, <1>3, <1>4, <1>5 DEF Next

Matches(doc) == doc.desired = doc.desiredVersion \/ (doc.desired = 0 /\ "batch" \in Requests)

\* Without rollbacks the desired section is the payload of exactly the write its
\* version names: a write that lost the race leaves no trace (MergeDesired).
THEOREM PayloadsMatchVersions ==
  ASSUME "transaction" \notin Requests
  PROVE  Spec => []DesiredMatchesVersion
<1> DEFINE Props == \A x \in Workers : PropsOK(task[x])
           Matching == \A d \in Devices : Matches(documents[d])
<1>1. Init => Props /\ Matching
  BY DEF Init, Idle, PropsOK, Nil, Matches
<1>2. ASSUME StoreInv, Props, Matching, [Next]_vars, NEW d \in Devices
      PROVE  Matches(documents'[d])
  <2>1. documents[d] \in Document /\ Matches(documents[d])
    BY <1>2 DEF StoreInv, TypeOK
  <2>2. CASE documents'[d] \in {documents[d], Nil}
    BY <2>1, <2>2 DEF Matches, Nil
  <2>3. ASSUME NEW obj \in Nat PROVE Matches(Ensure(d, obj))
    BY <2>1 DEF Ensure, NewDocument, Nil, Matches
  <2>4. ASSUME NEW w \in Workers, DesiredWrite(w, d) PROVE Matches(documents'[d])
    <3> DEFINE e == Ensure(d, task[w].version)
               out == MergeDesired(e, [version |-> task[w].version,
                                       props |-> task[w].props])
    <3>1. /\ task[w].version \in Nat /\ task[w].props \in Nat
          /\ e \in Document /\ Matches(e) /\ e.desiredVersion \in Nat
      BY <1>2, <2>3, <2>4, BusyWorker, EnsureType DEF DesiredWrite, StoreInv, Document
    <3>2. PropsOK(task[w]) /\ documents'[d] = out
      BY <1>2, <2>4 DEF DesiredWrite
    <3> HIDE DEF e
    <3>3. CASE task[w].version < e.desiredVersion
      BY <3>1, <3>2, <3>3, MergeDesiredFields DEF Matches
    <3>4. CASE task[w].version >= e.desiredVersion
      BY <2>4, <3>1, <3>2, <3>4, MergeDesiredFields DEF Matches, PropsOK, DesiredWrite
    <3>5. QED
      BY <3>1, <3>3, <3>4
  <2>5. ASSUME NEW w \in Workers, ReportWrite(w, d) PROVE Matches(documents'[d])
    <3> DEFINE e == Ensure(d, task[w].version)
    <3>1. /\ task[w].version \in Nat /\ task[w].base \in Int
          /\ task[w].keys \in SUBSET Keys /\ e \in Document /\ Matches(e)
      BY <1>2, <2>3, <2>5, BusyWorker, EnsureType DEF ReportWrite, StoreInv
    <3>2. documents'[d] = PolicyApplyReport(ReplaceSection, e,
            [version |-> task[w].version, base |-> task[w].base,
             keys |-> task[w].keys])
      BY <2>5 DEF ReportWrite
    <3> HIDE DEF e
    <3>3. QED
      BY <3>1, <3>2, PolicyApplyReportFields, StoreAssumption DEF Matches
  <2>6. ASSUME NEW w \in Workers, Creation(w, d) PROVE Matches(documents'[d])
    BY <1>2, <2>3, <2>6, BusyWorker DEF Creation, StoreInv
  <2>7. ASSUME NEW w \in Workers PROVE ~Rollback(w, d)
    BY <1>2 DEF Rollback, StoreInv, KindInv, KindOK
  <2>8. ASSUME NEW w \in Workers, Mark(w, d) PROVE Matches(documents'[d])
    BY <2>1, <2>8 DEF Mark, Matches, Document
  <2>9. DocumentStep(d) \/ documents'[d] \in {documents[d], Nil}
    BY <1>2, DocumentSteps DEF StoreInv, TypeOK
  <2>10. QED
    BY <2>2, <2>4, <2>5, <2>6, <2>7, <2>8, <2>9 DEF DocumentStep, Miss
<1>3. StoreInv /\ Props /\ Matching /\ [Next]_vars => Props' /\ Matching'
  BY <1>2, NextProps
<1>4. Matching => DesiredMatchesVersion
  BY DEF Matches, DesiredMatchesVersion
<1> HIDE DEF Props, Matching
<1>5. Spec => []StoreInv
  BY Invariant, PTL DEF StoreInv
<1>6. QED
  BY <1>1, <1>3, <1>4, <1>5, PTL DEF Spec

=============================================================================
