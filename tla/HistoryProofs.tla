---------------------------- MODULE HistoryProofs ----------------------------
(***************************************************************************)
(* Proofs about the change history of ShadowStore.  A commit and the       *)
(* append of its event are two steps, and between them any other worker    *)
(* may commit and append.  Every argument here counts: the events that     *)
(* were appended late, and the workers that may still append one, are      *)
(* together fewer than all workers.                                        *)
(***************************************************************************)
EXTENDS RegistersProofs, FiniteSetTheorems

-----------------------------------------------------------------------------
(* Counting the older events behind a position of a history.               *)

\* The positions after i of events of the types K older than version v.
OldAfter(log, i, v, K) ==
  {j \in i + 1 .. Len(log) : log[j].type \in K /\ log[j].version < v}

\* new is log with e appended, where the cap drops the s oldest events.
Appended(log, e, new, s) ==
  /\ new \in Seq(Event) /\ Len(new) \in 1 .. HistoryCap
  /\ s \in {0, 1} /\ Len(new) + s = Len(log) + 1
  /\ s = 1 => Len(new) = HistoryCap
  /\ new[Len(new)] = e
  /\ \A k \in 1 .. Len(new) - 1 : new[k] = log[k + s]

\* Store.record: a full history loses its oldest event, and only then.
LEMMA RecordedShape ==
  ASSUME NEW log \in Seq(Event), NEW e \in Event, Len(log) <= HistoryCap
  PROVE  \E s \in {0, 1} : Appended(log, e, Recorded(log, e), s)
<1> DEFINE all == Append(log, e)
<1>0. HistoryCap \in Nat /\ HistoryCap >= 1
  BY StoreAssumption
<1>1. /\ all \in Seq(Event) /\ Len(all) = Len(log) + 1 /\ Len(log) \in Nat
      /\ all[Len(log) + 1] = e /\ \A k \in 1 .. Len(log) : all[k] = log[k]
  BY AppendProperties
<1>2. Recorded(log, e) = Trim(all)
  BY DEF Recorded
<1> HIDE DEF all
<1>3. CASE Len(log) < HistoryCap
  <2>1. Recorded(log, e) = all
    BY <1>0, <1>1, <1>2, <1>3 DEF Trim
  <2> QED
    BY <1>0, <1>1, <1>3, <2>1 DEF Appended
<1>4. CASE Len(log) = HistoryCap
  <2> DEFINE new == SubSeq(all, 2, Len(all))
  <2>1. Recorded(log, e) = new
    BY <1>0, <1>1, <1>2, <1>4 DEF Trim
  <2>2. \A k \in 2 .. Len(all) : all[k] \in Event
    BY <1>1, ElementOfSeq
  <2>3. /\ new \in Seq(Event) /\ Len(new) = Len(log)
        /\ \A k \in 1 .. Len(log) : new[k] = all[k + 1]
    BY <1>1, <2>2, SubSeqProperties
  <2> HIDE DEF new
  <2>4. Appended(log, e, new, 1)
    BY <1>0, <1>1, <1>4, <2>3 DEF Appended
  <2> QED
    BY <2>1, <2>4
<1> QED
  BY <1>0, <1>1, <1>3, <1>4

LEMMA OldAfterFinite ==
  ASSUME NEW log \in Seq(Event), NEW i \in Nat, NEW v, NEW K
  PROVE  IsFiniteSet(OldAfter(log, i, v, K)) /\ Cardinality(OldAfter(log, i, v, K)) \in Nat
<1>1. IsFiniteSet(i + 1 .. Len(log))
  BY FS_Interval
<1>2. OldAfter(log, i, v, K) \in SUBSET (i + 1 .. Len(log))
  BY DEF OldAfter
<1> QED
  BY <1>1, <1>2, FS_Subset, FS_CardinalityType

\* Fewer positions follow a later one.
LEMMA OldAfterLater ==
  ASSUME NEW log \in Seq(Event), NEW i \in Nat, NEW k \in Nat, i <= k, NEW v, NEW K
  PROVE  Cardinality(OldAfter(log, k, v, K)) <= Cardinality(OldAfter(log, i, v, K))
<1>1. OldAfter(log, k, v, K) \in SUBSET OldAfter(log, i, v, K)
  BY DEF OldAfter
<1> QED
  BY <1>1, OldAfterFinite, FS_Subset

LEMMA ShiftedCardinality ==
  ASSUME NEW S \in SUBSET Int, NEW s \in Int, IsFiniteSet(S),
         NEW T \in SUBSET Int, \A j \in Int : j \in T <=> j + s \in S
  PROVE  IsFiniteSet(T) /\ Cardinality(T) = Cardinality(S)
<1> DEFINE f == [j \in S |-> j - s]
<1>1. f \in [S -> T]
  OBVIOUS
<1>2. \A a, b \in S : f[a] = f[b] => a = b
  OBVIOUS
<1>3. \A t \in T : t + s \in S /\ f[t + s] = t
  OBVIOUS
<1>4. f \in Bijection(S, T)
  BY <1>1, <1>2, <1>3 DEF Bijection, Injection, Surjection, IsInjective
<1> QED
  BY <1>4, FS_Bijection DEF ExistsBijection

\* An append adds the new event to the older ones behind a position, or not.
LEMMA OldAfterAppended ==
  ASSUME NEW log \in Seq(Event), NEW e \in Event, NEW new, NEW s,
         Appended(log, e, new, s), NEW i \in 0 .. Len(new) - 1, NEW v, NEW K
  PROVE  Cardinality(OldAfter(new, i, v, K)) =
           Cardinality(OldAfter(log, i + s, v, K))
             + IF e.type \in K /\ e.version < v THEN 1 ELSE 0
<1> DEFINE n == Len(new)
           T == {j \in i + 1 .. n - 1 : new[j].type \in K /\ new[j].version < v}
<1>a. n \in Nat /\ n >= 1 /\ Len(log) \in Nat
  BY StoreAssumption DEF Appended
<1>b. s \in {0, 1} /\ n + s = Len(log) + 1 /\ i \in Nat /\ i + s \in Nat
  BY <1>a DEF Appended
<1>c. new[n] = e /\ \A k \in 1 .. n - 1 : new[k] = log[k + s]
  BY DEF Appended
<1>0. /\ n \in Nat /\ n >= 1 /\ Len(log) \in Nat /\ s \in {0, 1} /\ n + s = Len(log) + 1
      /\ i \in Nat /\ i + s \in Nat
      /\ new[n] = e /\ \A k \in 1 .. n - 1 : new[k] = log[k + s]
  BY <1>a, <1>b, <1>c
<1>1. \A j \in Int : j \in T <=> j + s \in OldAfter(log, i + s, v, K)
  BY <1>0 DEF OldAfter
<1>2. IsFiniteSet(OldAfter(log, i + s, v, K))
  BY <1>0, OldAfterFinite
<1>3. OldAfter(log, i + s, v, K) \in SUBSET Int /\ T \in SUBSET Int /\ n \notin T
  BY <1>0 DEF OldAfter
<1>4. OldAfter(new, i, v, K) =
        IF e.type \in K /\ e.version < v THEN T \cup {n} ELSE T
  BY <1>0 DEF OldAfter
<1> HIDE DEF T, n
<1>5. IsFiniteSet(T) /\ Cardinality(T) = Cardinality(OldAfter(log, i + s, v, K))
  <2> DEFINE S == OldAfter(log, i + s, v, K)
  <2>1. /\ S \in SUBSET Int /\ IsFiniteSet(S) /\ T \in SUBSET Int /\ s \in Int
        /\ \A j \in Int : j \in T <=> j + s \in S
    BY <1>0, <1>1, <1>2, <1>3
  <2> HIDE DEF S
  <2>2. IsFiniteSet(T) /\ Cardinality(T) = Cardinality(S)
    BY <2>1, ShiftedCardinality
  <2> QED
    BY <2>2 DEF S
<1>6. Cardinality(T \cup {n}) = Cardinality(T) + 1 /\ Cardinality(T) \in Nat
  BY <1>3, <1>5, FS_AddElement, FS_CardinalityType
<1> QED
  BY <1>4, <1>5, <1>6

-----------------------------------------------------------------------------
(***************************************************************************)
(* What a step does to the workers that are between their commit and the   *)
(* append of its event, to the documents they commit, and to the history.  *)
(***************************************************************************)
Publishing(x) == task[x].pc \in {"emit", "record"}

\* A document is read before anything else happened to it, too.
HeldInv == \A x \in Workers : Publishing(x) => task[x].doc \in task[x].seen

SameRequest(x) ==
  /\ task'[x].kind = task[x].kind /\ task'[x].device = task[x].device
  /\ task'[x].version = task[x].version /\ task'[x].props = task[x].props

\* If x has an event to publish after the step, it had the same one before.
Carries(x) ==
  task'[x].pc \in {"emit", "record"} =>
    /\ Publishing(x) /\ SameRequest(x) /\ task'[x].doc = task[x].doc
    /\ task'[x].seen \subseteq task[x].seen /\ task'[x].doc \in task'[x].seen

\* x holds the document that the step writes in place.
Shares(x, doc) ==
  /\ Publishing(x) /\ SameRequest(x) /\ task[x].doc.obj = doc.obj
  /\ task'[x].doc = doc /\ task'[x].seen = task[x].seen \cup {doc}

OthersCarry(w) == \A x \in Workers \ {w} : Carries(x)
OnlyDocument(d) == \A e \in Devices \ {d} : documents'[e] = documents[e]

Quiet ==
  /\ UNCHANGED <<documents, history, rolledBack>>
  /\ \A x \in Workers : Carries(x)

Commits(w) ==
  LET d == task[w].device  doc == documents'[d] IN
  /\ task[w].pc = "commit" /\ task[w].kind # "delete" /\ d \in Devices
  /\ task'[w].pc = "emit" /\ SameRequest(w)
  /\ task'[w].doc = doc /\ task'[w].seen = {doc}
  /\ doc.obj = task[w].version /\ doc.version >= task[w].version
  /\ task[w].kind \in DesiredKind \/ doc.desiredVersion = documents[d].desiredVersion
  /\ OnlyDocument(d) /\ UNCHANGED <<history, rolledBack>> /\ OthersCarry(w)

Discards(w) ==
  LET d == task[w].device IN
  /\ task[w].pc = "commit" /\ task'[w].pc = "idle" /\ d \in Devices
  /\ \/ documents'[d] = documents[d]
     \/ /\ documents'[d].obj = task[w].version
        /\ documents'[d].version = 0 /\ documents'[d].desiredVersion = 0
  /\ OnlyDocument(d) /\ UNCHANGED <<history, rolledBack>> /\ OthersCarry(w)

Deletes(w, d) ==
  /\ task[w].pc = "idle"
  /\ task'[w].pc = "emit" /\ task'[w].kind = "delete" /\ task'[w].device = d
  /\ task'[w].doc = Nil /\ task'[w].seen = {Nil}
  /\ documents'[d] = Nil
  /\ OnlyDocument(d) /\ UNCHANGED <<history, rolledBack>> /\ OthersCarry(w)

\* Publishing w ends with its event at the end of the history.
Records(w) ==
  LET d == task[w].device IN
  /\ task[w].pc = "record" /\ d \in Devices /\ task'[w].pc \in {"deliver", "idle"}
  /\ \E read \in Readings(task[w]) :
       history' = [history EXCEPT ![d] = Recorded(history[d], ChangeEvent(task[w], read))]
  /\ UNCHANGED <<documents, rolledBack>> /\ OthersCarry(w)

\* A rollback or a mark, and everybody who shares the document sees it.
Rewrites(w) ==
  LET d == task[w].device  doc == documents'[d] IN
  /\ task[w].pc \in {"restore", "markStale"} /\ task'[w].pc = "idle" /\ d \in Devices
  /\ \/ doc = Nil /\ ~Live(d)
     \/ /\ Live(d) /\ task[w].pc = "restore" /\ rolledBack'[d] # {}
        /\ doc = RestoredDocument(documents[d], task[w].before, task[w].undo)
     \/ /\ Live(d) /\ task[w].pc = "markStale" /\ rolledBack' = rolledBack
        /\ doc = [documents[d] EXCEPT !.state = "stale"]
  /\ \A e \in Devices \ {d} : rolledBack'[e] = rolledBack[e]
  /\ OnlyDocument(d) /\ history' = history
  /\ \A x \in Workers \ {w} :
       IF task[x].device = d /\ task[x].doc.obj = doc.obj
       THEN task'[x].pc \in {"emit", "record"} => Shares(x, doc)
       ELSE Carries(x)

\* A worker whose local variables do not change.
LEMMA StillCarries ==
  ASSUME HeldInv, NEW x \in Workers, task'[x] = task[x]
  PROVE  Carries(x)
  BY DEF HeldInv, Carries, Publishing, SameRequest

\* Starting a request other than a delete publishes nothing.
LEMMA StartHistory ==
  ASSUME TypeOK, HeldInv, NEW w \in Workers, Start(w)
  PROVE  Quiet \/ \E d \in Devices : Deletes(w, d)
<1>0. task \in [Workers -> Task]
  BY DEF TypeOK
<1>1. ASSUME NEW t, Begin(w, t)
      PROVE  task'[w] = t /\ OthersCarry(w)
  BY <1>0, <1>1, StillCarries DEF Begin, OthersCarry
<1>2. ASSUME NEW t, Begin(w, t), t.pc \in {"commit", "alloc"},
             UNCHANGED <<documents, history, rolledBack>>
      PROVE  Quiet
  BY <1>1, <1>2 DEF Quiet, Carries, OthersCarry
<1>3. ASSUME NEW d \in Devices, NEW base \in ClaimedBases,
             NEW keys \in SUBSET Keys, HandleReport(w, d, base, keys)
      PROVE  Quiet
  BY <1>2, <1>3 DEF HandleReport, storeVars, Idle
<1>4. ASSUME NEW d \in Devices, NEW kind \in {"desired", "batch"},
             NEW empty \in BOOLEAN, ApplyDesired(w, d, kind, empty)
      PROVE  Quiet
  BY <1>2, <1>4 DEF ApplyDesired, storeVars, Idle
<1>5. ASSUME NEW d \in Devices, ApplyTransactional(w, d) PROVE Quiet
  BY <1>2, <1>5 DEF ApplyTransactional, storeVars, Idle
<1>6. ASSUME NEW d \in Devices, Delete(w, d) PROVE Deletes(w, d)
  <2> DEFINE t == [Idle EXCEPT !.pc = "emit", !.kind = "delete", !.device = d,
                    !.seen = {Nil}]
  <2>1. /\ t.pc = "emit" /\ t.kind = "delete" /\ t.device = d
        /\ t.doc = Nil /\ t.seen = {Nil}
    BY DEF Idle
  <2>2. Begin(w, t) /\ task[w].pc = "idle"
    BY <1>6 DEF Delete, Begin
  <2>3. /\ documents'[d] = Nil /\ OnlyDocument(d)
        /\ UNCHANGED <<history, rolledBack>>
    BY <1>6 DEF Delete, OnlyDocument, TypeOK
  <2> HIDE DEF t
  <2> QED
    BY <1>1, <2>1, <2>2, <2>3 DEF Deletes
<1> QED
  BY <1>3, <1>4, <1>5, <1>6 DEF Start

\* The document a commit leaves behind.
LEMMA CommitHistory ==
  ASSUME TypeOK, DocumentInv, DocumentInv', TypeOK', HeldInv, NEW w \in Workers,
         CommitDesired(w) \/ CommitReport(w)
  PROVE  Commits(w)
<1> DEFINE t == task[w]
           d == task[w].device
           old == Ensure(d, t.version)
           doc == documents'[d]
<1>0. /\ t.pc = "commit" /\ t \in Task /\ d \in Devices /\ t.version \in Nat
      /\ t.props \in Nat /\ t.base \in Int /\ t.keys \in SUBSET Keys
      /\ documents[d] \in Document
  BY BusyWorker DEF CommitDesired, CommitReport
<1>1. old \in Document /\ old.desiredVersion = documents[d].desiredVersion
  <2>1. old \in Document
    BY <1>0, EnsureType
  <2>2. documents[d].state = "absent" => documents[d] = Nil
    BY <1>0 DEF DocumentInv, DocumentOK
  <2> QED
    BY <2>1, <2>2 DEF Ensure, NewDocument, Nil
<1>2. PICK merged : Commit(w, merged)
  BY DEF CommitDesired, CommitReport
<1>3. /\ doc = merged /\ OnlyDocument(d) /\ UNCHANGED <<history, rolledBack>>
      /\ OthersCarry(w)
  BY <1>0, <1>2, StillCarries DEF Commit, OnlyDocument, OthersCarry, TypeOK
<1>4. /\ task'[w].pc = "emit" /\ SameRequest(w)
      /\ task'[w].doc = merged /\ task'[w].seen = {merged}
  <2> DEFINE u == [Idle EXCEPT !.pc = "emit", !.kind = t.kind,
                    !.device = d, !.version = t.version, !.props = t.props,
                    !.before = t.before, !.doc = merged, !.seen = {merged}]
  <2>1. /\ u.pc = "emit" /\ u.kind = t.kind /\ u.device = d /\ u.version = t.version
        /\ u.props = t.props /\ u.doc = merged /\ u.seen = {merged}
    BY DEF Idle
  <2>2. task' = [task EXCEPT ![w] = u]
    BY <1>2 DEF Commit
  <2> HIDE DEF u
  <2> QED
    BY <2>1, <2>2 DEF SameRequest, TypeOK
<1>5. /\ doc \in Document
      /\ doc.version = MaxVersion(doc.desiredVersion, doc.reportedVersion)
  BY <1>0 DEF DocumentInv, DocumentOK, TypeOK
<1>6. CASE CommitDesired(w)
  <2>1. doc = MergeDesired(old, [version |-> t.version, props |-> t.props])
    BY <1>0, <1>6 DEF CommitDesired, Commit, TypeOK
  <2>2. /\ doc.obj = t.version /\ doc.desiredVersion >= t.version
    <3> HIDE DEF old, doc
    <3>1. old.desiredVersion \in Nat
      BY <1>1 DEF Document
    <3> QED
      BY <1>0, <1>1, <2>1, <3>1, MergeDesiredFields
  <2>3. doc.version >= t.version
    BY <1>0, <1>5, <2>2 DEF MaxVersion, Document
  <2>4. t.kind \in DesiredKind /\ t.kind # "delete"
    BY <1>6 DEF CommitDesired, DesiredKind
  <2> QED
    BY <1>0, <1>3, <1>4, <2>2, <2>3, <2>4 DEF Commits
<1>7. CASE CommitReport(w)
  <2>1. /\ doc = PolicyApplyReport(ReplaceSection, old,
                   [version |-> t.version, base |-> t.base, keys |-> t.keys])
        /\ ~ReportIsStale(t, old)
    BY <1>0, <1>7 DEF CommitReport, Commit, TypeOK
  <2>2. old.version = MaxVersion(old.desiredVersion, old.reportedVersion)
    BY <1>0 DEF Ensure, DocumentInv, DocumentOK, NewDocument, Nil, MaxVersion
  <2>3. /\ doc.obj = t.version /\ doc.reportedVersion >= t.version
        /\ doc.desiredVersion = old.desiredVersion
    <3> HIDE DEF old, doc
    <3>1. old.desiredVersion \in Nat /\ old.reportedVersion \in Nat
      BY <1>1 DEF Document
    <3>2. t.base >= old.reportedVersion
      BY <1>0, <2>1, <2>2, <3>1 DEF ReportIsStale, MaxVersion
    <3>3. ReplaceSection \in BOOLEAN
      BY StoreAssumption
    <3>4. /\ doc.obj = t.version /\ doc.desiredVersion = old.desiredVersion
          /\ doc.reportedVersion = MaxVersion(old.reportedVersion, t.version)
      BY <1>0, <1>1, <2>1, <3>2, <3>3, PolicyApplyReportFields
    <3> QED
      BY <1>0, <3>1, <3>4, MaxVersionType
  <2>4. doc.version >= t.version
    BY <1>0, <1>5, <2>3 DEF MaxVersion, Document
  <2>5. t.kind = "report"
    BY <1>7 DEF CommitReport
  <2> QED
    BY <1>0, <1>1, <1>3, <1>4, <2>3, <2>4, <2>5 DEF Commits
<1> QED
  BY <1>6, <1>7

LEMMA RewriteHistory ==
  ASSUME TypeOK, HeldInv, NEW w \in Workers, Restore(w) \/ MarkBatchPartial(w)
  PROVE  Rewrites(w)
<1> DEFINE d == task[w].device
           doc == documents'[d]
<1>0. d \in Devices /\ task \in [Workers -> Task] /\ documents \in [Devices -> Document]
  BY BusyWorker DEF Restore, MarkBatchPartial, TypeOK
<1>1. ASSUME NEW out, WriteInPlace(w, d, out)
      PROVE  /\ doc = out /\ OnlyDocument(d) /\ task'[w].pc = "idle"
             /\ \A x \in Workers \ {w} :
                  IF task[x].device = d /\ task[x].doc.obj = doc.obj
                  THEN task'[x].pc \in {"emit", "record"} => Shares(x, doc)
                  ELSE Carries(x)
  <2>1. doc = out /\ OnlyDocument(d) /\ task'[w].pc = "idle"
    BY <1>0, <1>1 DEF WriteInPlace, OnlyDocument, Idle
  <2>2. ASSUME NEW x \in Workers \ {w}, task[x].device = d, task[x].doc.obj = out.obj
        PROVE  task'[x].pc \in {"emit", "record"} => Shares(x, out)
    <3>1. task'[x] = [task[x] EXCEPT !.doc = out, !.seen = @ \cup {out}]
      BY <1>1, <2>2 DEF WriteInPlace
    <3>2. task[x] \in Task
      BY <1>0
    <3> QED
      BY <2>2, <3>1, <3>2 DEF Shares, Publishing, SameRequest, Task
  <2>3. ASSUME NEW x \in Workers \ {w},
               ~(task[x].device = d /\ task[x].doc.obj = out.obj)
        PROVE  Carries(x)
    BY <1>1, <2>3, StillCarries DEF WriteInPlace
  <2> QED
    BY <2>1, <2>2, <2>3
<1>2. CASE Restore(w)
  <2>1. /\ task[w].pc = "restore" /\ history' = history
        /\ \A e \in Devices \ {d} : rolledBack'[e] = rolledBack[e]
        /\ rolledBack'[d] # {}
    BY <1>0, <1>2 DEF Restore, TypeOK
  <2>2. CASE ~Live(d)
    BY <1>0, <1>1, <1>2, <2>1, <2>2 DEF Restore, Live, Rewrites
  <2>3. CASE Live(d)
    BY <1>0, <1>1, <1>2, <2>1, <2>3 DEF Restore, Live, Rewrites
  <2> QED
    BY <2>2, <2>3
<1>3. CASE MarkBatchPartial(w)
  <2>1. /\ task[w].pc = "markStale" /\ UNCHANGED <<history, rolledBack>>
    BY <1>3 DEF MarkBatchPartial
  <2>2. CASE ~Live(d)
    BY <1>0, <1>1, <1>3, <2>1, <2>2 DEF MarkBatchPartial, Live, Rewrites
  <2>3. CASE Live(d)
    BY <1>0, <1>1, <1>3, <2>1, <2>3 DEF MarkBatchPartial, Live, Rewrites
  <2> QED
    BY <2>2, <2>3
<1> QED
  BY <1>2, <1>3

\* Every step has one of the six shapes.
LEMMA StepHistory ==
  ASSUME TypeOK, TypeOK', DocumentInv, DocumentInv', HeldInv,
         NEW w \in Workers, Step(w)
  PROVE  Quiet \/ Commits(w) \/ Discards(w) \/ Records(w) \/ Rewrites(w)
<1>0. task \in [Workers -> Task] /\ Idle.pc = "idle"
  BY IdleType DEF TypeOK
<1>1. ASSUME UNCHANGED <<documents, history, rolledBack>>, NEW t,
             task' = [task EXCEPT ![w] = t], t.pc \notin {"emit", "record"}
      PROVE  Quiet
  <2>1. Carries(w)
    BY <1>0, <1>1 DEF Carries
  <2> QED
    BY <1>0, <1>1, <2>1, StillCarries DEF Quiet
<1>2. CASE AllocTransaction(w)
  <2> DEFINE d == task[w].device
             t == [task[w] EXCEPT !.pc = "commit", !.version = next[d] + 1,
                                  !.props = next[d] + 1]
  <2>1. t.pc = "commit" /\ task' = [task EXCEPT ![w] = t]
    BY <1>0, <1>2 DEF AllocTransaction, Task
  <2> HIDE DEF t
  <2> QED
    BY <1>1, <1>2, <2>1 DEF AllocTransaction, storeVars
<1>3. CASE DesiredOnTombstone(w)
  <2> DEFINE t == [task[w] EXCEPT !.pc = "deliver"]
  <2>1. t.pc = "deliver" /\ task' = [task EXCEPT ![w] = t]
    BY <1>0, <1>3 DEF DesiredOnTombstone, Task
  <2> HIDE DEF t
  <2> QED
    BY <1>1, <1>3, <2>1 DEF DesiredOnTombstone, storeVars
<1>4. CASE ReportOnTombstone(w)
  BY <1>0, <1>1, <1>4 DEF ReportOnTombstone, storeVars
<1>5. CASE RereadVersion(w)
  <2> DEFINE t == [task[w] EXCEPT !.pc = "restore",
                                  !.undo = documents[task[w].device].desiredVersion]
  <2>1. t.pc = "restore" /\ task' = [task EXCEPT ![w] = t]
    BY <1>0, <1>5 DEF RereadVersion, Task
  <2> HIDE DEF t
  <2> QED
    BY <1>1, <1>5, <2>1 DEF RereadVersion, storeVars
<1>6. ASSUME NEW delivered \in BOOLEAN, Deliver(w, delivered) PROVE Quiet
  <2> DEFINE u == [task[w] EXCEPT !.pc = "markStale"]
             v == [task[w] EXCEPT !.pc = "reread"]
  <2>1. /\ u.pc = "markStale" /\ v.pc = "reread"
        /\ \/ task' = [task EXCEPT ![w] = Idle]
           \/ task' = [task EXCEPT ![w] = u]
           \/ task' = [task EXCEPT ![w] = v]
    BY <1>0, <1>6 DEF Deliver, Task
  <2> HIDE DEF u, v
  <2> QED
    BY <1>0, <1>1, <1>6, <2>1 DEF Deliver, storeVars
<1>6a. CASE DeliverAndMark(w)
  <2> DEFINE t == [task[w] EXCEPT !.pc = "markStale"]
  <2>1. t.pc = "markStale" /\ task' = [task EXCEPT ![w] = t]
    BY <1>0, <1>6a DEF DeliverAndMark, Task
  <2> HIDE DEF t
  <2> QED
    BY <1>1, <1>6a, <2>1 DEF DeliverAndMark, storeVars
<1>7. CASE Emit(w)
  <2>1. task' = [task EXCEPT ![w].pc = "record", ![w].seen = {task[w].doc}]
    BY <1>7 DEF Emit
  <2>2. Carries(w)
    BY <1>0, <1>7, <2>1 DEF Emit, HeldInv, Publishing, Carries, SameRequest, Task
  <2> QED
    BY <1>0, <1>7, <2>1, <2>2, StillCarries DEF Emit, Quiet, storeVars
<1>8. CASE DiscardReport(w)
  <2> DEFINE d == task[w].device
  <2>1. /\ task[w].pc = "commit" /\ d \in Devices /\ task[w].version \in Nat
        /\ documents' = [documents EXCEPT ![d] = Ensure(d, task[w].version)]
        /\ task' = [task EXCEPT ![w] = Idle] /\ UNCHANGED <<history, rolledBack>>
    BY <1>8, BusyWorker DEF DiscardReport
  <2>2. \/ Ensure(d, task[w].version) = documents[d]
        \/ Ensure(d, task[w].version) = NewDocument(task[w].version)
    BY DEF Ensure
  <2>3. OthersCarry(w) /\ OnlyDocument(d) /\ task'[w].pc = "idle"
    BY <1>0, <2>1, StillCarries DEF OthersCarry, OnlyDocument, TypeOK
  <2> QED
    BY <2>1, <2>2, <2>3 DEF Discards, NewDocument, Nil, TypeOK
<1>9. CASE Record(w)
  <2> DEFINE d == task[w].device
             t == [task[w] EXCEPT !.pc = "deliver", !.doc = Nil, !.seen = {}]
  <2>1. d \in Devices /\ t.pc = "deliver"
    BY <1>0, <1>9, BusyWorker DEF Record, Task
  <2>2. \/ task' = [task EXCEPT ![w] = t]
        \/ task' = [task EXCEPT ![w] = Idle]
    BY <1>9 DEF Record
  <2> HIDE DEF t
  <2>3. task'[w].pc \in {"deliver", "idle"} /\ OthersCarry(w)
    BY <1>0, <2>1, <2>2, StillCarries DEF OthersCarry
  <2> QED
    BY <1>9, <2>1, <2>3 DEF Record, Records
<1> QED
  BY <1>2, <1>3, <1>4, <1>5, <1>6, <1>6a, <1>7, <1>8, <1>9, CommitHistory,
     RewriteHistory DEF Step

HistoryShape ==
  \/ Quiet
  \/ \E w \in Workers :
       \/ Commits(w) \/ Discards(w) \/ Records(w) \/ Rewrites(w)
       \/ \E d \in Devices : Deletes(w, d)

LEMMA HistorySteps ==
  ASSUME TypeOK, TypeOK', DocumentInv, DocumentInv', HeldInv, [Next]_vars
  PROVE  HistoryShape
<1>1. CASE UNCHANGED vars
  BY <1>1, StillCarries DEF vars, HistoryShape, Quiet
<1>2. CASE GCTombstones
  BY <1>2, StillCarries DEF GCTombstones, HistoryShape, Quiet
<1> QED
  BY <1>1, <1>2, StartHistory, StepHistory DEF Next, HistoryShape

LEMMA NextHeld ==
  ASSUME HeldInv, HistoryShape
  PROVE  HeldInv'
<1> SUFFICES ASSUME NEW x \in Workers, task'[x].pc \in {"emit", "record"}
             PROVE  task'[x].doc \in task'[x].seen
  BY DEF HeldInv, Publishing
<1>1. CASE Carries(x)
  BY <1>1 DEF Carries
<1>2. ASSUME NEW w \in Workers, x # w, Rewrites(w)
      PROVE  task'[x].doc \in task'[x].seen
  BY <1>2 DEF Rewrites, Carries, Shares
<1>3. ASSUME NEW w \in Workers, x = w,
             \/ Commits(w) \/ Discards(w) \/ Records(w) \/ Rewrites(w)
             \/ \E d \in Devices : Deletes(w, d)
      PROVE  task'[x].doc \in task'[x].seen
  BY <1>3 DEF Commits, Discards, Records, Rewrites, Deletes
<1> QED
  BY <1>1, <1>2, <1>3
     DEF HistoryShape, Quiet, Commits, Discards, Records, Deletes, OthersCarry

-----------------------------------------------------------------------------
(***************************************************************************)
(* Documents in flight.  The version of an operation names the document it *)
(* commits, and no other operation in flight has it; so a worker that      *)
(* shares the stored document holds exactly what is stored.                *)
(***************************************************************************)
Owns(x) ==
  \/ task[x].pc = "commit"
  \/ Publishing(x) /\ task[x].kind # "delete"

OwnedOK(x) ==
  LET d == task[x].device IN
  /\ 0 < task[x].version /\ task[x].version <= next[d]
  /\ \A y \in Workers \ {x} :
       Owns(y) /\ task[y].device = d => task[y].version # task[x].version
  /\ task[x].pc = "commit" => task[x].version # documents[d].obj
  /\ Publishing(x) =>
       /\ task[x].doc.obj = task[x].version
       /\ documents[d].obj = task[x].version => task[x].doc = documents[d]

OwnInv == \A x \in Workers : Owns(x) => OwnedOK(x)

\* Nothing that was stored or published is newer than what was issued.
IssuedInv ==
  /\ \A d \in Devices : documents[d].obj <= next[d]
  /\ \A x \in Workers : Publishing(x) =>
       \A s \in task[x].seen : s.version <= next[task[x].device]

\* Who owns a document after a step owned it before, or was just issued a version.
OwnedBefore(x) ==
  \/ /\ Owns(x) /\ SameRequest(x) /\ task[x].device \in Devices
     /\ task'[x].pc = "commit" => task[x].pc = "commit"
  \/ Issued(x) /\ \A y \in Workers \ {x} : Stays(y)

LEMMA OwnStep ==
  ASSUME TypeOK, TypeOK', KindInv, HistoryShape, [Next]_vars,
         NEW x \in Workers, Owns(x)'
  PROVE  OwnedBefore(x)
<1>0. /\ task'[x].device \in Devices
      /\ task[x].pc # "idle" => task[x].device \in Devices
  BY DEF TypeOK, Owns, Publishing
<1>1. CASE task'[x].pc = "commit"
  <2>1. Stays(x) \/ (Issued(x) /\ \A y \in Workers \ {x} : Stays(y))
    BY <1>1, TaskSteps DEF TaskStep, Reread, Works
  <2> QED
    BY <1>0, <1>1, <2>1 DEF Stays, OwnedBefore, Owns, SameRequest, Issued
<1>2. CASE task'[x].pc \in {"emit", "record"} /\ task'[x].kind # "delete"
  <2>1. CASE Carries(x)
    BY <1>0, <1>2, <2>1 DEF Carries, OwnedBefore, Owns, Publishing, SameRequest
  <2>2. ASSUME NEW w \in Workers, x # w, Rewrites(w) PROVE OwnedBefore(x)
    BY <1>0, <1>2, <2>1, <2>2 DEF Rewrites, Shares, OwnedBefore, Owns, Publishing, SameRequest
  <2>3. ASSUME NEW w \in Workers, x = w,
               \/ Commits(w) \/ Discards(w) \/ Records(w) \/ Rewrites(w)
               \/ \E d \in Devices : Deletes(w, d)
        PROVE  OwnedBefore(x)
    BY <1>0, <1>2, <2>3
       DEF Commits, Discards, Records, Rewrites, Deletes, OwnedBefore, Owns, SameRequest
  <2> QED
    BY <2>1, <2>2, <2>3
       DEF HistoryShape, Quiet, Commits, Discards, Records, Deletes, OthersCarry
<1> QED
  BY <1>1, <1>2 DEF Owns, Publishing

LEMMA NextGrows ==
  ASSUME TypeOK, TypeOK', KindInv, [Next]_vars, NEW d \in Devices
  PROVE  next[d] \in Nat /\ next'[d] \in Nat /\ next[d] <= next'[d]
<1>1. next[d] \in Nat /\ next'[d] \in Nat /\ next \in [Devices -> Nat]
  BY DEF TypeOK
<1>2. next' = next \/ \E w \in Workers : Issued(w)
  BY TaskSteps DEF TaskStep, Reread, Works
<1> QED
  BY <1>1, <1>2 DEF Issued

\* The object a step stores is the one of the operation that ran, or none, or
\* the object that was stored.
LEMMA StoredObject ==
  ASSUME TypeOK, HistoryShape, NEW d \in Devices
  PROVE  \/ documents'[d].obj = documents[d].obj
         \/ documents'[d].obj = 0
         \/ \E w \in Workers :
              /\ task[w].pc = "commit" /\ task'[w].pc # "commit"
              /\ task[w].device = d /\ documents'[d].obj = task[w].version
              /\ task'[w].pc \in {"emit", "record"} => Commits(w)
<1>1. CASE Quiet
  BY <1>1 DEF Quiet
<1>2. ASSUME NEW w \in Workers, Commits(w) \/ Discards(w) \/ Records(w)
      PROVE  \/ documents'[d].obj = documents[d].obj
             \/ /\ task[w].pc = "commit" /\ task'[w].pc # "commit"
                /\ task[w].device = d /\ documents'[d].obj = task[w].version
                /\ task'[w].pc \in {"emit", "record"} => Commits(w)
  BY <1>2 DEF Commits, Discards, Records, OnlyDocument
<1>3. ASSUME NEW w \in Workers, NEW e \in Devices, Deletes(w, e)
      PROVE  documents'[d].obj \in {documents[d].obj, 0}
  BY <1>3 DEF Deletes, OnlyDocument, Nil
<1>4. ASSUME NEW w \in Workers, Rewrites(w)
      PROVE  documents'[d].obj \in {documents[d].obj, 0}
  <2>1. CASE d # task[w].device
    BY <1>4, <2>1 DEF Rewrites, OnlyDocument
  <2>2. CASE d = task[w].device /\ documents'[d] = Nil
    BY <2>2 DEF Nil
  <2>3. CASE d = task[w].device /\ task[w].pc = "restore" /\ Live(d)
             /\ documents'[d] = RestoredDocument(documents[d], task[w].before, task[w].undo)
    <3>1. /\ documents[d] \in Document /\ task[w].before \in Nat /\ task[w].undo \in Nat
      BY <2>3, BusyWorker DEF TypeOK
    <3>2. RestoredDocument(documents[d], task[w].before, task[w].undo).obj
            = documents[d].obj
      BY <3>1, RestoredDocumentFields
    <3> QED
      BY <2>3, <3>2
  <2>4. CASE documents'[d] = [documents[d] EXCEPT !.state = "stale"]
    BY <2>4 DEF TypeOK, Document
  <2> QED
    BY <1>4, <2>1, <2>2, <2>3, <2>4 DEF Rewrites
<1> QED
  BY <1>1, <1>2, <1>3, <1>4 DEF HistoryShape

LEMMA NextIssued ==
  ASSUME TypeOK, TypeOK', KindInv, DocumentInv', VersionInv', OwnInv, IssuedInv,
         HistoryShape, [Next]_vars
  PROVE  IssuedInv'
<1>1. ASSUME NEW d \in Devices PROVE documents'[d].obj <= next'[d]
  <2>1. /\ next[d] \in Nat /\ next'[d] \in Nat /\ next[d] <= next'[d]
        /\ documents[d].obj \in Nat /\ documents'[d].obj \in Nat
    BY NextGrows DEF TypeOK, Document
  <2>2. ASSUME NEW w \in Workers, task[w].pc = "commit", task[w].device = d
        PROVE  task[w].version <= next[d] /\ task[w].version \in Nat
    <3>1. Owns(w) /\ task[w].version \in Nat
      BY <2>2, BusyWorker DEF Owns
    <3>2. OwnedOK(w)
      BY <3>1 DEF OwnInv
    <3> QED
      BY <2>2, <3>1, <3>2 DEF OwnedOK
  <2> QED
    BY <2>1, <2>2, StoredObject DEF IssuedInv
<1>2. ASSUME NEW x \in Workers, Publishing(x)', NEW s \in task'[x].seen
      PROVE  s.version <= next'[task'[x].device]
  <2> DEFINE d == task'[x].device
  <2>1. /\ d \in Devices /\ next[d] \in Nat /\ next'[d] \in Nat /\ next[d] <= next'[d]
        /\ documents'[d] \in Document /\ documents'[d].version <= next'[d]
        /\ s \in Document /\ s.version \in Nat
    <3>1. d \in Devices /\ s \in Document
      BY <1>2 DEF Publishing, TypeOK, Task
    <3> QED
      BY <3>1, NextGrows DEF TypeOK, Document, VersionInv, DeviceOK
  <2>2. CASE Publishing(x) /\ task[x].device = d /\ s \in task[x].seen
    BY <2>1, <2>2 DEF IssuedInv
  <2>3. CASE s = documents'[d] \/ s = Nil
    BY <2>1, <2>3 DEF Nil
  <2>4. CASE Carries(x)
    BY <1>2, <2>2, <2>4 DEF Carries, Publishing, SameRequest
  <2>5. ASSUME NEW w \in Workers, x # w, Rewrites(w) PROVE s.version <= next'[d]
    BY <1>2, <2>2, <2>3, <2>4, <2>5 DEF Rewrites, Shares, Publishing, SameRequest
  <2>6. ASSUME NEW w \in Workers, x = w,
               \/ Commits(w) \/ Discards(w) \/ Records(w) \/ Rewrites(w)
               \/ \E e \in Devices : Deletes(w, e)
        PROVE  s.version <= next'[d]
    BY <1>2, <2>3, <2>6
       DEF Commits, Discards, Records, Rewrites, Deletes, SameRequest, Publishing
  <2> QED
    BY <2>4, <2>5, <2>6
       DEF HistoryShape, Quiet, Commits, Discards, Records, Deletes, OthersCarry
<1> QED
  BY <1>1, <1>2 DEF IssuedInv

\* The document a publishing worker holds after a step, if it owned it before.
LEMMA OwnedDocument ==
  ASSUME TypeOK, TypeOK', KindInv, OwnInv, HistoryShape, [Next]_vars,
         NEW x \in Workers, Owns(x)', Publishing(x)'
  PROVE  LET d == task'[x].device IN
         /\ task'[x].doc.obj = task'[x].version
         /\ documents'[d].obj = task'[x].version => task'[x].doc = documents'[d]
<1> DEFINE d == task'[x].device
<1>1. /\ Owns(x) /\ SameRequest(x) /\ d \in Devices
      /\ 0 < task[x].version /\ task[x].version \in Nat
  <2>1. OwnedBefore(x) /\ task'[x].pc # "commit"
    BY OwnStep DEF Publishing
  <2>2. Owns(x) /\ SameRequest(x) /\ task[x].device \in Devices
    BY <2>1 DEF OwnedBefore, Issued
  <2> QED
    BY <2>2, BusyWorker DEF SameRequest, OwnInv, OwnedOK, Owns, Publishing
<1>2. ASSUME Carries(x), documents'[d] = documents[d] \/ documents'[d].obj # task[x].version
      PROVE  /\ task'[x].doc.obj = task'[x].version
             /\ documents'[d].obj = task'[x].version => task'[x].doc = documents'[d]
  BY <1>1, <1>2 DEF Carries, Publishing, SameRequest, OwnInv, OwnedOK
<1>3. ASSUME NEW w \in Workers, w # x, task[w].pc = "commit", task[w].device = d
      PROVE  task[w].version # task[x].version
  <2>1. Owns(w) /\ w \in Workers \ {x} /\ task[x].device = d
    BY <1>1, <1>3 DEF Owns, SameRequest
  <2>2. OwnedOK(x)
    BY <1>1 DEF OwnInv
  <2> QED
    BY <1>3, <2>1, <2>2 DEF OwnedOK
<1>4. CASE Quiet
  BY <1>2, <1>4 DEF Quiet
<1>5. ASSUME NEW w \in Workers, w # x, Commits(w) \/ Discards(w) \/ Records(w)
      PROVE  Carries(x) /\ (documents'[d] = documents[d]
                              \/ documents'[d].obj # task[x].version)
  BY <1>1, <1>3, <1>5 DEF Commits, Discards, Records, OnlyDocument, OthersCarry
<1>6. ASSUME NEW w \in Workers, w # x, NEW e \in Devices, Deletes(w, e)
      PROVE  Carries(x) /\ (documents'[d] = documents[d]
                              \/ documents'[d].obj # task[x].version)
  BY <1>1, <1>6 DEF Deletes, OnlyDocument, OthersCarry, Nil
<1>7. ASSUME NEW w \in Workers, w # x, Rewrites(w)
      PROVE  /\ task'[x].doc.obj = task'[x].version
             /\ documents'[d].obj = task'[x].version => task'[x].doc = documents'[d]
  <2>1. CASE task[x].device = task[w].device
             /\ task[x].doc.obj = documents'[task[w].device].obj
    <3>1. Shares(x, documents'[d])
      BY <1>1, <1>7, <2>1 DEF Rewrites, SameRequest, Publishing
    <3> QED
      BY <1>1, <2>1, <3>1 DEF Shares, SameRequest, OwnInv, OwnedOK
  <2>2. CASE ~(task[x].device = task[w].device
               /\ task[x].doc.obj = documents'[task[w].device].obj)
    <3>1. Carries(x) /\ Publishing(x) /\ task[x].doc.obj = task[x].version
      BY <1>1, <1>7, <2>2 DEF Rewrites, Carries, Publishing, OwnInv, OwnedOK
    <3>2. documents'[d] = documents[d] \/ documents'[d].obj # task[x].version
      BY <1>1, <1>7, <2>2, <3>1 DEF Rewrites, OnlyDocument, SameRequest
    <3> QED
      BY <1>2, <3>1, <3>2
  <2> QED
    BY <2>1, <2>2
<1>8. ASSUME NEW w \in Workers, w = x,
             \/ Commits(w) \/ Discards(w) \/ Records(w) \/ Rewrites(w)
             \/ \E e \in Devices : Deletes(w, e)
      PROVE  /\ task'[x].doc.obj = task'[x].version
             /\ documents'[d].obj = task'[x].version => task'[x].doc = documents'[d]
  BY <1>1, <1>8 DEF Commits, Discards, Records, Rewrites, Deletes, SameRequest, Owns, Publishing
<1> QED
  BY <1>2, <1>4, <1>5, <1>6, <1>7, <1>8 DEF HistoryShape

LEMMA NextOwn ==
  ASSUME TypeOK, TypeOK', KindInv, OwnInv, IssuedInv, HistoryShape, [Next]_vars
  PROVE  OwnInv'
<1> SUFFICES ASSUME NEW x \in Workers, Owns(x)' PROVE OwnedOK(x)'
  BY DEF OwnInv
<1> DEFINE d == task'[x].device
           v == task'[x].version
<1>1. /\ OwnedBefore(x) /\ d \in Devices /\ v \in Nat
      /\ \A y \in Workers : Owns(y)' => OwnedBefore(y)
      /\ next[d] \in Nat /\ next'[d] \in Nat /\ next[d] <= next'[d]
  <2>1. d \in Devices /\ v \in Nat
    BY DEF Owns, Publishing, TypeOK, Task
  <2> QED
    BY <2>1, OwnStep, NextGrows
<1>2. v <= next'[d] /\ 0 < v
  BY <1>1 DEF OwnedBefore, OwnInv, OwnedOK, SameRequest, Issued, TypeOK
<1>3. ASSUME NEW y \in Workers \ {x}, Owns(y)', task'[y].device = d
      PROVE  task'[y].version # v
  <2>1. CASE Owns(x) /\ SameRequest(x) /\ Owns(y) /\ SameRequest(y)
    <3>1. OwnedOK(x) /\ task[y].device = task[x].device
      BY <1>3, <2>1 DEF OwnInv, SameRequest
    <3> QED
      BY <2>1, <3>1 DEF OwnedOK, SameRequest
  <2>2. ASSUME NEW a \in Workers, NEW b \in Workers, Issued(a),
               Owns(b), SameRequest(b), task'[a].device = d, task'[b].device = d
        PROVE  task'[a].version # task'[b].version
    <3>1. OwnedOK(b) /\ task[b].device = d
      BY <2>2 DEF OwnInv, SameRequest
    <3>2. task'[b].version <= next[d] /\ task'[a].version = next[d] + 1
      BY <1>1, <2>2, <3>1 DEF OwnedOK, SameRequest, Issued
    <3>3. task'[a].version \in Nat /\ task'[b].version \in Nat
      BY DEF TypeOK, Task
    <3> QED
      BY <1>1, <3>2, <3>3
  <2>3. ASSUME Stays(y) PROVE Owns(y) /\ SameRequest(y)
    BY <1>3, <2>3 DEF Stays, Owns, Publishing, SameRequest
  <2>4. ASSUME Stays(x) PROVE Owns(x) /\ SameRequest(x)
    BY <2>4 DEF Stays, Owns, Publishing, SameRequest
  <2> QED
    BY <1>1, <1>3, <2>1, <2>2, <2>3, <2>4 DEF OwnedBefore
<1>4. ASSUME task'[x].pc = "commit" PROVE v # documents'[d].obj
  <2>1. v # documents[d].obj
    <3>1. CASE Owns(x) /\ SameRequest(x) /\ task[x].pc = "commit"
      <4>1. OwnedOK(x)
        BY <3>1 DEF OwnInv
      <4> QED
        BY <3>1, <4>1 DEF OwnedOK, SameRequest
    <3>2. CASE Issued(x)
      <4>1. /\ v = next[d] + 1 /\ documents[d].obj <= next[d]
            /\ documents[d].obj \in Nat
        BY <1>1, <3>2 DEF Issued, IssuedInv, TypeOK, Document
      <4> QED
        BY <1>1, <4>1
    <3> QED
      BY <1>1, <1>4, <3>1, <3>2 DEF OwnedBefore
  <2>2. ASSUME NEW w \in Workers, task[w].pc = "commit", task'[w].pc # "commit",
               task[w].device = d
        PROVE  v # task[w].version
    <3>1. w # x /\ Owns(w)
      BY <1>4, <2>2 DEF Owns
    <3>2. CASE Owns(x) /\ SameRequest(x)
      <4>1. OwnedOK(x) /\ task[x].device = d
        BY <3>2 DEF OwnInv, SameRequest
      <4> QED
        BY <2>2, <3>1, <3>2, <4>1 DEF OwnedOK, SameRequest
    <3>3. CASE \A y \in Workers \ {x} : Stays(y)
      BY <2>2, <3>1, <3>3 DEF Stays
    <3> QED
      BY <1>1, <3>2, <3>3 DEF OwnedBefore
  <2> QED
    BY <1>2, <2>1, <2>2, StoredObject, <1>1
<1>5. ASSUME Publishing(x)'
      PROVE  /\ task'[x].doc.obj = v
             /\ documents'[d].obj = v => task'[x].doc = documents'[d]
  BY <1>5, OwnedDocument
<1> QED
  BY <1>2, <1>3, <1>4, <1>5 DEF OwnedOK

-----------------------------------------------------------------------------
(***************************************************************************)
(* The order of the history.  Behind a recorded event there are the events *)
(* already appended late, and the workers that can still append one: an    *)
(* operation with an older version that is about to commit, or a document  *)
(* held in an older version.  Appending late makes the worker safe, since  *)
(* its next operation will have a newer version than any before.           *)
(***************************************************************************)
CommitTypes == {"none", "desired", "report", "reconnect"}

SlowWorkers(d, v) ==
  {x \in Workers :
     /\ task[x].device = d
     /\ \/ task[x].pc = "commit" /\ task[x].version < v
        \/ /\ Publishing(x) /\ task[x].kind # "delete"
           /\ \E s \in task[x].seen : s.version < v}

OrderOK(d, i) ==
  LET e == history[d][i] IN
  /\ e.version <= next[d]
  /\ Workers # {}
  /\ e.type # "delete" =>
       Cardinality(OldAfter(history[d], i, e.version, CommitTypes))
         + Cardinality(SlowWorkers(d, e.version)) < Cardinality(Workers)

OrderInv == \A d \in Devices : \A i \in DOMAIN history[d] : OrderOK(d, i)

CapInv == \A d \in Devices : Len(history[d]) <= HistoryCap

LEMMA WorkersFinite ==
  ASSUME NEW S \in SUBSET Workers
  PROVE  /\ IsFiniteSet(S) /\ Cardinality(S) \in Nat /\ Cardinality(Workers) \in Nat
         /\ Cardinality(S) <= Cardinality(Workers)
         /\ \A T \in SUBSET S : Cardinality(T) <= Cardinality(S)
         /\ \A x \in S : Cardinality(S \ {x}) = Cardinality(S) - 1
         /\ \A x \in Workers : Cardinality(Workers \ {x}) = Cardinality(Workers) - 1
<1>1. IsFiniteSet(Workers)
  BY StoreAssumption
<1>2. IsFiniteSet(S) /\ Cardinality(S) <= Cardinality(Workers)
  BY <1>1, FS_Subset
<1>3. ASSUME NEW T \in SUBSET S PROVE Cardinality(T) <= Cardinality(S)
  BY <1>2, FS_Subset
<1>4. ASSUME NEW U, IsFiniteSet(U), NEW x \in U
      PROVE  Cardinality(U \ {x}) = Cardinality(U) - 1
  BY <1>4, FS_RemoveElement
<1> QED
  BY <1>1, <1>2, <1>3, <1>4, FS_CardinalityType

LEMMA RewrittenVersions ==
  ASSUME TypeOK, DocumentInv, NEW w \in Workers, Rewrites(w)
  PROVE  LET d == task[w].device IN
         \/ documents'[d] = Nil /\ ~Live(d)
         \/ /\ Live(d) /\ documents'[d] \in Document
            /\ documents'[d].obj = documents[d].obj
            /\ documents'[d].version >= documents[d].version
            /\ documents'[d].desiredVersion >= documents[d].desiredVersion
            /\ documents'[d].reported = documents[d].reported
            /\ documents'[d].reportedVersion = documents[d].reportedVersion
<1> DEFINE d == task[w].device
           doc == documents[d]
<1>0. /\ d \in Devices /\ doc \in Document
      /\ task[w].before \in Nat /\ task[w].undo \in Nat
      /\ doc.version = MaxVersion(doc.desiredVersion, doc.reportedVersion)
  BY BusyWorker DEF Rewrites, DocumentInv, DocumentOK
<1>1. CASE documents'[d] = Nil /\ ~Live(d)
  BY <1>1
<1>2. CASE Live(d) /\ documents'[d] = RestoredDocument(doc, task[w].before, task[w].undo)
  <2> DEFINE out == RestoredDocument(doc, task[w].before, task[w].undo)
  <2> HIDE DEF doc
  <2>1. out \in Document /\ out.obj = doc.obj
    BY <1>0, RestoredDocumentFields
  <2>2. /\ out.version >= doc.version /\ out.desiredVersion >= doc.desiredVersion
        /\ out.reported = doc.reported /\ out.reportedVersion = doc.reportedVersion
    BY <1>0, RestoredDocumentMoves
  <2> HIDE DEF out
  <2>3. documents'[d] = out
    BY <1>2 DEF out
  <2> QED
    BY <1>2, <2>1, <2>2, <2>3 DEF doc
<1>3. CASE Live(d) /\ documents'[d] = [doc EXCEPT !.state = "stale"]
  BY <1>0, <1>3 DEF Document, State
<1> QED
  BY <1>0, <1>1, <1>2, <1>3 DEF Rewrites

\* No step makes a worker slow, compared with a version already issued.
LEMMA SlowShrinks ==
  ASSUME TypeOK, TypeOK', KindInv, DocumentInv, OwnInv, HeldInv, HistoryShape, [Next]_vars,
         NEW d \in Devices, NEW v \in Nat, v <= next[d]
  PROVE  SlowWorkers(d, v)' \subseteq SlowWorkers(d, v)
<1> SUFFICES ASSUME NEW x \in Workers, task'[x].device = d,
                    \/ task'[x].pc = "commit" /\ task'[x].version < v
                    \/ /\ Publishing(x)' /\ task'[x].kind # "delete"
                       /\ \E s \in task'[x].seen : s.version < v
             PROVE  x \in SlowWorkers(d, v)
  BY DEF SlowWorkers
<1>0. next[d] \in Nat /\ task'[x] \in Task /\ task'[x].version \in Nat
  BY DEF TypeOK, Task
<1>1. CASE task'[x].pc = "commit" /\ task'[x].version < v
  <2>1. OwnedBefore(x)
    BY <1>1, OwnStep DEF Owns
  <2>2. ~Issued(x)
    BY <1>0, <1>1 DEF Issued
  <2> QED
    BY <1>1, <2>1, <2>2 DEF OwnedBefore, SameRequest, SlowWorkers
<1>2. ASSUME Publishing(x)', task'[x].kind # "delete", NEW s \in task'[x].seen, s.version < v
      PROVE  x \in SlowWorkers(d, v)
  <2>1. Owns(x)' /\ OwnedBefore(x) /\ task'[x].pc # "commit"
    BY <1>2, OwnStep DEF Owns, Publishing
  <2>2. Owns(x) /\ SameRequest(x) /\ task[x].device = d /\ task[x].kind # "delete"
    BY <1>2, <2>1 DEF OwnedBefore, Issued, SameRequest
  <2>3. OwnedOK(x)
    BY <2>2 DEF OwnInv
  <2>4. s \in Document /\ s.version \in Nat
    BY <1>0, <1>2 DEF Task, Document
  <2>5. CASE Publishing(x) /\ s \in task[x].seen
    BY <1>2, <2>2, <2>5 DEF SlowWorkers
  <2>6. CASE Carries(x)
    BY <1>2, <2>5, <2>6 DEF Carries, Publishing
  <2>7. ASSUME NEW w \in Workers, x # w, Rewrites(w) PROVE x \in SlowWorkers(d, v)
    <3> DEFINE doc == documents'[task[w].device]
    <3>1. CASE task[x].device = task[w].device /\ task[x].doc.obj = doc.obj
      <4>1. Shares(x, doc)
        BY <1>2, <2>7, <3>1 DEF Rewrites, Publishing
      <4>2. CASE s = doc
        <5>1. /\ task[x].doc.obj = task[x].version /\ 0 < task[x].version
              /\ documents[d].obj = task[x].version => task[x].doc = documents[d]
          BY <2>2, <2>3, <4>1 DEF OwnedOK, Shares
        <5>2. doc # Nil
          <6>1. task[x].version \in Nat /\ Nil.obj = 0
            BY <1>0, <2>2 DEF SameRequest, Nil
          <6>2. doc.obj # 0
            BY <3>1, <5>1, <6>1
          <6> QED
            BY <6>1, <6>2
        <5>3. /\ doc.obj = documents[d].obj /\ doc.version >= documents[d].version
              /\ documents[d].version \in Nat
          BY <2>2, <2>7, <3>1, <5>2, RewrittenVersions DEF TypeOK, Document
        <5>4. task[x].doc = documents[d] /\ task[x].doc \in task[x].seen
          BY <3>1, <4>1, <5>1, <5>3 DEF HeldInv, Shares
        <5>5. task[x].doc.version < v
          BY <1>2, <2>4, <4>2, <5>3, <5>4
        <5> QED
          BY <2>2, <4>1, <5>4, <5>5 DEF Shares, SlowWorkers
      <4> QED
        BY <1>2, <2>5, <4>1, <4>2 DEF Shares
    <3> QED
      BY <2>6, <2>7, <3>1 DEF Rewrites
  <2>8. ASSUME NEW w \in Workers, x = w, Commits(w) PROVE x \in SlowWorkers(d, v)
    <3>1. /\ task[x].pc = "commit" /\ s.version >= task[x].version
          /\ task[x].version \in Nat
      BY <1>2, <2>8, BusyWorker DEF Commits
    <3> QED
      BY <1>2, <2>2, <2>4, <3>1 DEF SlowWorkers
  <2>9. ASSUME NEW w \in Workers, x = w,
               \/ Discards(w) \/ Records(w) \/ Rewrites(w)
               \/ \E e \in Devices : Deletes(w, e)
        PROVE  FALSE
    BY <1>2, <2>9 DEF Discards, Records, Rewrites, Deletes, Publishing
  <2> QED
    BY <2>6, <2>7, <2>8, <2>9
       DEF HistoryShape, Quiet, Commits, Discards, Records, Deletes, OthersCarry
<1> QED
  BY <1>1, <1>2

\* The event that a publishing worker appends, and the history it appends it to.
AppendsEvent(w, d, e, s) ==
  /\ task[w].device = d /\ Publishing(w)
  /\ ~(task'[w].pc \in {"emit", "record"}) /\ task'[w].pc # "commit"
  /\ e \in Event /\ Appended(history[d], e, history'[d], s)
  /\ \E read \in Readings(task[w]) : e = ChangeEvent(task[w], read)
  /\ UNCHANGED <<documents, rolledBack>>

LEMMA RecordsAppend ==
  ASSUME TypeOK, KindInv, CapInv, NEW w \in Workers, Records(w),
         NEW d \in Devices, task[w].device = d
  PROVE  \E e \in Event, s \in {0, 1} : AppendsEvent(w, d, e, s)
<1>1. PICK read \in Readings(task[w]) :
        history' = [history EXCEPT ![d] = Recorded(history[d], ChangeEvent(task[w], read))]
  BY DEF Records
<1> DEFINE e == ChangeEvent(task[w], read)
<1>2. e \in Event /\ history[d] \in Seq(Event) /\ Len(history[d]) <= HistoryCap
  BY BusyWorker, ChangeEventType DEF Records, TypeOK, CapInv
<1>3. PICK s \in {0, 1} : Appended(history[d], e, Recorded(history[d], e), s)
  BY <1>2, RecordedShape
<1>4. history'[d] = Recorded(history[d], e)
  BY <1>1 DEF TypeOK
<1>5. \E r \in Readings(task[w]) : e = ChangeEvent(task[w], r)
  OBVIOUS
<1> HIDE DEF e
<1>6. AppendsEvent(w, d, e, s)
  BY <1>2, <1>3, <1>4, <1>5 DEF AppendsEvent, Records, Publishing
<1> QED
  BY <1>2, <1>6

\* For each device, a step leaves the history alone or appends one event.
LEMMA HistoryGrows ==
  ASSUME TypeOK, KindInv, CapInv, HistoryShape, NEW d \in Devices
  PROVE  \/ history'[d] = history[d]
         \/ \E w \in Workers, e \in Event, s \in {0, 1} : AppendsEvent(w, d, e, s)
<1>1. ASSUME NEW w \in Workers, Records(w), task[w].device # d
      PROVE  history'[d] = history[d]
  BY <1>1 DEF Records
<1> QED
  BY <1>1, RecordsAppend DEF HistoryShape, Quiet, Commits, Discards, Rewrites, Deletes

LEMMA NextCap ==
  ASSUME TypeOK, KindInv, CapInv, HistoryShape
  PROVE  CapInv'
<1> SUFFICES ASSUME NEW d \in Devices PROVE Len(history'[d]) <= HistoryCap
  BY DEF CapInv
<1>1. ASSUME NEW new \in Seq(Event), Len(new) \in 1 .. HistoryCap
      PROVE  Len(new) <= HistoryCap
  BY <1>1, StoreAssumption
<1> QED
  BY <1>1, HistoryGrows DEF CapInv, AppendsEvent, Appended

\* What the appended event says of the worker that appended it.
LEMMA AppendedEvent ==
  ASSUME TypeOK, NEW w \in Workers, NEW d \in Devices, NEW e \in Event, NEW s,
         AppendsEvent(w, d, e, s)
  PROVE  /\ e.type = EventType(task[w].kind) /\ e.version \in Nat
         /\ \E r \in task[w].seen : e.version = r.version
         /\ \E r \in task[w].seen : e.snapshot.desiredVersion = r.desiredVersion
<1>1. PICK read \in Readings(task[w]) : e = ChangeEvent(task[w], read)
  BY DEF AppendsEvent
<1>2. task[w].doc \in Document
  BY BusyWorker DEF AppendsEvent, Publishing
<1>3. read.event \in task[w].seen /\ read.desiredVersion \in task[w].seen
  BY DEF Readings
<1>4. e.snapshot.desiredVersion = read.desiredVersion.desiredVersion
  BY <1>1, <1>2 DEF ChangeEvent, Document
<1> QED
  BY <1>1, <1>3, <1>4 DEF ChangeEvent, Event

\* A worker that appends late was counted as slow and no longer is.
LEMMA FewerSlow ==
  ASSUME NEW S \in SUBSET Workers, NEW T \in SUBSET S, NEW a \in Nat, NEW b \in {0, 1},
         NEW w, b = 1 => w \in S /\ w \notin T,
         a + Cardinality(S) < Cardinality(Workers)
  PROVE  a + b + Cardinality(T) < Cardinality(Workers)
<1>1. /\ Cardinality(S) \in Nat /\ Cardinality(Workers) \in Nat
      /\ Cardinality(T) <= Cardinality(S)
      /\ w \in S => Cardinality(S \ {w}) = Cardinality(S) - 1
  BY WorkersFinite
<1>2. Cardinality(T) \in Nat
  <2>1. T \in SUBSET Workers
    OBVIOUS
  <2> QED
    BY <2>1, WorkersFinite
<1>3. b = 1 => Cardinality(T) <= Cardinality(S) - 1
  <2> SUFFICES ASSUME b = 1 PROVE Cardinality(T) <= Cardinality(S) - 1
    OBVIOUS
  <2>1. T \in SUBSET (S \ {w}) /\ S \ {w} \in SUBSET Workers
    OBVIOUS
  <2>2. Cardinality(T) <= Cardinality(S \ {w})
    BY <2>1, WorkersFinite
  <2> QED
    BY <1>1, <2>2
<1> QED
  BY <1>1, <1>2, <1>3

\* Where an event of a history was before an append.
LEMMA KeptEvent ==
  ASSUME NEW log \in Seq(Event), NEW e \in Event, NEW new, NEW s,
         Appended(log, e, new, s), NEW i \in 1 .. Len(new) - 1
  PROVE  /\ i + s \in DOMAIN log /\ i + s \in Nat /\ i \in 0 .. Len(new) - 1
         /\ new[i] = log[i + s] /\ new[i] \in Event
<1>1. /\ Len(new) \in Nat /\ Len(log) \in Nat /\ s \in {0, 1}
      /\ Len(new) + s = Len(log) + 1 /\ new[i] = log[i + s]
  BY StoreAssumption DEF Appended
<1>2. i + s \in 1 .. Len(log) /\ i + s \in Nat /\ i \in 0 .. Len(new) - 1
  BY <1>1
<1> QED
  BY <1>1, <1>2, ElementOfSeq

\* The events behind a position, before and after an append.
LEMMA CountedAfter ==
  ASSUME NEW log \in Seq(Event), NEW e \in Event, NEW new, NEW s,
         Appended(log, e, new, s), NEW i \in 1 .. Len(new) - 1, NEW v, NEW K
  PROVE  /\ Cardinality(OldAfter(log, i + s, v, K)) \in Nat
         /\ Cardinality(OldAfter(new, i, v, K)) =
              Cardinality(OldAfter(log, i + s, v, K))
                + IF e.type \in K /\ e.version < v THEN 1 ELSE 0
  BY KeptEvent, OldAfterFinite, OldAfterAppended

\* What OrderOK asks of a version v, here and after a step.
OrderCount(d, i, v) ==
  Cardinality(OldAfter(history[d], i, v, CommitTypes))
    + Cardinality(SlowWorkers(d, v)) < Cardinality(Workers)

\* A recorded event keeps its place in the count when another one is appended.
LEMMA OrderAppended ==
  ASSUME TypeOK, TypeOK', KindInv, DocumentInv, OwnInv, IssuedInv, HeldInv, CapInv,
         OrderInv, HistoryShape, [Next]_vars,
         NEW w \in Workers, NEW d \in Devices, NEW e \in Event, NEW s \in {0, 1},
         AppendsEvent(w, d, e, s), NEW i \in DOMAIN history'[d]
  PROVE  OrderOK(d, i)'
<1> DEFINE new == history'[d]
           n == Len(new)
<1>0. /\ history[d] \in Seq(Event) /\ new \in Seq(Event) /\ n \in Nat
      /\ Appended(history[d], e, new, s) /\ new[n] = e /\ i \in 1 .. n
      /\ Workers # {}
      /\ next[d] \in Nat /\ next'[d] \in Nat /\ next[d] <= next'[d]
  <2>1. history[d] \in Seq(Event)
    BY DEF TypeOK
  <2>2. Appended(history[d], e, new, s) /\ Workers # {}
    BY DEF AppendsEvent
  <2>3. new \in Seq(Event) /\ new[n] = e
    BY <2>2 DEF Appended
  <2>4. n \in Nat /\ i \in 1 .. n
    BY <2>3
  <2>5. next[d] \in Nat /\ next'[d] \in Nat /\ next[d] <= next'[d]
    BY NextGrows
  <2> QED
    BY <2>1, <2>2, <2>3, <2>4, <2>5
<1>1. /\ e.version \in Nat /\ e.version <= next[d]
      /\ w \notin SlowWorkers(d, e.version)'
  <2>1. \A r \in task[w].seen : r.version <= next[d]
    BY DEF IssuedInv, AppendsEvent
  <2> QED
    BY <2>1, AppendedEvent DEF AppendsEvent, SlowWorkers, Publishing
<1>2. CASE i = n
  <2>1. OldAfter(new, i, e.version, CommitTypes) = {}
    <3>1. i + 1 .. n = {}
      BY <1>0, <1>2
    <3> QED
      BY <3>1 DEF OldAfter
  <2>2. PICK S \in SUBSET Workers : S = SlowWorkers(d, e.version)' /\ w \notin S
    BY <1>1 DEF SlowWorkers
  <2>3. Cardinality(S) < Cardinality(Workers) /\ Cardinality(S) \in Nat
    <3>1. S \in SUBSET (Workers \ {w}) /\ Workers \ {w} \in SUBSET Workers
      BY <2>2
    <3>2. Cardinality(S) <= Cardinality(Workers \ {w})
      BY <3>1, WorkersFinite
    <3> QED
      BY <3>1, <3>2, WorkersFinite
  <2>4. OrderCount(d, i, e.version)'
    BY <2>1, <2>2, <2>3, FS_EmptySet DEF OrderCount
  <2>5. e.version <= next'[d]
    BY <1>0, <1>1
  <2> QED
    BY <1>0, <1>2, <2>4, <2>5 DEF OrderOK, OrderCount
<1>3. CASE i \in 1 .. n - 1
  <2>1. PICK f \in Event : f = new[i] /\ f = history[d][i + s] /\ i + s \in DOMAIN history[d]
    BY <1>0, <1>3, KeptEvent
  <2>2. PICK v \in Nat : v = f.version
    BY DEF Event
  <2>3. v <= next[d] /\ v <= next'[d] /\ (f.type # "delete" => OrderCount(d, i + s, v))
    <3>1. OrderOK(d, i + s)
      BY <2>1 DEF OrderInv
    <3> QED
      BY <1>0, <2>1, <2>2, <3>1 DEF OrderOK, OrderCount
  <2>4. ASSUME f.type # "delete" PROVE OrderCount(d, i, v)'
    <3> DEFINE isLate == e.type \in CommitTypes /\ e.version < v
    <3>1. PICK a \in Nat : a = Cardinality(OldAfter(history[d], i + s, v, CommitTypes))
      BY <1>0, <1>3, CountedAfter
    <3>2. PICK b \in {0, 1} : b = IF isLate THEN 1 ELSE 0
      OBVIOUS
    <3>3. Cardinality(OldAfter(new, i, v, CommitTypes)) = a + b
      BY <1>0, <1>3, <3>1, <3>2, CountedAfter
    <3>4. PICK S \in SUBSET Workers : S = SlowWorkers(d, v)
      BY DEF SlowWorkers
    <3>5. PICK T \in SUBSET S : T = SlowWorkers(d, v)'
      BY <2>3, <3>4, SlowShrinks
    <3>6. isLate => w \in SlowWorkers(d, v)
      <4> SUFFICES ASSUME e.type \in CommitTypes, e.version < v
                   PROVE  w \in SlowWorkers(d, v)
        OBVIOUS
      <4>1. task[w].kind # "delete"
        BY AppendedEvent DEF EventType, DesiredKind, CommitTypes
      <4> QED
        BY <4>1, AppendedEvent DEF SlowWorkers, AppendsEvent
    <3>7. w \notin T
      BY <3>5 DEF AppendsEvent, SlowWorkers, Publishing
    <3>8. b = 1 => w \in S
      BY <3>2, <3>4, <3>6
    <3>9. a + Cardinality(S) < Cardinality(Workers)
      BY <2>3, <2>4, <3>1, <3>4 DEF OrderCount
    <3>10. a + b + Cardinality(T) < Cardinality(Workers)
      BY <3>7, <3>8, <3>9, FewerSlow
    <3> QED
      BY <3>3, <3>5, <3>10 DEF OrderCount
  <2> QED
    BY <1>0, <2>1, <2>2, <2>3, <2>4 DEF OrderOK, OrderCount
<1> QED
  BY <1>0, <1>2, <1>3

LEMMA NextOrder ==
  ASSUME TypeOK, TypeOK', KindInv, DocumentInv, OwnInv, IssuedInv, HeldInv, CapInv,
         OrderInv, HistoryShape, [Next]_vars
  PROVE  OrderInv'
<1> SUFFICES ASSUME NEW d \in Devices, NEW i \in DOMAIN history'[d]
             PROVE  OrderOK(d, i)'
  BY DEF OrderInv
<1>1. CASE history'[d] = history[d]
  <2>1. PICK f \in Event : f = history[d][i] /\ i \in DOMAIN history[d] /\ i \in Nat
    <3>1. history[d] \in Seq(Event) /\ i \in 1 .. Len(history[d])
      BY <1>1 DEF TypeOK
    <3> QED
      BY <3>1, ElementOfSeq
  <2>2. PICK v \in Nat : v = f.version
    BY DEF Event
  <2>3. /\ v <= next[d] /\ v <= next'[d] /\ Workers # {}
        /\ f.type # "delete" => OrderCount(d, i, v)
    <3>1. OrderOK(d, i)
      BY <2>1 DEF OrderInv
    <3> QED
      BY <2>1, <2>2, <3>1, NextGrows DEF OrderOK, OrderCount
  <2>4. ASSUME f.type # "delete" PROVE OrderCount(d, i, v)'
    <3>1. PICK a \in Nat : a = Cardinality(OldAfter(history[d], i, v, CommitTypes))
      BY <2>1, OldAfterFinite DEF TypeOK
    <3>2. PICK S \in SUBSET Workers : S = SlowWorkers(d, v)
      BY DEF SlowWorkers
    <3>3. PICK T \in SUBSET S : T = SlowWorkers(d, v)'
      BY <2>3, <3>2, SlowShrinks
    <3>4. a + Cardinality(S) < Cardinality(Workers)
      BY <2>3, <2>4, <3>1, <3>2 DEF OrderCount
    <3>5. a + 0 + Cardinality(T) < Cardinality(Workers)
      BY <3>4, FewerSlow
    <3> QED
      BY <1>1, <3>1, <3>3, <3>5 DEF OrderCount
  <2> QED
    BY <1>1, <2>1, <2>2, <2>3, <2>4 DEF OrderOK, OrderCount
<1>2. ASSUME NEW w \in Workers, NEW e \in Event, NEW s \in {0, 1}, AppendsEvent(w, d, e, s)
      PROVE  OrderOK(d, i)'
  BY <1>2, OrderAppended
<1> QED
  BY <1>1, <1>2, HistoryGrows

HistoryBase ==
  /\ StoreInv /\ HeldInv /\ OwnInv /\ IssuedInv /\ CapInv

LEMMA InitHistory == Init => HistoryBase /\ OrderInv
<1> SUFFICES ASSUME Init PROVE HistoryBase /\ OrderInv
  OBVIOUS
<1>1. StoreInv
  BY InitType, InitKind, InitDocument, InitVersion DEF StoreInv
<1>2. \A x \in Workers : ~Publishing(x) /\ ~Owns(x)
  BY DEF Init, Idle, Publishing, Owns
<1>3. \A d \in Devices : history[d] = <<>> /\ documents[d].obj <= next[d]
  BY DEF Init, Nil
<1>4. CapInv /\ OrderInv
  BY <1>3, StoreAssumption DEF CapInv, OrderInv
<1> QED
  BY <1>1, <1>2, <1>3, <1>4 DEF HistoryBase, HeldInv, OwnInv, IssuedInv

LEMMA NextBase ==
  ASSUME HistoryBase, [Next]_vars
  PROVE  HistoryBase' /\ HistoryShape /\ StoreInv /\ StoreInv'
<1>1. StoreInv' /\ StoreInv
  BY NextType, NextKind, NextDocument, NextVersion DEF HistoryBase, StoreInv
<1>2. HistoryShape
  BY <1>1, HistorySteps DEF HistoryBase, StoreInv
<1>3. HeldInv' /\ CapInv'
  BY <1>1, <1>2, NextHeld, NextCap DEF HistoryBase, StoreInv
<1>4. OwnInv' /\ IssuedInv'
  BY <1>1, <1>2, NextOwn, NextIssued DEF HistoryBase, StoreInv
<1> QED
  BY <1>1, <1>2, <1>3, <1>4 DEF HistoryBase

\* Events are appended outside the lock that orders the commits, and still at
\* most one per other worker can be out of order behind any event, for however
\* many workers, devices, requests and evictions (Store.record, audit.go).
THEOREM HistoryIsAlmostOrdered == Spec => []HistoryInCommitOrder
<1>1. HistoryBase /\ OrderInv /\ [Next]_vars => (HistoryBase /\ OrderInv)'
  BY NextBase, NextOrder DEF HistoryBase, StoreInv
<1>2. HistoryBase /\ OrderInv => HistoryInCommitOrder
  <2> SUFFICES ASSUME HistoryBase, OrderInv,
                      NEW d \in Devices, NEW i \in DOMAIN history[d]
               PROVE  Cardinality({j \in i + 1 .. Len(history[d]) :
                          /\ history[d][i].type # "delete"
                          /\ history[d][j].type # "delete"
                          /\ history[d][j].version < history[d][i].version})
                        < Cardinality(Workers)
    BY DEF HistoryInCommitOrder
  <2> DEFINE log == history[d]
             v == log[i].version
             late == {j \in i + 1 .. Len(log) :
                          /\ log[i].type # "delete" /\ log[j].type # "delete"
                          /\ log[j].version < v}
  <2>1. log \in Seq(Event) /\ i \in 1 .. Len(log)
    BY DEF HistoryBase, StoreInv, TypeOK
  <2>2. Workers # {} /\ Cardinality(Workers) \in Nat /\ Cardinality(Workers) > 0
    <3>1. Workers # {}
      BY DEF OrderInv, OrderOK
    <3> QED
      BY <3>1, WorkersFinite, StoreAssumption, FS_EmptySet
  <2>3. CASE log[i].type = "delete"
    <3>1. late = {}
      BY <2>3
    <3> QED
      BY <2>2, <3>1, FS_EmptySet
  <2>4. CASE log[i].type # "delete"
    <3>1. late = OldAfter(log, i, v, CommitTypes)
      <4>1. \A j \in i + 1 .. Len(log) : log[j] \in Event
        BY <2>1, ElementOfSeq
      <4> QED
        BY <2>4, <4>1 DEF OldAfter, CommitTypes, Event
    <3>2. Cardinality(OldAfter(log, i, v, CommitTypes))
            + Cardinality(SlowWorkers(d, v)) < Cardinality(Workers)
      BY <2>4 DEF OrderInv, OrderOK
    <3>3. SlowWorkers(d, v) \in SUBSET Workers
      BY DEF SlowWorkers
    <3>4. Cardinality(SlowWorkers(d, v)) \in Nat
      BY <3>3, WorkersFinite
    <3>5. Cardinality(OldAfter(log, i, v, CommitTypes)) \in Nat
      BY <2>1, OldAfterFinite
    <3>6. Cardinality(late) < Cardinality(Workers)
      <4> HIDE DEF late
      <4> QED
        BY <2>2, <3>1, <3>2, <3>4, <3>5
    <3> QED
      BY <3>6
  <2> QED
    BY <2>3, <2>4
<1> QED
  BY <1>1, <1>2, InitHistory, PTL DEF Spec

-----------------------------------------------------------------------------
(***************************************************************************)
(* The latest desired write.  Its event is in the history, or its worker   *)
(* is about to append it, or enough events have evicted it.  What follows  *)
(* it, together with the workers that may still append an older event, is  *)
(* fewer than all workers.                                                 *)
(***************************************************************************)
EventTypes == {"none", "desired", "report", "delete", "reconnect"}

\* A shadow that was swept and rebuilt is not rolled back to its former life.
NoSweptRollback == "gc" \notin Requests \/ "transaction" \notin Requests

Behind(d, v) ==
  {x \in Workers : task[x].device = d /\ Publishing(x)
                   /\ \E s \in task[x].seen : s.version < v}

LatestCount(d, i, v) ==
  Cardinality(OldAfter(history[d], i, v, EventTypes))
    + Cardinality(Behind(d, v)) < Cardinality(Workers)

RecordsLater(x, d, v) ==
  /\ task[x].device = d /\ Publishing(x) /\ task[x].kind \in DesiredKind
  /\ \A s \in task[x].seen : s.desiredVersion >= v

LatestRecorded(d, v) ==
  \E i \in DOMAIN history[d] :
    /\ history[d][i].type = "desired"
    /\ history[d][i].snapshot.desiredVersion >= v
    /\ LatestCount(d, i, v)

LatestEvicted(d, v) == Len(history[d]) = HistoryCap /\ LatestCount(d, 0, v)

LatestKnown(d, v) ==
  \/ LatestRecorded(d, v)
  \/ \E x \in Workers : RecordsLater(x, d, v)
  \/ LatestEvicted(d, v)

LatestInv ==
  \A d \in Devices :
    documents[d].desiredVersion > 0 => LatestKnown(d, documents[d].desiredVersion)

LEMMA NextUndoWithoutSweep ==
  ASSUME StoreInv, StoreInv', UndoInv, [Next]_vars, NoSweptRollback
  PROVE  UndoInv'
<1>1. CASE "gc" \notin Requests
  BY <1>1, NextUndo DEF StoreInv
<1>2. CASE "transaction" \notin Requests
  BY <1>2 DEF StoreInv, KindInv, KindOK, UndoInv
<1> QED
  BY <1>1, <1>2 DEF NoSweptRollback

\* Only a commit and a delete move the desired version.
LEMMA DesiredVersionMoves ==
  ASSUME StoreInv, UndoInv, HistoryShape, NEW d \in Devices,
         documents'[d].desiredVersion # 0,
         documents'[d].desiredVersion # documents[d].desiredVersion
  PROVE  \E w \in Workers : Commits(w) /\ task[w].device = d /\ task[w].kind \in DesiredKind
<1>1. ASSUME NEW w \in Workers, Rewrites(w), task[w].device = d PROVE FALSE
  <2>1. /\ documents[d] \in Document /\ task[w].before \in Nat /\ task[w].undo \in Nat
    BY <1>1, BusyWorker DEF Rewrites, StoreInv, TypeOK
  <2>2. CASE task[w].pc = "restore" /\ Live(d)
             /\ documents'[d] = RestoredDocument(documents[d], task[w].before, task[w].undo)
    <3>1. task[w].undo <= documents[d].desiredVersion
      <4>1. d \notin tombstones
        BY <2>2 DEF StoreInv, DocumentInv, TombstoneExcludesDocument
      <4> QED
        BY <1>1, <2>2, <4>1 DEF UndoInv
    <3>2. PICK doc \in Document : doc = documents[d]
      BY <2>1
    <3>3. LET out == RestoredDocument(doc, task[w].before, task[w].undo) IN
          /\ out.desiredVersion \in {doc.desiredVersion, task[w].undo}
          /\ out.desiredVersion >= doc.desiredVersion
      BY <2>1, RestoredDocumentFields
    <3>4. documents'[d].desiredVersion = documents[d].desiredVersion
      BY <2>1, <2>2, <3>1, <3>2, <3>3 DEF Document
    <3> QED
      BY <3>4
  <2>3. CASE documents'[d] = Nil
    BY <2>3 DEF Nil
  <2>4. CASE documents'[d] = [documents[d] EXCEPT !.state = "stale"]
    BY <2>1, <2>4 DEF Document
  <2> QED
    BY <1>1, <2>2, <2>3, <2>4 DEF Rewrites
<1>2. ASSUME NEW w \in Workers, NEW e \in Devices, Deletes(w, e) PROVE FALSE
  BY <1>2 DEF Deletes, OnlyDocument, Nil
<1>3. ASSUME NEW w \in Workers, Discards(w) \/ Records(w) PROVE FALSE
  BY <1>3 DEF Discards, Records, OnlyDocument
<1>4. ~Quiet
  BY DEF Quiet
<1>5. ASSUME NEW w \in Workers, Rewrites(w) PROVE FALSE
  BY <1>1, <1>5 DEF Rewrites, OnlyDocument
<1>6. ASSUME NEW w \in Workers, Commits(w)
      PROVE  task[w].device = d /\ task[w].kind \in DesiredKind
  BY <1>6 DEF Commits, OnlyDocument
<1> QED
  BY <1>2, <1>3, <1>4, <1>5, <1>6 DEF HistoryShape

\* No step leaves a worker behind the desired version the step leaves stored.
LEMMA BehindShrinks ==
  ASSUME TypeOK, TypeOK', DocumentInv', HistoryShape, NEW d \in Devices,
         NEW v, v = documents'[d].desiredVersion, v > 0
  PROVE  Behind(d, v)' \subseteq Behind(d, v)
<1> SUFFICES ASSUME NEW x \in Workers, task'[x].device = d, Publishing(x)',
                    NEW s \in task'[x].seen, s.version < v
             PROVE  x \in Behind(d, v)
  BY DEF Behind
<1>1. documents'[d] \in Document /\ documents'[d].version >= v /\ v \in Nat
  BY DEF TypeOK, DocumentInv, DocumentOK, Document, MaxVersion
<1>2. s # documents'[d] /\ documents'[d] # Nil
  BY <1>1 DEF Document, Nil
<1>3. CASE Publishing(x) /\ SameRequest(x) /\ s \in task[x].seen
  BY <1>3 DEF Behind, SameRequest
<1>4. CASE Carries(x)
  BY <1>3, <1>4 DEF Carries, Publishing
<1>5. ASSUME NEW w \in Workers, x # w, Rewrites(w) PROVE x \in Behind(d, v)
  BY <1>2, <1>3, <1>4, <1>5 DEF Rewrites, Shares, Publishing, SameRequest
<1>6. ASSUME NEW w \in Workers, x = w,
             \/ Commits(w) \/ Discards(w) \/ Records(w) \/ Rewrites(w)
             \/ \E e \in Devices : Deletes(w, e)
      PROVE  FALSE
  BY <1>2, <1>6
     DEF Commits, Discards, Records, Rewrites, Deletes, SameRequest, Publishing
<1> QED
  BY <1>4, <1>5, <1>6
     DEF HistoryShape, Quiet, Commits, Discards, Records, Deletes, OthersCarry

LEMMA LatestKept ==
  ASSUME TypeOK, NEW d \in Devices, NEW v \in Nat,
         Behind(d, v)' \subseteq Behind(d, v), history'[d] = history[d],
         NEW i \in Nat, LatestCount(d, i, v)
  PROVE  LatestCount(d, i, v)'
<1>1. PICK a \in Nat : a = Cardinality(OldAfter(history[d], i, v, EventTypes))
  BY OldAfterFinite DEF TypeOK
<1>2. PICK S \in SUBSET Workers : S = Behind(d, v)
  BY DEF Behind
<1>3. PICK T \in SUBSET S : T = Behind(d, v)'
  BY <1>2
<1>4. a + Cardinality(S) < Cardinality(Workers)
  BY <1>1, <1>2 DEF LatestCount
<1>5. a + 0 + Cardinality(T) < Cardinality(Workers)
  BY <1>4, FewerSlow
<1> QED
  BY <1>1, <1>3, <1>5 DEF LatestCount

LEMMA LatestShifted ==
  ASSUME TypeOK, NEW d \in Devices, NEW v \in Nat,
         Behind(d, v)' \subseteq Behind(d, v),
         NEW w \in Workers, NEW e \in Event, NEW s \in {0, 1}, AppendsEvent(w, d, e, s),
         NEW i \in 0 .. Len(history'[d]) - 1, LatestCount(d, i + s, v)
  PROVE  LatestCount(d, i, v)'
<1> DEFINE isLate == e.type \in EventTypes /\ e.version < v
<1>0. /\ history[d] \in Seq(Event) /\ Appended(history[d], e, history'[d], s)
      /\ i + s \in Nat
  BY DEF AppendsEvent, TypeOK
<1>1. PICK a \in Nat : a = Cardinality(OldAfter(history[d], i + s, v, EventTypes))
  BY <1>0, OldAfterFinite
<1>2. PICK b \in {0, 1} : b = IF isLate THEN 1 ELSE 0
  OBVIOUS
<1>3. Cardinality(OldAfter(history'[d], i, v, EventTypes)) = a + b
  BY <1>0, <1>1, <1>2, OldAfterAppended
<1>4. PICK S \in SUBSET Workers : S = Behind(d, v)
  BY DEF Behind
<1>5. PICK T \in SUBSET S : T = Behind(d, v)'
  BY <1>4
<1>6. isLate => w \in Behind(d, v)
  <2>1. \E r \in task[w].seen : e.version = r.version
    BY AppendedEvent
  <2> QED
    BY <2>1 DEF Behind, AppendsEvent
<1>7. w \notin T
  BY <1>5 DEF AppendsEvent, Behind, Publishing
<1>8. b = 1 => w \in S
  BY <1>2, <1>4, <1>6
<1>9. a + Cardinality(S) < Cardinality(Workers)
  BY <1>1, <1>4 DEF LatestCount
<1>10. a + b + Cardinality(T) < Cardinality(Workers)
  BY <1>7, <1>8, <1>9, FewerSlow
<1> QED
  BY <1>3, <1>5, <1>10 DEF LatestCount

\* A worker between its commit and the append of its event goes on until it has
\* appended it, with the document it holds or the one written into it.
LEMMA StillPublishing ==
  ASSUME TypeOK, KindInv, HeldInv, HistoryShape, [Next]_vars,
         NEW x \in Workers, Publishing(x)
  PROVE  \/ Records(x)
         \/ /\ Publishing(x)' /\ task[x].device \in Devices
            /\ Carries(x) \/ Shares(x, documents'[task[x].device])
<1>0. task[x].device \in Devices
  BY DEF Publishing, TypeOK
<1>1. CASE Publishing(x)'
  <2>1. ASSUME NEW w \in Workers, x # w, Rewrites(w)
        PROVE  Carries(x) \/ Shares(x, documents'[task[x].device])
    BY <1>1, <2>1 DEF Rewrites, Publishing
  <2>2. ASSUME NEW w \in Workers, x = w,
               \/ Commits(w) \/ Discards(w) \/ Records(w) \/ Rewrites(w)
               \/ \E e \in Devices : Deletes(w, e)
        PROVE  FALSE
    BY <1>1, <2>2 DEF Commits, Discards, Records, Rewrites, Deletes, Publishing
  <2> QED
    BY <1>0, <1>1, <2>1, <2>2
       DEF HistoryShape, Quiet, Commits, Discards, Records, Deletes, OthersCarry
<1>2. CASE ~Publishing(x)'
  <2>1. ~Stays(x)
    BY <1>2 DEF Stays, Publishing
  <2>2. ASSUME NEW w \in Workers, Start(w) PROVE FALSE
    <3>1. task[w].pc = "idle" /\ \A y \in Workers \ {w} : Stays(y)
      BY <2>2, StartTask DEF Start, HandleReport, ApplyDesired, ApplyTransactional,
                             Delete, Begin, TaskStep, TypeOK
    <3> QED
      BY <2>1, <3>1 DEF Publishing
  <2>3. ASSUME NEW w \in Workers, Step(w) PROVE x = w
    BY <2>1, <2>3, StepTask DEF TaskStep
  <2>4. ASSUME Step(x) PROVE Record(x)
    <3>1. ~Emit(x)
      BY <1>2 DEF Emit, TypeOK, Publishing, Task
    <3> QED
      BY <2>4, <3>1 DEF Publishing, Step, AllocTransaction, CommitDesired, CommitReport,
           DesiredOnTombstone, DiscardReport, ReportOnTombstone, Deliver,
           DeliverAndMark, RereadVersion, Restore, MarkBatchPartial
  <2>5. ASSUME Record(x) PROVE Records(x)
    <3>1. task[x].pc = "record" /\ (x \in Workers => task'[x].pc \in {"deliver", "idle"})
      BY <2>5, IdleType DEF Record, TypeOK, Task
    <3>2. OthersCarry(x)
      BY <2>5, StillCarries DEF Record, OthersCarry, TypeOK
    <3> QED
      BY <1>0, <2>5, <3>1, <3>2 DEF Records, Record
  <2>6. ASSUME UNCHANGED vars \/ GCTombstones PROVE FALSE
    BY <2>1, <2>6 DEF vars, GCTombstones, Stays
  <2> QED
    BY <2>2, <2>3, <2>4, <2>5, <2>6 DEF Next
<1> QED
  BY <1>1, <1>2

\* What a worker that appends a desired write leaves in the history.
LEMMA LatestAppended ==
  ASSUME TypeOK, NEW d \in Devices, NEW v \in Nat, Behind(d, v)' \subseteq Behind(d, v),
         NEW w \in Workers, NEW e \in Event, NEW s \in {0, 1},
         AppendsEvent(w, d, e, s), RecordsLater(w, d, v)
  PROVE  LatestRecorded(d, v)'
<1>1. PICK n \in Nat : /\ n = Len(history'[d]) /\ n \in DOMAIN history'[d]
                       /\ history'[d][n] = e
  BY DEF AppendsEvent, Appended
<1>2. e.type = "desired" /\ e.snapshot.desiredVersion >= v
  <2>1. PICK r \in task[w].seen : e.snapshot.desiredVersion = r.desiredVersion
    BY AppendedEvent
  <2> QED
    BY <2>1, AppendedEvent DEF RecordsLater, EventType
<1>3. OldAfter(history'[d], n, v, EventTypes) = {}
  <2>1. n + 1 .. n = {}
    OBVIOUS
  <2> QED
    BY <1>1, <2>1 DEF OldAfter
<1>4. PICK T \in SUBSET Workers : T = Behind(d, v)' /\ w \notin T
  BY DEF Behind, AppendsEvent, Publishing
<1>5. Cardinality(T) < Cardinality(Workers) /\ Cardinality(T) \in Nat
  <2>1. T \in SUBSET (Workers \ {w}) /\ Workers \ {w} \in SUBSET Workers
    BY <1>4
  <2>2. Cardinality(T) <= Cardinality(Workers \ {w})
    BY <2>1, WorkersFinite
  <2> QED
    BY <2>1, <2>2, WorkersFinite
<1>6. LatestCount(d, n, v)'
  BY <1>3, <1>4, <1>5, FS_EmptySet DEF LatestCount
<1> QED
  BY <1>1, <1>2, <1>6 DEF LatestRecorded

\* An append keeps a recorded write's place, or evicts it.
LEMMA LatestMoved ==
  ASSUME TypeOK, NEW d \in Devices, NEW v \in Nat, Behind(d, v)' \subseteq Behind(d, v),
         NEW w \in Workers, NEW e \in Event, NEW s \in {0, 1}, AppendsEvent(w, d, e, s),
         LatestRecorded(d, v)
  PROVE  LatestRecorded(d, v)' \/ LatestEvicted(d, v)'
<1>0. /\ history[d] \in Seq(Event) /\ history'[d] \in Seq(Event)
      /\ Appended(history[d], e, history'[d], s)
      /\ Len(history[d]) \in Nat /\ Len(history'[d]) \in Nat /\ Len(history'[d]) >= 1
      /\ Len(history'[d]) + s = Len(history[d]) + 1
      /\ s = 1 => Len(history'[d]) = HistoryCap
  BY StoreAssumption DEF AppendsEvent, Appended, TypeOK
<1>1. PICK k \in 1 .. Len(history[d]) :
        /\ history[d][k].type = "desired"
        /\ history[d][k].snapshot.desiredVersion >= v
        /\ LatestCount(d, k, v)
  BY <1>0 DEF LatestRecorded
<1>2. CASE k - s = 0
  <2>1. s = 1 /\ 0 \in 0 .. Len(history'[d]) - 1 /\ 0 + s = k
    BY <1>0, <1>2
  <2>2. LatestCount(d, 0, v)'
    BY <1>1, <2>1, LatestShifted
  <2> QED
    BY <1>0, <2>1, <2>2 DEF LatestEvicted
<1>3. CASE k - s # 0
  <2>1. PICK i \in 1 .. Len(history'[d]) - 1 : i + s = k
    BY <1>0, <1>3
  <2>2. i \in 0 .. Len(history'[d]) - 1 /\ i \in DOMAIN history'[d]
    BY <1>0
  <2>3. LatestCount(d, i, v)'
    BY <1>1, <2>1, <2>2, LatestShifted
  <2>4. history'[d][i] = history[d][i + s]
    BY <1>0, <2>1, KeptEvent
  <2>5. history'[d][i] = history[d][k]
    BY <2>1, <2>4
  <2> QED
    BY <1>1, <2>2, <2>3, <2>5 DEF LatestRecorded
<1> QED
  BY <1>2, <1>3

LEMMA EvictedStays ==
  ASSUME TypeOK, CapInv, NEW d \in Devices, NEW v \in Nat,
         Behind(d, v)' \subseteq Behind(d, v),
         NEW w \in Workers, NEW e \in Event, NEW s \in {0, 1}, AppendsEvent(w, d, e, s),
         LatestEvicted(d, v)
  PROVE  LatestEvicted(d, v)'
<1>0. /\ history[d] \in Seq(Event) /\ HistoryCap \in Nat /\ HistoryCap >= 1
      /\ Len(history[d]) = HistoryCap
      /\ Len(history'[d]) = HistoryCap /\ s = 1
  BY StoreAssumption DEF AppendsEvent, Appended, TypeOK, LatestEvicted
<1>1. LatestCount(d, 1, v)
  <2>1. PICK a \in Nat : a = Cardinality(OldAfter(history[d], 0, v, EventTypes))
    BY <1>0, OldAfterFinite
  <2>2. PICK b \in Nat : b = Cardinality(OldAfter(history[d], 1, v, EventTypes))
    BY <1>0, OldAfterFinite
  <2>3. b <= a
    BY <1>0, <2>1, <2>2, OldAfterLater
  <2>4. PICK S \in SUBSET Workers : S = Behind(d, v)
    BY DEF Behind
  <2>5. Cardinality(S) \in Nat /\ Cardinality(Workers) \in Nat
    BY WorkersFinite
  <2>6. a + Cardinality(S) < Cardinality(Workers)
    BY <2>1, <2>4 DEF LatestEvicted, LatestCount
  <2>7. b + Cardinality(S) < Cardinality(Workers)
    BY <2>3, <2>5, <2>6
  <2> QED
    BY <2>2, <2>4, <2>7 DEF LatestCount
<1>2. 0 \in 0 .. Len(history'[d]) - 1 /\ 0 + s = 1
  BY <1>0
<1>3. LatestCount(d, 0, v)'
  BY <1>1, <1>2, LatestShifted
<1> QED
  BY <1>0, <1>3 DEF LatestEvicted

LEMMA NextLatest ==
  ASSUME StoreInv, StoreInv', UndoInv, HeldInv, CapInv, LatestInv, HistoryShape, [Next]_vars
  PROVE  LatestInv'
<1> SUFFICES ASSUME NEW d \in Devices, documents'[d].desiredVersion > 0
             PROVE  LatestKnown(d, documents[d].desiredVersion)'
  BY DEF LatestInv
<1> USE DEF StoreInv
<1>0. PICK v \in Nat : v = documents'[d].desiredVersion /\ v > 0
  BY DEF TypeOK, Document
<1>1. CASE v # documents[d].desiredVersion
  <2>1. PICK w \in Workers : Commits(w) /\ task[w].device = d /\ task[w].kind \in DesiredKind
    BY <1>0, <1>1, DesiredVersionMoves
  <2>2. RecordsLater(w, d, v)'
    BY <1>0, <2>1 DEF Commits, RecordsLater, SameRequest, Publishing
  <2> QED
    BY <1>0, <2>2 DEF LatestKnown
<1>2. CASE v = documents[d].desiredVersion
  <2>1. LatestKnown(d, v)
    BY <1>0, <1>2 DEF LatestInv
  <2>2. Behind(d, v)' \subseteq Behind(d, v)
    BY <1>0, BehindShrinks
  <2>3. CASE LatestRecorded(d, v) \/ LatestEvicted(d, v)
    <3>1. CASE history'[d] = history[d]
      <4>1. \A i \in DOMAIN history[d] : i \in Nat
        BY DEF TypeOK
      <4>2. \A i \in Nat : LatestCount(d, i, v) => LatestCount(d, i, v)'
        BY <2>2, <3>1, LatestKept
      <4>3. LatestRecorded(d, v) => LatestRecorded(d, v)'
        BY <3>1, <4>1, <4>2 DEF LatestRecorded
      <4>4. LatestEvicted(d, v) => LatestEvicted(d, v)'
        BY <3>1, <4>2 DEF LatestEvicted
      <4> QED
        BY <1>0, <2>3, <4>3, <4>4 DEF LatestKnown
    <3>2. ASSUME NEW w \in Workers, NEW e \in Event, NEW s \in {0, 1}, AppendsEvent(w, d, e, s)
          PROVE  LatestRecorded(d, v)' \/ LatestEvicted(d, v)'
      BY <2>2, <2>3, <3>2, LatestMoved, EvictedStays
    <3> QED
      BY <1>0, <3>1, <3>2, HistoryGrows DEF LatestKnown
  <2>4. ASSUME NEW x \in Workers, RecordsLater(x, d, v)
        PROVE  LatestRecorded(d, v)' \/ RecordsLater(x, d, v)'
    <3>1. CASE Records(x)
      <4>1. PICK e \in Event, s \in {0, 1} : AppendsEvent(x, d, e, s)
        BY <2>4, <3>1, RecordsAppend DEF RecordsLater
      <4> QED
        BY <2>2, <2>4, <4>1, LatestAppended
    <3>2. CASE Publishing(x)' /\ Carries(x)
      BY <2>4, <3>2 DEF RecordsLater, Carries, SameRequest, Publishing
    <3>3. CASE Publishing(x)' /\ Shares(x, documents'[d])
      <4>1. documents'[d].desiredVersion >= v
        BY <1>0
      <4> QED
        BY <2>4, <3>3, <4>1 DEF RecordsLater, Shares, SameRequest, Publishing
    <3> QED
      BY <2>4, <3>1, <3>2, <3>3, StillPublishing DEF RecordsLater
  <2> QED
    BY <1>0, <2>1, <2>3, <2>4 DEF LatestKnown
<1> QED
  BY <1>1, <1>2

\* What the reconnect sync reads is complete but for what the cap evicted: in
\* any interleaving of the writers, the latest desired write of a shadow is in
\* the history, or about to be, or events of newer versions have evicted it
\* (Store.record, Store.ListDesiredSince).  The rollback of a transaction which
\* outlived the tombstone of its shadow would raise the version of the next
\* shadow without an event: hence no sweeps, or no transactions.
THEOREM LatestDesiredIsRecorded ==
  ASSUME "gc" \notin Requests \/ "transaction" \notin Requests
  PROVE  Spec => []LatestDesiredRecorded
<1> DEFINE Inv == HistoryBase /\ UndoInv /\ LatestInv
<1>1. Init => Inv
  BY InitHistory DEF Init, UndoInv, LatestInv, Idle, Nil
<1>2. Inv /\ [Next]_vars => Inv'
  BY NextBase, NextLatest, NextUndoWithoutSweep DEF HistoryBase, NoSweptRollback
<1>3. Inv => LatestDesiredRecorded
  <2> SUFFICES ASSUME HistoryBase, LatestInv, NEW d \in Devices,
                      documents[d].desiredVersion > 0
               PROVE  \/ \E e \in Logged(d) :
                           /\ e.type = "desired"
                           /\ e.snapshot.desiredVersion >= documents[d].desiredVersion
                      \/ \E w \in Workers :
                           /\ task[w].device = d /\ task[w].pc \in {"emit", "record"}
                           /\ task[w].kind \in DesiredKind
                           /\ task[w].doc.desiredVersion >= documents[d].desiredVersion
                      \/ /\ Len(history[d]) = HistoryCap
                         /\ Cardinality({i \in DOMAIN history[d] :
                              history[d][i].version < documents[d].desiredVersion})
                              < Cardinality(Workers)
    BY DEF LatestDesiredRecorded
  <2>1. PICK v \in Nat : v = documents[d].desiredVersion
    BY DEF HistoryBase, StoreInv, TypeOK, Document
  <2>2. LatestKnown(d, v)
    BY <2>1 DEF LatestInv
  <2>3. CASE LatestRecorded(d, v)
    BY <2>1, <2>3 DEF LatestRecorded, Logged
  <2>4. ASSUME NEW x \in Workers, RecordsLater(x, d, v)
        PROVE  task[x].doc.desiredVersion >= v
    BY <2>4 DEF RecordsLater, HistoryBase, HeldInv
  <2>5. CASE LatestEvicted(d, v)
    <3>1. history[d] \in Seq(Event)
      BY DEF HistoryBase, StoreInv, TypeOK
    <3>2. \A j \in DOMAIN history[d] : history[d][j].type \in EventTypes
      <4>1. ASSUME NEW j \in 1 .. Len(history[d]) PROVE history[d][j] \in Event
        BY <3>1, ElementOfSeq
      <4> QED
        BY <3>1, <4>1 DEF Event, EventTypes
    <3>3. PICK old : old = {i \in DOMAIN history[d] : history[d][i].version < v}
      OBVIOUS
    <3>4. old = OldAfter(history[d], 0, v, EventTypes)
      BY <3>1, <3>2, <3>3 DEF OldAfter
    <3>5. PICK S \in SUBSET Workers : S = Behind(d, v)
      BY DEF Behind
    <3>6. Cardinality(old) \in Nat /\ Cardinality(S) \in Nat /\ Cardinality(Workers) \in Nat
      BY <3>1, <3>4, <3>5, OldAfterFinite, WorkersFinite
    <3>7. Cardinality(old) + Cardinality(S) < Cardinality(Workers)
      BY <2>5, <3>4, <3>5 DEF LatestEvicted, LatestCount
    <3>8. Cardinality(old) < Cardinality(Workers)
      BY <3>6, <3>7
    <3> QED
      BY <2>1, <2>5, <3>3, <3>8 DEF LatestEvicted
  <2> QED
    BY <2>1, <2>2, <2>3, <2>4, <2>5 DEF LatestKnown, RecordsLater, Publishing
<1> QED
  BY <1>1, <1>2, <1>3, PTL DEF Spec

-----------------------------------------------------------------------------
(***************************************************************************)
(* The newest event.  What follows the event that tells of the present     *)
(* shadow, together with the workers that may still append an outdated     *)
(* one, is fewer than all workers.                                         *)
(***************************************************************************)
ShowsAll(x, d) ==
  \A s \in task[x].seen : s.version = documents[d].version /\ Shows(s, d)

ShowsLater(x, d) == task[x].device = d /\ Publishing(x) /\ ShowsAll(x, d)

Outdated(d) ==
  {x \in Workers : task[x].device = d /\ Publishing(x) /\ ~ShowsAll(x, d)}

NewestCount(d, i) ==
  Len(history[d]) - i + Cardinality(Outdated(d)) < Cardinality(Workers)

NewestRecorded(d) ==
  \E i \in DOMAIN history[d] :
    /\ history[d][i].version = documents[d].version
    /\ Shows(history[d][i].snapshot, d)
    /\ NewestCount(d, i)

NewestKnown(d) == NewestRecorded(d) \/ \E x \in Workers : ShowsLater(x, d)

NewestInv == \A d \in Devices : documents[d].version > 0 => NewestKnown(d)

\* What shows the shadow of d does after the step, and no version moves.
StillShown(d) ==
  /\ documents'[d].version = documents[d].version
  /\ \A snapshot : Shows(snapshot, d) => Shows(snapshot, d)'

\* A commit aside, a step leaves the shadow as it was shown, or deletes it.
LEMMA ShownSteps ==
  ASSUME StoreInv, StoreInv', UndoInv, HistoryShape, NEW d \in Devices,
         documents'[d].version # 0
  PROVE  \/ \E w \in Workers : Commits(w) /\ task[w].device = d
         \/ StillShown(d)
<1> USE DEF StoreInv
<1>1. CASE documents'[d] = documents[d] /\ rolledBack'[d] = rolledBack[d]
  BY <1>1 DEF StillShown, Shows
<1>2. ASSUME NEW w \in Workers, Commits(w), task[w].device # d
      PROVE  documents'[d] = documents[d] /\ rolledBack'[d] = rolledBack[d]
  BY <1>2 DEF Commits, OnlyDocument
<1>3. ASSUME NEW w \in Workers, Discards(w) \/ Records(w)
      PROVE  documents'[d] = documents[d] /\ rolledBack'[d] = rolledBack[d]
  BY <1>3 DEF Discards, Records, OnlyDocument
<1>4. ASSUME NEW w \in Workers, NEW e \in Devices, Deletes(w, e)
      PROVE  documents'[d] = documents[d] /\ rolledBack'[d] = rolledBack[d]
  BY <1>4 DEF Deletes, OnlyDocument, Nil
<1>5. ASSUME NEW w \in Workers, Rewrites(w), task[w].device # d
      PROVE  documents'[d] = documents[d] /\ rolledBack'[d] = rolledBack[d]
  BY <1>5 DEF Rewrites, OnlyDocument
<1>6. ASSUME NEW w \in Workers, Rewrites(w), task[w].device = d
      PROVE  StillShown(d)
  <2>1. /\ Live(d) /\ documents[d] \in Document /\ documents'[d] \in Document
        /\ documents'[d].reported = documents[d].reported
        /\ documents'[d].reportedVersion = documents[d].reportedVersion
    <3>1. documents'[d] # Nil
      BY DEF Nil
    <3> QED
      BY <1>6, <3>1, RewrittenVersions DEF TypeOK
  <2>2. documents'[d].desiredVersion = documents[d].desiredVersion
    <3>1. CASE documents'[d].desiredVersion = 0
      <4>1. documents'[d].desiredVersion >= documents[d].desiredVersion
        BY <1>6, RewrittenVersions DEF Nil
      <4> QED
        BY <2>1, <3>1, <4>1 DEF Document
    <3>2. ASSUME NEW x \in Workers, Commits(x) PROVE FALSE
      BY <1>6, <3>2 DEF Commits, Rewrites, Carries, OthersCarry, Publishing, Shares
    <3> QED
      BY <3>1, <3>2, DesiredVersionMoves
  <2>3. documents'[d].version = documents[d].version
    BY <2>1, <2>2 DEF DocumentInv, DocumentOK
  <2>4. CASE task[w].pc = "restore"
    <3>1. rolledBack'[d] # {}
      BY <1>6, <2>1, <2>4 DEF Rewrites, Live, Nil
    <3> QED
      BY <2>1, <2>3, <3>1 DEF StillShown, Shows
  <2>5. CASE task[w].pc = "markStale"
    <3>1. /\ rolledBack'[d] = rolledBack[d]
          /\ documents'[d] = [documents[d] EXCEPT !.state = "stale"]
      BY <1>6, <2>1, <2>5 DEF Rewrites, Live, Nil
    <3> QED
      BY <2>1, <3>1 DEF StillShown, Shows, Document
  <2> QED
    BY <1>6, <2>4, <2>5 DEF Rewrites
<1>7. CASE Quiet
  BY <1>1, <1>7 DEF Quiet
<1> QED
  BY <1>1, <1>2, <1>3, <1>4, <1>5, <1>6, <1>7 DEF HistoryShape

\* A worker that shows the shadow still does after such a step.
LEMMA ShowsKept ==
  ASSUME TypeOK, KindInv, HeldInv, HistoryShape, [Next]_vars, NEW d \in Devices,
         StillShown(d), NEW x \in Workers, ShowsLater(x, d)
  PROVE  Records(x) \/ ShowsLater(x, d)'
<1>1. ASSUME Publishing(x)', SameRequest(x),
             \A s \in task'[x].seen : s \in task[x].seen \/ s = documents'[d]
      PROVE  ShowsLater(x, d)'
  <2>1. ASSUME NEW s, s \in task[x].seen
        PROVE  s.version = documents'[d].version /\ Shows(s, d)'
    BY <2>1 DEF ShowsLater, ShowsAll, StillShown
  <2>2. ASSUME NEW s, s = documents'[d]
        PROVE  s.version = documents'[d].version /\ Shows(s, d)'
    BY <2>2 DEF Shows
  <2>3. ShowsAll(x, d)'
    BY <1>1, <2>1, <2>2 DEF ShowsAll
  <2> QED
    BY <1>1, <2>3 DEF ShowsLater, SameRequest
<1> QED
  BY <1>1, StillPublishing DEF ShowsLater, Carries, Shares, Publishing

LEMMA OutdatedShrinks ==
  ASSUME TypeOK, TypeOK', KindInv, HeldInv, HistoryShape, [Next]_vars, NEW d \in Devices,
         documents'[d].version # 0, StillShown(d),
         \A w \in Workers : Commits(w) => task[w].device # d
  PROVE  Outdated(d)' \subseteq Outdated(d)
<1> SUFFICES ASSUME NEW x \in Workers, task'[x].device = d, Publishing(x)', ~ShowsAll(x, d)'
             PROVE  x \in Outdated(d)
  BY DEF Outdated
<1>1. CASE Publishing(x) /\ task[x].device = d
  <2>1. ~Records(x)
    BY DEF Records, Publishing
  <2>2. ~ShowsLater(x, d)
    BY <2>1, ShowsKept DEF ShowsLater
  <2> QED
    BY <1>1, <2>2 DEF ShowsLater, Outdated
<1>2. ASSUME NEW w \in Workers, x = w,
             \/ Commits(w) \/ Discards(w) \/ Records(w) \/ Rewrites(w)
             \/ \E e \in Devices : Deletes(w, e)
      PROVE  FALSE
  <2>1. ~Commits(x) /\ ~Records(x)
    BY DEF Commits, Records, SameRequest, Publishing
  <2>2. ~Discards(x)
    BY DEF Discards, Publishing
  <2>3. ~Rewrites(x)
    BY DEF Rewrites, Publishing
  <2>4. \A e \in Devices : ~Deletes(x, e)
    BY DEF Deletes, Nil
  <2> QED
    BY <1>2, <2>1, <2>2, <2>3, <2>4
<1>3. CASE Carries(x)
  BY <1>1, <1>3 DEF Carries, SameRequest, Publishing
<1>4. ASSUME NEW w \in Workers, x # w, Rewrites(w) PROVE x \in Outdated(d)
  BY <1>1, <1>3, <1>4 DEF Rewrites, Shares, SameRequest, Publishing
<1> QED
  BY <1>2, <1>3, <1>4
     DEF HistoryShape, Quiet, Commits, Discards, Records, Deletes, OthersCarry

\* The event of a worker that shows the shadow shows it.
LEMMA ShownEvent ==
  ASSUME TypeOK, HeldInv, NEW w \in Workers, NEW d \in Devices, NEW e \in Event, NEW s,
         AppendsEvent(w, d, e, s), ShowsAll(w, d)
  PROVE  e.version = documents[d].version /\ Shows(e.snapshot, d)
<1>1. PICK read \in Readings(task[w]) : e = ChangeEvent(task[w], read)
  BY DEF AppendsEvent
<1>2. task[w].doc \in Document /\ task[w].doc \in task[w].seen
  BY BusyWorker DEF AppendsEvent, Publishing, HeldInv
<1>3. /\ read.event \in task[w].seen /\ read.desired \in task[w].seen
      /\ read.desiredVersion \in task[w].seen /\ read.state \in task[w].seen
  BY DEF Readings
<1>4. /\ e.version = read.event.version
      /\ e.snapshot.reported = task[w].doc.reported
      /\ e.snapshot.reportedVersion = task[w].doc.reportedVersion
      /\ e.snapshot.desired = read.desired.desired
      /\ e.snapshot.desiredVersion = read.desiredVersion.desiredVersion
      /\ e.snapshot.state = read.state.state
  BY <1>1, <1>2 DEF ChangeEvent, Document
<1> QED
  BY <1>2, <1>3, <1>4 DEF ShowsAll, Shows

\* What a worker that shows the shadow leaves in the history.
LEMMA NewestAppended ==
  ASSUME TypeOK, HeldInv, NEW d \in Devices,
         NEW w \in Workers, NEW e \in Event, NEW s \in {0, 1},
         AppendsEvent(w, d, e, s), ShowsAll(w, d)
  PROVE  NewestRecorded(d)'
<1>1. PICK n \in Nat : /\ n = Len(history'[d]) /\ n \in DOMAIN history'[d]
                       /\ history'[d][n] = e
  BY DEF AppendsEvent, Appended
<1>2. e.version = documents'[d].version /\ Shows(e.snapshot, d)'
  <2>1. documents'[d] = documents[d] /\ rolledBack'[d] = rolledBack[d]
    BY DEF AppendsEvent
  <2> QED
    BY <2>1, ShownEvent DEF Shows
<1>3. PICK T \in SUBSET Workers : T = Outdated(d)' /\ w \notin T
  <2>1. Outdated(d)' \in SUBSET Workers
    BY DEF Outdated
  <2>2. w \notin Outdated(d)'
    BY DEF AppendsEvent, Outdated, Publishing
  <2> QED
    BY <2>1, <2>2
<1>4. Cardinality(T) < Cardinality(Workers) /\ Cardinality(T) \in Nat
  <2>1. T \in SUBSET (Workers \ {w}) /\ Workers \ {w} \in SUBSET Workers
    BY <1>3
  <2>2. Cardinality(T) <= Cardinality(Workers \ {w})
    BY <2>1, WorkersFinite
  <2> QED
    BY <2>1, <2>2, WorkersFinite
<1>5. NewestCount(d, n)'
  BY <1>1, <1>3, <1>4 DEF NewestCount
<1> QED
  BY <1>1, <1>2, <1>5 DEF NewestRecorded

\* An outdated event moves the showing one back, and never out of the history.
LEMMA NewestMoved ==
  ASSUME TypeOK, CapInv, HistoryCap >= Cardinality(Workers),
         NEW d \in Devices, StillShown(d), Outdated(d)' \subseteq Outdated(d),
         NEW w \in Workers, NEW e \in Event, NEW s \in {0, 1},
         AppendsEvent(w, d, e, s), ~ShowsAll(w, d), NewestRecorded(d)
  PROVE  NewestRecorded(d)'
<1>0. /\ history[d] \in Seq(Event) /\ history'[d] \in Seq(Event)
      /\ Appended(history[d], e, history'[d], s)
      /\ Len(history[d]) \in Nat /\ Len(history'[d]) \in Nat /\ Len(history'[d]) >= 1
      /\ Len(history'[d]) + s = Len(history[d]) + 1
      /\ s = 1 => Len(history'[d]) = HistoryCap
  <2>1. history[d] \in Seq(Event) /\ HistoryCap \in Nat
    BY StoreAssumption DEF TypeOK
  <2>2. Appended(history[d], e, history'[d], s)
    BY DEF AppendsEvent
  <2>3. /\ history'[d] \in Seq(Event) /\ Len(history'[d]) \in 1 .. HistoryCap
        /\ Len(history'[d]) + s = Len(history[d]) + 1
        /\ s = 1 => Len(history'[d]) = HistoryCap
    BY <2>2 DEF Appended
  <2>4. Len(history[d]) \in Nat /\ Len(history'[d]) \in Nat /\ Len(history'[d]) >= 1
    BY <2>1, <2>3
  <2> QED
    BY <2>1, <2>2, <2>3, <2>4
<1>1. PICK k \in 1 .. Len(history[d]) :
        /\ history[d][k].version = documents[d].version
        /\ Shows(history[d][k].snapshot, d)
        /\ NewestCount(d, k)
  BY <1>0 DEF NewestRecorded
<1>2. PICK S \in SUBSET Workers : S = Outdated(d) /\ w \in S
  BY DEF Outdated, AppendsEvent
<1>3. PICK T \in SUBSET S : T = Outdated(d)' /\ w \notin T
  BY <1>2 DEF Outdated, AppendsEvent, Publishing
<1>len. PICK l \in Nat, m \in Nat :
          /\ l = Len(history[d]) /\ m = Len(history'[d]) /\ k \in 1 .. l
          /\ m + s = l + 1 /\ (s = 1 => m = HistoryCap)
  BY <1>0
<1>4. PICK a \in Nat : a = l - k
  BY <1>len
<1>5. a + Cardinality(S) < Cardinality(Workers)
  BY <1>1, <1>2, <1>4, <1>len DEF NewestCount
<1>6. a + 1 + Cardinality(T) < Cardinality(Workers)
  BY <1>2, <1>3, <1>5, FewerSlow
<1>7. PICK i \in 1 .. m - 1 : i + s = k
  <2>1. Cardinality(S) \in Nat /\ Cardinality(S) >= 1 /\ Cardinality(Workers) \in Nat
    <3>1. Cardinality(S \ {w}) = Cardinality(S) - 1 /\ S \ {w} \in SUBSET Workers
      BY <1>2, WorkersFinite
    <3>2. Cardinality(S \ {w}) \in Nat
      BY <3>1, WorkersFinite
    <3> QED
      BY <3>1, <3>2, WorkersFinite
  <2>2. k - s >= 1
    BY StoreAssumption, <1>len, <1>4, <1>5, <2>1
  <2> QED
    BY <1>len, <2>2
<1>8. history'[d][i] = history[d][k] /\ i \in DOMAIN history'[d]
  <2>1. i \in 1 .. Len(history'[d]) - 1
    BY <1>7, <1>len
  <2>2. history'[d][i] = history[d][i + s]
    BY <1>0, <2>1, KeptEvent
  <2> QED
    BY <1>0, <1>7, <1>len, <2>2
<1>9. NewestCount(d, i)'
  <2>1. m - i = a + 1
    BY <1>4, <1>7, <1>len
  <2> QED
    BY <1>3, <1>6, <1>len, <2>1 DEF NewestCount
<1> QED
  BY <1>1, <1>8, <1>9 DEF NewestRecorded, StillShown

LEMMA NextNewest ==
  ASSUME StoreInv, StoreInv', UndoInv, HeldInv, CapInv, NewestInv, HistoryShape,
         HistoryCap >= Cardinality(Workers), [Next]_vars
  PROVE  NewestInv'
<1> SUFFICES ASSUME NEW d \in Devices, documents'[d].version > 0
             PROVE  NewestKnown(d)'
  BY DEF NewestInv
<1> USE DEF StoreInv
<1>0. documents'[d].version # 0
  BY DEF TypeOK, Document
<1>1. ASSUME NEW w \in Workers, Commits(w), task[w].device = d
      PROVE  ShowsLater(w, d)'
  BY <1>1 DEF Commits, ShowsLater, ShowsAll, Shows, SameRequest, Publishing
<1>2. CASE \A w \in Workers : Commits(w) => task[w].device # d
  <2>1. StillShown(d)
    BY <1>0, <1>2, ShownSteps
  <2>2. Outdated(d)' \subseteq Outdated(d)
    BY <1>0, <1>2, <2>1, OutdatedShrinks
  <2>3. NewestKnown(d)
    BY <2>1 DEF StillShown, NewestInv
  <2>4. ASSUME NEW x \in Workers, ShowsLater(x, d) PROVE NewestKnown(d)'
    <3>1. CASE Records(x)
      <4>1. PICK e \in Event, s \in {0, 1} : AppendsEvent(x, d, e, s)
        BY <2>4, <3>1, RecordsAppend DEF ShowsLater
      <4> QED
        BY <2>4, <4>1, NewestAppended DEF ShowsLater, NewestKnown
    <3> QED
      BY <2>1, <2>4, <3>1, ShowsKept DEF NewestKnown
  <2>5. CASE NewestRecorded(d) /\ history'[d] = history[d]
    <3>1. PICK i \in DOMAIN history[d] :
            /\ history[d][i].version = documents[d].version
            /\ Shows(history[d][i].snapshot, d)
            /\ NewestCount(d, i)
      BY <2>5 DEF NewestRecorded
    <3>2. PICK a \in Nat : a = Len(history[d]) - i
      BY DEF TypeOK
    <3>3. PICK S \in SUBSET Workers : S = Outdated(d)
      BY DEF Outdated
    <3>4. PICK T \in SUBSET S : T = Outdated(d)'
      BY <2>2, <3>3
    <3>5. a + Cardinality(S) < Cardinality(Workers)
      BY <3>1, <3>2, <3>3 DEF NewestCount
    <3>6. a + 0 + Cardinality(T) < Cardinality(Workers)
      BY <3>5, FewerSlow
    <3>7. NewestCount(d, i)'
      BY <2>5, <3>2, <3>4, <3>6 DEF NewestCount
    <3> QED
      BY <2>1, <2>5, <3>1, <3>7 DEF NewestRecorded, NewestKnown, StillShown
  <2>6. ASSUME NEW w \in Workers, NEW e \in Event, NEW s \in {0, 1},
               AppendsEvent(w, d, e, s), NewestRecorded(d)
        PROVE  NewestKnown(d)'
    BY <2>1, <2>2, <2>6, NewestAppended, NewestMoved DEF NewestKnown
  <2> QED
    BY <2>3, <2>4, <2>5, <2>6, HistoryGrows DEF NewestKnown
<1> QED
  BY <1>1, <1>2 DEF NewestKnown

\* The cap evicts old events and no others: once no request is under way, one
\* of the last events, as many as there are workers, tells of the shadow as it
\* is, if the cap has room for that many (Store.record).  With fewer places, or
\* with sweeps beside transactions, there are counterexamples.
THEOREM HistoryNeverLosesNewest ==
  ASSUME "gc" \notin Requests \/ "transaction" \notin Requests,
         HistoryCap >= Cardinality(Workers)
  PROVE  Spec => []HistoryKeepsNewest
<1> DEFINE Inv == HistoryBase /\ UndoInv /\ NewestInv
<1>1. Init => Inv
  BY InitHistory DEF Init, UndoInv, NewestInv, Idle, Nil
<1>2. Inv /\ [Next]_vars => Inv'
  BY NextBase, NextNewest, NextUndoWithoutSweep DEF HistoryBase, NoSweptRollback
<1>3. Inv => HistoryKeepsNewest
  <2> SUFFICES ASSUME HistoryBase, NewestInv, NEW d \in Devices,
                      \A w \in Workers : task[w].pc = "idle", documents[d].version > 0
               PROVE  \E i \in DOMAIN history[d] :
                        /\ i > Len(history[d]) - Cardinality(Workers)
                        /\ history[d][i].version = documents[d].version
                        /\ Shows(history[d][i].snapshot, d)
    BY DEF HistoryKeepsNewest
  <2>1. PICK i \in DOMAIN history[d] :
          /\ history[d][i].version = documents[d].version
          /\ Shows(history[d][i].snapshot, d)
          /\ NewestCount(d, i)
    BY DEF NewestInv, NewestKnown, NewestRecorded, ShowsLater, Publishing
  <2>2. i \in Nat /\ Len(history[d]) \in Nat
    BY DEF HistoryBase, StoreInv, TypeOK
  <2>3. PICK S \in SUBSET Workers : S = Outdated(d)
    BY DEF Outdated
  <2>4. Cardinality(S) \in Nat /\ Cardinality(Workers) \in Nat
    BY WorkersFinite
  <2>5. Len(history[d]) - i + Cardinality(S) < Cardinality(Workers)
    BY <2>1, <2>3 DEF NewestCount
  <2>6. i > Len(history[d]) - Cardinality(Workers)
    BY <2>2, <2>4, <2>5
  <2> QED
    BY <2>1, <2>6
<1> QED
  BY <1>1, <1>2, <1>3, PTL DEF Spec

=============================================================================
