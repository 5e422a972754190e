------------------------ MODULE BatchDeliveryProofs ------------------------
(***************************************************************************)
(* Proofs about BatchDelivery, for every set of devices, every number of   *)
(* requests, batches and items, and whatever item lists clients submit.    *)
(***************************************************************************)
EXTENDS BatchDelivery, TLAPS

\* A goroutine only works on a submitted batch that is not done, and its item
\* under way is one of those it has still to settle.
RunOK(p) ==
  LET r == run[p] IN
  /\ r.batch # 0 => r.batch <= seq /\ batches[r.batch].state # "done"
  /\ r.batch # 0 => r.todo \subseteq DOMAIN batches[r.batch].items
  /\ r.pc \in {"next", "deliver"} => r.batch # 0
  /\ r.pc \in {"idle", "visit", "answer"} => r.batch = 0
  /\ r.pc \in {"commit", "deliver"} => r.device \in Devices
  /\ r.pc \in {"commit", "deliver"} /\ r.batch # 0 =>
       /\ r.write.item \in r.todo
       /\ r.write.batch = r.batch
       /\ r.device = batches[r.batch].items[r.write.item]

\* The request of a batch lets go of it when the batch enters the queue, and
\* only the loop works on queued batches.
OwnerOK ==
  /\ \A w \in Workers : run[w].batch \notin retryQueue
  /\ \A w \in Workers : run[w].pc # "visit"
  /\ \A v, w \in Workers : run[v].batch # 0 /\ run[v].batch = run[w].batch => v = w
  /\ run[RetryLoop].batch # 0 => run[RetryLoop].batch \in retryQueue
  /\ run[RetryLoop].pending \subseteq retryQueue
  /\ run[RetryLoop].batch \notin run[RetryLoop].pending

\* What the state of a batch says about its items and its place.
BatchOK(b) ==
  /\ b > seq => batches[b] = NewBatch(<<>>) /\ delivered[b] = {}
  /\ b > seq => b \notin retryQueue
  /\ delivered[b] \subseteq DOMAIN batches[b].items
  /\ batches[b].state = "pending" => batches[b].failed = {}
  /\ b \in retryQueue => batches[b].state = "partial"
  /\ batches[b].state = "done" => Undelivered(b) = {}
  /\ b <= seq =>
       batches[b].state = "done" \/ b \in retryQueue \/ Handled(b) # {}

\* An item that did not reach its device is remembered: by a goroutine that has
\* still to write it, or by its device being among the failed ones.  The loop,
\* as long as nothing failed in its pass, has still to write all of them.
RememberedOK ==
  /\ \A b \in Batches : \A i \in Undelivered(b) :
       i \in Outstanding(b) \/ \E p \in Handled(b) : i \in run[p].todo
  /\ LET r == run[RetryLoop] IN
     r.batch # 0 /\ ~r.again => Undelivered(r.batch) \subseteq r.todo

BatchInv ==
  /\ BatchTypeOK
  /\ \A p \in Goroutines : RunOK(p)
  /\ OwnerOK
  /\ \A b \in Batches : BatchOK(b)
  /\ RememberedOK

-----------------------------------------------------------------------------
(* Facts used throughout.                                                  *)

\* An item of a batch is numbered within the bound and is for a device.
LEMMA ItemFacts ==
  ASSUME BatchTypeOK, NEW b \in Batches, NEW i \in DOMAIN batches[b].items
  PROVE  i \in 1 .. MaxItems /\ batches[b].items[i] \in Devices
<1>1. PICK items \in ItemLists \cup {<<>>} : batches[b].items = items
  BY DEF BatchTypeOK, Batch
<1>2. CASE items = <<>>
  BY <1>1, <1>2
<1>3. CASE items \in ItemLists
  <2>1. PICK n \in 0 .. MaxItems : items \in [1 .. n -> Devices]
    BY <1>3, BatchAssumption
  <2>2. QED
    BY <1>1, <2>1, BatchAssumption
<1>4. QED
  BY <1>1, <1>2, <1>3

LEMMA ListFacts ==
  ASSUME NEW items \in ItemLists
  PROVE  DOMAIN items \in SUBSET (1 .. MaxItems)
<1>1. PICK n \in 0 .. MaxItems : items \in [1 .. n -> Devices]
  BY BatchAssumption
<1>2. QED
  BY <1>1, BatchAssumption

LEMMA LoopIsNoWorker == RetryLoop \notin Workers /\ RetryLoop \in Goroutines
                        /\ Workers \subseteq Goroutines
BY BatchAssumption DEF Goroutines

LEMMA ConstantTypes ==
  ClientWrite \in Write /\ Idle \in Run /\ NewBatch(<<>>) \in Batch
<1>1. ClientWrite \in Write
  BY BatchAssumption DEF Write, ClientWrite
<1>2. Idle \in Run
  BY <1>1 DEF Idle, Run
<1>3. QED
  BY <1>1, <1>2 DEF NewBatch, Batch

\* The batch, the item and the device of a goroutine that has a batch.
LEMMA WorkFacts ==
  ASSUME BatchTypeOK, NEW p \in Goroutines, RunOK(p), run[p].batch # 0
  PROVE  /\ run[p].batch \in Batches
         /\ \A i \in run[p].todo :
              /\ i \in 1 .. MaxItems
              /\ i \in DOMAIN batches[run[p].batch].items
              /\ batches[run[p].batch].items[i] \in Devices
<1>1. run[p].batch \in Batches
  BY DEF BatchTypeOK, Run
<1>2. QED
  BY <1>1, ItemFacts DEF RunOK

\* No two goroutines work on one batch.
LEMMA OneOwner ==
  ASSUME BatchInv, NEW p \in Goroutines, NEW q \in Goroutines,
         run[p].batch # 0, run[p].batch = run[q].batch
  PROVE  p = q
  BY DEF BatchInv, OwnerOK, Goroutines

-----------------------------------------------------------------------------
(* What each update of a goroutine's variables changes, and that it leaves *)
(* every other goroutine alone.                                            *)

LEMMA RunIssue ==
  ASSUME BatchTypeOK, NEW p \in Goroutines, NEW d \in Devices, NEW write \in Write,
         Issue(p, d, write)
  PROVE  /\ run' \in [Goroutines -> Run] /\ newer' \in [Devices -> Seq(Goroutines)]
         /\ \A q \in Goroutines : q # p => run'[q] = run[q]
         /\ run'[p].pc = "commit"
         /\ run'[p].write = write /\ run'[p].device = d
         /\ run'[p].batch = run[p].batch /\ run'[p].todo = run[p].todo
         /\ run'[p].again = run[p].again /\ run'[p].pending = run[p].pending
         /\ run'[p].reply = run[p].reply
<1>1. run \in [Goroutines -> Run] /\ run[p] \in Run
  BY DEF BatchTypeOK
<1> DEFINE r == [run[p] EXCEPT !.pc = "commit", !.device = d, !.write = write]
<1>2. r \in Run /\ r.pc = "commit" /\ r.write = write /\ r.device = d
      /\ r.batch = run[p].batch /\ r.todo = run[p].todo
      /\ r.again = run[p].again /\ r.pending = run[p].pending
      /\ r.reply = run[p].reply
  BY <1>1 DEF Run
<1>3. run' = [run EXCEPT ![p] = r]
  BY <1>1 DEF Issue, Run
<1>4. newer' \in [Devices -> Seq(Goroutines)]
  BY DEF Issue, BatchTypeOK
<1> HIDE DEF r
<1>5. QED
  BY <1>1, <1>2, <1>3, <1>4

LEMMA RunSettle ==
  ASSUME BatchTypeOK, NEW p \in Goroutines, NEW failed \in BOOLEAN,
         Settle(p, failed)
  PROVE  /\ run' \in [Goroutines -> Run]
         /\ \A q \in Goroutines : q # p => run'[q] = run[q]
         /\ run'[p].pc = "next"
         /\ run'[p].batch = run[p].batch
         /\ run'[p].todo = run[p].todo \ {run[p].write.item}
         /\ ~run'[p].again => ~run[p].again /\ ~failed
         /\ run'[p].pending = run[p].pending
         /\ run'[p].reply = run[p].reply
<1>1. run \in [Goroutines -> Run] /\ run[p] \in Run
  BY DEF BatchTypeOK
<1> DEFINE again == run[p].again \/ failed
           r == [run[p] EXCEPT !.pc = "next", !.todo = @ \ {run[p].write.item},
                   !.write = ClientWrite, !.device = NoDevice, !.again = again]
<1>2. run' = [run EXCEPT ![p] = r]
  BY <1>1 DEF Settle, Run
<1>3. again \in BOOLEAN /\ (~again => ~run[p].again /\ ~failed)
  OBVIOUS
<1> HIDE DEF again
<1>4. r \in Run /\ r.pc = "next" /\ r.batch = run[p].batch
      /\ r.todo = run[p].todo \ {run[p].write.item}
      /\ r.pending = run[p].pending /\ r.reply = run[p].reply
  BY <1>1, <1>3, ConstantTypes DEF Run
<1>5. r.again = again
  BY <1>1 DEF Run
<1> HIDE DEF r
<1>6. ~run'[p].again => ~run[p].again /\ ~failed
  BY <1>1, <1>2, <1>3, <1>5
<1>7. QED
  BY <1>1, <1>2, <1>4, <1>6

\* A goroutine that is done with what it did.
LEMMA RunRest ==
  ASSUME BatchTypeOK, NEW p \in Goroutines, NEW r \in Run,
         run' = [run EXCEPT ![p] = r]
  PROVE  /\ run' \in [Goroutines -> Run]
         /\ \A q \in Goroutines : q # p => run'[q] = run[q]
         /\ run'[p] = r
  BY DEF BatchTypeOK

LEMMA IdleFacts ==
  /\ Idle.pc = "idle" /\ Idle.batch = 0 /\ Idle.todo = {} /\ Idle.pending = {}
  /\ Idle.reply = 0
  /\ \A pending \in SUBSET Batches :
       LET r == [Idle EXCEPT !.pc = "visit", !.pending = pending] IN
       /\ r \in Run
       /\ r.pc = "visit" /\ r.batch = 0 /\ r.todo = {} /\ r.pending = pending
       /\ r.reply = 0
  /\ \A b \in Batches :
       LET r == [Idle EXCEPT !.pc = "answer", !.reply = b] IN
       /\ r \in Run
       /\ r.pc = "answer" /\ r.batch = 0 /\ r.todo = {} /\ r.pending = {}
       /\ r.reply = b
  BY ConstantTypes DEF Idle, Run

-----------------------------------------------------------------------------
(* What an action that works on one batch leaves as it was for the others. *)

\* A goroutine whose variables and batch do not change.
LEMMA OthersRunOK ==
  ASSUME BatchTypeOK, NEW q \in Goroutines, RunOK(q), run'[q] = run[q], seq' >= seq,
         seq' \in Nat,
         run[q].batch # 0 =>
           /\ batches'[run[q].batch].state # "done"
           /\ batches'[run[q].batch].items = batches[run[q].batch].items
  PROVE  RunOK(q)'
<1>1. seq \in Nat /\ run[q].batch \in {0} \cup Batches
  BY DEF BatchTypeOK, Run
<1>2. QED
  BY <1>1 DEF RunOK, Batches

\* A step of a goroutine that touches no batch.
LEMMA SameWork ==
  ASSUME BatchInv, UNCHANGED <<seq, batches, retryQueue, delivered>>,
         \A q \in Goroutines : run'[q].batch = run[q].batch,
         \A q \in Goroutines : run[q].batch # 0 => run'[q].todo = run[q].todo,
         run[RetryLoop].batch # 0 /\ ~run'[RetryLoop].again => ~run[RetryLoop].again,
         \A w \in Workers : run'[w].pc # "visit",
         run'[RetryLoop].pending \subseteq retryQueue,
         run'[RetryLoop].batch \notin run'[RetryLoop].pending
  PROVE  OwnerOK' /\ (\A b \in Batches : BatchOK(b))' /\ RememberedOK'
<1> USE LoopIsNoWorker DEF BatchInv
<1>1. OwnerOK'
  BY DEF OwnerOK
<1>2. \A b \in Batches : Handled(b)' = Handled(b)
  BY DEF Handled
<1>3. \A b \in Batches : /\ Undelivered(b)' = Undelivered(b)
                         /\ Outstanding(b)' = Outstanding(b)
  BY DEF Undelivered, Outstanding
<1>4. (\A b \in Batches : BatchOK(b))'
  BY <1>2, <1>3 DEF BatchOK
<1>5. ASSUME NEW b \in Batches, NEW p \in Handled(b)
      PROVE  p \in Goroutines /\ run'[p].todo = run[p].todo
  BY <1>5 DEF Handled, Batches
<1>6. run[RetryLoop].batch \in {0} \cup Batches
  BY DEF BatchTypeOK, Run
<1>7. RememberedOK'
  BY <1>2, <1>3, <1>5, <1>6 DEF RememberedOK
<1>8. QED
  BY <1>1, <1>4, <1>7

\* A goroutine that does not work on batch b does not after a step of another.
LEMMA HandledByOthers ==
  ASSUME NEW p \in Goroutines, \A q \in Goroutines : q # p => run'[q] = run[q],
         NEW b \in Batches, run[p].batch # b, run'[p].batch # b
  PROVE  /\ Handled(b)' = Handled(b)
         /\ \A q \in Handled(b) : run'[q] = run[q]
  BY DEF Handled
-----------------------------------------------------------------------------
(* BatchInv is inductive: one lemma per action.                            *)

LEMMA InvInit == Init => BatchInv
<1>1. SUFFICES ASSUME Init PROVE BatchInv
  OBVIOUS
<1>2. BatchTypeOK
  BY <1>1, ConstantTypes, BatchAssumption DEF Init, BatchTypeOK
<1>3. \A p \in Goroutines : RunOK(p)
  BY <1>1, IdleFacts DEF Init, RunOK
<1>4. OwnerOK
  BY <1>1, IdleFacts, LoopIsNoWorker DEF Init, OwnerOK
<1>5. \A b \in Batches : Undelivered(b) = {}
  BY <1>1 DEF Init, Undelivered, NewBatch
<1>6. \A b \in Batches : BatchOK(b)
  BY <1>1, <1>5 DEF Init, BatchOK, Batches, NewBatch
<1>7. RememberedOK
  BY <1>1, <1>5, IdleFacts, LoopIsNoWorker DEF Init, RememberedOK
<1>8. QED
  BY <1>2, <1>3, <1>4, <1>6, <1>7 DEF BatchInv

\* Steps that change no goroutine and no batch: the devices' and the stutters.
LEMMA InvUnchanged ==
  ASSUME BatchInv, BatchTypeOK', UNCHANGED <<seq, batches, retryQueue, run, delivered>>
  PROVE  BatchInv'
<1>1. OwnerOK /\ BatchTypeOK /\ \A p \in Goroutines : RunOK(p)
  BY DEF BatchInv
<1>2. OwnerOK' /\ (\A b \in Batches : BatchOK(b))' /\ RememberedOK'
  BY <1>1, LoopIsNoWorker, SameWork DEF OwnerOK
<1>3. (\A p \in Goroutines : RunOK(p))'
  BY <1>1 DEF RunOK
<1>4. QED
  BY <1>2, <1>3 DEF BatchInv

LEMMA InvDevices ==
  ASSUME BatchInv, NEW d \in Devices, Connect(d) \/ Disconnect(d)
  PROVE  BatchInv'
<1>1. BatchTypeOK'
  BY DEF BatchInv, BatchTypeOK, Connect, Disconnect
<1>2. QED
  BY <1>1, InvUnchanged DEF Connect, Disconnect

LEMMA InvIssue ==
  ASSUME BatchInv, NEW p \in Goroutines, NEW d \in Devices, NEW write \in Write,
         Issue(p, d, write), run[p].pc \in {"idle", "next"},
         run[p].pc = "idle" => p \in Workers,
         run[p].batch # 0 =>
           /\ write.batch = run[p].batch /\ write.item \in run[p].todo
           /\ d = batches[run[p].batch].items[write.item],
         UNCHANGED <<online, seq, batches, retryQueue, desired, delivered>>
  PROVE  BatchInv'
<1> USE LoopIsNoWorker DEF BatchInv
<1>1. /\ run' \in [Goroutines -> Run] /\ newer' \in [Devices -> Seq(Goroutines)]
      /\ \A q \in Goroutines : q # p => run'[q] = run[q]
      /\ run'[p].pc = "commit"
      /\ run'[p].write = write /\ run'[p].device = d
      /\ run'[p].batch = run[p].batch /\ run'[p].todo = run[p].todo
      /\ run'[p].again = run[p].again /\ run'[p].pending = run[p].pending
  BY RunIssue
<1>2. BatchTypeOK'
  BY <1>1 DEF BatchTypeOK
<1>3. (\A q \in Goroutines : RunOK(q))'
  <2>1. \A q \in Goroutines : q # p => RunOK(q)'
    BY <1>1 DEF RunOK
  <2>2. RunOK(p)'
    BY <1>1 DEF RunOK
  <2>3. QED
    BY <2>1, <2>2
<1>4. OwnerOK' /\ (\A b \in Batches : BatchOK(b))' /\ RememberedOK'
  <2>1. /\ \A q \in Goroutines : run'[q].batch = run[q].batch
        /\ \A q \in Goroutines : run'[q].todo = run[q].todo
        /\ run'[RetryLoop].again = run[RetryLoop].again
        /\ run'[RetryLoop].pending = run[RetryLoop].pending
        /\ \A w \in Workers : run'[w].pc # "visit"
    BY <1>1 DEF OwnerOK
  <2>2. run'[RetryLoop].pending \subseteq retryQueue
        /\ run'[RetryLoop].batch \notin run'[RetryLoop].pending
    BY <2>1 DEF OwnerOK
  <2>3. QED
    BY <2>1, <2>2, SameWork
<1>5. QED
  BY <1>2, <1>3, <1>4

LEMMA InvClientWrites ==
  ASSUME BatchInv, NEW w \in Workers, NEW d \in Devices, ClientWrites(w, d)
  PROVE  BatchInv'
<1>1. RunOK(w) /\ w \in Goroutines
  BY LoopIsNoWorker DEF BatchInv
<1>2. QED
  BY <1>1, ConstantTypes, InvIssue DEF ClientWrites, RunOK

LEMMA InvWriteItem ==
  ASSUME BatchInv, NEW p \in Goroutines, WriteItem(p)
  PROVE  BatchInv'
<1>1. RunOK(p) /\ BatchTypeOK /\ run[p].pc = "next"
  BY DEF BatchInv, WriteItem
<1>2. PICK i \in run[p].todo :
        Issue(p, batches[run[p].batch].items[i],
              [batch |-> run[p].batch, item |-> i])
  BY DEF WriteItem
<1> DEFINE write == [batch |-> run[p].batch, item |-> i]
           d == batches[run[p].batch].items[i]
<1>3. run[p].batch # 0
  BY <1>1 DEF RunOK
<1>4. run[p].batch \in Batches /\ i \in 1 .. MaxItems /\ d \in Devices
  BY <1>1, <1>3, WorkFacts
<1>5. write \in Write /\ write.batch = run[p].batch /\ write.item = i
  BY <1>4 DEF Write
<1>6. UNCHANGED <<online, seq, batches, retryQueue, desired, delivered>>
  BY DEF WriteItem
<1> HIDE DEF write
<1>7. Issue(p, d, write)
  BY <1>2 DEF write
<1>8. d = batches[run[p].batch].items[write.item]
  BY <1>5
<1> HIDE DEF d
<1>9. QED
  BY <1>1, <1>4, <1>5, <1>6, <1>7, <1>8, InvIssue

\* What a commit does to the desired sections and the versions behind them.
LEMMA CommitType ==
  ASSUME BatchInv, NEW p \in Goroutines, Commit(p), run' \in [Goroutines -> Run]
  PROVE  BatchTypeOK'
<1> DEFINE d == run[p].device
<1>1. BatchTypeOK /\ RunOK(p) /\ run[p].pc = "commit"
  BY DEF BatchInv, Commit
<1>2. d \in Devices /\ run[p].write \in Write
  BY <1>1 DEF RunOK, BatchTypeOK, Run
<1>3. newer[d] \in Seq(Goroutines)
  BY <1>1, <1>2 DEF BatchTypeOK
<1>4. CASE \E n \in DOMAIN newer[d] : newer[d][n] = p
  <2>1. PICK n \in DOMAIN newer[d] :
          /\ desired' = [desired EXCEPT ![d] = run[p].write]
          /\ newer' = [newer EXCEPT ![d] = SubSeq(@, n + 1, Len(@))]
    BY <1>4 DEF Commit
  <2>2. SubSeq(newer[d], n + 1, Len(newer[d])) \in Seq(Goroutines)
    BY <1>3, <2>1
  <2>3. newer' \in [Devices -> Seq(Goroutines)] /\ desired' \in [Devices -> Write]
    BY <1>1, <1>2, <2>1, <2>2 DEF BatchTypeOK
  <2>4. QED
    BY <1>1, <2>3 DEF BatchTypeOK, Commit
<1>5. CASE ~ \E n \in DOMAIN newer[d] : newer[d][n] = p
  BY <1>1, <1>5 DEF BatchTypeOK, Commit
<1>6. QED
  BY <1>4, <1>5

LEMMA InvCommit ==
  ASSUME BatchInv, NEW p \in Goroutines, Commit(p)
  PROVE  BatchInv'
<1> USE LoopIsNoWorker DEF BatchInv
<1>1. run \in [Goroutines -> Run] /\ run[p] \in Run /\ run[p].pc = "commit"
  BY DEF Commit, BatchTypeOK
<1>2. run[p].device \in Devices /\ run[p].write \in Write
  BY <1>1 DEF RunOK, Run
<1> DEFINE r == IF run[p].batch = 0 THEN Idle ELSE [run[p] EXCEPT !.pc = "deliver"]
<1>3. run' = [run EXCEPT ![p] = r]
  BY <1>1 DEF Commit
<1>4. CASE run[p].batch = 0
  <2>1. r \in Run /\ r.pc = "idle" /\ r.batch = 0 /\ r.todo = {} /\ r.pending = {}
    BY <1>4, ConstantTypes, IdleFacts
  <2> HIDE DEF r
  <2>2. run' \in [Goroutines -> Run] /\ run'[p] = r
        /\ \A q \in Goroutines : q # p => run'[q] = run[q]
    BY <1>1, <1>3, <2>1
  <2>3. (\A q \in Goroutines : RunOK(q))'
    BY <2>1, <2>2 DEF RunOK, Commit
  <2>4. /\ \A q \in Goroutines : run'[q].batch = run[q].batch
        /\ \A q \in Goroutines : run[q].batch # 0 => run'[q].todo = run[q].todo
        /\ \A w \in Workers : run'[w].pc # "visit"
        /\ run[RetryLoop].batch # 0 => run'[RetryLoop] = run[RetryLoop]
        /\ run'[RetryLoop].pending \subseteq run[RetryLoop].pending
    BY <1>4, <2>1, <2>2 DEF OwnerOK
  <2>5. OwnerOK' /\ (\A b \in Batches : BatchOK(b))' /\ RememberedOK'
    BY <2>4, SameWork DEF OwnerOK, Commit
  <2>6. QED
    BY <2>2, <2>3, <2>5, CommitType
<1>5. CASE run[p].batch # 0
  <2>1. r \in Run /\ r.pc = "deliver" /\ r.batch = run[p].batch /\ r.todo = run[p].todo
        /\ r.pending = run[p].pending /\ r.again = run[p].again
        /\ r.write = run[p].write /\ r.device = run[p].device
    BY <1>1, <1>5 DEF Run
  <2> HIDE DEF r
  <2>2. run' \in [Goroutines -> Run] /\ run'[p] = r
        /\ \A q \in Goroutines : q # p => run'[q] = run[q]
    BY <1>1, <1>3, <2>1
  <2>3. (\A q \in Goroutines : RunOK(q))'
    <3>1. \A q \in Goroutines : q # p => RunOK(q)'
      BY <2>2 DEF RunOK, Commit
    <3>2. RunOK(p) /\ UNCHANGED <<seq, batches>>
      BY DEF Commit
    <3>3. RunOK(p)'
      BY <1>1, <1>5, <2>1, <2>2, <3>2 DEF RunOK
    <3>4. QED
      BY <3>1, <3>3
  <2>4. /\ \A q \in Goroutines : run'[q].batch = run[q].batch
        /\ \A q \in Goroutines : run'[q].todo = run[q].todo
        /\ run'[RetryLoop].again = run[RetryLoop].again
        /\ \A w \in Workers : run'[w].pc # "visit"
        /\ run'[RetryLoop].pending = run[RetryLoop].pending
    BY <2>1, <2>2 DEF OwnerOK
  <2>5. OwnerOK' /\ (\A b \in Batches : BatchOK(b))' /\ RememberedOK'
    BY <2>4, SameWork DEF OwnerOK, Commit
  <2>6. QED
    BY <2>2, <2>3, <2>5, CommitType
<1>6. QED
  BY <1>4, <1>5

\* The item under way and the batch it is of.
LEMMA DeliverFacts ==
  ASSUME BatchInv, NEW p \in Goroutines, run[p].pc = "deliver"
  PROVE  LET b == run[p].batch
             i == run[p].write.item IN
         /\ b \in Batches /\ b <= seq /\ batches[b].state # "done" /\ b # 0
         /\ i \in run[p].todo /\ i \in DOMAIN batches[b].items /\ i \in 1 .. MaxItems
         /\ run[p].device = batches[b].items[i] /\ run[p].device \in Devices
         /\ run[p].todo \subseteq DOMAIN batches[b].items
<1>1. BatchTypeOK /\ RunOK(p) /\ run[p].batch # 0
  BY DEF BatchInv, RunOK
<1>2. QED
  BY <1>1, WorkFacts DEF RunOK

\* What holds after an item is settled, delivered or not.
LEMMA SettleRun ==
  ASSUME BatchInv, NEW p \in Goroutines, NEW failed \in BOOLEAN, Settle(p, failed),
         run[p].pc = "deliver", UNCHANGED <<seq, retryQueue>>,
         \A b \in Batches : batches'[b].items = batches[b].items
                            /\ (batches'[b].state = "done" => batches[b].state = "done")
  PROVE  /\ (\A q \in Goroutines : RunOK(q))'
         /\ OwnerOK'
         /\ \A b \in Batches : Handled(b)' = Handled(b)
<1> USE LoopIsNoWorker
<1>1. BatchTypeOK /\ (\A q \in Goroutines : RunOK(q)) /\ OwnerOK
  BY DEF BatchInv
<1>2. /\ run' \in [Goroutines -> Run]
      /\ \A q \in Goroutines : q # p => run'[q] = run[q]
      /\ run'[p].pc = "next"
      /\ run'[p].batch = run[p].batch
      /\ run'[p].todo = run[p].todo \ {run[p].write.item}
      /\ run'[p].pending = run[p].pending
  BY <1>1, RunSettle
<1>3. run[p].batch \in Batches /\ seq \in Nat
  BY <1>1, DeliverFacts DEF BatchTypeOK
<1>4. RunOK(p)'
  BY <1>1, <1>2, <1>3, DeliverFacts DEF RunOK
<1>5. \A q \in Goroutines : run[q].batch # 0 => run[q].batch \in Batches
  BY <1>1 DEF BatchTypeOK, Run
<1>6. \A q \in Goroutines : q # p => RunOK(q)'
  BY <1>1, <1>2, <1>3, <1>5, OthersRunOK DEF RunOK
<1>7. \A q \in Goroutines : run'[q].batch = run[q].batch /\ run'[q].pending = run[q].pending
  BY <1>2
<1>8. OwnerOK'
  BY <1>1, <1>2, <1>7 DEF OwnerOK
<1>9. \A b \in Batches : Handled(b)' = Handled(b)
  BY <1>7 DEF Handled
<1>10. QED
  BY <1>4, <1>6, <1>8, <1>9

LEMMA InvDeliverItem ==
  ASSUME BatchInv, NEW p \in Goroutines, DeliverItem(p)
  PROVE  BatchInv'
<1>0. PICK b \in Batches, i \in 1 .. MaxItems :
        run[p].batch = b /\ run[p].write.item = i
  BY DeliverFacts DEF DeliverItem
<1>1. /\ run[p].pc = "deliver" /\ Settle(p, FALSE)
      /\ delivered' = [delivered EXCEPT ![b] = @ \cup {i}]
      /\ UNCHANGED <<online, seq, batches, retryQueue, newer, desired>>
  BY <1>0 DEF DeliverItem
<1>2. /\ b \in Batches /\ b <= seq /\ batches[b].state # "done" /\ b # 0
      /\ i \in run[p].todo /\ i \in DOMAIN batches[b].items /\ i \in 1 .. MaxItems
  BY <1>0, <1>1, DeliverFacts
<1>3. /\ (\A q \in Goroutines : RunOK(q))' /\ OwnerOK'
      /\ \A c \in Batches : Handled(c)' = Handled(c)
  BY <1>1, SettleRun
<1>4. BatchTypeOK /\ (\A c \in Batches : BatchOK(c)) /\ RememberedOK
  BY DEF BatchInv
<1>5. /\ run' \in [Goroutines -> Run]
      /\ \A q \in Goroutines : q # p => run'[q] = run[q]
      /\ run'[p].todo = run[p].todo \ {i} /\ run'[p].batch = b
      /\ ~run'[p].again => ~run[p].again
  BY <1>0, <1>1, <1>4, RunSettle
<1>6. delivered' \in [Batches -> SUBSET (1 .. MaxItems)]
  BY <1>1, <1>2, <1>4 DEF BatchTypeOK
<1>7. BatchTypeOK'
  BY <1>1, <1>4, <1>5, <1>6 DEF BatchTypeOK
<1>8. /\ delivered'[b] = delivered[b] \cup {i}
      /\ \A c \in Batches : c # b => delivered'[c] = delivered[c]
  BY <1>1, <1>2, <1>4 DEF BatchTypeOK
<1>9. /\ Undelivered(b)' = Undelivered(b) \ {i}
      /\ \A c \in Batches : c # b => Undelivered(c)' = Undelivered(c)
      /\ \A c \in Batches : Outstanding(c)' = Outstanding(c)
  BY <1>1, <1>2, <1>8 DEF Undelivered, Outstanding
<1>10. (\A c \in Batches : BatchOK(c))'
  <2>1. BatchOK(b)'
    BY <1>1, <1>2, <1>3, <1>4, <1>8, <1>9 DEF BatchOK, Batches, BatchTypeOK
  <2>2. \A c \in Batches : c # b => BatchOK(c)'
    BY <1>1, <1>3, <1>4, <1>8, <1>9 DEF BatchOK
  <2>3. QED
    BY <2>1, <2>2
<1>11. RememberedOK'
  <2>1. ASSUME NEW c \in Batches, NEW j \in Undelivered(c)',
               j \notin Outstanding(c)'
        PROVE  \E q \in Handled(c)' : j \in run'[q].todo
    <3>1. j \in Undelivered(c) /\ j \notin Outstanding(c) /\ (c = b => j # i)
      BY <1>9, <2>1
    <3>2. PICK q \in Handled(c) : j \in run[q].todo
      BY <1>4, <3>1 DEF RememberedOK
    <3>3. q \in Goroutines /\ (q = p => c = b)
      BY <1>0, <3>2 DEF Handled
    <3>4. j \in run'[q].todo
      BY <1>5, <3>1, <3>2, <3>3
    <3>5. QED
      BY <1>3, <3>2, <3>4
  <2>2. ASSUME run'[RetryLoop].batch # 0, ~run'[RetryLoop].again
        PROVE  Undelivered(run[RetryLoop].batch)' \subseteq run'[RetryLoop].todo
    <3>1. CASE RetryLoop = p
      BY <1>0, <1>2, <1>4, <1>5, <1>9, <2>2, <3>1 DEF RememberedOK
    <3>2. CASE RetryLoop # p
      <4>1. run'[RetryLoop] = run[RetryLoop]
        BY <1>5, <3>2, LoopIsNoWorker
      <4>2. run[RetryLoop].batch \in Batches
        BY <1>4, <2>2, <4>1, LoopIsNoWorker DEF BatchTypeOK, Run
      <4>3. PICK c \in Batches : run[RetryLoop].batch = c
        BY <4>2
      <4>4. Undelivered(c)' \subseteq Undelivered(c)
        BY <1>9
      <4>5. QED
        BY <1>4, <2>2, <4>1, <4>3, <4>4 DEF RememberedOK
    <3>3. QED
      BY <3>1, <3>2
  <2>3. QED
    BY <2>1, <2>2 DEF RememberedOK
<1>12. QED
  BY <1>3, <1>7, <1>10, <1>11 DEF BatchInv

LEMMA InvFailItem ==
  ASSUME BatchInv, NEW p \in Goroutines, FailItem(p)
  PROVE  BatchInv'
<1>0. PICK b \in Batches, i \in 1 .. MaxItems, d \in Devices :
        run[p].batch = b /\ run[p].write.item = i /\ run[p].device = d
  BY DeliverFacts DEF FailItem
<1>1. /\ run[p].pc = "deliver" /\ Settle(p, TRUE)
      /\ batches' = [batches EXCEPT ![b].failed = @ \cup {d}, ![b].state = "partial"]
      /\ UNCHANGED <<online, seq, retryQueue, newer, desired, delivered>>
  BY <1>0 DEF FailItem, MarkPartial
<1>2. /\ b \in Batches /\ b <= seq /\ batches[b].state # "done" /\ b # 0
      /\ i \in run[p].todo /\ i \in DOMAIN batches[b].items
      /\ d = batches[b].items[i] /\ d \in Devices
  BY <1>0, <1>1, DeliverFacts
<1>4. BatchTypeOK /\ (\A c \in Batches : BatchOK(c)) /\ RememberedOK
  BY DEF BatchInv
<1>5. /\ run' \in [Goroutines -> Run]
      /\ \A q \in Goroutines : q # p => run'[q] = run[q]
      /\ run'[p].todo = run[p].todo \ {i} /\ run'[p].batch = b
      /\ run'[p].again
  BY <1>0, <1>1, <1>4, RunSettle
<1>6. batches \in [Batches -> Batch] /\ batches[b] \in Batch
  BY <1>2, <1>4 DEF BatchTypeOK
<1>7. /\ batches' \in [Batches -> Batch]
      /\ batches'[b].items = batches[b].items /\ batches'[b].state = "partial"
      /\ batches'[b].failed = batches[b].failed \cup {d}
      /\ \A c \in Batches : c # b => batches'[c] = batches[c]
  BY <1>1, <1>2, <1>6 DEF Batch
<1>3. /\ (\A q \in Goroutines : RunOK(q))' /\ OwnerOK'
      /\ \A c \in Batches : Handled(c)' = Handled(c)
  BY <1>1, <1>7, SettleRun
<1>8. BatchTypeOK'
  BY <1>1, <1>4, <1>5, <1>7 DEF BatchTypeOK
<1>9. /\ \A c \in Batches : Undelivered(c)' = Undelivered(c)
      /\ \A c \in Batches : Outstanding(c) \subseteq Outstanding(c)'
      /\ i \in Outstanding(b)'
  BY <1>1, <1>2, <1>7 DEF Undelivered, Outstanding
<1>10. (\A c \in Batches : BatchOK(c))'
  <2>1. BatchOK(b)'
    BY <1>1, <1>2, <1>3, <1>4, <1>7, <1>9 DEF BatchOK, Batches, BatchTypeOK
  <2>2. \A c \in Batches : c # b => BatchOK(c)'
    BY <1>1, <1>3, <1>4, <1>7, <1>9 DEF BatchOK
  <2>3. QED
    BY <2>1, <2>2
<1>11. RememberedOK'
  <2>1. ASSUME NEW c \in Batches, NEW j \in Undelivered(c)',
               j \notin Outstanding(c)'
        PROVE  \E q \in Handled(c)' : j \in run'[q].todo
    <3>1. j \in Undelivered(c) /\ j \notin Outstanding(c) /\ (c = b => j # i)
      BY <1>9, <2>1
    <3>2. PICK q \in Handled(c) : j \in run[q].todo
      BY <1>4, <3>1 DEF RememberedOK
    <3>3. q \in Goroutines /\ (q = p => c = b)
      BY <1>0, <3>2 DEF Handled
    <3>4. j \in run'[q].todo
      BY <1>5, <3>1, <3>2, <3>3
    <3>5. QED
      BY <1>3, <3>2, <3>4
  <2>2. ASSUME run'[RetryLoop].batch # 0, ~run'[RetryLoop].again
        PROVE  Undelivered(run[RetryLoop].batch)' \subseteq run'[RetryLoop].todo
    <3>1. RetryLoop # p
      BY <1>5, <2>2
    <3>2. run'[RetryLoop] = run[RetryLoop]
      BY <1>5, <3>1, LoopIsNoWorker
    <3>3. run[RetryLoop].batch \in Batches
      BY <1>4, <2>2, <3>2, LoopIsNoWorker DEF BatchTypeOK, Run
    <3>4. PICK c \in Batches : run[RetryLoop].batch = c
      BY <3>3
    <3>5. QED
      BY <1>4, <1>9, <2>2, <3>2, <3>4 DEF RememberedOK
  <2>3. QED
    BY <2>1, <2>2 DEF RememberedOK
<1>12. QED
  BY <1>3, <1>8, <1>10, <1>11 DEF BatchInv

LEMMA InvApplyBatch ==
  ASSUME BatchInv, NEW w \in Workers, NEW items \in ItemLists, ApplyBatch(w, items)
  PROVE  BatchInv'
<1> USE LoopIsNoWorker
<1>0. PICK b \in Batches : b = seq + 1
  BY BatchAssumption DEF BatchInv, BatchTypeOK, ApplyBatch, Batches
<1>1. /\ run[w].pc = "idle" /\ seq' = b
      /\ batches' = [batches EXCEPT ![b] = NewBatch(items)]
      /\ UNCHANGED <<online, retryQueue, newer, desired, delivered>>
  BY <1>0 DEF ApplyBatch
<1>2. /\ BatchTypeOK /\ (\A q \in Goroutines : RunOK(q)) /\ OwnerOK
      /\ (\A c \in Batches : BatchOK(c)) /\ RememberedOK
  BY DEF BatchInv
<1>3. run[w] \in Run /\ run[w].batch = 0 /\ run \in [Goroutines -> Run]
  BY <1>1, <1>2 DEF BatchTypeOK, RunOK
<1>4. /\ run' \in [Goroutines -> Run]
      /\ \A q \in Goroutines : q # w => run'[q] = run[q]
      /\ run'[w].pc = "next" /\ run'[w].batch = b /\ run'[w].todo = DOMAIN items
  <2> DEFINE r == [run[w] EXCEPT !.pc = "next", !.batch = b, !.todo = DOMAIN items]
  <2>1. r \in Run /\ r.pc = "next" /\ r.batch = b /\ r.todo = DOMAIN items
    BY <1>3, ListFacts DEF Run
  <2>2. run' = [run EXCEPT ![w] = r]
    BY <1>0, <1>3 DEF ApplyBatch, Run
  <2> HIDE DEF r
  <2>3. QED
    BY <1>3, <2>1, <2>2
<1>5. NewBatch(items) \in Batch /\ NewBatch(items).items = items
      /\ NewBatch(items).state = "pending" /\ NewBatch(items).failed = {}
  BY DEF NewBatch, Batch
<1>6. /\ batches' \in [Batches -> Batch] /\ batches'[b] = NewBatch(items)
      /\ \A c \in Batches : c # b => batches'[c] = batches[c]
  BY <1>1, <1>2, <1>5 DEF BatchTypeOK
<1>7. BatchTypeOK'
  BY <1>0, <1>1, <1>2, <1>4, <1>6 DEF BatchTypeOK, Batches
<1>8. b > seq /\ seq \in Nat /\ delivered[b] = {} /\ b \notin retryQueue
  BY <1>0, <1>2 DEF BatchOK, BatchTypeOK
<1>9. \A q \in Goroutines : run[q].batch # b /\ run[q].batch \in Nat
  BY <1>2, <1>8 DEF RunOK, BatchTypeOK, Run, Batches
<1>10. (\A q \in Goroutines : RunOK(q))'
  <2>1. RunOK(w)'
    BY <1>1, <1>4, <1>5, <1>6, <1>8 DEF RunOK, Batches
  <2>2. ASSUME NEW q \in Goroutines, q # w PROVE RunOK(q)'
    <3>1. run[q].batch # 0 => run[q].batch \in Batches
      BY <1>2 DEF BatchTypeOK, Run
    <3>2. run[q].batch # 0 => batches'[run[q].batch] = batches[run[q].batch]
      BY <1>6, <1>9, <3>1
    <3>3. run'[q] = run[q] /\ RunOK(q) /\ seq' >= seq /\ seq' \in Nat
      BY <1>1, <1>2, <1>4, <1>8, <2>2 DEF Batches
    <3>4. QED
      BY <1>2, <3>2, <3>3, OthersRunOK DEF RunOK
  <2>3. QED
    BY <2>1, <2>2
<1>11. OwnerOK'
  BY <1>1, <1>2, <1>4, <1>8, <1>9 DEF OwnerOK
<1>12. /\ Undelivered(b)' = DOMAIN items /\ w \in Handled(b)'
       /\ \A c \in Batches : c # b => /\ Undelivered(c)' = Undelivered(c)
                                      /\ Outstanding(c)' = Outstanding(c)
  BY <1>1, <1>4, <1>5, <1>6, <1>8 DEF Undelivered, Outstanding, Handled
<1>13. \A c \in Batches : c # b => /\ Handled(c)' = Handled(c)
                                   /\ \A q \in Handled(c) : run'[q] = run[q]
  BY <1>3, <1>4, HandledByOthers DEF Batches
<1>14. (\A c \in Batches : BatchOK(c))'
  <2>1. BatchOK(b)'
    BY <1>1, <1>5, <1>6, <1>8, <1>12 DEF BatchOK, Batches
  <2>2. ASSUME NEW c \in Batches, c # b PROVE BatchOK(c)'
    <3>1. BatchOK(c) /\ batches'[c] = batches[c] /\ (c > b => c > seq)
          /\ (c <= b => c <= seq)
      BY <1>0, <1>2, <1>6, <1>8, <2>2 DEF Batches
    <3>2. QED
      BY <1>1, <1>12, <1>13, <2>2, <3>1 DEF BatchOK
  <2>3. QED
    BY <2>1, <2>2
<1>15. RememberedOK'
  <2>1. ASSUME NEW c \in Batches, NEW j \in Undelivered(c)'
        PROVE  j \in Outstanding(c)' \/ \E q \in Handled(c)' : j \in run'[q].todo
    <3>1. CASE c = b
      BY <1>4, <1>12, <2>1, <3>1
    <3>2. CASE c # b
      BY <1>2, <1>12, <1>13, <2>1, <3>2 DEF RememberedOK
    <3>3. QED
      BY <3>1, <3>2
  <2>2. ASSUME run'[RetryLoop].batch # 0, ~run'[RetryLoop].again
        PROVE  Undelivered(run[RetryLoop].batch)' \subseteq run'[RetryLoop].todo
    <3>1. run'[RetryLoop] = run[RetryLoop]
      BY <1>4
    <3>2. PICK c \in Batches : run[RetryLoop].batch = c /\ c # b
      BY <1>2, <1>9, <2>2, <3>1 DEF BatchTypeOK, Run
    <3>3. QED
      BY <1>2, <1>12, <2>2, <3>1, <3>2 DEF RememberedOK
  <2>3. run'[RetryLoop] = run[RetryLoop]
    BY <1>4
  <2>4. QED
    BY <2>1, <2>2, <2>3 DEF RememberedOK
<1>16. QED
  BY <1>7, <1>10, <1>11, <1>14, <1>15 DEF BatchInv

\* A goroutine with nothing left to do lets go of its batch b: the batch is done
\* and out of the queue, or partial and in it.
LEMMA LetGo ==
  ASSUME BatchInv, NEW p \in Goroutines, NEW b \in Batches,
         run[p].batch = b, run[p].todo = {}, run'[p].batch = 0, run'[p].todo = {},
         run' \in [Goroutines -> Run],
         \A q \in Goroutines : q # p => run'[q] = run[q],
         UNCHANGED <<online, seq, newer, desired, delivered>>,
         batches' \in [Batches -> Batch], retryQueue' \subseteq Batches,
         \A c \in Batches : c # b =>
           batches'[c] = batches[c] /\ (c \in retryQueue' <=> c \in retryQueue),
         batches'[b].items = batches[b].items, batches'[b].failed = batches[b].failed,
         \/ batches'[b].state = "partial" /\ b \in retryQueue'
         \/ batches'[b].state = "done" /\ b \notin retryQueue' /\ Undelivered(b) = {}
  PROVE  /\ BatchTypeOK' /\ RememberedOK'
         /\ (\A c \in Batches : BatchOK(c))'
         /\ \A q \in Goroutines : q # p => RunOK(q)'
<1> USE LoopIsNoWorker
<1>1. /\ BatchTypeOK /\ (\A q \in Goroutines : RunOK(q)) /\ OwnerOK
      /\ (\A c \in Batches : BatchOK(c)) /\ RememberedOK
  BY DEF BatchInv
<1>2. BatchTypeOK'
  BY <1>1 DEF BatchTypeOK
<1>3. b # 0 /\ b <= seq /\ seq \in Nat
  BY <1>1 DEF RunOK, Batches, BatchTypeOK
<1>4. \A q \in Goroutines : q # p => run[q].batch # b
  BY <1>3, OneOwner
<1>5. ASSUME NEW q \in Goroutines, q # p PROVE RunOK(q)'
  <2>1. run[q].batch # 0 => run[q].batch \in Batches /\ run[q].batch # b
    BY <1>1, <1>4, <1>5 DEF BatchTypeOK, Run
  <2>2. RunOK(q) /\ run'[q] = run[q] /\ seq' = seq
    BY <1>1, <1>5
  <2>3. run[q].batch # 0 =>
          /\ batches'[run[q].batch].state # "done"
          /\ batches'[run[q].batch].items = batches[run[q].batch].items
    BY <2>1, <2>2 DEF RunOK
  <2> QED
    BY <1>1, <1>3, <2>2, <2>3, OthersRunOK
<1>6. \A c \in Batches : /\ Undelivered(c)' = Undelivered(c)
                         /\ Outstanding(c)' = Outstanding(c)
  BY DEF Undelivered, Outstanding
<1>7. \A c \in Batches : c # b => /\ Handled(c)' = Handled(c)
                                  /\ \A q \in Handled(c) : run'[q] = run[q]
  BY HandledByOthers DEF Batches
<1>8. Undelivered(b) \subseteq Outstanding(b)
  <2>1. \A q \in Handled(b) : run[q].todo = {}
    BY <1>4 DEF Handled
  <2>2. QED
    BY <1>1, <2>1 DEF RememberedOK
<1>9. (\A c \in Batches : BatchOK(c))'
  <2>1. BatchOK(b)'
    <3>1. BatchOK(b) /\ Undelivered(b)' = Undelivered(b)
      BY <1>1, <1>6
    <3>2. QED
      BY <1>3, <3>1 DEF BatchOK, Batches
  <2>2. \A c \in Batches : c # b => BatchOK(c)'
    BY <1>1, <1>6, <1>7 DEF BatchOK
  <2>3. QED
    BY <2>1, <2>2
<1>10. RememberedOK'
  <2>1. ASSUME NEW c \in Batches, NEW j \in Undelivered(c)'
        PROVE  j \in Outstanding(c)' \/ \E q \in Handled(c)' : j \in run'[q].todo
    <3>1. CASE c = b
      BY <1>6, <1>8, <2>1, <3>1
    <3>2. CASE c # b
      BY <1>1, <1>6, <1>7, <2>1, <3>2 DEF RememberedOK
    <3>3. QED
      BY <3>1, <3>2
  <2>2. ASSUME run'[RetryLoop].batch # 0, ~run'[RetryLoop].again
        PROVE  /\ Undelivered(run[RetryLoop].batch)' \subseteq run'[RetryLoop].todo
               /\ run'[RetryLoop] = run[RetryLoop]
    <3>1. run'[RetryLoop] = run[RetryLoop]
      BY <2>2
    <3>2. PICK c \in Batches : run[RetryLoop].batch = c
      BY <1>1, <2>2, <3>1 DEF BatchTypeOK, Run
    <3>3. QED
      BY <1>1, <1>6, <2>2, <3>1, <3>2 DEF RememberedOK
  <2>3. QED
    BY <2>1, <2>2 DEF RememberedOK
<1>11. QED
  BY <1>2, <1>5, <1>9, <1>10

LEMMA InvFinishBatch ==
  ASSUME BatchInv, NEW w \in Workers, FinishBatch(w)
  PROVE  BatchInv'
<1> USE LoopIsNoWorker
<1>1. /\ BatchTypeOK /\ RunOK(w) /\ OwnerOK
      /\ (\A c \in Batches : BatchOK(c)) /\ RememberedOK
  BY DEF BatchInv
<1>2. PICK b \in Batches : run[w].batch = b /\ batches[b].state # "done"
  BY <1>1 DEF FinishBatch, RunOK, BatchTypeOK, Run
<1> DEFINE r == [Idle EXCEPT !.pc = "answer", !.reply = b]
<1>3. /\ run[w].pc = "next" /\ run[w].todo = {} /\ run' = [run EXCEPT ![w] = r]
      /\ UNCHANGED <<online, seq, newer, desired, delivered>>
  BY <1>2 DEF FinishBatch
<1>0. /\ r \in Run /\ r.pc = "answer" /\ r.batch = 0 /\ r.todo = {}
      /\ r.pending = {}
  BY IdleFacts
<1> HIDE DEF r
<1>4. /\ run' \in [Goroutines -> Run]
      /\ \A q \in Goroutines : q # w => run'[q] = run[q]
      /\ run'[w] = r /\ run'[w].batch = 0 /\ run'[w].todo = {}
      /\ run'[w].pc = "answer"
  BY <1>0, <1>1, <1>3, RunRest
<1>5. batches[b] \in Batch /\ batches \in [Batches -> Batch]
  BY <1>1 DEF BatchTypeOK
<1>6. /\ batches' \in [Batches -> Batch] /\ retryQueue' \subseteq Batches
      /\ \A c \in Batches : c # b =>
           batches'[c] = batches[c] /\ (c \in retryQueue' <=> c \in retryQueue)
      /\ batches'[b].items = batches[b].items /\ batches'[b].failed = batches[b].failed
      /\ \/ batches'[b].state = "partial" /\ b \in retryQueue'
         \/ batches'[b].state = "done" /\ b \notin retryQueue' /\ Undelivered(b) = {}
  <2>1. CASE batches[b].state = "partial"
    BY <1>1, <1>2, <1>5, <2>1 DEF FinishBatch, BatchTypeOK
  <2>2. CASE batches[b].state # "partial"
    <3>1. batches[b].state = "pending" /\ batches[b].failed = {} /\ b \notin retryQueue
      BY <1>1, <1>2, <1>5, <2>2 DEF Batch, BatchOK, OwnerOK
    <3>2. Handled(b) \subseteq {w} /\ Outstanding(b) = {}
      BY <1>2, <3>1, OneOwner DEF Handled, Outstanding, Batches
    <3>3. Undelivered(b) = {}
      BY <1>1, <1>3, <3>2 DEF RememberedOK
    <3>4. batches' = [batches EXCEPT ![b].state = "done"] /\ retryQueue' = retryQueue
      BY <1>2, <2>2 DEF FinishBatch, MarkDone
    <3>5. batches' \in [Batches -> Batch] /\ batches'[b].items = batches[b].items
          /\ batches'[b].failed = batches[b].failed /\ batches'[b].state = "done"
          /\ \A c \in Batches : c # b => batches'[c] = batches[c]
      BY <1>5, <3>4 DEF Batch
    <3>6. QED
      BY <1>1, <3>1, <3>3, <3>4, <3>5 DEF BatchTypeOK
  <2>3. QED
    BY <2>1, <2>2
<1>7. /\ BatchTypeOK' /\ RememberedOK' /\ (\A c \in Batches : BatchOK(c))'
      /\ \A q \in Goroutines : q # w => RunOK(q)'
  BY <1>2, <1>3, <1>4, <1>6, LetGo
<1>8. RunOK(w)'
  BY <1>4, IdleFacts DEF RunOK
<1>9. \A v \in Workers : v # w => run[v].batch # b
  BY <1>2, OneOwner DEF Batches
<1>10. run[RetryLoop].pending \subseteq retryQueue /\ b \notin retryQueue
  BY <1>1, <1>2 DEF OwnerOK
<1>11. run[RetryLoop].batch \in {0} \cup Batches /\ \A v \in Workers : run[v].batch \in {0} \cup Batches
  BY <1>1 DEF BatchTypeOK, Run
<1>12. OwnerOK'
  <2>1. \A c \in Batches : c \in retryQueue => c \in retryQueue'
    BY <1>6, <1>10
  <2>2. 0 \notin retryQueue'
    BY <1>6 DEF Batches
  <2>3. \A v \in Workers : run'[v].batch \notin retryQueue'
    <3>1. run'[w].batch \notin retryQueue'
      BY <1>4, <2>2
    <3>2. ASSUME NEW v \in Workers, v # w PROVE run'[v].batch \notin retryQueue'
      <4>1. run'[v].batch = run[v].batch /\ run[v].batch # b
            /\ run[v].batch \notin retryQueue
        BY <1>1, <1>4, <1>9, <3>2 DEF OwnerOK
      <4>2. QED
        BY <1>6, <1>11, <2>2, <4>1
    <3>3. QED
      BY <3>1, <3>2
  <2>4. run'[RetryLoop] = run[RetryLoop]
    BY <1>4
  <2>5. run[RetryLoop].pending \subseteq Batches
    BY <1>1 DEF BatchTypeOK, Run
  <2>6. \A u, v \in Workers :
          run'[u].batch # 0 /\ run'[u].batch = run'[v].batch => u = v
    BY <1>1, <1>4 DEF OwnerOK
  <2>7. \A v \in Workers : run'[v].pc # "visit"
    BY <1>1, <1>4 DEF OwnerOK
  <2>8. QED
    BY <1>1, <1>11, <2>1, <2>3, <2>4, <2>5, <2>6, <2>7 DEF OwnerOK
<1>13. QED
  BY <1>7, <1>8, <1>12 DEF BatchInv

LEMMA InvWriteAnswer ==
  ASSUME BatchInv, NEW w \in Workers, WriteAnswer(w)
  PROVE  BatchInv'
<1> USE LoopIsNoWorker
<1>1. /\ BatchTypeOK /\ (\A q \in Goroutines : RunOK(q)) /\ OwnerOK
  BY DEF BatchInv
<1>2. /\ run[w].pc = "answer" /\ run' = [run EXCEPT ![w] = Idle]
      /\ UNCHANGED <<online, seq, batches, retryQueue, newer, desired, delivered>>
  BY DEF WriteAnswer
<1>3. /\ run' \in [Goroutines -> Run]
      /\ \A q \in Goroutines : q # w => run'[q] = run[q]
      /\ run'[w].pc = "idle" /\ run'[w].batch = 0
  BY <1>1, <1>2, ConstantTypes, IdleFacts, RunRest
<1>4. BatchTypeOK'
  BY <1>1, <1>2, <1>3 DEF BatchTypeOK
<1>5. (\A q \in Goroutines : RunOK(q))'
  BY <1>1, <1>2, <1>3 DEF RunOK
<1>6. run[w].batch = 0
  BY <1>1, <1>2 DEF RunOK
<1>7. /\ \A q \in Goroutines : run'[q].batch = run[q].batch
      /\ \A q \in Goroutines : run[q].batch # 0 => run'[q].todo = run[q].todo
      /\ \A v \in Workers : run'[v].pc # "visit"
      /\ run'[RetryLoop] = run[RetryLoop]
  BY <1>1, <1>3, <1>6 DEF OwnerOK
<1>8. OwnerOK' /\ (\A b \in Batches : BatchOK(b))' /\ RememberedOK'
  BY <1>1, <1>2, <1>7, SameWork DEF OwnerOK
<1>9. QED
  BY <1>4, <1>5, <1>8 DEF BatchInv

LEMMA InvTick ==
  ASSUME BatchInv, Tick
  PROVE  BatchInv'
<1> USE LoopIsNoWorker
<1>1. /\ run[RetryLoop].pc = "idle"
      /\ run' = [run EXCEPT ![RetryLoop].pc = "visit", ![RetryLoop].pending = retryQueue]
      /\ UNCHANGED <<online, seq, batches, retryQueue, newer, desired, delivered>>
  BY DEF Tick, PendingBatches
<1>2. /\ BatchTypeOK /\ (\A q \in Goroutines : RunOK(q)) /\ OwnerOK
      /\ run \in [Goroutines -> Run] /\ run[RetryLoop] \in Run
      /\ run[RetryLoop].batch = 0 /\ retryQueue \subseteq Batches
  BY <1>1 DEF BatchInv, BatchTypeOK, RunOK
<1> DEFINE r == [run[RetryLoop] EXCEPT !.pc = "visit", !.pending = retryQueue]
<1>3. /\ r \in Run /\ r.pc = "visit" /\ r.batch = 0 /\ r.pending = retryQueue
      /\ r.again = run[RetryLoop].again
  BY <1>2 DEF Run
<1>4. run' = [run EXCEPT ![RetryLoop] = r]
  BY <1>1, <1>2 DEF Run
<1> HIDE DEF r
<1>5. /\ run' \in [Goroutines -> Run] /\ run'[RetryLoop] = r
      /\ \A q \in Goroutines : q # RetryLoop => run'[q] = run[q]
  BY <1>2, <1>3, <1>4
<1>6. (\A q \in Goroutines : RunOK(q))'
  BY <1>1, <1>2, <1>3, <1>5 DEF RunOK
<1>7. OwnerOK' /\ (\A b \in Batches : BatchOK(b))' /\ RememberedOK'
  <2>1. /\ \A q \in Goroutines : run'[q].batch = run[q].batch
        /\ \A q \in Goroutines : run[q].batch # 0 => run'[q].todo = run[q].todo
        /\ \A w \in Workers : run'[w].pc # "visit"
        /\ run'[RetryLoop].pending = retryQueue /\ run'[RetryLoop].batch = 0
    BY <1>2, <1>3, <1>5 DEF OwnerOK
  <2>2. 0 \notin retryQueue
    BY <1>2 DEF Batches
  <2>3. QED
    BY <1>1, <1>2, <2>1, <2>2, SameWork
<1>8. BatchTypeOK'
  BY <1>1, <1>2, <1>5 DEF BatchTypeOK
<1>9. QED
  BY <1>6, <1>7, <1>8 DEF BatchInv

LEMMA InvRetryOutstanding ==
  ASSUME BatchInv, NEW b \in Batches, RetryOutstanding(b)
  PROVE  BatchInv'
<1> USE LoopIsNoWorker
<1>1. /\ run[RetryLoop].pc = "visit" /\ b \in run[RetryLoop].pending
      /\ b \in retryQueue
      /\ run' = [run EXCEPT ![RetryLoop].pc = "next", ![RetryLoop].batch = b,
                            ![RetryLoop].todo = Outstanding(b),
                            ![RetryLoop].again = FALSE,
                            ![RetryLoop].pending = @ \ {b}]
      /\ UNCHANGED <<online, seq, batches, retryQueue, newer, desired, delivered>>
  BY DEF RetryOutstanding
<1>2. /\ BatchTypeOK /\ (\A q \in Goroutines : RunOK(q)) /\ OwnerOK
      /\ (\A c \in Batches : BatchOK(c)) /\ RememberedOK
      /\ run \in [Goroutines -> Run] /\ run[RetryLoop] \in Run
  BY <1>1 DEF BatchInv, BatchTypeOK
<1>3. /\ run[RetryLoop].batch = 0 /\ run[RetryLoop].pending \ {b} \in SUBSET Batches
      /\ Outstanding(b) \in SUBSET (1 .. MaxItems)
      /\ Outstanding(b) \subseteq DOMAIN batches[b].items
  <2>1. Outstanding(b) \subseteq DOMAIN batches[b].items
    BY DEF Outstanding
  <2>2. \A i \in DOMAIN batches[b].items : i \in 1 .. MaxItems
    BY <1>2, ItemFacts
  <2>3. QED
    BY <1>1, <1>2, <2>1, <2>2 DEF RunOK, Run
<1>4. PICK todo \in SUBSET (1 .. MaxItems), pending \in SUBSET Batches :
        todo = Outstanding(b) /\ pending = run[RetryLoop].pending \ {b}
  BY <1>3
<1>5. /\ run' \in [Goroutines -> Run]
      /\ \A q \in Goroutines : q # RetryLoop => run'[q] = run[q]
      /\ run'[RetryLoop].pc = "next" /\ run'[RetryLoop].batch = b
      /\ run'[RetryLoop].todo = todo /\ run'[RetryLoop].pending = pending
  <2> DEFINE r == [run[RetryLoop] EXCEPT !.pc = "next", !.batch = b,
                     !.todo = todo, !.again = FALSE, !.pending = pending]
  <2>1. r \in Run /\ r.pc = "next" /\ r.batch = b /\ r.todo = todo
        /\ r.pending = pending
    BY <1>2 DEF Run
  <2>2. run' = [run EXCEPT ![RetryLoop] = r]
    BY <1>1, <1>2, <1>4 DEF Run
  <2> HIDE DEF r
  <2>3. QED
    BY <1>2, <2>1, <2>2
<1>6. BatchTypeOK'
  BY <1>1, <1>2, <1>5 DEF BatchTypeOK
<1>7. b <= seq /\ b # 0 /\ batches[b].state = "partial"
  BY <1>1, <1>2 DEF BatchOK, BatchTypeOK, Batches
<1>8. (\A q \in Goroutines : RunOK(q))'
  <2>1. ASSUME NEW q \in Goroutines, q # RetryLoop PROVE RunOK(q)'
    <3>1. RunOK(q) /\ run'[q] = run[q] /\ UNCHANGED <<seq, batches>>
      BY <1>1, <1>2, <1>5, <2>1
    <3> QED
      BY <3>1 DEF RunOK
  <2>2. RunOK(RetryLoop)'
    BY <1>1, <1>3, <1>4, <1>5, <1>7 DEF RunOK
  <2>3. QED
    BY <2>1, <2>2
<1>9. OwnerOK'
  BY <1>1, <1>2, <1>4, <1>5 DEF OwnerOK
<1>10. \A w \in Workers : run[w].batch # b
  BY <1>1, <1>2 DEF OwnerOK
<1>11. Handled(b) = {} /\ RetryLoop \in Handled(b)'
  BY <1>3, <1>5, <1>7, <1>10 DEF Handled, Goroutines
<1>12. \A c \in Batches : c # b => /\ Handled(c)' = Handled(c)
                                   /\ \A q \in Handled(c) : run'[q] = run[q]
  BY <1>3, <1>5, HandledByOthers DEF Batches
<1>13. \A c \in Batches : /\ Undelivered(c)' = Undelivered(c)
                          /\ Outstanding(c)' = Outstanding(c)
  BY <1>1 DEF Undelivered, Outstanding
<1>14. (\A c \in Batches : BatchOK(c))'
  <2>1. BatchOK(b)'
    BY <1>1, <1>2, <1>7, <1>13 DEF BatchOK
  <2>2. \A c \in Batches : c # b => BatchOK(c)'
    BY <1>1, <1>2, <1>12, <1>13 DEF BatchOK
  <2>3. QED
    BY <2>1, <2>2
<1>15. Undelivered(b) \subseteq Outstanding(b)
  BY <1>2, <1>11 DEF RememberedOK
<1>16. RememberedOK'
  <2>1. ASSUME NEW c \in Batches, NEW j \in Undelivered(c)'
        PROVE  j \in Outstanding(c)' \/ \E q \in Handled(c)' : j \in run'[q].todo
    <3>1. CASE c = b
      BY <1>13, <1>15, <2>1, <3>1
    <3>2. CASE c # b
      BY <1>2, <1>12, <1>13, <2>1, <3>2 DEF RememberedOK
    <3>3. QED
      BY <3>1, <3>2
  <2>2. Undelivered(b)' \subseteq run'[RetryLoop].todo
    BY <1>4, <1>5, <1>13, <1>15
  <2>3. QED
    BY <1>5, <2>1, <2>2 DEF RememberedOK
<1>17. QED
  BY <1>6, <1>8, <1>9, <1>14, <1>16 DEF BatchInv

LEMMA InvFinishRetry ==
  ASSUME BatchInv, FinishRetry
  PROVE  BatchInv'
<1> USE LoopIsNoWorker
<1>1. /\ BatchTypeOK /\ RunOK(RetryLoop) /\ OwnerOK /\ RememberedOK
      /\ run[RetryLoop] \in Run /\ (\A c \in Batches : BatchOK(c))
  BY DEF BatchInv, BatchTypeOK
<1>2. PICK b \in Batches : run[RetryLoop].batch = b /\ batches[b].state # "done"
  BY <1>1 DEF FinishRetry, RunOK, Run
<1>3. PICK pending \in SUBSET Batches :
        pending = run[RetryLoop].pending /\ pending \subseteq retryQueue
        /\ b \notin pending /\ b \in retryQueue
  BY <1>1, <1>2 DEF Run, OwnerOK, Batches
<1> DEFINE r == IF pending = {} THEN Idle
                ELSE [Idle EXCEPT !.pc = "visit", !.pending = pending]
<1>4. /\ run[RetryLoop].pc = "next" /\ run[RetryLoop].todo = {}
      /\ run' = [run EXCEPT ![RetryLoop] = r]
      /\ UNCHANGED <<online, seq, newer, desired, delivered>>
  BY <1>3 DEF FinishRetry
<1>5. /\ r \in Run /\ r.pc \in {"idle", "visit"} /\ r.batch = 0 /\ r.todo = {}
      /\ r.pending = pending
  BY IdleFacts, ConstantTypes
<1> HIDE DEF r
<1>6. /\ run' \in [Goroutines -> Run] /\ run'[RetryLoop] = r
      /\ \A q \in Goroutines : q # RetryLoop => run'[q] = run[q]
  BY <1>1, <1>4, <1>5, RunRest
<1>7. batches[b] \in Batch /\ batches \in [Batches -> Batch] /\ batches[b].state = "partial"
      /\ retryQueue \subseteq Batches
  BY <1>1, <1>3 DEF BatchTypeOK, BatchOK
<1>8. /\ batches' \in [Batches -> Batch] /\ retryQueue' \subseteq Batches
      /\ \A c \in Batches : c # b =>
           batches'[c] = batches[c] /\ (c \in retryQueue' <=> c \in retryQueue)
      /\ batches'[b].items = batches[b].items /\ batches'[b].failed = batches[b].failed
      /\ \/ batches'[b].state = "partial" /\ b \in retryQueue'
         \/ batches'[b].state = "done" /\ b \notin retryQueue' /\ Undelivered(b) = {}
  <2>1. CASE run[RetryLoop].again
    BY <1>3, <1>7, <2>1 DEF FinishRetry
  <2>2. CASE ~run[RetryLoop].again
    <3>1. Undelivered(b) = {}
      BY <1>1, <1>2, <1>4, <2>2 DEF RememberedOK, Batches
    <3>2. batches' = [batches EXCEPT ![b].state = "done"] /\ retryQueue' = retryQueue \ {b}
      BY <1>2, <2>2 DEF FinishRetry, MarkDone
    <3>3. batches' \in [Batches -> Batch] /\ batches'[b].items = batches[b].items
          /\ batches'[b].failed = batches[b].failed /\ batches'[b].state = "done"
          /\ \A c \in Batches : c # b => batches'[c] = batches[c]
      BY <1>7, <3>2 DEF Batch
    <3>4. QED
      BY <1>7, <3>1, <3>2, <3>3
  <2>3. QED
    BY <2>1, <2>2
<1>9. /\ BatchTypeOK' /\ RememberedOK' /\ (\A c \in Batches : BatchOK(c))'
      /\ \A q \in Goroutines : q # RetryLoop => RunOK(q)'
  BY <1>2, <1>4, <1>5, <1>6, <1>8, LetGo
<1>10. RunOK(RetryLoop)'
  BY <1>5, <1>6 DEF RunOK
<1>11. \A w \in Workers : run'[w] = run[w] /\ run[w].batch \in {0} \cup Batches
  BY <1>1, <1>6 DEF BatchTypeOK, Run
<1>12. OwnerOK'
  <2>1. \A c : c \in retryQueue' => c \in retryQueue
    BY <1>3, <1>8
  <2>2. pending \subseteq retryQueue'
    BY <1>3, <1>8
  <2>3. 0 \notin pending
    BY DEF Batches
  <2>4. QED
    BY <1>1, <1>5, <1>6, <1>11, <2>1, <2>2, <2>3 DEF OwnerOK
<1>13. QED
  BY <1>9, <1>10, <1>12 DEF BatchInv

LEMMA InvStep == BatchInv /\ [Next]_vars => BatchInv'
<1>1. SUFFICES ASSUME BatchInv, [Next]_vars PROVE BatchInv'
  OBVIOUS
<1>2. ASSUME NEW p \in Goroutines, Item(p) PROVE BatchInv'
  BY <1>1, <1>2, InvWriteItem, InvCommit, InvDeliverItem, InvFailItem DEF Item
<1>3. CASE \E d \in Devices : Connect(d) \/ Disconnect(d)
  BY <1>1, <1>3, InvDevices
<1>4. ASSUME NEW w \in Workers,
             \/ \E d \in Devices : ClientWrites(w, d)
             \/ \E items \in ItemLists : ApplyBatch(w, items)
             \/ Item(w)
             \/ FinishBatch(w) \/ WriteAnswer(w)
      PROVE  BatchInv'
  BY <1>1, <1>2, <1>4, InvClientWrites, InvApplyBatch, InvFinishBatch,
     InvWriteAnswer, LoopIsNoWorker
<1>5. CASE Retrying
  BY <1>1, <1>2, <1>5, InvTick, InvRetryOutstanding, InvFinishRetry, LoopIsNoWorker
     DEF Retrying
<1>6. CASE UNCHANGED vars
  <2>1. BatchTypeOK'
    BY <1>1, <1>6 DEF vars, BatchInv, BatchTypeOK
  <2>2. QED
    BY <1>1, <1>6, <2>1, InvUnchanged DEF vars
<1>7. QED
  BY <1>1, <1>3, <1>4, <1>5, <1>6 DEF Next

\* In every reachable state the batches, the queue and the goroutines agree on
\* which items are still to be written, and by whom.
THEOREM BatchesConsistent == Spec => []BatchInv
<1>1. Init => BatchInv
  BY InvInit
<1>2. BatchInv /\ [Next]_vars => BatchInv'
  BY InvStep
<1>3. QED
  BY <1>1, <1>2, PTL DEF Spec

\* Every variable keeps its type (desired.BatchService).
THEOREM BatchTypeCorrect == Spec => []BatchTypeOK
<1>1. BatchInv => BatchTypeOK
  BY DEF BatchInv
<1>2. QED
  BY <1>1, BatchesConsistent, PTL

-----------------------------------------------------------------------------
(* Who changes a batch that a request answers with.                        *)

\* Nobody changes a batch any more but the loop.
Settled(b) == b \in retryQueue \/ batches[b].state = "done"

\* A request answers with a batch only after it has let go of it.
AnswerOK == \A p \in Goroutines : run[p].reply # 0 => Settled(run[p].reply)

\* A goroutine that does not take up a batch to answer with.
LEMMA SameAnswers ==
  ASSUME BatchInv, AnswerOK,
         \A p \in Goroutines : run'[p].reply \in {0, run[p].reply},
         \A b \in Batches : Settled(b) => Settled(b)'
  PROVE  AnswerOK'
<1>1. \A p \in Goroutines : run[p].reply \in {0} \cup Batches
  BY DEF BatchInv, BatchTypeOK, Run
<1>2. QED
  BY <1>1 DEF AnswerOK, Settled

\* One item changes only the batch of its goroutine, which is not done.
LEMMA AnswerItem ==
  ASSUME BatchInv, AnswerOK, NEW p \in Goroutines, Item(p)
  PROVE  AnswerOK'
<1>1. BatchTypeOK /\ RunOK(p) /\ run \in [Goroutines -> Run] /\ run[p] \in Run
  BY DEF BatchInv, BatchTypeOK
<1>2. CASE WriteItem(p)
  <2>1. PICK i \in run[p].todo :
          Issue(p, batches[run[p].batch].items[i],
                [batch |-> run[p].batch, item |-> i])
    BY <1>2 DEF WriteItem
  <2>2. \A q \in Goroutines : run'[q].reply = run[q].reply
    BY <1>1, <2>1 DEF Issue, Run
  <2>3. QED
    BY <1>2, <2>2, SameAnswers DEF WriteItem, Settled
<1>3. CASE Commit(p)
  <2>1. \A q \in Goroutines : run'[q].reply \in {0, run[q].reply}
    <3> DEFINE r == IF run[p].batch = 0 THEN Idle ELSE [run[p] EXCEPT !.pc = "deliver"]
    <3>1. r.reply \in {0, run[p].reply}
      BY <1>1, IdleFacts DEF Run
    <3>2. run' = [run EXCEPT ![p] = r]
      BY <1>1, <1>3 DEF Commit
    <3> HIDE DEF r
    <3>3. QED
      BY <1>1, <3>1, <3>2
  <2>2. QED
    BY <1>3, <2>1, SameAnswers DEF Commit, Settled
<1>4. ASSUME NEW failed \in BOOLEAN, Settle(p, failed)
      PROVE  \A q \in Goroutines : run'[q].reply = run[q].reply
  <2>1. run'[p].reply = run[p].reply /\ \A q \in Goroutines : q # p => run'[q] = run[q]
    BY <1>1, <1>4, RunSettle
  <2>2. QED
    BY <2>1
<1>5. CASE DeliverItem(p)
  BY <1>4, <1>5, SameAnswers DEF DeliverItem, Settled
<1>6. CASE FailItem(p)
  <2>1. PICK b \in Batches : run[p].batch = b /\ batches[b].state # "done"
    BY <1>6, DeliverFacts DEF FailItem
  <2>2. /\ batches' = [batches EXCEPT ![b].failed = @ \cup {run[p].device},
                                      ![b].state = "partial"]
        /\ retryQueue' = retryQueue
    BY <1>6, <2>1 DEF FailItem, MarkPartial
  <2>3. \A c \in Batches : c # b => batches'[c] = batches[c]
    BY <1>1, <2>2 DEF BatchTypeOK
  <2>4. \A c \in Batches : Settled(c) => Settled(c)'
    BY <2>1, <2>2, <2>3 DEF Settled
  <2>5. QED
    BY <1>4, <1>6, <2>4, SameAnswers DEF FailItem
<1>7. QED
  BY <1>2, <1>3, <1>5, <1>6 DEF Item

LEMMA AnswerApply ==
  ASSUME BatchInv, AnswerOK, NEW w \in Workers, NEW items \in ItemLists,
         ApplyBatch(w, items)
  PROVE  AnswerOK'
<1>1. /\ BatchTypeOK
      /\ run \in [Goroutines -> Run] /\ batches \in [Batches -> Batch]
  BY DEF BatchInv, BatchTypeOK
<1>2. PICK b \in Batches : b = seq + 1
  BY <1>1, BatchAssumption DEF BatchTypeOK, ApplyBatch, Batches
<1>3. ~Settled(b)
  <2>1. BatchOK(b) /\ b > seq
    BY <1>1, <1>2 DEF BatchInv, BatchTypeOK
  <2>2. batches[b].state = "pending" /\ b \notin retryQueue
    BY <2>1 DEF BatchOK, NewBatch
  <2>3. QED
    BY <2>2 DEF Settled
<1>4. \A c \in Batches : Settled(c) => Settled(c)'
  BY <1>1, <1>2, <1>3 DEF ApplyBatch, Settled
<1>5. \A q \in Goroutines : run'[q].reply = run[q].reply
  BY <1>1 DEF ApplyBatch, Run
<1>6. QED
  BY <1>4, <1>5, SameAnswers

LEMMA AnswerFinish ==
  ASSUME BatchInv, AnswerOK, NEW w \in Workers, FinishBatch(w)
  PROVE  AnswerOK'
<1>1. /\ BatchTypeOK /\ RunOK(w) /\ w \in Goroutines
      /\ run \in [Goroutines -> Run] /\ batches \in [Batches -> Batch]
  BY LoopIsNoWorker DEF BatchInv, BatchTypeOK
<1>2. PICK b \in Batches : run[w].batch = b
  BY <1>1 DEF FinishBatch, RunOK, BatchTypeOK, Run
<1>3. /\ retryQueue \subseteq retryQueue'
      /\ batches' = batches \/ batches' = [batches EXCEPT ![b].state = "done"]
      /\ b \in retryQueue' \/ batches' = [batches EXCEPT ![b].state = "done"]
  BY <1>2 DEF FinishBatch, MarkDone
<1>4. Settled(b)' /\ \A c \in Batches : Settled(c) => Settled(c)'
  BY <1>1, <1>3 DEF Settled, Batch
<1>5. run'[w].reply = b /\ \A q \in Goroutines : q # w => run'[q] = run[q]
  <2> DEFINE r == [Idle EXCEPT !.pc = "answer", !.reply = b]
  <2>1. r.reply = b
    BY IdleFacts
  <2>2. run' = [run EXCEPT ![w] = r]
    BY <1>2 DEF FinishBatch
  <2> HIDE DEF r
  <2>3. QED
    BY <1>1, <2>1, <2>2
<1>6. \A q \in Goroutines : run[q].reply \in {0} \cup Batches
  BY <1>1 DEF Run
<1>7. ASSUME NEW q \in Goroutines, NEW c \in {0} \cup Batches, run'[q].reply = c, c # 0
      PROVE  Settled(c)'
  <2>1. CASE q = w
    BY <1>4, <1>5, <1>7, <2>1
  <2>2. CASE q # w
    <3>1. run[q].reply = c
      BY <1>5, <1>7, <2>2
    <3>2. Settled(c)
      BY <1>7, <3>1 DEF AnswerOK
    <3>3. QED
      BY <1>4, <1>7, <3>2
  <2>3. QED
    BY <2>1, <2>2
<1>8. \A q \in Goroutines : run'[q].reply \in {0} \cup Batches
  BY <1>2, <1>5, <1>6
<1>9. QED
  BY <1>7, <1>8 DEF AnswerOK, Settled

LEMMA AnswerRetry ==
  ASSUME BatchInv, AnswerOK, Retrying
  PROVE  AnswerOK'
<1>1. /\ BatchTypeOK /\ RunOK(RetryLoop) /\ RetryLoop \in Goroutines
      /\ run \in [Goroutines -> Run] /\ batches \in [Batches -> Batch]
      /\ run[RetryLoop] \in Run
  BY LoopIsNoWorker DEF BatchInv, BatchTypeOK
<1>2. CASE Tick
  <2>1. \A q \in Goroutines : run'[q].reply = run[q].reply
    BY <1>1, <1>2 DEF Tick, Run
  <2>2. QED
    BY <1>2, <2>1, SameAnswers DEF Tick, Settled
<1>3. ASSUME NEW b \in Batches, RetryOutstanding(b)
      PROVE  AnswerOK'
  <2>1. \A q \in Goroutines : run'[q].reply = run[q].reply
    BY <1>1, <1>3 DEF RetryOutstanding, Run
  <2>2. QED
    BY <1>3, <2>1, SameAnswers DEF RetryOutstanding, Settled
<1>4. CASE FinishRetry
  <2>1. PICK b \in Batches : run[RetryLoop].batch = b
    BY <1>1, <1>4 DEF FinishRetry, RunOK, BatchTypeOK, Run
  <2>2. \/ batches' = batches /\ retryQueue' = retryQueue
        \/ /\ batches' = [batches EXCEPT ![b].state = "done"]
           /\ retryQueue' = retryQueue \ {b}
    BY <1>4, <2>1 DEF FinishRetry, MarkDone
  <2>3. \A c \in Batches : Settled(c) => Settled(c)'
    BY <1>1, <2>2 DEF Settled, Batch
  <2>4. \A q \in Goroutines : run'[q].reply \in {0, run[q].reply}
    <3>1. PICK pending \in SUBSET Batches : run[RetryLoop].pending = pending
      BY <1>1 DEF Run
    <3> DEFINE r == IF pending = {} THEN Idle
                    ELSE [Idle EXCEPT !.pc = "visit", !.pending = pending]
    <3>2. r.reply = 0
      BY IdleFacts
    <3>3. run' = [run EXCEPT ![RetryLoop] = r]
      BY <1>4, <3>1 DEF FinishRetry
    <3> HIDE DEF r
    <3>4. QED
      BY <1>1, <3>2, <3>3
  <2>5. QED
    BY <2>3, <2>4, SameAnswers
<1>5. QED
  BY <1>2, <1>3, <1>4, AnswerItem, LoopIsNoWorker DEF Retrying

LEMMA AnswerStep == BatchInv /\ AnswerOK /\ [Next]_vars => AnswerOK'
<1>1. SUFFICES ASSUME BatchInv, AnswerOK, [Next]_vars PROVE AnswerOK'
  OBVIOUS
<1>2. CASE UNCHANGED <<run, batches, retryQueue>>
  BY <1>1, <1>2 DEF AnswerOK, Settled
<1>3. CASE \E d \in Devices : Connect(d) \/ Disconnect(d)
  BY <1>2, <1>3 DEF Connect, Disconnect
<1>4. ASSUME NEW w \in Workers, NEW d \in Devices, ClientWrites(w, d)
      PROVE  AnswerOK'
  <2>1. \A q \in Goroutines : run'[q].reply = run[q].reply
    <3>1. run \in [Goroutines -> Run]
      BY <1>1 DEF BatchInv, BatchTypeOK
    <3>2. QED
      BY <1>4, <3>1 DEF ClientWrites, Issue, Run
  <2>2. QED
    BY <1>1, <1>4, <2>1, SameAnswers DEF ClientWrites, Settled
<1>5. ASSUME NEW w \in Workers, WriteAnswer(w)
      PROVE  AnswerOK'
  <2>1. \A q \in Goroutines : run'[q].reply \in {0, run[q].reply}
    <3>1. run \in [Goroutines -> Run]
      BY <1>1 DEF BatchInv, BatchTypeOK
    <3>2. QED
      BY <1>5, <3>1, IdleFacts DEF WriteAnswer
  <2>2. QED
    BY <1>1, <1>5, <2>1, SameAnswers DEF WriteAnswer, Settled
<1>6. ASSUME NEW w \in Workers, FinishBatch(w)
      PROVE  AnswerOK'
  BY <1>1, <1>6, AnswerFinish
<1>7. ASSUME NEW w \in Workers,
             \/ \E d \in Devices : ClientWrites(w, d)
             \/ \E items \in ItemLists : ApplyBatch(w, items)
             \/ Item(w)
             \/ FinishBatch(w) \/ WriteAnswer(w)
      PROVE  AnswerOK'
  BY <1>1, <1>4, <1>5, <1>6, <1>7, AnswerItem, AnswerApply, LoopIsNoWorker
<1>8. CASE Retrying
  BY <1>1, <1>8, AnswerRetry
<1>9. CASE UNCHANGED vars
  BY <1>2, <1>9 DEF vars
<1>10. QED
  BY <1>1, <1>3, <1>7, <1>8, <1>9 DEF Next

\* A *Batch has no lock, yet no two goroutines ever change one at a time, and a
\* batch that a request answers with is changed by nobody but the loop
\* (BatchService.ApplyBatch, RetryOutstanding, writeJSON).
THEOREM BatchesHaveOneWriter == Spec => []OneWriterPerBatch
<1>1. Init => AnswerOK
  <2>1. SUFFICES ASSUME Init, NEW p \in Goroutines PROVE run[p].reply = 0
    BY DEF AnswerOK
  <2>2. run[p] = Idle
    BY <2>1 DEF Init
  <2>3. QED
    BY <2>2, IdleFacts
<1>2. BatchInv /\ AnswerOK => OneWriterPerBatch
  <2>1. SUFFICES ASSUME BatchInv, AnswerOK, NEW b \in Batches
                 PROVE  /\ \A p, q \in Handled(b) : p = q
                        /\ Answering(b) # {} => Handled(b) \subseteq {RetryLoop}
    BY DEF OneWriterPerBatch
  <2>2. \A p, q \in Handled(b) : p = q
    BY <2>1, OneOwner DEF Handled, Batches
  <2>3. ASSUME NEW w \in Answering(b), NEW p \in Handled(b)
        PROVE  p = RetryLoop
    <3>1. Settled(b) /\ b # 0
      BY <2>1, <2>3, LoopIsNoWorker DEF AnswerOK, Answering, Batches
    <3>2. p \in Goroutines /\ run[p].batch = b /\ RunOK(p)
      BY <2>1, <2>3 DEF Handled, BatchInv
    <3>3. b \in retryQueue
      BY <3>1, <3>2 DEF Settled, RunOK
    <3>4. QED
      BY <2>1, <3>2, <3>3 DEF BatchInv, OwnerOK, Goroutines
  <2>4. QED
    BY <2>2, <2>3
<1>3. QED
  BY <1>1, <1>2, AnswerStep, BatchesConsistent, PTL DEF Spec

\* The batch of an item that has not reached its device is in the queue or
\* being worked on, and the item is written in this pass or the next one.
THEOREM NoItemIsForgotten == Spec => []UndeliveredIsRetried
<1>1. BatchInv => UndeliveredIsRetried
  <2>1. SUFFICES ASSUME BatchInv, NEW b \in Batches, NEW i \in Undelivered(b)
                 PROVE  /\ b \in retryQueue \/ Handled(b) # {}
                        /\ i \in Outstanding(b) \/ \E p \in Handled(b) : i \in run[p].todo
    BY DEF UndeliveredIsRetried
  <2>2. i \in Outstanding(b) \/ \E p \in Handled(b) : i \in run[p].todo
    BY <2>1 DEF BatchInv, RememberedOK
  <2>3. BatchOK(b) /\ BatchTypeOK
    BY <2>1 DEF BatchInv
  <2>4. b <= seq
    <3>1. ~(b > seq)
      BY <2>1, <2>3 DEF BatchOK, Undelivered, NewBatch
    <3>2. QED
      BY <2>3, <3>1 DEF BatchTypeOK, Batches
  <2>5. QED
    BY <2>1, <2>2, <2>3, <2>4 DEF BatchOK
<1>2. QED
  BY <1>1, BatchesConsistent, PTL

-----------------------------------------------------------------------------
(* The service implements BatchLedger.                                     *)

Closed == {b \in Batches : batches[b].state = "done"}
Places == [b \in Batches |-> DOMAIN batches[b].items]

\* A step that submits, delivers and closes nothing.
LEMMA LedgerStutter ==
  ASSUME UNCHANGED <<seq, delivered>>,
         \A b \in Batches : batches'[b].items = batches[b].items,
         \A b \in Batches : batches'[b].state = "done" <=> batches[b].state = "done"
  PROVE  UNCHANGED Ledger!ledger
<1>1. Closed' = Closed /\ Places' = Places
  BY DEF Closed, Places
<1>2. QED
  BY <1>1 DEF Ledger!ledger, Closed, Places

LEMMA LedgerSubmit ==
  ASSUME BatchInv, NEW w \in Workers, NEW items \in ItemLists, ApplyBatch(w, items)
  PROVE  Ledger!Next
<1>1. PICK b \in Batches : b = seq + 1
  BY BatchAssumption DEF BatchInv, BatchTypeOK, ApplyBatch, Batches
<1>2. seq' = b /\ batches' = [batches EXCEPT ![b] = NewBatch(items)]
      /\ delivered' = delivered
  BY <1>1 DEF ApplyBatch
<1>3. seq \in Nat /\ batches \in [Batches -> Batch] /\ batches[b] = NewBatch(<<>>)
  BY <1>1 DEF BatchInv, BatchTypeOK, BatchOK
<1>4. /\ NewBatch(items).items = items /\ NewBatch(items).state = "pending"
      /\ NewBatch(<<>>).state = "pending"
  BY DEF NewBatch
<1>5. Closed' = Closed
  BY <1>2, <1>3, <1>4 DEF Closed
<1>6. Places' = [Places EXCEPT ![b] = DOMAIN items]
  BY <1>2, <1>3, <1>4 DEF Places
<1>7. b \notin 1 .. seq /\ 1 .. seq' = (1 .. seq) \cup {b}
  BY <1>1, <1>2, <1>3 DEF Batches
<1>8. Ledger!Submit(b)
  BY <1>2, <1>5, <1>6, <1>7, ListFacts DEF Ledger!Submit, Closed, Places
<1>9. QED
  BY <1>8 DEF Ledger!Next

LEMMA LedgerDeliver ==
  ASSUME BatchInv, NEW p \in Goroutines, DeliverItem(p)
  PROVE  Ledger!Next
<1>1. PICK b \in Batches, i \in 1 .. MaxItems :
        /\ run[p].batch = b /\ run[p].write.item = i
        /\ b <= seq /\ batches[b].state # "done" /\ i \in DOMAIN batches[b].items
  BY DeliverFacts DEF DeliverItem
<1>2. /\ delivered' = [delivered EXCEPT ![b] = @ \cup {i}]
      /\ seq' = seq /\ batches' = batches
  BY <1>1 DEF DeliverItem
<1>3. b \in (1 .. seq) \ Closed /\ i \in Places[b]
  BY <1>1 DEF Closed, Places, Batches, BatchInv, BatchTypeOK
<1>4. Closed' = Closed /\ Places' = Places
  BY <1>2 DEF Closed, Places
<1>5. Ledger!Deliver(b, i)
  BY <1>2, <1>3, <1>4 DEF Ledger!Deliver, Closed, Places
<1>6. QED
  BY <1>5 DEF Ledger!Next

\* What FinishBatch and FinishRetry do to the batch they let go of.
LEMMA LedgerClose ==
  ASSUME BatchInv, BatchInv', NEW b \in Batches, b <= seq,
         UNCHANGED <<seq, delivered>>,
         \A c \in Batches : batches'[c].items = batches[c].items,
         \A c \in Batches : c # b => batches'[c] = batches[c],
         batches[b].state # "done"
  PROVE  [Ledger!Next]_(Ledger!ledger)
<1>1. CASE batches'[b].state # "done"
  BY <1>1, LedgerStutter
<1>2. CASE batches'[b].state = "done"
  <2>1. delivered[b] = DOMAIN batches[b].items
    <3>1. BatchOK(b)'
      BY DEF BatchInv
    <3>2. QED
      BY <1>2, <3>1 DEF BatchOK, Undelivered
  <2>2. Closed' = Closed \cup {b} /\ Places' = Places
    BY <1>2 DEF Closed, Places
  <2>3. b \in (1 .. seq) \ Closed /\ delivered[b] = Places[b]
    BY <2>1 DEF Closed, Places, Batches, BatchInv, BatchTypeOK
  <2>4. Ledger!Close(b)
    BY <2>2, <2>3 DEF Ledger!Close, Closed, Places
  <2>5. QED
    BY <2>4 DEF Ledger!Next
<1>3. QED
  BY <1>1, <1>2

LEMMA LedgerStep == BatchInv /\ [Next]_vars => [Ledger!Next]_(Ledger!ledger)
<1>1. SUFFICES ASSUME BatchInv, [Next]_vars PROVE [Ledger!Next]_(Ledger!ledger)
  OBVIOUS
<1>2. BatchInv' /\ BatchTypeOK /\ \A p \in Goroutines : RunOK(p)
  BY <1>1, InvStep DEF BatchInv
<1>3. CASE UNCHANGED <<seq, batches, delivered>>
  BY <1>3, LedgerStutter
<1>4. ASSUME NEW p \in Goroutines, Item(p) PROVE [Ledger!Next]_(Ledger!ledger)
  <2>1. CASE WriteItem(p) \/ Commit(p)
    BY <1>3, <2>1 DEF WriteItem, Commit
  <2>2. CASE DeliverItem(p)
    BY <1>1, <2>2, LedgerDeliver
  <2>3. CASE FailItem(p)
    <3>1. PICK b \in Batches : run[p].batch = b /\ batches[b].state # "done"
      BY <1>1, <2>3, DeliverFacts DEF FailItem
    <3>2. batches \in [Batches -> Batch]
      BY <1>2 DEF BatchTypeOK
    <3>3. /\ UNCHANGED <<seq, delivered>>
          /\ batches' = [batches EXCEPT ![b].failed = @ \cup {run[p].device},
                                        ![b].state = "partial"]
      BY <2>3, <3>1 DEF FailItem, MarkPartial
    <3>4. /\ \A c \in Batches : batches'[c].items = batches[c].items
          /\ \A c \in Batches : c # b => batches'[c] = batches[c]
          /\ batches'[b].state = "partial"
      BY <3>2, <3>3 DEF Batch
    <3>5. QED
      BY <3>1, <3>3, <3>4, LedgerStutter
  <2>4. QED
    BY <1>4, <2>1, <2>2, <2>3 DEF Item
<1>5. ASSUME NEW p \in Goroutines, NEW b \in Batches, run[p].batch = b,
             UNCHANGED <<seq, delivered>>,
             batches' = batches \/ MarkDone(b)
      PROVE  [Ledger!Next]_(Ledger!ledger)
  <2>1. CASE batches' = batches
    BY <1>3, <1>5, <2>1
  <2>2. CASE MarkDone(b)
    <3>1. batches \in [Batches -> Batch]
      BY <1>2 DEF BatchTypeOK
    <3>2. /\ \A c \in Batches : batches'[c].items = batches[c].items
          /\ \A c \in Batches : c # b => batches'[c] = batches[c]
      BY <2>2, <3>1 DEF MarkDone, Batch
    <3>3. b <= seq /\ batches[b].state # "done"
      BY <1>2, <1>5 DEF RunOK, Batches
    <3>4. QED
      BY <1>1, <1>2, <1>5, <3>2, <3>3, LedgerClose
  <2>3. QED
    BY <1>5, <2>1, <2>2
<1>6. ASSUME NEW p \in Goroutines, run[p].pc = "next"
      PROVE  run[p].batch \in Batches
  BY <1>2, <1>6, WorkFacts DEF RunOK
<1>7. CASE \E d \in Devices : Connect(d) \/ Disconnect(d)
  BY <1>3, <1>7 DEF Connect, Disconnect
<1>8. ASSUME NEW w \in Workers,
             \/ \E d \in Devices : ClientWrites(w, d)
             \/ \E items \in ItemLists : ApplyBatch(w, items)
             \/ Item(w)
             \/ FinishBatch(w) \/ WriteAnswer(w)
      PROVE  [Ledger!Next]_(Ledger!ledger)
  <2>1. CASE \E d \in Devices : ClientWrites(w, d)
    BY <1>3, <2>1 DEF ClientWrites
  <2>2. CASE \E items \in ItemLists : ApplyBatch(w, items)
    BY <1>1, <2>2, LedgerSubmit
  <2>3. CASE FinishBatch(w)
    <3>1. run[w].batch \in Batches /\ w \in Goroutines
      BY <1>6, <2>3, LoopIsNoWorker DEF FinishBatch
    <3>2. UNCHANGED <<seq, delivered>> /\ (batches' = batches \/ MarkDone(run[w].batch))
      BY <2>3 DEF FinishBatch
    <3>3. QED
      BY <1>5, <3>1, <3>2
  <2>4. CASE WriteAnswer(w)
    BY <1>3, <2>4 DEF WriteAnswer
  <2>5. QED
    BY <1>4, <1>8, <2>1, <2>2, <2>3, <2>4, LoopIsNoWorker
<1>9. CASE Retrying
  <2>1. CASE Tick \/ \E b \in Batches : RetryOutstanding(b)
    BY <1>3, <2>1 DEF Tick, RetryOutstanding
  <2>2. CASE FinishRetry
    <3>1. run[RetryLoop].batch \in Batches
      BY <1>6, <2>2, LoopIsNoWorker DEF FinishRetry
    <3>2. UNCHANGED <<seq, delivered>>
          /\ (batches' = batches \/ MarkDone(run[RetryLoop].batch))
      BY <2>2 DEF FinishRetry
    <3>3. QED
      BY <1>5, <3>1, <3>2, LoopIsNoWorker
  <2>3. QED
    BY <1>4, <1>9, <2>1, <2>2, LoopIsNoWorker DEF Retrying
<1>10. CASE UNCHANGED vars
  BY <1>3, <1>10 DEF vars
<1>11. QED
  BY <1>1, <1>7, <1>8, <1>9, <1>10 DEF Next

\* The service keeps the promise of BatchLedger: a batch is reported as done
\* only after each of its items reached its device.
THEOREM ServiceImplementsLedger == Spec => ImplementsLedger
<1>1. Init => Ledger!Init
  <2>1. SUFFICES ASSUME Init PROVE Ledger!Init
    OBVIOUS
  <2>2. 1 .. seq = {}
    BY <2>1 DEF Init
  <2>3. Closed = {} /\ Places = [b \in Batches |-> {}]
    BY <2>1 DEF Init, Closed, Places, NewBatch
  <2>4. delivered = [b \in Batches |-> {}]
    BY <2>1 DEF Init
  <2>5. QED
    BY <2>2, <2>3, <2>4 DEF Ledger!Init, Closed, Places
<1>2. BatchInv /\ [Next]_vars => [Ledger!Next]_(Ledger!ledger)
  BY LedgerStep
<1>3. QED
  BY <1>1, <1>2, BatchesConsistent, PTL DEF Spec, ImplementsLedger, Ledger!Spec
=============================================================================
