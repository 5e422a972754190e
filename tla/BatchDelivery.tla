--------------------------- MODULE BatchDelivery ---------------------------
(***************************************************************************)
(* Batches of desired writes and their retry (desired.BatchService,        *)
(* model.Batch, retryLoop).  A request goroutine writes and delivers the   *)
(* items of its batch one after the other; when one did not reach its      *)
(* device the batch is put into the retry queue, and the one retry loop of *)
(* the process, woken by a ticker, goes through the queue again and again. *)
(* Other clients write to the same devices, which come and go.             *)
(*                                                                         *)
(* Versions are only compared, so their order is kept and not their value: *)
(* newer[d] lists the goroutines that hold a version of device d newer     *)
(* than its stored one, oldest first.  What else a write does to a shadow, *)
(* marking it stale included, is in ShadowStore, and what a delivery does  *)
(* to a device in DeviceSync.                                              *)
(***************************************************************************)
EXTENDS Integers, Sequences

CONSTANTS
  Devices,
  NoDevice,     \* the device of a goroutine that writes to none
  Workers,      \* request goroutines
  RetryLoop,    \* the goroutine of retryLoop
  MaxBatches,   \* bound: batches submitted
  MaxItems,     \* bound: items of a batch
  ItemLists     \* the devices of the items, for every batch clients submit

ASSUME BatchAssumption ==
  /\ NoDevice \notin Devices
  /\ RetryLoop \notin Workers
  /\ MaxBatches \in Nat /\ MaxItems \in Nat
  /\ ItemLists \subseteq UNION {[1 .. n -> Devices] : n \in 0 .. MaxItems}

VARIABLES
  online,      \* the devices that are registered and online
  seq,         \* BatchService.seq: the id of the last batch
  batches,     \* the batches, by their ids
  retryQueue,  \* the keys of BatchService.retryQueue
  run,         \* the local variables of each goroutine
  newer,       \* see above
  desired,     \* the write in the desired section of each shadow
  delivered    \* history variable: the items of each batch its device received

vars == <<online, seq, batches, retryQueue, run, newer, desired, delivered>>

Goroutines == Workers \cup {RetryLoop}
Batches == 1 .. MaxBatches

\* An item is the device it is for: its payload is named by its batch and its
\* place in it.  Failed is only ever asked which devices it contains; Applied
\* and RetryRemaining are only displayed.
Batch == [items: ItemLists \cup {<<>>}, failed: SUBSET Devices,
          state: {"pending", "partial", "done"}]

NewBatch(items) == [items |-> items, state |-> "pending", failed |-> {}]

\* batch 0 stands for the writes that are no item of a batch.
Write == [batch: {0} \cup Batches, item: 0 .. MaxItems]
ClientWrite == [batch |-> 0, item |-> 0]

\* batch is the one the goroutine changes, and reply the one that a request has
\* still to encode into its answer; todo are the items not yet delivered or failed
\* in this pass, write and device the one under way; again is failedAgain, and
\* pending what the loop has still to visit of the ids that PendingBatches gave it.
Run == [pc: {"idle", "visit", "next", "commit", "deliver", "answer"},
        batch: {0} \cup Batches, reply: {0} \cup Batches,
        todo: SUBSET (1 .. MaxItems),
        write: Write, device: Devices \cup {NoDevice},
        again: BOOLEAN, pending: SUBSET Batches]

Idle == [pc |-> "idle", batch |-> 0, reply |-> 0, todo |-> {},
         write |-> ClientWrite, device |-> NoDevice, again |-> FALSE,
         pending |-> {}]

Init ==
  /\ online = {}
  /\ seq = 0
  /\ batches = [b \in Batches |-> NewBatch(<<>>)]
  /\ retryQueue = {}
  /\ run = [p \in Goroutines |-> Idle]
  /\ newer = [d \in Devices |-> <<>>]
  /\ desired = [d \in Devices |-> ClientWrite]
  /\ delivered = [b \in Batches |-> {}]

-----------------------------------------------------------------------------
(* The devices, and the other clients.                                     *)

\* Register, or a reconnect.
Connect(d) ==
  /\ d \notin online
  /\ online' = online \cup {d}
  /\ UNCHANGED <<seq, batches, retryQueue, run, newer, desired, delivered>>

Disconnect(d) ==
  /\ d \in online
  /\ online' = online \ {d}
  /\ UNCHANGED <<seq, batches, retryQueue, run, newer, desired, delivered>>

\* VersionAllocator.Next: the version issued last is the newest.
Issue(p, d, write) ==
  /\ newer' = [newer EXCEPT ![d] = Append(@, p)]
  /\ run' = [run EXCEPT ![p].pc = "commit", ![p].device = d, ![p].write = write]

\* Service.ApplyDesired or ApplyTransactional up to the allocated version.
ClientWrites(w, d) ==
  /\ run[w].pc = "idle"
  /\ Issue(w, d, ClientWrite)
  /\ UNCHANGED <<online, seq, batches, retryQueue, desired, delivered>>

-----------------------------------------------------------------------------
(* One item, the same in ApplyBatch and in RetryOutstanding.               *)

WriteItem(p) ==
  /\ run[p].pc = "next"
  /\ \E i \in run[p].todo :
       /\ \A j \in run[p].todo : i <= j
       /\ Issue(p, batches[run[p].batch].items[i],
                [batch |-> run[p].batch, item |-> i])
  /\ UNCHANGED <<online, seq, batches, retryQueue, desired, delivered>>

\* Store.ApplyDesired: a write that is no longer newer than the stored one
\* loses; one that wins leaves only those behind it newer.
Commit(p) ==
  LET d == run[p].device IN
  /\ run[p].pc = "commit"
  /\ IF \E n \in DOMAIN newer[d] : newer[d][n] = p
     THEN \E n \in DOMAIN newer[d] :
            /\ newer[d][n] = p
            /\ desired' = [desired EXCEPT ![d] = run[p].write]
            /\ newer' = [newer EXCEPT ![d] = SubSeq(@, n + 1, Len(@))]
     ELSE UNCHANGED <<desired, newer>>
  /\ run' = [run EXCEPT ![p] = IF @.batch = 0 THEN Idle
                                              ELSE [@ EXCEPT !.pc = "deliver"]]
  /\ UNCHANGED <<online, seq, batches, retryQueue, delivered>>

SettleForgetting(p, failed) ==
  run' = [run EXCEPT ![p].pc = "next", ![p].todo = @ \ {run[p].write.item},
                     ![p].write = ClientWrite, ![p].device = NoDevice,
                     ![p].again = failed]

\* The item under way is settled, and the next one follows.
Settle(p, failed) ==
  run' = [run EXCEPT ![p].pc = "next", ![p].todo = @ \ {run[p].write.item},
                     ![p].write = ClientWrite, ![p].device = NoDevice,
                     ![p].again = @ \/ failed]

\* Deliver reached the device: RecordApplied.
DeliverItem(p) ==
  /\ run[p].pc = "deliver" /\ run[p].device \in online
  /\ delivered' = [delivered EXCEPT ![run[p].batch] = @ \cup {run[p].write.item}]
  /\ Settle(p, FALSE)
  /\ UNCHANGED <<online, seq, batches, retryQueue, newer, desired>>

MarkPartialAndQueue(b, d) ==
  /\ batches' = [batches EXCEPT ![b].failed = @ \cup {d}, ![b].state = "partial"]
  /\ retryQueue' = retryQueue \cup {b}

MarkPartialLastOnly(b, d) ==
  /\ batches' = [batches EXCEPT ![b].failed = {d}, ![b].state = "partial"]
  /\ UNCHANGED retryQueue

MarkPartial(b, d) ==
  /\ batches' = [batches EXCEPT ![b].failed = @ \cup {d}, ![b].state = "partial"]
  /\ UNCHANGED retryQueue

\* Deliver did not.
FailItem(p) ==
  /\ run[p].pc = "deliver" /\ run[p].device \notin online
  /\ MarkPartial(run[p].batch, run[p].device)
  /\ Settle(p, TRUE)
  /\ UNCHANGED <<online, seq, newer, desired, delivered>>

-----------------------------------------------------------------------------
(* BatchService.ApplyBatch.                                                *)

ApplyBatch(w, items) ==
  /\ run[w].pc = "idle" /\ seq < MaxBatches
  /\ seq' = seq + 1
  /\ batches' = [batches EXCEPT ![seq + 1] = NewBatch(items)]
  /\ run' = [run EXCEPT ![w].pc = "next", ![w].batch = seq + 1,
                        ![w].todo = DOMAIN items]
  /\ UNCHANGED <<online, retryQueue, newer, desired, delivered>>

MarkDone(b) == batches' = [batches EXCEPT ![b].state = "done"]

\* After the last item the batch is queued, or done.  The request has changed it
\* for the last time, but it still holds the pointer that it answers with.
FinishBatch(w) ==
  LET b == run[w].batch IN
  /\ run[w].pc = "next" /\ run[w].todo = {}
  /\ IF batches[b].state = "partial"
     THEN retryQueue' = retryQueue \cup {b} /\ UNCHANGED batches
     ELSE MarkDone(b) /\ UNCHANGED retryQueue
  /\ run' = [run EXCEPT ![w] = [Idle EXCEPT !.pc = "answer", !.reply = b]]
  /\ UNCHANGED <<online, seq, newer, desired, delivered>>

\* writeJSON encodes the batch, which the loop may be changing by now.  What the
\* client reads is left out: nothing but the answer depends on it.
WriteAnswer(w) ==
  /\ run[w].pc = "answer"
  /\ run' = [run EXCEPT ![w] = Idle]
  /\ UNCHANGED <<online, seq, batches, retryQueue, newer, desired, delivered>>

-----------------------------------------------------------------------------
(* retryLoop and BatchService.RetryOutstanding.                            *)

FirstBatch == {b \in retryQueue : \A c \in retryQueue : b <= c}

\* PendingBatches: the ids in any order (a Go map).
PendingBatches == retryQueue

\* The ticker fires.
Tick ==
  /\ run[RetryLoop].pc = "idle" /\ retryQueue # {}
  /\ run' = [run EXCEPT ![RetryLoop].pc = "visit",
                        ![RetryLoop].pending = PendingBatches]
  /\ UNCHANGED <<online, seq, batches, retryQueue, newer, desired, delivered>>

OutstandingDevices(b) == batches[b].failed

Outstanding(b) ==
  {i \in DOMAIN batches[b].items : batches[b].items[i] \in batches[b].failed}

RetryOutstanding(b) ==
  /\ run[RetryLoop].pc = "visit" /\ b \in run[RetryLoop].pending
  /\ b \in retryQueue
  /\ run' = [run EXCEPT ![RetryLoop].pc = "next", ![RetryLoop].batch = b,
                        ![RetryLoop].todo = Outstanding(b),
                        ![RetryLoop].again = FALSE,
                        ![RetryLoop].pending = @ \ {b}]
  /\ UNCHANGED <<online, seq, batches, retryQueue, newer, desired, delivered>>

\* Without a failure in this pass the batch leaves the queue and is done.
\* Nobody else removes a batch, so every id is still in the queue when visited.
FinishRetry ==
  LET r == run[RetryLoop] IN
  /\ r.pc = "next" /\ r.todo = {}
  /\ IF r.again
     THEN UNCHANGED <<batches, retryQueue>>
     ELSE retryQueue' = retryQueue \ {r.batch} /\ MarkDone(r.batch)
  /\ run' = [run EXCEPT
       ![RetryLoop] = IF r.pending = {} THEN Idle
                      ELSE [Idle EXCEPT !.pc = "visit", !.pending = r.pending]]
  /\ UNCHANGED <<online, seq, newer, desired, delivered>>

-----------------------------------------------------------------------------
Item(p) == WriteItem(p) \/ Commit(p) \/ DeliverItem(p) \/ FailItem(p)

Retrying ==
  \/ Tick
  \/ \E b \in Batches : RetryOutstanding(b)
  \/ Item(RetryLoop)
  \/ FinishRetry

Next ==
  \/ \E d \in Devices : Connect(d) \/ Disconnect(d)
  \/ \E w \in Workers :
       \/ \E d \in Devices : ClientWrites(w, d)
       \/ \E items \in ItemLists : ApplyBatch(w, items)
       \/ Item(w)
       \/ FinishBatch(w) \/ WriteAnswer(w)
  \/ Retrying

\* The Go scheduler runs every goroutine that can run, and the ticker fires.  An
\* answer may wait for its client for ever.
Fairness ==
  /\ WF_vars(Retrying)
  /\ \A w \in Workers : WF_vars(Item(w) \/ FinishBatch(w))

Spec == Init /\ [][Next]_vars /\ Fairness

-----------------------------------------------------------------------------
(* Properties.                                                             *)

BatchTypeOK ==
  /\ online \subseteq Devices
  /\ seq \in 0 .. MaxBatches
  /\ batches \in [Batches -> Batch]
  /\ retryQueue \subseteq Batches
  /\ run \in [Goroutines -> Run]
  /\ newer \in [Devices -> Seq(Goroutines)]
  /\ desired \in [Devices -> Write]
  /\ delivered \in [Batches -> SUBSET (1 .. MaxItems)]

Handled(b) == {p \in Goroutines : run[p].batch = b}
Undelivered(b) == DOMAIN batches[b].items \ delivered[b]

\* The requests that have still to encode a batch into their answers.
Answering(b) == {w \in Workers : run[w].reply = b}

\* A *Batch has no lock, and yet only one goroutine changes it at a time: the loop
\* leaves it alone until its request has put it into the queue, and its request
\* changes it no more from then on (BatchService.ApplyBatch, RetryOutstanding).
\* The request does read it once more, for its answer, while the loop may be
\* changing it; nobody else changes a batch that is being answered with.
OneWriterPerBatch ==
  \A b \in Batches :
    /\ \A p, q \in Handled(b) : p = q
    /\ Answering(b) # {} => Handled(b) \subseteq {RetryLoop}

\* "The outstanding items are scheduled for retry" (ApplyBatch): the batch of
\* an item that has not reached its device is in the queue or being worked on,
\* and this pass or the next one writes the item.
UndeliveredIsRetried ==
  \A b \in Batches : \A i \in Undelivered(b) :
    /\ b \in retryQueue \/ Handled(b) # {}
    /\ i \in Outstanding(b) \/ \E p \in Handled(b) : i \in run[p].todo

\* A batch whose devices come online and stay there is done at some point,
\* whatever happens to other batches and their devices (retryLoop).
Reachable(b) ==
  \A i \in DOMAIN batches[b].items : batches[b].items[i] \in online

ReachableBatchIsDone ==
  \A b \in Batches :
    <>[]Reachable(b) => (b <= seq ~> batches[b].state = "done")

\* "Outstanding returns the items that still need delivery" (model/batch.go):
\* a retry does not write an item again that reached its device, over whatever
\* was written to that device since.
DeliveredIsNotWrittenAgain ==
  [][\A d \in Devices :
       LET write == desired'[d] IN
       write # desired[d] /\ write.batch # 0
         => write.item \notin delivered[write.batch]]_vars

-----------------------------------------------------------------------------
\* The service keeps the promise of BatchLedger: a batch is reported as done
\* only after each of its items reached its device, and is not touched again.
Ledger == INSTANCE BatchLedger WITH
  submitted <- 1 .. seq,
  items     <- [b \in Batches |-> DOMAIN batches[b].items],
  closed    <- {b \in Batches : batches[b].state = "done"}

ImplementsLedger == Ledger!Spec

=============================================================================
