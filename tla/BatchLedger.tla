---------------------------- MODULE BatchLedger ----------------------------
(***************************************************************************)
(* What a batch of desired writes promises, whatever devices, requests and *)
(* retries do: its items are delivered one by one, in any order and maybe  *)
(* more than once, and it is closed only after every one of them was.      *)
(***************************************************************************)
EXTENDS Integers

CONSTANTS Batches, MaxItems

VARIABLES
  submitted,  \* the batches clients asked for
  items,      \* the items of each of them, by their place
  delivered,  \* those that reached their device
  closed      \* the batches reported as done

ledger == <<submitted, items, delivered, closed>>

Init ==
  /\ submitted = {} /\ closed = {}
  /\ items = [b \in Batches |-> {}]
  /\ delivered = [b \in Batches |-> {}]

Submit(b) ==
  /\ b \notin submitted
  /\ submitted' = submitted \cup {b}
  /\ \E places \in SUBSET (1 .. MaxItems) : items' = [items EXCEPT ![b] = places]
  /\ UNCHANGED <<delivered, closed>>

Deliver(b, i) ==
  /\ b \in submitted \ closed /\ i \in items[b]
  /\ delivered' = [delivered EXCEPT ![b] = @ \cup {i}]
  /\ UNCHANGED <<submitted, items, closed>>

Close(b) ==
  /\ b \in submitted \ closed
  /\ delivered[b] = items[b]
  /\ closed' = closed \cup {b}
  /\ UNCHANGED <<submitted, items, delivered>>

Next ==
  \E b \in Batches :
    Submit(b) \/ Close(b) \/ \E i \in 1 .. MaxItems : Deliver(b, i)

Spec == Init /\ [][Next]_ledger

=============================================================================
