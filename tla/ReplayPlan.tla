----------------------------- MODULE ReplayPlan -----------------------------
(***************************************************************************)
(* The plan of a reconciliation (sync.ReplayPlan): what Service.Reconcile  *)
(* would replay to a device, out of its offline cache and of the history.  *)
(* No handler calls Reconcile, which is why it is not a step of DeviceSync *)
(* and its plan is computed for every state that the program does reach.   *)
(***************************************************************************)
EXTENDS DeviceSync

AddAlways(plan, op) == Append(plan, op)

\* ReplayPlan.add: the first operation of a version wins.
Add(plan, op) ==
  IF \E i \in DOMAIN plan : plan[i].version = op.version
  THEN plan ELSE Append(plan, op)

AddEach(plan, ops) ==
  LET added[i \in 0 .. Len(ops)] ==
        IF i = 0 THEN plan ELSE Add(added[i - 1], ops[i])
  IN added[Len(ops)]

NewReplayPlan(cached, online) == AddEach(AddEach(<<>>, cached), online)

\* The operations of Service.Reconcile.
Cached(d) == cache[d]
Resumed(d) == ListDesiredSince(d, lastDelivered[d])
Reconcile(d) == NewReplayPlan(Cached(d), Resumed(d))

\* The plan, defined by what it is for: of all operations, cached ones first,
\* those that no earlier one has the version of, in the same order.
FirstOfVersion(ops) ==
  At(ops, {i \in DOMAIN ops :
             \A j \in DOMAIN ops : ops[j].version = ops[i].version => i <= j})

\* "Merges the offline cache replay and the online watermark resume into a
\* single list without delivering any version twice", and "Cached ops win on
\* equal versions" (replay.go), whatever is cached and recorded at the time.
PlanHasEachVersionOnce ==
  \A d \in Devices : Reconcile(d) = FirstOfVersion(Cached(d) \o Resumed(d))

=============================================================================
