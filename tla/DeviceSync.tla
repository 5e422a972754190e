---------------------------- MODULE DeviceSync ----------------------------
(***************************************************************************)
(* The device side (internal/device, internal/sync) on top of the store:   *)
(* what ShadowStore leaves to a free choice, whether a desired write       *)
(* reaches its device, is decided here by the registry, and a reconnecting *)
(* device is sent the writes it missed, which are read from the history.   *)
(*                                                                         *)
(* A device handle is shared by every goroutine without a lock: reading    *)
(* its flag, comparing its watermark and writing it are separate steps.    *)
(***************************************************************************)
EXTENDS ShadowStore

CONSTANT MaxReconnects   \* bound: reconnects of one device

ASSUME SyncAssumption == MaxReconnects \in Nat

VARIABLES
  status,         \* Registry.devices and Device.Online, see Status
  lastDelivered,  \* Device.LastDelivered
  cache,          \* OfflineCache.ops
  push,           \* the local variables of each worker in sync.Service
  received,       \* history variable: the operations pushed to each device
  reconnects      \* counts what MaxReconnects bounds

deviceVars == <<status, lastDelivered, cache, received, reconnects>>
allVars == <<vars, deviceVars, push>>

\* Register puts a device online; so does a reconnect, which also resumes it.
Status == {"unknown", "registered", "offline", "reconnected"}
Online(d) == status[d] \in {"registered", "reconnected"}

Op == [version: Nat, props: Nat]

\* op is the operation being delivered, ops what a resume has still to replay.
Push == [pc: {"none", "compare", "mark", "start", "list", "replay",
              "version", "emit", "record"},
         device: Devices \cup {NoDevice}, op: Op, ops: Seq(Op), start: Nat,
         event: Event]

NoOp == [version |-> 0, props |-> 0]
NoPush == [pc |-> "none", device |-> NoDevice, op |-> NoOp, ops |-> <<>>,
           start |-> 0, event |-> NoEvent]

SyncInit ==
  /\ Init
  /\ status = [d \in Devices |-> "unknown"]
  /\ lastDelivered = [d \in Devices |-> 0]
  /\ cache = [d \in Devices |-> <<>>]
  /\ push = [w \in Workers |-> NoPush]
  /\ received = [d \in Devices |-> {}]
  /\ reconnects = [d \in Devices |-> 0]

-----------------------------------------------------------------------------
(* The registry.                                                           *)

Register(d) ==
  /\ status[d] = "unknown"
  /\ status' = [status EXCEPT ![d] = "registered"]
  /\ UNCHANGED <<vars, lastDelivered, cache, push, received, reconnects>>

\* handleOffline.
Disconnect(d) ==
  /\ Online(d)
  /\ status' = [status EXCEPT ![d] = "offline"]
  /\ UNCHANGED <<vars, lastDelivered, cache, push, received, reconnects>>

-----------------------------------------------------------------------------
(* sync.Service.Deliver, for the request of the worker itself or for the   *)
(* next operation of the resume it is in.                                  *)

OwnDelivery(w) == task[w].pc = "deliver" /\ push[w].pc = "none"
Replay(w) == push[w].pc = "replay" /\ push[w].ops # <<>>

Target(w) == IF OwnDelivery(w) THEN task[w].device ELSE push[w].device
NextOp(w) ==
  IF OwnDelivery(w)
  THEN [version |-> task[w].version, props |-> task[w].props]
  ELSE Head(push[w].ops)

\* Deliver answers: a request goes on as the store describes, a resume takes
\* its next operation or, after a failed one, breaks off.
Answer(w, delivered) ==
  IF task[w].pc = "deliver"
  THEN /\ Deliver(w, delivered) \/ (delivered /\ DeliverAndMark(w))
       /\ push' = [push EXCEPT ![w] = NoPush]
  ELSE /\ push' = [push EXCEPT
            ![w].pc = IF delivered THEN "replay" ELSE "version",
            ![w].op = NoOp, ![w].ops = IF delivered THEN Tail(@) ELSE <<>>]
       /\ UNCHANGED vars

\* An unknown device receives nothing; an offline one has the write cached.
DeliverUnreached(w) ==
  /\ OwnDelivery(w) \/ Replay(w)
  /\ ~Online(Target(w))
  /\ cache' = IF status[Target(w)] = "unknown" THEN cache
              ELSE [cache EXCEPT ![Target(w)] = Append(@, NextOp(w))]
  /\ Answer(w, FALSE)
  /\ UNCHANGED <<status, lastDelivered, received, reconnects>>

DeliverOnline(w) ==
  /\ OwnDelivery(w) \/ Replay(w)
  /\ Online(Target(w))
  /\ push' = [push EXCEPT ![w].pc = "compare", ![w].device = Target(w),
                          ![w].op = NextOp(w)]
  /\ UNCHANGED <<vars, deviceVars>>

\* Device.MarkDelivered: the comparison, and then the assignment.
Received(w) ==
  received' = [received EXCEPT ![push[w].device] = @ \cup {push[w].op}]

CompareWatermark(w) ==
  LET d == push[w].device IN
  /\ push[w].pc = "compare"
  /\ IF push[w].op.version > lastDelivered[d]
     THEN /\ push' = [push EXCEPT ![w].pc = "mark"]
          /\ UNCHANGED <<vars, received>>
     ELSE Received(w) /\ Answer(w, TRUE)
  /\ UNCHANGED <<status, lastDelivered, cache, reconnects>>

MarkDelivered(w) ==
  /\ push[w].pc = "mark"
  /\ lastDelivered' = [lastDelivered EXCEPT
                         ![push[w].device] = push[w].op.version]
  /\ Received(w)
  /\ Answer(w, TRUE)
  /\ UNCHANGED <<status, cache, reconnects>>

-----------------------------------------------------------------------------
(* handleReconnect and sync.Service.Resume.                                *)

\* A reconnect of a device that was never registered does nothing.
Reconnect(w, d) ==
  /\ task[w].pc = "idle" /\ push[w].pc = "none"
  /\ status[d] # "unknown" /\ reconnects[d] < MaxReconnects
  /\ status' = [status EXCEPT ![d] = "reconnected"]
  /\ reconnects' = [reconnects EXCEPT ![d] = @ + 1]
  /\ push' = [push EXCEPT ![w] = [NoPush EXCEPT !.pc = "start", !.device = d]]
  /\ UNCHANGED <<vars, lastDelivered, cache, received>>

ResumeFromCache(d) ==
  IF cache[d] = <<>> THEN 0 ELSE cache[d][Len(cache[d])].version

\* Device.LastDelivered: what the device received last, not what was cached.
ResumeFrom(d) == lastDelivered[d]

ReadWatermark(w) ==
  /\ push[w].pc = "start"
  /\ push' = [push EXCEPT ![w].pc = "list",
                          ![w].start = ResumeFrom(push[w].device)]
  /\ UNCHANGED <<vars, deviceVars>>

\* The elements of a sequence at some of its positions, in order.
At(seq, positions) ==
  [n \in 1 .. Cardinality(positions) |->
     seq[CHOOSE i \in positions : Cardinality({j \in positions : j <= i}) = n]]

\* Store.ListDesiredSince: an operation carries the version of the event,
\* which is the watermark of the shadow and not the version of the write.
ListDesiredSince(d, watermark) ==
  LET log   == history[d]
      newer == At(log, {i \in DOMAIN log : /\ log[i].type = "desired"
                                           /\ log[i].version > watermark})
  IN [n \in DOMAIN newer |-> [version |-> newer[n].version,
                              props   |-> newer[n].snapshot.desired]]

List(w) ==
  /\ push[w].pc = "list"
  /\ push' = [push EXCEPT ![w].pc = "replay", ![w].start = 0,
                ![w].ops = ListDesiredSince(push[w].device, push[w].start)]
  /\ UNCHANGED <<vars, deviceVars>>

ReplayDoneSilently(w) ==
  /\ push[w].pc = "replay" /\ push[w].ops = <<>>
  /\ push' = [push EXCEPT ![w].pc = "none"]
  /\ UNCHANGED <<vars, deviceVars>>

ReplayDone(w) ==
  /\ push[w].pc = "replay" /\ push[w].ops = <<>>
  /\ push' = [push EXCEPT ![w].pc = "version"]
  /\ UNCHANGED <<vars, deviceVars>>

\* The event's version and its snapshot are read one after the other.
ReadVersion(w) ==
  /\ push[w].pc = "version"
  /\ push' = [push EXCEPT
       ![w].pc = "emit",
       ![w].event = [type |-> "reconnect", snapshot |-> Nil,
                     version |-> documents[push[w].device].version]]
  /\ UNCHANGED <<vars, deviceVars>>

\* Store.Publish: the commit hook, and then the history.
PublishEmit(w) ==
  LET d     == push[w].device
      event == [push[w].event EXCEPT !.snapshot = documents[d]]
  IN
  /\ push[w].pc = "emit"
  /\ onChange' = [onChange EXCEPT ![d] = event]
  /\ push' = [push EXCEPT ![w].pc = "record", ![w].event = event]
  /\ UNCHANGED <<next, storeVars, task, rolledBack, deviceVars>>

PublishRecord(w) ==
  /\ push[w].pc = "record"
  /\ history' = [history EXCEPT ![push[w].device] = Recorded(@, push[w].event)]
  /\ push' = [push EXCEPT ![w] = NoPush]
  /\ UNCHANGED <<next, documents, tombstones, onChange, task, rolledBack,
                 deviceVars>>

-----------------------------------------------------------------------------
\* The steps of ShadowStore, except that it does not choose who is reached.
StoreStep ==
  /\ \/ \E w \in Workers :
          /\ push[w].pc = "none"
          /\ Start(w) \/ (task[w].pc # "deliver" /\ Step(w))
     \/ GCTombstones
  /\ UNCHANGED <<deviceVars, push>>

SyncNext ==
  \/ StoreStep
  \/ \E d \in Devices : Register(d) \/ Disconnect(d)
  \/ \E w \in Workers :
       \/ DeliverUnreached(w) \/ DeliverOnline(w)
       \/ CompareWatermark(w) \/ MarkDelivered(w)
       \/ \E d \in Devices : Reconnect(w, d)
       \/ ReadWatermark(w) \/ List(w) \/ ReplayDone(w)
       \/ ReadVersion(w) \/ PublishEmit(w) \/ PublishRecord(w)

SyncSpec == SyncInit /\ [][SyncNext]_allVars

-----------------------------------------------------------------------------
(* Properties.                                                             *)

SyncTypeOK ==
  /\ TypeOK
  /\ status \in [Devices -> Status]
  /\ lastDelivered \in [Devices -> Nat]
  /\ cache \in [Devices -> Seq(Op)]
  /\ push \in [Workers -> Push]
  /\ \A w \in Workers :
       /\ push[w].pc = "none" <=> push[w] = NoPush
       /\ push[w].pc # "none" => push[w].device \in Devices
       /\ push[w].pc # "none" => task[w].pc \in {"idle", "deliver"}
  /\ received \in [Devices -> SUBSET Op]
  /\ reconnects \in [Devices -> 0 .. MaxReconnects]

Busy(d) ==
  \E w \in Workers : task[w].device = d \/ push[w].device = d

\* "Offline devices receive the op through the sync cache so the change is
\* delivered after reconnect" (desired.go): once a device that reconnected is
\* online and nothing is under way, it was sent the desired section of its
\* shadow, unless the history had to drop events.
ReachedAfterReconnect ==
  \A d \in Devices :
    /\ status[d] = "reconnected" /\ ~Busy(d)
    /\ Len(history[d]) < HistoryCap
    /\ documents[d].desired # 0
    => \E op \in received[d] : op.props = documents[d].desired

\* "Watermarks only move forward; a stale delivery can never roll the
\* watermark back" (Device.MarkDelivered).
WatermarkNeverRegresses ==
  [][\A d \in Devices : lastDelivered'[d] >= lastDelivered[d]]_allVars

=============================================================================
