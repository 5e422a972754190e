----------------------------- MODULE NotifyHub -----------------------------
(***************************************************************************)
(* The notification hub (internal/notify).  The store calls Notify after   *)
(* each commit, outside its lock; Notify marks the device as queued and    *)
(* starts a flush goroutine, which takes the mark, copies the channels,    *)
(* reads the current snapshot from the store and sends it to each of them. *)
(*                                                                         *)
(* Snapshots are numbered per device in the order the store commits them,  *)
(* those of a shadow that was deleted and built again included; 0 is none. *)
(* The snapshot Notify queues is never read back, so only the fact that    *)
(* the device is queued is kept.                                           *)
(***************************************************************************)
EXTENDS Integers, FiniteSets, Sequences

CONSTANTS
  Devices,
  NoDevice,     \* the device of a goroutine that is not running
  Flushers,     \* flush goroutines that can run at the same time
  Capacity,     \* capacity of a subscription channel
  MaxChanges,   \* bound: snapshots of one device
  MaxChannels   \* bound: subscriptions made

ASSUME HubAssumption ==
  /\ NoDevice \notin Devices
  /\ Capacity \in Nat /\ MaxChanges \in Nat /\ MaxChannels \in Nat

VARIABLES
  shadow,    \* the store's last snapshot of each device
  live,      \* the devices that have a shadow
  deleted,   \* the devices that have a tombstone
  events,    \* events committed whose hook has not run yet; equal ones are one
  queued,    \* the keys of Hub.queued
  subs,      \* Hub.subs: per device, subscriber number -> channel
  channels,  \* every channel ever made, in the order of the subscriptions
  flush,     \* the local variables of each flush goroutine
  panicked,  \* a send on a closed channel ends the process
  notified   \* history variable: the newest snapshot Notify was called with

vars == <<shadow, live, deleted, events, queued, subs, channels, flush, panicked,
          notified>>
hubVars == <<queued, subs, channels, flush, panicked, notified>>
storeVars == <<shadow, live, deleted, events>>

Event == [device: Devices, type: {"change", "reconnect", "delete"}, content: Nat]

(***************************************************************************)
(* buffered is the number of snapshots waiting in the channel, last the    *)
(* one put into it last.  owed is a history variable: Notify was called    *)
(* for the present shadow since the channel was subscribed, and the newest *)
(* snapshot notified, or a newer one, has neither been put into it nor     *)
(* been dropped because it was full.                                       *)
(***************************************************************************)
Channel == [device: Devices, open: BOOLEAN, buffered: 0 .. Capacity,
            last: Nat, owed: BOOLEAN]

Flush == [pc: {"idle", "scan", "read", "send"}, device: Devices \cup {NoDevice},
          targets: SUBSET Nat, content: Nat]

Idle == [pc |-> "idle", device |-> NoDevice, targets |-> {}, content |-> 0]

Newest(a, b) == IF a > b THEN a ELSE b
Registered(d) == {subs[d][id] : id \in DOMAIN subs[d]}

\* Store.Snapshot: the current snapshot, 0 without a shadow.
Snapshot(d) == IF d \in live THEN shadow[d] ELSE 0

\* The channels of device d, once nothing is owed to them or something is.
Owing(d, owed) ==
  [c \in DOMAIN channels |->
     IF c \in Registered(d) THEN [channels[c] EXCEPT !.owed = owed]
                            ELSE channels[c]]

Init ==
  /\ shadow = [d \in Devices |-> 0]
  /\ live = {}
  /\ deleted = {}
  /\ events = {}
  /\ queued = {}
  /\ subs = [d \in Devices |-> <<>>]
  /\ channels = <<>>
  /\ flush = [f \in Flushers |-> Idle]
  /\ panicked = FALSE
  /\ notified = [d \in Devices |-> 0]

-----------------------------------------------------------------------------
(* The store, as the hub sees it: see ShadowStore.                         *)

Emitted(d, type, content) ==
  events' = events \cup {[device |-> d, type |-> type, content |-> content]}

\* A report or a desired write, which builds the shadow when there is none and
\* no tombstone (Store.ensure).
Change(d) ==
  /\ d \notin deleted /\ shadow[d] < MaxChanges
  /\ shadow' = [shadow EXCEPT ![d] = @ + 1]
  /\ live' = live \cup {d}
  /\ Emitted(d, "change", shadow[d] + 1)
  /\ UNCHANGED <<deleted, hubVars>>

\* A rollback or a batch mark: the shadow changes and no event follows.
SilentChange(d) ==
  /\ d \in live /\ shadow[d] < MaxChanges
  /\ shadow' = [shadow EXCEPT ![d] = @ + 1]
  /\ UNCHANGED <<live, deleted, events, hubVars>>

\* Publish after a reconnect.  Without a shadow Notify ignores the event.
Reconnect(d) ==
  /\ d \in live
  /\ Emitted(d, "reconnect", shadow[d])
  /\ UNCHANGED <<shadow, live, deleted, hubVars>>

\* What was owed of the shadow is so no longer.
Delete(d) ==
  /\ live' = live \ {d}
  /\ deleted' = deleted \cup {d}
  /\ Emitted(d, "delete", 0)
  /\ channels' = Owing(d, FALSE)
  /\ UNCHANGED <<shadow, queued, subs, flush, panicked, notified>>

\* The tombstone has expired: the device can get a shadow again.
GCTombstones(d) ==
  /\ d \in deleted
  /\ deleted' = deleted \ {d}
  /\ UNCHANGED <<shadow, live, events, hubVars>>

-----------------------------------------------------------------------------
(* Hub.Notify, called by each committer in its own time.                   *)

\* The mark is dropped, and with it what it stood for: when the notification is
\* so late that the shadow was built again, that is the new shadow's change.
NotifyDelete(e) ==
  /\ e \in events /\ e.type = "delete"
  /\ events' = events \ {e}
  /\ queued' = queued \ {e.device}
  /\ channels' = Owing(e.device, FALSE)
  /\ UNCHANGED <<shadow, live, deleted, subs, flush, panicked, notified>>

Flushes(d) == {f \in Flushers : flush[f].device = d}

MarkedUnlessFlushed(d) == IF Flushes(d) = {} THEN queued \cup {d} ELSE queued

\* A device is marked whether or not it is being flushed already.
Marked(d) == queued \cup {d}

Notify(e, f) ==
  /\ e \in events /\ e.type # "delete"
  /\ flush[f].pc = "idle"
  /\ events' = events \ {e}
  /\ queued' = Marked(e.device)
  /\ channels' = IF e.device \in live THEN Owing(e.device, TRUE) ELSE channels
  /\ notified' = [notified EXCEPT ![e.device] = Newest(@, e.content)]
  /\ flush' = [flush EXCEPT ![f].pc = "scan", ![f].device = e.device]
  /\ UNCHANGED <<shadow, live, deleted, subs, panicked>>

-----------------------------------------------------------------------------
(* One pass of Hub.flush.                                                  *)

TakenNever(d) == queued
Taken(d) == queued \ {d}

\* Under Hub.mu: take the mark, copy the channels; without a mark, return.
Scan(f) ==
  LET d == flush[f].device IN
  /\ flush[f].pc = "scan"
  /\ queued' = Taken(d)
  /\ flush' = [flush EXCEPT
       ![f] = IF d \in queued
              THEN [@ EXCEPT !.pc = "read", !.targets = Registered(d)]
              ELSE Idle]
  /\ UNCHANGED <<storeVars, subs, channels, panicked, notified>>

\* A deleted shadow is skipped; without subscribers there is nothing to send.
Read(f) ==
  LET content == Snapshot(flush[f].device) IN
  /\ flush[f].pc = "read"
  /\ flush' = [flush EXCEPT
       ![f] = IF content = 0 \/ @.targets = {}
              THEN [@ EXCEPT !.pc = "scan", !.targets = {}]
              ELSE [@ EXCEPT !.pc = "send", !.content = content]]
  /\ UNCHANGED <<storeVars, queued, subs, channels, panicked, notified>>

OfferedRegardless(channel, content) ==
  [channel EXCEPT !.owed = @ /\ content < notified[channel.device],
                  !.buffered = @ + 1, !.last = content]

\* A non-blocking send: a full channel drops the snapshot.
Offered(channel, content) ==
  LET seen == [channel EXCEPT !.owed = @ /\ content < notified[channel.device]]
  IN IF channel.buffered < Capacity
     THEN [seen EXCEPT !.buffered = @ + 1, !.last = content]
     ELSE seen

\* The channels are served in any order (a Go map), outside every lock; after
\* the last one the loop starts over.
Send(f, c) ==
  LET rest == flush[f].targets \ {c} IN
  /\ flush[f].pc = "send" /\ c \in flush[f].targets
  /\ flush' = [flush EXCEPT
       ![f] = IF rest = {}
              THEN [@ EXCEPT !.pc = "scan", !.targets = {}, !.content = 0]
              ELSE [@ EXCEPT !.targets = rest]]
  /\ IF channels[c].open
     THEN /\ channels' = [channels EXCEPT ![c] = Offered(@, flush[f].content)]
          /\ UNCHANGED panicked
     ELSE panicked' = TRUE /\ UNCHANGED channels
  /\ UNCHANGED <<storeVars, queued, subs, notified>>

-----------------------------------------------------------------------------
(* The subscribers.                                                        *)

\* The new id is the number of subscribers plus one, taken or not: an
\* assignment to a map overwrites the entry it finds.
Subscribe(d) ==
  LET id == Cardinality(DOMAIN subs[d]) + 1
      c  == Len(channels) + 1
  IN
  /\ c <= MaxChannels
  /\ channels' = Append(channels, [device |-> d, open |-> TRUE, buffered |-> 0,
                                   last |-> 0, owed |-> FALSE])
  /\ subs' = [subs EXCEPT
       ![d] = [i \in DOMAIN @ \cup {id} |-> IF i = id THEN c ELSE @[i]]]
  /\ UNCHANGED <<storeVars, queued, flush, panicked, notified>>

\* What is left in a closed channel is of no interest.
Closed(channel) ==
  [channel EXCEPT !.open = FALSE, !.buffered = 0, !.last = 0, !.owed = FALSE]

UnsubscribeKeepingEntry(d, id) ==
  /\ id \in DOMAIN subs[d]
  /\ channels' = [channels EXCEPT ![subs[d][id]] = Closed(@)]
  /\ UNCHANGED <<storeVars, queued, subs, flush, panicked, notified>>

Unsubscribe(d, id) ==
  /\ id \in DOMAIN subs[d]
  /\ channels' = [channels EXCEPT ![subs[d][id]] = Closed(@)]
  /\ subs' = [subs EXCEPT ![d] = [i \in DOMAIN @ \ {id} |-> @[i]]]
  /\ UNCHANGED <<storeVars, queued, flush, panicked, notified>>

\* Whoever holds the receiving end takes the oldest snapshot.
Receive(c) ==
  /\ channels[c].buffered > 0
  /\ channels' = [channels EXCEPT ![c].buffered = @ - 1]
  /\ UNCHANGED <<storeVars, queued, subs, flush, panicked, notified>>

-----------------------------------------------------------------------------
Store(d) ==
  Change(d) \/ SilentChange(d) \/ Reconnect(d) \/ Delete(d) \/ GCTombstones(d)

Flushing(f) ==
  Scan(f) \/ Read(f) \/ \E c \in DOMAIN channels : Send(f, c)

Next ==
  /\ ~panicked
  /\ \/ \E d \in Devices :
          \/ Store(d)
          \/ Subscribe(d)
          \/ \E id \in DOMAIN subs[d] : Unsubscribe(d, id)
     \/ \E e \in events :
          NotifyDelete(e) \/ \E f \in Flushers : Notify(e, f)
     \/ \E f \in Flushers : Flushing(f)
     \/ \E c \in DOMAIN channels : Receive(c)

\* The Go scheduler runs every goroutine that can run.
Spec ==
  /\ Init /\ [][Next]_vars
  /\ \A f \in Flushers : WF_vars(~panicked /\ Flushing(f))

-----------------------------------------------------------------------------
(* Properties.                                                             *)

TypeOK ==
  /\ shadow \in [Devices -> 0 .. MaxChanges]
  /\ live \subseteq Devices /\ deleted \subseteq Devices
  /\ events \subseteq Event
  /\ queued \subseteq Devices
  /\ \A d \in Devices :
       /\ DOMAIN subs[d] \subseteq 1 .. MaxChannels
       /\ Registered(d) \subseteq DOMAIN channels
  /\ channels \in Seq(Channel)
  /\ flush \in [Flushers -> Flush]
  /\ panicked \in BOOLEAN
  /\ notified \in [Devices -> 0 .. MaxChanges]

\* Bursts are coalesced without losing their end: once nothing is being flushed
\* for a device, every subscriber has been offered the newest snapshot Notify
\* was called with since it subscribed and since the shadow was last deleted, or
\* a newer one (Hub.Notify, Hub.flush).  It is offered to a full channel as well,
\* which drops it.
NewestIsOffered ==
  \A d \in Devices : Flushes(d) = {} =>
    \A c \in Registered(d) : ~channels[c].owed

\* A queued device is always taken off the queue again: some flush goroutine
\* is on its way, and none of them returns while the mark is set.  What is sent
\* then is not said here.
QueuedIsFlushed ==
  \A d \in Devices : d \in queued ~> (d \notin queued \/ panicked)

\* Subscribers and channels are one to one, so that no snapshot is sent twice to
\* one subscriber in a pass; a registered channel is open; and a flush only sends
\* on channels made for its device, though they may be closed by then, or another
\* subscriber may have taken their place (Hub.Subscribe, Unsubscribe, flush).
ChannelsOfDevice ==
  /\ \A d \in Devices : \A i, j \in DOMAIN subs[d] :
       /\ channels[subs[d][i]].device = d /\ channels[subs[d][i]].open
       /\ subs[d][i] = subs[d][j] => i = j
  /\ \A f \in Flushers : \A c \in flush[f].targets :
       c \in DOMAIN channels /\ channels[c].device = flush[f].device


\* No flush sends on a channel that Unsubscribe closed.
NeverPanics == ~panicked

=============================================================================
