--------------------------- MODULE NotifyHubProofs ---------------------------
(***************************************************************************)
(* Proofs about NotifyHub, for every set of devices, any number of flush   *)
(* goroutines, subscriptions and changes, and channels of any capacity.    *)
(***************************************************************************)
EXTENDS NotifyHub, FiniteSetTheorems, SequenceTheorems, TLAPS

\* The entries of Hub.subs are open channels of their device, each entered once.
SubsOK ==
  /\ DOMAIN subs = Devices
  /\ \A d \in Devices :
       /\ subs[d] \in [DOMAIN subs[d] -> DOMAIN channels]
       /\ \A i \in DOMAIN subs[d] :
            channels[subs[d][i]].device = d /\ channels[subs[d][i]].open
       /\ \A i, j \in DOMAIN subs[d] : subs[d][i] = subs[d][j] => i = j

\* A flush goroutine sends to channels of its device, which it copied.
FlushOK ==
  \A f \in Flushers :
    /\ flush[f].pc = "idle" <=> flush[f].device = NoDevice
    /\ \A c \in flush[f].targets :
         c \in DOMAIN channels /\ channels[c].device = flush[f].device

\* What Notify was or will be called with is not newer than the shadow.
NotifyOK ==
  /\ \A e \in events :
       e.type # "delete" => e.content \in 1 .. MaxChanges /\ e.content <= shadow[e.device]
  /\ \A d \in Devices : notified[d] <= shadow[d]
  /\ \A d \in live : shadow[d] >= 1

\* A subscriber that is owed a snapshot will be offered one: its device is
\* queued and a flush goroutine is to find it so, or one that took the mark has
\* still to serve the subscriber, with a snapshot that is recent enough.
OnItsWay(d, c) ==
  \/ d \in queued /\ Flushes(d) # {}
  \/ \E f \in Flushes(d) :
       /\ c \in flush[f].targets
       /\ \/ flush[f].pc = "read"
          \/ flush[f].pc = "send" /\ flush[f].content >= notified[d]

OwedOK ==
  \A d \in Devices : \A c \in Registered(d) :
    channels[c].owed => d \in live /\ notified[d] >= 1 /\ OnItsWay(d, c)

HubInv == TypeOK /\ SubsOK /\ FlushOK /\ NotifyOK /\ OwedOK

-----------------------------------------------------------------------------
(* Channels.                                                               *)

LEMMA ChannelIds ==
  ASSUME TypeOK
  PROVE  /\ Len(channels) \in Nat /\ DOMAIN channels = 1 .. Len(channels)
         /\ \A c \in DOMAIN channels : channels[c] \in Channel
  BY ElementOfSeq DEF TypeOK

\* Channels that are updated in place stay a sequence of channels.
LEMMA ChannelsUpdated ==
  ASSUME TypeOK, NEW s, s \in [DOMAIN channels -> Channel]
  PROVE  s \in Seq(Channel) /\ DOMAIN s = DOMAIN channels
<1>1. Len(channels) \in Nat /\ DOMAIN channels = 1 .. Len(channels)
  BY ChannelIds
<1>2. s = [i \in 1 .. Len(channels) |-> s[i]] /\ \A i \in 1 .. Len(channels) : s[i] \in Channel
  BY <1>1
<1>3. [i \in 1 .. Len(channels) |-> s[i]] \in Seq(Channel)
  BY <1>1, <1>2, IsASeq
<1>4. QED
  BY <1>1, <1>2, <1>3

LEMMA OfferedFacts ==
  ASSUME NEW channel \in Channel, NEW content \in Nat, notified \in [Devices -> Nat]
  PROVE  /\ Offered(channel, content) \in Channel
         /\ Offered(channel, content).device = channel.device
         /\ Offered(channel, content).open <=> channel.open
         /\ Offered(channel, content).owed =>
              channel.owed /\ ~(content >= notified[channel.device])
<1> DEFINE owed == channel.owed /\ content < notified[channel.device]
           seen == [channel EXCEPT !.owed = owed]
<1>1. owed \in BOOLEAN /\ (owed => channel.owed /\ ~(content >= notified[channel.device]))
  BY DEF Channel
<1> HIDE DEF owed
<1>2. seen \in Channel /\ seen.device = channel.device /\ (seen.open <=> channel.open)
      /\ seen.buffered = channel.buffered /\ seen.owed = owed
  BY <1>1 DEF Channel
<1>3. CASE channel.buffered < Capacity
  <2> DEFINE sent == [seen EXCEPT !.buffered = @ + 1, !.last = content]
  <2>2. Offered(channel, content) = sent
    BY <1>3 DEF Offered, owed
  <2>4. seen.buffered + 1 \in 0 .. Capacity
    BY <1>2, <1>3, HubAssumption DEF Channel
  <2> HIDE DEF seen
  <2>1. sent \in Channel /\ sent.device = channel.device /\ (sent.open <=> channel.open)
        /\ sent.owed = owed
    BY <1>2, <2>4 DEF Channel
  <2> HIDE DEF sent
  <2>3. QED
    BY <1>1, <1>2, <2>1, <2>2
<1>4. CASE ~(channel.buffered < Capacity)
  <2>1. Offered(channel, content) = seen
    BY <1>4 DEF Offered, owed
  <2> HIDE DEF seen
  <2>2. QED
    BY <1>1, <1>2, <2>1
<1>5. QED
  BY <1>3, <1>4

LEMMA ClosedFacts ==
  ASSUME NEW channel \in Channel
  PROVE  /\ Closed(channel) \in Channel
         /\ Closed(channel).device = channel.device
         /\ ~Closed(channel).owed
<1> DEFINE no == FALSE
<1>1. no \in BOOLEAN /\ ~no /\ 0 \in 0 .. Capacity /\ 0 \in Nat
  BY HubAssumption
<1>2. Closed(channel) = [channel EXCEPT !.open = no, !.buffered = 0, !.last = 0, !.owed = no]
  BY DEF Closed
<1> HIDE DEF no
<1>3. QED
  BY <1>1, <1>2 DEF Channel

\* What a notification does to the channels of its device.
LEMMA OwingFacts ==
  ASSUME TypeOK, NEW d \in Devices, NEW owed \in BOOLEAN
  PROVE  /\ Owing(d, owed) \in Seq(Channel) /\ DOMAIN Owing(d, owed) = DOMAIN channels
         /\ \A c \in DOMAIN channels :
              /\ Owing(d, owed)[c].device = channels[c].device
              /\ Owing(d, owed)[c].open <=> channels[c].open
              /\ c \in Registered(d) => Owing(d, owed)[c].owed = owed
              /\ c \notin Registered(d) => Owing(d, owed)[c] = channels[c]
<1>1. ASSUME NEW c \in DOMAIN channels, c \in Registered(d)
      PROVE  /\ Owing(d, owed)[c] \in Channel
             /\ Owing(d, owed)[c].device = channels[c].device
             /\ Owing(d, owed)[c].open <=> channels[c].open
             /\ Owing(d, owed)[c].owed = owed
  <2>1. Owing(d, owed)[c] = [channels[c] EXCEPT !.owed = owed]
    BY <1>1 DEF Owing
  <2>2. QED
    BY <2>1, ChannelIds DEF Channel
<1>2. \A c \in DOMAIN channels : c \notin Registered(d) => Owing(d, owed)[c] = channels[c]
  BY DEF Owing
<1>3. Owing(d, owed) \in [DOMAIN channels -> Channel]
  <2>1. \A c \in DOMAIN channels : Owing(d, owed)[c] \in Channel
    BY <1>1, <1>2, ChannelIds
  <2>2. Owing(d, owed) = [c \in DOMAIN channels |-> Owing(d, owed)[c]]
    BY DEF Owing
  <2>3. QED
    BY <2>1, <2>2
<1>4. QED
  BY <1>1, <1>2, <1>3, ChannelsUpdated

\* The entry a subscription takes is within the bound: there are at most as many
\* subscribers of a device as channels were made.
LEMMA SubscriberIds ==
  ASSUME TypeOK, SubsOK, NEW d \in Devices
  PROVE  /\ Cardinality(DOMAIN subs[d]) \in Nat
         /\ Cardinality(DOMAIN subs[d]) <= Len(channels)
<1>1. Len(channels) \in Nat /\ DOMAIN channels = 1 .. Len(channels)
  BY ChannelIds
<1>2. IsFiniteSet(1 .. Len(channels)) /\ Cardinality(1 .. Len(channels)) = Len(channels)
  <2>1. 1 \in Int /\ Len(channels) \in Int
    BY <1>1
  <2>2. /\ IsFiniteSet(1 .. Len(channels))
        /\ Cardinality(1 .. Len(channels))
             = IF 1 > Len(channels) THEN 0 ELSE Len(channels) - 1 + 1
    BY <2>1, FS_Interval
  <2>3. QED
    BY <1>1, <2>2
<1>3. subs[d] \in Injection(DOMAIN subs[d], 1 .. Len(channels))
  BY <1>1 DEF SubsOK, Injection, IsInjective
<1>4. IsFiniteSet(DOMAIN subs[d]) /\ Cardinality(DOMAIN subs[d]) <= Len(channels)
  BY <1>2, <1>3, FS_Injection
<1>5. QED
  BY <1>4, FS_CardinalityType

-----------------------------------------------------------------------------
(* What an action leaves alone.                                            *)

LEMMA SubsKept ==
  ASSUME TypeOK, SubsOK, UNCHANGED subs, DOMAIN channels' = DOMAIN channels,
         \A c \in DOMAIN channels :
           /\ channels'[c].device = channels[c].device
           /\ channels'[c].open <=> channels[c].open
  PROVE  /\ SubsOK'
         /\ \A d \in Devices : /\ DOMAIN subs'[d] \subseteq 1 .. MaxChannels
                               /\ Registered(d)' \subseteq DOMAIN channels'
<1>1. SubsOK'
  BY DEF SubsOK
<1>2. QED
  BY <1>1 DEF TypeOK, Registered

LEMMA FlushKept ==
  ASSUME FlushOK, UNCHANGED flush, DOMAIN channels \subseteq DOMAIN channels',
         \A c \in DOMAIN channels : channels'[c].device = channels[c].device
  PROVE  FlushOK'
  BY DEF FlushOK

LEMMA OwedKept ==
  ASSUME TypeOK, OwedOK, UNCHANGED <<subs, queued, flush, notified>>,
         live \subseteq live',
         \A c \in DOMAIN channels : channels'[c].owed => channels[c].owed
  PROVE  OwedOK'
<1> SUFFICES ASSUME NEW d \in Devices, NEW c \in Registered(d)', channels'[c].owed
             PROVE  d \in live' /\ notified'[d] >= 1 /\ OnItsWay(d, c)'
  BY DEF OwedOK
<1>1. c \in Registered(d)
  BY DEF Registered
<1>2. channels[c].owed
  BY <1>1 DEF TypeOK
<1>3. d \in live /\ notified[d] >= 1 /\ OnItsWay(d, c)
  BY <1>1, <1>2 DEF OwedOK
<1>4. QED
  BY <1>3 DEF OnItsWay, Flushes

\* The store's side of a step: nothing of the hub changes.
LEMMA HubKept ==
  ASSUME HubInv, UNCHANGED hubVars, live \subseteq live'
  PROVE  /\ SubsOK' /\ FlushOK' /\ OwedOK'
         /\ \A d \in Devices : /\ DOMAIN subs'[d] \subseteq 1 .. MaxChannels
                               /\ Registered(d)' \subseteq DOMAIN channels'
<1>1. UNCHANGED <<queued, subs, channels, flush, notified>>
  BY DEF hubVars
<1>2. QED
  BY <1>1, SubsKept, FlushKept, OwedKept DEF HubInv

\* Of the shadow of device d nothing is owed any more, whatever becomes of its
\* mark.
LEMMA NothingOwed ==
  ASSUME HubInv, NEW d \in Devices, UNCHANGED <<subs, flush, notified>>,
         channels' = Owing(d, FALSE),
         \A x \in Devices : x # d => (x \in live => x \in live')
                                     /\ (x \in queued => x \in queued')
  PROVE  /\ SubsOK' /\ FlushOK' /\ OwedOK'
         /\ channels' \in Seq(Channel)
         /\ \A x \in Devices : /\ DOMAIN subs'[x] \subseteq 1 .. MaxChannels
                               /\ Registered(x)' \subseteq DOMAIN channels'
<1> USE DEF HubInv
<1> DEFINE no == FALSE
<1>0. no \in BOOLEAN /\ ~no /\ channels' = Owing(d, no)
  OBVIOUS
<1> HIDE DEF no
<1>1. /\ channels' \in Seq(Channel) /\ DOMAIN channels' = DOMAIN channels
      /\ \A c \in DOMAIN channels :
           /\ channels'[c].device = channels[c].device
           /\ channels'[c].open <=> channels[c].open
           /\ c \in Registered(d) => channels'[c].owed = no
           /\ c \notin Registered(d) => channels'[c] = channels[c]
  <2>1. \A c \in DOMAIN channels :
          /\ Owing(d, no)[c].device = channels[c].device
          /\ Owing(d, no)[c].open <=> channels[c].open
          /\ c \in Registered(d) => Owing(d, no)[c].owed = no
          /\ c \notin Registered(d) => Owing(d, no)[c] = channels[c]
    BY <1>0, OwingFacts
  <2>2. Owing(d, no) \in Seq(Channel) /\ DOMAIN Owing(d, no) = DOMAIN channels
    BY <1>0, OwingFacts
  <2>3. QED
    BY <1>0, <2>1, <2>2
<1>2. OwedOK'
  <2> SUFFICES ASSUME NEW x \in Devices, NEW c \in Registered(x)', channels'[c].owed
               PROVE  x \in live' /\ notified'[x] >= 1 /\ OnItsWay(x, c)'
    BY DEF OwedOK
  <2>1. c \in Registered(x) /\ c \in DOMAIN channels
    BY DEF Registered, TypeOK
  <2>2. c \notin Registered(d)
    BY <1>0, <1>1, <2>1
  <2>3. channels[c].owed /\ x # d
    BY <1>1, <2>1, <2>2
  <2>4. x \in live /\ notified[x] >= 1 /\ OnItsWay(x, c)
    BY <2>1, <2>3 DEF OwedOK
  <2>5. QED
    BY <2>3, <2>4 DEF OnItsWay, Flushes
<1>3. QED
  BY <1>1, <1>2, SubsKept, FlushKept

-----------------------------------------------------------------------------
(* The store.                                                              *)

LEMMA InitHubInv == Init => HubInv
<1> SUFFICES ASSUME Init PROVE HubInv
  OBVIOUS
<1> USE DEF Init
<1>1. channels \in Seq(Channel) /\ DOMAIN channels = {}
  OBVIOUS
<1>2. \A d \in Devices : DOMAIN subs[d] = {} /\ Registered(d) = {}
  BY DEF Registered
<1>3. \A f \in Flushers : /\ flush[f] = Idle /\ Idle \in Flush
                          /\ Idle.pc = "idle" /\ Idle.device = NoDevice
                          /\ Idle.targets = {}
  BY DEF Idle, Flush
<1>4. flush \in [Flushers -> Flush]
  <2>1. flush = [f \in Flushers |-> Idle]
    OBVIOUS
  <2>2. QED
    BY <2>1, <1>3
<1>5. TypeOK
  <2>1. 0 \in 0 .. MaxChanges
    BY HubAssumption
  <2>2. \A d \in Devices : /\ DOMAIN subs[d] \subseteq 1 .. MaxChannels
                           /\ Registered(d) \subseteq DOMAIN channels
    BY <1>2
  <2>3. shadow \in [Devices -> 0 .. MaxChanges] /\ notified \in [Devices -> 0 .. MaxChanges]
    BY <2>1
  <2>4. QED
    BY <1>1, <1>4, <2>2, <2>3 DEF TypeOK
<1>6. SubsOK /\ OwedOK
  BY <1>1, <1>2 DEF SubsOK, OwedOK
<1>7. FlushOK /\ NotifyOK
  BY <1>3, HubAssumption DEF FlushOK, NotifyOK
<1>8. QED
  BY <1>5, <1>6, <1>7 DEF HubInv

LEMMA ChangeStep == ASSUME HubInv, NEW d \in Devices, Change(d) PROVE HubInv'
<1> USE DEF HubInv
<1> DEFINE e == [device |-> d, type |-> "change", content |-> shadow[d] + 1]
<1>1. /\ shadow[d] < MaxChanges /\ UNCHANGED deleted
      /\ shadow' = [shadow EXCEPT ![d] = shadow[d] + 1] /\ live' = live \cup {d}
      /\ events' = events \cup {e} /\ UNCHANGED hubVars
  BY DEF Change, Emitted, TypeOK
<1>2. shadow[d] + 1 \in 1 .. MaxChanges
  BY <1>1, HubAssumption DEF TypeOK
<1>3. e \in Event /\ e.type # "delete" /\ e.device = d /\ e.content = shadow[d] + 1
  BY <1>2 DEF Event
<1> HIDE DEF e
<1>4. TypeOK'
  BY <1>1, <1>2, <1>3, HubKept DEF TypeOK, hubVars
<1>5. NotifyOK'
  <2>1. \A x \in Devices : shadow'[x] >= shadow[x]
    BY <1>1, HubAssumption DEF TypeOK
  <2>2. \A x \in Devices : notified[x] \in Nat /\ shadow[x] \in Nat /\ shadow'[x] \in Nat
    BY <1>4, HubAssumption DEF TypeOK
  <2>3. ASSUME NEW x \in events', x.type # "delete"
        PROVE  x.content \in 1 .. MaxChanges /\ x.content <= shadow'[x.device]
    <3>1. CASE x = e
      BY <3>1, <1>1, <1>2, <1>3 DEF TypeOK
    <3>2. CASE x \in events
      BY <3>2, <1>1, <2>1, <2>2, <2>3 DEF TypeOK, NotifyOK, Event
    <3>3. QED
      BY <1>1, <3>1, <3>2
  <2>4. \A x \in Devices : notified'[x] <= shadow'[x]
    BY <1>1, <2>1, <2>2 DEF NotifyOK, hubVars
  <2>5. \A x \in live' : shadow'[x] >= 1
    BY <1>1, <1>2, <2>1, <2>2 DEF NotifyOK, TypeOK
  <2>6. QED
    BY <2>3, <2>4, <2>5 DEF NotifyOK
<1>6. QED
  BY <1>1, <1>4, <1>5, HubKept

LEMMA SilentChangeStep ==
  ASSUME HubInv, NEW d \in Devices, SilentChange(d) PROVE HubInv'
<1> USE DEF HubInv
<1>1. /\ shadow' = [shadow EXCEPT ![d] = shadow[d] + 1]
      /\ shadow[d] + 1 \in 1 .. MaxChanges /\ UNCHANGED <<live, deleted, events, hubVars>>
  BY HubAssumption DEF SilentChange, TypeOK
<1>2. TypeOK'
  BY <1>1, HubKept DEF TypeOK, hubVars
<1>3. \A x \in Devices : /\ shadow'[x] >= shadow[x] /\ notified[x] \in Nat
                         /\ shadow[x] \in Nat /\ shadow'[x] \in Nat
  BY <1>1, <1>2, HubAssumption DEF TypeOK
<1>4. NotifyOK'
  BY <1>1, <1>3 DEF TypeOK, NotifyOK, Event, hubVars
<1>5. QED
  BY <1>1, <1>2, <1>4, HubKept

LEMMA ReconnectStep == ASSUME HubInv, NEW d \in Devices, Reconnect(d) PROVE HubInv'
<1> USE DEF HubInv
<1> DEFINE e == [device |-> d, type |-> "reconnect", content |-> shadow[d]]
<1>1. /\ shadow[d] \in 1 .. MaxChanges /\ UNCHANGED <<live, deleted>>
      /\ shadow' = shadow /\ events' = events \cup {e} /\ UNCHANGED hubVars
  BY HubAssumption DEF Reconnect, Emitted, TypeOK, NotifyOK
<1>2. e \in Event /\ e.type # "delete" /\ e.device = d /\ e.content = shadow[d]
  BY <1>1 DEF Event
<1> HIDE DEF e
<1>3. TypeOK'
  BY <1>1, <1>2, HubKept DEF TypeOK, hubVars
<1>4. NotifyOK'
  BY <1>1, <1>2 DEF NotifyOK, hubVars
<1>5. QED
  BY <1>1, <1>3, <1>4, HubKept

LEMMA DeleteStep == ASSUME HubInv, NEW d \in Devices, Delete(d) PROVE HubInv'
<1> USE DEF HubInv
<1> DEFINE e == [device |-> d, type |-> "delete", content |-> 0]
<1>1. /\ live' = live \ {d} /\ deleted' = deleted \cup {d}
      /\ events' = events \cup {e} /\ channels' = Owing(d, FALSE)
      /\ UNCHANGED <<shadow, queued, subs, flush, panicked, notified>>
  BY DEF Delete, Emitted
<1>2. e \in Event /\ e.type = "delete"
  BY DEF Event
<1> HIDE DEF e
<1>3. /\ SubsOK' /\ FlushOK' /\ OwedOK' /\ channels' \in Seq(Channel)
      /\ \A x \in Devices : /\ DOMAIN subs'[x] \subseteq 1 .. MaxChannels
                            /\ Registered(x)' \subseteq DOMAIN channels'
  BY <1>1, NothingOwed
<1>4. TypeOK'
  BY <1>1, <1>2, <1>3 DEF TypeOK
<1>5. NotifyOK'
  BY <1>1, <1>2 DEF NotifyOK
<1>6. QED
  BY <1>3, <1>4, <1>5

LEMMA GCTombstonesStep ==
  ASSUME HubInv, NEW d \in Devices, GCTombstones(d) PROVE HubInv'
<1> USE DEF HubInv
<1>1. /\ deleted' = deleted \ {d} /\ UNCHANGED <<shadow, live, events>>
      /\ UNCHANGED hubVars
  BY DEF GCTombstones
<1>2. TypeOK'
  BY <1>1, HubKept DEF TypeOK, hubVars
<1>3. NotifyOK'
  BY <1>1 DEF NotifyOK, hubVars
<1>4. QED
  BY <1>1, <1>2, <1>3, HubKept

-----------------------------------------------------------------------------
(* Hub.Notify.                                                             *)

LEMMA NotifyDeleteStep ==
  ASSUME HubInv, NEW e \in events, NotifyDelete(e) PROVE HubInv'
<1> USE DEF HubInv
<1> DEFINE d == e.device
<1>1. /\ d \in Devices
      /\ events' = events \ {e} /\ queued' = queued \ {d}
      /\ channels' = Owing(d, FALSE)
      /\ UNCHANGED <<shadow, live, deleted, subs, flush, panicked, notified>>
  BY DEF NotifyDelete, TypeOK, Event
<1> HIDE DEF d
<1>2. /\ SubsOK' /\ FlushOK' /\ OwedOK' /\ channels' \in Seq(Channel)
      /\ \A x \in Devices : /\ DOMAIN subs'[x] \subseteq 1 .. MaxChannels
                            /\ Registered(x)' \subseteq DOMAIN channels'
  BY <1>1, NothingOwed
<1>3. TypeOK'
  BY <1>1, <1>2 DEF TypeOK
<1>4. NotifyOK'
  BY <1>1 DEF NotifyOK
<1>5. QED
  BY <1>2, <1>3, <1>4

LEMMA NotifyStep ==
  ASSUME HubInv, NEW e \in events, NEW f \in Flushers, Notify(e, f) PROVE HubInv'
<1> USE DEF HubInv
<1> DEFINE d == e.device
           started == [flush[f] EXCEPT !.pc = "scan", !.device = d]
<1>1. /\ e.type # "delete" /\ flush[f].pc = "idle" /\ d \in Devices
      /\ events' = events \ {e} /\ queued' = queued \cup {d}
      /\ channels' = IF d \in live THEN Owing(d, TRUE) ELSE channels
      /\ notified' = [notified EXCEPT ![d] = Newest(notified[d], e.content)]
      /\ UNCHANGED <<shadow, live, deleted, subs, panicked>>
  BY DEF Notify, Marked, TypeOK, Event
<1>2. e.content \in 1 .. MaxChanges /\ e.content <= shadow[d]
  BY <1>1 DEF NotifyOK
<1>3. flush[f] \in Flush
  BY DEF TypeOK
<1>4. /\ started \in Flush /\ started.pc = "scan" /\ started.device = d
      /\ started.targets = flush[f].targets
  BY <1>1, <1>3 DEF Flush
<1>5. flush' = [flush EXCEPT ![f] = started]
  BY DEF Notify, TypeOK
<1> HIDE DEF started
<1>6. \A g \in Flushers : flush'[g] = IF g = f THEN started ELSE flush[g]
  BY <1>5 DEF TypeOK
<1>7. /\ channels' \in Seq(Channel) /\ DOMAIN channels' = DOMAIN channels
      /\ \A c \in DOMAIN channels :
           /\ channels'[c].device = channels[c].device
           /\ channels'[c].open <=> channels[c].open
           /\ c \notin Registered(d) => channels'[c] = channels[c]
  <2>1. channels \in Seq(Channel)
    BY DEF TypeOK
  <2>2. TRUE \in BOOLEAN
    OBVIOUS
  <2>3. QED
    BY <1>1, <2>1, <2>2, OwingFacts
<1>8. flush[f].targets = {}
  <2>1. \A c \in DOMAIN channels : channels[c].device \in Devices
    BY ChannelIds DEF Channel
  <2>2. flush[f].device = NoDevice
    BY <1>1 DEF FlushOK
  <2>3. QED
    BY <2>1, <2>2, HubAssumption DEF FlushOK
<1>9. Newest(notified[d], e.content) \in 1 .. MaxChanges
      /\ Newest(notified[d], e.content) \in {notified[d], e.content}
  BY <1>1, <1>2, HubAssumption DEF Newest, TypeOK
<1>10. SubsOK' /\ \A x \in Devices : /\ DOMAIN subs'[x] \subseteq 1 .. MaxChannels
                                     /\ Registered(x)' \subseteq DOMAIN channels'
  BY <1>1, <1>7, SubsKept
<1>11. TypeOK'
  <2>1. flush' \in [Flushers -> Flush]
    BY <1>4, <1>5 DEF TypeOK
  <2>2. notified' \in [Devices -> 0 .. MaxChanges]
    BY <1>1, <1>9 DEF TypeOK
  <2>3. events' \subseteq Event /\ queued' \subseteq Devices
    BY <1>1 DEF TypeOK
  <2>4. QED
    BY <1>1, <1>7, <1>10, <2>1, <2>2, <2>3 DEF TypeOK
<1>12. FlushOK'
  <2> SUFFICES ASSUME NEW g \in Flushers
               PROVE  /\ flush'[g].pc = "idle" <=> flush'[g].device = NoDevice
                      /\ \A c \in flush'[g].targets :
                           c \in DOMAIN channels' /\ channels'[c].device = flush'[g].device
    BY DEF FlushOK
  <2>1. CASE g = f
    BY <2>1, <1>1, <1>4, <1>6, <1>8, HubAssumption
  <2>2. CASE g # f
    BY <2>2, <1>6, <1>7 DEF FlushOK
  <2>3. QED
    BY <2>1, <2>2
<1>13. NotifyOK'
  <2>1. \A x \in Devices : notified'[x] <= shadow'[x]
    BY <1>1, <1>2, <1>9 DEF NotifyOK, TypeOK
  <2>2. QED
    BY <1>1, <2>1 DEF NotifyOK
<1>14. OwedOK'
  <2> SUFFICES ASSUME NEW x \in Devices, NEW c \in Registered(x)', channels'[c].owed
               PROVE  x \in live' /\ notified'[x] >= 1 /\ OnItsWay(x, c)'
    BY DEF OwedOK
  <2>1. x \in Devices /\ c \in Registered(x) /\ c \in DOMAIN channels
    BY <1>1 DEF Registered, TypeOK
  <2>2. CASE x = d /\ d \in live
    <3>1. f \in Flushes(x)' /\ x \in queued'
      BY <2>2, <1>1, <1>4, <1>6 DEF Flushes
    <3>2. notified'[x] >= 1
      BY <2>2, <1>1, <1>9 DEF TypeOK
    <3>3. QED
      BY <2>2, <3>1, <3>2, <1>1 DEF OnItsWay
  <2>5. ~(x = d /\ d \notin live)
    BY <1>1, <2>1 DEF OwedOK
  <2>3. CASE x # d
    <3>1. channels[c].device = x
      BY <2>1 DEF SubsOK, Registered
    <3>2. c \notin Registered(d)
      BY <2>3, <3>1, <1>1 DEF SubsOK, Registered
    <3>3. channels[c].owed
      BY <1>7, <2>1, <3>2
    <3>4. x \in live /\ notified[x] >= 1 /\ OnItsWay(x, c)
      BY <2>1, <3>3 DEF OwedOK
    <3>5. notified'[x] = notified[x] /\ queued' = queued \cup {d}
      BY <1>1, <2>1, <2>3 DEF TypeOK
    <3>6. \A g \in Flushes(x) : g \in Flushes(x)' /\ flush'[g] = flush[g]
      BY <1>1, <1>6, <2>1, HubAssumption DEF Flushes, FlushOK
    <3>7. QED
      BY <1>1, <3>4, <3>5, <3>6 DEF OnItsWay
  <2>4. QED
    BY <2>2, <2>3, <2>5
<1>15. QED
  BY <1>10, <1>11, <1>12, <1>13, <1>14

-----------------------------------------------------------------------------
(* Hub.flush.                                                              *)

\* A goroutine that runs has a device.
LEMMA FlushDevice ==
  ASSUME HubInv, NEW f \in Flushers, flush[f].pc # "idle"
  PROVE  flush[f].device \in Devices /\ flush[f] \in Flush
<1>1. flush[f] \in Flush
  BY DEF HubInv, TypeOK
<1>2. QED
  BY <1>1 DEF HubInv, FlushOK, Flush

LEMMA ScanStep == ASSUME HubInv, NEW f \in Flushers, Scan(f) PROVE HubInv'
<1> USE DEF HubInv
<1> DEFINE d == flush[f].device
           taking == [flush[f] EXCEPT !.pc = "read", !.targets = Registered(d)]
           next == IF d \in queued THEN taking ELSE Idle
<1>1. /\ flush[f].pc = "scan" /\ queued' = queued \ {d}
      /\ flush' = [flush EXCEPT ![f] = next]
      /\ UNCHANGED <<storeVars, subs, channels, panicked, notified>>
  BY DEF Scan, Taken, TypeOK
<1>2. UNCHANGED <<shadow, live, deleted, events>>
  BY <1>1 DEF storeVars
<1>3. d \in Devices /\ flush[f] \in Flush
  BY <1>1, FlushDevice
<1>4. Registered(d) \subseteq DOMAIN channels /\ DOMAIN channels \subseteq Nat
  BY <1>3, ChannelIds DEF TypeOK
<1>5. taking \in Flush /\ taking.pc = "read" /\ taking.device = d
      /\ taking.targets = Registered(d)
  BY <1>3, <1>4 DEF Flush
<1>6. Idle \in Flush /\ Idle.pc = "idle" /\ Idle.device = NoDevice /\ Idle.targets = {}
  BY DEF Idle, Flush
<1> HIDE DEF taking, next
<1>7. next \in Flush /\ next = IF d \in queued THEN taking ELSE Idle
  BY <1>5, <1>6 DEF next
<1>8. \A g \in Flushers : flush'[g] = IF g = f THEN next ELSE flush[g]
  BY <1>1 DEF TypeOK
<1>9. SubsOK'
  BY <1>1, SubsKept
<1>10. TypeOK'
  <2>1. flush' \in [Flushers -> Flush]
    BY <1>1, <1>7 DEF TypeOK
  <2>2. QED
    BY <1>1, <1>2, <2>1, SubsKept DEF TypeOK
<1>11. FlushOK'
  <2>1. \A c \in Registered(d) : c \in DOMAIN channels /\ channels[c].device = d
    BY <1>3, <1>4 DEF SubsOK, Registered
  <2> SUFFICES ASSUME NEW g \in Flushers
               PROVE  /\ flush'[g].pc = "idle" <=> flush'[g].device = NoDevice
                      /\ \A c \in flush'[g].targets :
                           c \in DOMAIN channels' /\ channels'[c].device = flush'[g].device
    BY DEF FlushOK
  <2>2. CASE g = f
    BY <2>1, <2>2, <1>1, <1>3, <1>5, <1>6, <1>7, <1>8, HubAssumption
  <2>3. CASE g # f
    BY <2>3, <1>1, <1>8 DEF FlushOK
  <2>4. QED
    BY <2>2, <2>3
<1>12. NotifyOK'
  BY <1>1, <1>2 DEF NotifyOK
<1>13. OwedOK'
  <2> SUFFICES ASSUME NEW x \in Devices, NEW c \in Registered(x)', channels'[c].owed
               PROVE  x \in live' /\ notified'[x] >= 1 /\ OnItsWay(x, c)'
    BY DEF OwedOK
  <2>1. x \in Devices /\ c \in Registered(x) /\ channels[c].owed
    BY <1>1, <1>2 DEF Registered
  <2>2. x \in live /\ notified[x] >= 1 /\ OnItsWay(x, c)
    BY <2>1 DEF OwedOK
  <2>3. CASE x = d /\ d \in queued
    <3>1. f \in Flushes(x)' /\ c \in flush'[f].targets /\ flush'[f].pc = "read"
      BY <2>1, <2>3, <1>5, <1>7, <1>8 DEF Flushes
    <3>2. QED
      BY <3>1, <2>2, <1>1, <1>2 DEF OnItsWay
  <2>4. CASE x # d \/ d \notin queued
    <3>1. \A g \in Flushes(x) : (x # d \/ flush[g].pc # "scan") =>
            g \in Flushes(x)' /\ flush'[g] = flush[g]
      BY <1>1, <1>8 DEF Flushes
    <3>2. QED
      BY <3>1, <2>2, <2>4, <1>1, <1>2 DEF OnItsWay, Flushes
  <2>5. QED
    BY <2>3, <2>4
<1>14. QED
  BY <1>9, <1>10, <1>11, <1>12, <1>13

LEMMA ReadStep == ASSUME HubInv, NEW f \in Flushers, Read(f) PROVE HubInv'
<1> USE DEF HubInv
<1> DEFINE d == flush[f].device
           nothing == Snapshot(d) = 0 \/ flush[f].targets = {}
           over == [flush[f] EXCEPT !.pc = "scan", !.targets = {}]
           found == [flush[f] EXCEPT !.pc = "send", !.content = Snapshot(d)]
           next == IF nothing THEN over ELSE found
<1>1. /\ flush[f].pc = "read" /\ flush' = [flush EXCEPT ![f] = next]
      /\ UNCHANGED <<storeVars, queued, subs, channels, panicked, notified>>
  BY DEF Read, TypeOK
<1>2. UNCHANGED <<shadow, live, deleted, events>>
  BY <1>1 DEF storeVars
<1>3. d \in Devices /\ flush[f] \in Flush
  BY <1>1, FlushDevice
<1>4. shadow[d] \in Nat /\ notified[d] \in Nat /\ Snapshot(d) \in Nat
      /\ (d \in live => Snapshot(d) = shadow[d])
  BY <1>3, HubAssumption DEF TypeOK, Snapshot
<1>5. over \in Flush /\ over.pc = "scan" /\ over.device = d /\ over.targets = {}
  BY <1>3 DEF Flush
<1>6. found \in Flush /\ found.pc = "send" /\ found.device = d
      /\ found.targets = flush[f].targets /\ found.content = Snapshot(d)
  BY <1>3, <1>4 DEF Flush
<1> HIDE DEF over, found, next
<1>7. next \in Flush /\ next = IF nothing THEN over ELSE found
  BY <1>5, <1>6 DEF next
<1>8. \A g \in Flushers : flush'[g] = IF g = f THEN next ELSE flush[g]
  BY <1>1 DEF TypeOK
<1>9. SubsOK'
  BY <1>1, SubsKept
<1>10. TypeOK'
  <2>1. flush' \in [Flushers -> Flush]
    BY <1>1, <1>7 DEF TypeOK
  <2>2. QED
    BY <1>1, <1>2, <2>1, SubsKept DEF TypeOK
<1>11. FlushOK'
  <2> SUFFICES ASSUME NEW g \in Flushers
               PROVE  /\ flush'[g].pc = "idle" <=> flush'[g].device = NoDevice
                      /\ \A c \in flush'[g].targets :
                           c \in DOMAIN channels' /\ channels'[c].device = flush'[g].device
    BY DEF FlushOK
  <2>1. CASE g = f
    BY <2>1, <1>1, <1>3, <1>5, <1>6, <1>7, <1>8, HubAssumption DEF FlushOK
  <2>2. CASE g # f
    BY <2>2, <1>1, <1>8 DEF FlushOK
  <2>3. QED
    BY <2>1, <2>2
<1>12. NotifyOK'
  BY <1>1, <1>2 DEF NotifyOK
<1>13. OwedOK'
  <2> SUFFICES ASSUME NEW x \in Devices, NEW c \in Registered(x)', channels'[c].owed
               PROVE  x \in live' /\ notified'[x] >= 1 /\ OnItsWay(x, c)'
    BY DEF OwedOK
  <2>1. x \in Devices /\ c \in Registered(x) /\ channels[c].owed
    BY <1>1, <1>2 DEF Registered
  <2>2. x \in live /\ notified[x] >= 1 /\ OnItsWay(x, c)
    BY <2>1 DEF OwedOK
  <2>3. Flushes(x)' = Flushes(x)
    BY <1>5, <1>6, <1>7, <1>8 DEF Flushes
  <2>4. CASE x \in queued /\ Flushes(x) # {}
    BY <2>2, <2>3, <2>4, <1>1, <1>2 DEF OnItsWay
  <2>5. ASSUME NEW g \in Flushes(x), c \in flush[g].targets,
               \/ flush[g].pc = "read"
               \/ flush[g].pc = "send" /\ flush[g].content >= notified[x]
        PROVE  OnItsWay(x, c)'
    <3>1. CASE g # f
      <4>1. flush'[g] = flush[g] /\ g \in Flushes(x)'
        BY <3>1, <2>3, <1>8 DEF Flushes
      <4>2. QED
        BY <4>1, <2>5, <1>1 DEF OnItsWay
    <3>2. CASE g = f
      <4>1. x = d /\ f \in Flushes(x)'
        BY <3>2, <2>3, <2>5 DEF Flushes
      <4>2. notified[d] <= Snapshot(d) /\ ~nothing
        BY <4>1, <3>2, <2>1, <2>2, <2>5, <1>4 DEF NotifyOK
      <4>3. flush'[f].pc = "send" /\ flush'[f].content >= notified'[x]
            /\ c \in flush'[f].targets
        BY <4>1, <4>2, <3>2, <2>5, <1>1, <1>4, <1>6, <1>7, <1>8
      <4>4. QED
        BY <4>1, <4>3 DEF OnItsWay
    <3>3. QED
      BY <3>1, <3>2
  <2>6. QED
    BY <2>2, <2>4, <2>5, <1>1, <1>2 DEF OnItsWay
<1>14. QED
  BY <1>9, <1>10, <1>11, <1>12, <1>13

LEMMA SendStep ==
  ASSUME HubInv, NEW f \in Flushers, NEW c \in DOMAIN channels, Send(f, c)
  PROVE  HubInv'
<1> USE DEF HubInv
<1> DEFINE d == flush[f].device
           content == flush[f].content
           rest == flush[f].targets \ {c}
           done == [flush[f] EXCEPT !.pc = "scan", !.targets = {}, !.content = 0]
           more == [flush[f] EXCEPT !.targets = rest]
           next == IF rest = {} THEN done ELSE more
           offered == Offered(channels[c], content)
<1>1. /\ flush[f].pc = "send" /\ c \in flush[f].targets
      /\ flush' = [flush EXCEPT ![f] = next]
      /\ UNCHANGED <<storeVars, queued, subs, notified>>
      /\ \/ channels' = [channels EXCEPT ![c] = offered] /\ UNCHANGED panicked
         \/ UNCHANGED channels /\ panicked' = TRUE /\ ~channels[c].open
  BY DEF Send, TypeOK
<1>2. UNCHANGED <<shadow, live, deleted, events>>
  BY <1>1 DEF storeVars
<1>3. d \in Devices /\ flush[f] \in Flush /\ content \in Nat
  BY <1>1, FlushDevice DEF Flush
<1>4. channels[c] \in Channel /\ channels[c].device = d
  BY <1>1, ChannelIds DEF FlushOK
<1>5. notified \in [Devices -> Nat]
  BY HubAssumption DEF TypeOK
<1>6. /\ offered \in Channel /\ offered.device = d
      /\ offered.open <=> channels[c].open
      /\ offered.owed => channels[c].owed /\ ~(content >= notified[d])
  BY <1>3, <1>4, <1>5, OfferedFacts
<1> HIDE DEF offered
<1>7. done \in Flush /\ done.pc = "scan" /\ done.device = d /\ done.targets = {}
  BY <1>3 DEF Flush
<1>8. more \in Flush /\ more.pc = "send" /\ more.device = d /\ more.targets = rest
      /\ more.content = content
  BY <1>1, <1>3 DEF Flush
<1> HIDE DEF done, more, next
<1>9. next \in Flush /\ next = IF rest = {} THEN done ELSE more
  BY <1>7, <1>8 DEF next
<1>10. \A g \in Flushers : flush'[g] = IF g = f THEN next ELSE flush[g]
  BY <1>1 DEF TypeOK
<1>11. channels' \in Seq(Channel) /\ DOMAIN channels' = DOMAIN channels
  <2>1. channels \in Seq(Channel) /\ c \in 1 .. Len(channels)
    BY ChannelIds DEF TypeOK
  <2>2. CASE channels' = [channels EXCEPT ![c] = offered]
    BY <2>1, <2>2, <1>6, ExceptSeq
  <2>3. QED
    BY <2>1, <2>2, <1>1
<1>12. \A x \in DOMAIN channels :
         /\ channels'[x].device = channels[x].device
         /\ channels'[x].open <=> channels[x].open
         /\ channels'[x].owed => channels[x].owed
  BY <1>1, <1>4, <1>6
<1>13. channels[c].open => (channels'[c].owed => ~(content >= notified[d]))
  BY <1>1, <1>6
<1>14. SubsOK' /\ \A x \in Devices : /\ DOMAIN subs'[x] \subseteq 1 .. MaxChannels
                                     /\ Registered(x)' \subseteq DOMAIN channels'
  BY <1>1, <1>11, <1>12, SubsKept
<1>15. TypeOK'
  <2>1. flush' \in [Flushers -> Flush]
    BY <1>1, <1>9 DEF TypeOK
  <2>2. panicked' \in BOOLEAN
    BY <1>1 DEF TypeOK
  <2>3. QED
    BY <1>1, <1>2, <1>11, <1>14, <2>1, <2>2 DEF TypeOK
<1>16. FlushOK'
  <2> SUFFICES ASSUME NEW g \in Flushers
               PROVE  /\ flush'[g].pc = "idle" <=> flush'[g].device = NoDevice
                      /\ \A x \in flush'[g].targets :
                           x \in DOMAIN channels' /\ channels'[x].device = flush'[g].device
    BY DEF FlushOK
  <2>1. CASE g = f
    BY <2>1, <1>3, <1>7, <1>8, <1>9, <1>10, <1>11, <1>12, HubAssumption DEF FlushOK
  <2>2. CASE g # f
    BY <2>2, <1>10, <1>11, <1>12 DEF FlushOK
  <2>3. QED
    BY <2>1, <2>2
<1>17. NotifyOK'
  BY <1>1, <1>2 DEF NotifyOK
<1>18. OwedOK'
  <2> SUFFICES ASSUME NEW x \in Devices, NEW k \in Registered(x)', channels'[k].owed
               PROVE  x \in live' /\ notified'[x] >= 1 /\ OnItsWay(x, k)'
    BY DEF OwedOK
  <2>1. x \in Devices /\ k \in Registered(x) /\ k \in DOMAIN channels
    BY <1>1, <1>2 DEF Registered, TypeOK
  <2>2. channels[k].owed /\ channels[k].open
    BY <1>12, <2>1 DEF SubsOK, Registered
  <2>3. x \in live /\ notified[x] >= 1 /\ OnItsWay(x, k)
    BY <2>1, <2>2 DEF OwedOK
  <2>4. Flushes(x)' = Flushes(x)
    BY <1>7, <1>8, <1>9, <1>10 DEF Flushes
  <2>5. CASE x \in queued /\ Flushes(x) # {}
    BY <2>3, <2>4, <2>5, <1>1, <1>2 DEF OnItsWay
  <2>6. ASSUME NEW g \in Flushes(x), k \in flush[g].targets,
               \/ flush[g].pc = "read"
               \/ flush[g].pc = "send" /\ flush[g].content >= notified[x]
        PROVE  OnItsWay(x, k)'
    <3>1. CASE g # f
      <4>1. flush'[g] = flush[g] /\ g \in Flushes(x)'
        BY <3>1, <2>4, <1>10 DEF Flushes
      <4>2. QED
        BY <4>1, <2>6, <1>1 DEF OnItsWay
    <3>2. CASE g = f
      <4>1. x = d /\ f \in Flushes(x)' /\ content >= notified[d]
        BY <3>2, <2>4, <2>6, <1>1 DEF Flushes
      <4>2. k # c
        BY <4>1, <2>2, <1>13
      <4>3. k \in rest
        BY <4>2, <3>2, <2>6
      <4>4. flush'[f].pc = "send" /\ flush'[f].content >= notified'[x]
            /\ k \in flush'[f].targets
        BY <4>1, <4>3, <1>1, <1>8, <1>9, <1>10
      <4>5. QED
        BY <4>1, <4>4 DEF OnItsWay
    <3>3. QED
      BY <3>1, <3>2
  <2>7. QED
    BY <2>3, <2>5, <2>6, <1>1, <1>2 DEF OnItsWay
<1>19. QED
  BY <1>14, <1>15, <1>16, <1>17, <1>18

-----------------------------------------------------------------------------
(* The subscribers.                                                        *)

LEMMA SubscribeStep ==
  ASSUME HubInv, NEW d \in Devices, Subscribe(d) PROVE HubInv'
<1> USE DEF HubInv
<1> DEFINE id == Cardinality(DOMAIN subs[d]) + 1
           c  == Len(channels) + 1
           yes == TRUE
           no == FALSE
           channel == [device |-> d, open |-> yes, buffered |-> 0, last |-> 0, owed |-> no]
           entries == [i \in DOMAIN subs[d] \cup {id} |-> IF i = id THEN c ELSE subs[d][i]]
<1>1. /\ c <= MaxChannels /\ channels' = Append(channels, channel)
      /\ subs' = [subs EXCEPT ![d] = entries]
      /\ UNCHANGED <<storeVars, queued, flush, panicked, notified>>
  BY DEF Subscribe, TypeOK
<1>2. UNCHANGED <<shadow, live, deleted, events>>
  BY <1>1 DEF storeVars
<1>3. yes \in BOOLEAN /\ no \in BOOLEAN /\ yes /\ ~no
  OBVIOUS
<1> HIDE DEF yes, no
<1>4. channel \in Channel /\ channel.device = d /\ channel.open /\ ~channel.owed
  BY <1>3, HubAssumption DEF Channel
<1> HIDE DEF channel
<1>5. /\ Len(channels) \in Nat /\ DOMAIN channels = 1 .. Len(channels)
      /\ channels \in Seq(Channel)
  BY ChannelIds DEF TypeOK
<1>6. /\ channels' \in Seq(Channel) /\ DOMAIN channels' = DOMAIN channels \cup {c}
      /\ channels'[c] = channel /\ c \notin DOMAIN channels
      /\ \A x \in DOMAIN channels : channels'[x] = channels[x]
  BY <1>1, <1>4, <1>5
<1>7. id \in 1 .. MaxChannels
  BY <1>1, <1>5, SubscriberIds, HubAssumption
<1> HIDE DEF c, id
<1>8. /\ DOMAIN entries = DOMAIN subs[d] \cup {id} /\ entries[id] = c
      /\ \A i \in DOMAIN subs[d] : i # id => entries[i] = subs[d][i]
  OBVIOUS
<1> HIDE DEF entries
<1>9. /\ DOMAIN subs' = Devices /\ subs'[d] = entries
      /\ \A x \in Devices : x # d => subs'[x] = subs[x]
  BY <1>1 DEF SubsOK
<1>10. \A x \in Devices : \A i \in DOMAIN subs[x] :
         /\ subs[x][i] \in DOMAIN channels
         /\ channels[subs[x][i]].device = x /\ channels[subs[x][i]].open
  BY DEF SubsOK
<1>11. SubsOK'
  <2>1. ASSUME NEW x \in Devices
        PROVE  /\ subs'[x] \in [DOMAIN subs'[x] -> DOMAIN channels']
               /\ \A i \in DOMAIN subs'[x] :
                    channels'[subs'[x][i]].device = x /\ channels'[subs'[x][i]].open
               /\ \A i, j \in DOMAIN subs'[x] : subs'[x][i] = subs'[x][j] => i = j
    <3>1. CASE x = d
      <4>1. \A i \in DOMAIN entries :
              /\ entries[i] \in DOMAIN channels'
              /\ channels'[entries[i]].device = d /\ channels'[entries[i]].open
        BY <1>4, <1>6, <1>8, <1>10
      <4>2. \A i, j \in DOMAIN entries : entries[i] = entries[j] => i = j
        BY <1>6, <1>8, <1>10 DEF SubsOK
      <4>3. entries = [i \in DOMAIN entries |-> entries[i]]
        BY DEF entries
      <4>4. QED
        BY <3>1, <4>1, <4>2, <4>3, <1>9
    <3>2. CASE x # d
      BY <3>2, <1>6, <1>9 DEF SubsOK
    <3>3. QED
      BY <3>1, <3>2
  <2>2. QED
    BY <2>1, <1>9 DEF SubsOK
<1>12. \A x \in Devices : \A k \in Registered(x)' :
         k \in Registered(x) \/ (x = d /\ k = c)
  BY <1>8, <1>9 DEF Registered
<1>13. TypeOK'
  <2>1. \A x \in Devices : DOMAIN subs'[x] \subseteq 1 .. MaxChannels
    BY <1>7, <1>8, <1>9 DEF TypeOK
  <2>2. \A x \in Devices : Registered(x)' \subseteq DOMAIN channels'
    BY <1>6, <1>12 DEF TypeOK
  <2>3. QED
    BY <1>1, <1>2, <1>6, <2>1, <2>2 DEF TypeOK
<1>14. FlushOK'
  BY <1>1, <1>6, FlushKept
<1>15. NotifyOK'
  BY <1>1, <1>2 DEF NotifyOK
<1>16. OwedOK'
  <2> SUFFICES ASSUME NEW x \in Devices, NEW k \in Registered(x)', channels'[k].owed
               PROVE  x \in live' /\ notified'[x] >= 1 /\ OnItsWay(x, k)'
    BY DEF OwedOK
  <2>1. k # c
    BY <1>4, <1>6
  <2>2. x \in Devices /\ k \in Registered(x) /\ k \in DOMAIN channels
    BY <2>1, <1>2, <1>12 DEF TypeOK
  <2>3. x \in live /\ notified[x] >= 1 /\ OnItsWay(x, k)
    BY <2>2, <1>6 DEF OwedOK
  <2>4. QED
    BY <2>3, <1>1, <1>2 DEF OnItsWay, Flushes
<1>17. QED
  BY <1>11, <1>13, <1>14, <1>15, <1>16

\* What remains after a subscriber left: the entries of the others.
LEMMA UnsubscribeStep ==
  ASSUME HubInv, NEW d \in Devices, NEW id \in DOMAIN subs[d], Unsubscribe(d, id)
  PROVE  HubInv'
<1> USE DEF HubInv
<1> DEFINE c == subs[d][id]
           closed == Closed(channels[c])
           entries == [i \in DOMAIN subs[d] \ {id} |-> subs[d][i]]
<1>1. /\ c \in DOMAIN channels /\ channels[c].device = d /\ channels[c] \in Channel
  BY ChannelIds DEF SubsOK
<1>2. /\ channels' = [channels EXCEPT ![c] = closed]
      /\ subs' = [subs EXCEPT ![d] = entries]
      /\ UNCHANGED <<storeVars, queued, flush, panicked, notified>>
  BY <1>1 DEF Unsubscribe, SubsOK
<1>3. UNCHANGED <<shadow, live, deleted, events>>
  BY <1>2 DEF storeVars
<1>4. closed \in Channel /\ closed.device = d /\ ~closed.owed
  BY <1>1, ClosedFacts
<1> HIDE DEF closed
<1>5. /\ channels' \in Seq(Channel) /\ DOMAIN channels' = DOMAIN channels
      /\ channels'[c] = closed
      /\ \A x \in DOMAIN channels : x # c => channels'[x] = channels[x]
  <2>1. channels \in Seq(Channel) /\ c \in 1 .. Len(channels)
    BY <1>1, ChannelIds DEF TypeOK
  <2>2. QED
    BY <2>1, <1>1, <1>2, <1>4, ExceptSeq
<1>6. \A i \in DOMAIN subs[d] : subs[d][i] = c => i = id
  BY DEF SubsOK
<1> HIDE DEF c
<1>7. /\ DOMAIN entries = DOMAIN subs[d] \ {id}
      /\ \A i \in DOMAIN entries : entries[i] = subs[d][i] /\ entries[i] # c
  BY <1>6
<1> HIDE DEF entries
<1>8. /\ DOMAIN subs' = Devices /\ subs'[d] = entries
      /\ \A x \in Devices : x # d => subs'[x] = subs[x]
  BY <1>2 DEF SubsOK
<1>9. \A x \in Devices : \A i \in DOMAIN subs[x] :
        /\ subs[x][i] \in DOMAIN channels
        /\ channels[subs[x][i]].device = x /\ channels[subs[x][i]].open
        /\ x # d => subs[x][i] # c
  BY <1>1 DEF SubsOK
<1>10. SubsOK'
  <2>1. ASSUME NEW x \in Devices
        PROVE  /\ subs'[x] \in [DOMAIN subs'[x] -> DOMAIN channels']
               /\ \A i \in DOMAIN subs'[x] :
                    channels'[subs'[x][i]].device = x /\ channels'[subs'[x][i]].open
               /\ \A i, j \in DOMAIN subs'[x] : subs'[x][i] = subs'[x][j] => i = j
    <3>1. CASE x = d
      <4>1. \A i \in DOMAIN entries :
              /\ entries[i] \in DOMAIN channels'
              /\ channels'[entries[i]].device = d /\ channels'[entries[i]].open
        BY <1>5, <1>7, <1>9
      <4>2. \A i, j \in DOMAIN entries : entries[i] = entries[j] => i = j
        BY <1>7 DEF SubsOK
      <4>3. entries = [i \in DOMAIN entries |-> entries[i]]
        BY DEF entries
      <4>4. QED
        BY <3>1, <4>1, <4>2, <4>3, <1>8
    <3>2. CASE x # d
      BY <3>2, <1>5, <1>8, <1>9 DEF SubsOK
    <3>3. QED
      BY <3>1, <3>2
  <2>2. QED
    BY <2>1, <1>8 DEF SubsOK
<1>11. \A x \in Devices : \A k \in Registered(x)' : k \in Registered(x) /\ k # c
  BY <1>7, <1>8, <1>9 DEF Registered
<1>12. TypeOK'
  <2>1. \A x \in Devices : DOMAIN subs'[x] \subseteq 1 .. MaxChannels
    BY <1>7, <1>8 DEF TypeOK
  <2>2. \A x \in Devices : Registered(x)' \subseteq DOMAIN channels'
    BY <1>5, <1>11 DEF TypeOK
  <2>3. QED
    BY <1>2, <1>3, <1>5, <2>1, <2>2 DEF TypeOK
<1>13. FlushOK'
  BY <1>1, <1>2, <1>4, <1>5, FlushKept
<1>14. NotifyOK'
  BY <1>2, <1>3 DEF NotifyOK
<1>15. OwedOK'
  <2> SUFFICES ASSUME NEW x \in Devices, NEW k \in Registered(x)', channels'[k].owed
               PROVE  x \in live' /\ notified'[x] >= 1 /\ OnItsWay(x, k)'
    BY DEF OwedOK
  <2>1. x \in Devices /\ k \in Registered(x) /\ k \in DOMAIN channels /\ k # c
    BY <1>3, <1>11 DEF TypeOK
  <2>2. x \in live /\ notified[x] >= 1 /\ OnItsWay(x, k)
    BY <2>1, <1>5 DEF OwedOK
  <2>3. QED
    BY <2>2, <1>2, <1>3 DEF OnItsWay, Flushes
<1>16. QED
  BY <1>10, <1>12, <1>13, <1>14, <1>15

LEMMA ReceiveStep ==
  ASSUME HubInv, NEW c \in DOMAIN channels, Receive(c) PROVE HubInv'
<1> USE DEF HubInv
<1> DEFINE taken == [channels[c] EXCEPT !.buffered = channels[c].buffered - 1]
<1>1. /\ channels[c].buffered > 0 /\ channels' = [channels EXCEPT ![c] = taken]
      /\ UNCHANGED <<storeVars, queued, subs, flush, panicked, notified>>
  BY DEF Receive, TypeOK
<1>2. UNCHANGED <<shadow, live, deleted, events>>
  BY <1>1 DEF storeVars
<1>3. channels[c] \in Channel
  BY ChannelIds
<1>4. channels[c].buffered - 1 \in 0 .. Capacity
  BY <1>1, <1>3, HubAssumption DEF Channel
<1>5. /\ taken \in Channel /\ taken.device = channels[c].device
      /\ taken.open <=> channels[c].open
      /\ taken.owed <=> channels[c].owed
  BY <1>3, <1>4 DEF Channel
<1> HIDE DEF taken
<1>6. /\ channels' \in Seq(Channel) /\ DOMAIN channels' = DOMAIN channels
  <2>1. channels \in Seq(Channel) /\ c \in 1 .. Len(channels)
    BY ChannelIds DEF TypeOK
  <2>2. QED
    BY <2>1, <1>1, <1>5, ExceptSeq
<1>7. \A x \in DOMAIN channels :
        /\ channels'[x].device = channels[x].device
        /\ channels'[x].open <=> channels[x].open
        /\ channels'[x].owed => channels[x].owed
  BY <1>1, <1>5
<1>8. SubsOK' /\ FlushOK' /\ OwedOK'
  BY <1>1, <1>2, <1>6, <1>7, SubsKept, FlushKept, OwedKept
<1>9. TypeOK'
  BY <1>1, <1>2, <1>6, <1>7, SubsKept DEF TypeOK
<1>10. NotifyOK'
  BY <1>1, <1>2 DEF NotifyOK
<1>11. QED
  BY <1>8, <1>9, <1>10

-----------------------------------------------------------------------------
LEMMA NextHubInv == HubInv /\ [Next]_vars => HubInv'
<1> SUFFICES ASSUME HubInv, [Next]_vars PROVE HubInv'
  OBVIOUS
<1>1. ASSUME NEW d \in Devices, Store(d) PROVE HubInv'
  BY <1>1, ChangeStep, SilentChangeStep, ReconnectStep, DeleteStep, GCTombstonesStep
     DEF Store
<1>2. ASSUME NEW f \in Flushers, Flushing(f) PROVE HubInv'
  BY <1>2, ScanStep, ReadStep, SendStep DEF Flushing
<1>3. CASE UNCHANGED vars
  <2>1. UNCHANGED hubVars /\ UNCHANGED <<shadow, live, deleted, events>>
    BY <1>3 DEF vars, hubVars
  <2>2. TypeOK'
    BY <2>1, HubKept DEF HubInv, TypeOK, hubVars
  <2>3. NotifyOK'
    BY <2>1 DEF HubInv, NotifyOK, hubVars
  <2>4. QED
    BY <2>1, <2>2, <2>3, HubKept DEF HubInv
<1>4. QED
  BY <1>1, <1>2, <1>3, SubscribeStep, UnsubscribeStep, NotifyDeleteStep, NotifyStep,
     ReceiveStep DEF Next

THEOREM HubInvariant == Spec => []HubInv
  BY InitHubInv, NextHubInv, PTL DEF Spec

\* Every variable of the hub keeps its type: an entry of Hub.subs is an existing
\* channel, and no channel holds more snapshots than its capacity.
THEOREM HubTypeCorrect == Spec => []TypeOK
  BY HubInvariant, PTL DEF HubInv

\* Every channel in Hub.subs is open and made for its device, and no two entries
\* share one; the channels a flush still has to serve were made for the device
\* it serves, though they may be closed by then (Subscribe, Unsubscribe, flush).
THEOREM SubscribersHaveChannels == Spec => []ChannelsOfDevice
<1>1. HubInv => ChannelsOfDevice
  BY DEF HubInv, SubsOK, FlushOK, ChannelsOfDevice
<1>2. QED
  BY <1>1, HubInvariant, PTL

\* Coalescing never loses the end of a burst: when nothing is being flushed for
\* a device, every subscriber was offered the newest snapshot notified since it
\* subscribed and since the shadow was last deleted, or a newer one, or its channel
\* was full (Notify, flush).
THEOREM BurstsKeepTheirEnd == Spec => []NewestIsOffered
<1>1. HubInv => NewestIsOffered
  BY DEF HubInv, OwedOK, OnItsWay, NewestIsOffered
<1>2. QED
  BY <1>1, HubInvariant, PTL

=============================================================================
