--------------------------- MODULE EventBusProofs ---------------------------
(***************************************************************************)
(* Proofs about EventBus, for any number of recorders, subscribers and     *)
(* items, and any buffers: no send meets a closed channel, no stream has a *)
(* gap in its history, and the bot forwards no message twice.              *)
(***************************************************************************)
EXTENDS EventBus, SequenceTheorems, TLAPS

\* The part of the type invariant that the argument needs.
BusTypes ==
  /\ subscribers \subseteq Sub
  /\ rpc \in [Recorder -> {"idle", "record", "publish", "sending"}]
  /\ pending \in [Recorder -> SUBSET Sub]
  /\ st \in [Sub -> SubStates]

\* Only a publisher that holds the read lock has sends to make, ...
PendingUnderLock == \A r \in Recorder : rpc[r] # "sending" => pending[r] = {}

\* ... only to subscribers that are still listed, ...
PendingIsListed == \A r \in Recorder : pending[r] \subseteq subscribers

\* ... and a listed subscriber has not left the lock of Unsubscribe.
ListedIsOpen == \A s \in subscribers : st[s] \notin {"off", "failed", "unlisted", "closed"}

BusInv == BusTypes /\ PendingUnderLock /\ PendingIsListed /\ ListedIsOpen

\* The invariant holds initially (metrics.go New).
LEMMA InitBus == Init => BusInv
  BY DEF Init, BusInv, BusTypes, PendingUnderLock, PendingIsListed, ListedIsOpen, SubStates, Sub

\* A recorder's step keeps it: it changes its own place and its own sends, and
\* takes them from the registry when it takes the lock (pubsub.go:25-37).
LEMMA RecorderStep ==
  ASSUME BusInv, NEW r \in Recorder,
         \/ \E i \in Item : Begin(r, i)
         \/ RecordNext(r) \/ PublishRLock(r) \/ PublishRUnlock(r)
         \/ \E s \in Sub : PublishTo(r, s)
  PROVE  BusInv'
<1> USE DEF BusInv, BusTypes, PendingUnderLock, PendingIsListed, ListedIsOpen,
            recVars, subVars, histVars
<1>1. CASE \E i \in Item : Begin(r, i)
  BY <1>1 DEF Begin
<1>2. CASE RecordNext(r)
  BY <1>2 DEF RecordNext
<1>3. CASE PublishRLock(r)
  BY <1>3 DEF PublishRLock, Targets
<1>4. CASE PublishRUnlock(r)
  BY <1>4 DEF PublishRUnlock
<1>5. ASSUME NEW s \in Sub, PublishTo(r, s) PROVE BusInv'
  BY <1>5 DEF PublishTo
<1>6. QED
  BY <1>1, <1>2, <1>3, <1>4, <1>5

\* A subscriber's step keeps it: it is listed and taken off the list only while
\* no publisher holds the lock (pubsub.go:7-21).
LEMMA SubscriberStep ==
  ASSUME BusInv, NEW s \in Sub,
         \/ GetMeFails(s) \/ Subscribe(s)
         \/ SendChatHistory(s) \/ SendTraceHistory(s)
         \/ Receive(s) \/ Written(s) \/ Forward(s)
         \/ Leave(s) \/ Unsubscribe(s) \/ CloseChannel(s)
  PROVE  BusInv'
<1> USE DEF BusInv, BusTypes, PendingUnderLock, PendingIsListed, ListedIsOpen,
            recVars, Moves, SubStates
<1>1. CASE GetMeFails(s)
  BY <1>1 DEF GetMeFails
<1>2. CASE Subscribe(s)
  BY <1>2 DEF Subscribe
<1>3. CASE SendChatHistory(s) \/ SendTraceHistory(s)
  BY <1>3 DEF SendChatHistory, SendTraceHistory, SendHistory
<1>4. CASE Receive(s)
  BY <1>4 DEF Receive
<1>5. CASE Written(s) \/ Forward(s)
  BY <1>5 DEF Written, Forward
<1>6. CASE Leave(s)
  BY <1>6 DEF Leave
<1>7. CASE Unsubscribe(s)
  <2>1. \A r \in Recorder : pending[r] = {}
    BY <1>7 DEF Unsubscribe, LockFree
  <2>2. QED
    BY <1>7, <2>1 DEF Unsubscribe
<1>8. CASE CloseChannel(s)
  BY <1>8 DEF CloseChannel
<1>9. QED
  BY <1>1, <1>2, <1>3, <1>4, <1>5, <1>6, <1>7, <1>8

\* The registry of subscribers and the sends under way agree, in every behaviour
\* of the bus.
THEOREM BusInvariance == Spec => []BusInv
<1>1. BusInv /\ [Next]_vars => BusInv'
  <2> SUFFICES ASSUME BusInv, [Next]_vars PROVE BusInv'
    OBVIOUS
  <2>1. CASE Next
    BY <2>1, RecorderStep, SubscriberStep DEF Next
  <2>2. CASE UNCHANGED vars
    BY <2>2 DEF vars, BusInv, BusTypes, PendingUnderLock, PendingIsListed, ListedIsOpen
  <2>3. QED
    BY <2>1, <2>2
<1>2. QED
  BY <1>1, InitBus, PTL DEF Spec

\* No publisher ever has to send to a subscriber whose channel is, or is about
\* to be, closed, although Unsubscribe closes it outside the lock
\* (pubsub.go:16-21).
THEOREM NoSendAfterClose == Spec => []NoSendOnClosed
<1>1. BusInv => NoSendOnClosed
  BY DEF BusInv, PendingIsListed, ListedIsOpen, NoSendOnClosed
<1>2. QED
  BY <1>1, BusInvariance, PTL

(***************************************************************************)
(* The data that is recorded, published and received.                      *)
(***************************************************************************)
DataTypes ==
  /\ ring \in [HistoryTypes -> Seq(Event)]
  /\ \A t \in HistoryTypes : /\ Len(ring[t]) <= MaxRing[t]
                             /\ \A e \in ToSet(ring[t]) : e.type \in HistoryTypes
  /\ hand \in [Recorder -> Seq(Event)] /\ taken \subseteq Item
  /\ queue \in [Sub -> Seq(Event)] /\ \A s \in Sub : Len(queue[s]) <= Buffer
  /\ at \in [Sub -> Seq(Event)]
  /\ got \in [Sub -> SUBSET Event] /\ dropped \in [Sub -> SUBSET Event]
  /\ forwarded \in Seq(Event) /\ failed \subseteq Event

\* A recorder that is not idle has an event to record or to publish.
HandFull == \A r \in Recorder : rpc[r] # "idle" => hand[r] # <<>>

\* A subscriber is busy with one event, or with none.
AtBusy == \A s \in Sub : IF st[s] = "busy" THEN Len(at[s]) = 1 ELSE at[s] = <<>>

DataIInv == BusInv /\ DataTypes /\ HandFull /\ AtBusy

\* The elements of a sequence after Append and Tail, and of one of length 1.
LEMMA AppendElements ==
  ASSUME NEW S, NEW q \in Seq(S), NEW e \in S
  PROVE  ToSet(Append(q, e)) = ToSet(q) \cup {e}
<1>1. /\ Len(q) \in Nat /\ DOMAIN q = 1 .. Len(q)
      /\ DOMAIN Append(q, e) = 1 .. Len(q) + 1
      /\ \A i \in 1 .. Len(q) : Append(q, e)[i] = q[i]
      /\ Append(q, e)[Len(q) + 1] = e
  BY AppendProperties, LenProperties
<1>2. Len(q) + 1 \in DOMAIN Append(q, e) /\ DOMAIN q \subseteq DOMAIN Append(q, e)
      /\ \A i \in DOMAIN Append(q, e) : i \in DOMAIN q \/ i = Len(q) + 1
  BY <1>1
<1> QED
  BY <1>1, <1>2 DEF ToSet

\* What a queue holds is its head and what its tail holds.
LEMMA TailElements ==
  ASSUME NEW S, NEW q \in Seq(S), q # <<>>
  PROVE  /\ ToSet(q) = {Head(q)} \cup ToSet(Tail(q))
         /\ Head(q) \in S /\ Tail(q) \in Seq(S) /\ Len(Tail(q)) = Len(q) - 1
         /\ Head(q) = q[1]
<1>1. /\ Len(q) \in Nat \ {0} /\ DOMAIN q = 1 .. Len(q) /\ Head(q) = q[1]
      /\ Head(q) \in S /\ Tail(q) \in Seq(S)
      /\ Len(Tail(q)) = Len(q) - 1 /\ DOMAIN Tail(q) = 1 .. Len(q) - 1
      /\ \A i \in 1 .. Len(q) - 1 : Tail(q)[i] = q[i + 1]
  BY HeadTailProperties, LenProperties
<1>2. ASSUME NEW i \in DOMAIN q PROVE q[i] \in {Head(q)} \cup ToSet(Tail(q))
  <2>1. CASE i = 1
    BY <1>1, <2>1
  <2>2. CASE i # 1
    <3>1. i - 1 \in DOMAIN Tail(q) /\ Tail(q)[i - 1] = q[i]
      BY <1>1, <2>2
    <3> QED
      BY <3>1 DEF ToSet
  <2> QED
    BY <2>1, <2>2
<1>3. ASSUME NEW i \in DOMAIN Tail(q) PROVE Tail(q)[i] \in ToSet(q)
  <2>1. i + 1 \in DOMAIN q /\ Tail(q)[i] = q[i + 1]
    BY <1>1
  <2> QED
    BY <2>1 DEF ToSet
<1>4. Head(q) \in ToSet(q)
  <2>1. 1 \in DOMAIN q
    BY <1>1
  <2> QED
    BY <1>1, <2>1 DEF ToSet
<1> QED
  BY <1>1, <1>2, <1>3, <1>4 DEF ToSet

\* A queue of two or more still holds something after a receive.
LEMMA LongHasTail == ASSUME NEW S, NEW q \in Seq(S), Len(q) > 1 PROVE Tail(q) # <<>>
<1>1. q # <<>> /\ Len(q) \in Nat
  OBVIOUS
<1>2. Len(Tail(q)) = Len(q) - 1
  BY <1>1, HeadTailProperties
<1>3. Len(Tail(q)) # 0
  BY <1>1, <1>2
<1> HIDE <1>2
<1> QED
  BY <1>3, EmptySeq

\* Every element of a sequence over S is in S.
LEMMA ElementsTyped == ASSUME NEW S, NEW q \in Seq(S) PROVE ToSet(q) \subseteq S
  BY LenProperties, ElementOfSeq DEF ToSet

\* A queue of one holds just its head.
LEMMA SingleElement ==
  ASSUME NEW S, NEW q \in Seq(S), Len(q) = 1
  PROVE  ToSet(q) = {q[1]} /\ q[1] \in S
<1>1. DOMAIN q = 1 .. 1
  BY LenProperties
<1>2. DOMAIN q = {1}
  BY <1>1
<1>3. q[1] \in S
  BY ElementOfSeq
<1>4. ToSet(q) = {q[i] : i \in {1}}
  BY <1>2 DEF ToSet
<1> QED
  BY <1>3, <1>4

\* The events of an item are its own, one or two, of different types
\* (connection.go Send and readLoop, metrics.go sampleTraffic).
LEMMA EventsOfItem ==
  ASSUME NEW i \in Item
  PROVE  /\ EventsOf(i) \in Seq(Event) /\ EventsOf(i) # <<>>
         /\ \A k \in DOMAIN EventsOf(i) : EventsOf(i)[k].item = i
         /\ \A j, k \in DOMAIN EventsOf(i) : EventsOf(i)[j] = EventsOf(i)[k] => j = k
<1> DEFINE ev(t) == [type |-> t, item |-> i]
<1>1. \A t \in EventTypes : ev(t) \in Event /\ ev(t).item = i /\ ev(t).type = t
  BY DEF Event
<1>2. {"message", "chat_message", "traceroute_result", "metrics"} \subseteq EventTypes
  BY DEF EventTypes
<1>3. i.kind \in {"text", "trace", "sample", "frame"}
  BY BusAssumption DEF ItemType
<1>4. \/ EventsOf(i) = <<ev("message"), ev("chat_message")>>
      \/ EventsOf(i) = <<ev("message"), ev("traceroute_result")>>
      \/ EventsOf(i) = <<ev("metrics")>>
      \/ EventsOf(i) = <<ev("message")>>
  BY <1>3 DEF EventsOf
<1> HIDE DEF ev
<1>5. ASSUME NEW t \in EventTypes, EventsOf(i) = <<ev(t)>>
      PROVE  /\ EventsOf(i) \in Seq(Event) /\ EventsOf(i) # <<>>
             /\ \A k \in DOMAIN EventsOf(i) : EventsOf(i)[k].item = i
             /\ \A j, k \in DOMAIN EventsOf(i) : EventsOf(i)[j] = EventsOf(i)[k] => j = k
  BY <1>1, <1>5
<1>6. ASSUME NEW t \in EventTypes, NEW u \in EventTypes, t # u, EventsOf(i) = <<ev(t), ev(u)>>
      PROVE  /\ EventsOf(i) \in Seq(Event) /\ EventsOf(i) # <<>>
             /\ \A k \in DOMAIN EventsOf(i) : EventsOf(i)[k].item = i
             /\ \A j, k \in DOMAIN EventsOf(i) : EventsOf(i)[j] = EventsOf(i)[k] => j = k
  <2>1. ev(t) # ev(u) /\ ev(t) \in Event /\ ev(u) \in Event /\ ev(t).item = i /\ ev(u).item = i
    BY <1>1, <1>6
  <2> QED
    BY <1>6, <2>1
<1> QED
  BY <1>2, <1>4, <1>5, <1>6

\* A ring that records an event holds it and nothing else new, within its
\* capacity (ring_buffer.go:5-11).
LEMMA RingRecords ==
  ASSUME DataTypes, NEW e \in Event, ring' = Recorded(e)
  PROVE  /\ ring' \in [HistoryTypes -> Seq(Event)]
         /\ \A t \in HistoryTypes : /\ Len(ring'[t]) <= MaxRing[t]
                                    /\ ToSet(ring'[t]) \subseteq ToSet(ring[t]) \cup {e}
                                    /\ ring'[t] # ring[t] => e.type \in HistoryTypes
<1>1. CASE e.type \notin HistoryTypes
  BY <1>1 DEF Recorded, DataTypes
<1>2. CASE e.type \in HistoryTypes
  <2> DEFINE q == ring[e.type]
             m == MaxRing[e.type]
  <2>1. q \in Seq(Event) /\ Len(q) <= m /\ m \in Nat \ {0} /\ Len(q) \in Nat
    BY <1>2, BusAssumption, LenProperties DEF DataTypes
  <2> HIDE DEF q, m
  <2>2. /\ ringAppend(q, m, e) \in Seq(Event) /\ Len(ringAppend(q, m, e)) <= m
        /\ ToSet(ringAppend(q, m, e)) \subseteq ToSet(q) \cup {e}
    <3>1. CASE Len(q) >= m
      <4>1. q # <<>>
        BY <2>1, <3>1
      <4>2. /\ Tail(q) \in Seq(Event) /\ Len(Tail(q)) = Len(q) - 1
            /\ ToSet(Tail(q)) \subseteq ToSet(q)
        BY <2>1, <4>1, TailElements
      <4>3. PICK p \in Seq(Event) : p = Tail(q)
        BY <4>2
      <4>4. Append(p, e) \in Seq(Event) /\ Len(Append(p, e)) = Len(p) + 1
        BY AppendProperties
      <4>5. ToSet(Append(p, e)) = ToSet(p) \cup {e}
        BY AppendElements
      <4>6. ringAppend(q, m, e) = Append(p, e)
        BY <3>1, <4>3 DEF ringAppend
      <4> QED
        BY <2>1, <4>2, <4>3, <4>4, <4>5, <4>6
    <3>2. CASE ~(Len(q) >= m)
      <4>1. /\ Append(q, e) \in Seq(Event) /\ Len(Append(q, e)) = Len(q) + 1
            /\ ToSet(Append(q, e)) = ToSet(q) \cup {e}
        BY <2>1, AppendProperties, AppendElements
      <4> QED
        BY <2>1, <3>2, <4>1 DEF ringAppend
    <3> QED
      BY <3>1, <3>2
  <2>3. ring' = [ring EXCEPT ![e.type] = ringAppend(q, m, e)]
    BY <1>2 DEF Recorded, q, m
  <2> QED
    BY <1>2, <2>2, <2>3 DEF DataTypes, q, m
<1> QED
  BY <1>1, <1>2

\* Nothing is recorded, queued or forwarded in the beginning (metrics.go New).
LEMMA InitData == Init => DataIInv
<1> SUFFICES ASSUME Init PROVE DataTypes /\ HandFull /\ AtBusy
  BY InitBus DEF DataIInv
<1>1. <<>> \in Seq(Event) /\ Len(<<>>) = 0 /\ ToSet(<<>>) = {}
  BY DEF ToSet
<1>2. /\ ring \in [HistoryTypes -> Seq(Event)] /\ hand \in [Recorder -> Seq(Event)]
      /\ queue \in [Sub -> Seq(Event)] /\ at \in [Sub -> Seq(Event)]
      /\ forwarded \in Seq(Event)
  BY <1>1 DEF Init
<1>3. /\ \A t \in HistoryTypes : ring[t] = <<>> /\ MaxRing[t] \in Nat
      /\ \A s \in Sub : queue[s] = <<>>
  BY BusAssumption DEF Init
<1>4. DataTypes
  BY <1>1, <1>2, <1>3, BusAssumption DEF Init, DataTypes
<1>5. HandFull /\ AtBusy
  BY DEF Init, HandFull, AtBusy
<1> QED
  BY <1>4, <1>5

\* The event a recorder publishes, and the one a subscriber works on.
LEMMA HandTyped ==
  ASSUME DataIInv, NEW r \in Recorder, rpc[r] # "idle"
  PROVE  /\ hand[r] \in Seq(Event) /\ hand[r] # <<>> /\ Head(hand[r]) \in Event
         /\ Tail(hand[r]) \in Seq(Event) /\ Len(Tail(hand[r])) = Len(hand[r]) - 1
  BY TailElements DEF DataIInv, DataTypes, HandFull

\* A send puts the event into the channel, or counts it as dropped when the
\* channel is full (pubsub.go:29-35).
LEMMA SendElements ==
  ASSUME DataTypes, NEW s \in Sub, NEW e \in Event, TrySend(s, e)
  PROVE  /\ queue' \in [Sub -> Seq(Event)] /\ \A u \in Sub : Len(queue'[u]) <= Buffer
         /\ dropped' \in [Sub -> SUBSET Event]
         /\ \A u \in Sub \ {s} : queue'[u] = queue[u] /\ dropped'[u] = dropped[u]
         /\ \/ /\ queue'[s] = Append(queue[s], e) /\ ToSet(queue'[s]) = ToSet(queue[s]) \cup {e}
               /\ dropped'[s] = dropped[s]
            \/ queue'[s] = queue[s] /\ dropped'[s] = dropped[s] \cup OfHistory(e)
<1>0. queue[s] \in Seq(Event) /\ Len(queue[s]) \in Nat /\ Buffer \in Nat
  BY BusAssumption, LenProperties DEF DataTypes
<1>1. CASE Len(queue[s]) < Buffer
  <2>0. Append(queue[s], e) \in Seq(Event) /\ Len(Append(queue[s], e)) = Len(queue[s]) + 1
    BY <1>0, AppendProperties
  <2>1. PICK q \in Seq(Event) : q = Append(queue[s], e) /\ Len(q) = Len(queue[s]) + 1
    BY <2>0, Zenon
  <2>2. ToSet(q) = ToSet(queue[s]) \cup {e}
    BY <1>0, <2>1, AppendElements
  <2>3. queue' = [queue EXCEPT ![s] = q] /\ UNCHANGED dropped
    BY <1>1, <2>1 DEF TrySend
  <2>4. Len(q) <= Buffer
    BY <1>0, <1>1, <2>1
  <2>5. /\ queue' \in [Sub -> Seq(Event)] /\ queue'[s] = q
        /\ \A u \in Sub \ {s} : queue'[u] = queue[u]
    BY <2>3 DEF DataTypes
  <2>6. \A u \in Sub : Len(queue'[u]) <= Buffer
    BY <2>4, <2>5 DEF DataTypes
  <2> QED
    BY <2>1, <2>2, <2>3, <2>5, <2>6 DEF DataTypes
<1>2. CASE ~(Len(queue[s]) < Buffer)
  <2>1. OfHistory(e) \subseteq Event
    BY DEF OfHistory
  <2> QED
    BY <1>2, <2>1 DEF TrySend, DataTypes
<1> QED
  BY <1>1, <1>2

\* A recorder's step keeps the types: it records the head of its hand, or puts
\* it into a channel that has room (metrics.go RecordMessage, pubsub.go:25-37).
LEMMA RecorderData ==
  ASSUME DataIInv, NEW r \in Recorder,
         \/ \E i \in Item : Begin(r, i)
         \/ RecordNext(r) \/ PublishRLock(r) \/ PublishRUnlock(r)
         \/ \E s \in Sub : PublishTo(r, s)
  PROVE  DataIInv'
<1>0. BusInv'
  BY RecorderStep DEF DataIInv
<1> USE DEF DataIInv
<1>1. ASSUME NEW i \in Item, Begin(r, i) PROVE DataIInv'
  <2> DEFINE q == EventsOf(i)
  <2>1. q \in Seq(Event) /\ q # <<>> /\ Head(q) \in Event
    BY EventsOfItem, TailElements
  <2> HIDE DEF q
  <2>2. ring' = Recorded(Head(q)) /\ hand' = [hand EXCEPT ![r] = q]
    BY <1>1 DEF Begin, q
  <2>3. DataTypes'
    BY <1>1, <2>1, <2>2, RingRecords DEF Begin, DataTypes, subVars, histVars
  <2>4. HandFull'
    BY <1>1, <2>1, <2>2 DEF Begin, HandFull, DataTypes, BusInv, BusTypes
  <2>5. AtBusy'
    BY <1>1 DEF Begin, AtBusy, subVars
  <2> QED
    BY <1>0, <2>3, <2>4, <2>5
<1>2. CASE RecordNext(r)
  <2>1. Head(hand[r]) \in Event
    BY <1>2, HandTyped DEF RecordNext
  <2>2. DataTypes'
    BY <1>2, <2>1, RingRecords DEF RecordNext, DataTypes, subVars, histVars
  <2>3. HandFull' /\ AtBusy'
    BY <1>2 DEF RecordNext, HandFull, AtBusy, subVars, BusInv, BusTypes
  <2> QED
    BY <1>0, <2>2, <2>3
<1>3. CASE PublishRLock(r)
  <2>1. DataTypes'
    BY <1>3 DEF PublishRLock, DataTypes, subVars, histVars
  <2>2. HandFull' /\ AtBusy'
    BY <1>3 DEF PublishRLock, HandFull, AtBusy, subVars, BusInv, BusTypes
  <2> QED
    BY <1>0, <2>1, <2>2
<1>4. CASE PublishRUnlock(r)
  <2>1. /\ hand[r] \in Seq(Event) /\ Tail(hand[r]) \in Seq(Event)
        /\ Len(Tail(hand[r])) = Len(hand[r]) - 1
    BY <1>4, HandTyped DEF PublishRUnlock
  <2>2. DataTypes'
    BY <1>4, <2>1 DEF PublishRUnlock, DataTypes, subVars, histVars
  <2>3. Len(hand[r]) > 1 => Tail(hand[r]) # <<>>
    BY <2>1, LongHasTail
  <2>4. HandFull'
    BY <1>4, <2>3 DEF PublishRUnlock, HandFull, DataTypes, BusInv, BusTypes
  <2>5. AtBusy'
    BY <1>4 DEF PublishRUnlock, AtBusy, subVars
  <2> QED
    BY <1>0, <2>2, <2>4, <2>5
<1>5. ASSUME NEW s \in Sub, PublishTo(r, s) PROVE DataIInv'
  <2> DEFINE e == Head(hand[r])
  <2>1. e \in Event
    BY <1>5, HandTyped DEF PublishTo
  <2> HIDE DEF e
  <2>2. TrySend(s, e)
    BY <1>5 DEF PublishTo, e
  <2>3. /\ queue' \in [Sub -> Seq(Event)] /\ \A u \in Sub : Len(queue'[u]) <= Buffer
        /\ dropped' \in [Sub -> SUBSET Event]
    BY <2>1, <2>2, SendElements
  <2>4. DataTypes'
    BY <1>5, <2>3 DEF PublishTo, DataTypes
  <2>5. HandFull' /\ AtBusy'
    BY <1>5 DEF PublishTo, HandFull, AtBusy
  <2> QED
    BY <1>0, <2>4, <2>5
<1> QED
  BY <1>1, <1>2, <1>3, <1>4, <1>5

\* A subscriber's step keeps the types (server.go:485-540, bot.go:108-160).
LEMMA SubscriberData ==
  ASSUME DataIInv, NEW s \in Sub,
         \/ GetMeFails(s) \/ Subscribe(s)
         \/ SendChatHistory(s) \/ SendTraceHistory(s)
         \/ Receive(s) \/ Written(s) \/ Forward(s)
         \/ Leave(s) \/ Unsubscribe(s) \/ CloseChannel(s)
  PROVE  DataIInv'
<1>0. BusInv'
  BY SubscriberStep DEF DataIInv
<1> USE DEF DataIInv
<1>1. CASE GetMeFails(s) \/ Subscribe(s) \/ Leave(s) \/ Unsubscribe(s)
  <2>1. /\ UNCHANGED <<ring, recVars, queue, at, histVars>>
        /\ st[s] # "busy" /\ \E x \in SubStates \ {"busy"} : st' = [st EXCEPT ![s] = x]
    BY <1>1 DEF GetMeFails, Subscribe, Leave, Unsubscribe, Moves, SubStates
  <2>2. DataTypes' /\ HandFull'
    BY <2>1 DEF DataTypes, HandFull, recVars, histVars
  <2>3. AtBusy'
    BY <2>1 DEF AtBusy, BusInv, BusTypes
  <2> QED
    BY <1>0, <2>2, <2>3
<1>2. CASE SendChatHistory(s) \/ SendTraceHistory(s)
  <2>1. PICK t \in HistoryTypes, f \in {"subscribed", "chat"}, x \in {"chat", "loop"} :
          SendHistory(s, f, x, t)
    BY <1>2 DEF SendChatHistory, SendTraceHistory, HistoryTypes
  <2>2. ToSet(ring[t]) \subseteq Event
    BY ElementsTyped DEF DataTypes
  <2>3. DataTypes'
    BY <2>1, <2>2 DEF SendHistory, DataTypes, recVars
  <2>4. HandFull' /\ AtBusy'
    BY <2>1 DEF SendHistory, Moves, HandFull, AtBusy, recVars, BusInv, BusTypes
  <2> QED
    BY <1>0, <2>3, <2>4
<1>3. CASE Receive(s)
  <2> DEFINE e == Head(queue[s])
             q == Tail(queue[s])
  <2>1. /\ queue[s] \in Seq(Event) /\ e \in Event /\ q \in Seq(Event)
        /\ Len(q) = Len(queue[s]) - 1 /\ Len(queue[s]) \in Nat /\ Buffer \in Nat
    BY <1>3, TailElements, BusAssumption, LenProperties DEF Receive, DataTypes
  <2>2. <<e>> \in Seq(Event) /\ Len(<<e>>) = 1
    BY <2>1
  <2>3. queue' = [queue EXCEPT ![s] = q]
    BY <1>3 DEF Receive
  <2>4. \/ st' = [st EXCEPT ![s] = "busy"] /\ at' = [at EXCEPT ![s] = <<e>>]
        \/ UNCHANGED <<st, at>>
    BY <1>3 DEF Receive
  <2> HIDE DEF e, q
  <2>5. queue' \in [Sub -> Seq(Event)] /\ \A u \in Sub : Len(queue'[u]) <= Buffer
    BY <2>1, <2>3 DEF DataTypes
  <2>6. DataTypes'
    BY <1>3, <2>2, <2>4, <2>5 DEF Receive, DataTypes, recVars, histVars
  <2>7. HandFull'
    BY <1>3 DEF Receive, HandFull, recVars
  <2>8. AtBusy'
    BY <2>2, <2>4 DEF AtBusy, DataTypes, BusInv, BusTypes
  <2> QED
    BY <1>0, <2>6, <2>7, <2>8
<1>4. CASE Written(s) \/ Forward(s)
  <2>1. at[s][1] \in Event /\ <<>> \in Seq(Event)
    <3>1. Len(at[s]) = 1 /\ at[s] \in Seq(Event)
      BY <1>4 DEF Written, Forward, Moves, AtBusy, DataTypes
    <3> QED
      BY <3>1, SingleElement
  <2>2. at' = [at EXCEPT ![s] = <<>>] /\ st' = [st EXCEPT ![s] = "loop"]
    BY <1>4 DEF Written, Forward, Moves
  <2>3. at' \in [Sub -> Seq(Event)]
    BY <2>1, <2>2 DEF DataTypes
  <2>4. DataTypes'
    <3>1. CASE Written(s)
      <4>1. OfHistory(at[s][1]) \subseteq Event
        BY <2>1 DEF OfHistory
      <4> QED
        BY <3>1, <2>3, <4>1 DEF Written, DataTypes, recVars
    <3>2. CASE Forward(s)
      <4>1. Append(forwarded, at[s][1]) \in Seq(Event)
        BY <2>1, AppendProperties DEF DataTypes
      <4>2. forwarded' \in Seq(Event) /\ failed' \subseteq Event
        BY <3>2, <2>1, <4>1 DEF Forward, DataTypes
      <4> QED
        BY <3>2, <2>3, <4>2 DEF Forward, DataTypes, recVars
    <3> QED
      BY <1>4, <3>1, <3>2
  <2>5. HandFull'
    BY <1>4 DEF Written, Forward, HandFull, recVars
  <2>6. AtBusy'
    BY <2>2 DEF AtBusy, DataTypes, BusInv, BusTypes
  <2> QED
    BY <1>0, <2>4, <2>5, <2>6
<1>5. CASE CloseChannel(s)
  <2>1. <<>> \in Seq(Event) /\ Len(<<>>) = 0
    OBVIOUS
  <2>2. queue' \in [Sub -> Seq(Event)] /\ \A u \in Sub : Len(queue'[u]) <= Buffer
    BY <1>5, <2>1, BusAssumption DEF CloseChannel, DataTypes
  <2>3. DataTypes'
    BY <1>5, <2>2 DEF CloseChannel, DataTypes, recVars
  <2>4. HandFull' /\ AtBusy'
    BY <1>5 DEF CloseChannel, Moves, HandFull, AtBusy, recVars, BusInv, BusTypes
  <2> QED
    BY <1>0, <2>3, <2>4
<1> QED
  BY <1>1, <1>2, <1>3, <1>4, <1>5

\* A step that changes nothing.
LEMMA StutterData == ASSUME DataIInv, UNCHANGED vars PROVE DataIInv'
  BY DEF vars, DataIInv, BusInv, BusTypes, PendingUnderLock, PendingIsListed, ListedIsOpen,
         DataTypes, HandFull, AtBusy

(***************************************************************************)
(* The history of a stream has no gap.                                     *)
(***************************************************************************)
\* An event has reached stream s, or is on its way to it.
Covered(e, s) ==
  \/ e \in got[s] \cup ToSet(queue[s]) \cup ToSet(at[s]) \cup dropped[s]
  \/ InFlight(e, s)

\* A stream is listed from Subscribe to Unsubscribe.
StreamListed ==
  \A s \in Stream : st[s] \in {"subscribed", "chat", "loop", "busy", "leave"} => s \in subscribers

\* Once a stream has sent a history, it covers the ring it was taken from.
ChatCovered ==
  \A s \in Stream : st[s] \in {"chat", "loop", "busy"} =>
    \A e \in ToSet(ring["chat_message"]) : Covered(e, s)

TraceCovered ==
  \A s \in Stream : st[s] \in {"loop", "busy"} =>
    \A e \in ToSet(ring["traceroute_result"]) : Covered(e, s)

GapIInv == DataIInv /\ StreamListed /\ ChatCovered /\ TraceCovered

\* The entries of both rings are chat messages and traceroutes.
LEMMA RingHistory ==
  ASSUME DataIInv, NEW t \in HistoryTypes, NEW e \in ToSet(ring[t])
  PROVE  OfHistory(e) = {e}
  BY DEF DataIInv, DataTypes, OfHistory

\* A step of the rings or of a stream keeps the coverage when it adds to the
\* rings only what is covered, and uncovers nothing for a stream that had it.
LEMMA CoverageKept ==
  ASSUME GapIInv, DataIInv', StreamListed',
         \A s \in Stream : st'[s] \in {"chat", "loop", "busy"} =>
           /\ st[s] \in {"chat", "loop", "busy"}
           /\ st'[s] \in {"loop", "busy"} => st[s] \in {"loop", "busy"}
           /\ \A t \in HistoryTypes : \A e \in ToSet(ring'[t]) :
                IF e \in ToSet(ring[t]) THEN Covered(e, s) => Covered(e, s)' ELSE Covered(e, s)'
  PROVE  GapIInv'
<1>1. ChatCovered'
  BY DEF GapIInv, ChatCovered, HistoryTypes
<1>2. TraceCovered'
  BY DEF GapIInv, TraceCovered, HistoryTypes
<1> QED
  BY <1>1, <1>2 DEF GapIInv

\* What a recorder adds to a ring it is about to publish, to every stream that
\* is listed when it takes the lock (metrics.go RecordChatMessage,
\* pubsub.go:25-37).
LEMMA RecorderCovers ==
  ASSUME GapIInv, NEW r \in Recorder,
         \/ \E i \in Item : Begin(r, i)
         \/ RecordNext(r) \/ PublishRLock(r) \/ PublishRUnlock(r)
         \/ \E s \in Sub : PublishTo(r, s)
  PROVE  GapIInv'
<1>0. DataIInv /\ DataIInv'
  BY RecorderData DEF GapIInv
<1>1. UNCHANGED <<st, subscribers, at, got>>
  BY DEF Begin, RecordNext, PublishRLock, PublishRUnlock, PublishTo, subVars, histVars
<1>2. StreamListed'
  BY <1>1 DEF GapIInv, StreamListed
<1>3. Stream \subseteq Sub
  BY DEF Sub
<1>4. /\ rpc \in [Recorder -> {"idle", "record", "publish", "sending"}]
      /\ hand \in [Recorder -> Seq(Event)] /\ pending \in [Recorder -> SUBSET Sub]
      /\ queue \in [Sub -> Seq(Event)] /\ dropped \in [Sub -> SUBSET Event]
      /\ \A q \in Recorder : rpc[q] # "sending" => pending[q] = {}
  BY <1>0 DEF DataIInv, BusInv, BusTypes, DataTypes, PendingUnderLock
<1>5. CASE \/ \E i \in Item : Begin(r, i)
           \/ RecordNext(r)
  <2>1. /\ rpc[r] \in {"idle", "record"} /\ rpc' = [rpc EXCEPT ![r] = "publish"]
        /\ UNCHANGED <<pending, queue, dropped>>
    BY <1>5 DEF Begin, RecordNext, subVars, histVars
  <2>2. /\ hand'[r] # <<>> /\ Head(hand'[r]) \in Event /\ ring' = Recorded(Head(hand'[r]))
        /\ \A q \in Recorder \ {r} : hand'[q] = hand[q]
    <3>1. hand'[r] \in Seq(Event) /\ hand'[r] # <<>>
      <4>1. rpc'[r] # "idle"
        BY <1>4, <2>1
      <4> QED
        BY <1>0, <4>1 DEF DataIInv, DataTypes, HandFull
    <3>2. Head(hand'[r]) \in Event
      BY <3>1, TailElements
    <3>3. ring' = Recorded(Head(hand'[r])) /\ \A q \in Recorder \ {r} : hand'[q] = hand[q]
      BY <1>4, <1>5 DEF Begin, RecordNext
    <3> QED
      BY <3>1, <3>2, <3>3
  <2>3. \A t \in HistoryTypes : ToSet(ring'[t]) \subseteq ToSet(ring[t]) \cup {Head(hand'[r])}
    BY <1>0, <2>2, RingRecords DEF DataIInv
  <2>4. pending[r] = {}
    BY <1>4, <2>1
  <2>5. PICK f \in Event : f = Head(hand'[r])
    BY <2>2
  <2>6. ASSUME NEW s \in Stream, NEW e, InFlight(e, s) PROVE InFlight(e, s)'
    <3>1. PICK q \in Recorder : /\ hand[q] # <<>> /\ Head(hand[q]) = e
                                /\ rpc[q] = "publish" \/ s \in pending[q]
      BY <2>6 DEF InFlight
    <3>2. q # r
      BY <2>1, <2>4, <3>1
    <3> QED
      BY <1>4, <2>1, <2>2, <3>1, <3>2 DEF InFlight
  <2>7. \A s \in Stream : \A e : Covered(e, s) => Covered(e, s)'
    BY <1>1, <2>1, <2>6 DEF Covered
  <2>8. \A s \in Stream : Covered(f, s)'
    <3>1. rpc'[r] = "publish"
      BY <1>4, <2>1
    <3>2. \A s \in Stream : InFlight(f, s)'
      BY <2>2, <2>5, <3>1 DEF InFlight
    <3> QED
      BY <3>2 DEF Covered
  <2> QED
    BY <1>0, <1>1, <1>2, <2>3, <2>5, <2>7, <2>8, CoverageKept
<1>6. CASE PublishRLock(r)
  <2>1. ASSUME NEW s \in Stream, s \in subscribers, NEW e, Covered(e, s) PROVE Covered(e, s)'
    <3>1. ASSUME InFlight(e, s) PROVE InFlight(e, s)'
      <4>1. PICK q \in Recorder : /\ hand[q] # <<>> /\ Head(hand[q]) = e
                                  /\ rpc[q] = "publish" \/ s \in pending[q]
        BY <3>1 DEF InFlight
      <4>2. UNCHANGED hand
        BY <1>6 DEF PublishRLock
      <4>3. rpc'[q] = "publish" \/ s \in pending'[q]
        BY <1>4, <1>6, <2>1, <4>1 DEF PublishRLock, Targets
      <4> QED
        BY <4>1, <4>2, <4>3 DEF InFlight
    <3> QED
      BY <1>6, <2>1, <3>1 DEF Covered, PublishRLock, subVars, histVars
  <2>2. \A s \in Stream : st[s] \in {"chat", "loop", "busy"} => s \in subscribers
    BY DEF GapIInv, StreamListed
  <2>3. UNCHANGED ring
    BY <1>6 DEF PublishRLock
  <2> QED
    BY <1>0, <1>1, <1>2, <2>1, <2>2, <2>3, CoverageKept
<1>7. CASE PublishRUnlock(r)
  <2>1. ASSUME NEW s \in Stream, NEW e, Covered(e, s) PROVE Covered(e, s)'
    <3>1. ASSUME InFlight(e, s) PROVE InFlight(e, s)'
      <4>1. PICK q \in Recorder : /\ hand[q] # <<>> /\ Head(hand[q]) = e
                                  /\ rpc[q] = "publish" \/ s \in pending[q]
        BY <3>1 DEF InFlight
      <4>2. q # r
        BY <1>7, <4>1 DEF PublishRUnlock
      <4> QED
        BY <1>4, <1>7, <4>1, <4>2 DEF PublishRUnlock, InFlight
    <3> QED
      BY <1>7, <2>1, <3>1 DEF Covered, PublishRUnlock, subVars, histVars
  <2>2. UNCHANGED ring
    BY <1>7 DEF PublishRUnlock
  <2> QED
    BY <1>0, <1>1, <1>2, <2>1, <2>2, CoverageKept
<1>8. ASSUME NEW u \in Sub, PublishTo(r, u) PROVE GapIInv'
  <2> DEFINE f == Head(hand[r])
  <2>1. f \in Event /\ UNCHANGED <<ring, rpc, hand>>
    BY <1>0, <1>8, HandTyped DEF PublishTo
  <2>2. TrySend(u, f)
    BY <1>8 DEF PublishTo
  <2> HIDE DEF f
  <2>3. \A s \in Sub : ToSet(queue[s]) \subseteq ToSet(queue'[s]) /\ dropped[s] \subseteq dropped'[s]
    <3>1. ToSet(queue[u]) \subseteq ToSet(queue'[u]) /\ dropped[u] \subseteq dropped'[u]
      BY <1>0, <2>1, <2>2, SendElements DEF DataIInv
    <3>2. \A s \in Sub \ {u} : queue'[s] = queue[s] /\ dropped'[s] = dropped[s]
      BY <1>0, <2>1, <2>2, SendElements DEF DataIInv
    <3> QED
      BY <3>1, <3>2
  <2>4. OfHistory(f) \subseteq ToSet(queue'[u]) \cup dropped'[u]
    BY <1>0, <2>1, <2>2, SendElements DEF DataIInv, OfHistory
  <2>5. /\ \A q \in Recorder \ {r} : pending'[q] = pending[q]
        /\ pending'[r] = pending[r] \ {u} /\ rpc[r] = "sending"
    BY <1>4, <1>8 DEF PublishTo
  <2>6. ASSUME NEW s \in Stream, NEW e, OfHistory(e) = {e}, Covered(e, s) PROVE Covered(e, s)'
    <3>1. CASE InFlight(e, s)
      <4>1. PICK q \in Recorder : /\ hand[q] # <<>> /\ Head(hand[q]) = e
                                  /\ rpc[q] = "publish" \/ s \in pending[q]
        BY <3>1 DEF InFlight
      <4>2. CASE q = r /\ s = u
        BY <2>4, <2>6, <4>1, <4>2 DEF f, Covered
      <4>3. CASE q # r \/ s # u
        <5>1. rpc'[q] = "publish" \/ s \in pending'[q]
          BY <2>1, <2>5, <4>1, <4>3
        <5>2. InFlight(e, s)'
          BY <2>1, <4>1, <5>1 DEF InFlight
        <5> QED
          BY <5>2 DEF Covered
      <4> QED
        BY <4>2, <4>3
    <3>2. CASE e \in got[s] \cup ToSet(queue[s]) \cup ToSet(at[s]) \cup dropped[s]
      BY <1>1, <1>3, <2>3, <3>2 DEF Covered
    <3> QED
      BY <2>6, <3>1, <3>2 DEF Covered
  <2>7. \A t \in HistoryTypes : \A e \in ToSet(ring[t]) : OfHistory(e) = {e}
    BY <1>0, RingHistory
  <2> QED
    BY <1>0, <1>1, <1>2, <2>1, <2>6, <2>7, CoverageKept
<1> QED
  BY <1>5, <1>6, <1>7, <1>8

\* A subscriber's step: a stream is listed before it reads a ring, and moves its
\* events from the channel to the browser (server.go:485-540).
LEMMA SubscriberCovers ==
  ASSUME GapIInv, NEW u \in Sub,
         \/ GetMeFails(u) \/ Subscribe(u)
         \/ SendChatHistory(u) \/ SendTraceHistory(u)
         \/ Receive(u) \/ Written(u) \/ Forward(u)
         \/ Leave(u) \/ Unsubscribe(u) \/ CloseChannel(u)
  PROVE  GapIInv'
<1>0. DataIInv /\ DataIInv'
  BY SubscriberData DEF GapIInv
<1>1. UNCHANGED <<ring, recVars>>
  BY DEF GetMeFails, Subscribe, SendChatHistory, SendTraceHistory, SendHistory, Receive, Written,
         Forward, Leave, Unsubscribe, CloseChannel
<1>2. \A e, s : InFlight(e, s)' <=> InFlight(e, s)
  BY <1>1 DEF InFlight, recVars
<1>3. /\ st \in [Sub -> SubStates] /\ queue \in [Sub -> Seq(Event)] /\ at \in [Sub -> Seq(Event)]
      /\ got \in [Sub -> SUBSET Event] /\ dropped \in [Sub -> SUBSET Event]
      /\ Stream \subseteq Sub
  BY <1>0 DEF DataIInv, BusInv, BusTypes, DataTypes, Sub
<1>4. StreamListed'
  BY <1>0, <1>3 DEF GapIInv, StreamListed, DataIInv, BusInv, ListedIsOpen,
         GetMeFails, Subscribe, SendChatHistory, SendTraceHistory, SendHistory, Receive, Written,
         Forward, Leave, Unsubscribe, CloseChannel, Moves
<1>5. ASSUME NEW s \in Stream, s # u
      PROVE  st'[s] = st[s] /\ \A e : Covered(e, s) => Covered(e, s)'
  <2>1. st'[s] = st[s] /\ queue'[s] = queue[s] /\ at'[s] = at[s]
    BY <1>3, <1>5
    DEF GetMeFails, Subscribe, SendChatHistory, SendTraceHistory, SendHistory, Receive, Written,
        Forward, Leave, Unsubscribe, CloseChannel, Moves
  <2>2. got'[s] = got[s] /\ dropped'[s] = dropped[s]
    BY <1>3, <1>5
    DEF GetMeFails, Subscribe, SendChatHistory, SendTraceHistory, SendHistory, Receive, Written,
        Forward, Leave, Unsubscribe, CloseChannel, Moves, histVars
  <2> QED
    BY <1>2, <2>1, <2>2 DEF Covered
<1>6. CASE GetMeFails(u) \/ Subscribe(u) \/ Leave(u) \/ Unsubscribe(u) \/ CloseChannel(u)
  <2>1. u \in Stream => st'[u] \notin {"chat", "loop", "busy"}
    BY <1>3, <1>6 DEF GetMeFails, Subscribe, Leave, Unsubscribe, CloseChannel, Moves
  <2> QED
    BY <1>0, <1>1, <1>4, <1>5, <2>1, CoverageKept
<1>7. CASE SendChatHistory(u)
  <2>1. st'[u] = "chat" /\ ToSet(ring["chat_message"]) \subseteq got'[u]
    BY <1>3, <1>7 DEF SendChatHistory, SendHistory, Moves
  <2>2. ChatCovered'
    BY <1>1, <1>5, <2>1 DEF GapIInv, ChatCovered, Covered
  <2>3. TraceCovered'
    BY <1>1, <1>5, <2>1 DEF GapIInv, TraceCovered
  <2> QED
    BY <1>0, <1>4, <2>2, <2>3 DEF GapIInv
<1>8. CASE SendTraceHistory(u)
  <2>1. /\ st[u] = "chat" /\ got[u] \subseteq got'[u] /\ UNCHANGED <<queue, at, dropped>>
        /\ ToSet(ring["traceroute_result"]) \subseteq got'[u]
    BY <1>3, <1>8 DEF SendTraceHistory, SendHistory, Moves
  <2>2. \A e : Covered(e, u) => Covered(e, u)'
    BY <1>2, <2>1 DEF Covered
  <2>3. ChatCovered'
    BY <1>1, <1>5, <2>1, <2>2 DEF GapIInv, ChatCovered
  <2>4. TraceCovered'
    BY <1>1, <1>5, <2>1 DEF GapIInv, TraceCovered, Covered
  <2> QED
    BY <1>0, <1>4, <2>3, <2>4 DEF GapIInv
<1>9. CASE Receive(u)
  <2>1. u \in Stream => \A e : Covered(e, u) => Covered(e, u)'
    <3> SUFFICES ASSUME u \in Stream PROVE \A e : Covered(e, u) => Covered(e, u)'
      OBVIOUS
    <3>1. /\ queue[u] # <<>> /\ queue'[u] = Tail(queue[u]) /\ at'[u] = <<Head(queue[u])>>
          /\ st[u] = "loop" /\ UNCHANGED <<got, dropped>>
      BY <1>3, <1>9 DEF Receive, histVars
    <3>2. ToSet(queue[u]) = {Head(queue[u])} \cup ToSet(queue'[u]) /\ Head(queue[u]) \in Event
      BY <1>3, <3>1, TailElements
    <3>3. ToSet(at'[u]) = {Head(queue[u])}
      <4>1. at'[u] \in Seq(Event) /\ Len(at'[u]) = 1 /\ at'[u][1] = Head(queue[u])
        BY <3>1, <3>2
      <4> QED
        BY <4>1, SingleElement
    <3>4. ToSet(at[u]) = {}
      <4>1. at[u] = <<>>
        BY <1>0, <3>1 DEF DataIInv, AtBusy
      <4> QED
        BY <4>1 DEF ToSet
    <3> QED
      BY <1>2, <3>1, <3>2, <3>3, <3>4 DEF Covered
  <2>2. u \in Stream => st[u] = "loop"
    BY <1>9 DEF Receive
  <2>3. ChatCovered'
    BY <1>1, <1>5, <2>1, <2>2 DEF GapIInv, ChatCovered
  <2>4. TraceCovered'
    BY <1>1, <1>5, <2>1, <2>2 DEF GapIInv, TraceCovered
  <2> QED
    BY <1>0, <1>4, <2>3, <2>4 DEF GapIInv
<1>10. CASE Written(u)
  <2>1. ASSUME NEW e, OfHistory(e) = {e}, Covered(e, u) PROVE Covered(e, u)'
    <3>1. ToSet(at[u]) = {at[u][1]}
      <4>1. at[u] \in Seq(Event) /\ Len(at[u]) = 1
        BY <1>0, <1>3, <1>10 DEF Written, Moves, DataIInv, AtBusy
      <4> QED
        BY <4>1, SingleElement
    <3>2. got'[u] = got[u] \cup OfHistory(at[u][1]) /\ UNCHANGED <<queue, dropped>>
      BY <1>3, <1>10 DEF Written
    <3> QED
      BY <1>2, <2>1, <3>1, <3>2 DEF Covered
  <2>2. st[u] = "busy" /\ \A t \in HistoryTypes : \A e \in ToSet(ring[t]) : OfHistory(e) = {e}
    BY <1>0, <1>10, RingHistory DEF Written, Moves
  <2>3. ChatCovered'
    BY <1>1, <1>5, <2>1, <2>2 DEF GapIInv, ChatCovered, HistoryTypes
  <2>4. TraceCovered'
    BY <1>1, <1>5, <2>1, <2>2 DEF GapIInv, TraceCovered, HistoryTypes
  <2> QED
    BY <1>0, <1>4, <2>3, <2>4 DEF GapIInv
<1>11. CASE Forward(u)
  <2>1. u \notin Stream
    BY <1>11, BusAssumption DEF Forward
  <2> QED
    BY <1>0, <1>1, <1>4, <1>5, <2>1, CoverageKept
<1> QED
  BY <1>6, <1>7, <1>8, <1>9, <1>10, <1>11

\* A stream that subscribes before it reads the rings misses nothing of what
\* they hold: it is written, queued, on its way or dropped because the stream's
\* own channel was full, whatever recorders do in between (server.go:485-509).
THEOREM NoGap == Spec => []HistoryHasNoGap
<1>1. Init => GapIInv
  <2> SUFFICES ASSUME Init PROVE StreamListed /\ ChatCovered /\ TraceCovered
    BY InitData DEF GapIInv
  <2>1. \A s \in Stream : st[s] = "off"
    BY DEF Init, Sub
  <2> QED
    BY <2>1 DEF StreamListed, ChatCovered, TraceCovered
<1>2. GapIInv /\ [Next]_vars => GapIInv'
  <2> SUFFICES ASSUME GapIInv, [Next]_vars PROVE GapIInv'
    OBVIOUS
  <2>1. CASE Next
    BY <2>1, RecorderCovers, SubscriberCovers DEF Next
  <2>2. CASE UNCHANGED vars
    <3>1. DataIInv'
      BY <2>2, StutterData DEF GapIInv
    <3>2. \A e, s : InFlight(e, s)' <=> InFlight(e, s)
      BY <2>2 DEF vars, InFlight
    <3> QED
      BY <2>2, <3>1, <3>2 DEF GapIInv, vars, StreamListed, ChatCovered, TraceCovered, Covered
  <2> QED
    BY <2>1, <2>2
<1>3. GapIInv => HistoryHasNoGap
  BY DEF GapIInv, ChatCovered, TraceCovered, Covered, HistoryHasNoGap
<1> QED
  BY <1>1, <1>2, <1>3, PTL DEF Spec

(***************************************************************************)
(* The bot forwards no message twice.                                      *)
(***************************************************************************)
\* What recorder r will still publish to bot b, and what b has been sent.
Coming(r, b) ==
  IF rpc[r] = "sending" /\ b \notin pending[r] THEN ToSet(Tail(hand[r])) ELSE ToSet(hand[r])

Seen(b) == ToSet(queue[b]) \cup ToSet(at[b]) \cup ToSet(forwarded) \cup failed

\* An item is in one hand at most, and its events are there once.
HandsApart ==
  /\ \A r \in Recorder : /\ \A e \in ToSet(hand[r]) : e.item \in taken
                         /\ IsInjective(hand[r])
  /\ \A r, q \in Recorder : r # q =>
       \A d \in ToSet(hand[r]), e \in ToSet(hand[q]) : d.item # e.item

\* An event is in one place at most on its way from a hand to Telegram.
Apart(b) ==
  /\ IsInjective(queue[b])
  /\ ToSet(queue[b]) \cap ToSet(at[b]) = {}
  /\ (ToSet(queue[b]) \cup ToSet(at[b])) \cap (ToSet(forwarded) \cup failed) = {}
  /\ \A e \in Seen(b) : e.item \in taken
  /\ \A r \in Recorder : Coming(r, b) \cap Seen(b) = {}
  /\ \A e \in ToSet(at[b]) : Wanted(e)

BotApart == \A b \in Bot : Apart(b)

ForwardedOnce ==
  /\ IsInjective(forwarded) /\ ToSet(forwarded) \cap failed = {}
  /\ \A e \in ToSet(forwarded) : Wanted(e)

OnceIInv == DataIInv /\ HandsApart /\ BotApart /\ ForwardedOnce

\* A sequence without repetitions stays one when a new element is appended or
\* the first one taken, which is then not in it any more.
LEMMA InjectiveAppend ==
  ASSUME NEW S, NEW q \in Seq(S), NEW e \in S, IsInjective(q), e \notin ToSet(q)
  PROVE  IsInjective(Append(q, e))
<1>1. /\ Len(q) \in Nat /\ DOMAIN q = 1 .. Len(q) /\ DOMAIN Append(q, e) = 1 .. Len(q) + 1
      /\ \A i \in 1 .. Len(q) : Append(q, e)[i] = q[i]
      /\ Append(q, e)[Len(q) + 1] = e
  BY AppendProperties, LenProperties
<1>2. \A i \in DOMAIN Append(q, e) : i \in DOMAIN q \/ i = Len(q) + 1
  BY <1>1
<1>3. \A i \in DOMAIN q : q[i] # e
  BY DEF ToSet
<1> QED
  BY <1>1, <1>2, <1>3 DEF IsInjective

\* Taking the head of a queue without repeats leaves none, and the head is gone.
LEMMA InjectiveTail ==
  ASSUME NEW S, NEW q \in Seq(S), IsInjective(q), q # <<>>
  PROVE  IsInjective(Tail(q)) /\ Head(q) \notin ToSet(Tail(q))
<1>1. /\ Len(q) \in Nat \ {0} /\ DOMAIN q = 1 .. Len(q) /\ Head(q) = q[1]
      /\ DOMAIN Tail(q) = 1 .. Len(q) - 1
      /\ \A i \in 1 .. Len(q) - 1 : Tail(q)[i] = q[i + 1]
  BY HeadTailProperties, LenProperties
<1>2. ASSUME NEW i \in DOMAIN Tail(q), NEW j \in DOMAIN Tail(q), Tail(q)[i] = Tail(q)[j]
      PROVE  i = j
  <2>1. i + 1 \in DOMAIN q /\ j + 1 \in DOMAIN q /\ q[i + 1] = q[j + 1]
    BY <1>1, <1>2
  <2>2. i + 1 = j + 1
    BY <2>1 DEF IsInjective
  <2> QED
    BY <1>1, <2>2
<1>3. ASSUME NEW i \in DOMAIN Tail(q) PROVE Tail(q)[i] # Head(q)
  <2>1. i + 1 \in DOMAIN q /\ 1 \in DOMAIN q /\ Tail(q)[i] = q[i + 1] /\ i + 1 # 1
    BY <1>1
  <2> QED
    BY <1>1, <2>1 DEF IsInjective
<1> QED
  BY <1>2, <1>3 DEF IsInjective, ToSet

\* The empty sequence repeats nothing.
LEMMA InjectiveEmpty == IsInjective(<<>>) /\ ToSet(<<>>) = {}
  BY DEF IsInjective, ToSet

\* Nothing has been sent to the bot in the beginning (bot.go New).
LEMMA InitOnce == Init => OnceIInv
<1> SUFFICES ASSUME Init PROVE HandsApart /\ BotApart /\ ForwardedOnce
  BY InitData DEF OnceIInv
<1>1. /\ \A r \in Recorder : hand[r] = <<>> /\ rpc[r] = "idle"
      /\ \A s \in Sub : queue[s] = <<>> /\ at[s] = <<>>
      /\ forwarded = <<>> /\ failed = {} /\ Bot \subseteq Sub
  BY DEF Init, Sub
<1>2. HandsApart
  BY <1>1, InjectiveEmpty DEF HandsApart
<1>3. \A b \in Bot : Seen(b) = {} /\ \A r \in Recorder : Coming(r, b) = {}
  BY <1>1, InjectiveEmpty DEF Seen, Coming
<1>4. BotApart
  BY <1>1, <1>3, InjectiveEmpty DEF BotApart, Apart
<1>5. ForwardedOnce
  BY <1>1, InjectiveEmpty DEF ForwardedOnce
<1> QED
  BY <1>2, <1>4, <1>5

\* A recorder takes an item nobody has taken, and sends each of its events once
\* to the bot (pubsub.go:25-37).
LEMMA RecorderOnce ==
  ASSUME OnceIInv, NEW r \in Recorder,
         \/ \E i \in Item : Begin(r, i)
         \/ RecordNext(r) \/ PublishRLock(r) \/ PublishRUnlock(r)
         \/ \E s \in Sub : PublishTo(r, s)
  PROVE  OnceIInv'
<1>0. DataIInv /\ DataIInv' /\ HandsApart /\ BotApart
  BY RecorderData DEF OnceIInv
<1>1. UNCHANGED <<at, forwarded, failed>>
  BY DEF Begin, RecordNext, PublishRLock, PublishRUnlock, PublishTo, subVars, histVars
<1>2. ForwardedOnce'
  BY <1>1 DEF OnceIInv, ForwardedOnce, Wanted
<1>3. /\ rpc \in [Recorder -> {"idle", "record", "publish", "sending"}]
      /\ hand \in [Recorder -> Seq(Event)] /\ pending \in [Recorder -> SUBSET Sub]
      /\ queue \in [Sub -> Seq(Event)] /\ Bot \subseteq Sub
      /\ \A q \in Recorder : rpc[q] # "sending" => pending[q] = {}
  BY <1>0 DEF DataIInv, BusInv, BusTypes, DataTypes, PendingUnderLock, Sub
<1>4. ASSUME HandsApart', UNCHANGED queue, taken \subseteq taken',
             \A b \in Bot : \A q \in Recorder :
               \/ Coming(q, b)' \subseteq Coming(q, b)
               \/ \A e \in Coming(q, b)' : e.item \notin taken
      PROVE  OnceIInv'
  <2>1. \A b \in Bot : Seen(b)' = Seen(b)
    BY <1>1, <1>4 DEF Seen
  <2>2. BotApart'
    BY <1>0, <1>1, <1>4, <2>1 DEF BotApart, Apart, Wanted
  <2> QED
    BY <1>0, <1>2, <1>4, <2>2 DEF OnceIInv
<1>5. ASSUME NEW i \in Item, Begin(r, i) PROVE OnceIInv'
  <2> DEFINE q == EventsOf(i)
  <2>1. /\ q \in Seq(Event) /\ IsInjective(q)
        /\ \A e \in ToSet(q) : e.item = i
    BY EventsOfItem DEF IsInjective, ToSet
  <2> HIDE DEF q
  <2>2. /\ hand' = [hand EXCEPT ![r] = q] /\ rpc' = [rpc EXCEPT ![r] = "publish"]
        /\ i \notin taken /\ taken' = taken \cup {i} /\ UNCHANGED <<pending, queue>>
    BY <1>5 DEF Begin, q, subVars
  <2>3. /\ hand'[r] = q /\ rpc'[r] = "publish"
        /\ \A p \in Recorder \ {r} : hand'[p] = hand[p] /\ rpc'[p] = rpc[p]
    BY <1>3, <2>2
  <2>4. HandsApart'
    BY <1>0, <2>1, <2>2, <2>3 DEF HandsApart
  <2>5. ASSUME NEW b \in Bot, NEW p \in Recorder
        PROVE  \/ Coming(p, b)' \subseteq Coming(p, b)
               \/ \A e \in Coming(p, b)' : e.item \notin taken
    <3>1. CASE p = r
      BY <2>1, <2>2, <2>3, <3>1 DEF Coming
    <3>2. CASE p # r
      BY <2>2, <2>3, <3>2 DEF Coming
    <3> QED
      BY <3>1, <3>2
  <2> QED
    BY <1>4, <2>2, <2>4, <2>5
<1>6. CASE RecordNext(r) \/ PublishRLock(r)
  <2>1. /\ UNCHANGED <<hand, taken, queue>> /\ rpc[r] \in {"record", "publish"}
        /\ \A p \in Recorder \ {r} : pending'[p] = pending[p] /\ rpc'[p] = rpc[p]
    BY <1>3, <1>6 DEF RecordNext, PublishRLock, subVars
  <2>2. HandsApart'
    BY <1>0, <2>1 DEF HandsApart
  <2>3. ToSet(Tail(hand[r])) \subseteq ToSet(hand[r])
    BY <1>0, <2>1, HandTyped, TailElements
  <2>4. \A b \in Bot : \A p \in Recorder : Coming(p, b)' \subseteq Coming(p, b)
    BY <2>1, <2>3 DEF Coming
  <2> QED
    BY <1>4, <2>1, <2>2, <2>4
<1>7. CASE PublishRUnlock(r)
  <2>1. /\ UNCHANGED <<taken, queue, pending>> /\ rpc[r] = "sending" /\ pending[r] = {}
        /\ hand'[r] = Tail(hand[r]) /\ rpc'[r] # "sending"
        /\ \A p \in Recorder \ {r} : hand'[p] = hand[p] /\ rpc'[p] = rpc[p]
    BY <1>3, <1>7 DEF PublishRUnlock, subVars
  <2>2. hand[r] \in Seq(Event) /\ hand[r] # <<>>
    BY <1>0, <2>1, HandTyped
  <2>3. ToSet(Tail(hand[r])) \subseteq ToSet(hand[r])
    BY <2>2, TailElements
  <2>4. IsInjective(Tail(hand[r]))
    BY <1>0, <2>2, InjectiveTail DEF HandsApart
  <2>5. HandsApart'
    <3>1. \A p \in Recorder : ToSet(hand'[p]) \subseteq ToSet(hand[p]) /\ IsInjective(hand'[p])
      BY <1>0, <2>1, <2>3, <2>4 DEF HandsApart
    <3> QED
      BY <1>0, <2>1, <3>1 DEF HandsApart
  <2>6. \A b \in Bot : \A p \in Recorder : Coming(p, b)' \subseteq Coming(p, b)
    BY <2>1 DEF Coming
  <2> QED
    BY <1>4, <2>1, <2>5, <2>6
<1>8. ASSUME NEW s \in Sub, PublishTo(r, s) PROVE OnceIInv'
  <2> DEFINE f == Head(hand[r])
  <2>1. /\ UNCHANGED <<hand, taken, rpc>> /\ rpc[r] = "sending" /\ s \in pending[r]
        /\ TrySend(s, f) /\ pending'[r] = pending[r] \ {s}
        /\ \A p \in Recorder \ {r} : pending'[p] = pending[p]
    BY <1>3, <1>8 DEF PublishTo
  <2>2. hand[r] \in Seq(Event) /\ hand[r] # <<>> /\ f \in Event
    BY <1>0, <2>1, HandTyped
  <2>3. ToSet(hand[r]) = {f} \cup ToSet(Tail(hand[r])) /\ f \notin ToSet(Tail(hand[r]))
    BY <1>0, <2>2, TailElements, InjectiveTail DEF HandsApart
  <2> HIDE DEF f
  <2>4. /\ \A u \in Sub \ {s} : queue'[u] = queue[u]
        /\ \/ queue'[s] = Append(queue[s], f) /\ ToSet(queue'[s]) = ToSet(queue[s]) \cup {f}
           \/ queue'[s] = queue[s]
    BY <1>0, <2>1, <2>2, SendElements DEF DataIInv
  <2>5. HandsApart'
    BY <1>0, <2>1 DEF HandsApart
  <2>6. ASSUME NEW b \in Bot, b # s PROVE Seen(b)' = Seen(b) /\ queue'[b] = queue[b]
                                          /\ \A p \in Recorder : Coming(p, b)' = Coming(p, b)
    <3>1. queue'[b] = queue[b] /\ \A p \in Recorder : b \in pending'[p] <=> b \in pending[p]
      BY <1>3, <2>1, <2>4, <2>6
    <3> QED
      BY <1>1, <2>1, <3>1 DEF Seen, Coming
  <2>7. ASSUME s \in Bot
        PROVE  /\ IsInjective(queue'[s]) /\ ToSet(queue'[s]) \cap ToSet(at[s]) = {}
               /\ (ToSet(queue'[s]) \cup ToSet(at[s])) \cap (ToSet(forwarded) \cup failed) = {}
               /\ Seen(s)' \subseteq Seen(s) \cup {f} /\ f.item \in taken
               /\ \A p \in Recorder : Coming(p, s)' \subseteq Coming(p, s) /\ f \notin Coming(p, s)'
    <3>1. f \in Coming(r, s) /\ f \notin Seen(s)
      BY <1>0, <2>1, <2>3, <2>7 DEF Coming, BotApart, Apart
    <3>2. f \notin ToSet(queue[s]) /\ f \notin ToSet(at[s]) \cup ToSet(forwarded) \cup failed
      BY <3>1 DEF Seen
    <3>3. IsInjective(Append(queue[s], f))
      BY <1>0, <1>3, <2>2, <2>7, <3>2, InjectiveAppend DEF BotApart, Apart
    <3>4. Seen(s)' \subseteq Seen(s) \cup {f}
      BY <1>1, <2>4 DEF Seen
    <3>5. f.item \in taken
      BY <1>0, <2>3 DEF HandsApart
    <3>6. Coming(r, s)' = ToSet(Tail(hand[r])) /\ Coming(r, s) = ToSet(hand[r])
      BY <2>1 DEF Coming
    <3>7. ASSUME NEW p \in Recorder, p # r PROVE Coming(p, s)' = Coming(p, s) /\ f \notin Coming(p, s)
      <4>1. Coming(p, s)' = Coming(p, s)
        BY <2>1, <3>7 DEF Coming
      <4>2. \A e \in ToSet(hand[p]) : e # f
        BY <1>0, <2>3, <3>7 DEF HandsApart
      <4>3. rpc[p] = "sending" => ToSet(Tail(hand[p])) \subseteq ToSet(hand[p])
        BY <1>0, HandTyped, TailElements
      <4> QED
        BY <4>1, <4>2, <4>3 DEF Coming
    <3> QED
      BY <1>0, <2>3, <2>4, <2>7, <3>2, <3>3, <3>4, <3>5, <3>6, <3>7 DEF BotApart, Apart
  <2>8. BotApart'
    <3>1. ASSUME NEW b \in Bot, b # s PROVE Apart(b)'
      BY <1>0, <1>1, <2>1, <2>6, <3>1 DEF BotApart, Apart, Wanted
    <3>2. ASSUME s \in Bot PROVE Apart(s)'
      BY <1>0, <1>1, <2>1, <2>7, <3>2 DEF BotApart, Apart, Wanted
    <3> QED
      BY <3>1, <3>2 DEF BotApart
  <2> QED
    BY <1>0, <1>2, <2>5, <2>8 DEF OnceIInv
<1> QED
  BY <1>5, <1>6, <1>7, <1>8

\* The bot's own steps: an event goes from its channel to the call and from the
\* call to Telegram or to the log, in one place at a time (bot.go:108-160).
LEMMA SubscriberOnce ==
  ASSUME OnceIInv, NEW u \in Sub,
         \/ GetMeFails(u) \/ Subscribe(u)
         \/ SendChatHistory(u) \/ SendTraceHistory(u)
         \/ Receive(u) \/ Written(u) \/ Forward(u)
         \/ Leave(u) \/ Unsubscribe(u) \/ CloseChannel(u)
  PROVE  OnceIInv'
<1>0. DataIInv /\ DataIInv' /\ HandsApart /\ BotApart /\ ForwardedOnce
  BY SubscriberData DEF OnceIInv
<1>1. UNCHANGED recVars
  BY DEF GetMeFails, Subscribe, SendChatHistory, SendTraceHistory, SendHistory, Receive, Written,
         Forward, Leave, Unsubscribe, CloseChannel
<1>2. HandsApart' /\ \A r \in Recorder, b \in Bot : Coming(r, b)' = Coming(r, b)
  BY <1>0, <1>1 DEF HandsApart, Coming, recVars
<1>3. /\ queue \in [Sub -> Seq(Event)] /\ at \in [Sub -> Seq(Event)] /\ Bot \subseteq Sub
      /\ forwarded \in Seq(Event) /\ failed \subseteq Event
  BY <1>0 DEF DataIInv, DataTypes, Sub
<1>4. ASSUME NEW b \in Bot, queue'[b] = queue[b], at'[b] = at[b], UNCHANGED <<forwarded, failed>>
      PROVE  Apart(b)'
  <2>1. Seen(b)' = Seen(b)
    BY <1>4 DEF Seen
  <2> QED
    BY <1>0, <1>1, <1>2, <1>4, <2>1 DEF BotApart, Apart, recVars, Wanted
<1>5. ASSUME UNCHANGED <<forwarded, failed>> PROVE ForwardedOnce'
  BY <1>0, <1>5 DEF ForwardedOnce, Wanted
<1>6. CASE \/ GetMeFails(u) \/ Subscribe(u) \/ SendChatHistory(u) \/ SendTraceHistory(u)
           \/ Leave(u) \/ Unsubscribe(u)
  <2>1. UNCHANGED <<queue, at, forwarded, failed>>
    BY <1>6 DEF GetMeFails, Subscribe, SendChatHistory, SendTraceHistory, SendHistory, Leave,
                Unsubscribe, histVars
  <2> QED
    BY <1>0, <1>2, <1>4, <1>5, <2>1 DEF OnceIInv, BotApart
<1>7. CASE Written(u)
  <2>1. u \notin Bot /\ UNCHANGED <<queue, forwarded, failed>> /\ \A b \in Bot : at'[b] = at[b]
    BY <1>3, <1>7, BusAssumption DEF Written
  <2> QED
    BY <1>0, <1>2, <1>4, <1>5, <2>1 DEF OnceIInv, BotApart
<1>8. CASE CloseChannel(u)
  <2>1. /\ UNCHANGED <<at, forwarded, failed>> /\ queue'[u] = <<>>
        /\ \A b \in Bot \ {u} : queue'[b] = queue[b]
    BY <1>3, <1>8 DEF CloseChannel
  <2>2. ASSUME u \in Bot PROVE Apart(u)'
    <3>1. ToSet(queue'[u]) = {} /\ IsInjective(queue'[u])
      BY <2>1, InjectiveEmpty
    <3>2. Seen(u)' \subseteq Seen(u)
      BY <2>1, <3>1 DEF Seen
    <3> QED
      BY <1>0, <1>1, <1>2, <2>1, <2>2, <3>1, <3>2 DEF BotApart, Apart, recVars, Wanted
  <2> QED
    BY <1>0, <1>2, <1>4, <1>5, <2>1, <2>2 DEF OnceIInv, BotApart
<1>9. CASE Receive(u)
  <2> DEFINE e == Head(queue[u])
  <2>1. /\ UNCHANGED <<forwarded, failed>> /\ queue[u] # <<>> /\ queue'[u] = Tail(queue[u])
        /\ st[u] = "loop"
        /\ \/ at'[u] = <<e>> /\ (u \in Stream \/ Wanted(e))
           \/ at'[u] = at[u]
        /\ \A b \in Bot \ {u} : queue'[b] = queue[b] /\ at'[b] = at[b]
    BY <1>3, <1>9 DEF Receive, histVars
  <2>2. ToSet(queue[u]) = {e} \cup ToSet(queue'[u]) /\ e \in Event
    BY <1>3, <2>1, TailElements
  <2>3. ToSet(<<e>>) = {e}
    <3>1. <<e>> \in Seq(Event) /\ Len(<<e>>) = 1 /\ <<e>>[1] = e
      BY <2>2
    <3> HIDE DEF e
    <3> QED
      BY <3>1, SingleElement
  <2>4. ToSet(at[u]) = {}
    <3>1. at[u] = <<>>
      BY <1>0, <2>1 DEF DataIInv, AtBusy
    <3> QED
      BY <3>1, InjectiveEmpty
  <2>5. ASSUME u \in Bot PROVE Apart(u)'
    <3>1. IsInjective(queue'[u]) /\ e \notin ToSet(queue'[u])
      BY <1>0, <1>3, <2>1, <2>5, InjectiveTail DEF BotApart, Apart
    <3> HIDE DEF e
    <3>2. /\ ToSet(at'[u]) \subseteq {e}
          /\ \A d \in ToSet(at'[u]) : Wanted(d)
      BY <2>1, <2>3, <2>4, <2>5, BusAssumption
    <3>3. Seen(u)' \subseteq Seen(u)
      BY <2>1, <2>2, <3>2 DEF Seen
    <3>4. /\ ToSet(queue'[u]) \cap ToSet(at'[u]) = {}
          /\ (ToSet(queue'[u]) \cup ToSet(at'[u])) \cap (ToSet(forwarded) \cup failed) = {}
      BY <1>0, <2>2, <2>5, <3>1, <3>2 DEF BotApart, Apart
    <3>5. UNCHANGED taken
      BY <1>1 DEF recVars
    <3> QED
      BY <1>0, <1>2, <2>1, <2>5, <3>1, <3>2, <3>3, <3>4, <3>5 DEF BotApart, Apart, Wanted
  <2> QED
    BY <1>0, <1>2, <1>4, <1>5, <2>1, <2>5 DEF OnceIInv, BotApart
<1>10. CASE Forward(u)
  <2> DEFINE e == at[u][1]
  <2>1. u \in Bot /\ \A b \in Bot : b = u
    BY <1>10, BusAssumption DEF Forward
  <2>2. ToSet(at[u]) = {e} /\ e \in Event
    <3>1. at[u] \in Seq(Event) /\ Len(at[u]) = 1
      BY <1>0, <1>3, <1>10 DEF Forward, Moves, DataIInv, AtBusy
    <3> QED
      BY <3>1, SingleElement
  <2>3. /\ UNCHANGED queue /\ at'[u] = <<>>
        /\ \/ forwarded' = Append(forwarded, e) /\ failed' = failed
           \/ forwarded' = forwarded /\ failed' = failed \cup {e}
    BY <1>3, <1>10 DEF Forward
  <2> HIDE DEF e
  <2>4. ToSet(Append(forwarded, e)) = ToSet(forwarded) \cup {e}
    BY <1>3, <2>2, AppendElements
  <2>5. e \notin ToSet(queue[u]) /\ e \notin ToSet(forwarded) /\ e \notin failed /\ Wanted(e)
    BY <1>0, <2>1, <2>2 DEF BotApart, Apart
  <2>6. IsInjective(Append(forwarded, e))
    BY <1>0, <1>3, <2>2, <2>5, InjectiveAppend DEF ForwardedOnce
  <2>7. ForwardedOnce'
    <3>1. /\ IsInjective(forwarded') /\ ToSet(forwarded') \cap failed' = {}
          /\ ToSet(forwarded') \subseteq ToSet(forwarded) \cup {e}
      BY <1>0, <2>3, <2>4, <2>5, <2>6 DEF ForwardedOnce
    <3> QED
      BY <1>0, <2>5, <3>1 DEF ForwardedOnce, Wanted
  <2>8. Apart(u)'
    <3>1. ToSet(at'[u]) = {}
      BY <2>3, InjectiveEmpty
    <3>2. ToSet(forwarded') \cup failed' = ToSet(forwarded) \cup failed \cup {e}
      BY <2>3, <2>4
    <3>3. Seen(u)' = Seen(u)
      BY <2>2, <2>3, <3>1, <3>2 DEF Seen
    <3>4. UNCHANGED taken
      BY <1>1 DEF recVars
    <3> QED
      BY <1>0, <1>2, <2>1, <2>3, <2>5, <3>1, <3>2, <3>3, <3>4 DEF BotApart, Apart
  <2> QED
    BY <1>0, <1>2, <2>1, <2>7, <2>8 DEF OnceIInv, BotApart
<1> QED
  BY <1>6, <1>7, <1>8, <1>9, <1>10

\* The bot forwards no message twice, none that failed before, and only incoming
\* messages of its channels; and every ring and channel stays within its
\* capacity, whatever the recorders and the other subscribers do
\* (bot.go:108-160, ring_buffer.go:5-11).
THEOREM BotSound == Spec => []BotInv
<1>1. OnceIInv /\ [Next]_vars => OnceIInv'
  <2> SUFFICES ASSUME OnceIInv, [Next]_vars PROVE OnceIInv'
    OBVIOUS
  <2>1. CASE Next
    BY <2>1, RecorderOnce, SubscriberOnce DEF Next
  <2>2. CASE UNCHANGED vars
    <3>1. DataIInv'
      BY <2>2, StutterData DEF OnceIInv
    <3>2. \A r, b : Coming(r, b)' = Coming(r, b) /\ Seen(b)' = Seen(b)
      BY <2>2 DEF vars, Coming, Seen
    <3>3. HandsApart' /\ ForwardedOnce'
      BY <2>2 DEF OnceIInv, vars, HandsApart, ForwardedOnce, Wanted
    <3>4. BotApart'
      BY <2>2, <3>2 DEF OnceIInv, vars, BotApart, Apart, Wanted
    <3> QED
      BY <3>1, <3>3, <3>4 DEF OnceIInv
  <2> QED
    BY <2>1, <2>2
<1>2. OnceIInv => BotInv
  <2> SUFFICES ASSUME OnceIInv PROVE TypeOK /\ BotForwardsOnce
    BY DEF BotInv
  <2>1. DataTypes /\ BusTypes
    BY DEF OnceIInv, DataIInv, BusInv
  <2>2. \A t \in HistoryTypes : \A i \in DOMAIN ring[t] : ring[t][i] \in Event
    BY <2>1, LenProperties, ElementOfSeq DEF DataTypes
  <2>3. \A r \in Recorder : \A i \in DOMAIN hand[r] : hand[r][i] \in Event
    BY <2>1, LenProperties, ElementOfSeq DEF DataTypes
  <2>4. \A s \in Sub : Len(at[s]) <= 1
    <3> SUFFICES ASSUME NEW s \in Sub PROVE Len(at[s]) <= 1
      OBVIOUS
    <3>1. CASE Len(at[s]) = 1
      BY <3>1
    <3>2. CASE at[s] = <<>>
      BY <3>2
    <3> QED
      BY <3>1, <3>2 DEF OnceIInv, DataIInv, AtBusy
  <2>5. ToSet(forwarded) \subseteq Event
    BY <2>1, ElementsTyped DEF DataTypes
  <2>6. TypeOK
    <3>1. \A t \in HistoryTypes : /\ Len(ring[t]) <= MaxRing[t]
                                   /\ \A i \in DOMAIN ring[t] : ring[t][i] \in Event
      BY <2>1, <2>2 DEF DataTypes
    <3>2. \A s \in Sub : Len(queue[s]) <= Buffer /\ got[s] \subseteq Event /\ dropped[s] \subseteq Event
      BY <2>1 DEF DataTypes
    <3>3. \A r \in Recorder : pending[r] \subseteq Sub
      BY <2>1 DEF BusTypes
    <3>4. taken \subseteq Item /\ failed \subseteq Event
      BY <2>1 DEF DataTypes
    <3>5. /\ subscribers \subseteq Sub /\ st \in [Sub -> SubStates]
          /\ rpc \in [Recorder -> {"idle", "record", "publish", "sending"}]
      BY <2>1 DEF BusTypes
    <3> QED
      BY <2>3, <2>4, <2>5, <3>1, <3>2, <3>3, <3>4, <3>5, Zenon DEF TypeOK
  <2>7. BotForwardsOnce
    <3>1. \A i \in DOMAIN forwarded : forwarded[i] \in ToSet(forwarded)
      BY DEF ToSet
    <3> QED
      BY <3>1 DEF OnceIInv, ForwardedOnce, IsInjective, Wanted, BotForwardsOnce
  <2> QED
    BY <2>6, <2>7
<1> QED
  BY InitOnce, <1>1, <1>2, PTL DEF Spec
=============================================================================
