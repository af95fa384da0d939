------------------------ MODULE DashboardChatProofs ------------------------
(***************************************************************************)
(* Proofs about DashboardChat, for any channels, texts, rings, limits and  *)
(* delays: the page shows the list it keeps, of the selected channel, a    *)
(* message is sent once, and a page that heard all the server sent it has  *)
(* the server's history.                                                   *)
(***************************************************************************)
EXTENDS DashboardChat, SequenceTheorems, FiniteSetTheorems, TLAPS

(***************************************************************************)
(* The server and the stream.                                              *)
(***************************************************************************)
\* An event as the page receives it: a history carries messages, a message one.
Event ==
  {EventOf(t, <<>>) : t \in {"open", "error"}}
    \cup {EventOf("chat_history", msgs) : msgs \in Seq(Message)}
    \cup {EventOf("chat_message", <<m>>) : m \in Message}

StreamTypes ==
  /\ ring \in Seq(Message) /\ Len(ring) <= Ring /\ recorded \in 0 .. MaxRecords
  /\ server \in {"none", "subscribed", "loop"}
  /\ conn \in {"connecting", "open", "waiting"} /\ delay \in MinDelay .. MaxDelay
  /\ faults \in 0 .. MaxFaults
  /\ pending \in Seq(Event) /\ queue \in Seq(Event)

\* The constants that are numbers.
LEMMA NumbersAssumed ==
  /\ Ring \in Nat \ {0} /\ MaxList \in Nat \ {0}
  /\ MinDelay \in Nat \ {0} /\ MaxDelay \in Nat /\ MinDelay <= MaxDelay
  /\ MaxRecords \in Nat /\ MaxFaults \in Nat
  BY ChatAssumption, Zenon

\* The last n of a sequence (ring_buffer.go:5-11).
LEMMA LastOfBounded ==
  ASSUME NEW S, NEW s \in Seq(S), NEW n \in Nat \ {0}
  PROVE  LastOf(n, s) \in Seq(S) /\ Len(LastOf(n, s)) <= n
<1> DEFINE k == 1 + (IF Len(s) > n THEN Len(s) - n ELSE 0)
<1>1. Len(s) \in Nat /\ k \in Int /\ k >= 1
  BY LenProperties
<1>2. \A i \in k .. Len(s) : s[i] \in S
  BY <1>1, ElementOfSeq
<1>3. (IF k <= Len(s) THEN Len(s) - k + 1 ELSE 0) <= n
  BY <1>1
<1> HIDE DEF k
<1>4. /\ SubSeq(s, k, Len(s)) \in Seq(S)
      /\ Len(SubSeq(s, k, Len(s))) = IF k <= Len(s) THEN Len(s) - k + 1 ELSE 0
  BY <1>1, <1>2, SubSeqProperties
<1>5. LastOf(n, s) = SubSeq(s, k, Len(s))
  BY DEF LastOf, k
<1> QED
  BY <1>3, <1>4, <1>5

\* A prefix of a sequence.
LEMMA PrefixTyped ==
  ASSUME NEW S, NEW s \in Seq(S), NEW k \in 0 .. Len(s)
  PROVE  SubSeq(s, 1, k) \in Seq(S)
<1>1. Len(s) \in Nat
  BY LenProperties
<1>2. \A i \in 1 .. k : s[i] \in S
  BY <1>1, ElementOfSeq
<1> QED
  BY <1>1, <1>2, SubSeqProperties

\* The first stream is being opened and nothing has been recorded (app.js:238).
LEMMA InitStream == Init => StreamTypes
<1> SUFFICES ASSUME Init PROVE StreamTypes
  OBVIOUS
<1>1. <<>> \in Seq(Message) /\ <<>> \in Seq(Event) /\ Len(<<>>) = 0
  OBVIOUS
<1>2. /\ ring = <<>> /\ pending = <<>> /\ queue = <<>> /\ recorded = 0 /\ faults = 0
      /\ delay = MinDelay /\ server = "none" /\ conn = "connecting"
  BY DEF Init
<1>3. Len(ring) <= Ring
  BY <1>1, <1>2, NumbersAssumed
<1>4. recorded \in 0 .. MaxRecords /\ faults \in 0 .. MaxFaults /\ delay \in MinDelay .. MaxDelay
  BY <1>2, NumbersAssumed
<1> QED
  BY <1>1, <1>2, <1>3, <1>4 DEF StreamTypes

\* A message is recorded and published (metrics.go RecordChatMessage).
LEMMA RecordStream == ASSUME StreamTypes, NEW c \in Channel, Record(c) PROVE StreamTypes'
<1> DEFINE m == [id |-> recorded + 1, ch |-> c]
           e == EventOf("chat_message", <<m>>)
<1>1. m \in Message /\ recorded' \in 0 .. MaxRecords
  BY NumbersAssumed DEF Record, StreamTypes, Message
<1>2. e \in Event
  BY <1>1 DEF Event
<1>3. ring' = LastOf(Ring, Append(ring, m))
  BY DEF Record
<1>4. /\ pending' \in {pending, Append(pending, e)} /\ queue' \in {queue, Append(queue, e)}
      /\ UNCHANGED <<server, conn, delay, faults>>
  BY DEF Record
<1> HIDE DEF m, e
<1>5. Append(ring, m) \in Seq(Message)
  BY <1>1, AppendProperties DEF StreamTypes
<1>6. ring' \in Seq(Message) /\ Len(ring') <= Ring
  BY <1>3, <1>5, LastOfBounded, NumbersAssumed
<1>7. Append(pending, e) \in Seq(Event) /\ Append(queue, e) \in Seq(Event)
  BY <1>2, AppendProperties DEF StreamTypes
<1> QED
  BY <1>1, <1>4, <1>6, <1>7 DEF StreamTypes

\* A new stream sends its history and then what was published meanwhile
\* (server.go:485-527).
LEMMA HistoryStream == ASSUME StreamTypes, SendHistory PROVE StreamTypes'
<1>1. EventOf("open", <<>>) \in Event /\ EventOf("chat_history", ring) \in Event
  BY DEF Event, StreamTypes
<1>2. <<EventOf("open", <<>>), EventOf("chat_history", ring)>> \in Seq(Event)
  BY <1>1
<1>3. <<EventOf("open", <<>>), EventOf("chat_history", ring)>> \o pending \in Seq(Event)
  BY <1>2, ConcatProperties DEF StreamTypes
<1>4. /\ queue' \in Seq(Event) /\ pending' = <<>> /\ server' = "loop"
      /\ UNCHANGED <<ring, recorded, conn, delay, faults>>
  BY <1>3 DEF SendHistory
<1>5. <<>> \in Seq(Event)
  OBVIOUS
<1> QED
  BY <1>4, <1>5 DEF StreamTypes

\* A stream breaks after a prefix of what was written (app.js:249-256).
LEMMA BreakStream == ASSUME StreamTypes, Break PROVE StreamTypes'
<1>1. PICK k \in 0 .. Len(queue) : queue' = Append(SubSeq(queue, 1, k), EventOf("error", <<>>))
  BY DEF Break
<1>2. SubSeq(queue, 1, k) \in Seq(Event)
  BY PrefixTyped DEF StreamTypes
<1>3. EventOf("error", <<>>) \in Event
  BY DEF Event
<1>4. queue' \in Seq(Event)
  BY <1>1, <1>2, <1>3, AppendProperties
<1>5. <<>> \in Seq(Event) /\ <<>> \in Seq(Message) /\ Len(<<>>) = 0
  OBVIOUS
<1>6. ring' \in Seq(Message) /\ Len(ring') <= Ring
  <2>1. ring' = ring \/ ring' = <<>>
    BY DEF Break
  <2>2. CASE ring' = ring
    BY <2>2 DEF StreamTypes
  <2>3. CASE ring' = <<>>
    BY <2>3, <1>5, NumbersAssumed
  <2> QED
    BY <2>1, <2>2, <2>3
<1>7. faults' \in 0 .. MaxFaults
  BY NumbersAssumed DEF Break, StreamTypes
<1> QED
  BY <1>4, <1>5, <1>6, <1>7 DEF Break, StreamTypes

\* The delay stays within its bounds (app.js:252-254).
LEMMA DelayBounded == ASSUME StreamTypes PROVE Doubled \in MinDelay .. MaxDelay
<1>1. delay \in Nat /\ MinDelay <= delay /\ MinDelay \in Nat \ {0} /\ MaxDelay \in Nat
  BY NumbersAssumed DEF StreamTypes
<1>2. 2 * delay \in Nat /\ MinDelay <= 2 * delay
  BY <1>1
<1> QED
  BY <1>1, <1>2, NumbersAssumed DEF Doubled

\* The page handles the head of the queue.
LEMMA HandledStream ==
  ASSUME StreamTypes, queue # <<>>, Handled
  PROVE  Head(queue) \in Event /\ queue' \in Seq(Event)
  BY HeadTailProperties DEF StreamTypes, Handled

\* Every step keeps the types of the stream.
LEMMA StreamStep == ASSUME StreamTypes, [Next]_vars PROVE StreamTypes'
<1>1. CASE \E c \in Channel : Record(c)
  BY <1>1, RecordStream
<1>2. CASE Subscribe
  BY <1>2 DEF Subscribe, StreamTypes, streamVars
<1>3. CASE SendHistory \/ Break
  BY <1>3, HistoryStream, BreakStream
<1>4. CASE PageStep
  <2>1. queue' \in Seq(Event)
    BY <1>4, HandledStream
    DEF PageStep, OnOpen, OnError, OnChatHistory, OnChatMessage, Handles
  <2>2. /\ UNCHANGED <<serverVars, faults>>
        /\ conn' \in {"open", "waiting", conn} /\ delay' \in {MinDelay, Doubled, delay}
    BY <1>4 DEF PageStep, OnOpen, OnError, OnChatHistory, OnChatMessage
  <2>3. MinDelay \in MinDelay .. MaxDelay
    BY NumbersAssumed
  <2> QED
    BY <2>1, <2>2, <2>3, DelayBounded DEF StreamTypes, serverVars
<1>5. CASE Reconnect
  BY <1>5 DEF Reconnect, StreamTypes, serverVars
<1>6. CASE \/ TogglePause \/ LoadScript \/ initChat \/ (\E cs \in Answers : LoadChannels(cs))
           \/ LoadChannelsFails \/ (\E c \in Channel : ClickChannel(c))
           \/ (\E t \in Text \cup {"", " "} : Type(t)) \/ sendMessage
           \/ (\E i \in DOMAIN posts, ok \in BOOLEAN : SendAnswered(i, ok))
           \/ UNCHANGED vars
  <2>1. UNCHANGED <<serverVars, streamVars>>
    BY <1>6 DEF TogglePause, LoadScript, initChat, LoadChannels, LoadChannelsFails, ClickChannel,
                Type, sendMessage, SendAnswered, vars
  <2> QED
    BY <2>1 DEF StreamTypes, serverVars, streamVars
<1> QED
  BY <1>1, <1>2, <1>3, <1>4, <1>5, <1>6 DEF Next, ServerStep

(***************************************************************************)
(* The list and the page.                                                  *)
(***************************************************************************)
Element == [msg : Message, shown : BOOLEAN]

PageTypes ==
  /\ paused \in BOOLEAN /\ loaded \in BOOLEAN /\ missed \in BOOLEAN
  /\ asked \in {"no", "asked", "done"} /\ channels \in Seq(Channel) /\ active \in Channel
  /\ badges \in [ToSet(channels) -> Nat] /\ emptyNote \in BOOLEAN

\* The elements d are those of the messages a, one for one.
Mirrors(d, a) ==
  /\ a \in Seq(Message) /\ d \in Seq(Element)
  /\ Len(d) = Len(a) /\ \A i \in 1 .. Len(a) : d[i].msg = a[i]

ShowsOnly(d, c) == \A i \in 1 .. Len(d) : d[i].shown <=> d[i].msg.ch = c

ListIInv ==
  /\ PageTypes /\ Mirrors(dom, all) /\ ShowsOnly(dom, active)
  /\ emptyNote => NoneShown(dom)
  /\ BadgesCount

\* The number of messages of a channel is a number.
LEMMA CountTyped == ASSUME NEW msgs \in Seq(Message), NEW c PROVE CountOf(msgs, c) \in Nat
<1>1. DOMAIN msgs = 1 .. Len(msgs) /\ Len(msgs) \in Nat
  BY LenProperties
<1>2. IsFiniteSet(DOMAIN msgs)
  BY <1>1, FS_Interval
<1>3. {i \in DOMAIN msgs : msgs[i].ch = c} \in SUBSET DOMAIN msgs
  OBVIOUS
<1>4. IsFiniteSet({i \in DOMAIN msgs : msgs[i].ch = c})
  BY <1>2, <1>3, FS_Subset
<1> QED
  BY <1>4, FS_CardinalityType DEF CountOf

\* The badges counted anew are right (chat.js:158-172).
LEMMA BadgesCounted ==
  ASSUME PageTypes, NEW msgs \in Seq(Message)
  PROVE  /\ updateBadges(msgs) \in [ToSet(channels) -> Nat]
         /\ \A c \in ToSet(channels) : updateBadges(msgs)[c] = CountOf(msgs, c)
  BY CountTyped DEF PageTypes, updateBadges

\* A filter leaves the messages and shows those of its channel (chat.js:143-155).
LEMMA FilterRight ==
  ASSUME NEW a, NEW d, Mirrors(d, a), NEW c \in Channel
  PROVE  Mirrors(Filtered(d, c), a) /\ ShowsOnly(Filtered(d, c), c)
<1> DEFINE f == Filtered(d, c)
<1>1. /\ d \in Seq(Element) /\ DOMAIN d = 1 .. Len(d) /\ Len(d) \in Nat
      /\ \A i \in 1 .. Len(d) : d[i] \in Element
  BY LenProperties, ElementOfSeq DEF Mirrors
<1>2. f = [i \in 1 .. Len(d) |-> [d[i] EXCEPT !.shown = d[i].msg.ch = c]]
  BY <1>1 DEF Filtered
<1>3. \A i \in 1 .. Len(d) : /\ f[i] \in Element /\ f[i].msg = d[i].msg
                             /\ f[i].shown <=> d[i].msg.ch = c
  BY <1>1, <1>2 DEF Element
<1>4. f \in [1 .. Len(d) -> Element]
  BY <1>2, <1>3, Zenon
<1> HIDE DEF f
<1>5. f \in Seq(Element) /\ Len(f) = Len(d)
  BY <1>1, <1>4
<1> QED
  BY <1>3, <1>5 DEF Mirrors, ShowsOnly, f

\* The elements made of a history (chat.js:175-190).
LEMMA ElementsMirror == ASSUME NEW msgs \in Seq(Message) PROVE Mirrors(ElementsOf(msgs), msgs)
<1>1. /\ DOMAIN msgs = 1 .. Len(msgs) /\ Len(msgs) \in Nat
      /\ \A i \in 1 .. Len(msgs) : msgs[i] \in Message
  BY LenProperties, ElementOfSeq
<1>2. ElementsOf(msgs) = [i \in 1 .. Len(msgs) |-> [msg |-> msgs[i], shown |-> TRUE]]
  BY <1>1 DEF ElementsOf
<1>3. \A i \in 1 .. Len(msgs) : /\ ElementsOf(msgs)[i] \in Element
                                /\ ElementsOf(msgs)[i].msg = msgs[i]
  BY <1>1, <1>2 DEF Element
<1>4. ElementsOf(msgs) \in Seq(Element) /\ Len(ElementsOf(msgs)) = Len(msgs)
  BY <1>1, <1>2, <1>3
<1> QED
  BY <1>3, <1>4 DEF Mirrors

\* A message appended to both, and the oldest taken from both.
LEMMA AppendMirrors ==
  ASSUME NEW a, NEW d, Mirrors(d, a), NEW m \in Message, NEW c \in Channel, ShowsOnly(d, c),
         NEW e \in Element, e.msg = m, e.shown <=> m.ch = c
  PROVE  Mirrors(Append(d, e), Append(a, m)) /\ ShowsOnly(Append(d, e), c)
<1>1. /\ a \in Seq(Message) /\ d \in Seq(Element) /\ Len(d) = Len(a) /\ Len(a) \in Nat
      /\ \A i \in 1 .. Len(a) : d[i].msg = a[i]
  BY LenProperties DEF Mirrors
<1>2. /\ Append(a, m) \in Seq(Message) /\ Len(Append(a, m)) = Len(a) + 1
      /\ \A i \in 1 .. Len(a) : Append(a, m)[i] = a[i]
      /\ Append(a, m)[Len(a) + 1] = m
  BY <1>1, AppendProperties
<1>3. /\ Append(d, e) \in Seq(Element) /\ Len(Append(d, e)) = Len(a) + 1
      /\ \A i \in 1 .. Len(a) : Append(d, e)[i] = d[i]
      /\ Append(d, e)[Len(a) + 1] = e
  BY <1>1, AppendProperties
<1>4. ASSUME NEW i \in 1 .. Len(a) + 1
      PROVE  /\ Append(d, e)[i].msg = Append(a, m)[i]
             /\ Append(d, e)[i].shown <=> Append(d, e)[i].msg.ch = c
  <2>1. CASE i \in 1 .. Len(a)
    BY <1>1, <1>2, <1>3, <2>1 DEF ShowsOnly
  <2>2. CASE i = Len(a) + 1
    BY <1>2, <1>3, <2>2
  <2> QED
    BY <1>1, <2>1, <2>2
<1> QED
  BY <1>2, <1>3, <1>4 DEF Mirrors, ShowsOnly

\* Dropping the oldest message and the oldest element together keeps the page a
\* mirror of the list.
LEMMA TailMirrors ==
  ASSUME NEW a, NEW d, Mirrors(d, a), a # <<>>, NEW c, ShowsOnly(d, c)
  PROVE  d # <<>> /\ Mirrors(Tail(d), Tail(a)) /\ ShowsOnly(Tail(d), c)
<1>1. /\ a \in Seq(Message) /\ d \in Seq(Element) /\ Len(d) = Len(a) /\ Len(a) \in Nat \ {0}
      /\ \A i \in 1 .. Len(a) : d[i].msg = a[i]
  BY LenProperties, EmptySeq DEF Mirrors
<1>2. d # <<>>
  BY <1>1, EmptySeq
<1>3. /\ Tail(a) \in Seq(Message) /\ Len(Tail(a)) = Len(a) - 1
      /\ \A i \in 1 .. Len(a) - 1 : Tail(a)[i] = a[i + 1]
  BY <1>1, HeadTailProperties
<1>4. /\ Tail(d) \in Seq(Element) /\ Len(Tail(d)) = Len(a) - 1
      /\ \A i \in 1 .. Len(a) - 1 : Tail(d)[i] = d[i + 1]
  BY <1>1, <1>2, HeadTailProperties
<1>5. \A i \in 1 .. Len(a) - 1 : i + 1 \in 1 .. Len(a)
  BY <1>1
<1> QED
  BY <1>1, <1>2, <1>3, <1>4, <1>5 DEF Mirrors, ShowsOnly

\* The page is empty in the beginning (chat.js:1-20).
LEMMA InitList == Init => ListIInv
<1> SUFFICES ASSUME Init PROVE ListIInv
  OBVIOUS
<1>1. /\ all = <<>> /\ dom = <<>> /\ channels = <<>> /\ badges = <<>> /\ emptyNote = TRUE
      /\ paused = FALSE /\ loaded = FALSE /\ missed = FALSE /\ asked = "no" /\ active = 0
  BY DEF Init
<1>2. 0 \in Channel
  BY ChatAssumption, Zenon
<1>3. /\ <<>> \in Seq(Channel) /\ <<>> \in Seq(Message) /\ <<>> \in Seq(Element)
      /\ Len(<<>>) = 0 /\ DOMAIN <<>> = {} /\ ToSet(<<>>) = {}
  BY DEF ToSet
<1>4. <<>> \in [{} -> Nat]
  OBVIOUS
<1>5. PageTypes
  BY <1>1, <1>2, <1>3, <1>4 DEF PageTypes
<1>6. Mirrors(dom, all) /\ ShowsOnly(dom, active) /\ NoneShown(dom) /\ BadgesCount
  BY <1>1, <1>3 DEF Mirrors, ShowsOnly, NoneShown, BadgesCount
<1> QED
  BY <1>5, <1>6 DEF ListIInv

\* A history replaces the list, unless it is empty (chat.js:175-190).
LEMMA HistoryKeepsList ==
  ASSUME ListIInv, NEW msgs \in Seq(Message), loadChatHistory(msgs),
         UNCHANGED pageVars, missed' \in BOOLEAN
  PROVE  ListIInv'
<1>0. PageTypes /\ active \in Channel /\ UNCHANGED <<paused, loaded, asked, channels, active>>
  BY DEF ListIInv, PageTypes, pageVars
<1>1. CASE msgs = <<>>
  <2>1. UNCHANGED listVars
    BY <1>1 DEF loadChatHistory
  <2> QED
    BY <1>0, <2>1 DEF ListIInv, PageTypes, listVars, Mirrors, ShowsOnly, NoneShown, BadgesCount, CountOf
<1>2. CASE msgs # <<>>
  <2> DEFINE d == Filtered(ElementsOf(msgs), active)
  <2>1. /\ all' = msgs /\ badges' = updateBadges(msgs) /\ dom' = d /\ emptyNote' = NoneShown(d)
    BY <1>2 DEF loadChatHistory, applyChatFilter
  <2>2. Mirrors(d, msgs) /\ ShowsOnly(d, active)
    BY <1>0, ElementsMirror, FilterRight
  <2>3. NoneShown(d) \in BOOLEAN
    BY DEF NoneShown
  <2> HIDE DEF d
  <2>4. /\ badges' \in [ToSet(channels) -> Nat]
        /\ \A c \in ToSet(channels) : badges'[c] = CountOf(msgs, c)
    BY <1>0, <2>1, BadgesCounted
  <2>5. PageTypes'
    BY <1>0, <2>1, <2>3, <2>4 DEF PageTypes
  <2>6. BadgesCount'
    BY <2>1, <2>4 DEF BadgesCount, CountOf
  <2>7. Mirrors(dom, all)' /\ ShowsOnly(dom, active)' /\ (emptyNote' => NoneShown(dom)')
    BY <1>0, <2>1, <2>2 DEF Mirrors, ShowsOnly, NoneShown
  <2> QED
    BY <2>5, <2>6, <2>7 DEF ListIInv
<1> QED
  BY <1>1, <1>2

\* A message is appended to the list and to the page, and the oldest taken from
\* both when there is one too many (chat.js:192-211).
LEMMA MessageKeepsList ==
  ASSUME ListIInv, NEW m \in Message, appendChatMessage(m),
         UNCHANGED pageVars, missed' \in BOOLEAN
  PROVE  ListIInv'
<1> DEFINE kept == Trim(Append(all, m), dom)
           e == ElementFor(m)
<1>0. /\ PageTypes /\ active \in Channel /\ UNCHANGED <<paused, loaded, asked, channels, active>>
      /\ Mirrors(dom, all) /\ ShowsOnly(dom, active)
  BY DEF ListIInv, PageTypes, pageVars
<1>1. e \in Element /\ e.msg = m /\ (e.shown <=> m.ch = active)
  BY DEF ElementFor, Element
<1>2. /\ all' = kept.msgs /\ dom' = Append(kept.els, e) /\ emptyNote' = FALSE
      /\ badges' = updateBadges(kept.msgs)
  BY DEF appendChatMessage
<1>3. all \in Seq(Message) /\ Len(all) \in Nat /\ Len(Append(all, m)) = Len(all) + 1
  BY <1>0, LenProperties, AppendProperties DEF Mirrors
<1>4. \/ all' = Append(all, m) /\ dom' = Append(dom, e)
      \/ all # <<>> /\ all' = Append(Tail(all), m) /\ dom' = Append(Tail(dom), e)
  <2>1. CASE Len(Append(all, m)) > MaxList
    <3>1. all # <<>>
      BY <1>3, <2>1, NumbersAssumed
    <3>2. dom # <<>>
      BY <1>0, <3>1, TailMirrors
    <3>3. Tail(Append(all, m)) = Append(Tail(all), m)
      BY <1>3, <3>1, HeadTailAppend
    <3>4. kept = [msgs |-> Tail(Append(all, m)), els |-> Tail(dom)]
      BY <2>1, <3>2 DEF Trim
    <3>5. kept.msgs = Tail(Append(all, m)) /\ kept.els = Tail(dom)
      BY <3>4
    <3> HIDE DEF kept, e
    <3> QED
      BY <1>2, <3>1, <3>3, <3>5
  <2>2. CASE ~(Len(Append(all, m)) > MaxList)
    <3>1. kept = [msgs |-> Append(all, m), els |-> dom]
      BY <2>2 DEF Trim
    <3>2. kept.msgs = Append(all, m) /\ kept.els = dom
      BY <3>1
    <3> HIDE DEF kept, e
    <3> QED
      BY <1>2, <3>2
  <2> QED
    BY <2>1, <2>2
<1> HIDE DEF kept, e
<1>5. Mirrors(dom', all') /\ ShowsOnly(dom', active)
  <2>1. CASE all' = Append(all, m) /\ dom' = Append(dom, e)
    BY <1>0, <1>1, <2>1, AppendMirrors
  <2>2. CASE all # <<>> /\ all' = Append(Tail(all), m) /\ dom' = Append(Tail(dom), e)
    <3>1. Mirrors(Tail(dom), Tail(all)) /\ ShowsOnly(Tail(dom), active)
      BY <1>0, <2>2, TailMirrors
    <3> QED
      BY <1>0, <1>1, <2>2, <3>1, AppendMirrors
  <2> QED
    BY <1>4, <2>1, <2>2
<1>6. all' \in Seq(Message) /\ badges' = updateBadges(all')
  BY <1>2, <1>5 DEF Mirrors
<1>7. /\ badges' \in [ToSet(channels) -> Nat]
      /\ \A c \in ToSet(channels) : badges'[c] = CountOf(all', c)
  BY <1>0, <1>6, BadgesCounted
<1>8. PageTypes'
  BY <1>0, <1>2, <1>7 DEF PageTypes
<1>9. BadgesCount'
  BY <1>7 DEF BadgesCount, CountOf
<1>10. Mirrors(dom, all)' /\ ShowsOnly(dom, active)' /\ emptyNote' = FALSE
  BY <1>0, <1>2, <1>5 DEF Mirrors, ShowsOnly
<1> QED
  BY <1>8, <1>9, <1>10 DEF ListIInv

\* A channel is selected: only the filter changes (chat.js:55-74).
LEMMA SelectKeepsList ==
  ASSUME ListIInv, NEW c \in Channel, selectChannel(c), UNCHANGED <<all, missed>>,
         paused' \in BOOLEAN, loaded' \in BOOLEAN, asked' \in {"no", "asked", "done"},
         channels' \in Seq(Channel), badges' \in [ToSet(channels') -> Nat], BadgesCount'
  PROVE  ListIInv'
<1> DEFINE d == Filtered(dom, c)
<1>1. active' = c /\ dom' = d /\ emptyNote' = NoneShown(d)
  BY DEF selectChannel, applyChatFilter
<1>2. Mirrors(d, all) /\ ShowsOnly(d, c)
  BY FilterRight DEF ListIInv
<1>3. NoneShown(d) \in BOOLEAN
  BY DEF NoneShown
<1> HIDE DEF d
<1>4. PageTypes'
  BY <1>1, <1>3 DEF ListIInv, PageTypes
<1>5. Mirrors(dom, all)' /\ ShowsOnly(dom, active)' /\ (emptyNote' => NoneShown(dom)')
  BY <1>1, <1>2 DEF Mirrors, ShowsOnly, NoneShown
<1> QED
  BY <1>4, <1>5 DEF ListIInv

\* The sidebar is built, with empty badges (chat.js:22-52).
LEMMA ChannelsKeepList ==
  ASSUME ListIInv, NEW cs \in Answers, LoadChannels(cs)
  PROVE  ListIInv'
<1>1. cs \in Seq(Channel)
  BY ChatAssumption, Zenon
<1>2. /\ channels' = cs /\ badges' = [c \in ToSet(cs) |-> 0] /\ asked' = "done"
      /\ UNCHANGED <<all, paused, loaded, missed>>
  BY DEF LoadChannels
<1>3. channels' \in Seq(Channel) /\ badges' \in [ToSet(channels') -> Nat] /\ BadgesCount'
  BY <1>1, <1>2 DEF BadgesCount
<1>4. CASE cs = <<>>
  <2>1. UNCHANGED <<active, dom, emptyNote>>
    BY <1>4 DEF LoadChannels
  <2>2. PageTypes'
    BY <1>2, <1>3, <2>1 DEF ListIInv, PageTypes
  <2> QED
    BY <1>2, <1>3, <2>1, <2>2 DEF ListIInv, Mirrors, ShowsOnly, NoneShown
<1>5. CASE cs # <<>>
  <2>1. cs[1] \in Channel
    BY <1>1, <1>5, EmptySeq, LenProperties, ElementOfSeq
  <2>2. selectChannel(cs[1])
    BY <1>5 DEF LoadChannels
  <2>3. paused' \in BOOLEAN /\ loaded' \in BOOLEAN
    BY <1>2 DEF ListIInv, PageTypes
  <2> QED
    BY <1>2, <1>3, <2>1, <2>2, <2>3, SelectKeepsList
<1> QED
  BY <1>4, <1>5

\* Every step keeps the page and its list together.
LEMMA ListStep == ASSUME StreamTypes, ListIInv, [Next]_vars PROVE ListIInv'
<1>0. PageTypes
  BY DEF ListIInv
<1>1. CASE OnChatHistory
  <2>1. Head(queue) \in Event /\ Head(queue).type = "chat_history"
    BY <1>1, HandledStream DEF OnChatHistory, Handles
  <2>2. Head(queue).msgs \in Seq(Message)
    BY <2>1 DEF Event, EventOf
  <2>3. UNCHANGED pageVars /\ missed' \in BOOLEAN
    BY <1>0, <1>1 DEF OnChatHistory, PageTypes
  <2>4. CASE loaded
    BY <1>1, <2>2, <2>3, <2>4, HistoryKeepsList DEF OnChatHistory
  <2>5. CASE ~loaded
    <3>1. UNCHANGED listVars
      BY <1>1, <2>5 DEF OnChatHistory
    <3> QED
      BY <2>3, <3>1 DEF ListIInv, PageTypes, pageVars, listVars, Mirrors, ShowsOnly, NoneShown,
                        BadgesCount, CountOf
  <2> QED
    BY <2>4, <2>5
<1>2. CASE OnChatMessage
  <2>1. Head(queue) \in Event /\ Head(queue).type = "chat_message"
    BY <1>2, HandledStream DEF OnChatMessage, Handles
  <2>2. Head(queue).msgs[1] \in Message
    BY <2>1 DEF Event, EventOf
  <2>3. UNCHANGED pageVars /\ missed' \in BOOLEAN
    BY <1>0, <1>2 DEF OnChatMessage, PageTypes
  <2>4. CASE ~(paused \/ ~loaded)
    BY <1>2, <2>2, <2>3, <2>4, MessageKeepsList DEF OnChatMessage
  <2>5. CASE paused \/ ~loaded
    <3>1. UNCHANGED listVars
      BY <1>2, <2>5 DEF OnChatMessage
    <3> QED
      BY <2>3, <3>1 DEF ListIInv, PageTypes, pageVars, listVars, Mirrors, ShowsOnly, NoneShown,
                        BadgesCount, CountOf
  <2> QED
    BY <2>4, <2>5
<1>3. CASE \E cs \in Answers : LoadChannels(cs)
  BY <1>3, ChannelsKeepList
<1>4. ASSUME NEW c \in Channel, ClickChannel(c) PROVE ListIInv'
  <2>1. /\ selectChannel(c)
        /\ UNCHANGED <<all, badges, paused, loaded, asked, channels, missed>>
    BY <1>4 DEF ClickChannel
  <2>2. BadgesCount'
    BY <2>1 DEF ListIInv, BadgesCount, CountOf
  <2> QED
    BY <1>0, <2>1, <2>2, SelectKeepsList DEF PageTypes
<1>5. CASE \/ (\E c \in Channel : Record(c)) \/ ServerStep \/ Break \/ OnOpen \/ OnError \/ Reconnect
           \/ TogglePause \/ LoadScript \/ initChat \/ LoadChannelsFails
           \/ (\E t \in Text \cup {"", " "} : Type(t)) \/ sendMessage
           \/ (\E i \in DOMAIN posts, ok \in BOOLEAN : SendAnswered(i, ok))
           \/ UNCHANGED vars
  <2>1. UNCHANGED <<listVars, channels, active>>
    BY <1>5, Zenon
    DEF Record, ServerStep, Subscribe, SendHistory, Break, OnOpen, OnError, Reconnect, TogglePause,
        LoadScript, initChat, LoadChannelsFails, Type, sendMessage, SendAnswered, vars, pageVars
  <2>2. /\ missed' \in {TRUE, FALSE, missed} /\ paused' \in {paused, ~paused}
        /\ loaded' \in {TRUE, loaded} /\ asked' \in {"asked", "done", asked}
    BY <1>5
    DEF Record, ServerStep, Subscribe, SendHistory, Break, OnOpen, OnError, Reconnect, TogglePause,
        LoadScript, initChat, LoadChannelsFails, Type, sendMessage, SendAnswered, vars, pageVars
  <2>3. PageTypes'
    BY <1>0, <2>1, <2>2 DEF PageTypes, listVars
  <2> QED
    BY <2>1, <2>3 DEF ListIInv, listVars, Mirrors, ShowsOnly, NoneShown, BadgesCount, CountOf
<1> QED
  BY <1>1, <1>2, <1>3, <1>4, <1>5 DEF Next, PageStep

(***************************************************************************)
(* Sending.                                                                *)
(***************************************************************************)
Typed == Text \cup {"", " "}
Post  == [text : Text, ch : Channel]

\* The field is disabled as long as a request is under way.
OffWhilePosting == posts # <<>> => inputOff

SendIInv ==
  /\ input \in Typed /\ posts \in Seq(Post) /\ inputOff \in BOOLEAN /\ sendOff \in BOOLEAN
  /\ ClearsOnlySent /\ SendButtonRight /\ OffWhilePosting

\* What is typed is blank or a text (chat.js:221-226).
LEMMA TrimmedIsText == /\ \A t \in Typed : Trimmed(t) # "" => Trimmed(t) \in Text
                       /\ "" \in Typed
  BY ChatAssumption, Zenon DEF Typed, Trimmed

\* No request under way is one at most.
LEMMA NoPosts == <<>> \in Seq(Post) /\ Len(<<>>) <= 1 /\ \A i \in DOMAIN <<>> : FALSE
  OBVIOUS

\* The field is empty in the beginning.
LEMMA InitSend == Init => SendIInv
<1> SUFFICES ASSUME Init PROVE SendIInv
  OBVIOUS
<1>1. input = "" /\ inputOff = FALSE /\ sendOff = TRUE /\ posts = <<>>
  BY DEF Init
<1>3. Trimmed("") = ""
  BY Zenon DEF Trimmed
<1>4. ClearsOnlySent
  BY <1>1, NoPosts, Zenon DEF ClearsOnlySent
<1>5. SendButtonRight /\ OffWhilePosting
  BY <1>1, <1>3, Zenon DEF SendButtonRight, OffWhilePosting
<1> QED
  BY <1>1, <1>4, <1>5, NoPosts, TrimmedIsText, Zenon DEF SendIInv

\* Only an enabled field is typed into (chat.js:247-256).
LEMMA TypeKeepsSend ==
  ASSUME SendIInv, NEW t \in Typed, Type(t)
  PROVE  SendIInv'
<1>1. /\ inputOff = FALSE /\ input' = t /\ sendOff' = (Trimmed(t) = "")
      /\ UNCHANGED <<inputOff, posts>>
  BY DEF Type, SendOffFor, SendIInv
<1>2. posts = <<>> /\ posts' = <<>>
  BY <1>1 DEF SendIInv, OffWhilePosting
<1>3. sendOff' \in BOOLEAN
  BY <1>1, Zenon
<1>4. ClearsOnlySent'
  BY <1>2, NoPosts, Zenon DEF ClearsOnlySent
<1>5. SendButtonRight' /\ OffWhilePosting'
  BY <1>1, <1>2 DEF SendButtonRight, OffWhilePosting
<1> QED
  BY <1>1, <1>3, <1>4, <1>5 DEF SendIInv

\* A request starts only when none is under way: the field and the button are
\* both disabled until it is answered (chat.js:221-232).
LEMMA SendKeepsSend ==
  ASSUME SendIInv, active \in Channel, sendMessage
  PROVE  SendIInv'
<1> DEFINE p == [text |-> Trimmed(input), ch |-> active]
<1>1. /\ ~(sendOff /\ inputOff) /\ Trimmed(input) # "" /\ posts' = Append(posts, p)
      /\ sendOff' = TRUE /\ inputOff' = TRUE /\ UNCHANGED input
  BY DEF sendMessage, DisableInput
<1>2. posts = <<>>
  BY <1>1 DEF SendIInv, OffWhilePosting, SendButtonRight
<1>3. p \in Post /\ p.text = Trimmed(input)
  BY <1>1, TrimmedIsText DEF SendIInv, Post
<1> HIDE DEF p
<1>4. posts' = <<p>>
  <2>1. Append(<<>>, p) = <<p>>
    OBVIOUS
  <2> QED
    BY <1>1, <1>2, <2>1, Zenon
<1>5. posts' \in Seq(Post) /\ Len(posts') = 1 /\ DOMAIN posts' = {1} /\ posts'[1] = p /\ posts' # <<>>
  BY <1>3, <1>4
<1>6. Trimmed(input)' = Trimmed(input)
  BY <1>1 DEF Trimmed
<1>7. ClearsOnlySent'
  BY <1>3, <1>5, <1>6 DEF ClearsOnlySent
<1>8. SendButtonRight' /\ OffWhilePosting'
  BY <1>1, <1>5 DEF SendButtonRight, OffWhilePosting
<1> QED
  BY <1>1, <1>5, <1>7, <1>8 DEF SendIInv

\* The answer of the one request enables the field again (chat.js:233-244).
LEMMA AnswerKeepsSend ==
  ASSUME SendIInv, NEW i \in DOMAIN posts, NEW ok \in BOOLEAN, SendAnswered(i, ok)
  PROVE  SendIInv'
<1>1. /\ posts' = RemoveAt(posts, i) /\ inputOff' = FALSE
      /\ input' = (IF ok THEN "" ELSE input) /\ sendOff' = (Trimmed(input') = "")
  BY DEF SendAnswered, SendOffFor
<1>2. i = 1 /\ Len(posts) = 1 /\ posts \in Seq(Post)
  <2>1. posts \in Seq(Post) /\ Len(posts) <= 1
    BY DEF SendIInv, ClearsOnlySent
  <2>2. Len(posts) \in Nat /\ i \in 1 .. Len(posts)
    BY <2>1, LenProperties
  <2>3. \A n \in Nat : \A k \in 1 .. n : n <= 1 => k = 1 /\ n = 1
    OBVIOUS
  <2> QED
    BY <2>1, <2>2, <2>3, Zenon
<1>3. posts' = <<>>
  <2>1. SubSeq(posts, 1, 0) = <<>> /\ SubSeq(posts, 2, 1) = <<>>
    BY SubSeqEmpty
  <2>2. posts' = SubSeq(posts, 1, 0) \o SubSeq(posts, 2, 1)
    <3>1. posts' = SubSeq(posts, 1, 1 - 1) \o SubSeq(posts, 1 + 1, 1)
      BY <1>1, <1>2, Zenon DEF RemoveAt
    <3>2. 1 - 1 = 0 /\ 1 + 1 = 2
      OBVIOUS
    <3> QED
      BY <3>1, <3>2, Zenon
  <2>3. <<>> \o <<>> = <<>>
    OBVIOUS
  <2> QED
    BY <2>1, <2>2, <2>3
<1>4. input' \in Typed
  BY <1>1, TrimmedIsText DEF SendIInv
<1>5. sendOff' \in BOOLEAN
  BY <1>1, Zenon
<1>6. ClearsOnlySent'
  BY <1>3, NoPosts, Zenon DEF ClearsOnlySent
<1>7. SendButtonRight' /\ OffWhilePosting'
  BY <1>1, <1>3 DEF SendButtonRight, OffWhilePosting, Trimmed
<1> QED
  BY <1>1, <1>3, <1>4, <1>5, <1>6, <1>7, NoPosts DEF SendIInv

\* Every step keeps it.
LEMMA SendStep == ASSUME ListIInv, SendIInv, [Next]_vars PROVE SendIInv'
<1>1. CASE \E t \in Typed : Type(t)
  BY <1>1, TypeKeepsSend
<1>2. CASE sendMessage
  BY <1>2, SendKeepsSend DEF ListIInv, PageTypes
<1>3. CASE \E i \in DOMAIN posts, ok \in BOOLEAN : SendAnswered(i, ok)
  BY <1>3, AnswerKeepsSend
<1>4. CASE UNCHANGED sendVars
  BY <1>4 DEF SendIInv, sendVars, ClearsOnlySent, SendButtonRight, OffWhilePosting, Trimmed
<1>5. \/ \E t \in Typed : Type(t)
      \/ sendMessage
      \/ \E i \in DOMAIN posts, ok \in BOOLEAN : SendAnswered(i, ok)
      \/ UNCHANGED sendVars
  BY DEF Next, PageStep, ServerStep, Record, Subscribe, SendHistory, Break, OnOpen, OnError,
         OnChatHistory, OnChatMessage, Reconnect, TogglePause, LoadScript, initChat, LoadChannels,
         LoadChannelsFails, ClickChannel, vars, Typed
<1> QED
  BY <1>1, <1>2, <1>3, <1>4, <1>5

(***************************************************************************)
(* The theorems.                                                           *)
(***************************************************************************)
ChatIInv == StreamTypes /\ ListIInv /\ SendIInv

\* The three parts together are an invariant.
LEMMA ChatInvariance == Spec => []ChatIInv
<1>1. Init => ChatIInv
  BY InitStream, InitList, InitSend DEF ChatIInv
<1>2. ChatIInv /\ [Next]_vars => ChatIInv'
  BY StreamStep, ListStep, SendStep DEF ChatIInv
<1> QED
  BY <1>1, <1>2, PTL DEF Spec

\* The elements of the page are the messages of the list, in its order; exactly
\* those of the selected channel are shown; the badges count them; and every
\* variable keeps its type, however histories, messages, the channel list and
\* clicks are interleaved and streams break (chat.js:22-74, 143-211).
THEOREM PageSound == Spec => []PageInv
<1>1. ChatIInv => PageInv
  <2> SUFFICES ASSUME ChatIInv PROVE TypeOK /\ PageMirrorsList /\ OnlyActiveShown /\ BadgesCount
    BY DEF PageInv
  <2>1. StreamTypes /\ PageTypes /\ Mirrors(dom, all) /\ ShowsOnly(dom, active) /\ BadgesCount
        /\ (emptyNote => NoneShown(dom))
    BY DEF ChatIInv, ListIInv
  <2>2. /\ input \in Text \cup {"", " "} /\ posts \in Seq([text : Text, ch : Channel])
        /\ inputOff \in BOOLEAN /\ sendOff \in BOOLEAN
    BY Zenon DEF ChatIInv, SendIInv, Typed, Post
  <2>3. all \in Seq(Message) /\ dom \in Seq([msg : Message, shown : BOOLEAN])
    BY <2>1 DEF Mirrors, Element
  <2>4. TypeOK
    BY <2>1, <2>2, <2>3, Zenon DEF StreamTypes, PageTypes, TypeOK
  <2>5. /\ DOMAIN dom = 1 .. Len(dom) /\ DOMAIN all = 1 .. Len(all) /\ Len(dom) = Len(all)
        /\ \A i \in 1 .. Len(all) : dom[i].msg = all[i]
    BY <2>1, LenProperties DEF Mirrors
  <2>6. PageMirrorsList
    <3>1. all = [i \in 1 .. Len(all) |-> all[i]]
      BY <2>3
    <3> QED
      BY <2>5, <3>1 DEF PageMirrorsList
  <2>7. OnlyActiveShown
    BY <2>1, <2>5 DEF ShowsOnly, OnlyActiveShown
  <2> QED
    BY <2>1, <2>4, <2>6, <2>7
<1> QED
  BY ChatInvariance, <1>1, PTL

\* There is one request at a time and the field holds what it carries, so that
\* the answer clears what was sent and nothing else; and the button is enabled
\* exactly when there is something to send (chat.js:214-256).
THEOREM SendSound == Spec => []SendsOnce
<1>1. ChatIInv => SendsOnce
  BY DEF ChatIInv, SendIInv, SendsOnce
<1> QED
  BY ChatInvariance, <1>1, PTL

(***************************************************************************)
(* What is under way: the ring of the server against the list the page     *)
(* will have once the events sent to it are handled.                       *)
(***************************************************************************)
\* The ids of s go up by one, to top.
RunsTo(s, top) == \A i \in 1 .. Len(s) : s[i].id = top - Len(s) + i

\* Messages with one id are one message.
SameById(s, t) == \A i \in 1 .. Len(s), j \in 1 .. Len(t) : s[i].id = t[j].id => s[i] = t[j]

\* v is the rest of a history that ended at r, then messages published since the
\* subscription, some of which the history has too.  Nothing of the ring s is below
\* both, unless the list is full.
TwoRuns(v, top, s, k, r) ==
  /\ \A i \in 1 .. k : v[i].id = r - k + i
  /\ \A i \in k + 1 .. Len(v) : v[i].id = top - Len(v) + i
  /\ top - (Len(v) - k) <= r
  /\ Len(v) >= MaxList \/ r - k <= top - Len(s) \/ Len(s) <= Len(v) - k
  /\ SameById(v, v) /\ SameById(s, v)

\* The last of v are the messages of s.
EndsWith(v, s) ==
  Len(s) <= Len(v) /\ \A i \in 1 .. Len(s) : s[i] = v[Len(v) - Len(s) + i]

\* What the page will list when all is delivered holds the ring s.
Good(v, top, s) ==
  \/ EndsWith(v, s)
  \/ \E k \in 0 .. Len(v), r \in 0 .. top : TwoRuns(v, top, s, k, r)

\* An open, a history and then messages: of the first two the last n are left.
Ordered(n) ==
  /\ n <= Len(queue)
  /\ n = 2 => queue[1].type = "open"
  /\ n > 0 => queue[n].type = "chat_history"
  /\ \A i \in n + 1 .. Len(queue) : queue[i].type = "chat_message"

\* The list the messages under way are appended to.
Base(n) == IF n = 0 THEN all ELSE IF queue[n].msgs = <<>> THEN all ELSE queue[n].msgs

\* v is that list with those messages, before any is trimmed.
Brought(v, n) ==
  /\ Len(v) = Len(Base(n)) + Len(queue) - n
  /\ \A i \in 1 .. Len(Base(n)) : v[i] = Base(n)[i]
  /\ \A i \in n + 1 .. Len(queue) : v[Len(Base(n)) + i - n] = queue[i].msgs[1]

\* The list to come holds the ring.
OnTheWay == \E n \in 0 .. 2, v \in Seq(Message) : Ordered(n) /\ Brought(v, n) /\ Good(v, recorded, ring)

\* What is published before the history is sent.
PendingRight ==
  /\ queue = <<>> /\ (ring = <<>> => pending = <<>>)
  /\ \A i \in 1 .. Len(pending) :
       /\ pending[i].type = "chat_message"
       /\ pending[i].msgs[1].id = recorded - Len(pending) + i
       /\ \A j \in 1 .. Len(ring) : ring[j].id = pending[i].msgs[1].id => ring[j] = pending[i].msgs[1]

\* The inductive invariant of the catching up.
CatchIInv ==
  /\ Len(all) <= MaxList /\ RunsTo(ring, recorded) /\ missed \in BOOLEAN
  /\ \A i \in 1 .. Len(queue) : Len(queue[i].msgs) <= Ring
  /\ \A i \in 1 .. Len(pending) : Len(pending[i].msgs) <= Ring
  /\ server # "subscribed" => pending = <<>>
  /\ server = "subscribed" => PendingRight
  /\ server = "loop" /\ ~missed => OnTheWay

\* A message more: the ring keeps the newest.
LEMMA RingGrows ==
  ASSUME NEW s \in Seq(Message), NEW m \in Message, Len(s) <= Ring
  PROVE  LET r == LastOf(Ring, Append(s, m)) IN
         /\ r \in Seq(Message) /\ Len(r) \in Nat \ {0} /\ Len(r) <= Ring
         /\ Len(r) = Len(s) + 1 \/ (Len(r) = Len(s) /\ Len(s) = Ring)
         /\ \A i \in 1 .. Len(r) - 1 : r[i] = s[Len(s) + 1 - Len(r) + i]
         /\ r[Len(r)] = m
<1> DEFINE a == Append(s, m)
           k == 1 + (IF Len(a) > Ring THEN Len(a) - Ring ELSE 0)
           r == LastOf(Ring, a)
<1>1. /\ a \in Seq(Message) /\ Len(a) = Len(s) + 1 /\ Len(s) \in Nat
      /\ \A i \in 1 .. Len(s) : a[i] = s[i]
      /\ a[Len(s) + 1] = m
  BY AppendProperties, LenProperties
<1>2. Ring \in Nat \ {0}
  BY NumbersAssumed
<1>3. r = SubSeq(a, k, Len(a))
  BY DEF LastOf
<1>4. r \in Seq(Message) /\ Len(r) <= Ring
  BY <1>1, <1>2, LastOfBounded
<1> HIDE DEF a, r
<1>5. k \in 1 .. Len(a) /\ k \in {1, 2} /\ (k = 2 => Len(s) = Ring)
  BY <1>1, <1>2
<1>6. \A i \in k .. Len(a) : a[i] \in Message
  BY <1>1, <1>5, ElementOfSeq
<1> HIDE DEF k
<1>7. /\ Len(r) = Len(a) - k + 1
      /\ \A i \in 1 .. Len(a) - k + 1 : r[i] = a[k + i - 1]
  BY <1>1, <1>3, <1>5, <1>6, SubSeqProperties
<1>8. /\ Len(r) \in Nat \ {0}
      /\ Len(r) = Len(s) + 1 \/ (Len(r) = Len(s) /\ Len(s) = Ring)
  BY <1>1, <1>2, <1>5, <1>7
<1>9. \A i \in 1 .. Len(r) - 1 : r[i] = s[Len(s) + 1 - Len(r) + i]
  <2> SUFFICES ASSUME NEW i \in 1 .. Len(r) - 1 PROVE r[i] = s[Len(s) + 1 - Len(r) + i]
    OBVIOUS
  <2>1. r[i] = a[k + i - 1] /\ k + i - 1 \in 1 .. Len(s) /\ k + i - 1 = Len(s) + 1 - Len(r) + i
    BY <1>1, <1>5, <1>7, <1>8
  <2> QED
    BY <1>1, <2>1
<1>10. r[Len(r)] = m
  BY <1>1, <1>5, <1>7, <1>8
<1> QED
  BY <1>4, <1>8, <1>9, <1>10 DEF r, a

\* The ring stays a run of ids.
LEMMA RingRuns ==
  ASSUME NEW s \in Seq(Message), NEW m \in Message, Len(s) <= Ring, NEW top \in Nat,
         RunsTo(s, top), m.id = top + 1
  PROVE  RunsTo(LastOf(Ring, Append(s, m)), top + 1)
<1> DEFINE r == LastOf(Ring, Append(s, m))
<1>1. /\ Len(r) \in Nat \ {0}
      /\ Len(r) = Len(s) + 1 \/ (Len(r) = Len(s) /\ Len(s) = Ring)
      /\ \A i \in 1 .. Len(r) - 1 : r[i] = s[Len(s) + 1 - Len(r) + i]
      /\ r[Len(r)] = m
  BY RingGrows
<1>2. Len(s) \in Nat
  BY LenProperties
<1> HIDE DEF r
<1> SUFFICES ASSUME NEW i \in 1 .. Len(r) PROVE r[i].id = (top + 1) - Len(r) + i
  BY DEF RunsTo, r
<1>3. CASE i = Len(r)
  BY <1>1, <1>3
<1>4. CASE i \in 1 .. Len(r) - 1
  <2>1. Len(s) + 1 - Len(r) + i \in 1 .. Len(s)
    BY <1>1, <1>2, <1>4
  <2>2. s[Len(s) + 1 - Len(r) + i].id = top - Len(s) + (Len(s) + 1 - Len(r) + i)
    BY <2>1 DEF RunsTo
  <2> QED
    BY <1>1, <1>2, <1>4, <2>2
<1> QED
  BY <1>1, <1>3, <1>4

\* A message recorded for a list that will hold the ring: it still will.
LEMMA GoodGrows ==
  ASSUME NEW v \in Seq(Message), NEW s \in Seq(Message), NEW m \in Message, Len(s) <= Ring,
         NEW top \in Nat, RunsTo(s, top), m.id = top + 1, Good(v, top, s)
  PROVE  Good(Append(v, m), top + 1, LastOf(Ring, Append(s, m)))
<1> DEFINE a == Append(v, m)
           b == LastOf(Ring, Append(s, m))
<1>1. /\ Len(a) = Len(v) + 1 /\ Len(v) \in Nat /\ Len(s) \in Nat
      /\ a[Len(v) + 1] = m
  BY AppendProperties, LenProperties
<1>0. \A i \in 1 .. Len(v) : a[i] = v[i]
  BY AppendProperties
<1>2. /\ Len(b) \in Nat \ {0}
      /\ Len(b) = Len(s) + 1 \/ Len(b) = Len(s)
      /\ \A i \in 1 .. Len(b) - 1 : b[i] = s[Len(s) + 1 - Len(b) + i]
      /\ b[Len(b)] = m
  BY RingGrows
<1>3. MaxList \in Nat
  BY NumbersAssumed
<1> HIDE DEF a, b
<1>4. ASSUME EndsWith(v, s) PROVE EndsWith(a, b)
  <2>1. Len(b) <= Len(a)
    BY <1>1, <1>2, <1>4 DEF EndsWith
  <2>2. ASSUME NEW i \in 1 .. Len(b) PROVE b[i] = a[Len(a) - Len(b) + i]
    <3>1. CASE i = Len(b)
      BY <1>1, <1>2, <3>1
    <3>2. CASE i \in 1 .. Len(b) - 1
      <4> DEFINE j == Len(s) + 1 - Len(b) + i
      <4>1. j \in 1 .. Len(s) /\ b[i] = s[j]
        BY <1>1, <1>2, <3>2
      <4>2. s[j] = v[Len(v) - Len(s) + j] /\ Len(v) - Len(s) + j = Len(a) - Len(b) + i
        BY <1>1, <1>2, <1>4, <4>1 DEF EndsWith
      <4>3. Len(a) - Len(b) + i \in 1 .. Len(v)
        BY <1>1, <1>2, <2>1, <3>2
      <4> QED
        BY <1>0, <4>1, <4>2, <4>3
    <3> QED
      BY <1>2, <3>1, <3>2
  <2> QED
    BY <2>1, <2>2 DEF EndsWith
<1>5. ASSUME NEW k \in 0 .. Len(v), NEW r \in 0 .. top, TwoRuns(v, top, s, k, r)
      PROVE  TwoRuns(a, top + 1, b, k, r)
  <2>a. \A i \in 1 .. k : v[i].id = r - k + i
    BY <1>5 DEF TwoRuns
  <2>b. \A i \in k + 1 .. Len(v) : v[i].id = top - Len(v) + i
    BY <1>5 DEF TwoRuns
  <2>c. top - (Len(v) - k) <= r
    BY <1>5 DEF TwoRuns
  <2>d. Len(v) >= MaxList \/ r - k <= top - Len(s) \/ Len(s) <= Len(v) - k
    BY <1>5 DEF TwoRuns
  <2>e. SameById(v, v) /\ SameById(s, v)
    BY <1>5 DEF TwoRuns
  <2>2. ASSUME NEW i \in 1 .. k PROVE a[i].id = r - k + i
    <3>1. i \in 1 .. Len(v)
      BY <1>1
    <3> QED
      BY <1>0, <2>a, <3>1
  <2>3. ASSUME NEW i \in k + 1 .. Len(a) PROVE a[i].id = (top + 1) - Len(a) + i
    <3>1. CASE i = Len(v) + 1
      BY <1>1, <3>1
    <3>2. CASE i \in k + 1 .. Len(v)
      <4>1. i \in 1 .. Len(v)
        BY <1>1, <3>2
      <4>2. a[i].id = top - Len(v) + i
        BY <1>0, <2>b, <3>2, <4>1
      <4> QED
        BY <1>1, <4>2
    <3> QED
      BY <1>1, <3>1, <3>2
  <2>4. (top + 1) - (Len(a) - k) <= r
    BY <1>1, <2>c
  <2>5. Len(a) >= MaxList \/ r - k <= (top + 1) - Len(b) \/ Len(b) <= Len(a) - k
    <3>1. Len(b) \in Nat /\ Len(b) <= Len(s) + 1
      BY <1>1, <1>2
    <3> QED
      BY <1>1, <1>3, <2>d, <3>1
  <2>6. \A i \in 1 .. Len(v) : v[i].id <= top
    <3> SUFFICES ASSUME NEW i \in 1 .. Len(v) PROVE v[i].id <= top
      OBVIOUS
    <3>1. CASE i <= k
      BY <1>1, <2>a, <3>1
    <3>2. CASE i > k
      BY <1>1, <2>b, <3>2
    <3> QED
      BY <3>1, <3>2
  <2>7. \A i \in 1 .. Len(s) : s[i].id <= top
    BY <1>1 DEF RunsTo
  <2>8. SameById(a, a)
    <3> SUFFICES ASSUME NEW i \in 1 .. Len(a), NEW j \in 1 .. Len(a), a[i].id = a[j].id
                 PROVE  a[i] = a[j]
      BY DEF SameById
    <3>1. CASE i \in 1 .. Len(v) /\ j \in 1 .. Len(v)
      <4>1. a[i] = v[i] /\ a[j] = v[j]
        BY <1>0, <3>1
      <4> QED
        BY <2>e, <3>1, <4>1 DEF SameById
    <3>2. CASE i = Len(v) + 1 /\ j \in 1 .. Len(v)
      <4>1. a[i].id = top + 1 /\ a[j].id <= top
        BY <1>0, <1>1, <2>6, <3>2
      <4> QED
        BY <4>1
    <3>3. CASE j = Len(v) + 1 /\ i \in 1 .. Len(v)
      <4>1. a[j].id = top + 1 /\ a[i].id <= top
        BY <1>0, <1>1, <2>6, <3>3
      <4> QED
        BY <4>1
    <3>4. CASE i = Len(v) + 1 /\ j = Len(v) + 1
      BY <3>4
    <3>5. /\ i = Len(v) + 1 \/ i \in 1 .. Len(v)
          /\ j = Len(v) + 1 \/ j \in 1 .. Len(v)
      BY <1>1
    <3> QED
      BY <3>1, <3>2, <3>3, <3>4, <3>5
  <2>9. SameById(b, a)
    <3> SUFFICES ASSUME NEW i \in 1 .. Len(b), NEW j \in 1 .. Len(a), b[i].id = a[j].id
                 PROVE  b[i] = a[j]
      BY DEF SameById
    <3>1. b[i] = m \/ \E l \in 1 .. Len(s) : b[i] = s[l]
      <4>1. CASE i = Len(b)
        BY <1>2, <4>1
      <4>2. CASE i \in 1 .. Len(b) - 1
        <5>1. Len(s) + 1 - Len(b) + i \in 1 .. Len(s)
          BY <1>1, <1>2, <4>2
        <5>2. b[i] = s[Len(s) + 1 - Len(b) + i]
          BY <1>2, <4>2
        <5> QED
          BY <5>1, <5>2
      <4> QED
        BY <1>2, <4>1, <4>2
    <3>2. a[j] = m \/ (j \in 1 .. Len(v) /\ a[j] = v[j])
      <4>1. j = Len(v) + 1 \/ j \in 1 .. Len(v)
        BY <1>1
      <4> QED
        BY <1>0, <1>1, <4>1
    <3>3. CASE b[i] = m /\ a[j] = m
      BY <3>3
    <3>4. CASE b[i] = m /\ j \in 1 .. Len(v) /\ a[j] = v[j]
      <4>1. b[i].id = top + 1 /\ a[j].id <= top
        BY <2>6, <3>4
      <4> QED
        BY <4>1
    <3>5. ASSUME NEW l \in 1 .. Len(s), b[i] = s[l], a[j] = m PROVE FALSE
      <4>1. a[j].id = top + 1 /\ b[i].id <= top
        BY <2>7, <3>5
      <4> QED
        BY <4>1
    <3>6. ASSUME NEW l \in 1 .. Len(s), b[i] = s[l], j \in 1 .. Len(v), a[j] = v[j] PROVE b[i] = a[j]
      BY <2>e, <3>6 DEF SameById
    <3> QED
      BY <3>1, <3>2, <3>3, <3>4, <3>5, <3>6
  <2> QED
    BY <2>2, <2>3, <2>4, <2>5, <2>8, <2>9 DEF TwoRuns
<1>6. CASE EndsWith(v, s)
  BY <1>4, <1>6 DEF Good, a, b
<1>7. CASE \E k \in 0 .. Len(v), r \in 0 .. top : TwoRuns(v, top, s, k, r)
  <2>1. PICK k \in 0 .. Len(v), r \in 0 .. top : TwoRuns(v, top, s, k, r)
    BY <1>7
  <2>2. TwoRuns(a, top + 1, b, k, r) /\ k \in 0 .. Len(a) /\ r \in 0 .. top + 1
    BY <1>1, <1>5, <2>1
  <2> QED
    BY <2>2 DEF Good, a, b
<1> QED
  BY <1>6, <1>7 DEF Good

\* The trim of a list longer than the page keeps takes nothing the ring needs.
LEMMA GoodTrimmed ==
  ASSUME NEW v \in Seq(Message), NEW s \in Seq(Message), NEW w \in Seq(Message), Len(s) <= Ring,
         NEW top \in Nat, Good(v, top, s), Len(v) > MaxList,
         Len(w) = Len(v) - 1, \A i \in 1 .. Len(w) : w[i] = v[i + 1]
  PROVE  Good(w, top, s)
<1>1. /\ Len(v) \in Nat /\ Len(s) \in Nat /\ Len(w) \in Nat
      /\ MaxList \in Nat /\ Len(s) <= MaxList /\ MaxList <= Len(w) /\ Len(v) = Len(w) + 1
  BY NumbersAssumed, RingAssumption, LenProperties
<1>2. \A i \in 1 .. Len(w) : i + 1 \in 1 .. Len(v)
  BY <1>1
<1>3. CASE EndsWith(v, s)
  <2>1. ASSUME NEW i \in 1 .. Len(s) PROVE s[i] = w[Len(w) - Len(s) + i]
    <3>1. Len(w) - Len(s) + i \in 1 .. Len(w)
          /\ (Len(w) - Len(s) + i) + 1 = Len(v) - Len(s) + i
      BY <1>1
    <3>2. w[Len(w) - Len(s) + i] = v[Len(v) - Len(s) + i]
      BY <3>1
    <3> QED
      BY <1>3, <3>2 DEF EndsWith
  <2> QED
    BY <1>1, <2>1 DEF EndsWith, Good
<1>4. ASSUME NEW k \in 0 .. Len(v), NEW r \in 0 .. top, TwoRuns(v, top, s, k, r)
      PROVE  Good(w, top, s)
  <2>a. \A i \in 1 .. k : v[i].id = r - k + i
    BY <1>4 DEF TwoRuns
  <2>b. \A i \in k + 1 .. Len(v) : v[i].id = top - Len(v) + i
    BY <1>4 DEF TwoRuns
  <2>c. top - (Len(v) - k) <= r
    BY <1>4 DEF TwoRuns
  <2>e. SameById(v, v) /\ SameById(s, v)
    BY <1>4 DEF TwoRuns
  <2>1. SameById(w, w)
    <3> SUFFICES ASSUME NEW i \in 1 .. Len(w), NEW j \in 1 .. Len(w), w[i].id = w[j].id
                 PROVE  w[i] = w[j]
      BY DEF SameById
    <3>1. w[i] = v[i + 1] /\ w[j] = v[j + 1] /\ i + 1 \in 1 .. Len(v) /\ j + 1 \in 1 .. Len(v)
      BY <1>2
    <3> QED
      BY <2>e, <3>1 DEF SameById
  <2>2. SameById(s, w)
    <3> SUFFICES ASSUME NEW i \in 1 .. Len(s), NEW j \in 1 .. Len(w), s[i].id = w[j].id
                 PROVE  s[i] = w[j]
      BY DEF SameById
    <3>1. w[j] = v[j + 1] /\ j + 1 \in 1 .. Len(v)
      BY <1>2
    <3> QED
      BY <2>e, <3>1 DEF SameById
  <2>3. CASE k = 0
    <3>1. ASSUME NEW i \in 1 .. Len(w) PROVE w[i].id = top - Len(w) + i
      <4>1. w[i] = v[i + 1] /\ i + 1 \in k + 1 .. Len(v)
        BY <1>1, <2>3
      <4>2. v[i + 1].id = top - Len(v) + (i + 1)
        BY <2>b, <4>1
      <4> QED
        BY <1>1, <4>1, <4>2
    <3>2. TwoRuns(w, top, s, 0, top)
      <4>1. \A i \in 1 .. 0 : w[i].id = top - 0 + i
        OBVIOUS
      <4>2. \A i \in 0 + 1 .. Len(w) : w[i].id = top - Len(w) + i
        BY <3>1
      <4>3. top - (Len(w) - 0) <= top /\ Len(w) >= MaxList
        BY <1>1
      <4> QED
        BY <2>1, <2>2, <4>1, <4>2, <4>3 DEF TwoRuns
    <3> QED
      BY <1>1, <3>2 DEF Good
  <2>4. CASE k > 0
    <3> DEFINE l == k - 1
    <3>1. l \in 0 .. Len(w) /\ l + 1 = k
      BY <1>1, <2>4
    <3> HIDE DEF l
    <3>2. ASSUME NEW i \in 1 .. l PROVE w[i].id = r - l + i
      <4>0. i \in 1 .. Len(w) /\ i + 1 \in 1 .. k
        BY <1>1, <3>1
      <4>1. w[i] = v[i + 1] /\ i + 1 \in 1 .. k
        BY <4>0
      <4>2. v[i + 1].id = r - k + (i + 1)
        BY <2>a, <4>1
      <4> QED
        BY <3>1, <4>1, <4>2
    <3>3. ASSUME NEW i \in l + 1 .. Len(w) PROVE w[i].id = top - Len(w) + i
      <4>1. w[i] = v[i + 1] /\ i + 1 \in k + 1 .. Len(v)
        BY <1>1, <3>1
      <4>2. v[i + 1].id = top - Len(v) + (i + 1)
        BY <2>b, <4>1
      <4> QED
        BY <1>1, <3>1, <4>1, <4>2
    <3>4. top - (Len(w) - l) <= r /\ Len(w) >= MaxList
      BY <1>1, <2>c, <3>1
    <3>5. TwoRuns(w, top, s, l, r)
      BY <2>1, <2>2, <3>2, <3>3, <3>4 DEF TwoRuns
    <3> QED
      BY <3>1, <3>5 DEF Good
  <2> QED
    BY <2>3, <2>4
<1> QED
  BY <1>3, <1>4 DEF Good

\* The history of a new stream, and what was published since it subscribed.
LEMMA GoodStart ==
  ASSUME NEW s \in Seq(Message), NEW p \in Seq(Message), NEW v \in Seq(Message), NEW top \in Nat,
         RunsTo(s, top), RunsTo(p, top), SameById(s, p),
         Len(v) = Len(s) + Len(p), \A i \in 1 .. Len(s) : v[i] = s[i],
         \A i \in 1 .. Len(p) : v[Len(s) + i] = p[i]
  PROVE  Good(v, top, s)
<1>1. Len(v) \in Nat /\ Len(s) \in Nat /\ Len(p) \in Nat
  BY LenProperties
<1>2. ASSUME NEW i \in 1 .. Len(v)
      PROVE  \/ i \in 1 .. Len(s) /\ v[i] = s[i]
             \/ i - Len(s) \in 1 .. Len(p) /\ v[i] = p[i - Len(s)]
  <2>1. CASE i <= Len(s)
    BY <1>1, <2>1
  <2>2. CASE i > Len(s)
    <3>1. i - Len(s) \in 1 .. Len(p) /\ Len(s) + (i - Len(s)) = i
      BY <1>1, <2>2
    <3> QED
      BY <3>1
  <2> QED
    BY <1>1, <2>1, <2>2
<1>3. ASSUME NEW i \in 1 .. Len(s), NEW j \in 1 .. Len(s), s[i].id = s[j].id PROVE s[i] = s[j]
  <2>1. top - Len(s) + i = top - Len(s) + j
    BY <1>3 DEF RunsTo
  <2>2. i = j
    BY <1>1, <2>1
  <2> QED
    BY <2>2
<1>4. ASSUME NEW i \in 1 .. Len(p), NEW j \in 1 .. Len(p), p[i].id = p[j].id PROVE p[i] = p[j]
  <2>1. top - Len(p) + i = top - Len(p) + j
    BY <1>4 DEF RunsTo
  <2>2. i = j
    BY <1>1, <2>1
  <2> QED
    BY <2>2
<1>5. ASSUME NEW i \in 1 .. Len(v)
      PROVE  (\E a \in 1 .. Len(s) : v[i] = s[a]) \/ (\E a \in 1 .. Len(p) : v[i] = p[a])
  BY <1>2
<1>6. SameById(v, v) /\ SameById(s, v)
  <2>1. ASSUME NEW a \in 1 .. Len(s), NEW b \in 1 .. Len(p), s[a].id = p[b].id PROVE s[a] = p[b]
    BY <2>1 DEF SameById
  <2>2. ASSUME NEW a \in 1 .. Len(s), NEW j \in 1 .. Len(v), s[a].id = v[j].id PROVE s[a] = v[j]
    <3>1. CASE \E b \in 1 .. Len(s) : v[j] = s[b]
      BY <1>3, <2>2, <3>1
    <3>2. CASE \E b \in 1 .. Len(p) : v[j] = p[b]
      BY <2>1, <2>2, <3>2
    <3> QED
      BY <1>5, <3>1, <3>2
  <2>3. ASSUME NEW a \in 1 .. Len(p), NEW j \in 1 .. Len(v), p[a].id = v[j].id PROVE p[a] = v[j]
    <3>1. CASE \E b \in 1 .. Len(s) : v[j] = s[b]
      <4>1. PICK b \in 1 .. Len(s) : v[j] = s[b]
        BY <3>1
      <4>2. s[b].id = p[a].id
        BY <2>3, <4>1
      <4> QED
        BY <2>1, <4>1, <4>2
    <3>2. CASE \E b \in 1 .. Len(p) : v[j] = p[b]
      BY <1>4, <2>3, <3>2
    <3> QED
      BY <1>5, <3>1, <3>2
  <2>4. ASSUME NEW i \in 1 .. Len(v), NEW j \in 1 .. Len(v), v[i].id = v[j].id PROVE v[i] = v[j]
    <3>1. CASE \E a \in 1 .. Len(s) : v[i] = s[a]
      BY <2>2, <2>4, <3>1
    <3>2. CASE \E a \in 1 .. Len(p) : v[i] = p[a]
      BY <2>3, <2>4, <3>2
    <3> QED
      BY <1>5, <3>1, <3>2
  <2> QED
    BY <2>2, <2>4 DEF SameById
<1>7. \A i \in 1 .. Len(s) : v[i].id = top - Len(s) + i
  BY DEF RunsTo
<1>8. ASSUME NEW i \in Len(s) + 1 .. Len(v) PROVE v[i].id = top - Len(v) + i
  <2>1. i - Len(s) \in 1 .. Len(p) /\ Len(s) + (i - Len(s)) = i
    BY <1>1
  <2>2. v[i] = p[i - Len(s)]
    BY <2>1
  <2>3. p[i - Len(s)].id = top - Len(p) + (i - Len(s))
    BY <2>1 DEF RunsTo
  <2> QED
    BY <1>1, <2>2, <2>3
<1>9. /\ top - (Len(v) - Len(s)) <= top /\ top - Len(s) <= top - Len(s)
      /\ Len(s) \in 0 .. Len(v) /\ top \in 0 .. top
  BY <1>1
<1>10. TwoRuns(v, top, s, Len(s), top)
  BY <1>6, <1>7, <1>8, <1>9 DEF TwoRuns
<1> QED
  BY <1>9, <1>10 DEF Good

\* The members of a sequence.
LEMMA MembersOf ==
  ASSUME NEW v \in Seq(Message)
  PROVE  ToSet(v) = {v[i] : i \in 1 .. Len(v)}
BY LenProperties DEF ToSet

\* A list that is not longer than the page keeps holds the ring, but for as many of
\* the oldest as it has messages twice.
LEMMA GoodHolds ==
  ASSUME NEW v \in Seq(Message), NEW s \in Seq(Message), NEW top \in Nat, RunsTo(s, top),
         Good(v, top, s), Len(v) <= MaxList, Len(s) <= Ring,
         NEW x \in 1 .. Len(s), x > Repeats(v)
  PROVE  s[x] \in ToSet(v)
<1>1. /\ Len(v) \in Nat /\ Len(s) \in Nat
      /\ MaxList \in Nat /\ Len(s) <= MaxList
  BY NumbersAssumed, RingAssumption, LenProperties
<1>2. ToSet(v) = {v[i] : i \in 1 .. Len(v)}
  BY MembersOf
<1>3. CASE EndsWith(v, s)
  <2>1. s[x] = v[Len(v) - Len(s) + x] /\ Len(v) - Len(s) + x \in 1 .. Len(v)
    BY <1>1, <1>3 DEF EndsWith
  <2> QED
    BY <1>2, <2>1
<1>4. ASSUME NEW k \in 0 .. Len(v), NEW r \in 0 .. top, TwoRuns(v, top, s, k, r)
      PROVE  s[x] \in ToSet(v)
  <2>a. \A i \in 1 .. k : v[i].id = r - k + i
    BY <1>4 DEF TwoRuns
  <2>b. \A i \in k + 1 .. Len(v) : v[i].id = top - Len(v) + i
    BY <1>4 DEF TwoRuns
  <2>c. top - (Len(v) - k) <= r
    BY <1>4 DEF TwoRuns
  <2>d. Len(v) >= MaxList \/ r - k <= top - Len(s) \/ Len(s) <= Len(v) - k
    BY <1>4 DEF TwoRuns
  <2>e. SameById(v, v) /\ SameById(s, v)
    BY <1>4 DEF TwoRuns
  <2> DEFINE q  == top - (Len(v) - k)
             lo == IF r - k < q THEN r - k ELSE q
  <2>1. q \in Int /\ lo \in Int /\ lo <= q /\ lo <= r - k /\ lo \in {q, r - k} /\ q <= r /\ r <= top
    BY <1>1, <2>c
  \* Every id above lo is there, ...
  <2>2. ASSUME NEW y \in Nat, lo < y, y <= top PROVE \E i \in 1 .. Len(v) : v[i].id = y
    <3>1. CASE y > q
      <4> DEFINE i == y - top + Len(v)
      <4>1. i \in k + 1 .. Len(v) /\ i \in 1 .. Len(v) /\ top - Len(v) + i = y
        BY <1>1, <2>2, <3>1
      <4> HIDE DEF i
      <4>2. v[i].id = y
        BY <2>b, <4>1
      <4> QED
        BY <4>1, <4>2
    <3>2. CASE y <= q
      <4> DEFINE i == y - r + k
      <4>1. i \in 1 .. k /\ i \in 1 .. Len(v) /\ r - k + i = y
        BY <1>1, <2>1, <2>2, <3>2
      <4> HIDE DEF i
      <4>2. v[i].id = y
        BY <2>a, <4>1
      <4> QED
        BY <4>1, <4>2
    <3> QED
      BY <2>1, <3>1, <3>2
  \* ... and no other.
  <2>3. ASSUME NEW i \in 1 .. Len(v) PROVE v[i].id \in lo + 1 .. top
    <3>1. CASE i <= k
      <4>1. v[i].id = r - k + i
        BY <2>a, <3>1
      <4> QED
        BY <1>1, <2>1, <3>1, <4>1
    <3>2. CASE i > k
      <4>1. v[i].id = top - Len(v) + i
        BY <2>b, <3>2
      <4> QED
        BY <1>1, <2>1, <3>2, <4>1
    <3> QED
      BY <1>1, <3>1, <3>2
  <2> HIDE DEF lo, q
  <2>4. ASSUME Len(v) >= MaxList PROVE lo < top - Len(s) + x
    <3> DEFINE T == ToSet(v)
               f == [e \in T |-> e.id]
               I == lo + 1 .. top
    <3>1. f \in [T -> I]
      BY <1>2, <2>3
    <3>2. \A d, e \in T : f[d] = f[e] => d = e
      BY <1>2, <2>e DEF SameById
    <3>3. f \in Injection(T, I)
      BY <3>1, <3>2 DEF Injection, IsInjective
    <3>4. IsFiniteSet(I) /\ Cardinality(I) = IF lo + 1 > top THEN 0 ELSE top - (lo + 1) + 1
      BY <2>1, FS_Interval
    <3> HIDE DEF f, I, T
    <3>5. IsFiniteSet(T) /\ Cardinality(T) <= Cardinality(I)
      BY <3>3, <3>4, FS_Injection DEF ExistsInjection
    <3>6. Cardinality(T) \in Nat
      BY <3>5, FS_CardinalityType
    <3>7. x > Len(v) - Cardinality(T)
      BY DEF Repeats, T
    <3>8. CASE lo + 1 > top
      <4>1. Cardinality(T) = 0
        BY <3>4, <3>5, <3>6, <3>8
      <4> QED
        BY <1>1, <2>4, <3>7, <4>1
    <3>9. CASE ~(lo + 1 > top)
      <4>1. Cardinality(T) <= top - lo
        BY <2>1, <3>4, <3>5, <3>6, <3>9
      <4> QED
        BY <1>1, <2>1, <2>4, <3>6, <3>7, <4>1
    <3> QED
      BY <3>8, <3>9
  <2>5. ASSUME r - k <= top - Len(s) \/ Len(s) <= Len(v) - k PROVE lo < top - Len(s) + x
    BY <1>1, <2>1, <2>5 DEF q
  <2>6. lo < top - Len(s) + x
    BY <2>d, <2>4, <2>5
  <2>7. s[x].id = top - Len(s) + x
    BY DEF RunsTo
  <2>8. s[x] \in Message
    BY ElementOfSeq, <1>1
  <2>9. s[x].id \in Nat
    BY <2>8, NumbersAssumed DEF Message
  <2>10. s[x].id <= top
    BY <1>1, <2>7
  <2>11. PICK i \in 1 .. Len(v) : v[i].id = s[x].id
    BY <2>2, <2>6, <2>7, <2>9, <2>10
  <2> QED
    BY <1>2, <2>e, <2>11 DEF SameById
<1> QED
  BY <1>3, <1>4 DEF Good

\* What the events carry.
LEMMA EventFacts ==
  ASSUME NEW e \in Event
  PROVE  /\ e.type \in {"open", "error", "chat_history", "chat_message"}
         /\ e.type \in {"open", "error"} => e.msgs = <<>>
         /\ e.type = "chat_history" => e.msgs \in Seq(Message)
         /\ e.type = "chat_message" => Len(e.msgs) = 1 /\ e.msgs[1] \in Message
<1>1. CASE e \in {EventOf(t, <<>>) : t \in {"open", "error"}}
  BY <1>1 DEF EventOf
<1>2. CASE e \in {EventOf("chat_history", msgs) : msgs \in Seq(Message)}
  BY <1>2 DEF EventOf
<1>3. CASE e \in {EventOf("chat_message", <<m>>) : m \in Message}
  <2>1. PICK m \in Message : e = EventOf("chat_message", <<m>>)
    BY <1>3
  <2>2. e.type = "chat_message" /\ e.msgs = <<m>>
    BY <2>1 DEF EventOf
  <2> QED
    BY <2>2
<1> QED
  BY <1>1, <1>2, <1>3 DEF Event

\* Nothing was recorded and nothing is listed at the start.
LEMMA InitCatch == Init => CatchIInv
<1> SUFFICES ASSUME Init PROVE CatchIInv
  OBVIOUS
<1>1. /\ ring = <<>> /\ pending = <<>> /\ queue = <<>> /\ all = <<>> /\ server = "none"
      /\ missed = FALSE
  BY DEF Init
<1>2. Len(<<>>) = 0 /\ 0 <= MaxList /\ 1 .. 0 = {}
  BY NumbersAssumed
<1>3. Len(ring) = 0 /\ Len(pending) = 0 /\ Len(queue) = 0 /\ Len(all) = 0
  BY <1>1, <1>2
<1>4. RunsTo(ring, recorded)
  BY <1>2, <1>3 DEF RunsTo
<1> QED
  BY <1>1, <1>2, <1>3, <1>4 DEF CatchIInv

\* What Record does.
LEMMA Recorded ==
  ASSUME StreamTypes, NEW c \in Channel, Record(c)
  PROVE  \E m \in Message :
           LET e == EventOf("chat_message", <<m>>) IN
           /\ m.id = recorded + 1 /\ recorded' = recorded + 1 /\ recorded \in Nat
           /\ ring' = LastOf(Ring, Append(ring, m)) /\ all' = all /\ server' = server
           /\ \/ server = "subscribed" /\ pending' = Append(pending, e) /\ UNCHANGED <<queue, missed>>
              \/ server = "loop" /\ queue' = Append(queue, e) /\ UNCHANGED <<pending, missed>>
              \/ server = "loop" /\ missed' = TRUE /\ UNCHANGED <<pending, queue>>
              \/ server = "none" /\ UNCHANGED <<pending, queue, missed>>
<1> DEFINE m == [id |-> recorded + 1, ch |-> c]
           e == EventOf("chat_message", <<m>>)
<1>1. m \in Message /\ m.id = recorded + 1 /\ recorded \in Nat
  BY NumbersAssumed DEF Record, StreamTypes, Message
<1>2. /\ recorded' = recorded + 1 /\ ring' = LastOf(Ring, Append(ring, m))
      /\ all' = all /\ server' = server
  BY DEF Record, listVars
<1>3. \/ server = "subscribed" /\ pending' = Append(pending, e) /\ UNCHANGED <<queue, missed>>
      \/ server = "loop" /\ queue' = Append(queue, e) /\ UNCHANGED <<pending, missed>>
      \/ server = "loop" /\ missed' = TRUE /\ UNCHANGED <<pending, queue>>
      \/ server = "none" /\ UNCHANGED <<pending, queue, missed>>
  BY DEF Record
<1> HIDE DEF m
<1> QED
  BY <1>1, <1>2, <1>3

\* The event of a message.
LEMMA MessageEvent ==
  ASSUME NEW m \in Message
  PROVE  LET e == EventOf("chat_message", <<m>>) IN
         e \in Event /\ e.type = "chat_message" /\ e.msgs = <<m>> /\ e.msgs[1] = m /\ Len(e.msgs) = 1
<1> DEFINE e == EventOf("chat_message", <<m>>)
<1>1. e \in Event
  BY DEF Event
<1>2. e.type = "chat_message" /\ e.msgs = <<m>>
  BY DEF EventOf
<1> HIDE DEF e
<1>3. e.msgs[1] = m /\ Len(e.msgs) = 1
  BY <1>2
<1> QED
  BY <1>1, <1>2, <1>3 DEF e

\* A message is recorded while a new stream has not sent its history yet.
LEMMA RecordPending ==
  ASSUME StreamTypes, CatchIInv, server = "subscribed", NEW m \in Message, m.id = recorded + 1,
         recorded' = recorded + 1, ring' = LastOf(Ring, Append(ring, m)), queue' = queue,
         pending' = Append(pending, EventOf("chat_message", <<m>>))
  PROVE  PendingRight' /\ \A i \in 1 .. Len(pending') : Len(pending'[i].msgs) <= Ring
<1> DEFINE e == EventOf("chat_message", <<m>>)
<1>1. /\ e.type = "chat_message" /\ e.msgs[1] = m /\ Len(e.msgs) = 1 /\ e \in Event
      /\ recorded \in Nat
  BY MessageEvent, NumbersAssumed DEF StreamTypes
<1> HIDE DEF e
<1>2. /\ ring \in Seq(Message) /\ Len(ring) <= Ring /\ pending \in Seq(Event)
      /\ Len(ring) \in Nat /\ Len(pending) \in Nat /\ Ring \in Nat \ {0}
  BY LenProperties, NumbersAssumed DEF StreamTypes
<1>3. /\ Len(ring') \in Nat \ {0}
      /\ Len(ring') = Len(ring) + 1 \/ Len(ring') = Len(ring)
      /\ \A i \in 1 .. Len(ring') - 1 : ring'[i] = ring[Len(ring) + 1 - Len(ring') + i]
      /\ ring'[Len(ring')] = m
  <2>1. LET r == LastOf(Ring, Append(ring, m)) IN
        /\ r \in Seq(Message) /\ Len(r) \in Nat \ {0} /\ Len(r) <= Ring
        /\ Len(r) = Len(ring) + 1 \/ (Len(r) = Len(ring) /\ Len(ring) = Ring)
        /\ \A i \in 1 .. Len(r) - 1 : r[i] = ring[Len(ring) + 1 - Len(r) + i]
        /\ r[Len(r)] = m
    BY <1>2, RingGrows
  <2> QED
    BY <2>1
<1>4. pending' = Append(pending, e)
  BY DEF e
<1>5. /\ Len(pending') = Len(pending) + 1
      /\ pending'[Len(pending) + 1] = e
      /\ \A i \in 1 .. Len(pending) : pending'[i] = pending[i]
  BY <1>1, <1>2, <1>4, AppendProperties
<1>6. PendingRight /\ RunsTo(ring, recorded)
  BY DEF CatchIInv
<1>7. queue' = <<>> /\ ring' # <<>>
  BY <1>3, <1>6 DEF PendingRight
<1>8. ASSUME NEW i \in 1 .. Len(pending')
      PROVE  \/ i = Len(pending) + 1 /\ pending'[i] = e
             \/ i \in 1 .. Len(pending) /\ pending'[i] = pending[i]
  BY <1>2, <1>5
<1>9. ASSUME NEW j \in 1 .. Len(ring')
      PROVE  \/ ring'[j] = m
             \/ \E l \in 1 .. Len(ring) : ring'[j] = ring[l]
  <2>1. CASE j = Len(ring')
    BY <1>3, <2>1
  <2>2. CASE j \in 1 .. Len(ring') - 1
    <3>1. Len(ring) + 1 - Len(ring') + j \in 1 .. Len(ring)
      BY <1>2, <1>3, <2>2
    <3> QED
      BY <1>3, <2>2, <3>1
  <2> QED
    BY <1>3, <2>1, <2>2
<1>10. \A l \in 1 .. Len(ring) : ring[l].id <= recorded
  BY <1>1, <1>2, <1>6 DEF RunsTo
<1>11. \A i \in 1 .. Len(pending) : pending[i].msgs[1].id = recorded - Len(pending) + i
  BY <1>6 DEF PendingRight
<1>12. ASSUME NEW i \in 1 .. Len(pending')
       PROVE  /\ pending'[i].type = "chat_message" /\ Len(pending'[i].msgs) <= Ring
              /\ pending'[i].msgs[1].id = (recorded + 1) - Len(pending') + i
              /\ \A j \in 1 .. Len(ring') :
                   ring'[j].id = pending'[i].msgs[1].id => ring'[j] = pending'[i].msgs[1]
  <2>1. CASE i = Len(pending) + 1 /\ pending'[i] = e
    <3>1. e.msgs[1] = m /\ e.type = "chat_message" /\ Len(e.msgs) <= Ring
      BY <1>1, <1>2
    <3>2. m.id = (recorded + 1) - Len(pending') + i
      BY <1>1, <1>2, <1>5, <2>1
    <3>3. ASSUME NEW j \in 1 .. Len(ring'), ring'[j].id = m.id PROVE ring'[j] = m
      BY <1>1, <1>9, <1>10, <3>3
    <3> QED
      BY <2>1, <3>1, <3>2, <3>3
  <2>2. CASE i \in 1 .. Len(pending) /\ pending'[i] = pending[i]
    <3>1. /\ pending[i].type = "chat_message" /\ Len(pending[i].msgs) <= Ring
          /\ \A j \in 1 .. Len(ring) :
               ring[j].id = pending[i].msgs[1].id => ring[j] = pending[i].msgs[1]
      BY <1>6, <2>2 DEF PendingRight, CatchIInv
    <3>2. pending[i].msgs[1].id = (recorded + 1) - Len(pending') + i
      BY <1>1, <1>2, <1>5, <1>11, <2>2
    <3>3. pending[i].msgs[1].id # m.id
      BY <1>1, <1>2, <1>5, <2>2, <3>2
    <3>4. ASSUME NEW j \in 1 .. Len(ring'), ring'[j].id = pending[i].msgs[1].id
          PROVE  ring'[j] = pending[i].msgs[1]
      BY <1>9, <3>1, <3>3, <3>4
    <3> QED
      BY <2>2, <3>1, <3>2, <3>4
  <2> QED
    BY <1>8, <2>1, <2>2
<1> QED
  BY <1>1, <1>7, <1>12 DEF PendingRight

\* A message is recorded and comes to the page behind all that is under way.
LEMMA RecordQueued ==
  ASSUME StreamTypes, ListIInv, CatchIInv, OnTheWay, NEW m \in Message, m.id = recorded + 1,
         recorded' = recorded + 1, ring' = LastOf(Ring, Append(ring, m)), all' = all,
         queue' = Append(queue, EventOf("chat_message", <<m>>))
  PROVE  OnTheWay'
<1> DEFINE e == EventOf("chat_message", <<m>>)
<1>1. /\ e.type = "chat_message" /\ e.msgs[1] = m /\ e \in Event /\ recorded \in Nat
  BY MessageEvent, NumbersAssumed DEF StreamTypes
<1>2. queue' = Append(queue, e)
  OBVIOUS
<1> HIDE DEF e
<1>3. /\ ring \in Seq(Message) /\ Len(ring) <= Ring /\ RunsTo(ring, recorded)
      /\ queue \in Seq(Event) /\ all \in Seq(Message) /\ Len(queue) \in Nat
  BY LenProperties DEF StreamTypes, CatchIInv, ListIInv, Mirrors
<1>4. PICK n \in 0 .. 2, v \in Seq(Message) :
        Ordered(n) /\ Brought(v, n) /\ Good(v, recorded, ring)
  BY DEF OnTheWay
<1>5. /\ Len(queue') = Len(queue) + 1 /\ queue'[Len(queue) + 1] = e
      /\ \A i \in 1 .. Len(queue) : queue'[i] = queue[i]
  BY <1>1, <1>2, <1>3, AppendProperties
<1>6. Good(Append(v, m), recorded', ring')
  BY <1>1, <1>3, <1>4, GoodGrows
<1>8. n <= Len(queue)
  BY <1>4 DEF Ordered
<1>7. Ordered(n)'
  <2>1. /\ n = 2 => queue[1].type = "open"
        /\ n > 0 => queue[n].type = "chat_history"
        /\ \A i \in n + 1 .. Len(queue) : queue[i].type = "chat_message"
    BY <1>4 DEF Ordered
  <2>2. n <= Len(queue')
    BY <1>3, <1>5, <1>8
  <2>3. n > 0 => queue'[1] = queue[1] /\ queue'[n] = queue[n]
    <3>1. n > 0 => 1 \in 1 .. Len(queue) /\ n \in 1 .. Len(queue)
      BY <1>3, <1>8
    <3> QED
      BY <1>5, <3>1
  <2>4. ASSUME NEW i \in n + 1 .. Len(queue') PROVE queue'[i].type = "chat_message"
    <3>1. i = Len(queue) + 1 \/ (i \in n + 1 .. Len(queue) /\ i \in 1 .. Len(queue))
      BY <1>3, <1>5
    <3> QED
      BY <1>1, <1>5, <2>1, <3>1
  <2> QED
    BY <2>1, <2>2, <2>3, <2>4 DEF Ordered
<1>9. Base(n)' = Base(n)
  <2>1. CASE n = 0
    BY <1>1, <2>1 DEF Base
  <2>2. CASE n > 0
    <3>1. queue'[n] = queue[n]
      BY <1>3, <1>5, <1>8, <2>2
    <3> QED
      BY <1>1, <2>2, <3>1 DEF Base
  <2> QED
    BY <2>1, <2>2
<1> DEFINE b == Base(n)
           w == Append(v, m)
<1>10. b \in Seq(Message)
  <2>1. CASE n = 0
    BY <1>3, <2>1 DEF Base
  <2>2. CASE n > 0
    <3>1. queue[n] \in Event /\ queue[n].type = "chat_history"
      BY <1>3, <1>4, <1>8, <2>2, ElementOfSeq DEF Ordered
    <3>2. queue[n].msgs \in Seq(Message)
      BY <3>1, EventFacts
    <3> QED
      BY <1>3, <2>2, <3>2 DEF Base
  <2> QED
    BY <2>1, <2>2
<1>11. /\ Len(v) = Len(b) + Len(queue) - n
       /\ \A i \in 1 .. Len(b) : v[i] = b[i]
       /\ \A i \in n + 1 .. Len(queue) : v[Len(b) + i - n] = queue[i].msgs[1]
  BY <1>4 DEF Brought
<1> HIDE DEF b
<1>12. /\ w \in Seq(Message) /\ Len(w) = Len(v) + 1 /\ w[Len(v) + 1] = m
       /\ \A i \in 1 .. Len(v) : w[i] = v[i]
       /\ Len(b) \in Nat /\ Len(v) \in Nat
  BY <1>1, <1>10, AppendProperties, LenProperties
<1> HIDE DEF w
<1>13. Len(w) = Len(b) + Len(queue') - n
  BY <1>3, <1>5, <1>11, <1>12
<1>14. ASSUME NEW i \in 1 .. Len(b) PROVE w[i] = b[i]
  <2>1. i \in 1 .. Len(v)
    BY <1>3, <1>8, <1>11, <1>12
  <2> QED
    BY <1>11, <1>12, <2>1
<1>15. ASSUME NEW i \in n + 1 .. Len(queue') PROVE w[Len(b) + i - n] = queue'[i].msgs[1]
  <2>1. CASE i = Len(queue) + 1
    <3>1. Len(b) + i - n = Len(v) + 1
      <4>1. Len(v) = Len(b) + Len(queue) - n /\ Len(b) \in Nat /\ Len(queue) \in Nat /\ n \in Nat
        BY <1>3, <1>11, <1>12
      <4> QED
        BY <2>1, <4>1
    <3> QED
      BY <1>1, <1>5, <1>12, <2>1, <3>1
  <2>2. CASE i \in n + 1 .. Len(queue)
    <3>1. Len(b) + i - n \in 1 .. Len(v) /\ i \in 1 .. Len(queue)
      BY <1>3, <1>11, <1>12, <2>2
    <3>2. w[Len(b) + i - n] = v[Len(b) + i - n] /\ queue'[i] = queue[i]
      BY <1>5, <1>12, <3>1
    <3> QED
      BY <1>11, <2>2, <3>2
  <2> QED
    BY <1>3, <1>5, <2>1, <2>2
<1>16. Brought(Append(v, m), n)'
  BY <1>9, <1>13, <1>14, <1>15 DEF Brought, b, w
<1>17. Append(v, m) \in Seq(Message)
  BY <1>12 DEF w
<1> QED
  BY <1>6, <1>7, <1>16, <1>17 DEF OnTheWay

\* What is left when an event is taken.
LEMMA TailFacts ==
  ASSUME NEW S, NEW s \in Seq(S), s # <<>>
  PROVE  /\ Head(s) = s[1] /\ s[1] \in S /\ Tail(s) \in Seq(S) /\ Len(s) \in Nat \ {0}
         /\ Len(Tail(s)) = Len(s) - 1
         /\ \A i \in 1 .. Len(s) - 1 : Tail(s)[i] = s[i + 1]
<1>1. Len(s) \in Nat \ {0}
  BY EmptySeq, LenProperties
<1> QED
  BY <1>1, HeadTailProperties, ElementOfSeq

\* The history goes out, and behind it what was published since the subscription.
LEMMA HistoryOnTheWay ==
  ASSUME StreamTypes, ListIInv, CatchIInv, SendHistory
  PROVE  OnTheWay' /\ \A i \in 1 .. Len(queue') : Len(queue'[i].msgs) <= Ring
<1> DEFINE h == <<EventOf("open", <<>>), EventOf("chat_history", ring)>>
<1>1. /\ queue' = h \o pending /\ UNCHANGED <<ring, recorded, all>> /\ server = "subscribed"
  BY DEF SendHistory, listVars
<1>2. /\ ring \in Seq(Message) /\ Len(ring) \in Nat /\ pending \in Seq(Event) /\ recorded \in Nat
      /\ Len(pending) \in Nat /\ all \in Seq(Message) /\ Len(all) \in Nat /\ Len(ring) <= Ring
      /\ Ring \in Nat
  BY LenProperties, NumbersAssumed DEF StreamTypes, ListIInv, Mirrors
<1>3. PendingRight /\ RunsTo(ring, recorded)
  BY <1>1 DEF CatchIInv
<1>4. /\ EventOf("open", <<>>).type = "open" /\ EventOf("open", <<>>).msgs = <<>>
      /\ EventOf("chat_history", ring).type = "chat_history"
      /\ EventOf("chat_history", ring).msgs = ring
      /\ EventOf("open", <<>>) \in Event /\ EventOf("chat_history", ring) \in Event
  BY <1>2 DEF EventOf, Event
<1>5. h \in Seq(Event) /\ Len(h) = 2 /\ h[1] = EventOf("open", <<>>) /\ h[2] = EventOf("chat_history", ring)
  BY <1>4
<1> HIDE DEF h
<1>6. /\ Len(queue') = 2 + Len(pending) /\ queue'[1] = h[1] /\ queue'[2] = h[2]
      /\ \A i \in 3 .. 2 + Len(pending) : queue'[i] = pending[i - 2]
  <2>1. /\ Len(queue') = 2 + Len(pending)
        /\ \A i \in 1 .. 2 + Len(pending) : queue'[i] = IF i <= 2 THEN h[i] ELSE pending[i - 2]
    <3>1. /\ Len(h \o pending) = Len(h) + Len(pending)
          /\ \A i \in 1 .. Len(h) + Len(pending) :
               (h \o pending)[i] = IF i <= Len(h) THEN h[i] ELSE pending[i - Len(h)]
      BY <1>2, <1>5, ConcatProperties
    <3>2. Len(h) = 2 /\ queue' = h \o pending
      BY <1>1, <1>5
    <3> QED
      BY <3>1, <3>2, Zenon
  <2>2. 1 \in 1 .. 2 + Len(pending) /\ 2 \in 1 .. 2 + Len(pending)
    BY <1>2
  <2>3. queue'[1] = h[1] /\ queue'[2] = h[2]
    BY <2>1, <2>2
  <2>4. ASSUME NEW i \in 3 .. 2 + Len(pending) PROVE queue'[i] = pending[i - 2]
    <3>1. i \in 1 .. 2 + Len(pending) /\ ~(i <= 2)
      BY <1>2
    <3> QED
      BY <2>1, <3>1
  <2> QED
    BY <2>1, <2>3, <2>4
<1>7. \A i \in 1 .. Len(pending) : pending[i].type = "chat_message" /\ Len(pending[i].msgs) <= Ring
  BY <1>3 DEF PendingRight, CatchIInv
<1>8. ASSUME NEW i \in 3 .. Len(queue')
      PROVE  /\ queue'[i] = pending[i - 2] /\ i - 2 \in 1 .. Len(pending)
             /\ queue'[i].type = "chat_message" /\ Len(queue'[i].msgs) <= Ring
  <2>1. i \in 3 .. 2 + Len(pending) /\ i - 2 \in 1 .. Len(pending)
    BY <1>2, <1>6
  <2> QED
    BY <1>6, <1>7, <2>1
<1>9. Ordered(2)'
  <2>1. 2 <= Len(queue') /\ queue'[1].type = "open" /\ queue'[2].type = "chat_history"
    BY <1>2, <1>4, <1>5, <1>6
  <2>2. \A i \in 2 + 1 .. Len(queue') : queue'[i].type = "chat_message"
    BY <1>8
  <2> QED
    BY <2>1, <2>2 DEF Ordered
<1>10. Base(2)' = IF ring = <<>> THEN all ELSE ring
  BY <1>1, <1>4, <1>5, <1>6 DEF Base
<1>11. \A i \in 1 .. Len(queue') : Len(queue'[i].msgs) <= Ring
  <2>1. Len(queue'[1].msgs) <= Ring /\ Len(queue'[2].msgs) <= Ring
    BY <1>2, <1>4, <1>5, <1>6
  <2>2. \A i \in 1 .. Len(queue') : i = 1 \/ i = 2 \/ i \in 3 .. Len(queue')
    BY <1>2, <1>6
  <2> QED
    BY <1>8, <2>1, <2>2
<1>12. CASE ring = <<>>
  <2>1. pending = <<>> /\ Len(pending) = 0 /\ Len(ring) = 0
    BY <1>3, <1>12 DEF PendingRight
  <2>2. Base(2)' = all /\ Len(queue') = 2
    BY <1>6, <1>10, <1>12, <2>1
  <2>3. Brought(all, 2)'
    <3>1. Len(all) = Len(all) + 2 - 2
      BY <1>2
    <3>2. \A i \in 2 + 1 .. 2 : FALSE
      OBVIOUS
    <3> QED
      BY <1>1, <2>2, <3>1, <3>2 DEF Brought
  <2>4. EndsWith(all, ring)
    <3>1. Len(ring) <= Len(all) /\ \A i \in 1 .. Len(ring) : FALSE
      BY <1>2, <2>1
    <3> QED
      BY <3>1 DEF EndsWith
  <2>5. Good(all', recorded', ring')
    BY <1>1, <2>4 DEF Good
  <2>6. \E n \in 0 .. 2, v \in Seq(Message) : Ordered(n)' /\ Brought(v, n)' /\ Good(v, recorded', ring')
    <3>1. PICK v \in Seq(Message) : v = all
      BY <1>2
    <3>2. Brought(v, 2)' /\ Good(v, recorded', ring')
      BY <1>1, <2>3, <2>5, <3>1 DEF Brought
    <3> QED
      BY <1>9, <3>2
  <2> QED
    BY <1>11, <2>6 DEF OnTheWay
<1>13. CASE ring # <<>>
  <2>1. PICK p \in Seq(Message) :
          Len(p) = Len(pending) /\ \A i \in 1 .. Len(pending) : p[i] = pending[i].msgs[1]
    <3> DEFINE p == [i \in 1 .. Len(pending) |-> pending[i].msgs[1]]
    <3>1. \A i \in 1 .. Len(pending) : pending[i].msgs[1] \in Message
      <4> SUFFICES ASSUME NEW i \in 1 .. Len(pending) PROVE pending[i].msgs[1] \in Message
        OBVIOUS
      <4>1. pending[i] \in Event
        BY <1>2, ElementOfSeq
      <4> QED
        BY <1>7, <4>1, EventFacts
    <3>2. p \in Seq(Message) /\ Len(p) = Len(pending)
      BY <1>2, <3>1, IsASeq
    <3>3. \A i \in 1 .. Len(pending) : p[i] = pending[i].msgs[1]
      OBVIOUS
    <3> HIDE DEF p
    <3> QED
      BY <3>2, <3>3
  <2>2. PICK r \in Seq(Message) : r = ring
    BY <1>2
  <2>3. PICK v \in Seq(Message) : v = r \o p
    BY ConcatProperties
  <2>4. /\ Len(v) = Len(r) + Len(p) /\ \A i \in 1 .. Len(r) : v[i] = r[i]
        /\ \A i \in 1 .. Len(p) : v[Len(r) + i] = p[i]
    <3>1. /\ Len(r \o p) = Len(r) + Len(p)
          /\ \A i \in 1 .. Len(r) + Len(p) : (r \o p)[i] = IF i <= Len(r) THEN r[i] ELSE p[i - Len(r)]
          /\ Len(r) \in Nat /\ Len(p) \in Nat
      BY ConcatProperties, LenProperties
    <3>2. ASSUME NEW i \in 1 .. Len(p) PROVE v[Len(r) + i] = p[i]
      <4>1. Len(r) + i \in 1 .. Len(r) + Len(p) /\ ~(Len(r) + i <= Len(r)) /\ (Len(r) + i) - Len(r) = i
        BY <3>1
      <4> QED
        BY <2>3, <3>1, <4>1
    <3>3. ASSUME NEW i \in 1 .. Len(r) PROVE v[i] = r[i]
      <4>1. i \in 1 .. Len(r) + Len(p) /\ i <= Len(r)
        BY <3>1
      <4> QED
        BY <2>3, <3>1, <4>1
    <3> QED
      BY <2>3, <3>1, <3>2, <3>3
  <2>5. RunsTo(p, recorded)
    BY <1>3, <2>1 DEF RunsTo, PendingRight
  <2>6. SameById(r, p)
    BY <1>3, <2>1, <2>2 DEF SameById, PendingRight
  <2>7. Good(v, recorded, r)
    BY <1>2, <1>3, <2>2, <2>4, <2>5, <2>6, GoodStart
  <2>8. Base(2)' = r
    BY <1>10, <1>13, <2>2
  <2>9. ASSUME NEW i \in 2 + 1 .. Len(queue') PROVE v[Len(r) + i - 2] = queue'[i].msgs[1]
    <3>1. queue'[i] = pending[i - 2] /\ i - 2 \in 1 .. Len(pending)
      BY <1>8
    <3>2. v[Len(r) + (i - 2)] = p[i - 2]
      BY <2>1, <2>4, <3>1
    <3>3. Len(r) + (i - 2) = Len(r) + i - 2
      BY <1>2, <2>2
    <3> QED
      BY <2>1, <3>1, <3>2, <3>3
  <2>10. Len(v) = Len(r) + Len(queue') - 2
    BY <1>2, <1>6, <2>1, <2>2, <2>4
  <2>11. Brought(v, 2)'
    BY <2>4, <2>8, <2>9, <2>10 DEF Brought
  <2>12. Good(v, recorded', ring')
    BY <1>1, <2>2, <2>7
  <2> QED
    BY <1>9, <1>11, <2>11, <2>12 DEF OnTheWay
<1> QED
  BY <1>12, <1>13

\* The list messages are appended to.
LEMMA BaseTyped ==
  ASSUME StreamTypes, ListIInv, NEW n \in 0 .. 2, Ordered(n)
  PROVE  Base(n) \in Seq(Message) /\ Len(Base(n)) \in Nat
<1>1. all \in Seq(Message) /\ queue \in Seq(Event) /\ Len(queue) \in Nat
  BY LenProperties DEF StreamTypes, ListIInv, Mirrors
<1>2. Base(n) \in Seq(Message)
  <2>1. CASE n = 0
    BY <1>1, <2>1 DEF Base
  <2>2. CASE n > 0
    <3>1. queue[n] \in Event /\ queue[n].type = "chat_history"
      BY <1>1, <2>2, ElementOfSeq DEF Ordered
    <3>2. queue[n].msgs \in Seq(Message)
      BY <3>1, EventFacts
    <3> QED
      BY <1>1, <2>2, <3>2 DEF Base
  <2> QED
    BY <2>1, <2>2
<1> QED
  BY <1>2, LenProperties

\* The page takes the open event or the history, and the list to come is the same.
LEMMA HeadTaken ==
  ASSUME StreamTypes, ListIInv, NEW l \in 0 .. 1, NEW v \in Seq(Message), Ordered(l + 1),
         Brought(v, l + 1), queue # <<>>, queue' = Tail(queue), Base(l)' = Base(l + 1)
  PROVE  Ordered(l)' /\ Brought(v, l)'
<1> DEFINE b == Base(l + 1)
<1>1. /\ Len(queue) \in Nat \ {0} /\ Len(queue') = Len(queue) - 1
      /\ \A i \in 1 .. Len(queue) - 1 : queue'[i] = queue[i + 1]
  BY TailFacts DEF StreamTypes
<1>2. Len(b) \in Nat
  BY BaseTyped
<1>3. /\ l + 1 <= Len(queue) /\ queue[l + 1].type = "chat_history"
      /\ \A i \in (l + 1) + 1 .. Len(queue) : queue[i].type = "chat_message"
  BY DEF Ordered
<1>4. /\ Len(v) = Len(b) + Len(queue) - (l + 1)
      /\ \A i \in 1 .. Len(b) : v[i] = b[i]
      /\ \A i \in (l + 1) + 1 .. Len(queue) : v[Len(b) + i - (l + 1)] = queue[i].msgs[1]
  BY DEF Brought
<1> HIDE DEF b
<1>5. ASSUME NEW i \in l + 1 .. Len(queue')
      PROVE  queue'[i] = queue[i + 1] /\ i + 1 \in (l + 1) + 1 .. Len(queue)
  <2>1. i \in 1 .. Len(queue) - 1 /\ i + 1 \in (l + 1) + 1 .. Len(queue)
    BY <1>1
  <2> QED
    BY <1>1, <2>1
<1>6. Ordered(l)'
  <2>1. \A i \in l + 1 .. Len(queue') : queue'[i].type = "chat_message"
    BY <1>3, <1>5
  <2>2. l <= Len(queue')
    BY <1>1, <1>3
  <2>3. l > 0 => queue'[l].type = "chat_history"
    <3>1. l > 0 => l \in 1 .. Len(queue) - 1
      BY <1>1, <1>3
    <3> QED
      BY <1>1, <1>3, <3>1
  <2>4. l # 2
    OBVIOUS
  <2> QED
    BY <2>1, <2>2, <2>3, <2>4 DEF Ordered
<1>7. Brought(v, l)'
  <2>1. Len(v) = Len(b) + Len(queue') - l
    BY <1>1, <1>2, <1>4
  <2>2. ASSUME NEW i \in l + 1 .. Len(queue') PROVE v[Len(b) + i - l] = queue'[i].msgs[1]
    <3>1. Len(b) + (i + 1) - (l + 1) = Len(b) + i - l
      BY <1>2
    <3>2. v[Len(b) + (i + 1) - (l + 1)] = queue[i + 1].msgs[1]
      BY <1>4, <1>5
    <3> QED
      BY <1>5, <3>1, <3>2
  <2> QED
    BY <1>4, <2>1, <2>2 DEF Brought, b
<1> QED
  BY <1>6, <1>7

\* The event in front tells how much of the start is left.
LEMMA FrontTells ==
  ASSUME StreamTypes, queue # <<>>, NEW n \in 0 .. 2, Ordered(n)
  PROVE  /\ Head(queue).type = "open" => n = 2
         /\ Head(queue).type = "chat_history" => n = 1
         /\ Head(queue).type = "chat_message" => n = 0
         /\ Head(queue).type # "error"
<1>1. Head(queue) = queue[1] /\ Len(queue) \in Nat \ {0}
  BY TailFacts DEF StreamTypes
<1>2. CASE n = 0
  <2>1. 1 \in n + 1 .. Len(queue)
    BY <1>1, <1>2
  <2> QED
    BY <1>1, <1>2, <2>1 DEF Ordered
<1>3. CASE n = 1
  BY <1>1, <1>3 DEF Ordered
<1>4. CASE n = 2
  BY <1>1, <1>4 DEF Ordered
<1> QED
  BY <1>2, <1>3, <1>4

\* The page learns that the stream is open.
LEMMA OpenOnTheWay ==
  ASSUME StreamTypes, ListIInv, OnTheWay, OnOpen
  PROVE  OnTheWay'
<1>1. /\ queue # <<>> /\ Head(queue).type = "open" /\ queue' = Tail(queue)
      /\ UNCHANGED <<ring, recorded, all>> /\ queue \in Seq(Event)
  BY DEF OnOpen, Handles, Handled, serverVars, listVars, StreamTypes
<1>2. PICK n \in 0 .. 2, v \in Seq(Message) :
        Ordered(n) /\ Brought(v, n) /\ Good(v, recorded, ring)
  BY DEF OnTheWay
<1>3. n = 1 + 1
  BY <1>1, <1>2, FrontTells
<1>4. queue'[1] = queue[2]
  <2>1. /\ Len(queue) \in Nat \ {0}
        /\ \A i \in 1 .. Len(queue) - 1 : queue'[i] = queue[i + 1]
    BY <1>1, TailFacts
  <2>2. 1 \in 1 .. Len(queue) - 1
    BY <1>2, <1>3, <2>1 DEF Ordered
  <2> QED
    BY <2>1, <2>2
<1>5. Base(1)' = Base(1 + 1)
  <2>1. Base(2) = IF queue[2].msgs = <<>> THEN all ELSE queue[2].msgs
    BY DEF Base
  <2>2. Base(1)' = IF queue'[1].msgs = <<>> THEN all' ELSE queue'[1].msgs
    BY DEF Base
  <2>3. 1 + 1 = 2
    OBVIOUS
  <2> QED
    BY <1>1, <1>4, <2>1, <2>2, <2>3
<1>6. Ordered(1)' /\ Brought(v, 1)'
  BY <1>1, <1>2, <1>3, <1>5, HeadTaken
<1>7. Good(v, recorded', ring')
  BY <1>1, <1>2
<1> QED
  BY <1>6, <1>7 DEF OnTheWay

\* The page loads the history: it lists what the messages behind it belong to.
LEMMA LoadOnTheWay ==
  ASSUME StreamTypes, ListIInv, OnTheWay, OnChatHistory, loaded
  PROVE  OnTheWay'
<1>1. /\ queue # <<>> /\ Head(queue).type = "chat_history" /\ queue' = Tail(queue)
      /\ UNCHANGED <<ring, recorded>> /\ queue \in Seq(Event)
      /\ all' = IF Head(queue).msgs = <<>> THEN all ELSE Head(queue).msgs
  BY DEF OnChatHistory, Handles, Handled, serverVars, listVars, StreamTypes, loadChatHistory
<1>2. PICK n \in 0 .. 2, v \in Seq(Message) :
        Ordered(n) /\ Brought(v, n) /\ Good(v, recorded, ring)
  BY DEF OnTheWay
<1>3. n = 0 + 1
  BY <1>1, <1>2, FrontTells
<1>4. Base(0)' = Base(0 + 1)
  BY <1>1, TailFacts DEF Base
<1>5. Ordered(0)' /\ Brought(v, 0)'
  BY <1>1, <1>2, <1>3, <1>4, HeadTaken
<1>6. Good(v, recorded', ring')
  BY <1>1, <1>2
<1> QED
  BY <1>5, <1>6 DEF OnTheWay

\* The page appends a message, and drops one that is over its limit.
LEMMA AppendOnTheWay ==
  ASSUME StreamTypes, ListIInv, CatchIInv, OnTheWay, OnChatMessage, ~paused, loaded
  PROVE  OnTheWay'
<1> DEFINE m == Head(queue).msgs[1]
<1>1. /\ queue # <<>> /\ Head(queue).type = "chat_message" /\ queue' = Tail(queue)
      /\ UNCHANGED <<ring, recorded>> /\ queue \in Seq(Event)
      /\ all' = IF Len(Append(all, m)) > MaxList THEN Tail(Append(all, m)) ELSE Append(all, m)
  BY DEF OnChatMessage, Handles, Handled, serverVars, StreamTypes, appendChatMessage, Trim
<1>2. PICK n \in 0 .. 2, v \in Seq(Message) :
        Ordered(n) /\ Brought(v, n) /\ Good(v, recorded, ring)
  BY DEF OnTheWay
<1>3. n = 0
  BY <1>1, <1>2, FrontTells
<1>4. /\ Head(queue) = queue[1] /\ queue[1] \in Event /\ Len(queue) \in Nat \ {0}
      /\ Len(queue') = Len(queue) - 1
      /\ \A i \in 1 .. Len(queue) - 1 : queue'[i] = queue[i + 1]
  BY <1>1, TailFacts
<1>5. m \in Message
  BY <1>1, <1>4, EventFacts
<1>6. m = queue[1].msgs[1]
  BY <1>4
<1> HIDE DEF m
<1>7. /\ all \in Seq(Message) /\ Len(all) \in Nat /\ Len(all) <= MaxList /\ MaxList \in Nat \ {0}
      /\ ring \in Seq(Message) /\ Len(ring) <= Ring /\ recorded \in Nat
  BY LenProperties, NumbersAssumed DEF StreamTypes, ListIInv, Mirrors, CatchIInv
<1>8. /\ Append(all, m) \in Seq(Message) /\ Len(Append(all, m)) = Len(all) + 1
      /\ \A i \in 1 .. Len(all) : Append(all, m)[i] = all[i]
      /\ Append(all, m)[Len(all) + 1] = m
  BY <1>5, <1>7, AppendProperties
<1>9. /\ Len(v) = Len(all) + Len(queue) - 0
      /\ \A i \in 1 .. Len(all) : v[i] = all[i]
      /\ \A i \in 0 + 1 .. Len(queue) : v[Len(all) + i - 0] = queue[i].msgs[1]
  BY <1>2, <1>3 DEF Brought, Base
<1>10. Len(v) = Len(all) + Len(queue) /\ Len(v) \in Nat
  BY <1>4, <1>7, <1>9
<1>11. v[Len(all) + 1] = m
  <2>1. 1 \in 0 + 1 .. Len(queue) /\ Len(all) + 1 - 0 = Len(all) + 1
    BY <1>4, <1>7
  <2> QED
    BY <1>6, <1>9, <2>1
<1>12. ASSUME NEW i \in 1 .. Len(all) + 1 PROVE v[i] = Append(all, m)[i]
  <2>1. i = Len(all) + 1 \/ i \in 1 .. Len(all)
    BY <1>7
  <2> QED
    BY <1>8, <1>9, <1>11, <2>1
<1>13. ASSUME NEW i \in 1 .. Len(queue') PROVE v[Len(all) + 1 + i] = queue'[i].msgs[1]
  <2>1. i \in 1 .. Len(queue) - 1 /\ i + 1 \in 0 + 1 .. Len(queue)
        /\ Len(all) + (i + 1) - 0 = Len(all) + 1 + i
    BY <1>4, <1>7
  <2>2. v[Len(all) + (i + 1) - 0] = queue[i + 1].msgs[1]
    BY <1>9, <2>1
  <2> QED
    BY <1>4, <2>1, <2>2
<1>14. Ordered(0)'
  <2>1. ASSUME NEW i \in 0 + 1 .. Len(queue') PROVE queue'[i].type = "chat_message"
    <3>1. i \in 1 .. Len(queue) - 1 /\ i + 1 \in 0 + 1 .. Len(queue)
      BY <1>4
    <3> QED
      BY <1>2, <1>3, <1>4, <3>1 DEF Ordered
  <2>2. 0 <= Len(queue')
    BY <1>4
  <2> QED
    BY <2>1, <2>2 DEF Ordered
<1>15. Base(0)' = all'
  BY DEF Base
<1>16. CASE Len(all) + 1 <= MaxList
  <2>1. all' = Append(all, m) /\ Len(all') = Len(all) + 1
    BY <1>1, <1>7, <1>8, <1>16 DEF m
  <2>2. Len(v) = Len(all') + Len(queue') - 0
    BY <1>4, <1>7, <1>10, <2>1
  <2>3. \A i \in 1 .. Len(all') : v[i] = all'[i]
    BY <1>12, <2>1
  <2>4. ASSUME NEW i \in 0 + 1 .. Len(queue') PROVE v[Len(all') + i - 0] = queue'[i].msgs[1]
    <3>1. Len(all') + i - 0 = Len(all) + 1 + i /\ i \in 1 .. Len(queue')
      BY <1>7, <2>1
    <3> QED
      BY <1>13, <3>1
  <2>5. Brought(v, 0)'
    BY <1>15, <2>2, <2>3, <2>4 DEF Brought
  <2>6. Good(v, recorded', ring')
    BY <1>1, <1>2
  <2> QED
    BY <1>14, <2>5, <2>6 DEF OnTheWay
<1>17. CASE Len(all) + 1 > MaxList
  <2>1. all' = Tail(Append(all, m)) /\ Append(all, m) # <<>>
    <3>1. Len(Append(all, m)) # 0
      BY <1>7, <1>8
    <3>2. Append(all, m) # <<>>
      BY <3>1, EmptySeq
    <3> QED
      BY <1>1, <1>8, <1>17, <3>2 DEF m
  <2>2. /\ all' \in Seq(Message) /\ Len(all') = Len(Append(all, m)) - 1
        /\ \A i \in 1 .. Len(Append(all, m)) - 1 : all'[i] = Append(all, m)[i + 1]
    BY <1>8, <2>1, TailFacts
  <2>3. Len(all') = Len(all) /\ \A i \in 1 .. Len(all) : all'[i] = Append(all, m)[i + 1]
    BY <1>7, <1>8, <2>2
  <2>4. v # <<>>
    BY <1>4, <1>7, <1>10, EmptySeq
  <2>5. PICK w \in Seq(Message) : Len(w) = Len(v) - 1 /\ \A i \in 1 .. Len(v) - 1 : w[i] = v[i + 1]
    BY <2>4, TailFacts
  <2>6. Good(w, recorded, ring)
    <3>1. Len(v) > MaxList
      BY <1>4, <1>7, <1>10, <1>17
    <3>2. \A i \in 1 .. Len(w) : w[i] = v[i + 1]
      BY <2>5
    <3> QED
      BY <1>2, <1>7, <2>5, <3>1, <3>2, GoodTrimmed
  <2>7. Len(w) = Len(all') + Len(queue') - 0
    BY <1>4, <1>7, <1>10, <2>3, <2>5
  <2>8. ASSUME NEW i \in 1 .. Len(all') PROVE w[i] = all'[i]
    <3>1. i \in 1 .. Len(all) /\ i \in 1 .. Len(v) - 1 /\ i + 1 \in 1 .. Len(all) + 1
      BY <1>4, <1>7, <1>10, <2>3
    <3>2. w[i] = v[i + 1] /\ all'[i] = Append(all, m)[i + 1]
      BY <2>3, <2>5, <3>1
    <3> QED
      BY <1>12, <3>1, <3>2
  <2>9. ASSUME NEW i \in 0 + 1 .. Len(queue') PROVE w[Len(all') + i - 0] = queue'[i].msgs[1]
    <3>1. /\ i \in 1 .. Len(queue') /\ Len(all') + i - 0 = Len(all) + i
          /\ Len(all) + i \in 1 .. Len(v) - 1 /\ (Len(all) + i) + 1 = Len(all) + 1 + i
      BY <1>4, <1>7, <1>10, <2>3
    <3>2. w[Len(all) + i] = v[(Len(all) + i) + 1]
      BY <2>5, <3>1
    <3> QED
      BY <1>13, <3>1, <3>2
  <2>10. Brought(w, 0)'
    BY <1>15, <2>7, <2>8, <2>9 DEF Brought
  <2>11. Good(w, recorded', ring')
    BY <1>1, <2>6
  <2> QED
    BY <1>14, <2>10, <2>11 DEF OnTheWay
<1> QED
  BY <1>7, <1>16, <1>17

\* A message is recorded.
LEMMA RecordCatch ==
  ASSUME StreamTypes, ListIInv, CatchIInv, NEW c \in Channel, Record(c)
  PROVE  CatchIInv'
<1>1. PICK m \in Message :
        LET e == EventOf("chat_message", <<m>>) IN
        /\ m.id = recorded + 1 /\ recorded' = recorded + 1 /\ recorded \in Nat
        /\ ring' = LastOf(Ring, Append(ring, m)) /\ all' = all /\ server' = server
        /\ \/ server = "subscribed" /\ pending' = Append(pending, e) /\ UNCHANGED <<queue, missed>>
           \/ server = "loop" /\ queue' = Append(queue, e) /\ UNCHANGED <<pending, missed>>
           \/ server = "loop" /\ missed' = TRUE /\ UNCHANGED <<pending, queue>>
           \/ server = "none" /\ UNCHANGED <<pending, queue, missed>>
  BY Recorded
<1> DEFINE e == EventOf("chat_message", <<m>>)
<1>2. /\ ring \in Seq(Message) /\ Len(ring) <= Ring /\ queue \in Seq(Event) /\ Len(queue) \in Nat
      /\ Ring \in Nat \ {0} /\ e \in Event /\ Len(e.msgs) = 1
  BY LenProperties, NumbersAssumed, MessageEvent DEF StreamTypes
<1>3. /\ Len(all') <= MaxList /\ RunsTo(ring', recorded') /\ missed' \in BOOLEAN
  BY <1>1, <1>2, RingRuns DEF CatchIInv
<1>4. CASE server = "subscribed" /\ pending' = Append(pending, e) /\ UNCHANGED <<queue, missed>>
  <2>1. PendingRight' /\ \A i \in 1 .. Len(pending') : Len(pending'[i].msgs) <= Ring
    BY <1>1, <1>4, RecordPending
  <2> QED
    BY <1>1, <1>3, <1>4, <2>1 DEF CatchIInv
<1>5. CASE server = "loop" /\ queue' = Append(queue, e) /\ UNCHANGED <<pending, missed>>
  <2>1. ~missed => OnTheWay'
    BY <1>1, <1>5, RecordQueued DEF CatchIInv
  <2>2. ASSUME NEW i \in 1 .. Len(queue') PROVE Len(queue'[i].msgs) <= Ring
    <3> HIDE DEF e
    <3>1. /\ Len(queue') = Len(queue) + 1 /\ queue'[Len(queue) + 1] = e
          /\ \A j \in 1 .. Len(queue) : queue'[j] = queue[j]
      BY <1>2, <1>5, AppendProperties
    <3>2. i = Len(queue) + 1 \/ i \in 1 .. Len(queue)
      BY <1>2, <3>1
    <3>3. CASE i = Len(queue) + 1
      <4>1. queue'[i] = e
        BY <3>1, <3>3
      <4>2. Len(e.msgs) = 1 /\ 1 <= Ring
        BY <1>2
      <4> QED
        BY <4>1, <4>2
    <3>4. CASE i \in 1 .. Len(queue)
      BY <3>1, <3>4 DEF CatchIInv
    <3> QED
      BY <3>2, <3>3, <3>4
  <2> QED
    BY <1>1, <1>3, <1>5, <2>1, <2>2 DEF CatchIInv
<1>6. CASE server \in {"loop", "none"} /\ UNCHANGED <<pending, queue>> /\ (server = "loop" => missed')
  BY <1>1, <1>3, <1>6 DEF CatchIInv
<1> QED
  BY <1>1, <1>4, <1>5, <1>6

\* A new stream, and one that is lost.
LEMMA ServerCatch ==
  ASSUME StreamTypes, ListIInv, CatchIInv, Subscribe \/ SendHistory \/ Break
  PROVE  CatchIInv'
<1>0. /\ Len(<<>>) = 0 /\ 1 .. 0 = {} /\ Ring \in Nat /\ queue \in Seq(Event)
      /\ Len(queue) \in Nat
  BY LenProperties, NumbersAssumed DEF StreamTypes
<1>1. CASE Subscribe
  <2>1. /\ server = "none" /\ queue = <<>> /\ server' = "subscribed" /\ missed' = FALSE
        /\ UNCHANGED <<ring, recorded, pending, queue, all>>
    BY <1>1 DEF Subscribe, streamVars, listVars
  <2>2. pending = <<>>
    BY <2>1 DEF CatchIInv
  <2>3. PendingRight'
    BY <1>0, <2>1, <2>2 DEF PendingRight
  <2> QED
    BY <2>1, <2>3 DEF CatchIInv, RunsTo
<1>2. CASE SendHistory
  <2>1. server' = "loop" /\ pending' = <<>> /\ UNCHANGED <<ring, recorded, missed, all>>
    BY <1>2 DEF SendHistory, listVars
  <2>2. OnTheWay' /\ \A i \in 1 .. Len(queue') : Len(queue'[i].msgs) <= Ring
    BY <1>2, HistoryOnTheWay
  <2>3. \A i \in 1 .. Len(pending') : Len(pending'[i].msgs) <= Ring
    BY <1>0, <2>1
  <2> QED
    BY <2>1, <2>2, <2>3 DEF CatchIInv, RunsTo
<1>3. CASE Break
  <2>1. PICK k \in 0 .. Len(queue) : queue' = Append(SubSeq(queue, 1, k), EventOf("error", <<>>))
    BY <1>3 DEF Break
  <2>2. /\ server' = "none" /\ pending' = <<>> /\ ring' \in {ring, <<>>}
        /\ UNCHANGED <<recorded, missed, all>>
    BY <1>3 DEF Break, listVars
  <2>3. EventOf("error", <<>>) \in Event /\ Len(EventOf("error", <<>>).msgs) = 0
    BY <1>0 DEF Event, EventOf
  <2>4. /\ SubSeq(queue, 1, k) \in Seq(Event) /\ Len(SubSeq(queue, 1, k)) = k
        /\ \A i \in 1 .. k : SubSeq(queue, 1, k)[i] = queue[i]
    <3>1. \A i \in 1 .. k : queue[i] \in Event
      BY <1>0, ElementOfSeq
    <3>2. SubSeq(queue, 1, k) \in Seq(Event)
      BY <1>0, PrefixTyped
    <3> QED
      BY <1>0, <3>1, <3>2, SubSeqProperties
  <2>5. ASSUME NEW i \in 1 .. Len(queue') PROVE Len(queue'[i].msgs) <= Ring
    <3> DEFINE e == EventOf("error", <<>>)
               s == SubSeq(queue, 1, k)
    <3>1. e \in Event /\ Len(e.msgs) = 0 /\ s \in Seq(Event) /\ Len(s) = k /\ queue' = Append(s, e)
      BY <2>1, <2>3, <2>4
    <3>2. \A j \in 1 .. k : s[j] = queue[j]
      BY <2>4
    <3> HIDE DEF e, s
    <3>3. /\ Len(queue') = k + 1 /\ queue'[k + 1] = e
          /\ \A j \in 1 .. k : queue'[j] = s[j]
      BY <3>1, AppendProperties
    <3>4. i = k + 1 \/ (i \in 1 .. k /\ i \in 1 .. Len(queue))
      BY <1>0, <3>3
    <3>5. CASE i = k + 1
      BY <1>0, <3>1, <3>3, <3>5
    <3>6. CASE i \in 1 .. k /\ i \in 1 .. Len(queue)
      BY <3>2, <3>3, <3>6 DEF CatchIInv
    <3> QED
      BY <3>4, <3>5, <3>6
  <2>6. RunsTo(ring', recorded')
    <3>1. CASE ring' = ring
      BY <2>2, <3>1 DEF CatchIInv
    <3>2. CASE ring' = <<>>
      BY <1>0, <3>2 DEF RunsTo
    <3> QED
      BY <2>2, <3>1, <3>2
  <2>7. \A i \in 1 .. Len(pending') : Len(pending'[i].msgs) <= Ring
    BY <1>0, <2>2
  <2> QED
    BY <2>2, <2>5, <2>6, <2>7 DEF CatchIInv
<1> QED
  BY <1>1, <1>2, <1>3

\* What is left of the queue is as short, and the subscription is older.
LEMMA HandledCatch ==
  ASSUME StreamTypes, CatchIInv, queue # <<>>, queue' = Tail(queue), UNCHANGED serverVars,
         missed' \in BOOLEAN, Len(all') <= MaxList, server = "loop" /\ ~missed' => OnTheWay'
  PROVE  CatchIInv'
<1>1. UNCHANGED <<ring, recorded, server, pending>>
  BY DEF serverVars
<1>2. server # "subscribed"
  BY DEF CatchIInv, PendingRight
<1>3. ASSUME NEW i \in 1 .. Len(queue') PROVE Len(queue'[i].msgs) <= Ring
  <2>1. /\ Len(queue) \in Nat \ {0} /\ Len(queue') = Len(queue) - 1
        /\ \A j \in 1 .. Len(queue) - 1 : queue'[j] = queue[j + 1]
    BY TailFacts DEF StreamTypes
  <2>2. i \in 1 .. Len(queue) - 1 /\ i + 1 \in 1 .. Len(queue)
    BY <2>1
  <2>3. queue'[i] = queue[i + 1]
    BY <2>1, <2>2
  <2> QED
    BY <2>2, <2>3 DEF CatchIInv
<1> QED
  BY <1>1, <1>2, <1>3 DEF CatchIInv

\* The page handles an event.
LEMMA PageCatch ==
  ASSUME StreamTypes, ListIInv, CatchIInv, PageStep
  PROVE  CatchIInv'
<1>1. queue # <<>> /\ queue' = Tail(queue) /\ UNCHANGED serverVars
  BY DEF PageStep, OnOpen, OnError, OnChatHistory, OnChatMessage, Handles, Handled
<1>2. /\ missed \in BOOLEAN /\ Len(all) <= MaxList /\ (server = "loop" /\ ~missed => OnTheWay)
  BY DEF CatchIInv
<1>3. server' = server
  BY <1>1 DEF serverVars
<1>4. CASE OnOpen
  <2>1. UNCHANGED <<missed, all>>
    BY <1>4 DEF OnOpen, listVars
  <2>2. server = "loop" /\ ~missed' => OnTheWay'
    BY <1>2, <1>4, <2>1, OpenOnTheWay
  <2> QED
    BY <1>1, <1>2, <2>1, <2>2, HandledCatch
<1>5. CASE OnError
  <2>1. UNCHANGED <<missed, all>> /\ Head(queue).type = "error"
    BY <1>5 DEF OnError, listVars, Handles
  <2>2. ~(server = "loop" /\ ~missed)
    BY <1>1, <1>2, <2>1, FrontTells DEF OnTheWay
  <2> QED
    BY <1>1, <1>2, <2>1, <2>2, HandledCatch
<1>6. CASE OnChatHistory
  <2>1. missed' = (missed \/ ~loaded)
    BY <1>6 DEF OnChatHistory
  <2>2. server = "loop" /\ ~missed' => OnTheWay'
    BY <1>2, <1>6, <2>1, LoadOnTheWay
  <2>3. Len(all') <= MaxList
    <3>1. all' = all \/ all' = Head(queue).msgs
      BY <1>6 DEF OnChatHistory, loadChatHistory, listVars
    <3>2. Head(queue) = queue[1] /\ Len(queue) \in Nat \ {0}
      BY <1>1, TailFacts DEF StreamTypes
    <3>3. Len(queue[1].msgs) <= Ring
      BY <3>2 DEF CatchIInv
    <3>4. queue[1] \in Event /\ queue[1].type = "chat_history"
      BY <1>6, <3>2, ElementOfSeq DEF StreamTypes, OnChatHistory, Handles
    <3>5. Len(queue[1].msgs) \in Nat
      BY <3>4, EventFacts, LenProperties
    <3>6. Len(queue[1].msgs) <= MaxList
      BY <3>3, <3>5, NumbersAssumed, RingAssumption
    <3> QED
      BY <1>2, <3>1, <3>2, <3>6
  <2> QED
    BY <1>1, <1>2, <2>1, <2>2, <2>3, HandledCatch
<1>7. CASE OnChatMessage
  <2>1. missed' = (missed \/ paused \/ ~loaded)
    BY <1>7 DEF OnChatMessage
  <2>2. server = "loop" /\ ~missed' => OnTheWay'
    BY <1>2, <1>7, <2>1, AppendOnTheWay
  <2>3. Len(all') <= MaxList
    <3>1. CASE all' = all
      BY <1>2, <3>1
    <3>2. CASE all' # all
      <4> DEFINE m == Head(queue).msgs[1]
                 a == Append(all, m)
      <4>1. all' = IF Len(a) > MaxList THEN Tail(a) ELSE a
        BY <1>7, <3>2 DEF OnChatMessage, appendChatMessage, Trim, listVars
      <4>2. queue \in Seq(Event) /\ Head(queue) \in Event /\ Head(queue).type = "chat_message"
        BY <1>1, <1>7, TailFacts DEF StreamTypes, OnChatMessage, Handles
      <4>3. m \in Message
        BY <4>2, EventFacts
      <4>4. all \in Seq(Message) /\ Len(all) \in Nat /\ MaxList \in Nat
        BY LenProperties, NumbersAssumed DEF ListIInv, Mirrors
      <4> HIDE DEF m
      <4>5. a \in Seq(Message) /\ Len(a) = Len(all) + 1
        BY <4>3, <4>4, AppendProperties
      <4>6. a # <<>>
        BY <4>4, <4>5, EmptySeq
      <4> HIDE DEF a
      <4>7. Len(Tail(a)) = Len(a) - 1
        BY <4>5, <4>6, TailFacts
      <4> QED
        BY <1>2, <4>1, <4>4, <4>5, <4>7
    <3> QED
      BY <3>1, <3>2
  <2>4. missed' \in BOOLEAN
    BY <2>1
  <2> QED
    BY <1>1, <2>2, <2>3, <2>4, HandledCatch
<1> QED
  BY <1>4, <1>5, <1>6, <1>7 DEF PageStep

\* Every step keeps it.
LEMMA CatchStep == ASSUME StreamTypes, ListIInv, CatchIInv, [Next]_vars PROVE CatchIInv'
<1>1. CASE \E c \in Channel : Record(c)
  BY <1>1, RecordCatch
<1>2. CASE ServerStep \/ Break
  BY <1>2, ServerCatch DEF ServerStep
<1>3. CASE PageStep
  BY <1>3, PageCatch
<1>4. CASE UNCHANGED <<serverVars, queue, all, missed>>
  <2>1. UNCHANGED <<ring, recorded, server, pending, queue, all, missed>>
    BY <1>4 DEF serverVars
  <2>2. OnTheWay' <=> OnTheWay
    BY <2>1 DEF OnTheWay, Ordered, Brought, Base
  <2> QED
    BY <2>1, <2>2 DEF CatchIInv, PendingRight
<1>5. \/ \E c \in Channel : Record(c)
      \/ ServerStep \/ Break
      \/ PageStep
      \/ UNCHANGED <<serverVars, queue, all, missed>>
  BY DEF Next, Reconnect, TogglePause, LoadScript, initChat, LoadChannels, LoadChannelsFails,
         ClickChannel, Type, sendMessage, SendAnswered, vars, streamVars, listVars
<1> QED
  BY <1>1, <1>2, <1>3, <1>4, <1>5

\* When everything is delivered and nothing was ignored the page has every message
\* of the server's ring, but for as many of the oldest as it lists twice: whatever
\* was recorded between the subscription and the copy of the history, and however
\* the page trims its list (chat.js:175-211, server.go:485-527).
THEOREM ChatComplete == Spec => []ChatCatchesUp
<1>1. StreamTypes /\ ListIInv /\ CatchIInv => ChatCatchesUp
  <2> SUFFICES ASSUME StreamTypes, ListIInv, CatchIInv, server = "loop", queue = <<>>, ~missed,
                      NEW i \in DOMAIN ring, i > Repeats(all)
               PROVE  ring[i] \in ToSet(all)
    BY DEF ChatCatchesUp
  <2>1. PICK n \in 0 .. 2, v \in Seq(Message) :
          Ordered(n) /\ Brought(v, n) /\ Good(v, recorded, ring)
    BY DEF CatchIInv, OnTheWay
  <2>2. n = 0 /\ Len(queue) = 0
    BY <2>1, EmptySeq DEF Ordered
  <2>3. all \in Seq(Message) /\ Len(all) \in Nat /\ Len(v) \in Nat
    BY LenProperties DEF ListIInv, Mirrors
  <2>4. Len(v) = Len(all) /\ \A j \in 1 .. Len(all) : v[j] = all[j]
    BY <2>1, <2>2, <2>3 DEF Brought, Base
  <2>5. v = all
    BY <2>3, <2>4, SeqEqual
  <2>6. /\ ring \in Seq(Message) /\ recorded \in Nat /\ RunsTo(ring, recorded)
        /\ Len(ring) <= Ring /\ Len(all) <= MaxList
    BY NumbersAssumed DEF StreamTypes, CatchIInv
  <2>7. i \in 1 .. Len(ring)
    BY <2>6
  <2> QED
    BY <2>1, <2>5, <2>6, <2>7, GoodHolds
<1>2. ChatIInv => StreamTypes /\ ListIInv
  BY DEF ChatIInv
<1> QED
  BY <1>1, <1>2, ChatInvariance, InitCatch, CatchStep, PTL DEF Spec
=============================================================================
