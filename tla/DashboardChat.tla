--------------------------- MODULE DashboardChat ---------------------------
(***************************************************************************)
(* The chat page of the dashboard (static/chat.js) and the event stream    *)
(* that feeds it (connectSSE of static/app.js): the stream is opened while *)
(* the page is still loading, breaks, and is opened again after a growing  *)
(* delay; each opening brings the server's chat history and then the new   *)
(* messages.  Every handler runs to its end before the next one.           *)
(*                                                                         *)
(* The server is what the page can see of it: a ring of the last messages  *)
(* and a subscription made before the history is copied, so that a message *)
(* recorded in between comes twice (EventBus models the server's side).    *)
(* queue holds what the server has written and the page not yet handled.   *)
(***************************************************************************)
EXTENDS Naturals, Sequences, FiniteSets, SequencesExt

CONSTANTS
  Channel,      \* channel indexes
  Answers,      \* the lists of channels /api/chat/channels may answer
  Text,         \* texts a user types, without the empty and the blank one
  Ring,         \* maxChatMessages of the server
  MaxList,      \* the page keeps 500 messages
  Buffer,       \* sseBufferSize: a fuller queue may lose events
  MinDelay, MaxDelay,   \* of a reconnection, in seconds: 1 and 30
  MaxRecords,   \* bound: messages recorded
  MaxFaults     \* bound: streams broken or refused

ASSUME ChatAssumption ==
  /\ 0 \in Channel /\ Answers \subseteq Seq(Channel)
  /\ Text \cap {"", " "} = {}
  /\ Ring \in Nat \ {0} /\ MaxList \in Nat \ {0} /\ Buffer \in Nat
  /\ MinDelay \in Nat \ {0} /\ MaxDelay \in Nat /\ MinDelay <= MaxDelay
  /\ MaxRecords \in Nat /\ MaxFaults \in Nat

\* The server never has more messages than the page keeps: both are 500
\* (metrics.go:15, chat.js:193).
ASSUME RingAssumption == Ring <= MaxList

VARIABLES
  ring,       \* the server's chat ring
  recorded,   \* messages recorded so far, the id of the last one
  server,     \* handleSSE for this page: "none", "subscribed", "loop"
  pending,    \* events published since Subscribe, before the history is sent
  queue,      \* events on their way to the page
  conn,       \* the EventSource: "connecting", "open", "waiting" for the timer
  delay,      \* reconnectDelay
  faults,     \* broken streams so far
  paused,     \* the pause button
  loaded,     \* chat.js has run
  all,        \* allChatMessages
  dom,        \* the message elements: [msg, shown]
  emptyNote,  \* chatEmpty is displayed
  asked,      \* loadChannels: "no", "asked", "done"
  channels,   \* chatChannels, and the buttons of the sidebar
  badges,     \* the number each button shows, 0 for none
  active,     \* activeChannel
  input,      \* the text of chatInput
  inputOff,   \* chatInput.disabled
  sendOff,    \* chatSendBtn.disabled
  posts,      \* requests to /api/chat/send without an answer
  missed      \* history: of this stream something never reached the list

serverVars == <<ring, recorded, server, pending>>
streamVars == <<queue, conn, delay, faults>>
listVars   == <<all, dom, emptyNote, badges>>
pageVars   == <<paused, loaded, asked, channels, active>>
sendVars   == <<input, inputOff, sendOff, posts>>
vars == <<serverVars, streamVars, listVars, pageVars, sendVars, missed>>

Message == [id : 1 .. MaxRecords, ch : Channel]

\* app.js has just called connectSSE; the channel header reads "Primary".
Init ==
  /\ ring = <<>> /\ recorded = 0 /\ server = "none" /\ pending = <<>>
  /\ queue = <<>> /\ conn = "connecting" /\ delay = MinDelay /\ faults = 0
  /\ all = <<>> /\ dom = <<>> /\ emptyNote = TRUE /\ badges = <<>>
  /\ paused = FALSE /\ loaded = FALSE /\ asked = "no" /\ channels = <<>> /\ active = 0
  /\ input = "" /\ inputOff = FALSE /\ sendOff = TRUE /\ posts = <<>>
  /\ missed = FALSE

(***************************************************************************)
(* The server.                                                             *)
(***************************************************************************)
EventOf(type, msgs) == [type |-> type, msgs |-> msgs]

LastOf(n, s) == SubSeq(s, 1 + (IF Len(s) > n THEN Len(s) - n ELSE 0), Len(s))

\* RecordChatMessage, and its event: dropped when the channel is full.
Record(c) ==
  /\ recorded < MaxRecords
  /\ LET m == [id |-> recorded + 1, ch |-> c]
         e == EventOf("chat_message", <<m>>)
     IN  /\ ring' = LastOf(Ring, Append(ring, m))
         /\ \/ server = "subscribed" /\ pending' = Append(pending, e) /\ UNCHANGED <<queue, missed>>
            \/ server = "loop" /\ queue' = Append(queue, e) /\ UNCHANGED <<pending, missed>>
            \/ server = "loop" /\ Len(queue) >= Buffer /\ missed' = TRUE /\ UNCHANGED <<pending, queue>>
            \/ server = "none" /\ UNCHANGED <<pending, queue, missed>>
  /\ recorded' = recorded + 1
  /\ UNCHANGED <<server, conn, delay, faults, listVars, pageVars, sendVars>>

Subscribe ==
  /\ conn = "connecting" /\ server = "none" /\ queue = <<>>
  /\ server' = "subscribed" /\ missed' = FALSE
  /\ UNCHANGED <<ring, recorded, pending, streamVars, listVars, pageVars, sendVars>>

\* The history is copied, written and flushed; then the events follow.
SendHistory ==
  /\ server = "subscribed"
  /\ queue' = <<EventOf("open", <<>>), EventOf("chat_history", ring)>> \o pending
  /\ server' = "loop" /\ pending' = <<>>
  /\ UNCHANGED <<ring, recorded, conn, delay, faults, listVars, pageVars, sendVars, missed>>

\* The connection is refused or lost: of what was written a prefix arrives,
\* then the error.  The proxy itself may have ended, and starts with an empty
\* ring.
Break ==
  /\ conn \in {"connecting", "open"} /\ \A i \in DOMAIN queue : queue[i].type # "error"
  /\ faults < MaxFaults
  /\ \E k \in 0 .. Len(queue) : queue' = Append(SubSeq(queue, 1, k), EventOf("error", <<>>))
  /\ ring' \in {ring, <<>>}
  /\ server' = "none" /\ pending' = <<>> /\ faults' = faults + 1
  /\ UNCHANGED <<recorded, conn, delay, listVars, pageVars, sendVars, missed>>

(***************************************************************************)
(* The event stream of the page.                                           *)
(***************************************************************************)
Handles(type) == queue # <<>> /\ Head(queue).type = type
Handled == queue' = Tail(queue)

OnOpen ==
  /\ Handles("open") /\ Handled
  /\ conn' = "open" /\ delay' = MinDelay
  /\ UNCHANGED <<serverVars, faults, listVars, pageVars, sendVars, missed>>

Doubled == IF 2 * delay < MaxDelay THEN 2 * delay ELSE MaxDelay

\* The source is closed, so that nothing more comes from it, and a timer set.
OnError ==
  /\ Handles("error") /\ Handled
  /\ conn' = "waiting" /\ delay' = Doubled
  /\ UNCHANGED <<serverVars, faults, listVars, pageVars, sendVars, missed>>

ReconnectBelowMax ==
  /\ conn = "waiting" /\ delay < MaxDelay
  /\ conn' = "connecting"
  /\ UNCHANGED <<serverVars, queue, delay, faults, listVars, pageVars, sendVars, missed>>

\* The timer of OnError calls connectSSE.
Reconnect ==
  /\ conn = "waiting"
  /\ conn' = "connecting"
  /\ UNCHANGED <<serverVars, queue, delay, faults, listVars, pageVars, sendVars, missed>>

TogglePause ==
  /\ paused' = ~paused
  /\ UNCHANGED <<serverVars, streamVars, listVars, loaded, asked, channels, active, sendVars, missed>>

LoadScript ==
  /\ ~loaded
  /\ loaded' = TRUE
  /\ UNCHANGED <<serverVars, streamVars, listVars, paused, asked, channels, active, sendVars, missed>>

(***************************************************************************)
(* The message list.                                                       *)
(***************************************************************************)
CountOf(msgs, c) == Cardinality({i \in DOMAIN msgs : msgs[i].ch = c})

\* updateBadges: only the buttons there are.
updateBadges(msgs) == [c \in DOMAIN badges |-> CountOf(msgs, c)]

\* applyChatFilter for a channel: the elements, and the note when none is shown.
Filtered(els, c) == [i \in DOMAIN els |-> [els[i] EXCEPT !.shown = els[i].msg.ch = c]]
NoneShown(els)   == \A i \in DOMAIN els : ~els[i].shown
applyChatFilter(els, c) ==
  /\ dom' = Filtered(els, c)
  /\ emptyNote' = NoneShown(Filtered(els, c))

ElementsOf(msgs) == [i \in DOMAIN msgs |-> [msg |-> msgs[i], shown |-> TRUE]]

loadHistoryOnce(msgs) ==
  IF all # <<>> THEN UNCHANGED listVars
  ELSE /\ all' = msgs
       /\ badges' = updateBadges(msgs)
       /\ applyChatFilter(ElementsOf(msgs), active)

\* An empty history leaves the page as it is.
loadChatHistory(msgs) ==
  IF msgs = <<>> THEN UNCHANGED listVars
  ELSE /\ all' = msgs
       /\ badges' = updateBadges(msgs)
       /\ applyChatFilter(ElementsOf(msgs), active)

\* The history is not subject to the pause.  Before chat.js has run there is no
\* handler to call, and the history is lost.
OnChatHistory ==
  /\ Handles("chat_history") /\ Handled
  /\ IF loaded THEN loadChatHistory(Head(queue).msgs) ELSE UNCHANGED listVars
  /\ missed' = (missed \/ ~loaded)
  /\ UNCHANGED <<serverVars, conn, delay, faults, pageVars, sendVars>>

\* One message over the limit: the oldest goes, with its element.
Trim(msgs, els) ==
  IF Len(msgs) > MaxList
  THEN [msgs |-> Tail(msgs), els |-> IF els = <<>> THEN els ELSE Tail(els)]
  ELSE [msgs |-> msgs, els |-> els]

ElementFor(m) == [msg |-> m, shown |-> m.ch = active]

\* The note is hidden even when the message is of another channel.
appendChatMessage(m) ==
  LET kept == Trim(Append(all, m), dom)
  IN  /\ all' = kept.msgs
      /\ dom' = Append(kept.els, ElementFor(m))
      /\ emptyNote' = FALSE
      /\ badges' = updateBadges(kept.msgs)

OnChatMessage ==
  /\ Handles("chat_message") /\ Handled
  /\ LET ignored == paused \/ ~loaded
     IN  /\ IF ignored THEN UNCHANGED listVars ELSE appendChatMessage(Head(queue).msgs[1])
         /\ missed' = (missed \/ ignored)
  /\ UNCHANGED <<serverVars, conn, delay, faults, pageVars, sendVars>>

(***************************************************************************)
(* Channels.                                                               *)
(***************************************************************************)
\* initChat, on the first visit of the tab, and the request it makes.
initChat ==
  /\ loaded /\ asked = "no"
  /\ asked' = "asked"
  /\ UNCHANGED <<serverVars, streamVars, listVars, paused, loaded, channels, active, sendVars, missed>>

selectChannelUnfiltered(c) ==
  /\ active' = c
  /\ UNCHANGED <<dom, emptyNote>>

selectChannel(c) ==
  /\ active' = c
  /\ applyChatFilter(dom, c)

\* The answer: the sidebar is built, with empty badges, and the first channel
\* selected.
LoadChannels(cs) ==
  /\ asked = "asked"
  /\ asked' = "done" /\ channels' = cs
  /\ badges' = [c \in ToSet(cs) |-> 0]
  /\ IF cs = <<>> THEN UNCHANGED <<active, dom, emptyNote>> ELSE selectChannel(cs[1])
  /\ UNCHANGED <<serverVars, streamVars, all, paused, loaded, sendVars, missed>>

\* A failed request is logged and never made again.
LoadChannelsFails ==
  /\ asked = "asked"
  /\ asked' = "done"
  /\ UNCHANGED <<serverVars, streamVars, listVars, paused, loaded, channels, active, sendVars, missed>>

ClickChannel(c) ==
  /\ c \in ToSet(channels)
  /\ selectChannel(c)
  /\ UNCHANGED <<serverVars, streamVars, all, badges, paused, loaded, asked, channels, sendVars, missed>>

(***************************************************************************)
(* Sending.                                                                *)
(***************************************************************************)
Trimmed(t) == IF t = " " THEN "" ELSE t

\* updateSendButton for a text.
SendOffFor(t) == Trimmed(t) = ""

Type(t) ==
  /\ loaded /\ ~inputOff
  /\ input' = t /\ sendOff' = SendOffFor(t)
  /\ UNCHANGED <<serverVars, streamVars, listVars, pageVars, inputOff, posts, missed>>

DisableButtonOnly == sendOff' = TRUE /\ UNCHANGED inputOff
DisableInput == sendOff' = TRUE /\ inputOff' = TRUE

\* The button, or Enter in the field; neither does anything while disabled.
\* The request carries the text and the channel of this moment.
sendMessage ==
  /\ loaded /\ ~(sendOff /\ inputOff)
  /\ Trimmed(input) # ""
  /\ posts' = Append(posts, [text |-> Trimmed(input), ch |-> active])
  /\ DisableInput
  /\ UNCHANGED <<serverVars, streamVars, listVars, pageVars, input, missed>>

\* The field is cleared only when the server took the message.
SendAnswered(i, ok) ==
  /\ posts' = RemoveAt(posts, i)
  /\ input' = (IF ok THEN "" ELSE input)
  /\ inputOff' = FALSE /\ sendOff' = SendOffFor(input')
  /\ UNCHANGED <<serverVars, streamVars, listVars, pageVars, missed>>

(***************************************************************************)
(* The specification.                                                      *)
(***************************************************************************)
ServerStep == Subscribe \/ SendHistory
PageStep   == OnOpen \/ OnError \/ OnChatHistory \/ OnChatMessage

Next ==
  \/ \E c \in Channel : Record(c)
  \/ ServerStep \/ Break
  \/ PageStep \/ Reconnect \/ TogglePause \/ LoadScript
  \/ initChat \/ (\E cs \in Answers : LoadChannels(cs)) \/ LoadChannelsFails
  \/ \E c \in Channel : ClickChannel(c)
  \/ \E t \in Text \cup {"", " "} : Type(t)
  \/ sendMessage
  \/ \E i \in DOMAIN posts, ok \in BOOLEAN : SendAnswered(i, ok)

Spec == Init /\ [][Next]_vars

(***************************************************************************)
(* Fairness: the server goes on with a request, the browser runs the       *)
(* handlers of events and timers and settles every fetch.  Nothing makes   *)
(* the user or the mesh do anything, and nothing prevents a fault.         *)
(***************************************************************************)
Fairness ==
  /\ WF_vars(ServerStep) /\ WF_vars(PageStep) /\ WF_vars(Reconnect) /\ WF_vars(LoadScript)
  /\ WF_vars(\E cs \in Answers : LoadChannels(cs)) /\ WF_vars(\E i \in DOMAIN posts, ok \in BOOLEAN : SendAnswered(i, ok))

FairSpec == Spec /\ Fairness

(***************************************************************************)
(* Properties.                                                             *)
(***************************************************************************)
\* Type correctness.
TypeOK ==
  /\ ring \in Seq(Message) /\ Len(ring) <= Ring /\ recorded \in 0 .. MaxRecords
  /\ server \in {"none", "subscribed", "loop"}
  /\ conn \in {"connecting", "open", "waiting"} /\ delay \in MinDelay .. MaxDelay
  /\ faults \in 0 .. MaxFaults
  /\ all \in Seq(Message)
  /\ dom \in Seq([msg : Message, shown : BOOLEAN])
  /\ emptyNote \in BOOLEAN /\ paused \in BOOLEAN /\ loaded \in BOOLEAN
  /\ inputOff \in BOOLEAN /\ sendOff \in BOOLEAN /\ missed \in BOOLEAN
  /\ asked \in {"no", "asked", "done"} /\ channels \in Seq(Channel) /\ active \in Channel
  /\ badges \in [ToSet(channels) -> Nat]
  /\ input \in Text \cup {"", " "}
  /\ posts \in Seq([text : Text, ch : Channel])

\* The list in memory and the elements on the page stay the same messages in the
\* same order, through histories, new messages and the trim that takes one from
\* each (chat.js:175-211).
PageMirrorsList == [i \in DOMAIN dom |-> dom[i].msg] = all

\* Exactly the messages of the selected channel are shown, whatever order the
\* channel list, a click, a history and a message come in, and the note "No
\* messages yet" is never shown beside a message (chat.js:55-74, 143-155, 200-205).
OnlyActiveShown ==
  /\ \A i \in DOMAIN dom : dom[i].shown <=> dom[i].msg.ch = active
  /\ emptyNote => NoneShown(dom)

\* The badges of the sidebar are the numbers of messages kept, or, from the
\* moment it is built until the next event, all empty (chat.js:39-52, 158-172).
BadgesCount ==
  \/ \A c \in DOMAIN badges : badges[c] = CountOf(all, c)
  \/ \A c \in DOMAIN badges : badges[c] = 0

\* Types, and what the user sees of the list: PageMirrorsList, OnlyActiveShown and
\* BadgesCount.
PageInv == TypeOK /\ PageMirrorsList /\ OnlyActiveShown /\ BadgesCount

Repeats(msgs) == Len(msgs) - Cardinality(ToSet(msgs))

\* Once all is delivered and nothing was ignored, the page has every message of
\* the server's ring, but for as many of the oldest as it lists messages twice
\* (chat.js:175-211, app.js:238-256, server.go:485-527).  It ignores messages
\* while paused, and a history that comes before chat.js has run.
ChatCatchesUp ==
  server = "loop" /\ queue = <<>> /\ ~missed =>
    \A i \in DOMAIN ring : i > Repeats(all) => ring[i] \in ToSet(all)

\* One request at a time, and while it is under way the field holds what it
\* carries: the answer clears what was sent and nothing else (chat.js:214-245).
ClearsOnlySent ==
  /\ Len(posts) <= 1
  /\ \A i \in DOMAIN posts : Trimmed(input) = posts[i].text

\* The send button is enabled exactly when there is something to send and
\* nothing is being sent (chat.js:221-256).
SendButtonRight == sendOff <=> (Trimmed(input) = "" \/ posts # <<>>)

\* A message is sent once and the field tells the truth: ClearsOnlySent and
\* SendButtonRight.
SendsOnce == ClearsOnlySent /\ SendButtonRight

\* A lost stream is opened again, faults in between included (app.js:249-256).
StreamComesBack == conn # "open" ~> conn = "open"

\* The field never stays disabled, whether the request succeeds or fails
\* (chat.js:221-244).
InputComesBack == inputOff ~> ~inputOff

\* No failure leaves the page dead: StreamComesBack and InputComesBack.
PageRecovers == StreamComesBack /\ InputComesBack
=============================================================================
