------------------------------ MODULE EventBus ------------------------------
(***************************************************************************)
(* The pub/sub of internal/metrics (pubsub.go, ring_buffer.go) with its    *)
(* publishers, the goroutines that record messages, chat, traceroutes and  *)
(* traffic samples, and its two kinds of subscribers: the event stream of  *)
(* a browser (web/server.go, handleSSE) and the Telegram bot (bot.go).     *)
(*                                                                         *)
(* Recording appends to a ring buffer under its own lock and then          *)
(* publishes: under subMu's read lock a non-blocking send to every         *)
(* subscriber.  Subscribe and Unsubscribe take subMu for writing; their    *)
(* sections do not block, so each is one step.  Unsubscribe closes the     *)
(* channel after it has left the lock.                                     *)
(***************************************************************************)
EXTENDS Naturals, Sequences, SequencesExt

CONSTANTS
  Recorder,   \* goroutines that record: read loops, callers of Send, the sampler
  Item,       \* what there is to record, each once (ItemType): a bound
  Stream,     \* browser event streams
  Bot,        \* the Telegram bot (one, or none without a token)
  Channels,   \* mesh channels the bot forwards
  Buffer,     \* sseBufferSize
  MaxRing     \* capacity of each ring buffer

\* A text message, a traceroute answer, a traffic sample, any other frame.
ItemType == [id : Nat, kind : {"text", "trace", "sample", "frame"},
             dir : {"incoming", "outgoing"}, channel : 0 .. 7]

EventTypes == {"message", "chat_message", "traceroute_result", "metrics"}
Event      == [type : EventTypes, item : Item]

\* The types whose ring buffers a stream sends as chat and traceroute history.
\* Those of messages and traffic samples are filled in the same way and go out
\* with the first snapshot; they are left out here.
HistoryTypes == {"chat_message", "traceroute_result"}

ASSUME BusAssumption ==
  /\ Item \subseteq ItemType
  /\ Stream \cap Bot = {} /\ \A a, b \in Bot : a = b
  /\ Channels \subseteq 0 .. 7
  /\ Buffer \in Nat \ {0}
  /\ MaxRing \in [HistoryTypes -> Nat \ {0}]

Sub == Stream \cup Bot

\* What one item is recorded as, in order (connection.go Send and readLoop,
\* metrics.go sampleTraffic).
EventsOf(i) ==
  LET ev(t) == [type |-> t, item |-> i]
  IN  CASE i.kind = "text"   -> <<ev("message"), ev("chat_message")>>
        [] i.kind = "trace"  -> <<ev("message"), ev("traceroute_result")>>
        [] i.kind = "sample" -> <<ev("metrics")>>
        [] i.kind = "frame"  -> <<ev("message")>>

VARIABLES
  ring,         \* the ring buffers, by the type of event their entries cause
  subscribers,  \* m.subscribers
  rpc,          \* each recorder: "idle", "record", "publish", "sending"
  hand,         \* the events of its item still to record or publish
  pending,      \* while sending: subscribers it has not sent to yet
  taken,        \* items recorded or being recorded
  st,           \* each subscriber: see SubStates
  queue,        \* its channel
  at,           \* the event it is writing or forwarding (<<>> or <<e>>)
  got,          \* history: what an open stream wrote to its browser
  dropped,      \* history: what its open channel did not take
  forwarded,    \* history: what the bot sent to Telegram, in order
  failed        \* history: what the bot could not send

recVars  == <<rpc, hand, pending, taken>>
subVars  == <<st, queue, at>>
histVars == <<got, dropped, forwarded, failed>>
vars == <<ring, subscribers, rpc, hand, pending, taken, st, queue, at,
          got, dropped, forwarded, failed>>

\* "off", "subscribed" (registered), "chat" (chat history sent), "loop",
\* "busy" (in a write or an HTTP call), "leave" (context done), "unlisted" (left
\* m.subscribers), "closed" (its channel is); "failed": getMe was refused.
SubStates == {"off", "subscribed", "chat", "loop", "busy",
              "leave", "unlisted", "closed", "failed"}

Init ==
  /\ ring = [t \in HistoryTypes |-> <<>>]
  /\ subscribers = {}
  /\ rpc = [r \in Recorder |-> "idle"] /\ hand = [r \in Recorder |-> <<>>]
  /\ pending = [r \in Recorder |-> {}] /\ taken = {}
  /\ st = [s \in Sub |-> "off"] /\ queue = [s \in Sub |-> <<>>] /\ at = [s \in Sub |-> <<>>]
  /\ got = [s \in Sub |-> {}] /\ dropped = [s \in Sub |-> {}]
  /\ forwarded = <<>> /\ failed = {}

(***************************************************************************)
(* Recorders.                                                              *)
(***************************************************************************)
ringAppend(buf, max, item) ==
  IF Len(buf) >= max THEN Append(Tail(buf), item) ELSE Append(buf, item)

\* RecordMessage, RecordChatMessage, PublishTraceroute and sampleTraffic begin
\* with the ring buffer, under its lock.
Recorded(e) ==
  IF e.type \notin HistoryTypes THEN ring
  ELSE [ring EXCEPT ![e.type] = ringAppend(@, MaxRing[e.type], e)]

Begin(r, i) ==
  /\ rpc[r] = "idle" /\ i \notin taken
  /\ hand' = [hand EXCEPT ![r] = EventsOf(i)]
  /\ taken' = taken \cup {i}
  /\ ring' = Recorded(Head(EventsOf(i)))
  /\ rpc' = [rpc EXCEPT ![r] = "publish"]
  /\ UNCHANGED <<subscribers, pending, subVars, histVars>>

RecordNext(r) ==
  /\ rpc[r] = "record"
  /\ ring' = Recorded(Head(hand[r]))
  /\ rpc' = [rpc EXCEPT ![r] = "publish"]
  /\ UNCHANGED <<subscribers, hand, pending, taken, subVars, histVars>>

LiveOnly == {s \in subscribers : st[s] \in {"loop", "busy"}}
Targets  == subscribers

PublishRLock(r) ==
  /\ rpc[r] = "publish"
  /\ rpc' = [rpc EXCEPT ![r] = "sending"]
  /\ pending' = [pending EXCEPT ![r] = Targets]
  /\ UNCHANGED <<ring, subscribers, hand, taken, subVars, histVars>>

\* The history variables only remember chat messages and traceroutes.
OfHistory(e) == IF e.type \in HistoryTypes THEN {e} ELSE {}

\* select { case ch <- evt: default: }
BlockingSend(s, e) ==
  /\ Len(queue[s]) < Buffer
  /\ queue' = [queue EXCEPT ![s] = Append(@, e)]
  /\ UNCHANGED dropped

TrySend(s, e) ==
  IF Len(queue[s]) < Buffer
  THEN queue' = [queue EXCEPT ![s] = Append(@, e)] /\ UNCHANGED dropped
  ELSE dropped' = [dropped EXCEPT ![s] = @ \cup OfHistory(e)] /\ UNCHANGED queue

PublishTo(r, s) ==
  /\ rpc[r] = "sending" /\ s \in pending[r]
  /\ TrySend(s, Head(hand[r]))
  /\ pending' = [pending EXCEPT ![r] = @ \ {s}]
  /\ UNCHANGED <<ring, subscribers, rpc, hand, taken, st, at, got, forwarded, failed>>

PublishRUnlock(r) ==
  /\ rpc[r] = "sending" /\ pending[r] = {}
  /\ hand' = [hand EXCEPT ![r] = Tail(@)]
  /\ rpc'  = [rpc EXCEPT ![r] = IF Len(hand[r]) > 1 THEN "record" ELSE "idle"]
  /\ UNCHANGED <<ring, subscribers, pending, taken, subVars, histVars>>

(***************************************************************************)
(* Subscribers.  LockFree: subMu can be locked for writing.                *)
(***************************************************************************)
LockIgnored == TRUE
LockFree    == \A r \in Recorder : rpc[r] # "sending"

Moves(s, from, to) == st[s] = from /\ st' = [st EXCEPT ![s] = to]

\* Run of the bot begins with getMe; a failure ends it for good.
GetMeFails(s) ==
  /\ s \in Bot /\ Moves(s, "off", "failed")
  /\ UNCHANGED <<ring, subscribers, recVars, queue, at, histVars>>

\* A browser has connected, or getMe has succeeded.  Only a stream sends a
\* history before its loop.
Subscribe(s) ==
  /\ Moves(s, "off", IF s \in Stream THEN "subscribed" ELSE "loop")
  /\ LockFree
  /\ subscribers' = subscribers \cup {s}
  /\ UNCHANGED <<ring, recVars, queue, at, histVars>>

SendHistory(s, from, to, type) ==
  /\ Moves(s, from, to)
  /\ got' = [got EXCEPT ![s] = @ \cup ToSet(ring[type])]
  /\ UNCHANGED <<ring, subscribers, recVars, queue, at, dropped, forwarded, failed>>

SendChatHistory(s)  == SendHistory(s, "subscribed", "chat", "chat_message")
SendTraceHistory(s) == SendHistory(s, "chat", "loop", "traceroute_result")

\* What the bot forwards: incoming chat messages of its channels.
WantedAnyDirection(e) == e.type = "chat_message" /\ e.item.channel \in Channels
WantedPrimaryOnly(e)  == e.type = "chat_message" /\ e.item.dir = "incoming" /\ e.item.channel = 0
Wanted(e) == e.type = "chat_message" /\ e.item.dir = "incoming" /\ e.item.channel \in Channels

Receive(s) ==
  /\ st[s] = "loop" /\ queue[s] # <<>>
  /\ queue' = [queue EXCEPT ![s] = Tail(@)]
  /\ LET e == Head(queue[s])
     IN  IF s \in Stream \/ Wanted(e)
         THEN st' = [st EXCEPT ![s] = "busy"] /\ at' = [at EXCEPT ![s] = <<e>>]
         ELSE UNCHANGED <<st, at>>
  /\ UNCHANGED <<ring, subscribers, recVars, histVars>>

\* The write to the browser returns; a stalled browser holds it up.
Written(s) ==
  /\ s \in Stream /\ Moves(s, "busy", "loop")
  /\ got' = [got EXCEPT ![s] = @ \cup OfHistory(at[s][1])]
  /\ at'  = [at EXCEPT ![s] = <<>>]
  /\ UNCHANGED <<ring, subscribers, recVars, queue, dropped, forwarded, failed>>

\* handleChatMessage: sendMessage succeeds, or fails and is only logged.
Forward(s) ==
  /\ s \in Bot /\ Moves(s, "busy", "loop")
  /\ at' = [at EXCEPT ![s] = <<>>]
  /\ \/ forwarded' = Append(forwarded, at[s][1]) /\ UNCHANGED failed
     \/ failed' = failed \cup {at[s][1]} /\ UNCHANGED forwarded
  /\ UNCHANGED <<ring, subscribers, recVars, queue, got, dropped>>

\* The context is done, the browser's or the program's.
Leave(s) ==
  /\ Moves(s, "loop", "leave")
  /\ UNCHANGED <<ring, subscribers, recVars, queue, at, histVars>>

Unsubscribe(s) ==
  /\ Moves(s, "leave", "unlisted")
  /\ LockFree
  /\ subscribers' = subscribers \ {s}
  /\ UNCHANGED <<ring, recVars, queue, at, histVars>>

\* Nobody receives from the channel any more: what is left in it is garbage.
CloseChannel(s) ==
  /\ Moves(s, "unlisted", "closed")
  /\ queue' = [queue EXCEPT ![s] = <<>>]
  /\ got' = [got EXCEPT ![s] = {}] /\ dropped' = [dropped EXCEPT ![s] = {}]
  /\ UNCHANGED <<ring, subscribers, recVars, at, forwarded, failed>>

Next ==
  \/ \E r \in Recorder :
       \/ \E i \in Item : Begin(r, i)
       \/ RecordNext(r) \/ PublishRLock(r) \/ PublishRUnlock(r)
       \/ \E s \in Sub : PublishTo(r, s)
  \/ \E s \in Sub :
       \/ GetMeFails(s) \/ Subscribe(s)
       \/ SendChatHistory(s) \/ SendTraceHistory(s)
       \/ Receive(s) \/ Written(s) \/ Forward(s)
       \/ Leave(s) \/ Unsubscribe(s) \/ CloseChannel(s)

Spec == Init /\ [][Next]_vars

\* A goroutine that can run does, and one that waits for subMu gets its turn
\* (a waiting writer keeps new readers out).  The HTTP client of the bot has a
\* timeout; nothing makes a browser read, or anything happen at all.
FairSpec ==
  /\ Spec
  /\ \A r \in Recorder :
       WF_vars(\/ RecordNext(r) \/ PublishRLock(r) \/ PublishRUnlock(r)
               \/ \E s \in Sub : PublishTo(r, s))
  /\ \A s \in Sub : SF_vars(Unsubscribe(s)) /\ WF_vars(CloseChannel(s))
  /\ \A b \in Bot : WF_vars(Receive(b)) /\ WF_vars(Forward(b))

(***************************************************************************)
(* Properties.                                                             *)
(***************************************************************************)

\* Type correctness; a ring never outgrows its capacity (ring_buffer.go:5-11).
TypeOK ==
  /\ \A t \in HistoryTypes : /\ Len(ring[t]) <= MaxRing[t]
                             /\ \A i \in DOMAIN ring[t] : ring[t][i] \in Event
  /\ subscribers \subseteq Sub
  /\ rpc \in [Recorder -> {"idle", "record", "publish", "sending"}]
  /\ \A r \in Recorder : /\ \A i \in DOMAIN hand[r] : hand[r][i] \in Event
                         /\ pending[r] \subseteq Sub
  /\ taken \subseteq Item
  /\ st \in [Sub -> SubStates]
  /\ \A s \in Sub : /\ Len(queue[s]) <= Buffer /\ Len(at[s]) <= 1
                    /\ got[s] \subseteq Event /\ dropped[s] \subseteq Event
  /\ failed \subseteq Event /\ ToSet(forwarded) \subseteq Event

\* A send on a closed channel would end the process: no publisher still has to
\* send to a subscriber that has left the lock of Unsubscribe, although the
\* channel is closed outside that lock (pubsub.go:16-21, 25-36).
NoSendOnClosed ==
  \A r \in Recorder, s \in Sub : s \in pending[r] => st[s] \notin {"unlisted", "closed"}

InFlight(e, s) ==
  \E r \in Recorder : /\ hand[r] # <<>> /\ Head(hand[r]) = e
                      /\ rpc[r] = "publish" \/ s \in pending[r]

\* A stream that subscribes before it reads the history has no gap: what the
\* chat and traceroute rings hold is written, queued, or still on its way to the
\* stream, unless its own channel was full (server.go:485-509).
HistoryHasNoGap ==
  \A s \in Stream : st[s] \in {"loop", "busy"} =>
    \A e \in ToSet(ring["chat_message"]) \cup ToSet(ring["traceroute_result"]) :
      \/ e \in got[s] \cup ToSet(queue[s]) \cup ToSet(at[s]) \cup dropped[s]
      \/ InFlight(e, s)

\* The bot forwards a message at most once, only from the mesh and only of its
\* channels: "skip outgoing messages ... to avoid duplicates and echo loops"
\* (bot.go:124-133).
BotForwardsOnce ==
  /\ \A i, j \in DOMAIN forwarded : forwarded[i] = forwarded[j] => i = j
  /\ \A i \in DOMAIN forwarded : /\ forwarded[i].type = "chat_message"
                                 /\ forwarded[i].item.dir = "incoming"
                                 /\ forwarded[i].item.channel \in Channels
                                 /\ forwarded[i] \notin failed

\* Types, with the rings and channels within their capacities, and BotForwardsOnce.
BotInv == TypeOK /\ BotForwardsOnce

\* No subscriber can hold up a publisher, however slow (pubsub.go:23-36): what
\* is recorded is published and every recorder becomes idle again.
PublishEnds == \A r \in Recorder : []<>(rpc[r] = "idle")

\* A subscriber whose context is done gets rid of its channel although
\* publishers keep taking the lock and may be sending to it (pubsub.go:16-21).
LeaverCloses == \A s \in Sub : []<>(st[s] \notin {"leave", "unlisted"})

\* Publishers and leavers share one lock, and neither waits for ever: PublishEnds
\* and LeaverCloses (pubsub.go:7-36).
NobodyWaits == PublishEnds /\ LeaverCloses

\* An incoming message of an allowed channel that is published while the bot
\* listens is forwarded, unless Telegram refuses it, the bot's channel is full
\* or the bot leaves (bot.go:108-135).
WantedIsForwarded ==
  \A b \in Bot, i \in Item :
    LET e == [type |-> "chat_message", item |-> i]
    IN  /\ i.kind = "text" /\ i.dir = "incoming" /\ i.channel \in Channels
        /\ b \in subscribers /\ InFlight(e, b)
        ~> \/ e \in ToSet(forwarded) \cup failed \cup dropped[b]
           \/ st[b] \in {"leave", "unlisted", "closed"}
=============================================================================
