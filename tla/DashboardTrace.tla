-------------------------- MODULE DashboardTrace ---------------------------
(***************************************************************************)
(* Traceroutes in the dashboard: static/app.js, "Trace Route", with the    *)
(* trace buttons of the node table and the history panel of                *)
(* static/nodes.js.  A click sends a request and starts a timer; the       *)
(* answer comes, if at all, over the event stream, perhaps for a trace of  *)
(* another user.  After the trace a cooldown runs until Window seconds     *)
(* have passed since the click.                                            *)
(*                                                                         *)
(* Every callback runs to its end before the next.  Timers, intervals and  *)
(* requests are what the browser still holds, with the values their        *)
(* callbacks have captured; pendingTraceroute and traceCooldown are the    *)
(* globals they all share.  Traces are numbered as they start; result 0    *)
(* stands for "no response".                                               *)
(*                                                                         *)
(* The stream is connected by app.js, before nodes.js has run and defined  *)
(* the history panel and the table.  A trace is started from a row of the  *)
(* table or from a popup of the map, once nodes.js has run; the buttons of *)
(* the popups are not modelled, those of the rows are.                     *)
(***************************************************************************)
EXTENDS Naturals, Sequences, SequencesExt

CONSTANTS
  Node,        \* nodes that can be traced
  Drawable,    \* those with two positions on their route
  Window,      \* 30 seconds, of the timer and of the cooldown
  RingSize,    \* maxTraceHistory of the server
  MaxInputs    \* bound: traces started, results recorded and streams lost, together

ASSUME TraceAssumption ==
  /\ Node \subseteq Nat \ {0} /\ Drawable \subseteq Node
  /\ Window \in Nat \ {0} /\ RingSize \in Nat \ {0}
  /\ MaxInputs \in Nat

VARIABLES
  started,    \* traces started
  target,     \* the node of each trace
  age,        \* whole seconds since its start, up to Window
  pending,    \* pendingTraceroute: [target, trace]
  timers,     \* traces whose timeout is set
  cooldown,   \* traceCooldown: [target, trace, remaining]
  intervals,  \* the intervals set: [target, trace, remaining]
  requests,   \* traces whose POST is not settled
  loaded,     \* nodes.js has run
  shown,      \* the Nodes tab is visible
  ready,      \* nodesInitialized
  btn,        \* the button of each row: "none" yet, "ready", or disabled with its content
  history,    \* traceHistoryData: [from, result]
  rows,       \* the rows of the panel: [idx, entry]
  mapReady,   \* initMap has run
  drawn,      \* the entry drawn on the map (<<>> or <<e>>)
  ring,       \* the trace history of the server
  unpublished, \* results in the ring whose event is still to be published
  stream,     \* the event stream: "down", "subscribed", "up" (history sent)
  sent,       \* the trace_history event on its way (<<>> or <<data>>)
  queue,      \* results published since Subscribe, not yet handled
  results,    \* results recorded
  breaks,     \* streams lost
  missed,     \* history: results this stream has lost, dropped or met by no handler
  freed       \* history: traces that were pending when a request failed

slotVars   == <<started, target, age, pending, timers, cooldown, intervals, requests, freed>>
streamVars == <<ring, unpublished, stream, sent, queue, results, breaks, missed>>
tabVars    == <<loaded, shown, ready>>
panelVars  == <<history, rows>>
vars == <<slotVars, tabVars, btn, panelVars, mapReady, drawn, streamVars>>

Trace == 1 .. MaxInputs

OneMoreInput == started + results + breaks < MaxInputs

NoTrace    == [target |-> 0, trace |-> 0]
NoCooldown == [target |-> 0, trace |-> 0, remaining |-> 0]
Entry      == [from : Node, result : 0 .. MaxInputs]

Init ==
  /\ started = 0 /\ target = [t \in Trace |-> 0] /\ age = [t \in Trace |-> 0]
  /\ pending = NoTrace /\ timers = {} /\ cooldown = NoCooldown /\ intervals = {}
  /\ requests = {} /\ freed = {}
  /\ loaded = FALSE /\ shown = FALSE /\ ready = FALSE
  /\ btn = [n \in Node |-> "none"]
  /\ history = <<>> /\ rows = <<>>
  /\ mapReady = FALSE /\ drawn = <<>>
  /\ ring = <<>> /\ unpublished = {} /\ stream = "down" /\ sent = <<>> /\ queue = <<>>
  /\ results = 0 /\ breaks = 0 /\ missed = {}

(***************************************************************************)
(* Buttons, panel and map.                                                 *)
(***************************************************************************)
isTraceActive == pending # NoTrace \/ cooldown # NoCooldown

\* The button of a row as it is built (getTraceState).
RowButton(n) ==
  CASE cooldown.target = n -> "cooling"
    [] pending.target = n -> "spinner"
    [] isTraceActive -> "busy"
    [] OTHER -> "ready"

\* A step of the page's code finds the row of n, or no row yet.
SetButton(n, content) == btn' = [btn EXCEPT ![n] = IF @ = "none" THEN @ ELSE content]

renderNodesTable == btn' = [n \in Node |-> RowButton(n)]

\* The script at the end of the page.
LoadScript ==
  /\ ~loaded
  /\ loaded' = TRUE
  /\ UNCHANGED <<slotVars, shown, ready, btn, panelVars, mapReady, drawn, streamVars>>

\* switchTab('nodes'): before nodes.js the tab is shown and stays empty.
ShowNodes ==
  /\ shown' = TRUE
  /\ IF loaded THEN ready' = TRUE /\ renderNodesTable ELSE UNCHANGED <<ready, btn>>
  /\ UNCHANGED <<slotVars, loaded, panelVars, mapReady, drawn, streamVars>>

LeaveNodes ==
  /\ shown
  /\ shown' = FALSE
  /\ UNCHANGED <<slotVars, loaded, ready, btn, panelVars, mapReady, drawn, streamVars>>

\* All rows are built anew: by a node_favorite event, whatever tab is shown, by
\* a filter or a sort, and with the tab shown by other changes and the refresh.
RenderTable ==
  /\ loaded
  /\ renderNodesTable
  /\ UNCHANGED <<slotVars, tabVars, panelVars, mapReady, drawn, streamVars>>

\* The refresh of every 30 seconds.
RefreshTable == ready /\ shown /\ RenderTable

\* The rows, newest first; idx is what a click passes to showTraceOnMap.
renderTraceHistory(data) ==
  [i \in DOMAIN data |-> [idx |-> Len(data) + 1 - i, entry |-> data[Len(data) + 1 - i]]]

LoadIfEmpty(data) ==
  IF history = <<>> THEN history' = data /\ rows' = renderTraceHistory(data) ELSE UNCHANGED panelVars

loadTraceHistory(data) == history' = data /\ rows' = renderTraceHistory(data)

appendTraceHistory(e) ==
  /\ history' = Append(history, e)
  /\ rows' = renderTraceHistory(Append(history, e))

\* The route drawn before goes, even when the new one cannot be drawn.
drawTraceroute(e) ==
  drawn' = IF ~mapReady THEN drawn ELSE IF e.from \in Drawable THEN <<e>> ELSE <<>>

initMap ==
  /\ ~mapReady
  /\ mapReady' = TRUE
  /\ UNCHANGED <<slotVars, tabVars, btn, panelVars, drawn, streamVars>>

\* A click on a row: a row without response has no handler.
showTraceOnMap(r) ==
  /\ r \in DOMAIN rows /\ rows[r].entry.result # 0
  /\ rows[r].idx \in DOMAIN history
  /\ drawTraceroute(history[rows[r].idx])
  /\ UNCHANGED <<slotVars, tabVars, btn, panelVars, mapReady, streamVars>>

(***************************************************************************)
(* The slot.                                                               *)
(***************************************************************************)
GuardPendingOnly == pending = NoTrace
Guard == pending = NoTrace /\ cooldown = NoCooldown

\* A click in the table or in a popup of the map.
startTraceroute(n) ==
  /\ loaded /\ (shown \/ mapReady)
  /\ Guard /\ OneMoreInput
  /\ LET t == started + 1
     IN  /\ started' = t
         /\ target' = [target EXCEPT ![t] = n]
         /\ age' = [age EXCEPT ![t] = 0]
         /\ pending' = [target |-> n, trace |-> t]
         /\ timers' = timers \cup {t}
         /\ requests' = requests \cup {t}
  /\ SetButton(n, "spinner")
  /\ drawn' = <<>>
  /\ UNCHANGED <<cooldown, intervals, tabVars, panelVars, mapReady, streamVars, freed>>

\* A second passes.
Tick ==
  /\ \E t \in 1 .. started : age[t] < Window
  /\ age' = [t \in Trace |-> IF t \in 1 .. started /\ age[t] < Window THEN age[t] + 1 ELSE age[t]]
  /\ UNCHANGED <<started, target, pending, timers, cooldown, intervals, requests, freed,
                 tabVars, btn, panelVars, mapReady, drawn, streamVars>>

RemainingOff(t) == IF t # 0 /\ age[t] + 1 < Window THEN Window - age[t] - 1 ELSE 0

\* What is left of the Window seconds since the start of a trace; all of them
\* when startedAt is null.
Remaining(t) == IF t = 0 THEN Window ELSE Window - age[t]

\* startCooldown for node n, after trace t.
startCooldown(n, t) ==
  LET c == [target |-> n, trace |-> t, remaining |-> Remaining(t)]
  IN  IF c.remaining = 0
      THEN /\ SetButton(n, "ready")
           /\ UNCHANGED <<cooldown, intervals>>
      ELSE /\ SetButton(n, "cooling")
           /\ cooldown' = c
           /\ intervals' = intervals \cup {c}

\* The timeout of trace t.  The callback reads the pending trace of this moment,
\* and starts a cooldown that is normally over already.
Timeout(t) ==
  /\ t \in timers /\ age[t] = Window
  /\ timers' = timers \ {t}
  /\ pending' = NoTrace
  /\ appendTraceHistory([from |-> IF pending # NoTrace THEN pending.target ELSE target[t], result |-> 0])
  /\ startCooldown(target[t], pending.trace)
  /\ UNCHANGED <<started, target, age, requests, freed, tabVars, mapReady, drawn, streamVars>>

KeepTimers == timers
ClearTimeout == timers \ {pending.trace}

\* handleTracerouteResult, for a result of the traced node.
TraceAnswered(e) ==
  /\ timers' = ClearTimeout
  /\ pending' = NoTrace
  /\ startCooldown(pending.target, pending.trace)
  /\ drawTraceroute(e)

\* The traceroute_result event: the slot, then the history, if there is one yet.
OnResult ==
  /\ stream = "up" /\ sent = <<>> /\ queue # <<>>
  /\ LET e == Head(queue)
     IN  /\ IF pending # NoTrace /\ pending.target = e.from
            THEN TraceAnswered(e)
            ELSE UNCHANGED <<pending, timers, cooldown, intervals, btn, drawn>>
         /\ IF loaded
            THEN appendTraceHistory(e) /\ UNCHANGED missed
            ELSE missed' = missed \cup {e} /\ UNCHANGED panelVars
  /\ queue' = Tail(queue)
  /\ UNCHANGED <<started, target, age, requests, freed, tabVars, mapReady, ring, unpublished,
                 stream, sent, results, breaks>>

\* One second of a cooldown, and its end.
CooldownTick(c) ==
  /\ c \in intervals /\ age[c.trace] > Window - c.remaining
  /\ cooldown # NoCooldown
  /\ IF c.remaining = 1
     THEN /\ intervals' = {i \in intervals \ {c} : i.trace # cooldown.trace}
          /\ cooldown' = NoCooldown
          /\ SetButton(c.target, "ready")
     ELSE /\ intervals' = (intervals \ {c}) \cup {[c EXCEPT !.remaining = @ - 1]}
          /\ cooldown' = [cooldown EXCEPT !.remaining = c.remaining - 1]
          /\ UNCHANGED btn
  /\ UNCHANGED <<started, target, age, pending, timers, requests, freed, tabVars,
                 panelVars, mapReady, drawn, streamVars>>

\* Any HTTP answer, an error status included, settles the request and does
\* nothing else.
RequestAnswered(t) ==
  /\ t \in requests
  /\ requests' = requests \ {t}
  /\ UNCHANGED <<started, target, age, pending, timers, cooldown, intervals, freed,
                 tabVars, btn, panelVars, mapReady, drawn, streamVars>>

FailureKeepsPending(t) ==
  /\ t \in requests
  /\ requests' = requests \ {t}
  /\ timers' = ClearTimeout
  /\ freed' = IF pending # NoTrace THEN freed \cup {pending.trace} ELSE freed
  /\ SetButton(target[t], "ready")
  /\ UNCHANGED <<started, target, age, pending, cooldown, intervals, tabVars, panelVars, mapReady,
                 drawn, streamVars>>

\* A network failure gives up whatever trace is pending by then.
RequestFails(t) ==
  /\ t \in requests
  /\ requests' = requests \ {t}
  /\ timers' = ClearTimeout
  /\ pending' = NoTrace
  /\ freed' = IF pending # NoTrace THEN freed \cup {pending.trace} ELSE freed
  /\ SetButton(target[t], "ready")
  /\ UNCHANGED <<started, target, age, cooldown, intervals, tabVars, panelVars, mapReady, drawn,
                 streamVars>>

(***************************************************************************)
(* The server and the event stream.                                        *)
(***************************************************************************)
\* PublishTraceroute: a node answers a trace, this user's or another's.  The
\* result is recorded under the lock, ...
PublishTraceroute(n) ==
  /\ OneMoreInput
  /\ LET e == [from |-> n, result |-> results + 1]
         all == Append(ring, e)
     IN  /\ ring' = IF Len(all) > RingSize THEN Tail(all) ELSE all
         /\ unpublished' = unpublished \cup {e}
  /\ results' = results + 1
  /\ UNCHANGED <<slotVars, tabVars, btn, panelVars, mapReady, drawn, stream, sent, queue, breaks,
                 missed>>

\* ... then published: to nobody, to this page, or dropped.  The channel holds the
\* events of all kinds, so it may be full with any number of results in it.
publish(e) ==
  /\ e \in unpublished
  /\ unpublished' = unpublished \ {e}
  /\ \/ stream = "down" /\ UNCHANGED <<queue, missed>>
     \/ stream # "down" /\ queue' = Append(queue, e) /\ UNCHANGED missed
     \/ stream # "down" /\ missed' = missed \cup {e} /\ UNCHANGED queue
  /\ UNCHANGED <<slotVars, tabVars, btn, panelVars, mapReady, drawn, ring, stream, sent, results,
                 breaks>>

Subscribe ==
  /\ stream = "down"
  /\ stream' = "subscribed"
  /\ UNCHANGED <<slotVars, tabVars, btn, panelVars, mapReady, drawn, ring, unpublished, sent, queue,
                 results, breaks, missed>>

\* The copy of the history goes out before the events of the channel, and holds
\* whatever was dropped before.
SendHistory ==
  /\ stream = "subscribed"
  /\ stream' = "up"
  /\ sent' = <<ring>>
  /\ missed' = {}
  /\ UNCHANGED <<slotVars, tabVars, btn, panelVars, mapReady, drawn, ring, unpublished, queue,
                 results, breaks>>

\* The trace_history event replaces the list, "no response" entries included;
\* before nodes.js has run there is nobody to load it.
OnTraceHistory ==
  /\ sent # <<>>
  /\ sent' = <<>>
  /\ IF loaded
     THEN loadTraceHistory(Head(sent)) /\ UNCHANGED missed
     ELSE missed' = missed \cup ToSet(Head(sent)) /\ UNCHANGED panelVars
  /\ UNCHANGED <<slotVars, tabVars, btn, mapReady, drawn, ring, unpublished, stream, queue, results,
                 breaks>>

Break ==
  /\ stream # "down" /\ OneMoreInput
  /\ stream' = "down" /\ sent' = <<>> /\ queue' = <<>> /\ breaks' = breaks + 1
  /\ UNCHANGED <<slotVars, tabVars, btn, panelVars, mapReady, drawn, ring, unpublished, results,
                 missed>>

(***************************************************************************)
(* The specification.                                                      *)
(***************************************************************************)
Next ==
  \/ \E n \in Node : startTraceroute(n) \/ PublishTraceroute(n)
  \/ Tick
  \/ \E t \in Trace : Timeout(t) \/ RequestAnswered(t) \/ RequestFails(t)
  \/ \E c \in intervals : CooldownTick(c)
  \/ \E e \in unpublished : publish(e)
  \/ OnResult \/ OnTraceHistory \/ Subscribe \/ SendHistory \/ Break
  \/ LoadScript \/ ShowNodes \/ LeaveNodes \/ RenderTable \/ initMap
  \/ \E r \in DOMAIN rows : showTraceOnMap(r)

Spec == Init /\ [][Next]_vars

(***************************************************************************)
(* Fairness: time passes, and the browser runs the callbacks that are due, *)
(* among them the refresh of the table while its tab is shown              *)
(* (nodes.js:637-641).  A request need not be settled, nor a trace         *)
(* answered, nor any event published, delivered or kept.                   *)
(***************************************************************************)
Fairness ==
  /\ WF_vars(Tick) /\ WF_vars(RefreshTable)
  /\ \A t \in Trace : WF_vars(Timeout(t))
  /\ WF_vars(\E c \in intervals : CooldownTick(c))

FairSpec == Spec /\ Fairness

(***************************************************************************)
(* Properties.                                                             *)
(***************************************************************************)
\* Type correctness.
TypeOK ==
  /\ started \in 0 .. MaxInputs
  /\ target \in [Trace -> Node \cup {0}] /\ age \in [Trace -> 0 .. Window]
  /\ pending \in [target : Node, trace : Trace] \cup {NoTrace}
  /\ timers \subseteq Trace /\ requests \subseteq Trace /\ freed \subseteq Trace
  /\ cooldown \in [target : Node, trace : Trace, remaining : 1 .. Window] \cup {NoCooldown}
  /\ intervals \subseteq [target : Node, trace : Trace, remaining : 1 .. Window]
  /\ loaded \in BOOLEAN /\ shown \in BOOLEAN /\ ready \in BOOLEAN
  /\ btn \in [Node -> {"none", "ready", "spinner", "cooling", "busy"}]
  /\ history \in Seq(Entry) /\ rows \in Seq([idx : Nat, entry : Entry])
  /\ mapReady \in BOOLEAN /\ drawn \in Seq(Entry)
  /\ ring \in Seq(Entry) /\ queue \in Seq(Entry) /\ stream \in {"down", "subscribed", "up"}
  /\ unpublished \subseteq Entry /\ sent \in Seq(Seq(Entry)) /\ missed \subseteq Entry
  /\ results \in 0 .. MaxInputs /\ breaks \in 0 .. MaxInputs

\* The globals own the callbacks: a timeout is set exactly for the pending trace
\* and an interval exactly for the cooldown, and there are never both.  So no
\* callback finds the state of another trace (app.js:831-857, 889-955).
OneOwner ==
  /\ timers = {pending.trace} \ {0}
  /\ intervals = {cooldown} \ {NoCooldown}
  /\ pending = NoTrace \/ cooldown = NoCooldown

\* Types and OneOwner.
SlotInv == TypeOK /\ OneOwner

\* The slot as TraceSlot sees it.
SlotNow ==
  CASE pending # NoTrace     -> [by |-> "trace", node |-> pending.target]
    [] cooldown # NoCooldown -> [by |-> "cooldown", node |-> cooldown.target]
    [] OTHER                 -> [by |-> "nobody", node |-> 0]

Slot == INSTANCE TraceSlot WITH slot <- SlotNow

\* The dashboard implements the one slot of TraceSlot: nothing starts while it
\* is taken, a cooldown follows only a trace of the same node, and the slot is
\* always released, whatever becomes of request and answer (app.js:889-955).
ImplementsSlot == Slot!Spec

\* Traces start at least Window seconds apart, timeouts and answers at the last
\* moment included, unless the failure of a request has given a trace up
\* (app.js:831-834, 889-938).
TracesSpaced ==
  [][started' # started => \A t \in 1 .. started : age[t] = Window \/ t \in freed]_vars

\* A click on a row shows that row's trace, after every change of the list
\* (nodes.js:501-634).
RowsPointRight ==
  /\ Len(rows) = Len(history)
  /\ \A r \in DOMAIN rows : rows[r].idx \in DOMAIN history /\ history[rows[r].idx] = rows[r].entry

\* A page that has handled its stream's history and events lists every result
\* the server keeps, through reconnects and results recorded while it subscribed.
\* Exempt are the results whose event a full channel dropped after the history
\* was copied, and those, history included, that came before nodes.js had run;
\* the history of the next stream brings them back (metrics.go:196-207,
\* pubsub.go:25-36, app.js:215-224, 447, nodes.js:610-619).
ResultsListed ==
  stream = "up" /\ sent = <<>> /\ queue = <<>> /\ unpublished = {}
    => ToSet(ring) \ missed \subseteq ToSet(history)

\* The panel keeps its promises: RowsPointRight and ResultsListed.
TraceListRight == RowsPointRight /\ ResultsListed

\* Whatever disabled the buttons of the table, a trace, its cooldown, or a row
\* built or given up meanwhile, all are enabled again once the user starts no
\* more traces, while the table is set up and shown: the slot comes free and a
\* refresh finds it so (app.js:831-869, 909-937, nodes.js:356-372, 637-641).
ButtonsRecover ==
  []<>((\A n \in Node : btn[n] \in {"none", "ready"}) \/ ~ready \/ ~shown)
=============================================================================
