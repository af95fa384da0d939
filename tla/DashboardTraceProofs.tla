------------------------ MODULE DashboardTraceProofs ------------------------
(***************************************************************************)
(* Proofs about DashboardTrace, for any nodes, window, and number of       *)
(* traces, results and lost streams: the globals own their callbacks,      *)
(* traces are spaced, every step is a step of TraceSlot or none, and the   *)
(* panel lists the results that reached the page.                          *)
(***************************************************************************)
EXTENDS DashboardTrace, SequenceTheorems, TLAPS

\* The part of the type invariant that the slot is about.
SlotTypes ==
  /\ started \in 0 .. MaxInputs
  /\ target \in [Trace -> Node \cup {0}] /\ age \in [Trace -> 0 .. Window]
  /\ pending \in [target : Node, trace : Trace] \cup {NoTrace}
  /\ timers \subseteq Trace /\ requests \subseteq Trace /\ freed \subseteq Trace
  /\ cooldown \in [target : Node, trace : Trace, remaining : 1 .. Window] \cup {NoCooldown}
  /\ intervals \subseteq [target : Node, trace : Trace, remaining : 1 .. Window]

\* The rest of it.
PanelTypes ==
  /\ loaded \in BOOLEAN /\ shown \in BOOLEAN /\ ready \in BOOLEAN
  /\ btn \in [Node -> {"none", "ready", "spinner", "cooling", "busy"}]
  /\ history \in Seq(Entry) /\ rows \in Seq([idx : Nat, entry : Entry])
  /\ mapReady \in BOOLEAN /\ drawn \in Seq(Entry)
  /\ ring \in Seq(Entry) /\ queue \in Seq(Entry) /\ stream \in {"down", "subscribed", "up"}
  /\ unpublished \subseteq Entry /\ sent \in Seq(Seq(Entry)) /\ missed \subseteq Entry
  /\ results \in 0 .. MaxInputs /\ breaks \in 0 .. MaxInputs

\* Whatever still refers to a trace refers to one that has started, and to its
\* node.
Linked ==
  /\ \A t \in 1 .. started : target[t] \in Node
  /\ requests \subseteq 1 .. started
  /\ pending # NoTrace => pending.trace \in 1 .. started /\ target[pending.trace] = pending.target
  /\ cooldown # NoCooldown => cooldown.trace \in 1 .. started

\* Every trace that is not Window seconds old holds the slot, or was given up.
Spaced ==
  \A t \in 1 .. started :
    \/ t = pending.trace \/ t = cooldown.trace
    \/ age[t] = Window \/ t \in freed

SlotIInv == SlotTypes /\ OneOwner /\ Linked /\ Spaced

\* The slot is free in the beginning (app.js:454-455).
LEMMA InitSlot == Init => SlotIInv
  BY TraceAssumption
  DEF Init, SlotIInv, SlotTypes, OneOwner, Linked, Spaced, NoTrace, NoCooldown, Trace

\* What the end of a pending trace leaves: its cooldown, or nothing when the
\* Window seconds are over (app.js:831-857).
LEMMA CooldownAfterTrace ==
  ASSUME SlotIInv, pending # NoTrace, startCooldown(pending.target, pending.trace)
  PROVE  \/ /\ age[pending.trace] = Window
            /\ cooldown' = NoCooldown /\ intervals' = {}
         \/ /\ cooldown' \in [target : Node, trace : Trace, remaining : 1 .. Window]
            /\ cooldown'.trace = pending.trace /\ cooldown'.target = pending.target
            /\ intervals' = {cooldown'}
<1> DEFINE c == [target |-> pending.target, trace |-> pending.trace,
                 remaining |-> Remaining(pending.trace)]
<1>1. pending \in [target : Node, trace : Trace]
  BY DEF SlotIInv, SlotTypes
<1>2. pending.trace \in Trace /\ pending.target \in Node /\ pending.trace # 0
  BY <1>1 DEF Trace
<1>3. age[pending.trace] \in 0 .. Window /\ Remaining(pending.trace) = Window - age[pending.trace]
  BY <1>2 DEF SlotIInv, SlotTypes, Remaining
<1>4. cooldown = NoCooldown /\ intervals = {}
  BY DEF SlotIInv, OneOwner
<1>5. CASE Remaining(pending.trace) = 0
  BY <1>3, <1>4, <1>5, TraceAssumption DEF startCooldown
<1>6. CASE Remaining(pending.trace) # 0
  <2>1. cooldown' = c /\ intervals' = {c}
    BY <1>4, <1>6 DEF startCooldown
  <2>2. Remaining(pending.trace) \in 1 .. Window
    BY <1>3, <1>6, TraceAssumption
  <2>3. QED
    BY <2>1, <2>2, <1>2
<1>7. QED
  BY <1>5, <1>6

\* The trace that ends is Window seconds old, or has its cooldown; the rest is as
\* it was (app.js:909-921, 945-954).
LEMMA TraceEnds ==
  ASSUME SlotIInv, pending # NoTrace, startCooldown(pending.target, pending.trace),
         pending' = NoTrace, timers' = timers \ {pending.trace},
         UNCHANGED <<started, target, age, requests, freed>>
  PROVE  SlotIInv'
<1>1. pending \in [target : Node, trace : Trace]
  BY DEF SlotIInv, SlotTypes
<1>2. pending.trace \in Trace /\ pending.trace # 0
  BY <1>1 DEF Trace
<1>3. cooldown = NoCooldown /\ timers = {pending.trace} /\ cooldown.trace = 0 /\ pending'.trace = 0
  BY <1>2 DEF SlotIInv, OneOwner, NoCooldown, NoTrace
<1>4. timers' = {}
  BY <1>3
<1>5. CASE age[pending.trace] = Window /\ cooldown' = NoCooldown /\ intervals' = {}
  <2>1. SlotTypes'
    BY <1>4, <1>5 DEF SlotIInv, SlotTypes, Trace
  <2>2. OneOwner'
    BY <1>3, <1>4, <1>5 DEF OneOwner
  <2>3. Linked'
    BY <1>5 DEF SlotIInv, Linked
  <2>4. Spaced'
    <3>1. SUFFICES ASSUME NEW t \in 1 .. started PROVE t = pending.trace \/ age[t] = Window \/ t \in freed
      BY <1>5 DEF Spaced
    <3>2. QED
      BY <1>3 DEF SlotIInv, Spaced
  <2>5. QED
    BY <2>1, <2>2, <2>3, <2>4 DEF SlotIInv
<1>6. CASE /\ cooldown' \in [target : Node, trace : Trace, remaining : 1 .. Window]
           /\ cooldown'.trace = pending.trace /\ cooldown'.target = pending.target
           /\ intervals' = {cooldown'}
  <2>0. cooldown' # NoCooldown
    BY <1>6, <1>2 DEF NoCooldown
  <2>1. SlotTypes'
    BY <1>4, <1>6 DEF SlotIInv, SlotTypes, Trace
  <2>2. OneOwner'
    BY <1>3, <1>4, <1>6, <2>0 DEF OneOwner
  <2>3. Linked'
    BY <1>6 DEF SlotIInv, Linked
  <2>4. Spaced'
    <3>1. SUFFICES ASSUME NEW t \in 1 .. started PROVE t = pending.trace \/ age[t] = Window \/ t \in freed
      BY <1>6 DEF Spaced
    <3>2. QED
      BY <1>3 DEF SlotIInv, Spaced
  <2>5. QED
    BY <2>1, <2>2, <2>3, <2>4 DEF SlotIInv
<1>7. QED
  BY CooldownAfterTrace, <1>5, <1>6

\* A new trace: the guard makes it the only one (app.js:889-923).
LEMMA StartStep ==
  ASSUME SlotIInv, PanelTypes, NEW n \in Node, startTraceroute(n)
  PROVE  SlotIInv'
<1> DEFINE t == started + 1
<1>1. /\ pending = NoTrace /\ cooldown = NoCooldown /\ started < MaxInputs
      /\ started' = t /\ target' = [target EXCEPT ![t] = n] /\ age' = [age EXCEPT ![t] = 0]
      /\ pending' = [target |-> n, trace |-> t] /\ timers' = timers \cup {t}
      /\ requests' = requests \cup {t}
      /\ cooldown' = cooldown /\ intervals' = intervals /\ freed' = freed
  BY TraceAssumption DEF startTraceroute, Guard, OneMoreInput, SlotIInv, SlotTypes, PanelTypes
<1>2. t \in Trace /\ started \in Nat /\ t # 0 /\ 1 .. started' = (1 .. started) \cup {t} /\ t \notin 1 .. started
  BY <1>1, TraceAssumption DEF SlotIInv, SlotTypes, Trace
<1>3. timers = {} /\ intervals = {} /\ pending.trace = 0 /\ cooldown.trace = 0
  BY <1>1 DEF SlotIInv, OneOwner, NoTrace, NoCooldown
<1>4. pending'.trace = t /\ pending'.target = n /\ pending' # NoTrace /\ pending' \in [target : Node, trace : Trace]
  BY <1>1, <1>2 DEF NoTrace
<1>5. target'[t] = n /\ \A u \in 1 .. started : u \in Trace /\ target'[u] = target[u] /\ age'[u] = age[u]
  BY <1>1, <1>2, TraceAssumption DEF SlotIInv, SlotTypes, Trace
<1>6. SlotTypes'
  <2>1. started' \in 0 .. MaxInputs
    BY <1>1, <1>2, TraceAssumption
  <2>2. target' \in [Trace -> Node \cup {0}] /\ age' \in [Trace -> 0 .. Window]
    BY <1>1, <1>2, TraceAssumption DEF SlotIInv, SlotTypes
  <2>3. QED
    BY <1>1, <1>2, <1>4, <2>1, <2>2 DEF SlotIInv, SlotTypes, Trace
<1>7. OneOwner'
  BY <1>1, <1>2, <1>3, <1>4 DEF OneOwner
<1>8. Linked'
  BY <1>1, <1>2, <1>4, <1>5 DEF SlotIInv, Linked
<1>9. Spaced'
  <2>1. SUFFICES ASSUME NEW u \in 1 .. started, u # t
                 PROVE  age'[u] = Window \/ u \in freed
    BY <1>1, <1>2, <1>4 DEF Spaced
  <2>2. age[u] = Window \/ u \in freed
    BY <1>3 DEF SlotIInv, Spaced
  <2>3. QED
    BY <1>5, <2>2
<1>10. QED
  BY <1>6, <1>7, <1>8, <1>9 DEF SlotIInv

\* Time only makes traces older.
LEMMA TickStep ==
  ASSUME SlotIInv, Tick
  PROVE  SlotIInv'
<1>1. UNCHANGED <<started, target, pending, timers, cooldown, intervals, requests, freed>>
  BY DEF Tick
<1>2. \A t \in Trace : age'[t] = age[t] \/ (t \in 1 .. started /\ age[t] < Window /\ age'[t] = age[t] + 1)
  BY DEF Tick
<1>3. age' \in [Trace -> 0 .. Window] /\ \A t \in Trace : age[t] = Window => age'[t] = Window
  <2>1. \A t \in Trace : age[t] \in 0 .. Window
    BY DEF SlotIInv, SlotTypes
  <2>2. \A t \in Trace : age'[t] \in 0 .. Window
    BY <1>2, <2>1, TraceAssumption
  <2>3. \A t \in Trace : age[t] = Window => age'[t] = Window
    BY <1>2, <2>1, TraceAssumption
  <2>4. age' = [t \in Trace |-> age'[t]]
    BY DEF Tick
  <2>5. QED
    BY <2>2, <2>3, <2>4
<1>4. \A t \in 1 .. started : t \in Trace
  BY TraceAssumption DEF SlotIInv, SlotTypes, Trace
<1>5. SlotTypes'
  BY <1>1, <1>3 DEF SlotIInv, SlotTypes, Trace
<1>6. OneOwner' /\ Linked'
  BY <1>1 DEF SlotIInv, OneOwner, Linked
<1>7. Spaced'
  BY <1>1, <1>3, <1>4 DEF SlotIInv, Spaced
<1>8. QED
  BY <1>5, <1>6, <1>7 DEF SlotIInv

\* The timeout belongs to the pending trace (app.js:909-921).
LEMMA TimeoutIsOfPending ==
  ASSUME SlotIInv, NEW t \in Trace, Timeout(t)
  PROVE  /\ pending # NoTrace /\ t = pending.trace /\ target[t] = pending.target
         /\ age[t] = Window
<1>1. t \in timers /\ age[t] = Window
  BY DEF Timeout
<1>2. t = pending.trace /\ t # 0
  BY <1>1 DEF SlotIInv, OneOwner
<1>3. pending # NoTrace
  BY <1>2 DEF NoTrace
<1>4. QED
  BY <1>1, <1>2, <1>3 DEF SlotIInv, Linked

\* So the timeout ends the trace it was set for (app.js:909-921).
LEMMA TimeoutStep ==
  ASSUME SlotIInv, NEW t \in Trace, Timeout(t)
  PROVE  SlotIInv'
<1>1. pending # NoTrace /\ t = pending.trace /\ target[t] = pending.target
  BY TimeoutIsOfPending
<1>2. /\ startCooldown(target[t], pending.trace)
      /\ pending' = NoTrace /\ timers' = timers \ {t}
      /\ UNCHANGED <<started, target, age, requests, freed>>
  BY DEF Timeout
<1>3. startCooldown(pending.target, pending.trace)
  BY <1>1, <1>2
<1>4. QED
  BY <1>1, <1>2, <1>3, TraceEnds

\* A result ends the pending trace when it is of its node (app.js:940-955).
LEMMA ResultStep ==
  ASSUME SlotIInv, OnResult
  PROVE  SlotIInv'
<1>1. CASE pending # NoTrace /\ pending.target = Head(queue).from
  <2>1. /\ TraceAnswered(Head(queue))
        /\ UNCHANGED <<started, target, age, requests, freed>>
    BY <1>1 DEF OnResult
  <2>2. QED
    BY <1>1, <2>1, TraceEnds DEF TraceAnswered, ClearTimeout
<1>2. CASE ~(pending # NoTrace /\ pending.target = Head(queue).from)
  <2>1. UNCHANGED slotVars
    BY <1>2 DEF OnResult, slotVars
  <2>2. QED
    BY <2>1 DEF slotVars, SlotIInv, SlotTypes, OneOwner, Linked, Spaced
<1>3. QED
  BY <1>1, <1>2

\* The interval that fires is that of the cooldown, which ends only when the
\* Window seconds are over (app.js:845-856).
LEMMA IntervalIsOfCooldown ==
  ASSUME SlotIInv, NEW c \in intervals, CooldownTick(c)
  PROVE  /\ c = cooldown /\ cooldown # NoCooldown /\ pending = NoTrace
         /\ c \in [target : Node, trace : Trace, remaining : 1 .. Window]
         /\ c.remaining = 1 => age[c.trace] = Window
<1>1. c = cooldown /\ cooldown # NoCooldown /\ pending = NoTrace
  BY DEF SlotIInv, OneOwner
<1>2. c \in [target : Node, trace : Trace, remaining : 1 .. Window]
  BY DEF SlotIInv, SlotTypes
<1>3. age[c.trace] \in 0 .. Window
  BY <1>2 DEF SlotIInv, SlotTypes
<1>4. c.remaining = 1 => age[c.trace] = Window
  BY <1>3, TraceAssumption DEF CooldownTick
<1>5. QED
  BY <1>1, <1>2, <1>4

\* A second of the cooldown keeps its trace; its end finds that trace old enough
\* (app.js:845-856).
LEMMA CooldownTickStep ==
  ASSUME SlotIInv, NEW c \in intervals, CooldownTick(c)
  PROVE  SlotIInv'
<1>1. /\ c = cooldown /\ cooldown # NoCooldown /\ pending = NoTrace
      /\ c \in [target : Node, trace : Trace, remaining : 1 .. Window]
      /\ c.remaining = 1 => age[c.trace] = Window
  BY IntervalIsOfCooldown
<1>2. intervals = {cooldown} /\ timers = {} /\ pending.trace = 0
  BY <1>1 DEF SlotIInv, OneOwner, NoTrace
<1>3. UNCHANGED <<started, target, age, pending, timers, requests, freed>>
  BY DEF CooldownTick
<1>4. CASE c.remaining = 1
  <2>1. cooldown' = NoCooldown /\ intervals' = {} /\ cooldown'.trace = 0
    BY <1>1, <1>2, <1>4 DEF CooldownTick, NoCooldown
  <2>2. SlotTypes'
    BY <1>3, <2>1 DEF SlotIInv, SlotTypes, Trace
  <2>3. OneOwner' /\ Linked'
    BY <1>1, <1>2, <1>3, <2>1 DEF SlotIInv, OneOwner, Linked
  <2>4. Spaced'
    BY <1>1, <1>2, <1>3, <1>4 DEF SlotIInv, Spaced
  <2>5. QED
    BY <2>2, <2>3, <2>4 DEF SlotIInv
<1>5. CASE c.remaining # 1
  <2> DEFINE d == [c EXCEPT !.remaining = @ - 1]
  <2>1. cooldown' = d /\ intervals' = {d}
    BY <1>1, <1>2, <1>5 DEF CooldownTick
  <2>2. d \in [target : Node, trace : Trace, remaining : 1 .. Window] /\ d.trace = c.trace
    BY <1>1, <1>5, TraceAssumption
  <2>3. d # NoCooldown
    BY <2>2 DEF NoCooldown, Trace
  <2> HIDE DEF d
  <2>4. SlotTypes'
    BY <1>3, <2>1, <2>2 DEF SlotIInv, SlotTypes, Trace
  <2>5. OneOwner' /\ Linked'
    BY <1>1, <1>2, <1>3, <2>1, <2>2, <2>3 DEF SlotIInv, OneOwner, Linked
  <2>6. Spaced'
    BY <1>1, <1>3, <2>1, <2>2 DEF SlotIInv, Spaced
  <2>7. QED
    BY <2>4, <2>5, <2>6 DEF SlotIInv
<1>6. QED
  BY <1>4, <1>5

\* A failed request gives the pending trace up (app.js:930-937).
LEMMA RequestFailsStep ==
  ASSUME SlotIInv, NEW t \in Trace, RequestFails(t)
  PROVE  SlotIInv'
<1>1. /\ requests' = requests \ {t} /\ timers' = timers \ {pending.trace} /\ pending' = NoTrace
      /\ freed' = IF pending # NoTrace THEN freed \cup {pending.trace} ELSE freed
      /\ UNCHANGED <<started, target, age, cooldown, intervals>>
  BY DEF RequestFails, ClearTimeout
<1>2. timers' = {} /\ pending'.trace = 0
  BY <1>1 DEF SlotIInv, OneOwner, NoTrace
<1>3. pending # NoTrace => pending.trace \in Trace
  BY DEF SlotIInv, SlotTypes
<1>4. SlotTypes'
  BY <1>1, <1>2, <1>3 DEF SlotIInv, SlotTypes, Trace
<1>5. OneOwner' /\ Linked'
  BY <1>1, <1>2 DEF SlotIInv, OneOwner, Linked
<1>6. Spaced'
  <2>1. SUFFICES ASSUME NEW u \in 1 .. started
                 PROVE  u = cooldown.trace \/ age[u] = Window \/ u \in freed'
    BY <1>1 DEF Spaced
  <2>2. u # 0
    BY DEF SlotIInv, SlotTypes
  <2>3. u = pending.trace => u \in freed'
    BY <1>1, <2>2 DEF NoTrace
  <2>4. freed \subseteq freed'
    BY <1>1
  <2>5. QED
    BY <2>3, <2>4 DEF SlotIInv, Spaced
<1>7. QED
  BY <1>4, <1>5, <1>6 DEF SlotIInv

\* The other steps leave the slot alone, an answered request all but its own
\* entry.
LEMMA OtherStep ==
  ASSUME SlotIInv,
         \/ UNCHANGED slotVars
         \/ \E t \in Trace : RequestAnswered(t)
  PROVE  SlotIInv'
<1>1. CASE UNCHANGED slotVars
  BY <1>1 DEF slotVars, SlotIInv, SlotTypes, OneOwner, Linked, Spaced
<1>2. ASSUME NEW t \in Trace, RequestAnswered(t) PROVE SlotIInv'
  BY <1>2 DEF RequestAnswered, SlotIInv, SlotTypes, OneOwner, Linked, Spaced
<1>3. QED
  BY <1>1, <1>2

\* The steps of Next, sorted by what they do to the slot.
LEMMA StepKinds ==
  ASSUME [Next]_vars
  PROVE  \/ \E n \in Node : startTraceroute(n)
         \/ Tick \/ OnResult
         \/ \E t \in Trace : Timeout(t) \/ RequestAnswered(t) \/ RequestFails(t)
         \/ \E c \in intervals : CooldownTick(c)
         \/ UNCHANGED slotVars
<1>1. ASSUME NEW n \in Node, PublishTraceroute(n) PROVE UNCHANGED slotVars
  BY <1>1 DEF PublishTraceroute
<1>2. CASE OnTraceHistory \/ Subscribe \/ SendHistory \/ Break \/ \E e \in unpublished : publish(e)
  BY <1>2 DEF OnTraceHistory, Subscribe, SendHistory, Break, publish
<1>3. CASE LoadScript \/ ShowNodes \/ LeaveNodes \/ RenderTable \/ initMap
  BY <1>3 DEF LoadScript, ShowNodes, LeaveNodes, RenderTable, initMap
<1>4. ASSUME NEW r \in DOMAIN rows, showTraceOnMap(r) PROVE UNCHANGED slotVars
  BY <1>4 DEF showTraceOnMap
<1>5. CASE UNCHANGED vars
  BY <1>5 DEF vars
<1>6. QED
  BY <1>1, <1>2, <1>3, <1>4, <1>5 DEF Next

\* Every step keeps the invariant.
LEMMA SlotStep ==
  ASSUME SlotIInv, PanelTypes, [Next]_vars
  PROVE  SlotIInv'
BY StepKinds, StartStep, TickStep, ResultStep, TimeoutStep, RequestFailsStep,
   CooldownTickStep, OtherStep

(***************************************************************************)
(* The rest of the types.                                                  *)
(***************************************************************************)

\* They hold in the beginning.
LEMMA InitPanel == Init => PanelTypes
<1>1. <<>> \in Seq(Entry) /\ <<>> \in Seq([idx : Nat, entry : Entry]) /\ <<>> \in Seq(Seq(Entry))
  OBVIOUS
<1>2. SUFFICES ASSUME Init PROVE PanelTypes
  OBVIOUS
<1>3. /\ history \in Seq(Entry) /\ rows \in Seq([idx : Nat, entry : Entry]) /\ drawn \in Seq(Entry)
      /\ ring \in Seq(Entry) /\ queue \in Seq(Entry) /\ sent \in Seq(Seq(Entry))
  BY <1>1, <1>2, Zenon DEF Init
<1>4. /\ btn \in [Node -> {"none", "ready", "spinner", "cooling", "busy"}]
      /\ mapReady \in BOOLEAN /\ stream \in {"down", "subscribed", "up"}
      /\ loaded \in BOOLEAN /\ shown \in BOOLEAN /\ ready \in BOOLEAN
      /\ unpublished \subseteq Entry /\ missed \subseteq Entry
  BY <1>2 DEF Init
<1>5. results \in 0 .. MaxInputs /\ breaks \in 0 .. MaxInputs
  BY <1>2, TraceAssumption DEF Init
<1>6. QED
  BY <1>3, <1>4, <1>5 DEF PanelTypes

\* A list of entries gives as many rows, each with its entry (nodes.js:501-600).
LEMMA RowsOfEntries ==
  ASSUME NEW data \in Seq(Entry)
  PROVE  renderTraceHistory(data) \in Seq([idx : Nat, entry : Entry])
<1>1. Len(data) \in Nat /\ DOMAIN data = 1 .. Len(data)
  OBVIOUS
<1>2. \A i \in 1 .. Len(data) : Len(data) + 1 - i \in 1 .. Len(data) /\ data[Len(data) + 1 - i] \in Entry
  BY <1>1
<1>3. renderTraceHistory(data) \in [1 .. Len(data) -> [idx : Nat, entry : Entry]]
  BY <1>1, <1>2 DEF renderTraceHistory
<1>4. [1 .. Len(data) -> [idx : Nat, entry : Entry]]
        \in {[1 .. n -> [idx : Nat, entry : Entry]] : n \in Nat}
  BY <1>1
<1> HIDE DEF renderTraceHistory
<1>5. renderTraceHistory(data) \in UNION {[1 .. n -> [idx : Nat, entry : Entry]] : n \in Nat}
  BY <1>3, <1>4, Zenon
<1>6. QED
  BY <1>5, SeqDef, Zenon

\* A new entry leaves a list of entries and its rows (nodes.js:621-634).
LEMMA AppendTypes ==
  ASSUME PanelTypes, NEW e \in Entry, appendTraceHistory(e)
  PROVE  history' \in Seq(Entry) /\ rows' \in Seq([idx : Nat, entry : Entry])
<1>1. Append(history, e) \in Seq(Entry)
  BY DEF PanelTypes
<1>2. QED
  BY <1>1, RowsOfEntries DEF appendTraceHistory

\* What is drawn is an entry or nothing (app.js:957-962).
LEMMA DrawTypes ==
  ASSUME PanelTypes, NEW e \in Entry, drawTraceroute(e)
  PROVE  drawn' \in Seq(Entry)
  BY DEF PanelTypes, drawTraceroute

\* A cooldown, or its absence, leaves a proper button (app.js:835-840, 860-870).
LEMMA ButtonTypes ==
  ASSUME PanelTypes, NEW n \in Node, NEW t, startCooldown(n, t)
  PROVE  btn' \in [Node -> {"none", "ready", "spinner", "cooling", "busy"}]
  BY DEF PanelTypes, startCooldown, SetButton

\* Every step keeps the types of buttons, panel, map and stream.
LEMMA PanelStep ==
  ASSUME SlotIInv, PanelTypes, [Next]_vars
  PROVE  PanelTypes'
<1> USE DEF panelVars, streamVars, tabVars
<1>1. ASSUME NEW n \in Node, startTraceroute(n) PROVE PanelTypes'
  BY <1>1 DEF startTraceroute, SetButton, PanelTypes
<1>2. ASSUME NEW n \in Node, PublishTraceroute(n) PROVE PanelTypes'
  <2> DEFINE e == [from |-> n, result |-> results + 1]
             all == Append(ring, e)
  <2>1. results + 1 \in 0 .. MaxInputs
    BY <1>2, TraceAssumption DEF PublishTraceroute, OneMoreInput, SlotIInv, SlotTypes, PanelTypes
  <2>2. e \in Entry
    BY <2>1 DEF Entry
  <2>3. /\ ring' = (IF Len(all) > RingSize THEN Tail(all) ELSE all)
        /\ unpublished' = unpublished \cup {e}
    BY <1>2 DEF PublishTraceroute
  <2> HIDE DEF e
  <2>4. ring \in Seq(Entry) /\ unpublished \subseteq Entry
    BY DEF PanelTypes
  <2>5. all \in Seq(Entry) /\ all # <<>>
    BY <2>2, <2>4, AppendProperties
  <2> HIDE DEF all
  <2>6. Tail(all) \in Seq(Entry)
    BY <2>5, HeadTailProperties
  <2>7. ring' \in Seq(Entry) /\ unpublished' \subseteq Entry
    BY <2>2, <2>3, <2>4, <2>5, <2>6, Zenon
  <2>8. QED
    BY <1>2, <2>1, <2>7 DEF PublishTraceroute, PanelTypes
<1>3. CASE Tick
  BY <1>3 DEF Tick, PanelTypes
<1>4. ASSUME NEW t \in Trace, Timeout(t) PROVE PanelTypes'
  <2>1. pending # NoTrace /\ target[t] = pending.target /\ pending.target \in Node
    BY <1>4, TimeoutIsOfPending DEF SlotIInv, SlotTypes
  <2>2. [from |-> pending.target, result |-> 0] \in Entry
    BY <2>1, TraceAssumption DEF Entry
  <2>3. appendTraceHistory([from |-> pending.target, result |-> 0])
    BY <1>4, <2>1 DEF Timeout
  <2>4. history' \in Seq(Entry) /\ rows' \in Seq([idx : Nat, entry : Entry])
    BY <2>2, <2>3, AppendTypes
  <2>5. btn' \in [Node -> {"none", "ready", "spinner", "cooling", "busy"}]
    BY <1>4, <2>1, ButtonTypes DEF Timeout
  <2>6. QED
    BY <1>4, <2>4, <2>5 DEF Timeout, PanelTypes
<1>5. ASSUME NEW t \in Trace, RequestAnswered(t) PROVE PanelTypes'
  BY <1>5 DEF RequestAnswered, PanelTypes
<1>6. ASSUME NEW t \in Trace, RequestFails(t) PROVE PanelTypes'
  BY <1>6 DEF RequestFails, SetButton, PanelTypes
<1>7. ASSUME NEW c \in intervals, CooldownTick(c) PROVE PanelTypes'
  BY <1>7 DEF CooldownTick, SetButton, PanelTypes
<1>8. CASE OnResult
  <2>1. Head(queue) \in Entry /\ queue' \in Seq(Entry)
    BY <1>8 DEF OnResult, PanelTypes
  <2>2. history' \in Seq(Entry) /\ rows' \in Seq([idx : Nat, entry : Entry]) /\ missed' \subseteq Entry
    <3>1. CASE loaded
      BY <1>8, <2>1, <3>1, AppendTypes DEF OnResult, PanelTypes
    <3>2. CASE ~loaded
      BY <1>8, <2>1, <3>2 DEF OnResult, PanelTypes
    <3>3. QED
      BY <3>1, <3>2
  <2>3. UNCHANGED <<tabVars, mapReady, ring, unpublished, stream, sent, results, breaks>>
    BY <1>8 DEF OnResult
  <2>4. CASE pending # NoTrace /\ pending.target = Head(queue).from
    <3>1. TraceAnswered(Head(queue)) /\ pending.target \in Node
      BY <1>8, <2>4 DEF OnResult, SlotIInv, SlotTypes
    <3>2. btn' \in [Node -> {"none", "ready", "spinner", "cooling", "busy"}] /\ drawn' \in Seq(Entry)
      BY <3>1, <2>1, ButtonTypes, DrawTypes DEF TraceAnswered
    <3>3. QED
      BY <2>1, <2>2, <2>3, <3>2 DEF PanelTypes
  <2>5. CASE ~(pending # NoTrace /\ pending.target = Head(queue).from)
    <3>1. UNCHANGED <<btn, drawn>>
      BY <1>8, <2>5 DEF OnResult
    <3>2. QED
      BY <2>1, <2>2, <2>3, <3>1 DEF PanelTypes
  <2>6. QED
    BY <2>4, <2>5
<1>9. CASE OnTraceHistory
  <2>1. Head(sent) \in Seq(Entry) /\ <<>> \in Seq(Seq(Entry))
    BY <1>9, EmptySeq, HeadTailProperties DEF OnTraceHistory, PanelTypes
  <2>2. CASE loaded
    <3>1. history' \in Seq(Entry) /\ rows' \in Seq([idx : Nat, entry : Entry])
      BY <1>9, <2>1, <2>2, RowsOfEntries DEF OnTraceHistory, loadTraceHistory
    <3>2. QED
      BY <1>9, <2>1, <2>2, <3>1 DEF OnTraceHistory, PanelTypes
  <2>3. CASE ~loaded
    <3>1. ToSet(Head(sent)) \subseteq Entry
      BY <2>1 DEF ToSet
    <3>2. QED
      BY <1>9, <2>1, <2>3, <3>1 DEF OnTraceHistory, PanelTypes
  <2>4. QED
    BY <2>2, <2>3
<1>10. CASE Subscribe \/ SendHistory \/ Break
  <2>1. /\ queue' \in Seq(Entry) /\ stream' \in {"down", "subscribed", "up"}
        /\ missed' \subseteq Entry
    BY <1>10, EmptySeq DEF Subscribe, SendHistory, Break, PanelTypes
  <2>2. breaks' \in 0 .. MaxInputs
    BY <1>10, TraceAssumption
    DEF Subscribe, SendHistory, Break, OneMoreInput, SlotIInv, SlotTypes, PanelTypes
  <2>3. sent' \in Seq(Seq(Entry))
    <3>1. <<ring>> \in Seq(Seq(Entry)) /\ <<>> \in Seq(Seq(Entry))
      BY DEF PanelTypes
    <3>2. QED
      BY <1>10, <3>1 DEF Subscribe, SendHistory, Break, PanelTypes
  <2>4. UNCHANGED <<tabVars, btn, history, rows, mapReady, drawn, ring, unpublished, results>>
    BY <1>10 DEF Subscribe, SendHistory, Break
  <2>5. QED
    BY <2>1, <2>2, <2>3, <2>4 DEF PanelTypes
<1>11. CASE LoadScript \/ ShowNodes \/ LeaveNodes \/ RenderTable \/ initMap
  <2>1. /\ loaded' \in BOOLEAN /\ shown' \in BOOLEAN /\ ready' \in BOOLEAN /\ mapReady' \in BOOLEAN
        /\ UNCHANGED <<panelVars, drawn, streamVars>>
    BY <1>11 DEF LoadScript, ShowNodes, LeaveNodes, RenderTable, initMap, PanelTypes
  <2>2. btn' \in [Node -> {"none", "ready", "spinner", "cooling", "busy"}]
    BY <1>11
    DEF LoadScript, ShowNodes, LeaveNodes, RenderTable, initMap, renderNodesTable, RowButton,
        PanelTypes
  <2>3. QED
    BY <2>1, <2>2 DEF PanelTypes
<1>12. ASSUME NEW r \in DOMAIN rows, showTraceOnMap(r) PROVE PanelTypes'
  <2>1. history[rows[r].idx] \in Entry
    BY <1>12 DEF showTraceOnMap, PanelTypes
  <2>2. QED
    BY <1>12, <2>1, DrawTypes DEF showTraceOnMap, PanelTypes
<1>13. CASE UNCHANGED vars
  BY <1>13 DEF vars, PanelTypes
<1>14. ASSUME NEW e \in unpublished, publish(e) PROVE PanelTypes'
  <2>1. e \in Entry
    BY DEF PanelTypes
  <2>2. queue' \in Seq(Entry) /\ missed' \subseteq Entry /\ unpublished' \subseteq Entry
    <3>1. Append(queue, e) \in Seq(Entry)
      BY <2>1, AppendProperties DEF PanelTypes
    <3>2. queue' \in {queue, Append(queue, e)} /\ missed' \in {missed, missed \cup {e}}
          /\ unpublished' = unpublished \ {e}
      BY <1>14 DEF publish
    <3>3. QED
      BY <2>1, <3>1, <3>2 DEF PanelTypes
  <2>3. QED
    BY <1>14, <2>2 DEF publish, PanelTypes
<1>15. QED
  BY <1>1, <1>2, <1>3, <1>4, <1>5, <1>6, <1>7, <1>8, <1>9, <1>10, <1>11, <1>12, <1>13, <1>14 DEF Next

\* The invariant of the slot, for the theorems that need no other types.
LEMMA SlotAlways == Spec => []SlotIInv
<1>1. Init => SlotIInv /\ PanelTypes
  BY InitSlot, InitPanel
<1>2. SlotIInv /\ PanelTypes /\ [Next]_vars => (SlotIInv /\ PanelTypes)'
  BY SlotStep, PanelStep
<1>3. QED
  BY <1>1, <1>2, PTL DEF Spec

(***************************************************************************)
(* The theorems.                                                           *)
(***************************************************************************)
\* Types and ownership, for any nodes, window and number of traces: a timeout is
\* set exactly for the pending trace and an interval exactly for the cooldown,
\* and there are never both (app.js:831-857, 889-955).
THEOREM SlotOwned == Spec => []SlotInv
<1>1. Init => SlotIInv /\ PanelTypes
  BY InitSlot, InitPanel
<1>2. SlotIInv /\ PanelTypes /\ [Next]_vars => (SlotIInv /\ PanelTypes)'
  BY SlotStep, PanelStep
<1>3. SlotIInv /\ PanelTypes => SlotInv
  BY DEF SlotIInv, SlotTypes, PanelTypes, SlotInv, TypeOK
<1>4. QED
  BY <1>1, <1>2, <1>3, PTL DEF Spec

\* Only a click starts a trace.
LEMMA OnlyClickStarts ==
  ASSUME [Next]_vars, started' # started
  PROVE  \E n \in Node : startTraceroute(n)
<1>1. CASE Tick \/ OnResult
  BY <1>1 DEF Tick, OnResult
<1>2. ASSUME NEW t \in Trace, Timeout(t) \/ RequestAnswered(t) \/ RequestFails(t) PROVE FALSE
  BY <1>2 DEF Timeout, RequestAnswered, RequestFails
<1>3. ASSUME NEW c \in intervals, CooldownTick(c) PROVE FALSE
  BY <1>3 DEF CooldownTick
<1>4. CASE UNCHANGED slotVars
  BY <1>4 DEF slotVars
<1>5. QED
  BY <1>1, <1>2, <1>3, <1>4, StepKinds

\* Whenever a trace starts, every earlier one is at least Window seconds old,
\* unless the failure of a request has given it up (app.js:831-834, 889-892).
THEOREM StartsSpaced == Spec => TracesSpaced
<1> DEFINE A == started' # started => \A t \in 1 .. started : age[t] = Window \/ t \in freed
<1>1. SlotIInv /\ [Next]_vars => [A]_vars
  <2>1. SUFFICES ASSUME SlotIInv, [Next]_vars, started' # started, NEW t \in 1 .. started
                 PROVE  age[t] = Window \/ t \in freed
    OBVIOUS
  <2>2. pending = NoTrace /\ cooldown = NoCooldown
    BY <2>1, OnlyClickStarts DEF startTraceroute, Guard
  <2>3. pending.trace = 0 /\ cooldown.trace = 0 /\ t # 0
    BY <2>2 DEF NoTrace, NoCooldown, SlotIInv, SlotTypes
  <2>4. QED
    BY <2>1, <2>3 DEF SlotIInv, Spaced
<1>2. Spec => [][A]_vars
  BY <1>1, SlotAlways, PTL DEF Spec
<1>3. QED
  BY <1>2 DEF TracesSpaced

(***************************************************************************)
(* The refinement of TraceSlot: its initial state and its steps.           *)
(***************************************************************************)

\* Who has the slot: the arms of SlotNow exclude each other by OneOwner.
LEMMA SlotNowCases ==
  ASSUME SlotIInv
  PROVE  /\ pending # NoTrace =>
              SlotNow = [by |-> "trace", node |-> pending.target] /\ pending.target \in Node
         /\ pending = NoTrace /\ cooldown # NoCooldown =>
              SlotNow = [by |-> "cooldown", node |-> cooldown.target]
         /\ pending = NoTrace /\ cooldown = NoCooldown => SlotNow = Slot!Free
<1>1. CASE pending # NoTrace
  <2>1. pending.target \in Node /\ cooldown = NoCooldown
    BY <1>1 DEF SlotIInv, SlotTypes, OneOwner
  <2>2. SlotNow = [by |-> "trace", node |-> pending.target]
    BY <1>1, <2>1 DEF SlotNow
  <2>3. QED
    BY <1>1, <2>1, <2>2
<1>2. CASE pending = NoTrace /\ cooldown # NoCooldown
  <2>1. SlotNow = [by |-> "cooldown", node |-> cooldown.target]
    BY <1>2 DEF SlotNow
  <2>2. QED
    BY <1>2, <2>1
<1>3. CASE pending = NoTrace /\ cooldown = NoCooldown
  BY <1>3 DEF SlotNow, Slot!Free
<1>4. QED
  BY <1>1, <1>2, <1>3

\* The same after a step.
LEMMA SlotNowCasesNext ==
  ASSUME SlotIInv'
  PROVE  /\ pending' # NoTrace =>
              SlotNow' = [by |-> "trace", node |-> pending'.target] /\ pending'.target \in Node
         /\ pending' = NoTrace /\ cooldown' # NoCooldown =>
              SlotNow' = [by |-> "cooldown", node |-> cooldown'.target]
         /\ pending' = NoTrace /\ cooldown' = NoCooldown => SlotNow' = Slot!Free
<1>1. CASE pending' # NoTrace
  <2>1. pending'.target \in Node /\ cooldown' = NoCooldown
    BY <1>1 DEF SlotIInv, SlotTypes, OneOwner
  <2>2. SlotNow' = [by |-> "trace", node |-> pending'.target]
    BY <1>1, <2>1 DEF SlotNow
  <2>3. QED
    BY <1>1, <2>1, <2>2
<1>2. CASE pending' = NoTrace /\ cooldown' # NoCooldown
  <2>1. SlotNow' = [by |-> "cooldown", node |-> cooldown'.target]
    BY <1>2 DEF SlotNow
  <2>2. QED
    BY <1>2, <2>1
<1>3. CASE pending' = NoTrace /\ cooldown' = NoCooldown
  BY <1>3 DEF SlotNow, Slot!Free
<1>4. QED
  BY <1>1, <1>2, <1>3

\* The end of a trace hands the slot to the cooldown of its node, or frees it.
LEMMA EndMaps ==
  ASSUME SlotIInv, SlotIInv', pending # NoTrace, pending' = NoTrace,
         startCooldown(pending.target, pending.trace)
  PROVE  Slot!Cool \/ Slot!Release
<1>1. SlotNow = [by |-> "trace", node |-> pending.target]
  BY SlotNowCases
<1>2. CASE cooldown' = NoCooldown
  BY <1>1, <1>2, SlotNowCasesNext DEF Slot!Release, Slot!Free
<1>3. CASE cooldown' # NoCooldown
  <2>1. cooldown'.target = pending.target
    BY <1>3, CooldownAfterTrace
  <2>2. SlotNow' = [by |-> "cooldown", node |-> pending.target]
    BY <1>3, <2>1, SlotNowCasesNext
  <2>3. QED
    BY <1>1, <2>2 DEF Slot!Cool
<1>4. QED
  BY <1>2, <1>3

\* Every step takes, hands on or releases the slot, or leaves it as it is.
LEMMA StepMaps ==
  ASSUME SlotIInv, SlotIInv', [Next]_vars
  PROVE  Slot!Next \/ SlotNow' = SlotNow
<1>1. CASE pending' = pending /\ cooldown' = cooldown
  BY <1>1 DEF SlotNow
<1>2. ASSUME NEW n \in Node, startTraceroute(n) PROVE Slot!Next
  <2>1. pending = NoTrace /\ cooldown = NoCooldown /\ pending' = [target |-> n, trace |-> started + 1]
    BY <1>2 DEF startTraceroute, Guard
  <2>2. pending' # NoTrace /\ pending'.target = n
    BY <2>1, TraceAssumption DEF NoTrace
  <2>3. SlotNow = Slot!Free /\ SlotNow' = [by |-> "trace", node |-> n]
    BY <2>1, <2>2, SlotNowCases, SlotNowCasesNext
  <2>4. QED
    BY <2>3 DEF Slot!Next, Slot!Take
<1>3. CASE Tick
  BY <1>1, <1>3 DEF Tick
<1>4. ASSUME NEW t \in Trace, Timeout(t) PROVE Slot!Next
  <2>1. pending # NoTrace /\ startCooldown(pending.target, pending.trace) /\ pending' = NoTrace
    BY <1>4, TimeoutIsOfPending DEF Timeout
  <2>2. QED
    BY <2>1, EndMaps DEF Slot!Next
<1>5. CASE OnResult
  <2>1. CASE pending # NoTrace /\ pending.target = Head(queue).from
    BY <1>5, <2>1, EndMaps DEF OnResult, TraceAnswered, Slot!Next
  <2>2. CASE ~(pending # NoTrace /\ pending.target = Head(queue).from)
    BY <1>1, <1>5, <2>2 DEF OnResult
  <2>3. QED
    BY <2>1, <2>2
<1>6. ASSUME NEW c \in intervals, CooldownTick(c) PROVE Slot!Next \/ SlotNow' = SlotNow
  <2>1. cooldown # NoCooldown /\ pending = NoTrace /\ pending' = NoTrace /\ c = cooldown
    BY <1>6, IntervalIsOfCooldown DEF CooldownTick
  <2>2. SlotNow = [by |-> "cooldown", node |-> cooldown.target]
    BY <2>1, SlotNowCases
  <2>3. CASE cooldown' = NoCooldown
    BY <2>1, <2>2, <2>3, SlotNowCasesNext DEF Slot!Next, Slot!Release, Slot!Free
  <2>4. CASE cooldown' # NoCooldown
    <3>1. cooldown \in [target : Node, trace : Trace, remaining : 1 .. Window]
      BY <2>1 DEF SlotIInv, SlotTypes
    <3>2. cooldown' = [cooldown EXCEPT !.remaining = c.remaining - 1]
      BY <1>6, <2>4 DEF CooldownTick
    <3>3. cooldown'.target = cooldown.target
      BY <3>1, <3>2
    <3>4. QED
      BY <2>1, <2>2, <2>4, <3>3, SlotNowCasesNext
  <2>5. QED
    BY <2>3, <2>4
<1>7. ASSUME NEW t \in Trace, RequestAnswered(t) PROVE Slot!Next \/ SlotNow' = SlotNow
  BY <1>1, <1>7 DEF RequestAnswered
<1>8. ASSUME NEW t \in Trace, RequestFails(t) PROVE Slot!Next \/ SlotNow' = SlotNow
  <2>1. pending' = NoTrace /\ cooldown' = cooldown
    BY <1>8 DEF RequestFails
  <2>2. CASE pending = NoTrace
    BY <1>1, <2>1, <2>2
  <2>3. CASE pending # NoTrace
    <3>1. cooldown = NoCooldown
      BY <2>3 DEF SlotIInv, OneOwner
    <3>2. QED
      BY <2>1, <2>3, <3>1, SlotNowCases, SlotNowCasesNext DEF Slot!Next, Slot!Release, Slot!Free
  <2>4. QED
    BY <2>2, <2>3
<1>9. CASE UNCHANGED slotVars
  BY <1>1, <1>9 DEF slotVars
<1>10. QED
  BY <1>2, <1>3, <1>4, <1>5, <1>6, <1>7, <1>8, <1>9, StepKinds

\* The safety part of ImplementsSlot, for any nodes and window: the slot is free
\* at first, is taken only when free, passes only to the cooldown of the same
\* node, and is otherwise released (app.js:831-857, 889-955).
THEOREM RefinesSlot == Spec => Slot!Init /\ [][Slot!Next]_SlotNow
<1>1. Init => Slot!Init
  BY DEF Init, Slot!Init, Slot!Free, SlotNow
<1>2. SlotIInv /\ SlotIInv' /\ [Next]_vars => [Slot!Next]_SlotNow
  BY StepMaps
<1>3. QED
  BY <1>1, <1>2, SlotAlways, PTL DEF Spec
(***************************************************************************)
(* The list of traces.                                                     *)
(***************************************************************************)
\* The list of the page once the history on its way, if any, has arrived.
Arriving == IF sent = <<>> THEN history ELSE Head(sent)

\* What the page has still to get, once its stream is up, completes its list, but
\* for what the stream has lost.
ResultsOnTheirWay ==
  stream = "up" =>
    ToSet(ring) \subseteq ToSet(Arriving) \cup ToSet(queue) \cup unpublished \cup missed

ListIInv == SlotIInv /\ PanelTypes /\ RowsPointRight /\ ResultsOnTheirWay

\* The elements of a sequence that is extended.
LEMMA AppendElements ==
  ASSUME NEW q \in Seq(Entry), NEW e \in Entry
  PROVE  ToSet(Append(q, e)) = ToSet(q) \cup {e}
<1>1. /\ DOMAIN q = 1 .. Len(q) /\ DOMAIN Append(q, e) = 1 .. Len(q) + 1 /\ Len(q) \in Nat
      /\ \A i \in 1 .. Len(q) : Append(q, e)[i] = q[i]
      /\ Append(q, e)[Len(q) + 1] = e
  OBVIOUS
<1>2. 1 .. Len(q) + 1 = (1 .. Len(q)) \cup {Len(q) + 1}
  BY <1>1
<1> HIDE <1>1
<1>3. QED
  BY <1>1, <1>2, Zenon DEF ToSet

\* The elements of a sequence that loses its first.
LEMMA TailElements ==
  ASSUME NEW q \in Seq(Entry), q # <<>>
  PROVE  /\ ToSet(q) \subseteq {Head(q)} \cup ToSet(Tail(q))
         /\ ToSet(Tail(q)) \subseteq ToSet(q)
<1>1. /\ DOMAIN q = 1 .. Len(q) /\ DOMAIN Tail(q) = 1 .. Len(q) - 1 /\ Len(q) \in Nat \ {0}
      /\ \A i \in 1 .. Len(q) - 1 : Tail(q)[i] = q[i + 1]
      /\ Head(q) = q[1]
  OBVIOUS
<1>2. \A i \in 1 .. Len(q) : i = 1 \/ (i - 1 \in 1 .. Len(q) - 1 /\ q[i] = Tail(q)[i - 1])
  BY <1>1
<1>3. \A i \in 1 .. Len(q) - 1 : i + 1 \in 1 .. Len(q)
  BY <1>1
<1>4. ASSUME NEW i \in 1 .. Len(q) PROVE q[i] \in {Head(q)} \cup ToSet(Tail(q))
  BY <1>1, <1>2, <1>4 DEF ToSet
<1>5. ASSUME NEW i \in 1 .. Len(q) - 1 PROVE Tail(q)[i] \in ToSet(q)
  BY <1>1, <1>3, <1>5 DEF ToSet
<1>6. QED
  BY <1>1, <1>4, <1>5, Zenon DEF ToSet

\* The rows made of a list point into that list (nodes.js:501-600).
LEMMA RowsPoint ==
  ASSUME NEW data \in Seq(Entry)
  PROVE  /\ Len(renderTraceHistory(data)) = Len(data)
         /\ \A r \in DOMAIN renderTraceHistory(data) :
              /\ renderTraceHistory(data)[r].idx \in DOMAIN data
              /\ data[renderTraceHistory(data)[r].idx] = renderTraceHistory(data)[r].entry
<1> DEFINE R == renderTraceHistory(data)
<1>1. Len(data) \in Nat /\ DOMAIN data = 1 .. Len(data)
  OBVIOUS
<1>2. DOMAIN R = 1 .. Len(data) /\ R \in Seq([idx : Nat, entry : Entry])
  BY <1>1, RowsOfEntries DEF renderTraceHistory
<1>3. Len(R) = Len(data)
  BY <1>1, <1>2
<1>4. \A r \in 1 .. Len(data) : /\ R[r].idx = Len(data) + 1 - r
                                /\ R[r].entry = data[Len(data) + 1 - r]
                                /\ Len(data) + 1 - r \in 1 .. Len(data)
  BY <1>1 DEF renderTraceHistory
<1>5. QED
  BY <1>1, <1>2, <1>3, <1>4

\* A new entry keeps the rows right and takes nothing from the list.
LEMMA AppendKeepsList ==
  ASSUME PanelTypes, NEW e \in Entry, appendTraceHistory(e)
  PROVE  RowsPointRight' /\ ToSet(history') = ToSet(history) \cup {e}
<1>1. history \in Seq(Entry) /\ Append(history, e) \in Seq(Entry)
  BY DEF PanelTypes
<1>2. ToSet(history') = ToSet(history) \cup {e}
  BY <1>1, AppendElements DEF appendTraceHistory
<1>3. QED
  BY <1>1, <1>2, RowsPoint DEF appendTraceHistory, RowsPointRight

\* The list is right in the beginning.
LEMMA InitList == Init => RowsPointRight /\ ResultsOnTheirWay
  BY DEF Init, RowsPointRight, ResultsOnTheirWay

\* Steps that touch neither list nor stream.
LEMMA QuietKeepsList ==
  ASSUME RowsPointRight, ResultsOnTheirWay, UNCHANGED panelVars, UNCHANGED streamVars
  PROVE  RowsPointRight' /\ ResultsOnTheirWay'
  BY DEF RowsPointRight, ResultsOnTheirWay, Arriving, panelVars, streamVars

\* Every step keeps the list right (nodes.js:501-634, app.js:215-224).
LEMMA ListStep ==
  ASSUME ListIInv, [Next]_vars
  PROVE  RowsPointRight' /\ ResultsOnTheirWay'
<1> USE DEF ListIInv
<1>1. ASSUME NEW n \in Node, startTraceroute(n) PROVE RowsPointRight' /\ ResultsOnTheirWay'
  BY <1>1, QuietKeepsList DEF startTraceroute
<1>2. ASSUME NEW n \in Node, PublishTraceroute(n) PROVE RowsPointRight' /\ ResultsOnTheirWay'
  <2> DEFINE e == [from |-> n, result |-> results + 1]
             longer == Append(ring, e)
  <2>1. results + 1 \in 0 .. MaxInputs
    BY <1>2, TraceAssumption DEF PublishTraceroute, OneMoreInput, SlotIInv, SlotTypes, PanelTypes
  <2>2. e \in Entry
    BY <2>1 DEF Entry
  <2>3. /\ ring' = (IF Len(longer) > RingSize THEN Tail(longer) ELSE longer)
        /\ unpublished' = unpublished \cup {e}
        /\ UNCHANGED <<history, rows, stream, sent, queue, missed>>
    BY <1>2 DEF PublishTraceroute, panelVars
  <2> HIDE DEF e
  <2>4. ring \in Seq(Entry)
    BY DEF PanelTypes
  <2>5. longer \in Seq(Entry) /\ longer # <<>> /\ ToSet(longer) = ToSet(ring) \cup {e}
    BY <2>2, <2>4, AppendProperties, AppendElements
  <2> HIDE DEF longer
  <2>6. ToSet(Tail(longer)) \subseteq ToSet(longer)
    BY <2>5, TailElements
  <2>7. ToSet(ring') \subseteq ToSet(ring) \cup {e}
    BY <2>3, <2>5, <2>6
  <2>8. ResultsOnTheirWay'
    BY <2>3, <2>7 DEF ResultsOnTheirWay, Arriving
  <2>9. RowsPointRight'
    BY <2>3 DEF RowsPointRight
  <2>10. QED
    BY <2>8, <2>9
<1>3. CASE Tick
  BY <1>3, QuietKeepsList DEF Tick
<1>4. ASSUME NEW t \in Trace, Timeout(t) PROVE RowsPointRight' /\ ResultsOnTheirWay'
  <2>1. pending # NoTrace /\ pending.target \in Node
    BY <1>4, TimeoutIsOfPending DEF SlotIInv, SlotTypes
  <2>2. [from |-> pending.target, result |-> 0] \in Entry
    BY <2>1, TraceAssumption DEF Entry
  <2>3. appendTraceHistory([from |-> pending.target, result |-> 0]) /\ UNCHANGED streamVars
    BY <1>4, <2>1 DEF Timeout, streamVars
  <2>4. RowsPointRight' /\ ToSet(history) \subseteq ToSet(history')
    BY <2>2, <2>3, AppendKeepsList
  <2>5. QED
    BY <2>3, <2>4 DEF ResultsOnTheirWay, Arriving, streamVars
<1>5. ASSUME NEW t \in Trace, RequestAnswered(t) \/ RequestFails(t)
      PROVE  RowsPointRight' /\ ResultsOnTheirWay'
  BY <1>5, QuietKeepsList DEF RequestAnswered, RequestFails
<1>6. ASSUME NEW c \in intervals, CooldownTick(c) PROVE RowsPointRight' /\ ResultsOnTheirWay'
  BY <1>6, QuietKeepsList DEF CooldownTick
<1>7. CASE OnResult
  <2>1. /\ queue # <<>> /\ queue \in Seq(Entry) /\ Head(queue) \in Entry
        /\ sent = <<>> /\ sent' = <<>>
        /\ queue' = Tail(queue) /\ UNCHANGED <<ring, stream, unpublished>>
    BY <1>7 DEF OnResult, PanelTypes
  <2>2. /\ RowsPointRight'
        /\ ToSet(history) \cup missed \cup {Head(queue)} \subseteq ToSet(history') \cup missed'
    <3>1. CASE loaded
      <4>1. appendTraceHistory(Head(queue)) /\ missed' = missed
        BY <1>7, <3>1 DEF OnResult
      <4>2. QED
        BY <2>1, <4>1, AppendKeepsList
    <3>2. CASE ~loaded
      BY <1>7, <3>2 DEF OnResult, panelVars, RowsPointRight
    <3>3. QED
      BY <3>1, <3>2
  <2>3. ToSet(queue) \subseteq {Head(queue)} \cup ToSet(queue')
    BY <2>1, TailElements
  <2>4. QED
    BY <2>1, <2>2, <2>3 DEF ResultsOnTheirWay, Arriving
<1>8. CASE OnTraceHistory
  <2>1. /\ sent # <<>> /\ sent' = <<>> /\ Head(sent) \in Seq(Entry)
        /\ UNCHANGED <<ring, stream, queue, unpublished>>
    BY <1>8 DEF OnTraceHistory, PanelTypes
  <2>2. CASE loaded
    <3>1. history' = Head(sent) /\ rows' = renderTraceHistory(Head(sent)) /\ missed' = missed
      BY <1>8, <2>2 DEF OnTraceHistory, loadTraceHistory
    <3>2. QED
      BY <2>1, <3>1, RowsPoint DEF RowsPointRight, ResultsOnTheirWay, Arriving
  <2>3. CASE ~loaded
    <3>1. missed' = missed \cup ToSet(Head(sent)) /\ UNCHANGED <<history, rows>>
      BY <1>8, <2>3 DEF OnTraceHistory, panelVars
    <3>2. QED
      BY <2>1, <3>1 DEF RowsPointRight, ResultsOnTheirWay, Arriving
  <2>4. QED
    BY <2>2, <2>3
<1>9. CASE Subscribe \/ SendHistory \/ Break
  <2>1. RowsPointRight'
    BY <1>9 DEF Subscribe, SendHistory, Break, panelVars, RowsPointRight
  <2>2. CASE SendHistory
    <3>1. sent' = <<ring>> /\ ring' = ring
      BY <2>2 DEF SendHistory
    <3>2. QED
      BY <2>1, <3>1 DEF ResultsOnTheirWay, Arriving
  <2>3. CASE Subscribe \/ Break
    BY <2>1, <2>3 DEF Subscribe, Break, ResultsOnTheirWay
  <2>4. QED
    BY <1>9, <2>2, <2>3
<1>10. CASE LoadScript \/ ShowNodes \/ LeaveNodes \/ RenderTable \/ initMap
  BY <1>10, QuietKeepsList DEF LoadScript, ShowNodes, LeaveNodes, RenderTable, initMap
<1>11. ASSUME NEW r \in DOMAIN rows, showTraceOnMap(r) PROVE RowsPointRight' /\ ResultsOnTheirWay'
  BY <1>11, QuietKeepsList DEF showTraceOnMap
<1>12. CASE UNCHANGED vars
  BY <1>12, QuietKeepsList DEF vars
<1>13. ASSUME NEW e \in unpublished, publish(e) PROVE RowsPointRight' /\ ResultsOnTheirWay'
  <2>1. /\ e \in Entry /\ queue \in Seq(Entry) /\ unpublished' = unpublished \ {e}
        /\ UNCHANGED <<history, rows, ring, stream, sent>>
    BY <1>13 DEF publish, PanelTypes, panelVars
  <2>2. RowsPointRight'
    BY <2>1 DEF RowsPointRight
  <2>3. stream = "up" => ToSet(queue) \cup missed \cup {e} \subseteq ToSet(queue') \cup missed'
    <3>1. ToSet(Append(queue, e)) = ToSet(queue) \cup {e}
      BY <2>1, AppendElements
    <3>2. QED
      BY <1>13, <3>1 DEF publish
  <2>4. QED
    BY <2>1, <2>2, <2>3 DEF ResultsOnTheirWay, Arriving
<1>14. QED
  BY <1>1, <1>2, <1>3, <1>4, <1>5, <1>6, <1>7, <1>8, <1>9, <1>10, <1>11, <1>12, <1>13 DEF Next

\* For any number of traces, results, lost streams and any ring: every row of the
\* panel shows the trace it names, after every change of the list, and a page that
\* has handled its history and events lists every result the server keeps, but for
\* those whose event was dropped after the history was copied or that came before
\* nodes.js had run (nodes.js:501-634, app.js:215-224, 447, pubsub.go:25-36).
THEOREM TraceList == Spec => []TraceListRight
<1>1. Init => ListIInv
  BY InitSlot, InitPanel, InitList DEF ListIInv
<1>2. ListIInv /\ [Next]_vars => ListIInv'
  BY SlotStep, PanelStep, ListStep DEF ListIInv
<1>3. ListIInv => TraceListRight
  BY EmptySeq DEF ListIInv, ResultsOnTheirWay, Arriving, TraceListRight, ResultsListed, ToSet
<1>4. QED
  BY <1>1, <1>2, <1>3, PTL DEF Spec
=============================================================================
