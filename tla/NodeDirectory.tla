--------------------------- MODULE NodeDirectory ---------------------------
(***************************************************************************)
(* The node directory of internal/metrics/node_directory.go and a browser  *)
(* that keeps a copy of it (internal/web/server.go handleSSE, app.js).     *)
(*                                                                         *)
(* The read loop of the node connection turns a frame into updates and     *)
(* makes each in two steps: the section under nodeDirMu, then the publish  *)
(* of its event.  POST /api/favorite does the same from other goroutines.  *)
(* The event stream of a browser subscribes, sends a copy of the directory *)
(* and then the events it receives, in order; the browser applies each of  *)
(* them on arrival.                                                        *)
(*                                                                         *)
(* SetNodeDirectory publishes the map it has installed, not a copy: the    *)
(* stream encodes that map later, without the lock.  So a map is an object *)
(* (maps[i], the last one being m.nodeDir) and the event names it.         *)
(***************************************************************************)
EXTENDS Naturals, Sequences, Bags, SequencesExt

CONSTANTS
  Node,         \* node numbers
  Handler,      \* concurrent POST /api/favorite requests
  Packet,       \* packets from the mesh (PacketType)
  Config,       \* config sequences: the node_info frames of each, in order
  Buffer,       \* sseBufferSize
  MaxPackets,   \* bound: packets read
  MaxConfigs,   \* bound: config sequences completed
  MaxFavorites, \* bound: favourite requests that find their node
  MaxConnects   \* bound: streams opened by the browser

Name   == {"", "a", "b"}   \* short name, long name, user id, ...: "" is absent
Amount == 0 .. 2           \* a coordinate, a metric, a signal: 0 is absent

\* A packet of one portnum; rssi is MeshPacket.RxRssi, 0 when not heard directly.
PacketType ==
  [node : Node, port : {"position", "telemetry", "nodeinfo", "other"},
   name : Name, val : Amount, rssi : Amount]

NodeInfoType == [num : Node \cup {0}, name : Name, pos : Amount, metric : Amount, fav : BOOLEAN]

ASSUME DirectoryAssumption ==
  /\ Node \subseteq Nat \ {0}
  /\ Packet \subseteq PacketType
  /\ Config \subseteq Seq(NodeInfoType)
  /\ Buffer \in Nat \ {0}
  /\ MaxPackets \in Nat /\ MaxConfigs \in Nat /\ MaxFavorites \in Nat /\ MaxConnects \in Nat

\* metrics.NodeEntry: metric stands for telemetry and for signal quality.
Entry == [name : Name, pos : Amount, metric : Amount, fav : BOOLEAN, seen : BOOLEAN]
Blank == [name |-> "", pos |-> 0, metric |-> 0, fav |-> FALSE, seen |-> FALSE]

\* The entry of n in a map, or Go's zero value.
Lookup(d, n)   == IF n \in DOMAIN d THEN d[n] ELSE Blank
Store(d, n, e) == [m \in DOMAIN d \cup {n} |-> IF m = n THEN e ELSE d[m]]

(***************************************************************************)
(* An update the read loop makes, and the event it is published as.  map   *)
(* is the object a node_directory event refers to.                         *)
(***************************************************************************)
UpdateOf(op, n, name, val) == [op |-> op, node |-> n, name |-> name, val |-> val, frames |-> <<>>]
EventOf(type, n, name, val, fav, map) ==
  [type |-> type, node |-> n, name |-> name, val |-> val, fav |-> fav, map |-> map]

\* What a packet says, <<>> for nothing.  A zero position is none; a zero metric
\* is a record without that field.
When(cond, u)      == IF cond THEN <<u>> ELSE <<>>
ExtractPosition(p) ==
  When(p.port = "position" /\ p.val # 0, UpdateOf("position", p.node, "", p.val))
ExtractTelemetry(p) == When(p.port = "telemetry", UpdateOf("metric", p.node, "", p.val))
ExtractSignal(p)    == When(p.rssi # 0, UpdateOf("metric", p.node, "", p.rssi))
ExtractNodeInfo(p)  == When(p.port = "nodeinfo", UpdateOf("node", p.node, p.name, 0))

\* The updates readLoop makes of one packet, in its order.
UpdatesOf(p) ==
  ExtractPosition(p) \o ExtractTelemetry(p) \o ExtractSignal(p) \o ExtractNodeInfo(p)

\* The directory of a config sequence: the last frame of a node counts, a frame
\* without a number does not.
ExtractNodeDirectory(frames) ==
  [n \in {f.num : f \in ToSet(frames)} \ {0} |->
     LET f == frames[CHOOSE i \in DOMAIN frames :
                       /\ frames[i].num = n
                       /\ \A j \in DOMAIN frames : frames[j].num = n => j <= i]
     IN  [name |-> f.name, pos |-> f.pos, metric |-> f.metric, fav |-> f.fav, seen |-> FALSE]]

VARIABLES
  maps,      \* the map objects ever installed; the last one is m.nodeDir
  relayDir,  \* the index from the last byte of a number to numbers
  todo,      \* updates of the frame the read loop has in hand
  evt,       \* the event the read loop is about to publish (<<>> or <<e>>)
  fav,       \* per favourite request, the event it is about to publish
  stream,    \* handleSSE: "off", "subscribed", "loop", "encoding"
  queue,     \* its channel
  hand,      \* while encoding: the map object and what it held at the start
  view,      \* nodeDir of the browser
  crashed,   \* the runtime found a map written while it was iterated
  missed,    \* history: an event of this stream never reached the view
  raced,     \* history: nodes whose favourite changed while an update was under way
  reads, configs, favorites, connects   \* counters for the bounds

dirVars    == <<maps, relayDir>>
readerVars == <<todo, evt>>
streamVars == <<stream, queue, hand, view>>
counters   == <<reads, configs, favorites, connects>>
vars == <<maps, relayDir, todo, evt, fav, stream, queue, hand, view,
          crashed, missed, raced, reads, configs, favorites, connects>>

nodeDir == maps[Len(maps)]

Init ==
  /\ maps = <<<<>>>> /\ relayDir = <<>>
  /\ todo = <<>> /\ evt = <<>> /\ fav = [h \in Handler |-> <<>>]
  /\ stream = "off" /\ queue = <<>> /\ hand = <<>> /\ view = <<>>
  /\ crashed = FALSE
  /\ missed = FALSE /\ raced = {}
  /\ reads = 0 /\ configs = 0 /\ favorites = 0 /\ connects = 0

(***************************************************************************)
(* The relay index.                                                        *)
(***************************************************************************)
RelayKey(n) == n % 256

\* The numbers listed under a byte: a bag, as their order depends on the order
\* in which Go ranges over a map.
IndexAdd(r, n) ==
  LET k == RelayKey(n)
  IN  [b \in DOMAIN r \cup {k} |->
         (IF b \in DOMAIN r THEN r[b] ELSE EmptyBag)
           (+) (IF b = k THEN SetToBag({n}) ELSE EmptyBag)]

IndexOf(d) ==
  [b \in {RelayKey(n) : n \in DOMAIN d} |-> SetToBag({n \in DOMAIN d : RelayKey(n) = b})]

(***************************************************************************)
(* A write to m.nodeDir while the stream iterates over the same map: the   *)
(* Go runtime ends the process when it notices, and it may not notice.     *)
(***************************************************************************)
BeingEncoded == stream = "encoding" /\ hand.map = Len(maps)

WriteNodeDir(d) ==
  /\ maps' = [maps EXCEPT ![Len(maps)] = d]
  /\ crashed' \in (IF BeingEncoded THEN BOOLEAN ELSE {FALSE})

\* publish, to the one subscriber: an event a full channel does not take is
\* dropped.
Subscribed == stream # "off"

Deliver(e) ==
  LET taken == Len(queue) < Buffer
  IN  /\ queue'  = IF Subscribed /\ taken THEN Append(queue, e) ELSE queue
      /\ missed' = (missed \/ (Subscribed /\ ~taken))

(***************************************************************************)
(* The read loop.                                                          *)
(***************************************************************************)
Idle == todo = <<>> /\ evt = <<>>

ReadPacket(p) ==
  /\ ~crashed /\ Idle /\ reads < MaxPackets
  /\ todo' = UpdatesOf(p)
  /\ reads' = reads + 1
  /\ UNCHANGED <<dirVars, evt, fav, streamVars, crashed, missed, raced,
                 configs, favorites, connects>>

\* A config_complete_id ends a sequence: its directory is extracted, then set.
ReadConfig(c) ==
  /\ ~crashed /\ Idle /\ configs < MaxConfigs
  /\ todo' = <<[UpdateOf("directory", 0, "", 0) EXCEPT !.frames = c]>>
  /\ configs' = configs + 1
  /\ UNCHANGED <<dirVars, evt, fav, streamVars, crashed, missed, raced,
                 reads, favorites, connects>>

Doing(op) == ~crashed /\ evt = <<>> /\ todo # <<>> /\ Head(todo).op = op

\* What an entry keeps of the one it replaces.
KeepSeenOnly(old, new) == [new EXCEPT !.seen = old.seen \/ new.seen]
KeepRuntime(old, new) == [new EXCEPT !.seen = old.seen \/ new.seen,
                                     !.fav  = old.fav  \/ new.fav]

SetNodeDirectory ==
  /\ Doing("directory")
  /\ LET new == ExtractNodeDirectory(Head(todo).frames)
         dir == [n \in DOMAIN new |->
                   IF n \in DOMAIN nodeDir THEN KeepRuntime(nodeDir[n], new[n]) ELSE new[n]]
     IN  /\ maps' = Append(maps, dir)
         /\ relayDir' = IndexOf(dir)
  /\ evt' = <<EventOf("node_directory", 0, "", 0, FALSE, Len(maps) + 1)>>
  /\ raced' = raced \cup {fav[h][1].node : h \in {g \in Handler : fav[g] # <<>>}}
  /\ UNCHANGED <<todo, fav, streamVars, crashed, missed, counters>>

\* updateNodeEntry, with the entry its caller's function makes of the old one;
\* the event carries the names of the entry.
UpdateNodeEntry(op, new) ==
  LET u == Head(todo)
  IN  /\ WriteNodeDir(Store(nodeDir, u.node, [new EXCEPT !.seen = TRUE]))
      /\ evt' = <<EventOf(op, u.node, new.name, u.val, FALSE, 0)>>
      /\ UNCHANGED <<relayDir, todo, fav, streamVars, missed, raced, counters>>

HeadEntry == Lookup(nodeDir, Head(todo).node)

UpdateNodePosition ==
  /\ Doing("position")
  /\ UpdateNodeEntry("position", [HeadEntry EXCEPT !.pos = Head(todo).val])

\* UpdateNodeTelemetry and UpdateNodeSignal: a zero leaves the field alone.
UpdateNodeMetric ==
  /\ Doing("metric")
  /\ UpdateNodeEntry("metric",
       [HeadEntry EXCEPT !.metric = IF Head(todo).val = 0 THEN @ ELSE Head(todo).val])

IndexedAlways(n) == IndexAdd(relayDir, n)
IndexedIfNew(n)  == IF n \in DOMAIN nodeDir THEN relayDir ELSE IndexAdd(relayDir, n)

UpsertNode ==
  /\ Doing("node")
  /\ LET u   == Head(todo)
         new == [HeadEntry EXCEPT !.seen = TRUE, !.name = IF u.name = "" THEN @ ELSE u.name]
     IN  /\ WriteNodeDir(Store(nodeDir, u.node, new))
         /\ relayDir' = IndexedIfNew(u.node)
         /\ evt' = <<EventOf("node_update", u.node, u.name, 0, FALSE, 0)>>
  /\ UNCHANGED <<todo, fav, streamVars, missed, raced, counters>>

PublishUpdate ==
  /\ ~crashed /\ evt # <<>>
  /\ Deliver(evt[1])
  /\ evt' = <<>> /\ todo' = Tail(todo)
  /\ UNCHANGED <<dirVars, fav, stream, hand, view, crashed, raced, counters>>

(***************************************************************************)
(* POST /api/favorite.  A request for an unknown node changes nothing.     *)
(***************************************************************************)
Overlapping(n) ==
  \/ evt # <<>> /\ evt[1].node = n
  \/ \E h \in Handler : fav[h] # <<>> /\ fav[h][1].node = n

SetFavorite(h, n, f) ==
  /\ n \in DOMAIN nodeDir
  /\ WriteNodeDir(Store(nodeDir, n, [nodeDir[n] EXCEPT !.fav = f]))
  /\ fav' = [fav EXCEPT ![h] = <<EventOf("node_favorite", n, "", 0, f, 0)>>]

handleAPIFavorite(h, n, f) ==
  /\ ~crashed /\ fav[h] = <<>> /\ favorites < MaxFavorites
  /\ SetFavorite(h, n, f)
  /\ raced' = IF Overlapping(n) THEN raced \cup {n} ELSE raced
  /\ favorites' = favorites + 1
  /\ UNCHANGED <<relayDir, readerVars, streamVars, missed, reads, configs, connects>>

PublishNothing(h) == UNCHANGED <<queue, missed>>
PublishFavoriteEvent(h) == Deliver(fav[h][1])

PublishFavorite(h) ==
  /\ ~crashed /\ fav[h] # <<>>
  /\ PublishFavoriteEvent(h)
  /\ fav' = [fav EXCEPT ![h] = <<>>]
  /\ UNCHANGED <<dirVars, readerVars, stream, hand, view, crashed, raced, counters>>

(***************************************************************************)
(* handleSSE and the browser.                                              *)
(***************************************************************************)
Connect ==
  /\ ~crashed /\ stream = "off" /\ connects < MaxConnects
  /\ stream' = "subscribed"
  /\ connects' = connects + 1
  /\ UNCHANGED <<dirVars, readerVars, fav, queue, hand, view, crashed, missed, raced,
                 reads, configs, favorites>>

\* The initial node_directory: a copy made under the read lock.
NodeDirectoryCopy == nodeDir

SendInitial ==
  /\ ~crashed /\ stream = "subscribed"
  /\ stream' = "loop" /\ view' = NodeDirectoryCopy
  /\ UNCHANGED <<dirVars, readerVars, fav, queue, hand, crashed, missed, raced, counters>>

Received(type) == ~crashed /\ stream = "loop" /\ queue # <<>> /\ Head(queue).type \in type

\* The browser's handlers.  updateMapNode, updateNodeTelemetry and
\* updateNodeSignal create a node they do not know with the event's names;
\* updateNodeInfo creates one, too; the favourite of an unknown node is ignored.
Patched(entry, e) ==
  LET seen == [entry EXCEPT !.seen = TRUE]
  IN  CASE e.type = "position"      -> [seen EXCEPT !.pos = e.val]
        [] e.type = "metric"        -> [seen EXCEPT !.metric = IF e.val = 0 THEN @ ELSE e.val]
        [] e.type = "node_update"   -> [seen EXCEPT !.name = IF e.name = "" THEN @ ELSE e.name]
        [] e.type = "node_favorite" -> [entry EXCEPT !.fav = e.fav]

AppliedToKnown(v, e) ==
  IF e.node \in DOMAIN v THEN [v EXCEPT ![e.node] = Patched(@, e)] ELSE v

Applied(v, e) ==
  LET known == e.node \in DOMAIN v
      entry == IF known THEN v[e.node] ELSE [Blank EXCEPT !.name = e.name]
  IN  IF e.type = "node_favorite" /\ ~known THEN v ELSE Store(v, e.node, Patched(entry, e))

\* While paused the browser ignores all node events but directories and
\* favourites.  The user presses the button at any time: an event may find it
\* either way.
Ignored(e) == IF e.type \in {"position", "metric", "node_update"} THEN BOOLEAN ELSE {FALSE}

SendEvent ==
  /\ Received({"position", "metric", "node_update", "node_favorite"})
  /\ LET e == Head(queue)
     IN  \E ignored \in Ignored(e) :
           /\ view'   = IF ignored THEN view ELSE Applied(view, e)
           /\ missed' = (missed \/ ignored)
  /\ queue' = Tail(queue)
  /\ UNCHANGED <<dirVars, readerVars, fav, stream, hand, crashed, raced, counters>>

\* json.Marshal of a published map iterates over it without nodeDirMu.  What was
\* missed no longer matters when it is the current directory and no older event
\* follows it.
EncodeDirectory ==
  /\ Received({"node_directory"})
  /\ LET i == Head(queue).map
     IN  /\ hand' = [map |-> i, was |-> maps[i]]
         /\ missed' = (missed /\ ~(i = Len(maps) /\ Len(queue) = 1))
  /\ stream' = "encoding" /\ queue' = Tail(queue)
  /\ UNCHANGED <<dirVars, readerVars, fav, view, crashed, raced, counters>>

\* Each entry is read at some moment of the iteration: some were read before a
\* concurrent write, some after it, and a key added meanwhile may be missed.
SendDirectory ==
  /\ ~crashed /\ stream = "encoding"
  /\ LET now == maps[hand.map]
     IN  \E old \in SUBSET {n \in DOMAIN now : n \notin DOMAIN hand.was \/ now[n] # hand.was[n]} :
           view' = [n \in {m \in DOMAIN now : m \in old => m \in DOMAIN hand.was} |->
                      IF n \in old THEN hand.was[n] ELSE now[n]]
  /\ stream' = "loop" /\ hand' = <<>>
  /\ UNCHANGED <<dirVars, readerVars, fav, queue, crashed, missed, raced, counters>>

\* The request's context ends: Unsubscribe.  The browser keeps its view and
\* connects again.
Disconnect ==
  /\ ~crashed /\ stream = "loop"
  /\ stream' = "off" /\ queue' = <<>> /\ missed' = FALSE
  /\ UNCHANGED <<dirVars, readerVars, fav, hand, view, crashed, raced, counters>>

Next ==
  \/ \E p \in Packet : ReadPacket(p)
  \/ \E c \in Config : ReadConfig(c)
  \/ SetNodeDirectory \/ UpdateNodePosition \/ UpdateNodeMetric \/ UpsertNode
  \/ PublishUpdate
  \/ \E h \in Handler, n \in Node, f \in BOOLEAN : handleAPIFavorite(h, n, f)
  \/ \E h \in Handler : PublishFavorite(h)
  \/ Connect \/ SendInitial \/ SendEvent \/ EncodeDirectory \/ SendDirectory
  \/ Disconnect

Spec == Init /\ [][Next]_vars

(***************************************************************************)
(* Properties.                                                             *)
(***************************************************************************)
EventType == [type : {"node_directory", "position", "metric", "node_update", "node_favorite"},
              node : Node \cup {0}, name : Name, val : Amount, fav : BOOLEAN,
              map : 0 .. MaxConfigs + 1]

IsDirectory(d) == DOMAIN d \subseteq Node /\ \A n \in DOMAIN d : d[n] \in Entry

\* Type correctness; relayDir has byte keys (node_directory.go:10, 199).
TypeOK ==
  /\ maps # <<>> /\ \A i \in DOMAIN maps : IsDirectory(maps[i])
  /\ DOMAIN relayDir \subseteq 0 .. 255
  /\ \A b \in DOMAIN relayDir : BagToSet(relayDir[b]) \subseteq Node
  /\ \A i \in DOMAIN queue : queue[i] \in EventType
  /\ \A i \in DOMAIN evt : evt[i] \in EventType
  /\ \A h \in Handler : \A i \in DOMAIN fav[h] : fav[h][i] \in EventType
  /\ Len(queue) <= Buffer /\ Len(evt) <= 1 /\ Len(todo) <= 2
  /\ stream \in {"off", "subscribed", "loop", "encoding"}
  /\ IsDirectory(view)
  /\ crashed \in BOOLEAN /\ missed \in BOOLEAN /\ raced \subseteq Node
  /\ reads \in 0 .. MaxPackets /\ configs \in 0 .. MaxConfigs
  /\ favorites \in 0 .. MaxFavorites /\ connects \in 0 .. MaxConnects

\* "Runtime-only fields ... must survive a full directory replacement"
\* (node_directory.go:15-17): a node of both directories stays seen, and stays
\* a favourite unless a request clears it.
RuntimeFieldsSurvive ==
  [][LET old == nodeDir
         new == nodeDir'
     IN  \A n \in DOMAIN old \cap DOMAIN new :
           /\ old[n].seen => new[n].seen
           /\ old[n].fav /\ ~new[n].fav => favorites' # favorites]_vars

\* The relay index names a node at most once, under its last byte, and only
\* nodes of the directory, through swaps and upserts (node_directory.go:7-12,
\* 197-201): ResolveRelay repeats no one.
RelayIndexSound ==
  \A b \in DOMAIN relayDir :
    \A n \in BagToSet(relayDir[b]) :
      relayDir[b][n] = 1 /\ n \in DOMAIN nodeDir /\ n % 256 = b

\* Types and RelayIndexSound.
DirectoryInv == TypeOK /\ RelayIndexSound

Settled == ~crashed /\ Idle /\ stream = "loop" /\ queue = <<>> /\ \A h \in Handler : fav[h] = <<>>

\* A browser that missed no event shows the directory once all updates are
\* delivered, although its initial copy, the events queued since it subscribed
\* and the maps encoded without the lock overlap in every way
\* (server.go:485-527, app.js:186-213).
ViewCatchesUp ==
  Settled /\ ~missed =>
    /\ DOMAIN view = DOMAIN nodeDir
    /\ \A n \in DOMAIN view : [view[n] EXCEPT !.fav = FALSE] = [nodeDir[n] EXCEPT !.fav = FALSE]

\* "Publish update so all SSE clients see the change" (node_directory.go:220):
\* the favourites of such a browser are right, too, but for a node whose
\* favourite was changed while an update of it or a swap was between its lock
\* and its publish.
FavoriteIsShown ==
  Settled /\ ~missed =>
    \A n \in (DOMAIN view \cap DOMAIN nodeDir) \ raced : view[n].fav = nodeDir[n].fav
=============================================================================
