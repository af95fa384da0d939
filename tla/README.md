# A TLA+ model of meshtastic-proxy

meshtastic-proxy holds the one TCP connection a Meshtastic node accepts and
shares it among many clients; a web dashboard shows and controls it.  The
models are of its Go code and of the JavaScript of the dashboard; line numbers
are those of the files under `src/`.  `PROJECT.json` maps every
definition to the lines it models, and lists the runs, the mutants each
property was tried on, the findings, the hazards and the theorems.

## 1. Inventory

| component | state | operations | talks to |
|---|---|---|---|
| hub, `internal/proxy/proxy.go` | `clients` behind the RWMutex `mu`, `chatCache` behind `chatMu`, the wait group | `Run`, `handleNewConnection`, `unregisterClient`, `closeAllClients`, `broadcastLoop`, `broadcast`, `broadcastToOthers`, `cacheTextMessage`, `cacheACK` | clients (`Send`, `Close`, callbacks), node connection (`FromNode`, `Send`, `ConfigCache`, `MyNodeNum`), metrics |
| client, `internal/proxy/client.go` | the connection, the `send` channel, `closeOnce`, `disconnectReason`, a context | `Run`, `Start`, `Wait`, `readLoop`, `writeLoop`, `Send`, `Close` | the hub through `onMessage` and `onClose` |
| config replay, `internal/proxy/config_replay.go` | `replayMu` and `configPhase` of each client | `replayCachedConfig`, `filterConfigCache`, `replayChatHistory`, `shouldReplayChat` | node connection (cache), client (`Send`) |
| node link, `internal/node/connection.go` | the socket, `toNode`, `fromNode`, the backoff, `NodeConnected` | `Run`, `runConnection`, `readLoop`, `writeLoop`, `heartbeatLoop`, `drainChannels`, `Send`, `RequestConfigRefresh` | the node, the hub, the web server |
| config cache, `internal/node/connection.go`, `extract.go` | `configCache` behind `configMu`, `myNodeNum`; per read loop `configFrames` and `collectingConfig` | collection in `readLoop`, the swap, `UpsertCachedNodeInfo` | read by replays; metrics |
| extraction and decoding, `internal/node/extract.go`, `decode.go` | none | classify and decode packets | node link |
| metrics, `internal/metrics` | counters, ring buffers, subscribers, node directory | `Publish*`, `Subscribe`, `Snapshot`, `SetNodeDirectory`, `UpsertNode`, ... | everyone writes, the web server and the bot subscribe |
| framing, `internal/protocol/frame.go` | none | `ReadFrame`, `WriteFrame` | both kinds of connection |
| web server, `internal/web/server.go` | none besides subscriptions | dashboard, SSE, chat, node actions | node link, metrics |
| dashboard: stream and chat, `static/app.js`, `chat.js` | the EventSource and its delay, `paused`, `allChatMessages` and its elements, `activeChannel`, the input field | `connectSSE`, `loadChatHistory`, `appendChatMessage`, `selectChannel`, `sendMessage`, ... | web server (events, requests) |
| dashboard: traceroute, `static/app.js`, `nodes.js` | `pendingTraceroute`, `traceCooldown`, timers, buttons, `traceHistoryData` | `startTraceroute`, its timeout and failure, `handleTracerouteResult`, `startCooldown`, the history panel | web server; table and map |
| dashboard: nodes, `static/app.js`, `nodes.js`, `utils.js` | `nodeDir`, table, `mapMarkers`, heatmap, the filters and boxes of both views | one handler per event, tabs, filters, favourites | web server; each other through `Mesh.bus` |
| Telegram bridge, `internal/telegram` | a subscription | forwards chat messages over HTTP | metrics |
| mDNS advertiser, `internal/discovery` | the running servers | start, stop, roll back | none |
| configuration, `internal/config`, and `cmd/meshtastic-proxy/main.go` | none | parse, start all, stop all | all |

What is hard in it:

* **Many goroutines per client.**  A client has a read loop, a write loop, a
  goroutine that waits for both, and one goroutine per `want_config_id`.  All
  of them, the broadcast loop, the read loops of *other* clients (echo) and the
  shutdown may call `Close` on it, and `Close` takes the hub's lock.
* **Shared channels that outlive connections.**  `runConnection` cancels its
  loops and does not wait for them, so two generations of loops may use
  `toNode`, `fromNode` and the config cache at once.
* **Order without a common lock.**  Chat cache, registry and send buffers have
  three locks; whether a text reaches a client depends on the order in which
  the sender, the broadcast and the replay touch them.
* **Copies that trail what they copy.**  Updates of the node directory and of
  the histories are published after their lock is left.  A browser starts from
  a copy, applies the events queued meanwhile, and sometimes receives a map that
  is still being written.
* **Callbacks that outlive what they were set for.**  In the dashboard every
  handler runs to its end, but timers, requests and the event stream come back
  in any order to globals that others have changed meanwhile.
* **Two views of one copy.**  Table and map follow the same directory through
  different handlers, some of which return early, and each has filters whose
  boxes come and go with the directory.
* **Failure at every I/O.**  A peer may stall, break or leave; a buffer may be
  full; the node may drop the connection anywhere; the process may be told to
  stop at any moment.

What makes each modelled component correct:

* hub: the registry never changes under a range loop; a client that is done
  leaves; shutdown leaves nothing behind;
  a text of the mesh reaches everyone, by replay or by broadcast; an ACK finds
  its message;
* replay: every answer is one whole config, never a mix of two; the second iOS
  phase brings the chat;
* config cache: always one whole config sequence, each node once, with the
  latest identity heard and everything only the node knows;
* node link: nothing is lost or reordered while a connection lives; a lost
  connection is given up, its loops end, and the link reconnects;
* node directory: a swap keeps favourites and what was heard; the relay index
  stays in step; a browser that got every event shows what the proxy knows;
* event bus: nobody sends on a closed channel; no subscriber holds up a
  publisher; a stream has no gap; the bot forwards each message once, without
  echoes;
* chat page: list, elements, badges and note agree; what was not ignored
  arrives; a message is sent once; no failure leaves the page dead;
* traceroute: one trace at a time, spaced by 30 seconds; every callback finds
  its own trace; the slot always comes free again, and so do the buttons of a
  table on show; the history lists every result that reached it;
* nodes: map, table and boxes show the directory and the filters; favourites
  become the server's, but for races that are listed.

## 2. Modules

| module | models | proofs |
|---|---|---|
| `MeshFrames` | the frames, and the pure functions on them (`isConfigFrame`, `filterConfigCache`, `toRadioToFromRadio`, ...) | |
| `ClientHub` (`MCClientHub`) | hub, clients and replays, composed: they share locks and call each other | `ClientHubProofs` |
| `ConfigCache` (`MCConfigCache`) | how read loops build, swap and patch the cache | `ConfigCacheProofs` |
| `NodeLink` | `Run`, the loops of successive connections and the two channels | `NodeLinkProofs` |
| `NodeDirectory` (`MCNodeDirectory`) | the directory, favourites, one event stream and the browser's copy | `NodeDirectoryProofs` |
| `EventBus` (`MCEventBus`) | publishers, ring buffers, streams and the Telegram bot | `EventBusProofs` |
| `DashboardChat` (`MCDashboardChat`) | the page's event stream and the chat | `DashboardChatProofs` |
| `TraceSlot` | abstract: the one slot for traceroutes | |
| `DashboardTrace` | the traceroutes of a page, with buttons, history and map; implements `TraceSlot` | `DashboardTraceProofs` |
| `DashboardNodes` (`MCDashboardNodes`) | the page's copy of the directory, its table and its map | `DashboardNodesProofs` |

### ClientHub

A goroutine that takes `p.mu` or calls `Client.Close` is a *thread*: the
acceptor (`Proxy.Run`), the broadcaster, and of every client its reader, its
waiter (the goroutine of `client.Run`) and its replayers.  `pc[t]` is the place
of a thread; the write loop, which does neither, has the simpler `writer[c]`.
A step is one critical section, one channel operation or one I/O call.

* **`p.mu`** is the Go RWMutex: `rlocked` are its readers, `pending` a writer
  that waits for them.  A waiting writer keeps new readers out.  Sections under
  the write lock never block, so each is one step (`RegisterClient`,
  `RejectConn`, `Unregister`); the count stored after the lock is a second step
  (`StartClient`, `StoreCount`).  Sections under the read lock do block (they
  call `Send`, which may `Close`), so they are several (`RLock`, `SendNext`,
  `RUnlock`).
* **`Close`** is a subroutine of every thread (`CloseBegin`, `LockWaits`,
  `Unregister`, `StoreCount`) with `once[c]` for its `sync.Once`: a second
  caller waits for the first.
* **`send`** is the history of a client's channel and `taken` how much of it
  the write loop received; their difference is the buffer.
* **The write loop** may block in a write (`WriteBlocks`), because client.go
  sets no write deadline; the write ends when the peer reads on, breaks, or this
  side closes (`WriteUnblocks`).
* **The node connection** is the environment: `LearnNodeNum`,
  `ReplaceConfigCache`, `ReceiveFrame`; `ForwardToNode` may drop a message, as
  `nodeConn.Send` does when its channel is full.

### ConfigCache

One read loop per connection (`at`, `hand`, `collecting`, `frames`), the shared
`configCache`, and `heard`, a history variable: the NODEINFO_APP packets since
the last swap.  `HandleMyInfo`, `HandleConfigComplete` and `HandleOther` are the
branches of `readLoop`; the last one calls `UpsertCachedNodeInfo`.  A frame
keeps its identity (`user`) and all else a node_info holds (`rest`) apart,
because the merge treats them differently.

### NodeLink

`run` is the place of `Run`; the loops of connection `e` are `reader[e]`,
`writer[e]` and `heart[e]`.  `drainChannels` takes two steps per frame, the
test of the length and the receive, as the code does.  A frame is the pair of
its connection and its number on it; what the clients send is just a frame.
`hubLog` is a history variable.

### NodeDirectory

The read loop turns a frame into updates (`todo`) and makes each in two steps,
the section under `nodeDirMu` (`SetNodeDirectory`, `UpdateNodePosition`,
`UpdateNodeMetric`, `UpsertNode`) and the publish of its event (`PublishUpdate`).
A favourite request does the same from its own goroutine (`handleAPIFavorite`,
`PublishFavorite`).  A Go map is an object: `maps` are those ever installed, the
last one is `m.nodeDir`, and a `node_directory` event names one.  The stream
encodes it in two steps (`EncodeDirectory`, `SendDirectory`), without the lock:
what it writes mixes entries from before and after a concurrent write, and such
a write may end the process (`crashed`), as the Go runtime may or may not notice
it.  The browser applies an event when it is written, because nothing reorders
the stream; an event may find it paused (`Ignored`) or not.  History variables:
`missed`, an event of this stream was dropped or
ignored while paused; `raced`, nodes whose favourite changed while another
update of them was between its lock and its publish.

### EventBus

A recorder (`rpc`, `hand`) appends to a ring buffer, takes `subMu` for reading
(`PublishRLock`), tries to send to each subscriber (`PublishTo`) and leaves the
lock.  `pending[r]` is what its range loop has left.  A subscriber (`st`) is a
stream, which sends the chat and traceroute histories and then its events, or
the bot, which filters and forwards.  `Unsubscribe` and `CloseChannel` are two
steps, as the channel is closed outside the lock.  `got`, `dropped`,
`forwarded` and `failed` are history variables.

### DashboardChat

The server is what the page sees of it: a ring, and a subscription made before
the history is copied (`Subscribe`, `SendHistory`).  `queue` is what has been
written and not yet handled; a break keeps a prefix of it and ends in the error
event.  `conn` and `delay` are the EventSource and `reconnectDelay`.  The stream
is opened while the page loads, so `LoadScript`, the moment chat.js has run, may
come after the first events.  `all` and `dom` are kept apart, as the code keeps
them.  `missed` is a history variable: of this stream something was dropped or
ignored.

### DashboardTrace and TraceSlot

Timers, intervals and requests are sets of the traces whose callbacks the
browser still holds; each callback carries what it captured, and reads
`pendingTraceroute` and `traceCooldown` when it runs.  Time is `age`, the seconds
since each start.  A timer fires when its trace is `Window` seconds old, not
necessarily at once; a request may be settled at any time.

The stream is opened by app.js, before nodes.js has defined the history panel
and the table: until `LoadScript` nobody loads a `trace_history` or appends a
result.  The table is built when its tab is first shown (`ShowNodes`) and built
anew by `RenderTable`; the refresh of every 30 seconds is `RefreshTable`, and
needs a table that was set up and a tab on show, as in nodes.js:638.  The server
records a result and publishes it in two steps (`PublishTraceroute`, `publish`);
the channel, which holds events of all kinds, may be full at any of them.
History variables: `freed`, traces pending when a request failed; `missed`,
results of the ring that this stream has lost, because the channel was full or
because they came before nodes.js.  The buttons are those of the table; the
buttons of the map's popups (app.js:576-594) are not modelled.

`TraceSlot` says what all that amounts to: a slot that is free, held by a trace
of a node, or held by the cooldown of that node, and that comes free again.  The
refinement mapping `SlotNow` reads the two globals; the run checks
`Slot!Spec`, fairness included.

### DashboardNodes

`dir` and `favs` are `nodeDir`.  Each event has an action of its own, since they
differ in what they refresh: `updateMapNode` and `updateMapMarkers` return early
without a map, `updateNodeSignal` does not apply the filters again,
`updateNodeInfo` does not rebuild the boxes of the map.  `nodesChanged` stands
for the two events of `Mesh.bus` and the listeners of nodes.js.

Favourites go through the server.  A request, of this page or of another, sets
the flag under the lock (`SetFavorite`) and publishes the event after it
(`publish`), so that two requests may publish in either order; a full channel
drops the event.  A new directory keeps the flags and adds those of the node's
config (`KeptFlags`), and may be dropped too; a new stream (`NewStream`) starts
with a copy and the events published since it subscribed.  The answer to a
request of this page is a step of its own.  History variables: `stale`, nodes
changed since the filters were applied; `apart`, nodes whose favourite the page
may not have right, because of such a race or a drop; `cures`, for every event
under way the nodes it will put right; `base`, the nodes of the last directory
handled.

### Assumptions about the outside

* `NodeMaySend` (ConfigCache): within a sequence the node lists each node once,
  and `config_complete` only ends a sequence.  The proxy asks for full configs
  only.  Without the second part the code would append into the array that
  `configFrames` and `configCache` share after the swap (connection.go:616).
* `Deliverable` (ClientHub): the node acknowledges only what it was sent.
* `PacketIdAssumption` (ClientHub): a text message has its packet id for itself,
  whoever sends it (ids are random 32-bit numbers), and a text of the mesh has
  one.
* `CachesAssumption` (ClientHub): what the node connection caches ends with a
  `config_complete` and holds no other.  `CacheShape` proves it of ConfigCache.
* `Client` objects are never reused: a phone that reconnects is a new member.
  The same goes for the streams of EventBus.
* NodeDirectory has one read loop.  NodeLink shows that the loop of an old
  connection may overlap the next one for a while; section 5 says what that
  means for the directory.

## 3. Runs

| run | instance | checks |
|---|---|---|
| `HubReplay` | 1 client, two messages (iOS requests, a text, heartbeats), 2 caches swapped, a text, an ACK and a config frame of the node, buffer below the replay; fair | `ReplayInv`, `SecondPhaseBringsChat`, `IncomingTextNotLost`, `AckFindsMessage`, `DeadClientLeaves` |
| `HubShutdown` | 2 connections for 1 slot, stalls, losses, write errors, shutdown; fair | `RegistryFrozenWhileRead`, `ClosedIsUnregistered`, `GracefulShutdown`, `ShutdownTerminates`, `DeadClientLeaves`, no deadlock |
| `CacheSequence` | 2 connections, all sequences of up to 6 of 8 frames | `TypeOK`, `CacheIsOneSequence`, `ReplayIsComplete`, `CachedNodesRight`, `PatchKeepsRest` |
| `Link` | 2 connections, 3 frames either way, heartbeats, channels of 1 and 2, a node that may read nothing, shutdown; fair | `LinkInv`, `NothingLostWhileUp`, `LostConnectionEnds` |
| `Directory` | 2 nodes that share a last byte, 2 configs, 1 packet, 2 favourite requests, 1 stream with a channel of 2 | `DirectoryInv`, `ViewCatchesUp`, `FavoriteIsShown`, `RuntimeFieldsSurvive` |
| `Bus` | 2 recorders, an incoming and an outgoing text, 1 stream, the bot, channels and rings of 1; fair | `BotInv`, `NoSendOnClosed`, `HistoryHasNoGap`, `NobodyWaits`, `WantedIsForwarded` |
| `DashChat` | 2 channels, 3 messages, ring and list of 2, 1 fault; fair | `PageInv`, `ChatCatchesUp`, `SendsOnce`, `PageRecovers` |
| `DashTrace` | 2 nodes, a window of 2 seconds, 3 traces, results and lost streams in any mix; fair | `SlotInv`, `TraceListRight`, `ImplementsSlot`, `TracesSpaced`, `ButtonsRecover` |
| `DashNodes` | 2 nodes, 2 roles, 2 directories, 3 events, nodes gone offline, requests or clicks, any tabs and refreshes between them; fair | `MapInv`, `TableTrue`, `FavoritesConverge`, `TableCatchesUp` |
| `HubSlowConsumer` | 1 client, buffer of 1, 2 texts; fair | violates `SlowConsumerLeaves` |
| `HubReplayOverflow` | 1 client, 1 request, a replay of 3 frames, buffer of 2 | violates `ReplayIsSafe` |
| `LinkDrain` | 1 connection, 1 frame; fair | violates `KeepsReconnecting` |

A name that ends in `Inv`, and `CachedNodesRight`, `NobodyWaits`, `SendsOnce`,
`PageRecovers` and `TraceListRight`, are conjunctions of named properties, each
with its own comment in the module.

**What the violations show.**

* `HubSlowConsumer`: `broadcast` holds `p.mu.RLock` and calls `Client.Send`; a
  full buffer makes `Send` call `Close`, whose `onClose` calls
  `unregisterClient` and `p.mu.Lock` on the same goroutine.  It never returns:
  the slow client stays registered, no frame reaches anybody any more, no
  client can register or leave, and shutdown hangs.  `broadcastToOthers` has
  the same form.  The test of this path uses an `onClose` that does not
  unregister the client.  The passing properties name this state as
  `ClosingUnderReadLock`, so that they still say what holds apart from it.
* `HubReplayOverflow`: `replayCachedConfig` queues frame after frame and does not
  wait for the write loop (its one pause is the one for iOS after the own
  node_info, in a config-only request).  A cache longer than
  `client_send_buffer`, 256 by default, can therefore fill the buffer of a client
  that reads all it is sent, and `Send` disconnects it as a slow consumer.  The
  comment of `Start` (client.go:126-129) says that a replay is safe from that.
  The run has a cache one frame longer than the buffer; no peer stalls or fails.
* `LinkDrain`: `for len(ch) > 0 { <-ch }` waits when the hub takes the last
  frame between the two.  `Run` then blocks until some other frame arrives;
  with the link down none comes through `fromNode`.

**Why the bounds are enough.**  The behaviours of interest need at most two
clients (one that acts, one that is acted upon), two connections (one ending,
one starting), two requests of one client, two caches, and a buffer smaller
than what is sent to it.  Each run has those it needs and no more: replays and
the chat cache are checked with one client, whose reader, writer and two replay
goroutines run beside the broadcast, and proved for any number of them
(section 4); the registry and shutdown are checked with two.  In the link two
frames of one connection wait in `fromNode` while a third is in a reader's hand,
so that order matters.  Each
property is broken by a plausible mistake in the code within the same bounds
(the mutants of `PROJECT.json`).  For the directory the cases are a swap, an
update or a favourite at every point of a stream's start and of an encoding;
one packet makes up to two updates, and one stream is enough because a new one
replaces the whole copy.  The bus needs two recorders to overlap in
the read lock, a ring and a channel that overflow, and one subscriber of each
kind.  Traceroutes, samples and other frames take the same path; the instance
records texts only.  The chat page needs a list and a ring that overflow, a
history and a message on either side of everything the user can do, and one
break.  A trace needs a second one to confuse it with, of the same or the other
node, or a result and a lost stream beside it, and a `Window` of two seconds so
that an answer can come with time left, at the last moment, or too late; with
one bound on all three (`MaxInputs`) every mix of them is covered.  The nodes need two roles, one of which may
go, and three steps: two that disturb each other and one that reveals it.

Named bounds: `MaxMsgs`, `MaxWants` (ClientHub), `MaxEpochs` (ConfigCache,
NodeLink), `MaxReads` (ConfigCache), `MaxFrames` (NodeLink: frames read and sent
together), `MaxPackets`, `MaxConfigs`, `MaxFavorites`, `MaxConnects`
(NodeDirectory), `Item` (EventBus: each item is recorded once), `MaxRecords`,
`MaxFaults` (DashboardChat), `MaxInputs` (DashboardTrace: traces, results and
lost streams together), `MaxSteps` (DashboardNodes).
`NodeFrame` is delivered at most once per frame in ClientHub, a bound of its
own.  Where bounds or the hang above stop a behaviour,
deadlock is not checked; in `HubShutdown`, where everything returns, it is.

`HandlerSymmetry` (`Directory`) permutes the favourite requests.  The run checks
no liveness, and nothing in it names a request.

**Fairness.**  In ClientHub a goroutine that can run does, a goroutine waiting
for a lock or for `closeOnce` gets its turn, and I/O on a connection this side
has closed returns.  An idle read ends if `client_idle_timeout` is set.
Nothing makes a peer connect, send or read, or the node deliver.  In NodeLink
also: dial attempts and timers return, the hub keeps receiving, and a read of a
lost connection fails (the read timeout).  A write ends only if the connection
is closed, unless `NodeReads`, which only the `LinkDrain` run uses: there the
node reads on, so that the counterexample owes nothing to a stuck node.  In
EventBus a recorder finishes what it began, the bot's HTTP calls return (its
client has a timeout), and `Unsubscribe` is strongly fair, because a writer that
waits for an RWMutex keeps new readers out.  Nothing makes a browser read.

In the Dashboard modules the browser runs timers that are due, and intervals
fire again and again; the refresh of the table does something only while its tab
is on show, and nothing keeps a user on it.  In DashboardChat the handlers of
events run, every request is settled one way or the other and the server goes on
with a stream it has accepted.  DashboardTrace does without that: there a request
may hang for ever, and no event need be published, delivered or handled.
Nothing makes a user click or a node answer, and nothing prevents a fault.

## 4. Proofs

`ConfigCacheProofs` proves, for every `NodeFrame` set and any number of
connections and reads,

* `TypeCorrect`: `Spec => []TypeOK`;
* `CacheShape`: `Spec => []CacheIsOneSequence`.

The only assumption is `CacheAssumption` (the types of the constants).  In
particular nothing is assumed of the order of the node's frames beyond what
`ReadFrame` says.  `CacheIsOneSequence` alone is not inductive: the swap takes
what a read loop has collected, so one must know that it is a prefix of a
sequence.  The inductive invariant is

    IndInv == TypeOK /\ CollectedIsPrefix /\ HandlingHasFrame /\ OneSequence(configCache)

`CollectedIsPrefix`: while a loop collects, its `configFrames` open with
`my_info` and hold no other `my_info` and no `config_complete`; a `my_info`
restarts the collection and a `config_complete` ends it, which is why this
holds.  `HandlingHasFrame`: a loop that handles a frame has one.
`OneSequence(s)` is the body of `CacheIsOneSequence` as a predicate of a
sequence, so that lemmas can speak of intermediate caches: `MergeInPlace`,
`InsertKeepsShape` and `UpsertKeepsShape` show that every way of patching keeps
it, and `StepIndInv` has one step per action.

It also proves, again from `CacheAssumption` only,

* `NodesRight`: `Spec => []CachedNodesRight`;
* `PatchesKeepRest`: `Spec => PatchKeepsRest`;
* `ReplaysComplete`: `Spec => []ReplayIsComplete`.

    NodesInv == CollectedOnce /\ HandIsNew /\ ListsOnce(configCache) /\ HeardNodeIsCached

That the cache lists a node once needs that a collection does
(`CollectedOnce`), and that a frame just read is not collected yet
(`HandIsNew`), which is what `NodeMaySend` gives.  `MergedAt` and `InsertedIn`
say what the two ways of patching do to each position, and the action property
follows from the same lemmas.

`ReplaysComplete` is about `filterConfigCache`, a loop that picks frames.  The
provers cannot expand `SelectSeq` and have no induction, so `MeshFrames` writes
the loop as a recursive function (`Picked`), and its lemmas go by the least
counterexample: `LeastNatural` (a nonempty set of naturals has a least member)
comes from the well-foundedness of inclusion of finite sets, `UpTo` turns it
into an induction over a *set* of indices, and `PickedUpto`, `PickedAppend` and
`PickedElements` say that the result holds what was picked, in order and nothing
else.

`ClientHubProofs` proves, for any clients, limits, frames and buffers,

* `RegistryFrozen`: `Spec => []RegistryFrozenWhileRead`;
* `ClosedStaysOut`: `Spec => []ClosedIsUnregistered`.

The only assumption here is `HubAssumption`; of it the proof needs that
`NoClient` is no client.  That a closed client is unregistered is not inductive:
a client could be closed between its accept and its registration, and then be
registered after all.  The invariant

    RegistryInv == RegistryTypes /\ TargetsMakeSense /\ NewIsUnknown
                   /\ RegistryFrozenWhileRead /\ ClosedIsUnregistered

says why not: before the acceptor has registered a client nobody else knows of
it (`NewIsUnknown`), so no thread can be closing it; and a thread that stores
the count after unregistering has removed its client (`TargetsMakeSense`).
Most steps touch none of this; `MoveKeepsRegistry` and `QuietKeepsRegistry`
deal with them once, and every other action has a lemma.

* `ShutdownIsGraceful`: `Spec => []GracefulShutdown`.

When `Run` returns it has waited for the waiters of all clients; that nothing
*else* of a client is left is a matter of who outlives whom.  `ShutdownInv`: the
waiter of a client ends after both loops and after its own `Close`
(`WaiterOutlivesLoops`); every connected or registered client has a waiter or is
in the acceptor's hands (`WaiterExists`); and `Close` closes the connection
first (`CloseClosesConn`).

* `AcksFound`: `Spec => []AckFindsMessage`, from `PacketIdAssumption` also.

`ChatInv` follows a text from its reader's hand into the cache and to the node:
a reader echoes and caches what it has read (`EchoesInput`); until it is past
caching, its text is not cached and not forwarded, and no other reader has it
(`TextsOnce`); the node acknowledges only what it was sent (`AckAfterForward`).
So when an ACK arrives, its message is in the cache or has been pushed out.

* `ReplaysWhole`: `Spec => []ReplayInv`;
* `SecondPhase`: `Spec => []SecondPhaseBringsChat`.

These use `CachesAssumption` too: an answer is recognised by its end.

    ReplayIInv == QueueTypes /\ ChatIsNoConfig /\ OutRight /\ OneReplay
                  /\ (every replayer: ReplayerRight)
                  /\ (every open client: QueueWhole /\ PhasesRight)

`ReplaysAreWhole` says that the config frames of a client fall into whole
answers; it is not inductive, because most of the time an answer is under way.
`QueueWhole` says what the queue is then: whole answers, then the front part of
one whose other part is what the replay still has to send (`Progress`).  Only
one replay of a client can be under way, which is what `replayMu` is for
(`OneReplay`), and no other thread sends config frames (`OutRight`,
`ChatIsNoConfig`).  `PhasesRight` ties `configPhase`, set when a replay begins,
to the `config_complete` frames that were sent when it ends; a client whose
replay was cut short is closed, so nothing is claimed of it.  Since all parts
but two are about a single client, `SplitReplay` divides the invariant, and a
step is shown to leave the other clients alone once
(`ReplayerKeepsReplay`, `FrameKeepsReplay`).  `StepCounters` and `StepFlags` add
the types of what is left, so that `ReplayInv` contains the whole of `TypeOK`.

* `TextsArrive`: `Spec => []IncomingTextNotLost`.

`TextInv` says the same as the property from the moment on when a replayer has
copied the history: every text of the mesh in the cache is in the queue of that
client, or in what the replayer has still to send, or in the broadcaster's hand
with the client still to be visited (`TextReached`).  It is the order of two
calls in `broadcastLoop`, first the cache and then the broadcast, that makes
this hold at the moment of the copy; the loop of `replayChatHistory` is unrolled
by the same least counterexample as above (`HistoryOf`).

`EventBusProofs` proves, for any recorders, streams, items, rings and buffers,

* `NoSendAfterClose`: `Spec => []NoSendOnClosed`, from no assumption;
* `NoGap`: `Spec => []HistoryHasNoGap`;
* `BotSound`: `Spec => []BotInv`.

The invariant

    BusInv == BusTypes /\ PendingUnderLock /\ PendingIsListed /\ ListedIsOpen

is the argument the code relies on: only a publisher in the read lock has sends
to make, only to channels still in `m.subscribers`, and those are open, since
`Unsubscribe` deletes under the write lock and closes afterwards.  The other two
add the data (`DataTypes`, `HandFull`, `AtBusy`).

    GapIInv == DataIInv /\ StreamListed /\ ChatCovered /\ TraceCovered

`HistoryHasNoGap` speaks of a stream that has sent both histories; between them
only the chat ring is covered, and the stream must already be listed, since a
recorder that appends to the ring afterwards reaches it only through
`m.subscribers`.

    OnceIInv == DataIInv /\ HandsApart /\ BotApart /\ ForwardedOnce

That nothing is forwarded twice needs that an event is in one place at most on
its way: in one hand, not yet passed to the bot (`Coming`), or in the bot's
channel, or in its hand, or forwarded or failed.  `BusAssumption` says that there
is one bot, as `main` makes one: `forwarded` is one sequence, and two bots would
forward everything twice.

`DashboardTraceProofs` proves, for any nodes, `Window` and number of traces,
results and lost streams, from `TraceAssumption` (the types of the constants),

* `SlotOwned`: `Spec => []SlotInv`;
* `StartsSpaced`: `Spec => TracesSpaced`;
* `RefinesSlot`: `Spec => Slot!Init /\ [][Slot!Next]_SlotNow`, the safety part of
  `ImplementsSlot`.

`OneOwner` is not inductive: `startTraceroute` and the callbacks name nodes and
traces separately, so one must know that they belong together; and the spacing
of traces is about traces that nothing refers to any more.  The invariant

    SlotIInv == SlotTypes /\ OneOwner /\ Linked /\ Spaced

adds both.  `Linked`: what still refers to a trace refers to one that has
started, and to its node.  `Spaced`: a trace younger than `Window` is pending,
or cooling, or was given up.  So a timeout is always that of the pending trace
(`TimeoutIsOfPending`), the interval that of the cooldown
(`IntervalIsOfCooldown`), and the end of a trace leaves its cooldown or finds it
old enough (`CooldownAfterTrace`); the guard of `startTraceroute` does the rest.
The refinement uses the same three facts: the arms of `SlotNow` exclude each
other by `OneOwner`, and each of the seven steps that touch the slot is mapped.

It also proves `TraceList`: `Spec => []TraceListRight`.  That all results are
listed once everything is handled is not inductive; before that, what is missing
is unpublished, in the channel, in the history on its way, or in `missed`:

    ListIInv == SlotIInv /\ PanelTypes /\ RowsPointRight /\ ResultsOnTheirWay

`NodeLinkProofs` proves, for any buffers, intervals and number of connections,
frames and sends, from `LinkAssumption`,

* `LinkSound`: `Spec => []LinkInv`;
* `NothingLost`: `Spec => []NothingLostWhileUp`.

The invariants are

    LinkIInv == TypeOK /\ OnlyNewestLives /\ HandIsLastRead
    FlowIInv == LinkIInv /\ PipeInOrder

`OnlyNewestLives`: old loops may run on, but every connection but the newest is
cancelled, and the newest too unless `Run` is between its dial and its close.
So when `drainChannels` empties `fromNode`, nothing of a living connection is in
it, and the loops of a cancelled one cannot put a frame of a living one out of
order.  `PipeInOrder` speaks of `hubLog \o fromNode`, which a receive by the hub
leaves as it is; the frame in a reader's hand is the next (`HandIsLastRead`).

`DashboardChatProofs` proves, for any channels, texts, list length and faults,
from `ChatAssumption`,

* `PageSound`: `Spec => []PageInv`;
* `SendSound`: `Spec => []SendsOnce`;
* `ChatComplete`: `Spec => []ChatCatchesUp`, from `RingAssumption` also.

    ChatIInv == StreamTypes /\ ListIInv /\ SendIInv

`ListIInv` keeps list and elements in step through every handler that touches
one or both of them, with the badges as cardinalities; `SendIInv` adds to
`SendsOnce` that the field is disabled while a request is under way, which is
why there is no second one.

`ChatCatchesUp` speaks of the moment when everything is delivered; its invariant
`CatchIInv` speaks of the list to come, `Brought`: the list of the page, or the
history that will replace it, with the messages under way behind it.  Such a
list is `Good` in one of two ways.

* `EndsWith`: its last messages are the ring.  So it is when the history was
  empty and the old list stays: what is recorded since comes behind it.
* `TwoRuns`: it is the rest of a history, with consecutive ids, and then all
  messages since the subscription, with consecutive ids too; the second run may
  begin inside the first, as the stream subscribes before it reads the history.
  The list is full or the two reach down to the oldest message of the ring.

A recorded message (`GoodGrows`) and the trim to the limit (`GoodTrimmed`) keep
this.  In the second case a full list of `MaxList` messages holds the newest ids
but for its repeats: the missing messages of the ring are counted by an
injection of the members of the list into their ids (`GoodHolds`), which gives
the bound `Repeats`.  `RingAssumption` says that the server's ring is no longer
than the page's list; in the code both hold 500 (`metrics.go:15`,
`chat.js:193`).

`NodeDirectoryProofs` proves, for any nodes, packets, config sequences, buffer
and number of requests and streams, from `DirectoryAssumption`,

* `DirectorySound`: `Spec => []DirectoryInv`;
* `RuntimeFields`: `Spec => RuntimeFieldsSurvive`;
* `CatchesUp`: `Spec => []ViewCatchesUp`;
* `FavoritesShown`: `Spec => []FavoriteIsShown`.

    DirIInv == ReaderTyped /\ MapsTyped /\ FavTyped /\ StreamTyped /\ CountsTyped /\ IndexRight

That a directory is well formed needs the last frame of a node in a config
sequence to exist; `LeastNatural` derives that from the well-foundedness of
inclusion of finite sets, as no induction over naturals is at hand.  An index
entry is added only for a node not in the directory, hence not yet in the index.

`ViewCatchesUp` speaks of the moment when everything is delivered.  Its invariant
`ViewIInv` says for every moment what is under way, that is, in the channel or
in the read loop's hand:

* `QueueCurrent`: behind the last directory under way, what an event writes is
  what the directory of the proxy holds, or a later event overwrites it; and a
  directory with none behind it is the current map;
* `BaseCurrent`: when no directory is under way, every field of the browser's
  copy (while a map is being encoded: of the map as the encoder found it) is
  right or will be overwritten; a node the browser does not know will be created,
  and the first event that does so brings its name, or a later one does
  (`CreatorNames`).

A write and its event go together (`UpdateWrites`); then publishing (`Grown`),
receiving (`Shifted`) and applying (`AppliedBase`) are each a lemma about any
channel, and so is the mix of old and new entries an encoder may read
(`MixedBase`).

`FavIInv` says the same of favourites, whose events wait with the requests rather
than with the read loop (`PendCurrent`, `QueueFav`, `BaseFav`).  The browser
ignores the favourite of a node it does not know, so it also says that an event
that creates the node goes before (`FavFollows`).  The proof shows what `raced`
is for: a favourite set while the event that creates the node is still in the
read loop's hand, two requests for one node, and a request overtaken by a swap
are the only ways to break it.

`DashboardNodesProofs` proves, for any finite set of nodes, any roles,
directories and number of steps, from `NodesAssumption`,

* `FavoritesRight`: `Spec => []FavoritesConverge`;
* `TableShown`: `Spec => []TableTrue`;
* `TableIsSorted`: `Spec => []TableOrdered`;
* `MapSound`: `Spec => []MapInv`.

`FavoritesConverge` is about the moment when nothing is under way.  `FavIInv`
says for every moment that a node has at most one update still to be published
and that it is the server's last (`UpdateCurrent`), that with none the last event
about the node brings what the server has (`FeedCurrent`), that without such an
event the page has it already (`PageCurrent`), and that an answered request asks
for it (`AnswerCurrent`), but for the nodes in `apart`.  A directory copied after
the race puts such a node right when it is handled: `Healed` nodes, those not in
`apart` or in the `cures` of an event under way, are the ones the first two parts
are about.  There is a lemma for each way the server changes a flag
(`SetFavoriteRight`, `SwapRight`), for the publish that follows or is dropped
(`PublishRight`) and for a new stream (`CopyRight`).  `TabIInv` and `MapIInv` add to the properties what
ties the boxes to the filters; each handler then has a step of its own, since
they differ in what they refresh.  The table is the *choice* of a sorted
sequence, so `TableTrue` would be empty of meaning if there were none:
`SortedRight` constructs one, ranking a node by the number of nodes above it, and
`TableIsSorted` is the consequence.

Only model-checked are the liveness properties (`DeadClientLeaves`,
`ShutdownTerminates`, `LostConnectionEnds`, `NobodyWaits`,
`WantedIsForwarded`, `PageRecovers`, `ButtonsRecover`, `TableCatchesUp`) and the
liveness half of `ImplementsSlot`: fairness and `ENABLED` are out of the
prover's reach.

## 5. Known limits of the code, seen while modelling

These are behaviours of the modelled code that no property of a run states:

* `ActiveClients` is stored after the lock is left (proxy.go:216, 256): two
  updates may be stored in the wrong order and the gauge stays wrong until the
  next change.
* A client whose write is blocked is kept although its read loop has ended,
  whatever `client_idle_timeout` is (client.go:155): `Wait` needs both loops.
  `DeadClientLeaves` names the exception.
* Runtime packets that arrive during a config sequence are collected into the
  cache (connection.go:640) and replayed to every client.
* A node heard while a sequence is being collected is lost at the swap if the
  sequence had already passed it (connection.go:619).  `heard` is reset there.
* `onMessage` echoes a text (proxy.go:184) before it caches it (proxy.go:188).
  A client that registers and is sent the history in between gets it neither
  way.  Incoming texts are cached first, and `IncomingTextNotLost` holds.
* `SetNodeDirectory` publishes the map it has installed (node_directory.go:33).
  A stream encodes it (server.go:521) while the read loop may write it under a
  lock the stream does not hold: the Go runtime may end the process.  The model
  keeps that outcome (`crashed`); `ViewCatchesUp` is about the others.
* `updateNodeEntry` creates entries that are not in the relay index, and a
  NODEINFO_APP packet heard directly creates its node by the signal update
  first, so that `UpsertNode` does not find it new (node_directory.go:72, 198).
  Such a node is not resolved as a relay before the next swap.
  `RelayIndexSound` therefore says nothing is listed wrongly, not that all is.
* A favourite the user cleared returns when the node's config still has it
  (node_directory.go:23-25 never clears one).
* Favourite events of concurrent requests may be published in the opposite
  order, and one may overtake the event that creates its node in a browser
  (`raced` in `FavoriteIsShown`, `apart` in `FavoritesConverge`).  Read loops that
  overlap after a reconnect have the same race, and may publish two directories
  in the opposite order; the models have one read loop.
* A chat message recorded between a stream's `Subscribe` and its history is sent
  twice.  What a full channel drops is not repeated until the next directory or
  reconnect.
* A bot whose `getMe` fails at start-up is off until the process restarts.
* `readCounters` (metrics.go:294) promises a consistent snapshot and loads each
  counter on its own.
* A full `toNode` drops `want_config_id` (connection.go:102); nothing repeats
  it before the next reconnect or refresh.
* `drainChannels` runs before the backoff wait (connection.go:388) and `Send`
  keeps accepting frames: what clients send during the wait is written before
  `want_config_id`, although the comment at 384-387 wants "a clean slate".
* Before the map's tab has been opened, the table is not told of new directories
  and positions (app.js:616, 698), although nodes.js:643 says it is.  It shows
  them at the next refresh, at most 30 seconds later (`TableCatchesUp`).
* The history and messages that arrive before chat.js has run, and messages
  while the page is paused, are not shown before the next reconnection
  (`missed` in `ChatCatchesUp`).  An empty history after a restart of the proxy
  leaves the old messages on the page (chat.js:176).
* A traceroute request that fails late cancels whatever trace is pending by then
  (app.js:932), and a failed one frees the slot without a cooldown (`freed` in
  `TracesSpaced`).  An HTTP error status is not a failure: the trace waits for
  its timeout.
* Results, and the trace history, that arrive before nodes.js has run are not
  listed before the next reconnection (app.js:447, dashboard.html:603-607), nor
  are results a full channel has dropped (`missed` in `TraceListRight`).
* A timeout before nodes.js has run would find no `appendTraceHistory` and keep
  the slot for ever (app.js:911).  It takes a map and a popup opened before the
  last script of the page has loaded and a script that takes 30 seconds more;
  the model starts traces only after it.
* The trace buttons of map popups are enabled and disabled with those of the same
  node in the table, but nothing builds an open popup anew: one that says "Trace
  busy" says so until it is opened again.
* The "no response" entries of the trace history are the page's own and go at the
  next reconnection (nodes.js:612).
* The answer to a favourite request sets the flag this page asked for, even when
  the stream has already told it of a newer one (nodes.js:476): until the next
  directory the page may differ (`apart` in `FavoritesConverge`).  The same goes
  for a node whose event a full channel has dropped.
* Signal and identity updates, and the mere passing of time, do not apply the
  filters of the map again (`stale` in `FiltersApplied`); the boxes of the map do
  not follow a role learnt from `node_update` until the next directory.
* In DashboardChat a message is recorded and published in one step.  Two recorders
  that overlap when the ring is full could make the page miss one message more at
  the limit of 500; EventBus has the two steps apart.
* A `node_directory` event holds the live map and is encoded when the stream comes
  to it (NodeDirectory).  DashboardNodes takes the flags at the publish; an event
  that finds newer ones is followed by the events about them.
* A failed `/api/chat/channels` leaves the sidebar empty for good (chat.js:35).

## 6. Not modelled

Payload decoding and display records, HTTP handlers other than those above and
templates, the Prometheus collector, configuration parsing and logging; of the
dashboard the cards, charts, message list, popups and menus, and the vendored
libraries: formatting or I/O without state that a property could be about.
Framing, the mDNS advertiser and the composition in `main` are in the plan.
`PROJECT.json` lists each with its reason.

## 7. Plan

In this order, the most important behaviour first.  The first eight are done.

1. `ClientHub`: the registry, `Close`, broadcast, replay, chat, shutdown; with
   `ClientHubProofs`.
2. `ConfigCache` with `ConfigCacheProofs`.
3. `NodeLink`.
4. `NodeDirectory`: the swap, favourites, and the copy of a browser.
5. `EventBus` with `EventBusProofs`.
6. `DashboardChat`.
7. `DashboardTrace`, an implementation of the abstract `TraceSlot`.
8. `DashboardNodes`.
9. Theorems: those of section 4.  Every invariant and safety action property of
   a passing run is one; liveness stays with TLC.
10. `FrameCodec` (`internal/protocol/frame.go`): resynchronisation on the byte
   level, checked against a reference definition over short streams.
11. `Advertiser`: the roll-back of a start-up that fails half-way.
12. `System`: `main` with the shutdown of hub, link and web server together,
   composing the modules above at a coarser grain.
13. Further abstract specifications: a *registry* (a bounded set with join and
   leave) that ClientHub refines, and a *reliable channel per connection* that
   NodeLink refines.
