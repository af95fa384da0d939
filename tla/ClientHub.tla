----------------------------- MODULE ClientHub ------------------------------
(***************************************************************************)
(* The proxy hub (internal/proxy): the accept loop, the registry of        *)
(* clients behind the RWMutex p.mu, the broadcast loop, and for every      *)
(* client its read loop, its write loop, the goroutine of client.Run that  *)
(* waits for both, and one goroutine for every want_config_id it sent.     *)
(*                                                                         *)
(* A goroutine that takes p.mu or calls Client.Close is a thread with a    *)
(* program counter; Close is a subroutine any of them may be in.  A member *)
(* of Client is one *Client object, hence one TCP connection: a phone that *)
(* reconnects is a new member.                                             *)
(*                                                                         *)
(* The node connection is the environment: it delivers frames, replaces    *)
(* its config cache, learns the node's number, and accepts or drops what   *)
(* the hub sends.                                                          *)
(***************************************************************************)
EXTENDS Naturals, Sequences, FiniteSets, MeshFrames

CONSTANTS
  Client,        \* the connections ever made to the listener
  NoClient,      \* "no client"
  MaxClients,    \* proxy.max_clients
  SendBuffer,    \* proxy.client_send_buffer: capacity of Client.send
  MaxChatCache,  \* proxy.max_chat_cache (0 disables the cache)
  ReplayChat,    \* proxy.replay_chat_history
  IdleTimeout,   \* proxy.client_idle_timeout is not 0
  NodeNum,       \* the number of the connected node
  NodeFrame,     \* the FromRadio frames the node may deliver, each once
  Caches,        \* the config caches the node connection may hold
  ToRadio,       \* the ToRadio messages a client may send
  Events,        \* which events of the environment may happen
  MaxMsgs,       \* bound: messages read from one client
  MaxWants       \* bound: want_config_id messages among them

ASSUME HubAssumption ==
  /\ IsFiniteSet(Client) /\ NoClient \notin Client
  /\ MaxClients \in Nat \ {0}
  /\ SendBuffer \in Nat \ {0}
  /\ MaxChatCache \in Nat
  /\ ReplayChat \in BOOLEAN
  /\ IdleTimeout \in BOOLEAN
  /\ NodeNum \in Nat \ {0}
  /\ Events \subseteq {"node_config", "shutdown", "peer_lost", "write_error", "peer_stalls"}
  /\ MaxMsgs \in Nat
  /\ MaxWants \in Nat

Frame      == [kind : ConfigKinds \cup RuntimeKinds, id : Nat, from : Nat]
ToRadioMsg == [kind : ToRadioKinds, id : Nat, from : Nat]

ASSUME FrameAssumption ==
  /\ NodeFrame \subseteq Frame
  /\ Caches \subseteq Seq(Frame)
  /\ ToRadio \subseteq ToRadioMsg

\* The messages onMessage forwards to the node.
Forwarded == {m \in ToRadio : isMeshPacket(m) \/ m.kind = "heartbeat"}

\* Packet ids are random 32-bit numbers: a text message has its id for itself,
\* whoever sent it (0 stands for a packet that has none; what comes from the
\* mesh has one).
ASSUME PacketIdAssumption ==
  /\ \A m, n \in Forwarded : m.kind = "text" /\ n.kind # "text" /\ m.id # 0 => m.id # n.id
  /\ \A f \in NodeFrame, m \in Forwarded : f.kind = "text" /\ f.id # 0 => f.id # m.id
  /\ \A f \in NodeFrame : f.kind = "text" => f.id # 0

\* The node connection caches whole config sequences (CacheIsOneSequence of
\* ConfigCache): the config_complete is the last frame and the only one.
ASSUME CachesAssumption ==
  \A cache \in Caches :
    /\ cache # <<>>
    /\ \A i \in DOMAIN cache : cache[i].kind = "config_complete" <=> i = Len(cache)

VARIABLES
  clients,       \* Proxy.clients
  activeClients, \* metrics.ActiveClients
  rlocked,       \* the threads that hold p.mu for reading
  pending,       \* the thread whose p.mu.Lock() waits for readers to leave
  pc,            \* where each thread is
  target,        \* the client a thread registers or closes
  count,         \* a thread's local `count`, read under p.mu, stored later
  todo,          \* the clients a thread's range loop has not visited
  out,           \* the frames a thread still has to send
  input,         \* the ToRadio message a reader is handling (<<>> or <<m>>)
  conn,          \* Client.conn: "none", "open" or "closed"
  once,          \* Client.closeOnce: "new", "running" or "done"
  reason,        \* Client.disconnectReason
  cancelled,     \* the client's own context is cancelled
  writer,        \* the write loop: "off", "run", "blocked" in a write, or "done"
  send,          \* every frame ever put in Client.send
  taken,         \* how many of them the write loop received
  configPhase,   \* Client.configPhase, as a set of phases
  nonce,         \* the nonce a replay goroutine answers
  chatCache,     \* Proxy.chatCache
  configCache,   \* what nodeConn.ConfigCache() returns
  myNodeNum,     \* what nodeConn.MyNodeNum() returns
  toNode,        \* the messages nodeConn.Send accepted
  seen,          \* the frames received from nodeConn.FromNode()
  msgs,          \* how many messages were read from each client
  texts,         \* the ids of the text messages each client sent
  ctxDone        \* the context given to Proxy.Run is cancelled

registryVars == <<clients, activeClients>>
lockVars     == <<rlocked, pending>>
threadVars   == <<pc, target, count, todo, out, input>>
connVars     == <<conn, once, reason, cancelled, writer>>
queueVars    == <<send, taken>>
replayVars   == <<configPhase, nonce>>
nodeVars     == <<configCache, myNodeNum, toNode, seen>>
inputVars    == <<msgs, texts>>
vars == <<registryVars, lockVars, threadVars, connVars, queueVars, replayVars,
          chatCache, nodeVars, inputVars, ctxDone>>

(***************************************************************************)
(* Threads.                                                                *)
(***************************************************************************)
Acceptor       == <<"acceptor", NoClient, 0>>
Broadcaster    == <<"broadcaster", NoClient, 0>>
Reader(c)      == <<"reader", c, 0>>
Waiter(c)      == <<"waiter", c, 0>>
Replayer(c, k) == <<"replayer", c, k>>

Readers   == {"reader"} \X Client \X {0}
Waiters   == {"waiter"} \X Client \X {0}
Replayers == {"replayer"} \X Client \X (1 .. MaxWants)
Thread    == {Acceptor, Broadcaster} \cup Readers \cup Waiters \cup Replayers

Role(t)  == t[1]
Owner(t) == t[2]

Labels == {"off", "accept", "register", "start", "closeall", "wait", "returned",
           "recv", "rlock", "iterate", "top", "read", "cache", "forward",
           "config", "chat", "chatted", "empty", "close", "unregister", "store", "done"}

Reasons == {"", "read_error", "idle_timeout", "slow_consumer", "client_disconnect"}

ChatEntry == [message : Frame, ack : Seq(Frame)]

TypeOK ==
  /\ clients \subseteq Client
  /\ activeClients \in Nat
  /\ rlocked \subseteq Thread
  /\ pending \subseteq Thread
  /\ pc \in [Thread -> Labels]
  /\ target \in [Thread -> Client \cup {NoClient}]
  /\ count \in [Thread -> Nat]
  /\ todo \in [Thread -> SUBSET Client]
  /\ out \in [Thread -> Seq(Frame)]
  /\ input \in [Client -> Seq(ToRadioMsg)]
  /\ conn \in [Client -> {"none", "open", "closed"}]
  /\ once \in [Client -> {"new", "running", "done"}]
  /\ reason \in [Client -> Reasons]
  /\ cancelled \in [Client -> BOOLEAN]
  /\ writer \in [Client -> {"off", "run", "blocked", "done"}]
  /\ send \in [Client -> Seq(Frame)]
  /\ taken \in [Client -> Nat]
  /\ configPhase \in [Client -> SUBSET {"config", "nodes"}]
  /\ nonce \in [Replayers -> Nat]
  /\ chatCache \in Seq(ChatEntry)
  /\ configCache \in Seq(Frame)
  /\ myNodeNum \in Nat
  /\ toNode \subseteq ToRadioMsg
  /\ seen \subseteq Frame
  /\ msgs \in [Client -> Nat]
  /\ texts \in [Client -> SUBSET Nat]
  /\ ctxDone \in BOOLEAN

Init ==
  /\ clients = {} /\ activeClients = 0
  /\ rlocked = {} /\ pending = {}
  /\ pc = [t \in Thread |-> CASE t = Acceptor    -> "accept"
                              [] t = Broadcaster -> "recv"
                              [] OTHER           -> "off"]
  /\ target = [t \in Thread |-> NoClient]
  /\ count = [t \in Thread |-> 0]
  /\ todo = [t \in Thread |-> {}]
  /\ out = [t \in Thread |-> <<>>]
  /\ input = [c \in Client |-> <<>>]
  /\ conn = [c \in Client |-> "none"]
  /\ once = [c \in Client |-> "new"]
  /\ reason = [c \in Client |-> ""]
  /\ cancelled = [c \in Client |-> FALSE]
  /\ writer = [c \in Client |-> "off"]
  /\ send = [c \in Client |-> <<>>]
  /\ taken = [c \in Client |-> 0]
  /\ configPhase = [c \in Client |-> {}]
  /\ nonce = [t \in Replayers |-> 0]
  /\ chatCache = <<>>
  /\ configCache = <<>> /\ myNodeNum = 0 /\ toNode = {} /\ seen = {}
  /\ msgs = [c \in Client |-> 0]
  /\ texts = [c \in Client |-> {}]
  /\ ctxDone = FALSE

(***************************************************************************)
(* Helpers.                                                                *)
(***************************************************************************)
Goto(t, label) == pc' = [pc EXCEPT ![t] = label]

\* p.mu: Lock() needs every reader out, and an announced Lock() keeps new
\* readers out.  The write-locked sections of the hub never block, so each
\* is one step.
CanLock(t) == rlocked = {} /\ pending \subseteq {t}
CanRLock   == pending = {}

\* Client.replayMu: held from the read of the cache to the return.
ReplayMuIgnored(c) == TRUE

ReplayMuFree(c) ==
  \A k \in 1 .. MaxWants : pc[Replayer(c, k)] \in {"off", "wait", "done", "chatted", "empty"}

\* ctx.Err() # nil in the loops of client c: its own context is derived
\* from the context of Proxy.Run.
Cancelled(c) == cancelled[c] \/ ctxDone

\* SetDisconnectReason: only the first reason counts.
WithReason(c, r) == [reason EXCEPT ![c] = IF @ = "" THEN r ELSE @]

\* Client.Send of the first frame of out[t], the thread being at `next` once
\* the frame is queued.  A full buffer makes the client a slow consumer,
\* which the sending thread itself closes.
BufferFull(c) == Len(send[c]) - taken[c] >= SendBuffer

Queue(t, c, next) ==
  /\ ~BufferFull(c)
  /\ send' = [send EXCEPT ![c] = Append(@, Head(out[t]))]
  /\ Goto(t, next)
  /\ UNCHANGED <<reason, target>>

Overflow(t, c) ==
  /\ BufferFull(c)
  /\ reason' = WithReason(c, "slow_consumer")
  /\ target' = [target EXCEPT ![t] = c]
  /\ Goto(t, "close")
  /\ UNCHANGED send

\* The chat cache: a text message is appended and the oldest entries beyond
\* MaxChatCache dropped; an ACK goes to the newest entry of its packet id
\* that has none yet.
cacheTextMessage(cache, f) ==
  LET grown == Append(cache, [message |-> f, ack |-> <<>>])
      n     == Len(grown)
  IN  IF MaxChatCache = 0 THEN cache
      ELSE IF n > MaxChatCache THEN SubSeq(grown, n - MaxChatCache + 1, n)
      ELSE grown

cacheACKOfLast(cache, f) ==
  LET n == Len(cache)
  IN  IF n > 0 /\ cache[n].message.id = f.id /\ cache[n].ack = <<>>
      THEN [cache EXCEPT ![n].ack = <<f>>] ELSE cache

cacheACK(cache, f) ==
  LET open == {i \in DOMAIN cache : cache[i].message.id = f.id /\ cache[i].ack = <<>>}
  IN  IF MaxChatCache = 0 \/ open = {} THEN cache
      ELSE [cache EXCEPT ![CHOOSE i \in open : \A j \in open : j <= i].ack = <<f>>]

\* The frames of replayChatHistory: every message followed by its ACK.
ChatHistory(cache) ==
  LET upto[i \in 0 .. Len(cache)] ==
        IF i = 0 THEN <<>>
        ELSE upto[i - 1] \o <<cache[i].message>> \o cache[i].ack
  IN  upto[Len(cache)]

(***************************************************************************)
(* Client.Close, called by any thread t for target[t].  The first caller   *)
(* closes the connection and unregisters the client; a later caller waits  *)
(* for the first one to finish (sync.Once).                                *)
(***************************************************************************)
\* Where a thread continues when its call of Close returns.
AfterClose(t) ==
  CASE Role(t) = "acceptor"             -> "closeall"
    [] Role(t) \in {"waiter", "replayer"} -> "done"
    [] Role(t) = "broadcaster"          -> "iterate"
    [] OTHER -> IF t \in rlocked THEN "iterate" ELSE "top"

CloseReturns(t) ==
  /\ Goto(t, AfterClose(t))
  /\ target' = [target EXCEPT ![t] = NoClient]
  /\ UNCHANGED <<todo, out, input>>

\* conn.Close()
ConnClosed(c) == [conn EXCEPT ![c] = "closed"]

CloseBegin(t) ==
  /\ pc[t] = "close"
  /\ \/ /\ once[target[t]] = "new"
        /\ once' = [once EXCEPT ![target[t]] = "running"]
        /\ conn' = ConnClosed(target[t])
        /\ Goto(t, "unregister")
        /\ UNCHANGED <<target, todo, out, input>>
     \/ /\ once[target[t]] = "done"
        /\ CloseReturns(t)
        /\ UNCHANGED <<once, conn>>
  /\ UNCHANGED <<registryVars, lockVars, count, reason, cancelled, writer, queueVars,
                 replayVars, chatCache, nodeVars, inputVars, ctxDone>>

\* p.mu.Lock() while readers hold the lock.
LockWaits(t) ==
  /\ pc[t] \in {"register", "unregister"}
  /\ rlocked # {} /\ pending = {}
  /\ pending' = {t}
  /\ UNCHANGED <<registryVars, rlocked, threadVars, connVars, queueVars, replayVars,
                 chatCache, nodeVars, inputVars, ctxDone>>

\* unregisterClient, under the lock.
RemainingForgotten(t) == clients

Remaining(t) == clients \ {target[t]}

UnregisterUnlocked(t) ==
  /\ pc[t] = "unregister"
  /\ clients' = Remaining(t)
  /\ count' = [count EXCEPT ![t] = Cardinality(clients')]
  /\ pending' = {}
  /\ Goto(t, "store")
  /\ UNCHANGED <<activeClients, rlocked, target, todo, out, input, connVars, queueVars,
                 replayVars, chatCache, nodeVars, inputVars, ctxDone>>

Unregister(t) ==
  /\ pc[t] = "unregister"
  /\ CanLock(t)
  /\ clients' = Remaining(t)
  /\ count' = [count EXCEPT ![t] = Cardinality(clients')]
  /\ pending' = {}
  /\ Goto(t, "store")
  /\ UNCHANGED <<activeClients, rlocked, target, todo, out, input, connVars, queueVars,
                 replayVars, chatCache, nodeVars, inputVars, ctxDone>>

\* unregisterClient, after the lock; closeOnce is done when it returns.
StoreCount(t) ==
  /\ pc[t] = "store"
  /\ activeClients' = count[t]
  /\ once' = [once EXCEPT ![target[t]] = "done"]
  /\ CloseReturns(t)
  /\ UNCHANGED <<clients, lockVars, count, conn, reason, cancelled, writer, queueVars,
                 replayVars, chatCache, nodeVars, inputVars, ctxDone>>

(***************************************************************************)
(* The accept loop: Proxy.Run and handleNewConnection.                     *)
(***************************************************************************)
\* Accept may still return a connection after the context is cancelled, until
\* the goroutine that closes the listener has run.
AcceptConn(c) ==
  /\ pc[Acceptor] = "accept"
  /\ conn[c] = "none"
  /\ conn' = [conn EXCEPT ![c] = "open"]
  /\ target' = [target EXCEPT ![Acceptor] = c]
  /\ Goto(Acceptor, "register")
  /\ UNCHANGED <<registryVars, lockVars, count, todo, out, input, once, reason, cancelled,
                 writer, queueVars, replayVars, chatCache, nodeVars, inputVars, ctxDone>>

HubFull == Cardinality(clients) >= MaxClients

RejectConn ==
  /\ pc[Acceptor] = "register"
  /\ CanLock(Acceptor)
  /\ HubFull
  /\ conn' = ConnClosed(target[Acceptor])
  /\ target' = [target EXCEPT ![Acceptor] = NoClient]
  /\ pending' = {}
  /\ Goto(Acceptor, "accept")
  /\ UNCHANGED <<registryVars, rlocked, count, todo, out, input, once, reason, cancelled,
                 writer, queueVars, replayVars, chatCache, nodeVars, inputVars, ctxDone>>

RegisterClient ==
  /\ pc[Acceptor] = "register"
  /\ CanLock(Acceptor)
  /\ ~HubFull
  /\ clients' = clients \cup {target[Acceptor]}
  /\ count' = [count EXCEPT ![Acceptor] = Cardinality(clients')]
  /\ pending' = {}
  /\ Goto(Acceptor, "start")
  /\ UNCHANGED <<activeClients, rlocked, target, todo, out, input, connVars, queueVars,
                 replayVars, chatCache, nodeVars, inputVars, ctxDone>>

\* ActiveClients.Store, p.wg.Add and `go client.Run`: both loops and the
\* goroutine that waits for them exist from here on.
StartClient ==
  LET c == target[Acceptor] IN
  /\ pc[Acceptor] = "start"
  /\ activeClients' = count[Acceptor]
  /\ pc' = [pc EXCEPT ![Acceptor] = "accept", ![Reader(c)] = "top", ![Waiter(c)] = "wait"]
  /\ writer' = [writer EXCEPT ![c] = "run"]
  /\ target' = [target EXCEPT ![Acceptor] = NoClient]
  /\ UNCHANGED <<clients, lockVars, count, todo, out, input, conn, once, reason, cancelled,
                 queueVars, replayVars, chatCache, nodeVars, inputVars, ctxDone>>

\* Accept fails because the listener is closed: closeAllClients reads the
\* registry under the read lock and then closes the clients one by one.
BeginShutdown ==
  /\ pc[Acceptor] = "accept"
  /\ ctxDone
  /\ CanRLock
  /\ todo' = [todo EXCEPT ![Acceptor] = clients]
  /\ Goto(Acceptor, "closeall")
  /\ UNCHANGED <<registryVars, lockVars, target, count, out, input, connVars, queueVars,
                 replayVars, chatCache, nodeVars, inputVars, ctxDone>>

CloseNext ==
  /\ pc[Acceptor] = "closeall"
  /\ \/ \E c \in todo[Acceptor] :
          /\ todo' = [todo EXCEPT ![Acceptor] = @ \ {c}]
          /\ target' = [target EXCEPT ![Acceptor] = c]
          /\ Goto(Acceptor, "close")
     \/ /\ todo[Acceptor] = {}
        /\ Goto(Acceptor, "wait")
        /\ UNCHANGED <<todo, target>>
  /\ UNCHANGED <<registryVars, lockVars, count, out, input, connVars, queueVars,
                 replayVars, chatCache, nodeVars, inputVars, ctxDone>>

\* p.wg.Wait() and the return of Proxy.Run.
AllConnectionsDone == \A c \in Client : conn[c] # "none" => pc[Waiter(c)] = "done"

NoOneAwaited == TRUE

AllClientsDone == \A c \in Client : pc[Waiter(c)] \in {"off", "done"}

RunReturns ==
  /\ pc[Acceptor] = "wait"
  /\ AllClientsDone
  /\ Goto(Acceptor, "returned")
  /\ UNCHANGED <<registryVars, lockVars, target, count, todo, out, input, connVars,
                 queueVars, replayVars, chatCache, nodeVars, inputVars, ctxDone>>

(***************************************************************************)
(* The broadcast loop.  Config frames are dropped here; text messages and  *)
(* ACKs enter the chat cache before any client is sent the frame.          *)
(***************************************************************************)
CacheIncoming(f) ==
  IF isTextMessageFrame(f) THEN cacheTextMessage(chatCache, f)
  ELSE IF isRoutingACKFrame(f) THEN cacheACK(chatCache, f)
  ELSE chatCache

\* The node acknowledges only messages it was sent.
Deliverable(f) == f.kind = "ack" => \E m \in toNode : m.id = f.id

SuppressConfigFrame(f) ==
  /\ pc[Broadcaster] = "recv"
  /\ f \notin seen
  /\ isConfigFrame(f)
  /\ seen' = seen \cup {f}
  /\ UNCHANGED <<registryVars, lockVars, threadVars, connVars, queueVars, replayVars,
                 chatCache, configCache, myNodeNum, toNode, inputVars, ctxDone>>

ReceiveFrame(f) ==
  /\ pc[Broadcaster] = "recv"
  /\ f \notin seen /\ Deliverable(f)
  /\ ~isConfigFrame(f)
  /\ seen' = seen \cup {f}
  /\ chatCache' = CacheIncoming(f)
  /\ out' = [out EXCEPT ![Broadcaster] = <<f>>]
  /\ Goto(Broadcaster, "rlock")
  /\ UNCHANGED <<registryVars, lockVars, target, count, todo, input, connVars, queueVars,
                 replayVars, configCache, myNodeNum, toNode, inputVars, ctxDone>>

StopBroadcast ==
  /\ pc[Broadcaster] = "recv"
  /\ ctxDone
  /\ Goto(Broadcaster, "done")
  /\ UNCHANGED <<registryVars, lockVars, target, count, todo, out, input, connVars,
                 queueVars, replayVars, chatCache, nodeVars, inputVars, ctxDone>>

(***************************************************************************)
(* broadcast (t = Broadcaster) and broadcastToOthers (t = Reader(c)): the  *)
(* range over p.clients, in any order, under the read lock.                *)
(***************************************************************************)
RecipientsNotReplaying(t) == {c \in clients : c # Owner(t) /\ ReplayMuFree(c)}

Recipients(t) == clients \ {Owner(t)}

RLock(t) ==
  /\ pc[t] = "rlock"
  /\ CanRLock
  /\ rlocked' = rlocked \cup {t}
  /\ todo' = [todo EXCEPT ![t] = Recipients(t)]
  /\ Goto(t, "iterate")
  /\ UNCHANGED <<registryVars, pending, target, count, out, input, connVars, queueVars,
                 replayVars, chatCache, nodeVars, inputVars, ctxDone>>

SendNext(t) ==
  /\ pc[t] = "iterate"
  /\ \E c \in todo[t] :
       /\ todo' = [todo EXCEPT ![t] = @ \ {c}]
       /\ Queue(t, c, "iterate") \/ Overflow(t, c)
  /\ UNCHANGED <<registryVars, lockVars, count, out, input, conn, once, cancelled, writer,
                 taken, replayVars, chatCache, nodeVars, inputVars, ctxDone>>

\* After its echo a reader caches a text message and forwards the message.
AfterRange(t) ==
  CASE Role(t) = "broadcaster"                  -> "recv"
    [] isTextMessageFrame(Head(out[t]))         -> "cache"
    [] OTHER                                    -> "forward"

RUnlock(t) ==
  /\ pc[t] = "iterate"
  /\ todo[t] = {}
  /\ rlocked' = rlocked \ {t}
  /\ Goto(t, AfterRange(t))
  /\ out' = [out EXCEPT ![t] = <<>>]
  /\ UNCHANGED <<registryVars, pending, target, count, todo, input, connVars, queueVars,
                 replayVars, chatCache, nodeVars, inputVars, ctxDone>>

(***************************************************************************)
(* The read loop of a client and its onMessage callback.                   *)
(***************************************************************************)
\* Start's goroutine cancels the client's context when readLoop returns.
ReaderExitsSilently(c) ==
  /\ Goto(Reader(c), "done")
  /\ UNCHANGED cancelled

ReaderExits(c) ==
  /\ Goto(Reader(c), "done")
  /\ cancelled' = [cancelled EXCEPT ![c] = TRUE]

ReaderLoop(c) ==
  /\ pc[Reader(c)] = "top"
  /\ \/ Cancelled(c) /\ ReaderExits(c)
     \/ ~Cancelled(c) /\ Goto(Reader(c), "read") /\ UNCHANGED cancelled
  /\ UNCHANGED <<registryVars, lockVars, target, count, todo, out, input, conn, once, reason,
                 writer, queueVars, replayVars, chatCache, nodeVars, inputVars, ctxDone>>

\* ReadFrame fails: the peer is gone, the idle timeout expired, or this side
\* closed the connection.
ReadFails(c) ==
  /\ pc[Reader(c)] = "read"
  /\ "peer_lost" \in Events \/ conn[c] = "closed"
  /\ \E r \in {"read_error"} \cup (IF IdleTimeout THEN {"idle_timeout"} ELSE {}) :
       reason' = IF Cancelled(c) THEN reason ELSE WithReason(c, r)
  /\ ReaderExits(c)
  /\ UNCHANGED <<registryVars, lockVars, target, count, todo, out, input, conn, once, writer,
                 queueVars, replayVars, chatCache, nodeVars, inputVars, ctxDone>>

\* A frame arrives.  It may have been buffered before the connection closed.
ReadsMessage(c) ==
  /\ pc[Reader(c)] = "read"
  /\ msgs[c] < MaxMsgs
  /\ msgs' = [msgs EXCEPT ![c] = @ + 1]

ReadWant(c, m) ==
  /\ ReadsMessage(c) /\ m.kind = "want"
  /\ \E k \in 1 .. MaxWants :
       /\ pc[Replayer(c, k)] = "off"
       /\ \A j \in 1 .. k - 1 : pc[Replayer(c, j)] # "off"
       /\ pc' = [pc EXCEPT ![Reader(c)] = "top", ![Replayer(c, k)] = "wait"]
       /\ nonce' = [nonce EXCEPT ![Replayer(c, k)] = m.id]
  /\ UNCHANGED <<registryVars, lockVars, target, count, todo, out, input, connVars, queueVars,
                 configPhase, chatCache, nodeVars, texts, ctxDone>>

ReadDisconnect(c, m) ==
  /\ ReadsMessage(c) /\ m.kind = "disconnect"
  /\ reason' = WithReason(c, "client_disconnect")
  /\ target' = [target EXCEPT ![Reader(c)] = c]
  /\ Goto(Reader(c), "close")
  /\ UNCHANGED <<registryVars, lockVars, count, todo, out, input, conn, once, cancelled,
                 writer, queueVars, replayVars, chatCache, nodeVars, texts, ctxDone>>

\* Packet ids are random 32-bit numbers: no two text messages share one.
ReadPacket(c, m) ==
  /\ ReadsMessage(c) /\ isMeshPacket(m)
  /\ m.kind = "text" => \A d \in Client : m.id \notin texts[d]
  /\ texts' = [texts EXCEPT ![c] = IF m.kind = "text" THEN @ \cup {m.id} ELSE @]
  /\ input' = [input EXCEPT ![c] = <<m>>]
  /\ out' = [out EXCEPT ![Reader(c)] = <<toRadioToFromRadio(m, myNodeNum)>>]
  /\ Goto(Reader(c), "rlock")
  /\ UNCHANGED <<registryVars, lockVars, target, count, todo, connVars, queueVars, replayVars,
                 chatCache, nodeVars, ctxDone>>

ReadHeartbeat(c, m) ==
  /\ ReadsMessage(c) /\ m.kind = "heartbeat"
  /\ input' = [input EXCEPT ![c] = <<m>>]
  /\ Goto(Reader(c), "forward")
  /\ UNCHANGED <<registryVars, lockVars, target, count, todo, out, connVars, queueVars,
                 replayVars, chatCache, nodeVars, texts, ctxDone>>

CacheOutgoing(c) ==
  /\ pc[Reader(c)] = "cache"
  /\ chatCache' = cacheTextMessage(chatCache, toRadioToFromRadio(Head(input[c]), myNodeNum))
  /\ Goto(Reader(c), "forward")
  /\ UNCHANGED <<registryVars, lockVars, target, count, todo, out, input, connVars, queueVars,
                 replayVars, nodeVars, inputVars, ctxDone>>

\* nodeConn.Send queues the message, or drops it when its channel is full.
ForwardToNode(c) ==
  /\ pc[Reader(c)] = "forward"
  /\ toNode' \in {toNode, toNode \cup {Head(input[c])}}
  /\ input' = [input EXCEPT ![c] = <<>>]
  /\ Goto(Reader(c), "top")
  /\ UNCHANGED <<registryVars, lockVars, target, count, todo, out, connVars, queueVars,
                 replayVars, chatCache, configCache, myNodeNum, seen, inputVars, ctxDone>>

(***************************************************************************)
(* The write loop of a client, and the goroutine of client.Run.            *)
(***************************************************************************)
\* Start's goroutine cancels the client's context when writeLoop returns.
WriterExits(c) ==
  /\ writer' = [writer EXCEPT ![c] = "done"]
  /\ cancelled' = [cancelled EXCEPT ![c] = TRUE]

WriterStops(c) ==
  /\ writer[c] = "run"
  /\ Cancelled(c)
  /\ WriterExits(c)
  /\ UNCHANGED <<registryVars, lockVars, threadVars, conn, once, reason, queueVars,
                 replayVars, chatCache, nodeVars, inputVars, ctxDone>>

\* The write succeeds on an open connection, or fails because either side
\* closed it; a failed write leaves the connection to the read loop.
WriteFrame(c) ==
  /\ writer[c] = "run"
  /\ taken[c] < Len(send[c])
  /\ taken' = [taken EXCEPT ![c] = @ + 1]
  /\ \/ conn[c] = "open" /\ UNCHANGED <<writer, cancelled>>
     \/ /\ "write_error" \in Events \/ conn[c] = "closed"
        /\ WriterExits(c)
  /\ UNCHANGED <<registryVars, lockVars, threadVars, conn, once, reason, send, replayVars,
                 chatCache, nodeVars, inputVars, ctxDone>>

\* A peer that reads nothing blocks the write, which has no deadline: it ends
\* when the peer reads on or the connection is closed or breaks, and no sooner.
WriteBlocks(c) ==
  /\ "peer_stalls" \in Events
  /\ writer[c] = "run"
  /\ taken[c] < Len(send[c])
  /\ conn[c] = "open"
  /\ taken' = [taken EXCEPT ![c] = @ + 1]
  /\ writer' = [writer EXCEPT ![c] = "blocked"]
  /\ UNCHANGED <<registryVars, lockVars, threadVars, conn, once, reason, cancelled, send,
                 replayVars, chatCache, nodeVars, inputVars, ctxDone>>

WriteUnblocks(c) ==
  /\ writer[c] = "blocked"
  /\ \/ /\ conn[c] = "open"
        /\ writer' = [writer EXCEPT ![c] = "run"]
        /\ UNCHANGED cancelled
     \/ /\ "write_error" \in Events \/ conn[c] = "closed"
        /\ WriterExits(c)
  /\ UNCHANGED <<registryVars, lockVars, threadVars, conn, once, reason, queueVars,
                 replayVars, chatCache, nodeVars, inputVars, ctxDone>>

LoopsFinished(c) == pc[Reader(c)] = "done" /\ writer[c] = "done"

WaiterCloses(c) ==
  /\ pc[Waiter(c)] = "wait"
  /\ LoopsFinished(c)
  /\ target' = [target EXCEPT ![Waiter(c)] = c]
  /\ Goto(Waiter(c), "close")
  /\ UNCHANGED <<registryVars, lockVars, count, todo, out, input, connVars, queueVars,
                 replayVars, chatCache, nodeVars, inputVars, ctxDone>>

(***************************************************************************)
(* replayCachedConfig, replayChatHistory.                                  *)
(***************************************************************************)
PhaseOfNodesOnly(n) == IF n = nonceOnlyNodes THEN {"nodes"} ELSE {}

PhaseOf(n) == CASE n = nonceOnlyConfig -> {"config"}
                [] n = nonceOnlyNodes  -> {"nodes"}
                [] OTHER               -> {}

\* Nothing is sent, not even a config_complete, while the cache is empty.
ReplayBegin(t) ==
  LET c == Owner(t) IN
  /\ pc[t] = "wait"
  /\ ReplayMuFree(c)
  /\ \/ /\ configCache = <<>>
        /\ Goto(t, "empty")
        /\ UNCHANGED <<out, configPhase>>
     \/ /\ configCache # <<>>
        /\ configPhase' = [configPhase EXCEPT ![c] = @ \cup PhaseOf(nonce[t])]
        /\ out' = [out EXCEPT ![t] = ReplayFrames(configCache, nonce[t])]
        /\ Goto(t, "config")
  /\ UNCHANGED <<registryVars, lockVars, target, count, todo, input, connVars, queueVars,
                 nonce, chatCache, nodeVars, inputVars, ctxDone>>

ReplaySend(t) ==
  LET c == Owner(t) IN
  /\ pc[t] \in {"config", "chat"}
  /\ out[t] # <<>>
  /\ \/ Queue(t, c, pc[t]) /\ out' = [out EXCEPT ![t] = Tail(@)]
     \/ Overflow(t, c) /\ out' = [out EXCEPT ![t] = <<>>]
  /\ UNCHANGED <<registryVars, lockVars, count, todo, input, conn, once, cancelled, writer,
                 taken, replayVars, chatCache, nodeVars, inputVars, ctxDone>>

shouldReplayChat(n, c) ==
  /\ ReplayChat /\ MaxChatCache > 0
  /\ n # nonceOnlyConfig
  /\ n = nonceOnlyNodes => "config" \in configPhase[c]

\* A copy made under chatMu, so in one step.
chatCacheSnapshot == chatCache

ReplayChatBegin(t) ==
  /\ pc[t] = "config"
  /\ out[t] = <<>>
  /\ \/ /\ shouldReplayChat(nonce[t], Owner(t))
        /\ out' = [out EXCEPT ![t] = ChatHistory(chatCacheSnapshot)]
        /\ Goto(t, "chat")
     \/ /\ ~shouldReplayChat(nonce[t], Owner(t))
        /\ Goto(t, "done")
        /\ UNCHANGED out
  /\ UNCHANGED <<registryVars, lockVars, target, count, todo, input, connVars, queueVars,
                 replayVars, chatCache, nodeVars, inputVars, ctxDone>>

ReplayEnds(t) ==
  /\ pc[t] = "chat"
  /\ out[t] = <<>>
  /\ Goto(t, "chatted")
  /\ UNCHANGED <<registryVars, lockVars, target, count, todo, out, input, connVars, queueVars,
                 replayVars, chatCache, nodeVars, inputVars, ctxDone>>

(***************************************************************************)
(* The environment.                                                        *)
(***************************************************************************)
\* The node connection has read my_info: MyNodeNum() is known from here on.
LearnNodeNum ==
  /\ "node_config" \in Events
  /\ myNodeNum = 0
  /\ myNodeNum' = NodeNum
  /\ UNCHANGED <<registryVars, lockVars, threadVars, connVars, queueVars, replayVars,
                 chatCache, configCache, toNode, seen, inputVars, ctxDone>>

\* It has read a whole config sequence and replaces its cache.
ReplaceConfigCache(cache) ==
  /\ myNodeNum # 0
  /\ configCache # cache
  /\ configCache' = cache
  /\ UNCHANGED <<registryVars, lockVars, threadVars, connVars, queueVars, replayVars,
                 chatCache, myNodeNum, toNode, seen, inputVars, ctxDone>>

\* SIGINT or SIGTERM.
Cancel ==
  /\ "shutdown" \in Events
  /\ ~ctxDone
  /\ ctxDone' = TRUE
  /\ UNCHANGED <<registryVars, lockVars, threadVars, connVars, queueVars, replayVars,
                 chatCache, nodeVars, inputVars>>

\* Everything has returned.
Finished ==
  /\ pc[Acceptor] = "returned" /\ pc[Broadcaster] = "done"
  /\ \A t \in Replayers : pc[t] \in {"off", "done", "chatted", "empty"}
  /\ UNCHANGED vars

(***************************************************************************)
(* The specification.                                                      *)
(***************************************************************************)
ThreadStep(t) ==
  \/ CloseBegin(t) \/ LockWaits(t) \/ Unregister(t) \/ StoreCount(t)
  \/ RLock(t) \/ SendNext(t) \/ RUnlock(t)

AcceptorStep == RejectConn \/ RegisterClient \/ StartClient \/ BeginShutdown \/ CloseNext \/ RunReturns

ReaderStep(c) == ReaderLoop(c) \/ CacheOutgoing(c) \/ ForwardToNode(c)

ReplayStep(t) == ReplayBegin(t) \/ ReplaySend(t) \/ ReplayChatBegin(t) \/ ReplayEnds(t)

Next ==
  \/ \E t \in Thread : ThreadStep(t)
  \/ \E t \in Replayers : ReplayStep(t)
  \/ \E c \in Client : AcceptConn(c)
  \/ AcceptorStep
  \/ \E f \in NodeFrame : SuppressConfigFrame(f) \/ ReceiveFrame(f)
  \/ StopBroadcast
  \/ \E c \in Client : ReaderStep(c) \/ ReadFails(c)
  \/ \E c \in Client, m \in ToRadio :
       ReadWant(c, m) \/ ReadDisconnect(c, m) \/ ReadPacket(c, m) \/ ReadHeartbeat(c, m)
  \/ \E c \in Client : WriterStops(c) \/ WriteFrame(c) \/ WriteBlocks(c) \/ WriteUnblocks(c)
  \/ \E c \in Client : WaiterCloses(c)
  \/ LearnNodeNum
  \/ \E cache \in Caches : ReplaceConfigCache(cache)
  \/ Cancel
  \/ Finished

Spec == Init /\ [][Next]_vars

(***************************************************************************)
(* Fairness: the Go scheduler runs every goroutine that can run, and a     *)
(* goroutine waiting for a mutex or for closeOnce gets its turn.  A read   *)
(* or write of a connection this side closed fails at once, and an idle    *)
(* read fails when client_idle_timeout is set.  Nothing makes a peer       *)
(* connect, send or read, the node deliver, or the context end.            *)
(***************************************************************************)
Fairness ==
  /\ \A t \in Thread : WF_vars(ThreadStep(t))
  /\ \A t \in Replayers : WF_vars(ReplayStep(t))
  /\ WF_vars(AcceptorStep)
  /\ WF_vars(StopBroadcast)
  /\ \A c \in Client :
       /\ WF_vars(ReaderStep(c))
       /\ WF_vars((IdleTimeout \/ conn[c] = "closed") /\ ReadFails(c))
       /\ WF_vars(WriterStops(c) \/ WriteFrame(c))
       /\ WF_vars(conn[c] = "closed" /\ WriteUnblocks(c))
       /\ WF_vars(WaiterCloses(c))

FairSpec == Spec /\ Fairness
(***************************************************************************)
(* Safety.                                                                 *)
(***************************************************************************)
\* While a thread ranges over the registry nobody changes it: what it has
\* still to visit is registered (proxy.go: broadcast and broadcastToOthers
\* hold p.mu.RLock, every change of p.clients holds p.mu.Lock).
RegistryFrozenWhileRead == \A t \in rlocked : todo[t] \subseteq clients

\* A client whose Close has finished is out of the registry for good: the
\* accept loop registers it before anything can close it, and no thread
\* returns from Close before the first caller has unregistered the client.
ClosedIsUnregistered == \A c \in Client : once[c] = "done" => c \notin clients

\* When Run returns nothing of any client is left: no registration, no open
\* connection, no loop (proxy.go:115, "close all active clients and wait").
GracefulShutdown ==
  pc[Acceptor] = "returned" =>
    /\ clients = {}
    /\ \A c \in Client : /\ conn[c] # "open"
                         /\ pc[Reader(c)] \in {"off", "done"}
                         /\ writer[c] \in {"off", "done"}

\* The config frames queued for a client are whole replays of one cache each,
\* filtered for and closed by a nonce that client asked for: neither the
\* node's own config sequence nor two replays in flight ever mix into it.
Asked(c) == {nonce[Replayer(c, k)] : k \in {j \in 1 .. MaxWants : pc[Replayer(c, j)] # "off"}}

ConfigView(frames) == Picked(frames, {i \in DOMAIN frames : isConfigFrame(frames[i])})

ReplaysAreWhole ==
  \A c \in Client : conn[c] = "open" =>
    LET view == ConfigView(send[c])
        ends == {i \in DOMAIN view : view[i].kind = "config_complete"}
    IN  \A i \in ends :
          LET prev  == {j \in ends : j < i}
              first == IF prev = {} THEN 1 ELSE 1 + CHOOSE j \in prev : \A l \in prev : l <= j
          IN  \E cache \in Caches, n \in Asked(c) :
                SubSeq(view, first, i) = ConfigView(ReplayFrames(cache, n))

\* Types and ReplaysAreWhole.
ReplayInv == TypeOK /\ ReplaysAreWhole

\* The client has been sent the whole chat history.
ChatReplayed(c) == \E k \in 1 .. MaxWants : pc[Replayer(c, k)] = "chatted"

Holds(frames, f) == \E i \in DOMAIN frames : frames[i].kind = f.kind /\ frames[i].id = f.id

\* The broadcast of f has not reached client c yet.
InFlight(f, c) ==
  /\ out[Broadcaster] = <<f>>
  /\ pc[Broadcaster] = "rlock" \/ c \in todo[Broadcaster]

\* A text message from the mesh that is still in the chat cache reaches every
\* client that got its history: in the replay when it was cached before, and
\* otherwise in the broadcast (proxy.go:313-321 caches before it broadcasts).
IncomingTextNotLost ==
  \A c \in Client : ChatReplayed(c) /\ c \in clients /\ reason[c] = "" =>
    \A e \in {chatCache[i] : i \in DOMAIN chatCache} :
      e.message \in seen => Holds(send[c], e.message) \/ InFlight(e.message, c)

\* A message the node acknowledged is replayed as acknowledged: the outgoing
\* text is in the cache before it is handed to the node, so its ACK cannot
\* come too early to find it.
AckFindsMessage ==
  \A i \in DOMAIN chatCache :
    (\E f \in seen : isRoutingACKFrame(f) /\ f.id = chatCache[i].message.id)
      => chatCache[i].ack # <<>>

\* A client that asks for its nodes after it got its config is sent the chat
\* history, if there is a chat cache (config_replay.go:275-279, the two phases
\* of iOS).
Completed(c, n) == {i \in DOMAIN send[c] : send[c][i].kind = "config_complete" /\ send[c][i].id = n}

SecondPhaseBringsChat ==
  ReplayChat /\ MaxChatCache > 0 =>
    \A c \in Client, k \in 1 .. MaxWants :
      /\ nonce[Replayer(c, k)] = nonceOnlyNodes
      /\ pc[Replayer(c, k)] = "done"
      /\ conn[c] = "open"
      => \E j \in Completed(c, nonceOnlyNodes) :
           \A i \in Completed(c, nonceOnlyConfig) : j < i

\* A replay never makes its client a slow consumer: it is "safe to call Send
\* (including cached config replay) after Start without risking a "slow
\* consumer" disconnect" (client.go:127-129).
ReplayIsSafe == \A t \in Replayers : pc[t] = "close" => reason[Owner(t)] # "slow_consumer"

(***************************************************************************)
(* Liveness.                                                               *)
(***************************************************************************)
\* A thread that closes a client while it holds p.mu for reading: the broadcast
\* that meets a slow consumer (see SlowConsumerLeaves).
ClosingUnderReadLock == \E t \in rlocked : pc[t] \in {"close", "unregister"}

\* Once the context is cancelled Proxy.Run returns, whatever its clients do: the
\* one thing that can keep it is a broadcast that closes a slow consumer.
ShutdownTerminates == ctxDone ~> pc[Acceptor] = "returned" \/ ClosingUnderReadLock

\* A client whose read loop has ended, or that was found to be a slow consumer,
\* leaves the registry.  What can keep it there is a write its peer blocks, and
\* that broadcast again.
DeadClientLeaves ==
  \A c \in Client :
    pc[Reader(c)] = "done" \/ reason[c] = "slow_consumer"
      ~> c \notin clients \/ writer[c] = "blocked" \/ ClosingUnderReadLock

\* A slow consumer is disconnected (client.go:119).
SlowConsumerLeaves == \A c \in Client : reason[c] = "slow_consumer" ~> c \notin clients
=============================================================================
