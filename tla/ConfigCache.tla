---------------------------- MODULE ConfigCache -----------------------------
(***************************************************************************)
(* The config cache of the node connection (internal/node): how readLoop   *)
(* collects the node's config sequence, swaps the cache when the sequence  *)
(* is complete, and patches it when a NODEINFO_APP packet is heard.        *)
(*                                                                         *)
(* Every connection to the node has a read loop of its own, with its own   *)
(* collectingConfig and configFrames.  runConnection does not wait for the *)
(* read loop it cancels, so the loop of an old connection may still handle *)
(* the frame it was reading while its successor runs.                      *)
(***************************************************************************)
EXTENDS Naturals, Sequences, MeshFrames

CONSTANTS
  NodeFrame,   \* the frames the node may send
  MaxEpochs,   \* bound: connections to the node
  MaxReads     \* bound: frames read on all of them

Epoch == 1 .. MaxEpochs

(***************************************************************************)
(* user is the identity part of a node_info and of a NODEINFO_APP packet:  *)
(* its names and keys, and the optional IsUnmessagable.  rest is what only *)
(* a node_info has: position, metrics, SNR, favourite flag and so on.      *)
(***************************************************************************)
User == [name : Nat, unmessagable : {"unset", "yes", "no"}]

NoUser == [name |-> 0, unmessagable |-> "unset"]
NoRest == 0

CacheFrame == [kind : ConfigKinds \cup RuntimeKinds \cup {"nodeinfo_app"},
               id : Nat, from : Nat, user : User, rest : Nat]

ASSUME CacheAssumption ==
  /\ NodeFrame \subseteq CacheFrame
  /\ MaxEpochs \in Nat \ {0}
  /\ MaxReads \in Nat

VARIABLES
  epoch,        \* the current connection, 0 before the first
  live,         \* its context is not cancelled
  at,           \* where each read loop is
  hand,         \* the frame it handles
  collecting,   \* its collectingConfig
  frames,       \* its configFrames
  configCache,  \* Connection.configCache, behind configMu
  myNodeNum,    \* Connection.myNodeNum
  reads,        \* frames read so far
  heard         \* the NODEINFO_APP packets handled since the cache was swapped

vars == <<epoch, live, at, hand, collecting, frames, configCache, myNodeNum, reads, heard>>

TypeOK ==
  /\ epoch \in 0 .. MaxEpochs
  /\ live \in BOOLEAN
  /\ at \in [Epoch -> {"none", "top", "reading", "handling", "exited"}]
  /\ hand \in [Epoch -> Seq(CacheFrame)]
  /\ collecting \in [Epoch -> BOOLEAN]
  /\ frames \in [Epoch -> Seq(CacheFrame)]
  /\ configCache \in Seq(CacheFrame)
  /\ myNodeNum \in Nat
  /\ reads \in Nat
  /\ heard \in Seq(CacheFrame)

Init ==
  /\ epoch = 0 /\ live = FALSE
  /\ at = [e \in Epoch |-> "none"]
  /\ hand = [e \in Epoch |-> <<>>]
  /\ collecting = [e \in Epoch |-> FALSE]
  /\ frames = [e \in Epoch |-> <<>>]
  /\ configCache = <<>> /\ myNodeNum = 0
  /\ reads = 0 /\ heard = <<>>

(***************************************************************************)
(* UpsertCachedNodeInfo.                                                   *)
(***************************************************************************)
\* buildNodeInfoFrame
buildUserFrame(p) ==
  [kind |-> "user", id |-> p.from, from |-> 0, user |-> p.user, rest |-> NoRest]

buildNodeInfoFrame(p) ==
  [kind |-> "node_info", id |-> p.from, from |-> 0, user |-> p.user, rest |-> NoRest]

\* mergeNodeInfoUser: the packet's identity, but a packet that does not say
\* whether the node is messagable leaves that as it was; rest is kept.
mergeByReplacing(f, p) == buildNodeInfoFrame(p)

mergeNodeInfoUser(f, p) ==
  [f EXCEPT !.user = [name |-> p.user.name,
                      unmessagable |-> IF p.user.unmessagable = "unset"
                                       THEN f.user.unmessagable
                                       ELSE p.user.unmessagable]]

NodeInfoAt(cache, n) == {i \in DOMAIN cache : cache[i].kind = "node_info" /\ cache[i].id = n}

First(S) == CHOOSE i \in S : \A j \in S : i <= j

InsertAfterLast(cache, f) == Append(cache, f)

InsertBeforeLast(cache, f) ==
  SubSeq(cache, 1, Len(cache) - 1) \o <<f, cache[Len(cache)]>>

UpsertAlwaysInserts(cache, p) ==
  IF p.from = 0 \/ cache = <<>> THEN cache ELSE InsertBeforeLast(cache, buildNodeInfoFrame(p))

UpsertCachedNodeInfo(cache, p) ==
  LET known == NodeInfoAt(cache, p.from)
      built == buildNodeInfoFrame(p)
      last  == Len(cache)
  IN  IF p.from = 0 \/ cache = <<>> THEN cache
      ELSE IF known # {} THEN
             [cache EXCEPT ![First(known)] = mergeNodeInfoUser(@, p)]
      ELSE IF cache[last].kind = "config_complete" THEN InsertBeforeLast(cache, built)
      ELSE Append(cache, built)

(***************************************************************************)
(* Connections.                                                            *)
(***************************************************************************)
\* runConnection starts the read loop of a new connection.
Connect ==
  /\ ~live /\ epoch < MaxEpochs
  /\ epoch' = epoch + 1
  /\ live' = TRUE
  /\ at' = [at EXCEPT ![epoch'] = "top"]
  /\ UNCHANGED <<hand, collecting, frames, configCache, myNodeNum, reads, heard>>

\* runConnection returns, for whatever reason, and cancels its loops.
Disconnect ==
  /\ live
  /\ live' = FALSE
  /\ UNCHANGED <<epoch, at, hand, collecting, frames, configCache, myNodeNum, reads, heard>>

Current(e) == e = epoch /\ live

(***************************************************************************)
(* The read loop of connection e.                                          *)
(***************************************************************************)
LoopTop(e) ==
  /\ at[e] = "top"
  /\ at' = [at EXCEPT ![e] = IF Current(e) THEN "reading" ELSE "exited"]
  /\ UNCHANGED <<epoch, live, hand, collecting, frames, configCache, myNodeNum, reads, heard>>

ReadFails(e) ==
  /\ at[e] = "reading"
  /\ at' = [at EXCEPT ![e] = "exited"]
  /\ UNCHANGED <<epoch, live, hand, collecting, frames, configCache, myNodeNum, reads, heard>>

\* What the firmware sends: within a config sequence each node is listed once,
\* and a config_complete only ends a sequence (its my_info may have been sent
\* before this connection).
NodeMaySend(e, f) ==
  /\ f.kind = "node_info" => NodeInfoAt(frames[e], f.id) = {}
  /\ f.kind = "config_complete" => collecting[e] \/ frames[e] = <<>>

ReadFrame(e, f) ==
  /\ at[e] = "reading"
  /\ reads < MaxReads
  /\ NodeMaySend(e, f)
  /\ reads' = reads + 1
  /\ hand' = [hand EXCEPT ![e] = <<f>>]
  /\ at' = [at EXCEPT ![e] = "handling"]
  /\ UNCHANGED <<epoch, live, collecting, frames, configCache, myNodeNum, heard>>

\* The frame is handled; sending it on to the hub is not part of this module.
Handled(e) ==
  /\ at' = [at EXCEPT ![e] = "top"]
  /\ hand' = [hand EXCEPT ![e] = <<>>]

HandleMyInfo(e) ==
  LET f == Head(hand[e]) IN
  /\ at[e] = "handling" /\ f.kind = "my_info"
  /\ collecting' = [collecting EXCEPT ![e] = TRUE]
  /\ frames' = [frames EXCEPT ![e] = <<f>>]
  /\ myNodeNum' = IF f.id # 0 THEN f.id ELSE myNodeNum
  /\ Handled(e)
  /\ UNCHANGED <<epoch, live, configCache, reads, heard>>

HandleConfigComplete(e) ==
  LET f == Head(hand[e]) IN
  /\ at[e] = "handling" /\ f.kind = "config_complete"
  /\ frames' = [frames EXCEPT ![e] = Append(@, f)]
  /\ \/ /\ collecting[e]
        /\ configCache' = Append(frames[e], f)
        /\ heard' = <<>>
     \/ /\ ~collecting[e]
        /\ UNCHANGED <<configCache, heard>>
  /\ collecting' = [collecting EXCEPT ![e] = FALSE]
  /\ Handled(e)
  /\ UNCHANGED <<epoch, live, myNodeNum, reads>>

\* Every other frame is collected while a sequence is being collected; a
\* NODEINFO_APP packet first patches the cache.
HandleOther(e) ==
  LET f == Head(hand[e]) IN
  /\ at[e] = "handling" /\ f.kind \notin {"my_info", "config_complete"}
  /\ \/ /\ f.kind = "nodeinfo_app"
        /\ configCache' = UpsertCachedNodeInfo(configCache, f)
        /\ heard' = Append(heard, f)
     \/ /\ f.kind # "nodeinfo_app"
        /\ UNCHANGED <<configCache, heard>>
  /\ frames' = [frames EXCEPT ![e] = IF collecting[e] THEN Append(@, f) ELSE @]
  /\ Handled(e)
  /\ UNCHANGED <<epoch, live, collecting, myNodeNum, reads>>

Next ==
  \/ Connect
  \/ Disconnect
  \/ \E e \in Epoch : LoopTop(e) \/ ReadFails(e)
  \/ \E e \in Epoch, f \in NodeFrame : ReadFrame(e, f)
  \/ \E e \in Epoch : HandleMyInfo(e) \/ HandleConfigComplete(e) \/ HandleOther(e)

Spec == Init /\ [][Next]_vars

(***************************************************************************)
(* Properties.                                                             *)
(***************************************************************************)
Bounds(k) == k \in {"my_info", "config_complete"}

\* The cache is empty or one config sequence: it opens with the only my_info
\* and ends with the only config_complete, whatever was interleaved with the
\* sequence, patched in later or handled by the loop of an old connection.
\* (UpsertCachedNodeInfo inserts "before the final ConfigCompleteId"; a client
\* takes the first config_complete of a replay for its end.)
CacheIsOneSequence ==
  configCache # <<>> =>
    LET n == Len(configCache) IN
    /\ n >= 2
    /\ configCache[1].kind = "my_info"
    /\ configCache[n].kind = "config_complete"
    /\ \A i \in 2 .. n - 1 : ~Bounds(configCache[i].kind)

\* No node is listed twice, so no replay shows a node with two identities.
NodesListedOnce ==
  \A i, j \in DOMAIN configCache :
    /\ configCache[i].kind = "node_info" /\ configCache[j].kind = "node_info"
    /\ configCache[i].id = configCache[j].id
    => i = j

\* A node heard since the cache was swapped is in it, with the identity it
\* announced last (connection.go:587-588).
HeardNodeIsCached ==
  configCache # <<>> =>
    \A i \in DOMAIN heard :
      heard[i].from # 0
      /\ (\A j \in DOMAIN heard : j > i => heard[j].from # heard[i].from)
      => \E k \in NodeInfoAt(configCache, heard[i].from) :
           configCache[k].user.name = heard[i].user.name

\* The nodes of the cache are those heard, once each: NodesListedOnce and
\* HeardNodeIsCached.
CachedNodesRight == NodesListedOnce /\ HeardNodeIsCached

\* Every answer the hub builds from the cache ends with one config_complete,
\* the client's, and names every node when the client asked for nodes.
ReplayIsComplete ==
  configCache # <<>> =>
    \A n \in {nonceOnlyConfig, nonceOnlyNodes, 7} :
      LET answer == ReplayFrames(configCache, n)
          ends   == {i \in DOMAIN answer : answer[i].kind = "config_complete"}
          nodes(s) == {s[i].id : i \in {j \in DOMAIN s : s[j].kind = "node_info"}}
      IN  /\ ends = {Len(answer)}
          /\ answer[Len(answer)].id = n
          /\ n # nonceOnlyConfig => nodes(answer) = nodes(configCache)
          /\ n = nonceOnlyConfig => nodes(answer) \subseteq {CacheNodeNum(configCache)}

\* What the node alone knows of another node (its position, metrics, ...)
\* survives every patch: it changes only when the whole cache is swapped.
Patched == configCache' # configCache /\ heard' # <<>>
PatchKeepsRest ==
  [][Patched =>
       \A i \in DOMAIN configCache : \E j \in DOMAIN configCache' :
         /\ configCache'[j].kind = configCache[i].kind
         /\ configCache'[j].id = configCache[i].id
         /\ configCache'[j].rest = configCache[i].rest]_vars

=============================================================================
