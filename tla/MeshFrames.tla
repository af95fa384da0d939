----------------------------- MODULE MeshFrames -----------------------------
(***************************************************************************)
(* The FromRadio and ToRadio frames the proxy handles, abstracted to what  *)
(* its control flow tells apart, and the pure functions the proxy applies  *)
(* to them (isConfigFrame, filterConfigCache, toRadioToFromRadio, ...).    *)
(*                                                                         *)
(* A frame is a record [kind, id, from].  id is the field the kind is      *)
(* identified by: the node number of a my_info and of a node_info, the     *)
(* nonce of a config_complete, the packet id of a text message, the        *)
(* RequestId of a routing ACK.  from is MeshPacket.From (0: not filled     *)
(* in) and is 0 in every frame that is no MeshPacket.                      *)
(***************************************************************************)
EXTENDS Naturals, Sequences

(***************************************************************************)
(* FromRadio.  "config" stands for the six kinds every consumer treats     *)
(* alike: Config, ModuleConfig, Channel, Metadata, DeviceuiConfig and      *)
(* FileInfo.  "packet" is a MeshPacket that is neither a text message nor  *)
(* a successful routing ACK, "other" any other parseable variant           *)
(* (QueueStatus, LogRecord, Rebooted, ...), "garbled" a payload that       *)
(* proto.Unmarshal rejects.                                                *)
(***************************************************************************)
ConfigKinds  == {"my_info", "node_info", "config", "config_complete"}
RuntimeKinds == {"text", "ack", "packet", "other", "garbled"}

FrameOf(kind, id, from) == [kind |-> kind, id |-> id, from |-> from]

isConfigFrame(f)      == f.kind \in ConfigKinds
isTextMessageFrame(f) == f.kind = "text"
isRoutingACKFrame(f)  == f.kind = "ack" /\ f.id # 0

(***************************************************************************)
(* ToRadio.  "want" carries a nonce in id, "text" and "packet" are         *)
(* MeshPackets, "heartbeat" stands for every other variant and for a       *)
(* payload that cannot be parsed: all of them are forwarded untouched.     *)
(***************************************************************************)
ToRadioKinds == {"want", "disconnect", "text", "packet", "heartbeat"}

isMeshPacket(m) == m.kind \in {"text", "packet"}

\* The FromRadio image of a client's MeshPacket: From is filled in with the
\* connected node's number when the client left it 0 and the number is known.
toRadioToFromRadio(m, myNodeNum) ==
  FrameOf(m.kind, m.id, IF m.from = 0 THEN myNodeNum ELSE m.from)

(***************************************************************************)
(* Replay of the config cache.                                             *)
(***************************************************************************)
nonceOnlyConfig == 69420
nonceOnlyNodes  == 69421

\* The node number of the first my_info of a cache, 0 when there is none.
CacheNodeNum(frames) ==
  LET mine == {i \in DOMAIN frames : frames[i].kind = "my_info"}
  IN  IF mine = {} THEN 0
      ELSE frames[CHOOSE i \in mine : \A j \in mine : i <= j].id

KeptDroppingComplete(f, nonce, myNodeNum) ==
  CASE nonce = nonceOnlyConfig -> f.kind = "node_info" => f.id = myNodeNum
    [] nonce = nonceOnlyNodes  -> f.kind = "node_info"
    [] OTHER                   -> TRUE

KeptByFilter(f, nonce, myNodeNum) ==
  CASE nonce = nonceOnlyConfig -> f.kind = "node_info" => f.id = myNodeNum
    [] nonce = nonceOnlyNodes  -> f.kind \in {"node_info", "config_complete", "garbled"}
    [] OTHER                   -> TRUE

\* The frames at the indexes S, in their order.
Picked(frames, S) ==
  LET upto[i \in 0 .. Len(frames)] ==
        IF i = 0 THEN <<>>
        ELSE IF i \in S THEN Append(upto[i - 1], frames[i])
        ELSE upto[i - 1]
  IN  upto[Len(frames)]

filterConfigCache(frames, nonce) ==
  LET myNodeNum == CacheNodeNum(frames)
  IN  Picked(frames, {i \in DOMAIN frames : KeptByFilter(frames[i], nonce, myNodeNum)})

\* What the replay puts on the wire: the filtered cache with the client's
\* nonce in its config_complete.
ReplayFrames(frames, nonce) ==
  LET out == filterConfigCache(frames, nonce)
  IN  [i \in DOMAIN out |->
         IF out[i].kind = "config_complete" THEN [out[i] EXCEPT !.id = nonce]
                                            ELSE out[i]]
=============================================================================
