------------------------------ MODULE NodeLink ------------------------------
(***************************************************************************)
(* The connection to the node (internal/node/connection.go): Run with its  *)
(* dial, backoff, drain and reconnect, and for every connection the read,  *)
(* write and heartbeat loops that runConnection starts and, on the first   *)
(* error, cancels without waiting for them.  The two channels toNode and   *)
(* fromNode outlive the connections and are shared by all of them, by the  *)
(* client handlers (Send) and by the hub's broadcast loop (FromNode).      *)
(*                                                                         *)
(* What the read loop does with a frame besides passing it on is the       *)
(* subject of ConfigCache; here a frame is known by the connection it came *)
(* on and its number on that connection.  Any frame may complete a config  *)
(* sequence, which makes the read loop send a heartbeat.                   *)
(***************************************************************************)
EXTENDS Naturals, Sequences

CONSTANTS
  ToBuffer,      \* capacity of toNode
  FromBuffer,    \* capacity of fromNode
  Interval,      \* reconnect_interval
  MaxInterval,   \* max_reconnect_interval
  Heartbeats,    \* heartbeat_interval > 0
  MaxEpochs,     \* bound: connections made
  MaxFrames,     \* bound: frames read from the node and queued for it by others than Run
  Shutdown,      \* the context may be cancelled
  NodeReads      \* the node keeps reading what it is sent (only Fairness uses it)

ASSUME LinkAssumption ==
  /\ ToBuffer \in Nat \ {0} /\ FromBuffer \in Nat \ {0}
  /\ Interval \in Nat \ {0} /\ MaxInterval \in Nat /\ Interval <= MaxInterval
  /\ Heartbeats \in BOOLEAN /\ Shutdown \in BOOLEAN /\ NodeReads \in BOOLEAN
  /\ MaxEpochs \in Nat \ {0} /\ MaxFrames \in Nat

Epoch == 1 .. MaxEpochs

\* Nothing on the way to the node depends on what a frame says: a config
\* request, a heartbeat and a client's frame share the channel and the socket.
ToFrame   == {"frame"}
FromFrame == [epoch : Epoch, seq : Nat]

VARIABLES
  run,        \* where Run is
  epoch,      \* the number of connections made
  backoff,    \* the local `backoff` of Run
  connected,  \* metrics.NodeConnected
  conn,       \* each connection: "none", "open", "lost" (by the node), "closed"
  cancelled,  \* the context of its loops is cancelled
  reader,     \* its read loop: "none", "top", "reading", "passing", "exited"
  hand,       \* the frame the read loop passes on (<<>> or <<f>>)
  reads,      \* frames the read loop has read
  writer,     \* its write loop: "none", "run", "exited"
  writing,    \* the frame the write loop is writing (<<>> or <<f>>)
  heart,      \* its heartbeat loop: "none", "run", "exited"
  toNode,     \* the channel toNode
  fromNode,   \* the channel fromNode
  hubLog,     \* what the hub received from fromNode
  frames,     \* frames read, and sent by clients, refreshes and ticks
  ctxDone     \* the context of Run is cancelled

runVars  == <<run, epoch, backoff, connected>>
loopVars == <<cancelled, reader, hand, reads, writer, writing, heart>>
chanVars == <<toNode, fromNode>>
vars == <<runVars, conn, loopVars, chanVars, hubLog, frames, ctxDone>>

TypeOK ==
  /\ run \in {"dial", "retry", "request", "loops", "close", "drainTo", "recvTo",
              "drainFrom", "recvFrom", "pause", "returned"}
  /\ epoch \in 0 .. MaxEpochs
  /\ backoff \in Interval .. MaxInterval
  /\ connected \in BOOLEAN
  /\ conn \in [Epoch -> {"none", "open", "lost", "closed"}]
  /\ cancelled \in [Epoch -> BOOLEAN]
  /\ reader \in [Epoch -> {"none", "top", "reading", "passing", "exited"}]
  /\ hand \in [Epoch -> Seq(FromFrame)]
  /\ reads \in [Epoch -> Nat]
  /\ writer \in [Epoch -> {"none", "run", "exited"}]
  /\ writing \in [Epoch -> Seq(ToFrame)]
  /\ heart \in [Epoch -> {"none", "run", "exited"}]
  /\ toNode \in Seq(ToFrame)
  /\ fromNode \in Seq(FromFrame)
  /\ hubLog \in Seq(FromFrame)
  /\ frames \in Nat
  /\ ctxDone \in BOOLEAN

Init ==
  /\ run = "dial" /\ epoch = 0 /\ backoff = Interval /\ connected = FALSE
  /\ conn = [e \in Epoch |-> "none"]
  /\ cancelled = [e \in Epoch |-> FALSE]
  /\ reader = [e \in Epoch |-> "none"]
  /\ hand = [e \in Epoch |-> <<>>]
  /\ reads = [e \in Epoch |-> 0]
  /\ writer = [e \in Epoch |-> "none"]
  /\ writing = [e \in Epoch |-> <<>>]
  /\ heart = [e \in Epoch |-> "none"]
  /\ toNode = <<>> /\ fromNode = <<>>
  /\ hubLog = <<>> /\ frames = 0 /\ ctxDone = FALSE

\* Send: queue a frame, or drop it when the channel is full.
Send == toNode' = IF Len(toNode) < ToBuffer THEN Append(toNode, "frame") ELSE toNode

OneMoreFrame == frames < MaxFrames /\ frames' = frames + 1

Stopped(e) == cancelled[e] \/ ctxDone

Doubled == IF backoff * 2 <= MaxInterval THEN backoff * 2 ELSE MaxInterval

(***************************************************************************)
(* Run.                                                                    *)
(***************************************************************************)
StopAtTop ==
  /\ run = "dial" /\ ctxDone
  /\ run' = "returned"
  /\ UNCHANGED <<epoch, backoff, connected, conn, loopVars, chanVars, hubLog, frames, ctxDone>>

DialFails ==
  /\ run = "dial"
  /\ run' = "retry"
  /\ connected' = FALSE
  /\ UNCHANGED <<epoch, backoff, conn, loopVars, chanVars, hubLog, frames, ctxDone>>

DialSucceeds ==
  /\ run = "dial" /\ ~ctxDone
  /\ epoch < MaxEpochs
  /\ epoch' = epoch + 1
  /\ conn' = [conn EXCEPT ![epoch'] = "open"]
  /\ connected' = TRUE
  /\ backoff' = Interval
  /\ run' = "request"
  /\ UNCHANGED <<loopVars, chanVars, hubLog, frames, ctxDone>>

\* requestConfig, then runConnection starts the loops.
RequestAndStart ==
  /\ run = "request"
  /\ Send
  /\ run' = "loops"
  /\ reader' = [reader EXCEPT ![epoch] = "top"]
  /\ writer' = [writer EXCEPT ![epoch] = "run"]
  /\ heart' = [heart EXCEPT ![epoch] = IF Heartbeats THEN "run" ELSE "none"]
  /\ UNCHANGED <<epoch, backoff, connected, conn, cancelled, hand, reads, writing, fromNode,
                 hubLog, frames, ctxDone>>

\* runConnection returns on the first error or when the context ends.
OnlyWriterWatched(e) == writer[e] = "exited"

SomeLoopExited(e) == "exited" \in {reader[e], writer[e], heart[e]}

LoopsEnd ==
  /\ run = "loops"
  /\ SomeLoopExited(epoch) \/ ctxDone
  /\ cancelled' = [cancelled EXCEPT ![epoch] = TRUE]
  /\ connected' = FALSE
  /\ run' = "close"
  /\ UNCHANGED <<epoch, backoff, conn, reader, hand, reads, writer, writing, heart, chanVars,
                 hubLog, frames, ctxDone>>

CloseConnForgotten ==
  /\ run = "close"
  /\ run' = "drainTo"
  /\ UNCHANGED <<epoch, backoff, connected, conn, loopVars, chanVars, hubLog, frames, ctxDone>>

CloseConn ==
  /\ run = "close"
  /\ conn' = [conn EXCEPT ![epoch] = "closed"]
  /\ run' = "drainTo"
  /\ UNCHANGED <<epoch, backoff, connected, loopVars, chanVars, hubLog, frames, ctxDone>>

\* drainChannels: the length is tested, then a frame is received; the receive
\* waits when somebody else took the frame in between.
DrainTo ==
  /\ run = "drainTo"
  /\ run' = IF Len(toNode) > 0 THEN "recvTo" ELSE "drainFrom"
  /\ UNCHANGED <<epoch, backoff, connected, conn, loopVars, chanVars, hubLog, frames, ctxDone>>

RecvTo ==
  /\ run = "recvTo" /\ toNode # <<>>
  /\ toNode' = Tail(toNode)
  /\ run' = "drainTo"
  /\ UNCHANGED <<epoch, backoff, connected, conn, loopVars, fromNode, hubLog, frames, ctxDone>>

DrainFrom ==
  /\ run = "drainFrom"
  /\ run' = IF Len(fromNode) > 0 THEN "recvFrom" ELSE "pause"
  /\ UNCHANGED <<epoch, backoff, connected, conn, loopVars, chanVars, hubLog, frames, ctxDone>>

RecvFrom ==
  /\ run = "recvFrom" /\ fromNode # <<>>
  /\ fromNode' = Tail(fromNode)
  /\ run' = "drainFrom"
  /\ UNCHANGED <<epoch, backoff, connected, conn, loopVars, toNode, hubLog, frames, ctxDone>>

\* The wait of `backoff`, after a failed dial and after a lost connection.
Wait ==
  /\ run \in {"retry", "pause"}
  /\ \/ ctxDone /\ run' = "returned" /\ UNCHANGED backoff
     \/ run' = "dial" /\ backoff' = Doubled
  /\ UNCHANGED <<epoch, connected, conn, loopVars, chanVars, hubLog, frames, ctxDone>>

(***************************************************************************)
(* The loops of connection e.                                              *)
(***************************************************************************)
ReaderTop(e) ==
  /\ reader[e] = "top"
  /\ reader' = [reader EXCEPT ![e] = IF Stopped(e) THEN "exited" ELSE "reading"]
  /\ UNCHANGED <<runVars, conn, cancelled, hand, reads, writer, writing, heart, chanVars, hubLog,
                 frames, ctxDone>>

sendPostConfigHeartbeat == Send

\* A frame is read and handled; a completed config sequence is followed by a
\* heartbeat.  Frames read before the connection broke may still be buffered.
ReadFrame(e) ==
  /\ reader[e] = "reading"
  /\ OneMoreFrame
  /\ reads' = [reads EXCEPT ![e] = @ + 1]
  /\ hand' = [hand EXCEPT ![e] = <<[epoch |-> e, seq |-> reads[e] + 1]>>]
  /\ sendPostConfigHeartbeat \/ UNCHANGED toNode
  /\ reader' = [reader EXCEPT ![e] = "passing"]
  /\ UNCHANGED <<runVars, conn, cancelled, writer, writing, heart, fromNode, hubLog, ctxDone>>

\* A broken connection, or the read timeout.
ReadFails(e) ==
  /\ reader[e] = "reading"
  /\ reader' = [reader EXCEPT ![e] = "exited"]
  /\ UNCHANGED <<runVars, conn, cancelled, hand, reads, writer, writing, heart, chanVars, hubLog,
                 frames, ctxDone>>

\* The blocking send to the hub, given up when the context ends.
PassOnOrDrop(e) ==
  /\ reader[e] = "passing"
  /\ hand' = [hand EXCEPT ![e] = <<>>]
  /\ fromNode' = IF Len(fromNode) < FromBuffer THEN Append(fromNode, Head(hand[e])) ELSE fromNode
  /\ reader' = [reader EXCEPT ![e] = "top"]
  /\ UNCHANGED <<runVars, conn, cancelled, reads, writer, writing, heart, toNode, hubLog, frames, ctxDone>>

PassOn(e) ==
  /\ reader[e] = "passing"
  /\ hand' = [hand EXCEPT ![e] = <<>>]
  /\ \/ /\ Len(fromNode) < FromBuffer
        /\ fromNode' = Append(fromNode, Head(hand[e]))
        /\ reader' = [reader EXCEPT ![e] = "top"]
     \/ /\ Stopped(e)
        /\ reader' = [reader EXCEPT ![e] = "exited"]
        /\ UNCHANGED fromNode
  /\ UNCHANGED <<runVars, conn, cancelled, reads, writer, writing, heart, toNode, hubLog, frames, ctxDone>>

\* select picks either ready case: a cancelled loop may take one more frame.
WriterStops(e) ==
  /\ writer[e] = "run" /\ writing[e] = <<>> /\ Stopped(e)
  /\ writer' = [writer EXCEPT ![e] = "exited"]
  /\ UNCHANGED <<runVars, conn, cancelled, reader, hand, reads, writing, heart, chanVars,
                 hubLog, frames, ctxDone>>

WriterTakes(e) ==
  /\ writer[e] = "run" /\ writing[e] = <<>>
  /\ toNode # <<>>
  /\ writing' = [writing EXCEPT ![e] = <<Head(toNode)>>]
  /\ toNode' = Tail(toNode)
  /\ UNCHANGED <<runVars, conn, cancelled, reader, hand, reads, writer, heart, fromNode,
                 hubLog, frames, ctxDone>>

\* A write has no deadline.  It succeeds, on a connection the node has lost
\* without the node getting the frame, ...
WriteSucceeds(e) ==
  /\ writing[e] # <<>>
  /\ conn[e] \in {"open", "lost"}
  /\ writing' = [writing EXCEPT ![e] = <<>>]
  /\ UNCHANGED <<runVars, conn, cancelled, reader, hand, reads, writer, heart, chanVars, hubLog,
                 frames, ctxDone>>

\* ... or fails on a lost or closed one, the frame being gone.
WriteFails(e) ==
  /\ writing[e] # <<>>
  /\ conn[e] \in {"lost", "closed"}
  /\ writing' = [writing EXCEPT ![e] = <<>>]
  /\ writer' = [writer EXCEPT ![e] = "exited"]
  /\ UNCHANGED <<runVars, conn, cancelled, reader, hand, reads, heart, chanVars, hubLog,
                 frames, ctxDone>>

HeartTick(e) ==
  /\ heart[e] = "run"
  /\ OneMoreFrame
  /\ Send
  /\ UNCHANGED <<runVars, conn, loopVars, fromNode, hubLog, ctxDone>>

HeartStops(e) ==
  /\ heart[e] = "run" /\ Stopped(e)
  /\ heart' = [heart EXCEPT ![e] = "exited"]
  /\ UNCHANGED <<runVars, conn, cancelled, reader, hand, reads, writer, writing, chanVars, hubLog,
                 frames, ctxDone>>

(***************************************************************************)
(* The other side of the channels, and the environment.                    *)
(***************************************************************************)
\* The broadcast loop of the hub receives a frame.
HubReceives ==
  /\ fromNode # <<>>
  /\ hubLog' = Append(hubLog, Head(fromNode))
  /\ fromNode' = Tail(fromNode)
  /\ UNCHANGED <<runVars, conn, loopVars, toNode, frames, ctxDone>>

\* A client handler or the web chat sends a frame, or RequestConfigRefresh a
\* want_config_id, whether or not the node is connected.
SendToNode ==
  /\ OneMoreFrame
  /\ Send
  /\ UNCHANGED <<runVars, conn, loopVars, fromNode, hubLog, ctxDone>>

NodeDrops(e) ==
  /\ conn[e] = "open"
  /\ conn' = [conn EXCEPT ![e] = "lost"]
  /\ UNCHANGED <<runVars, loopVars, chanVars, hubLog, frames, ctxDone>>

Cancel ==
  /\ Shutdown /\ ~ctxDone
  /\ ctxDone' = TRUE
  /\ UNCHANGED <<runVars, conn, loopVars, chanVars, hubLog, frames>>

(***************************************************************************)
(* The specification.                                                      *)
(***************************************************************************)
RunStep ==
  \/ StopAtTop \/ DialFails \/ DialSucceeds \/ RequestAndStart \/ LoopsEnd \/ CloseConn
  \/ DrainTo \/ RecvTo \/ DrainFrom \/ RecvFrom \/ Wait

Next ==
  \/ RunStep
  \/ \E e \in Epoch : ReaderTop(e) \/ ReadFrame(e) \/ ReadFails(e) \/ PassOn(e)
  \/ \E e \in Epoch : WriterStops(e) \/ WriterTakes(e) \/ WriteSucceeds(e) \/ WriteFails(e)
  \/ \E e \in Epoch : HeartTick(e) \/ HeartStops(e)
  \/ HubReceives
  \/ SendToNode
  \/ \E e \in Epoch : NodeDrops(e)
  \/ Cancel

Spec == Init /\ [][Next]_vars

(***************************************************************************)
(* Fairness: goroutines that can run do; the dialer, the timers and the    *)
(* reads of a broken connection and the writes to a closed one return.     *)
(* Nothing makes the node accept the dial, send or read a frame or keep    *)
(* the connection (unless NodeReads), or a client send.                    *)
(***************************************************************************)
Fairness ==
  /\ WF_vars(RunStep)
  /\ WF_vars(HubReceives)
  /\ \A e \in Epoch :
       /\ WF_vars(ReaderTop(e) \/ PassOn(e))
       /\ WF_vars(conn[e] \in {"lost", "closed"} /\ ReadFails(e))
       /\ WF_vars(WriterStops(e) \/ WriterTakes(e))
       /\ WF_vars(conn[e] = "closed" /\ WriteFails(e))
       /\ NodeReads => WF_vars(WriteSucceeds(e))
       /\ WF_vars(HeartStops(e))

FairSpec == Spec /\ Fairness

(***************************************************************************)
(* Properties.                                                             *)
(***************************************************************************)
\* While a connection lives, every frame read on it is, in the order read and
\* without a gap or a repetition, with the hub, in fromNode or in the reader's
\* hand: a slow hub stops the reader instead of losing frames, and the drain
\* that clears fromNode never takes a frame of a living connection.
NothingLostWhileUp ==
  \A e \in Epoch : ~cancelled[e] /\ ~ctxDone =>
    LET kept == hubLog \o fromNode \o hand[e]
        ofE  == {i \in DOMAIN kept : kept[i].epoch = e}
    IN  /\ {kept[i].seq : i \in ofE} = 1 .. reads[e]
        /\ \A i, j \in ofE : i < j => kept[i].seq < kept[j].seq

\* NodeConnected is never left on over a connection Run has given up, and only
\* the newest connection is open.
OneConnection ==
  /\ \A e \in Epoch : conn[e] = "open" => e = epoch
  /\ connected => run \in {"request", "loops"} /\ conn[epoch] \in {"open", "lost"}

\* Types, the backoff within its bounds (connection.go:348, 361, 400), and OneConnection.
LinkInv == TypeOK /\ OneConnection

\* A connection that the node drops, or that Run gives up, comes to its end: Run
\* cancels it whatever its loops are waiting for at that moment, and all of them
\* return, none staying behind on a channel or on the dead socket
\* (connection.go:454-491).
LostConnectionEnds ==
  \A e \in Epoch :
    conn[e] = "lost" \/ cancelled[e]
      ~> /\ cancelled[e]
         /\ reader[e] = "exited" /\ writer[e] = "exited" /\ heart[e] \in {"none", "exited"}

\* connection.go:20-21, 322-323: Run reconnects after a loss, until the context
\* ends.
KeepsReconnecting == run = "close" ~> run \in {"dial", "returned"}
=============================================================================
