--------------------------- MODULE NodeLinkProofs ---------------------------
(***************************************************************************)
(* Proofs about NodeLink, for any buffers, intervals and number of         *)
(* connections and frames: there is one connection at a time, and          *)
(* nothing read on a living connection is lost on its way to the hub.      *)
(***************************************************************************)
EXTENDS NodeLink, SequenceTheorems, TLAPS

(***************************************************************************)
(* Types and the one connection.                                           *)
(***************************************************************************)
Up == run \in {"request", "loops"}

\* Only the newest connection has not been given up, and only while Run is
\* between its dial and its close; a connection not made yet is untouched.
OnlyNewestLives ==
  /\ \A e \in Epoch : e <= epoch => cancelled[e] \/ (e = epoch /\ Up)
  /\ \A e \in Epoch : e > epoch => reader[e] = "none"
  /\ run = "request" => reader[epoch] = "none"
  /\ Up \/ run = "close" => epoch \in Epoch
  /\ \A e \in Epoch : conn[e] = "open" => e = epoch /\ (Up \/ run = "close")
  /\ Up => conn[epoch] \in {"open", "lost"}
  /\ connected => Up

\* A reader has a frame in hand exactly while it passes it on: the last it read.
HandIsLastRead ==
  \A e \in Epoch :
    /\ reader[e] = "passing" => reads[e] # 0 /\ hand[e] = <<[epoch |-> e, seq |-> reads[e]]>>
    /\ reader[e] # "passing" => hand[e] = <<>>
    /\ reader[e] = "none" => reads[e] = 0

LinkIInv == TypeOK /\ OnlyNewestLives /\ HandIsLastRead

\* The empty sequence is a sequence of anything.
LEMMA EmptyIsSeq == \A S : <<>> \in Seq(S)
  OBVIOUS

\* Before the first dial nothing has been connected, read or sent
\* (connection.go:348).
LEMMA InitLink == Init => LinkIInv
<1> SUFFICES ASSUME Init PROVE LinkIInv
  OBVIOUS
<1>1. TypeOK
  <2>1. <<>> \in Seq(FromFrame) /\ <<>> \in Seq(ToFrame)
    BY EmptyIsSeq
  <2>2. hand \in [Epoch -> Seq(FromFrame)] /\ writing \in [Epoch -> Seq(ToFrame)]
    BY <2>1 DEF Init
  <2>3. epoch \in 0 .. MaxEpochs /\ backoff \in Interval .. MaxInterval
    BY LinkAssumption DEF Init
  <2>4. toNode \in Seq(ToFrame) /\ fromNode \in Seq(FromFrame) /\ hubLog \in Seq(FromFrame)
    BY <2>1 DEF Init
  <2>5. reads \in [Epoch -> Nat] /\ frames \in Nat
    BY DEF Init
  <2> QED
    BY <2>2, <2>3, <2>4, <2>5 DEF Init, TypeOK
<1>2. OnlyNewestLives
  BY DEF Init, OnlyNewestLives, Up, Epoch
<1>3. HandIsLastRead
  BY DEF Init, HandIsLastRead
<1> QED
  BY <1>1, <1>2, <1>3 DEF LinkIInv

\* The doubled backoff stays within its bounds (connection.go:361-364, 400-403).
LEMMA DoubledBounded == ASSUME TypeOK PROVE Doubled \in Interval .. MaxInterval
<1> SUFFICES ASSUME backoff * 2 <= MaxInterval PROVE backoff * 2 \in Interval .. MaxInterval
  BY LinkAssumption DEF Doubled
<1>1. backoff \in Nat /\ Interval <= backoff
  BY LinkAssumption DEF TypeOK
<1> QED
  BY <1>1, LinkAssumption

\* Send keeps toNode a sequence of frames (connection.go:102-110).
LEMMA SendKeepsType ==
  ASSUME TypeOK, Send
  PROVE  toNode' \in Seq(ToFrame)
  BY DEF TypeOK, Send, ToFrame

\* The steps of Run that touch neither a connection nor a loop nor a channel
\* (connection.go:349-366, 389-403).
LEMMA RunIdles ==
  ASSUME LinkIInv, StopAtTop \/ DialFails \/ DrainTo \/ DrainFrom \/ Wait
  PROVE  LinkIInv'
<1>1. /\ UNCHANGED <<epoch, conn, loopVars, chanVars, hubLog, frames, ctxDone>>
      /\ run \in {"dial", "drainTo", "drainFrom", "retry", "pause"}
      /\ run' \in {"returned", "retry", "recvTo", "drainFrom", "recvFrom", "pause", "dial"}
      /\ connected' \in {connected, FALSE}
      /\ backoff' \in {backoff, Doubled}
  BY DEF StopAtTop, DialFails, DrainTo, DrainFrom, Wait
<1>2. TypeOK'
  BY <1>1, DoubledBounded DEF LinkIInv, TypeOK, loopVars, chanVars
<1>3. OnlyNewestLives'
  <2>1. ~Up /\ run # "close" /\ ~Up' /\ run' # "close"
    BY <1>1 DEF Up
  <2>2. connected' = FALSE
    BY <1>1, <2>1 DEF LinkIInv, TypeOK, OnlyNewestLives
  <2> QED
    BY <1>1, <2>1, <2>2 DEF LinkIInv, OnlyNewestLives, Up, loopVars
<1>4. HandIsLastRead'
  BY <1>1 DEF LinkIInv, HandIsLastRead, loopVars
<1> QED
  BY <1>2, <1>3, <1>4 DEF LinkIInv

\* A new connection (connection.go:353-372): all before it have been given up.
LEMMA DialKeepsLink == ASSUME LinkIInv, DialSucceeds PROVE LinkIInv'
<1> USE DEF DialSucceeds
<1>1. epoch \in 0 .. MaxEpochs /\ MaxEpochs \in Nat /\ epoch' \in Epoch /\ epoch' = epoch + 1
  BY LinkAssumption DEF LinkIInv, TypeOK, Epoch
<1>2. TypeOK'
  BY <1>1, LinkAssumption DEF LinkIInv, TypeOK, loopVars, chanVars, Epoch
<1>3. OnlyNewestLives'
  <2>1. \A e \in Epoch : e <= epoch => cancelled[e]
    BY DEF LinkIInv, OnlyNewestLives, Up
  <2>2. \A e \in Epoch : conn[e] # "open"
    BY DEF LinkIInv, OnlyNewestLives, Up
  <2>3. \A e \in Epoch : e <= epoch' => cancelled'[e] \/ e = epoch'
    BY <1>1, <2>1 DEF loopVars, Epoch
  <2>4. \A e \in Epoch : conn'[e] = "open" => e = epoch'
    BY <1>1, <2>2 DEF LinkIInv, TypeOK
  <2>5. conn'[epoch'] = "open"
    BY <1>1 DEF LinkIInv, TypeOK
  <2>6. \A e \in Epoch : e >= epoch' => reader'[e] = "none"
    BY <1>1 DEF LinkIInv, OnlyNewestLives, loopVars, Epoch
  <2>7. \A e \in Epoch : e > epoch' => reader'[e] = "none"
    BY <1>1, <2>6 DEF Epoch
  <2>8. reader'[epoch'] = "none"
    BY <1>1, <2>6 DEF Epoch
  <2> QED
    BY <1>1, <2>3, <2>4, <2>5, <2>7, <2>8 DEF OnlyNewestLives, Up
<1>4. HandIsLastRead'
  BY DEF LinkIInv, HandIsLastRead, loopVars
<1> QED
  BY <1>2, <1>3, <1>4 DEF LinkIInv

\* The loops of the connection start (connection.go:374-384, 454-470).
LEMMA StartKeepsLink == ASSUME LinkIInv, RequestAndStart PROVE LinkIInv'
<1> USE DEF RequestAndStart
<1>1. epoch \in Epoch
  BY DEF LinkIInv, OnlyNewestLives, Up
<1>2. TypeOK'
  <2>1. toNode' \in Seq(ToFrame)
    BY SendKeepsType DEF LinkIInv
  <2> QED
    BY <2>1 DEF LinkIInv, TypeOK
<1>3. OnlyNewestLives'
  <2>1. \A e \in Epoch : e > epoch => reader'[e] = "none"
    BY <1>1 DEF LinkIInv, OnlyNewestLives, TypeOK, Epoch
  <2> QED
    BY <1>1, <2>1 DEF LinkIInv, OnlyNewestLives, Up
<1>4. HandIsLastRead'
  BY <1>1 DEF LinkIInv, HandIsLastRead, TypeOK, OnlyNewestLives
<1> QED
  BY <1>2, <1>3, <1>4 DEF LinkIInv

\* Run gives the connection up and closes it (connection.go:386-398, 480-491).
LEMMA EndKeepsLink == ASSUME LinkIInv, LoopsEnd \/ CloseConn PROVE LinkIInv'
<1>1. epoch \in Epoch
  BY DEF LinkIInv, OnlyNewestLives, Up, LoopsEnd, CloseConn
<1>2. TypeOK'
  BY <1>1 DEF LinkIInv, TypeOK, LoopsEnd, CloseConn, loopVars, chanVars
<1>3. CASE LoopsEnd
  <2> USE <1>3 DEF LoopsEnd
  <2>1. \A e \in Epoch : e <= epoch => cancelled'[e]
    BY <1>1 DEF LinkIInv, TypeOK, OnlyNewestLives
  <2>2. OnlyNewestLives'
    BY <1>1, <2>1 DEF LinkIInv, OnlyNewestLives, Up
  <2>3. HandIsLastRead'
    BY DEF LinkIInv, HandIsLastRead
  <2> QED
    BY <1>2, <2>2, <2>3 DEF LinkIInv
<1>4. CASE CloseConn
  <2> USE <1>4 DEF CloseConn
  <2>1. \A e \in Epoch : conn'[e] # "open"
    BY <1>1 DEF LinkIInv, TypeOK, OnlyNewestLives
  <2>2. OnlyNewestLives'
    BY <1>1, <2>1 DEF LinkIInv, OnlyNewestLives, Up, loopVars
  <2>3. HandIsLastRead'
    BY DEF LinkIInv, HandIsLastRead, loopVars
  <2> QED
    BY <1>2, <2>2, <2>3 DEF LinkIInv
<1> QED
  BY <1>3, <1>4

\* The steps that only move the frames of the channels (connection.go:102-110,
\* 415-426, and the broadcast loop's receive).
LEMMA ChannelsKeepLink ==
  ASSUME LinkIInv,
         \/ RecvTo \/ RecvFrom \/ HubReceives
         \/ \E e \in Epoch : HeartTick(e)
         \/ SendToNode
  PROVE  LinkIInv'
<1>1. UNCHANGED <<epoch, backoff, connected, conn, loopVars, ctxDone>>
  BY DEF RecvTo, RecvFrom, HubReceives, HeartTick, SendToNode, runVars
<1>2. \/ UNCHANGED run
      \/ run \in {"recvTo", "recvFrom"} /\ run' \in {"drainTo", "drainFrom"}
  BY DEF RecvTo, RecvFrom, HubReceives, HeartTick, SendToNode, runVars
<1>3. toNode' \in Seq(ToFrame) /\ fromNode' \in Seq(FromFrame) /\ hubLog' \in Seq(FromFrame)
      /\ frames' \in Nat
  <2>1. CASE RecvTo
    BY <2>1, HeadTailProperties DEF RecvTo, LinkIInv, TypeOK
  <2>2. CASE RecvFrom
    BY <2>2, HeadTailProperties DEF RecvFrom, LinkIInv, TypeOK
  <2>3. CASE HubReceives
    BY <2>3, HeadTailProperties, AppendProperties DEF HubReceives, LinkIInv, TypeOK
  <2>4. CASE \E e \in Epoch : HeartTick(e)
    BY <2>4, SendKeepsType DEF HeartTick, OneMoreFrame, LinkIInv, TypeOK
  <2>5. CASE SendToNode
    BY <2>5, SendKeepsType DEF SendToNode, OneMoreFrame, LinkIInv, TypeOK
  <2> QED
    BY <2>1, <2>2, <2>3, <2>4, <2>5
<1>4. TypeOK'
  BY <1>1, <1>2, <1>3 DEF LinkIInv, TypeOK, loopVars
<1>5. OnlyNewestLives'
  BY <1>1, <1>2 DEF LinkIInv, TypeOK, OnlyNewestLives, Up, loopVars
<1>6. HandIsLastRead'
  BY <1>1 DEF LinkIInv, HandIsLastRead, loopVars
<1> QED
  BY <1>4, <1>5, <1>6 DEF LinkIInv

\* The read loop (connection.go:493-587).
LEMMA ReaderKeepsLink ==
  ASSUME LinkIInv, NEW e \in Epoch, ReaderTop(e) \/ ReadFrame(e) \/ ReadFails(e) \/ PassOn(e)
  PROVE  LinkIInv'
<1>1. /\ UNCHANGED <<runVars, conn, cancelled, writer, writing, heart, hubLog, ctxDone>>
      /\ frames' \in Nat
  BY DEF ReaderTop, ReadFrame, ReadFails, PassOn, OneMoreFrame, LinkIInv, TypeOK
<1>2. /\ reader[e] # "none"
      /\ reader' \in [Epoch -> {"none", "top", "reading", "passing", "exited"}]
      /\ \A d \in Epoch \ {e} : reader'[d] = reader[d]
  BY DEF ReaderTop, ReadFrame, ReadFails, PassOn, LinkIInv, TypeOK
<1>3. toNode' \in Seq(ToFrame)
  BY SendKeepsType
  DEF ReaderTop, ReadFrame, ReadFails, PassOn, LinkIInv, TypeOK, chanVars,
      sendPostConfigHeartbeat
<1>4. reads' \in [Epoch -> Nat] /\ hand' \in [Epoch -> Seq(FromFrame)]
  <2>1. CASE ReadFrame(e)
    <3>1. [epoch |-> e, seq |-> reads[e] + 1] \in FromFrame
      BY DEF LinkIInv, TypeOK, FromFrame
    <3>2. <<[epoch |-> e, seq |-> reads[e] + 1]>> \in Seq(FromFrame)
      BY <3>1
    <3> QED
      BY <2>1, <3>2 DEF ReadFrame, LinkIInv, TypeOK
  <2>2. CASE ~ReadFrame(e)
    <3>1. <<>> \in Seq(FromFrame)
      BY EmptyIsSeq
    <3> QED
      BY <2>2, <3>1 DEF ReaderTop, ReadFails, PassOn, LinkIInv, TypeOK
  <2> QED
    BY <2>1, <2>2
<1>5. fromNode' \in Seq(FromFrame)
  <2>1. CASE PassOn(e)
    <3>1. hand[e] = <<[epoch |-> e, seq |-> reads[e]]>> /\ reads[e] \in Nat
      BY <2>1 DEF PassOn, LinkIInv, HandIsLastRead, TypeOK
    <3>2. Head(hand[e]) \in FromFrame
      BY <3>1 DEF FromFrame
    <3>3. fromNode \in Seq(FromFrame)
      BY DEF LinkIInv, TypeOK
    <3>4. Append(fromNode, Head(hand[e])) \in Seq(FromFrame)
      BY <3>2, <3>3, AppendProperties
    <3>5. fromNode' \in {fromNode, Append(fromNode, Head(hand[e]))}
      BY <2>1 DEF PassOn
    <3> QED
      BY <3>3, <3>4, <3>5
  <2>2. CASE ~PassOn(e)
    BY <2>2 DEF ReaderTop, ReadFrame, ReadFails, LinkIInv, TypeOK, chanVars
  <2> QED
    BY <2>1, <2>2
<1>6. TypeOK'
  BY <1>1, <1>2, <1>3, <1>4, <1>5 DEF LinkIInv, TypeOK, runVars
<1>7. OnlyNewestLives'
  <2>1. ~(e > epoch) /\ (run = "request" => e # epoch)
    BY <1>2 DEF LinkIInv, OnlyNewestLives
  <2>2. run = "request" => epoch \in Epoch
    BY DEF LinkIInv, OnlyNewestLives, Up
  <2> QED
    BY <1>1, <1>2, <2>1, <2>2 DEF LinkIInv, OnlyNewestLives, Up, runVars
<1>8. HandIsLastRead'
  <2>1. CASE ReadFrame(e)
    <3>1. reads[e] \in Nat
      BY DEF LinkIInv, TypeOK
    <3> QED
      BY <2>1, <3>1 DEF ReadFrame, LinkIInv, HandIsLastRead, TypeOK
  <2>2. CASE ~ReadFrame(e)
    BY <2>2 DEF ReaderTop, ReadFails, PassOn, LinkIInv, HandIsLastRead, TypeOK
  <2> QED
    BY <2>1, <2>2
<1> QED
  BY <1>6, <1>7, <1>8 DEF LinkIInv

\* The write and heartbeat loops and the node (connection.go:589-665).
LEMMA OthersKeepLink ==
  ASSUME LinkIInv, NEW e \in Epoch,
         \/ WriterStops(e) \/ WriterTakes(e) \/ WriteSucceeds(e) \/ WriteFails(e)
         \/ HeartStops(e) \/ NodeDrops(e) \/ Cancel
  PROVE  LinkIInv'
<1>1. /\ UNCHANGED <<runVars, cancelled, reader, hand, reads, fromNode, hubLog, frames>>
      /\ \/ UNCHANGED conn
         \/ conn[e] = "open" /\ conn' = [conn EXCEPT ![e] = "lost"]
  BY DEF WriterStops, WriterTakes, WriteSucceeds, WriteFails, HeartStops, NodeDrops, Cancel,
         loopVars, chanVars
<1>2. /\ writer' \in [Epoch -> {"none", "run", "exited"}]
      /\ heart' \in [Epoch -> {"none", "run", "exited"}]
      /\ ctxDone' \in BOOLEAN
  BY DEF WriterStops, WriterTakes, WriteSucceeds, WriteFails, HeartStops, NodeDrops, Cancel,
         loopVars, chanVars, LinkIInv, TypeOK
<1>3. writing' \in [Epoch -> Seq(ToFrame)] /\ toNode' \in Seq(ToFrame)
  <2>1. CASE WriterTakes(e)
    <3>1. Head(toNode) \in ToFrame /\ Tail(toNode) \in Seq(ToFrame)
      BY <2>1, HeadTailProperties DEF WriterTakes, LinkIInv, TypeOK
    <3>2. <<Head(toNode)>> \in Seq(ToFrame)
      BY <3>1
    <3> QED
      BY <2>1, <3>1, <3>2 DEF WriterTakes, LinkIInv, TypeOK
  <2>2. CASE ~WriterTakes(e)
    <3>1. <<>> \in Seq(ToFrame)
      BY EmptyIsSeq
    <3> QED
      BY <2>2, <3>1 DEF WriterStops, WriteSucceeds, WriteFails, HeartStops, NodeDrops, Cancel,
                        loopVars, chanVars, LinkIInv, TypeOK
  <2> QED
    BY <2>1, <2>2
<1>4. TypeOK'
  BY <1>1, <1>2, <1>3 DEF LinkIInv, TypeOK, runVars
<1>5. OnlyNewestLives'
  BY <1>1 DEF LinkIInv, TypeOK, OnlyNewestLives, Up, runVars
<1>6. HandIsLastRead'
  BY <1>1 DEF LinkIInv, HandIsLastRead
<1> QED
  BY <1>4, <1>5, <1>6 DEF LinkIInv

\* Every step keeps the invariant.
LEMMA LinkStep == LinkIInv /\ [Next]_vars => LinkIInv'
<1> SUFFICES ASSUME LinkIInv, [Next]_vars PROVE LinkIInv'
  OBVIOUS
<1>1. CASE RunStep
  BY <1>1, RunIdles, DialKeepsLink, StartKeepsLink, EndKeepsLink, ChannelsKeepLink DEF RunStep
<1>2. CASE \E e \in Epoch : ReaderTop(e) \/ ReadFrame(e) \/ ReadFails(e) \/ PassOn(e)
  BY <1>2, ReaderKeepsLink
<1>3. CASE \E e \in Epoch : WriterStops(e) \/ WriterTakes(e) \/ WriteSucceeds(e) \/ WriteFails(e)
  BY <1>3, OthersKeepLink
<1>4. CASE \E e \in Epoch : HeartTick(e) \/ HeartStops(e)
  BY <1>4, OthersKeepLink, ChannelsKeepLink
<1>5. CASE HubReceives \/ SendToNode
  BY <1>5, ChannelsKeepLink
<1>6. CASE \E e \in Epoch : NodeDrops(e)
  BY <1>6, OthersKeepLink
<1>7. CASE Cancel
  <2>1. 1 \in Epoch
    BY LinkAssumption DEF Epoch
  <2> QED
    BY <1>7, <2>1, OthersKeepLink
<1>8. CASE UNCHANGED vars
  BY <1>8 DEF vars, runVars, loopVars, chanVars, LinkIInv, TypeOK, OnlyNewestLives, Up,
              HandIsLastRead
<1> QED
  BY <1>1, <1>2, <1>3, <1>4, <1>5, <1>6, <1>7, <1>8 DEF Next

\* There is never a second open connection, NodeConnected never outlives the
\* connection it is about, the backoff stays within its bounds, and every
\* variable within its type (connection.go:339-405, 454-491).
THEOREM LinkSound == Spec => []LinkInv
<1>1. LinkIInv => LinkInv
  BY DEF LinkIInv, LinkInv, OnlyNewestLives, OneConnection, Up
<1> QED
  BY InitLink, LinkStep, <1>1, PTL DEF Spec

(***************************************************************************)
(* The frames on their way to the hub.                                     *)
(***************************************************************************)
Pipe == hubLog \o fromNode

\* The frames of connection e that have left its reader.
Passed(e) == IF reader[e] = "passing" THEN reads[e] - 1 ELSE reads[e]

\* The frames of connection e in q are 1 to n, in order.
InOrder(q, e, n) ==
  /\ \A k \in 1 .. n : \E i \in DOMAIN q : q[i].epoch = e /\ q[i].seq = k
  /\ \A i \in DOMAIN q : q[i].epoch = e => q[i].seq \in 1 .. n
  /\ \A i, j \in DOMAIN q : i < j /\ q[i].epoch = e /\ q[j].epoch = e => q[i].seq < q[j].seq

\* Those of a living connection are in the pipe.
PipeInOrder ==
  \A e \in Epoch : ~cancelled[e] /\ ~ctxDone => InOrder(Pipe, e, Passed(e))

FlowIInv == LinkIInv /\ PipeInOrder

\* What the pipe is made of.
LEMMA PipeType ==
  ASSUME LinkIInv
  PROVE  /\ hubLog \in Seq(FromFrame) /\ fromNode \in Seq(FromFrame)
         /\ Pipe \in Seq(FromFrame)
         /\ Len(Pipe) = Len(hubLog) + Len(fromNode)
         /\ \A i \in 1 .. Len(hubLog) + Len(fromNode) :
              Pipe[i] = IF i <= Len(hubLog) THEN hubLog[i] ELSE fromNode[i - Len(hubLog)]
  BY ConcatProperties DEF LinkIInv, TypeOK, Pipe

\* In the beginning the pipe is empty.
LEMMA InitFlow == Init => FlowIInv
<1> SUFFICES ASSUME Init PROVE PipeInOrder
  BY InitLink DEF FlowIInv
<1>1. Pipe = <<>>
  <2>1. hubLog = <<>> /\ fromNode = <<>>
    BY DEF Init
  <2> QED
    BY <2>1 DEF Pipe
<1>2. \A e \in Epoch : Passed(e) = 0
  BY DEF Init, Passed
<1>3. \A e \in Epoch : InOrder(<<>>, e, 0)
  BY DEF InOrder
<1> QED
  BY <1>1, <1>2, <1>3 DEF PipeInOrder

\* A frame that the hub receives stays in the pipe, at its place (proxy.go:237).
LEMMA ReceivePipe == ASSUME LinkIInv, LinkIInv', HubReceives PROVE Pipe' = Pipe
<1> USE DEF HubReceives
<1>1. Len(fromNode) > 0 /\ Len(fromNode) \in Nat /\ Len(hubLog) \in Nat
  BY DEF LinkIInv, TypeOK
<1>2. /\ Head(fromNode) \in FromFrame
      /\ Head(fromNode) = fromNode[1]
      /\ Len(fromNode') = Len(fromNode) - 1
      /\ \A i \in 1 .. Len(fromNode) - 1 : fromNode'[i] = fromNode[i + 1]
  BY HeadTailProperties DEF LinkIInv, TypeOK
<1>3. /\ Len(hubLog') = Len(hubLog) + 1
      /\ \A i \in 1 .. Len(hubLog) : hubLog'[i] = hubLog[i]
      /\ hubLog'[Len(hubLog) + 1] = fromNode[1]
  BY <1>2, AppendProperties DEF LinkIInv, TypeOK
<1>4. /\ Pipe' \in Seq(FromFrame)
      /\ Len(Pipe') = Len(hubLog') + Len(fromNode')
      /\ \A i \in 1 .. Len(hubLog') + Len(fromNode') :
           Pipe'[i] = IF i <= Len(hubLog') THEN hubLog'[i] ELSE fromNode'[i - Len(hubLog')]
  BY ConcatProperties DEF LinkIInv, TypeOK, Pipe
<1>0. /\ Len(Pipe) = Len(hubLog) + Len(fromNode)
      /\ \A i \in 1 .. Len(hubLog) + Len(fromNode) :
           Pipe[i] = IF i <= Len(hubLog) THEN hubLog[i] ELSE fromNode[i - Len(hubLog)]
  BY PipeType
<1> HIDE DEF HubReceives
<1>5. Len(Pipe') = Len(Pipe)
  BY <1>0, <1>1, <1>2, <1>3, <1>4
<1>6. ASSUME NEW i \in 1 .. Len(Pipe') PROVE Pipe'[i] = Pipe[i]
  <2>1. i \in 1 .. Len(hubLog) + Len(fromNode) /\ i \in 1 .. Len(hubLog') + Len(fromNode')
    BY <1>4, <1>5, <1>0
  <2>2. CASE i <= Len(hubLog)
    BY <2>1, <2>2, <1>1, <1>3, <1>4, <1>0
  <2>3. CASE i = Len(hubLog) + 1
    BY <2>1, <2>3, <1>1, <1>3, <1>4, <1>0
  <2>4. CASE i > Len(hubLog) + 1
    <3>1. i - Len(hubLog') \in 1 .. Len(fromNode) - 1 /\ i - Len(hubLog') + 1 = i - Len(hubLog)
      BY <2>1, <2>4, <1>1, <1>3
    <3>2. Pipe'[i] = fromNode'[i - Len(hubLog')]
      BY <2>1, <2>4, <1>1, <1>3, <1>4
    <3>3. Pipe[i] = fromNode[i - Len(hubLog)]
      BY <2>1, <2>4, <1>1, <1>0
    <3> QED
      BY <3>1, <3>2, <3>3, <1>2
  <2> QED
    BY <2>1, <2>2, <2>3, <2>4, <1>1
<1> QED
  BY <1>4, <1>5, <1>6, PipeType, SeqEqual

\* A frame that a reader passes on becomes the last of the pipe
\* (connection.go:575-580).
LEMMA AppendPipe ==
  ASSUME LinkIInv, NEW f \in FromFrame, fromNode' = Append(fromNode, f), hubLog' = hubLog
  PROVE  Pipe' = Append(Pipe, f)
<1>1. /\ hubLog \in Seq(FromFrame) /\ fromNode \in Seq(FromFrame) /\ <<f>> \in Seq(FromFrame)
      /\ Pipe \in Seq(FromFrame)
  BY PipeType
<1>2. Pipe' = hubLog \o (fromNode \o <<f>>)
  BY <1>1, AppendIsConcat DEF Pipe
<1>3. Pipe' = (hubLog \o fromNode) \o <<f>>
  BY <1>1, <1>2, ConcatAssociative
<1> QED
  BY <1>1, <1>3, AppendIsConcat DEF Pipe

\* The frame after the last one of its connection keeps that connection's
\* frames in order, and those of every other as they were.
LEMMA AppendInOrder ==
  ASSUME NEW q \in Seq(FromFrame), NEW f \in FromFrame, NEW e \in Epoch, NEW n \in Nat,
         InOrder(q, e, n)
  PROVE  /\ f.epoch = e /\ f.seq = n + 1 => InOrder(Append(q, f), e, n + 1)
         /\ f.epoch # e => InOrder(Append(q, f), e, n)
<1> DEFINE p == Append(q, f)
           l == Len(q)
<1>1. /\ l \in Nat /\ DOMAIN q = 1 .. l /\ DOMAIN p = 1 .. l + 1
      /\ p[l + 1] = f
      /\ \A i \in 1 .. l : p[i] = q[i]
  BY AppendProperties, LenProperties
<1> HIDE DEF p, l
<1>2. \A i \in DOMAIN p : (i \in DOMAIN q /\ p[i] = q[i]) \/ (i = l + 1 /\ p[i] = f)
  BY <1>1
<1>3. ASSUME f.epoch = e, f.seq = n + 1 PROVE InOrder(p, e, n + 1)
  <2>1. \A k \in 1 .. n + 1 : \E i \in DOMAIN p : p[i].epoch = e /\ p[i].seq = k
    <3> SUFFICES ASSUME NEW k \in 1 .. n + 1
                 PROVE  \E i \in DOMAIN p : p[i].epoch = e /\ p[i].seq = k
      OBVIOUS
    <3>1. CASE k = n + 1
      <4>1. l + 1 \in DOMAIN p
        BY <1>1
      <4> QED
        BY <1>1, <1>3, <3>1, <4>1
    <3>2. CASE k # n + 1
      <4>1. k \in 1 .. n
        BY <3>2
      <4>2. PICK i \in DOMAIN q : q[i].epoch = e /\ q[i].seq = k
        BY <4>1 DEF InOrder
      <4>3. i \in DOMAIN p /\ p[i] = q[i]
        BY <1>1
      <4> QED
        BY <4>2, <4>3
    <3> QED
      BY <3>1, <3>2
  <2>2. \A i \in DOMAIN p : p[i].epoch = e => p[i].seq \in 1 .. n + 1
    BY <1>2, <1>3 DEF InOrder
  <2>3. ASSUME NEW i \in DOMAIN p, NEW j \in DOMAIN p, i < j, p[i].epoch = e, p[j].epoch = e
        PROVE  p[i].seq < p[j].seq
    <3>1. i \in DOMAIN q /\ p[i] = q[i]
      BY <1>1, <1>2, <2>3
    <3>2. CASE j \in DOMAIN q /\ p[j] = q[j]
      BY <3>1, <3>2, <2>3 DEF InOrder
    <3>3. CASE p[j] = f
      <4>1. q[i].seq \in 1 .. n
        BY <3>1, <2>3 DEF InOrder
      <4> QED
        BY <3>1, <3>3, <4>1, <1>3
    <3> QED
      BY <1>2, <3>2, <3>3
  <2> QED
    BY <2>1, <2>2, <2>3 DEF InOrder
<1>4. ASSUME f.epoch # e PROVE InOrder(p, e, n)
  <2>1. \A i \in DOMAIN p : p[i].epoch = e => i \in DOMAIN q /\ p[i] = q[i]
    BY <1>2, <1>4
  <2>2. \A i \in DOMAIN q : i \in DOMAIN p /\ p[i] = q[i]
    BY <1>1
  <2> QED
    BY <2>1, <2>2 DEF InOrder
<1> QED
  BY <1>3, <1>4 DEF p

\* The drain takes the head of fromNode, which is of a connection that has been
\* given up: no frame of another is in the pipe then (connection.go:415-426).
LEMMA DrainKeepsOrder == ASSUME FlowIInv, LinkIInv', RecvFrom PROVE PipeInOrder'
<1> USE DEF RecvFrom
<1> SUFFICES ASSUME NEW e \in Epoch, ~cancelled'[e], ~ctxDone' PROVE InOrder(Pipe', e, Passed(e)')
  BY DEF PipeInOrder
<1>1. ~cancelled[e] /\ ~ctxDone /\ Passed(e)' = Passed(e)
  BY DEF loopVars, Passed
<1>2. ~(e <= epoch)
  BY <1>1 DEF FlowIInv, LinkIInv, OnlyNewestLives, Up
<1>3. epoch \in Nat /\ e \in Nat
  BY LinkAssumption DEF FlowIInv, LinkIInv, TypeOK, Epoch
<1>4. reader[e] = "none" /\ reads[e] = 0
  <2>1. e > epoch
    BY <1>2, <1>3
  <2> QED
    BY <2>1 DEF FlowIInv, LinkIInv, OnlyNewestLives, HandIsLastRead
<1>5. Passed(e) = 0 /\ InOrder(Pipe, e, 0)
  BY <1>1, <1>4 DEF FlowIInv, PipeInOrder, Passed
<1>6. /\ DOMAIN Pipe = 1 .. Len(hubLog) + Len(fromNode)
      /\ \A i \in 1 .. Len(hubLog) + Len(fromNode) :
           Pipe[i] = IF i <= Len(hubLog) THEN hubLog[i] ELSE fromNode[i - Len(hubLog)]
  BY PipeType, LenProperties DEF FlowIInv
<1>7. \A i \in DOMAIN Pipe : Pipe[i].epoch # e
  BY <1>5 DEF InOrder
<1>8. /\ DOMAIN Pipe' = 1 .. Len(hubLog) + Len(fromNode')
      /\ \A i \in 1 .. Len(hubLog) + Len(fromNode') :
           Pipe'[i] = IF i <= Len(hubLog) THEN hubLog[i] ELSE fromNode'[i - Len(hubLog)]
  BY ConcatProperties, LenProperties DEF LinkIInv, TypeOK, Pipe
<1>9. /\ Len(fromNode') = Len(fromNode) - 1
      /\ \A i \in 1 .. Len(fromNode) - 1 : fromNode'[i] = fromNode[i + 1]
      /\ Len(hubLog) \in Nat /\ Len(fromNode) \in Nat \ {0}
  BY HeadTailProperties DEF FlowIInv, LinkIInv, TypeOK
<1> HIDE DEF RecvFrom
<1>10. ASSUME NEW i \in 1 .. Len(hubLog) + Len(fromNode')
       PROVE  \E j \in DOMAIN Pipe : Pipe'[i] = Pipe[j]
  <2>1. CASE i <= Len(hubLog)
    <3>1. i \in 1 .. Len(hubLog) + Len(fromNode)
      BY <2>1, <1>9
    <3>2. Pipe[i] = hubLog[i]
      BY <2>1, <3>1, <1>6
    <3>3. Pipe'[i] = hubLog[i]
      BY <2>1, <1>8
    <3> QED
      BY <3>1, <3>2, <3>3, <1>6
  <2>2. CASE ~(i <= Len(hubLog))
    <3>1. PICK k \in 1 .. Len(hubLog) + Len(fromNode) : k = i + 1
      BY <1>9
    <3>2. /\ ~(k <= Len(hubLog))
          /\ i - Len(hubLog) \in 1 .. Len(fromNode) - 1
          /\ i - Len(hubLog) + 1 = k - Len(hubLog)
      BY <2>2, <3>1, <1>9
    <3>3. Pipe[k] = fromNode[k - Len(hubLog)]
      BY <3>2, <1>6
    <3>4. Pipe'[i] = fromNode'[i - Len(hubLog)]
      BY <2>2, <1>8
    <3> QED
      BY <3>2, <3>3, <3>4, <1>6, <1>9
  <2> QED
    BY <2>1, <2>2
<1>11. \A i \in DOMAIN Pipe' : Pipe'[i].epoch # e
  BY <1>7, <1>8, <1>10
<1> QED
  BY <1>1, <1>5, <1>11 DEF InOrder

\* The reader passes its frame on, or gives it up with its connection
\* (connection.go:575-586).
LEMMA PassKeepsOrder == ASSUME FlowIInv, NEW e \in Epoch, PassOn(e) PROVE PipeInOrder'
<1> USE DEF PassOn
<1> SUFFICES ASSUME NEW d \in Epoch, ~cancelled'[d], ~ctxDone' PROVE InOrder(Pipe', d, Passed(d)')
  BY DEF PipeInOrder
<1>1. InOrder(Pipe, d, Passed(d)) /\ ~cancelled[d] /\ ~ctxDone
  BY DEF FlowIInv, PipeInOrder
<1>2. /\ reads[e] \in Nat \ {0} /\ hand[e] = <<[epoch |-> e, seq |-> reads[e]]>>
      /\ reads[d] \in Nat /\ (reader[d] = "passing" => reads[d] # 0)
  BY DEF FlowIInv, LinkIInv, HandIsLastRead, TypeOK
<1> DEFINE f == [epoch |-> e, seq |-> reads[e]]
<1>3. Head(hand[e]) = f /\ f \in FromFrame
  BY <1>2 DEF FromFrame
<1>4. Passed(d) \in Nat
  BY <1>2 DEF Passed
<1>5. d # e => Passed(d)' = Passed(d)
  BY DEF FlowIInv, LinkIInv, TypeOK, Passed
<1>6. CASE Len(fromNode) < FromBuffer /\ fromNode' = Append(fromNode, f) /\ reader' = [reader EXCEPT ![e] = "top"]
  <2>1. Pipe' = Append(Pipe, f)
    BY <1>3, <1>6, AppendPipe DEF FlowIInv
  <2>2. Pipe \in Seq(FromFrame)
    BY PipeType DEF FlowIInv
  <2>3. d = e => Passed(d)' = Passed(d) + 1 /\ Passed(d)' = reads[e]
    BY <1>2, <1>6 DEF FlowIInv, LinkIInv, TypeOK, Passed
  <2>4. f.epoch = e /\ f.seq = reads[e]
    OBVIOUS
  <2> HIDE DEF f
  <2>5. /\ f.epoch = d /\ f.seq = Passed(d) + 1 => InOrder(Append(Pipe, f), d, Passed(d) + 1)
        /\ f.epoch # d => InOrder(Append(Pipe, f), d, Passed(d))
    BY <1>1, <1>3, <1>4, <2>2, AppendInOrder
  <2>6. CASE d = e
    BY <2>1, <2>3, <2>4, <2>5, <2>6
  <2>7. CASE d # e
    BY <1>5, <2>1, <2>4, <2>5, <2>7
  <2> QED
    BY <2>6, <2>7
<1>7. CASE Stopped(e) /\ UNCHANGED fromNode
  <2>1. d # e /\ Pipe' = Pipe
    BY <1>1, <1>7 DEF Stopped, Pipe
  <2> QED
    BY <1>1, <1>5, <2>1
<1> QED
  BY <1>3, <1>6, <1>7

\* Every other step leaves the pipe, and what has left each reader, as they are,
\* and revives no connection.
LEMMA QuietKeepsOrder ==
  ASSUME FlowIInv, UNCHANGED Pipe, ctxDone => ctxDone',
         \A e \in Epoch : (cancelled[e] => cancelled'[e]) /\ Passed(e)' = Passed(e)
  PROVE  PipeInOrder'
  BY DEF FlowIInv, PipeInOrder

\* A step of the read loop before the frame is passed on counts no frame as
\* passed (connection.go:505-573).
LEMMA ReadKeepsOrder ==
  ASSUME FlowIInv, NEW e \in Epoch, ReaderTop(e) \/ ReadFrame(e) \/ ReadFails(e)
  PROVE  PipeInOrder'
<1>1. UNCHANGED <<fromNode, hubLog, cancelled, ctxDone>>
  BY DEF ReaderTop, ReadFrame, ReadFails, chanVars
<1>2. ASSUME NEW d \in Epoch PROVE Passed(d)' = Passed(d)
  <2>1. reads[d] \in Nat
    BY DEF FlowIInv, LinkIInv, TypeOK
  <2> QED
    BY <2>1 DEF ReaderTop, ReadFrame, ReadFails, Passed, FlowIInv, LinkIInv, TypeOK
<1> QED
  BY <1>1, <1>2, QuietKeepsOrder DEF Pipe

\* Every step keeps the frames in order.
LEMMA FlowStep == FlowIInv /\ [Next]_vars => FlowIInv'
<1> SUFFICES ASSUME FlowIInv, [Next]_vars PROVE PipeInOrder'
  BY LinkStep DEF FlowIInv
<1>0. LinkIInv /\ LinkIInv'
  BY LinkStep DEF FlowIInv
<1>1. CASE RecvFrom
  BY <1>0, <1>1, DrainKeepsOrder
<1>2. CASE HubReceives
  <2>1. \A e \in Epoch : Passed(e)' = Passed(e)
    BY <1>2 DEF HubReceives, loopVars, Passed
  <2> QED
    BY <1>0, <1>2, <2>1, ReceivePipe, QuietKeepsOrder DEF HubReceives, loopVars
<1>3. CASE \E e \in Epoch : ReaderTop(e) \/ ReadFrame(e) \/ ReadFails(e) \/ PassOn(e)
  BY <1>3, ReadKeepsOrder, PassKeepsOrder
<1>4. CASE RequestAndStart
  <2>1. \A e \in Epoch : Passed(e)' = Passed(e)
    BY <1>0, <1>4 DEF RequestAndStart, Passed, LinkIInv, TypeOK, OnlyNewestLives
  <2> QED
    BY <1>4, <2>1, QuietKeepsOrder DEF RequestAndStart, Pipe
<1>5. CASE LoopsEnd
  <2>1. \A e \in Epoch : (cancelled[e] => cancelled'[e]) /\ Passed(e)' = Passed(e)
    BY <1>0, <1>5 DEF LoopsEnd, Passed, LinkIInv, TypeOK
  <2> QED
    BY <1>5, <2>1, QuietKeepsOrder DEF LoopsEnd, Pipe, chanVars
<1>6. CASE \/ StopAtTop \/ DialFails \/ DialSucceeds \/ CloseConn \/ DrainTo \/ RecvTo \/ DrainFrom
           \/ Wait
           \/ \E e \in Epoch : \/ WriterStops(e) \/ WriterTakes(e) \/ WriteSucceeds(e)
                               \/ WriteFails(e) \/ HeartTick(e) \/ HeartStops(e) \/ NodeDrops(e)
           \/ SendToNode
           \/ Cancel \/ UNCHANGED vars
  <2>1. UNCHANGED <<cancelled, reader, reads, fromNode, hubLog>> /\ (ctxDone => ctxDone')
    BY <1>6 DEF StopAtTop, DialFails, DialSucceeds, CloseConn, DrainTo, RecvTo, DrainFrom, Wait,
                WriterStops, WriterTakes, WriteSucceeds, WriteFails, HeartTick, HeartStops,
                NodeDrops, SendToNode, Cancel, vars, loopVars, chanVars
  <2> QED
    BY <2>1, QuietKeepsOrder DEF Passed, Pipe
<1> QED
  BY <1>1, <1>2, <1>3, <1>4, <1>5, <1>6 DEF Next, RunStep

\* Every frame read on a connection that has not been given up is with the hub,
\* in fromNode or in the reader's hand, in the order read, without gap or
\* repetition: neither a slow hub nor the drain after an earlier connection
\* loses one (connection.go:415-426, 493-587).
THEOREM NothingLost == Spec => []NothingLostWhileUp
<1>1. FlowIInv => NothingLostWhileUp
  <2> SUFFICES ASSUME FlowIInv, NEW e \in Epoch, ~cancelled[e], ~ctxDone
               PROVE  LET kept == hubLog \o fromNode \o hand[e]
                          ofE  == {i \in DOMAIN kept : kept[i].epoch = e}
                      IN  /\ {kept[i].seq : i \in ofE} = 1 .. reads[e]
                          /\ \A i, j \in ofE : i < j => kept[i].seq < kept[j].seq
    BY DEF NothingLostWhileUp
  <2> DEFINE kept == hubLog \o fromNode \o hand[e]
             ofE  == {i \in DOMAIN kept : kept[i].epoch = e}
  <2>1. InOrder(Pipe, e, Passed(e)) /\ Pipe \in Seq(FromFrame) /\ kept = Pipe \o hand[e]
    BY PipeType DEF FlowIInv, PipeInOrder, Pipe
  <2>2. reads[e] \in Nat
    BY DEF FlowIInv, LinkIInv, TypeOK
  <2>3. InOrder(kept, e, reads[e])
    <3>1. CASE reader[e] = "passing"
      <4> DEFINE f == [epoch |-> e, seq |-> reads[e]]
      <4>1. hand[e] = <<f>> /\ reads[e] # 0 /\ f \in FromFrame
        BY <2>2, <3>1 DEF FlowIInv, LinkIInv, HandIsLastRead, FromFrame
      <4>2. f.epoch = e /\ f.seq = Passed(e) + 1 /\ Passed(e) \in Nat /\ Passed(e) + 1 = reads[e]
        BY <2>2, <3>1, <4>1 DEF Passed
      <4>3. kept = Append(Pipe, f)
        BY <2>1, <4>1, AppendIsConcat
      <4> HIDE DEF f, kept
      <4>4. InOrder(Append(Pipe, f), e, Passed(e) + 1)
        BY <2>1, <4>1, <4>2, AppendInOrder
      <4> QED
        BY <4>2, <4>3, <4>4
    <3>2. CASE reader[e] # "passing"
      <4>1. hand[e] = <<>> /\ Passed(e) = reads[e]
        BY <3>2 DEF FlowIInv, LinkIInv, HandIsLastRead, Passed
      <4>2. kept = Pipe
        BY <2>1, <4>1, ConcatEmptySeq
      <4> QED
        BY <2>1, <4>1, <4>2
    <3> QED
      BY <3>1, <3>2
  <2> HIDE DEF kept
  <2>4. {kept[i].seq : i \in ofE} = 1 .. reads[e]
    <3>1. \A i \in ofE : kept[i].seq \in 1 .. reads[e]
      BY <2>3 DEF InOrder
    <3>2. \A k \in 1 .. reads[e] : \E i \in ofE : kept[i].seq = k
      BY <2>3 DEF InOrder
    <3> QED
      BY <3>1, <3>2, Zenon
  <2>5. \A i, j \in ofE : i < j => kept[i].seq < kept[j].seq
    BY <2>3 DEF InOrder
  <2> QED
    BY <2>4, <2>5 DEF kept
<1> QED
  BY InitFlow, FlowStep, <1>1, PTL DEF Spec
=============================================================================
