-------------------------------- MODULE Interop --------------------------------
(***************************************************************************)
(* Two applications and what is between them: the sender and the receiver  *)
(* of examples/interop, each with its session, and the QUIC connection.    *)
(* The sender packetizes frames and sends one flow in one of three modes;  *)
(* the receiver copies the flow to a writer.  Packets are numbered in the  *)
(* order they are sent.  The parts have their own modules: a stream is a   *)
(* PacketStream, a flow's buffer a PacketQueue, and the sessions here only *)
(* close as a whole.                                                       *)
(***************************************************************************)
EXTENDS Varint, Options, FiniteSets

CONSTANTS
  Modes,        \* the -mode flags: subset of {"datagram", "frame", "single"}
  Frames,       \* frames the sender's reader has
  PerFrame,     \* packets per frame
  Window,       \* packets a stream accepts ahead of its reader
  StreamCredit, \* unfinished streams the receiver's QUIC allows
  FlowID,
  IDWidths,     \* bytes the sender's implementation encodes the flow ID in
  OptionLists,  \* options the receiver's session may be given
  NoPacket

(* A packet as push gets it, with the number of bytes in front of it that   *)
(* are not its own.                                                         *)
Packet == [num : Nat, extra : Int]

ASSUME InteropAssumption ==
  /\ Modes \subseteq {"datagram", "frame", "single"}
  /\ Frames \in Nat \ {0} /\ PerFrame \in Nat \ {0}
  /\ Window \in Nat /\ StreamCredit \in Nat \ {0} /\ FlowID \in Nat
  /\ IDWidths \subseteq Widths
  /\ OptionLists \subseteq Seq(Option)
  /\ NoPacket \notin Packet

VARIABLES
  mode,      \* sendMode
  spc,       \* where the sender is
  frame,     \* frames read
  next,      \* number of the next packet
  flow,      \* the SendFlow: "none", "open" or "closed"
  opened,    \* its streams
  closed,    \* the streams that were closed
  written,   \* per stream: the packets written
  conn,      \* the QUIC connection: "up" or "down"
  net,       \* datagrams in flight
  config,    \* of the receiver's session
  rflow,     \* the ReceiveFlow: "none", "unknown", "open" or "closed"
  queue,     \* its buffer
  dropped,   \* history: packets push dropped
  taken,     \* per stream: packets its reader has read
  pushed,    \* history, per stream: the packets its reader passed to push
  rpc,       \* where the receiver is
  hand,      \* the packet it copies
  output     \* the packets its writer got

senderVars == <<mode, spc, frame, next, flow, opened, closed>>
netVars == <<written, net>>
receiveVars == <<rflow, queue, dropped, taken, pushed>>
copyVars == <<rpc, hand, output>>
vars == <<senderVars, netVars, conn, config, receiveVars, copyVars>>

StreamIDs == 1..Frames
Numbers == 1..(Frames * PerFrame)

Init ==
  /\ mode \in Modes
  /\ spc = "flow" /\ frame = 0 /\ next = 1
  /\ flow = "none" /\ opened = {} /\ closed = {}
  /\ written = [s \in StreamIDs |-> <<>>] /\ net = {} /\ conn = "up"
  /\ config \in {newSessionConfig(opts) : opts \in OptionLists}
  /\ rflow = "none" /\ queue = <<>> /\ dropped = {} /\ taken = [s \in StreamIDs |-> 0]
  /\ pushed = [s \in StreamIDs |-> <<>>]
  /\ rpc = IF config = NoConfig THEN "done" ELSE "new"
  /\ hand = NoPacket /\ output = <<>>

-----------------------------------------------------------------------------
(* sender.send.  The stream a packet goes on, outside datagram mode. *)
Stream == IF mode = "single" THEN 1 ELSE frame

(* send returns, with or without an error: flow.Close closes every stream   *)
(* of the flow, and singleStream.Close the single one.  After an error the  *)
(* program exits without closing its session.                               *)
Return_NoFlowClose(failed) ==
  /\ spc' = IF failed THEN "exited" ELSE "sleep"
  /\ flow' = "closed"
  /\ closed' = closed \cup (IF mode = "single" THEN {1} ELSE {})
  /\ UNCHANGED <<mode, frame, next, opened>>
Return(failed) ==
  /\ spc' = IF failed THEN "exited" ELSE "sleep"
  /\ flow' = "closed"
  /\ closed' = closed \cup opened
  /\ UNCHANGED <<mode, frame, next, opened>>

GoTo(l) == spc' = l

NewSendFlow ==
  /\ spc = "flow"
  /\ flow' = "open"
  /\ GoTo(IF mode = "single" THEN "open" ELSE "read")
  /\ UNCHANGED <<mode, frame, next, opened, closed, netVars, conn, config,
                 receiveVars, copyVars>>

(* The streams that use up the credit: a stream is finished once its end    *)
(* was read, or its reading cancelled with the flow.                        *)
Unfinished ==
  {s \in opened : rflow # "closed" /\ (s \notin closed \/ taken[s] < Len(written[s]))}

(* NewSendStream, for the frame or for good.  It blocks without credit for  *)
(* a stream and fails without a connection; for the single stream the       *)
(* deferred calls are not yet set up then.                                  *)
NewSendStream ==
  /\ spc = "open"
  /\ \/ /\ conn = "up" /\ Cardinality(Unfinished) < StreamCredit
        /\ opened' = opened \cup {IF mode = "single" THEN 1 ELSE frame}
        /\ GoTo(IF mode = "single" THEN "read" ELSE "write")
        /\ UNCHANGED <<mode, frame, next, flow, closed>>
     \/ /\ conn = "down" /\ mode = "single"
        /\ GoTo("exited")
        /\ UNCHANGED <<mode, frame, next, flow, opened, closed>>
     \/ /\ conn = "down" /\ mode = "frame"
        /\ Return(TRUE)
  /\ UNCHANGED <<netVars, conn, config, receiveVars, copyVars>>

(* reader.Read and Packetize, until the end of the frames or an error. *)
ReadFrame ==
  /\ spc = "read"
  /\ \/ /\ frame < Frames
        /\ frame' = frame + 1
        /\ GoTo(IF mode = "frame" THEN "open" ELSE "write")
        /\ UNCHANGED <<mode, next, flow, opened, closed>>
     \/ frame = Frames /\ Return(FALSE)
     \/ Return(TRUE)
  /\ UNCHANGED <<netVars, conn, config, receiveVars, copyVars>>

(* The end of sendDatagrams or sendStream, or its next packet. *)
PacketWritten ==
  /\ next' = next + 1
  /\ GoTo(IF next < frame * PerFrame THEN "write"
          ELSE IF mode = "frame" THEN "close" ELSE "read")
  /\ UNCHANGED <<mode, frame, flow, opened, closed>>

(* WriteRTPBytes of the flow: a datagram, with the flow ID in front. *)
SendDatagram ==
  /\ spc = "write" /\ mode = "datagram"
  /\ \/ /\ conn = "up"
        /\ \E w \in IDWidths : net' = net \cup {[num |-> next, width |-> w]}
        /\ PacketWritten
     \/ conn = "down" /\ Return(TRUE) /\ UNCHANGED net
  /\ UNCHANGED <<written, conn, config, receiveVars, copyVars>>

(* WriteRTPBytes of the stream.  It blocks on flow control while the        *)
(* connection is up, and fails when it is down or the receiver has stopped  *)
(* reading the flow.                                                        *)
SendOnStream ==
  /\ spc = "write" /\ mode # "datagram"
  /\ \/ /\ conn = "up"
        /\ Len(written[Stream]) - taken[Stream] < Window
        /\ written' = [written EXCEPT ![Stream] = Append(@, next)]
        /\ PacketWritten
     \/ /\ conn = "down" \/ rflow = "closed"
        /\ Return(TRUE)
        /\ UNCHANGED written
  /\ UNCHANGED <<net, conn, config, receiveVars, copyVars>>

(* The stream of a frame is closed; it may have been reset meanwhile. *)
CloseStream ==
  /\ spc = "close"
  /\ \/ /\ closed' = closed \cup {frame}
        /\ GoTo("read")
        /\ UNCHANGED <<mode, frame, next, flow, opened>>
     \/ /\ conn = "down" \/ rflow = "closed"
        /\ Return(TRUE)
  /\ UNCHANGED <<netVars, conn, config, receiveVars, copyVars>>

(* runSender sleeps for a second and closes its session. *)
CloseSender ==
  /\ spc = "sleep"
  /\ GoTo("done")
  /\ conn' = "down"
  /\ UNCHANGED <<mode, frame, next, flow, opened, closed, netVars, config,
                 receiveVars, copyVars>>

-----------------------------------------------------------------------------
(* The connection: datagrams may be lost and overtake each other, streams   *)
(* may not.                                                                 *)
LoseDatagram ==
  /\ \E d \in net : net' = net \ {d}
  /\ UNCHANGED <<senderVars, written, conn, config, receiveVars, copyVars>>

ConnFails ==
  /\ conn = "up" /\ conn' = "down"
  /\ UNCHANGED <<senderVars, netVars, config, receiveVars, copyVars>>

(* ReceiveFlow.push, of the flow receiveFlow finds or creates: the packet   *)
(* is dropped when the flow is closed or its buffer is full.                *)
Push(p) ==
  /\ rflow' = IF rflow = "none" THEN "unknown" ELSE rflow
  /\ IF rflow = "closed" \/ Len(queue) >= config.receiveBufferSize
     THEN dropped' = dropped \cup {p.num} /\ UNCHANGED queue
     ELSE queue' = Append(queue, p) /\ UNCHANGED dropped

(* HandleDatagram strips as many bytes as the shortest encoding of the flow *)
(* ID has; what is left of a longer one stays in front of the packet.  The  *)
(* loop may still get a datagram that is queued when the connection ends.   *)
HandleDatagram ==
  /\ rpc # "done"
  /\ \E d \in net :
       /\ net' = net \ {d}
       /\ Push([num |-> d.num, extra |-> d.width - VarintLen(FlowID)])
  /\ UNCHANGED <<senderVars, written, conn, config, taken, pushed, copyVars>>

(* A stream's reader pushes its next packet; the streams of a closed flow   *)
(* are cancelled.                                                           *)
ReadStream_Blocking(s) ==
  /\ conn = "up" /\ rpc # "done" /\ rflow # "closed"
  /\ Len(queue) < config.receiveBufferSize
  /\ taken[s] < Len(written[s])
  /\ taken' = [taken EXCEPT ![s] = @ + 1]
  /\ LET p == [num |-> written[s][taken[s] + 1], extra |-> 0]
     IN  Push(p) /\ pushed' = [pushed EXCEPT ![s] = Append(@, p.num)]
  /\ UNCHANGED <<senderVars, netVars, conn, config, copyVars>>
ReadStream(s) ==
  /\ conn = "up" /\ rpc # "done" /\ rflow # "closed"
  /\ taken[s] < Len(written[s])
  /\ taken' = [taken EXCEPT ![s] = @ + 1]
  /\ LET p == [num |-> written[s][taken[s] + 1], extra |-> 0]
     IN  Push(p) /\ pushed' = [pushed EXCEPT ![s] = Append(@, p.num)]
  /\ UNCHANGED <<senderVars, netVars, conn, config, copyVars>>

-----------------------------------------------------------------------------
(* receiver.receive: NewReceiveFlow takes over a flow, and its packets,     *)
(* that was buffered as unknown; then io.Copy.                              *)
NewReceiveFlow_Fresh ==
  /\ rpc = "new"
  /\ rpc' = "read"
  /\ rflow' = "open"
  /\ queue' = <<>>
  /\ UNCHANGED <<senderVars, netVars, conn, config, dropped, taken, pushed, hand,
                 output>>
NewReceiveFlow ==
  /\ rpc = "new"
  /\ rpc' = "read"
  /\ rflow' = "open"
  /\ UNCHANGED <<senderVars, netVars, conn, config, queue, dropped, taken, pushed, hand,
                 output>>

Read ==
  /\ rpc = "read" /\ queue # <<>>
  /\ rpc' = "write"
  /\ hand' = Head(queue)
  /\ queue' = Tail(queue)
  /\ UNCHANGED <<senderVars, netVars, conn, config, rflow, dropped, taken, pushed,
                 output>>

(* fileWriter.Write: the packet goes into the jitter buffer.  The packet    *)
(* may not parse or the file may fail; then receive returns and the flow is *)
(* closed with what it has buffered.                                        *)
Write ==
  /\ rpc = "write"
  /\ hand' = NoPacket
  /\ \/ /\ output' = Append(output, hand)
        /\ rpc' = "read"
        /\ UNCHANGED <<rflow, queue>>
     \/ /\ rpc' = "close"
        /\ rflow' = "closed" /\ queue' = <<>>
        /\ UNCHANGED output
  /\ UNCHANGED <<senderVars, netVars, conn, config, dropped, taken, pushed>>

(* runReceiver's deferred r.Close. *)
CloseReceiver ==
  /\ rpc = "close"
  /\ rpc' = "done"
  /\ conn' = "down"
  /\ UNCHANGED <<senderVars, netVars, config, receiveVars, hand, output>>

-----------------------------------------------------------------------------
Sender ==
  \/ NewSendFlow \/ NewSendStream \/ ReadFrame \/ SendDatagram \/ SendOnStream
  \/ CloseStream \/ CloseSender

Receiver == Read \/ Write \/ CloseReceiver

Next ==
  \/ Sender
  \/ LoseDatagram
  \/ ConnFails
  \/ HandleDatagram
  \/ \E s \in StreamIDs : ReadStream(s)
  \/ NewReceiveFlow
  \/ Receiver

Spec == Init /\ [][Next]_vars

(* The goroutines of both programs and of the sessions run, and the         *)
(* connection of a receiver that has exited times out.  Nothing says when   *)
(* the receiver calls NewReceiveFlow.                                       *)
Fairness ==
  /\ WF_vars(Sender) /\ WF_vars(Receiver)
  /\ WF_vars(rpc = "done" /\ ConnFails)
  /\ \A s \in StreamIDs : WF_vars(ReadStream(s))

FairSpec == Spec /\ Fairness

-----------------------------------------------------------------------------
(* Every variable has its type, and every session that exists has the room  *)
(* its flows need: newSessionConfig lets no other configuration through.    *)
InteropTypeOK ==
  /\ mode \in {"datagram", "frame", "single"}
  /\ spc \in {"flow", "open", "read", "write", "close", "sleep", "done", "exited"}
  /\ frame \in 0..Frames /\ next \in 1..(Frames * PerFrame + 1)
  /\ flow \in {"none", "open", "closed"}
  /\ opened \subseteq StreamIDs /\ closed \subseteq opened
  /\ \A s \in StreamIDs : taken[s] \in 0..Len(written[s]) /\ pushed[s] \in Seq(Numbers)
  /\ conn \in {"up", "down"}
  /\ net \subseteq [num : Numbers, width : Widths]
  /\ config # NoConfig =>
       /\ config.receiveBufferSize > 0 /\ config.unknownFlowBufferSize > 0
       /\ config.logger /\ config.qlogPacketDataLimit >= 0
       /\ Len(queue) <= config.receiveBufferSize
  /\ rflow \in {"none", "unknown", "open", "closed"}
  /\ dropped \subseteq Numbers
  /\ rpc \in {"new", "read", "write", "close", "done"}
  /\ hand = NoPacket \/ hand.num \in Numbers

(* The packets inside the receiver, in order. *)
Inside == output \o (IF hand = NoPacket THEN <<>> ELSE <<hand>>) \o queue
Nums(ps) == [i \in DOMAIN ps |-> ps[i].num]

(* What the flow hands out are the packets that were sent, nothing in front *)
(* of them: HandleDatagram and readStream strip the framing.                *)
PacketsAreIntact == \A i \in DOMAIN Inside : Inside[i].extra = 0

(* From the wire to the writer no packet is invented or repeated, and those *)
(* of a stream stay in order and none of them is lost but the ones push     *)
(* dropped.  This holds through lost and overtaken datagrams, through       *)
(* streams read by goroutines that overtake each other, and for packets     *)
(* that were there before NewReceiveFlow.                                   *)
EachArrivesOnce ==
  LET got == Nums(Inside)
  IN  /\ \A i \in DOMAIN got : got[i] \in 1..(next - 1)
      /\ \A i, j \in DOMAIN got : i # j => got[i] # got[j]
      /\ \A s \in StreamIDs : \A k \in DOMAIN written[s] :
           rflow # "closed" =>
             ((\E i \in DOMAIN got : got[i] = written[s][k]) <=>
                k <= taken[s] /\ written[s][k] \notin dropped)
      /\ \A s \in StreamIDs : \A k, l \in DOMAIN written[s] : \A i, j \in DOMAIN got :
           got[i] = written[s][k] /\ got[j] = written[s][l] /\ i < j => k < l

(* The flow hands out the packets of the sender, each one whole and at most *)
(* once: the framing is stripped and push, Read and NewReceiveFlow lose     *)
(* nothing on the way.                                                      *)
ArrivesAsSent == PacketsAreIntact /\ EachArrivesOnce

(* However send ends, by whichever of its returns, no stream is left        *)
(* without its end: the deferred flow.Close reaches the ones an error left  *)
(* behind.                                                                  *)
SendLeavesNoStreamOpen == spc \in {"sleep", "done", "exited"} => opened \subseteq closed

(* A receiver that reads slowly, or never asks for the flow, does not hold  *)
(* up the sender: push drops instead of waiting for room, so that streams   *)
(* are read on and their flow control windows open again.                   *)
SlowReceiverDoesNotStallSender == <>(spc \in {"done", "exited"})
=============================================================================
