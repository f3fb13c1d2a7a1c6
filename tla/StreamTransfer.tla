---------------------------- MODULE StreamTransfer ----------------------------
(***************************************************************************)
(* A QUIC stream of a flow from end to end: RTPSendStream on one side, and *)
(* on the other the goroutine of handleUniStream (session.go) that parses  *)
(* the flow ID and then, in readStream (receive_flow.go), a length and a   *)
(* packet at a time.  Both sides write qlog events.  A blocking read is    *)
(* one step, taken when the bytes it needs are on the wire.                *)
(***************************************************************************)
EXTENDS RTPSendStream

CONSTANTS
  LogData,    \* config.qlogPacketData
  DataLimit,  \* config.qlogPacketDataLimit; 0: no limit
  NoFlow

ASSUME TransferAssumption ==
  /\ LogData \in BOOLEAN
  /\ DataLimit \in Nat
  /\ NoFlow \notin Nat
  /\ FlowID < Limit(8) /\ \A p \in Packets : Len(p) < Limit(8)

VARIABLES
  sent,      \* history: the packets framed so far
  created,   \* StreamPacketCreated events of the sender
  rpc,       \* the reader: "flowID", "length", "payload", "done" or "failed"
  rpos,      \* bytes of the wire it has read
  rflow,     \* the flow ID it has parsed
  rlen,      \* length
  encoded,   \* encodedLength
  received,  \* packets it has pushed to the flow
  parsed     \* StreamPacketParsed events

readerVars == <<rpc, rpos, rflow, rlen, encoded, received, parsed>>
transferVars == <<vars, sent, created, readerVars>>

TransferInit ==
  /\ Init
  /\ sent = <<>> /\ created = <<>>
  /\ rpc = "flowID" /\ rpos = 0 /\ rflow = NoFlow /\ rlen = 0
  /\ encoded = <<>> /\ received = <<>> /\ parsed = <<>>

-----------------------------------------------------------------------------
(* qlogger.rawData: a copy of the start of the wire image, if asked for. *)
RawData(b) ==
  IF ~LogData THEN <<>>
  ELSE IF DataLimit > 0 /\ Len(b) > DataLimit THEN SubSeq(b, 1, DataLimit) ELSE b

(* The raw part of the event of a frame b around a packet of n bytes. *)
RawInfo(b, n) == [length |-> Len(b), payload_length |-> n, data |-> RawData(b)]

(* Events are encoded later, on another goroutine; fields that are zero are *)
(* left out of the record.                                                  *)
Encode_Aliased(e) ==
  LET now == IF e.length <= Len(buffer)
             THEN RawData(SubSeq(buffer, Len(buffer) - e.length + 1, Len(buffer)))
             ELSE e.data
  IN  [length |-> e.length, payload_length |-> e.payload_length, data |-> now]
Encode(e) ==
  LET present == {f \in {"length", "payload_length"} : e[f] > 0}
                   \cup {f \in {"data"} : Len(e[f]) > 0}
  IN  [f \in present |-> e[f]]

(* The sender.  WriteRTPBytes records each packet, short writes included:   *)
(* its own frame, without the flow ID that goes ahead of the first one.     *)
FrameStart(w) == Len(buffer) - Len(Frame(pkt[w]))

Frames(w) == sent' = IF framed' = framed THEN sent ELSE Append(sent, pkt[w])

LockStep(w) ==
  /\ Lock(w)
  /\ Frames(w)
  /\ UNCHANGED <<created, readerVars>>

FlushStep(w) ==
  /\ \E e \in BOOLEAN : FlushReturns(w, e)
  /\ Frames(w)
  /\ UNCHANGED <<created, readerVars>>

RecordCreated(w) ==
  /\ \E e \in BOOLEAN : WriteReturns(w, e)
  /\ created' = Append(created,
                       RawInfo(SubSeq(buffer, FrameStart(w) + 1, Len(buffer)), Len(pkt[w])))
  /\ UNCHANGED <<sent, readerVars>>

OtherSendStep ==
  /\ \/ \E w \in Writers, p \in Packets : WriteRTPBytes(w, p)
     \/ Accept
     \/ CancelStream
     \/ Close
  /\ UNCHANGED <<sent, created, readerVars>>

-----------------------------------------------------------------------------
(* The reader.  EOF follows the last byte of a stream that was closed. *)
Available == SubSeq(wire, rpos + 1, Len(wire))
AtEOF == stream = "closed"

senderVars == <<vars, sent, created>>

(* handleUniStream parses the flow ID, and nothing beyond it. *)
ReadFlowID ==
  /\ rpc = "flowID" /\ HasVarint(Available)
  /\ rflow' = VarintValue(Available)
  /\ rpos' = rpos + WidthOf(Head(Available))
  /\ rpc' = "length"
  /\ UNCHANGED <<rlen, encoded, received, parsed, senderVars>>

(* readVarint keeps the bytes the length was encoded in. *)
ReadLength ==
  /\ rpc = "length" /\ HasVarint(Available)
  /\ rlen' = VarintValue(Available)
  /\ encoded' = SubSeq(Available, 1, WidthOf(Head(Available)))
  /\ rpos' = rpos + Len(encoded')
  /\ rpc' = "payload"
  /\ UNCHANGED <<rflow, received, parsed, senderVars>>

(* ReadFrom takes what the LimitReader gives: length bytes, or fewer when   *)
(* the stream ends first, which is no error.  The event is about the frame, *)
(* b.Next skips its prefix and the rest is pushed.                          *)
ReadPayload_Partial ==
  /\ rpc = "payload" /\ Available # <<>>
  /\ LET n       == IF Len(Available) < rlen THEN Len(Available) ELSE rlen
         payload == SubSeq(Available, 1, n)
     IN  /\ parsed' = Append(parsed, RawInfo(encoded \o payload, rlen))
         /\ received' = Append(received, payload)
         /\ rpos' = rpos + n
  /\ rpc' = "length"
  /\ UNCHANGED <<rflow, rlen, encoded, senderVars>>
ReadPayload ==
  /\ rpc = "payload" /\ (Len(Available) >= rlen \/ AtEOF)
  /\ LET n       == IF Len(Available) < rlen THEN Len(Available) ELSE rlen
         payload == SubSeq(Available, 1, n)
     IN  /\ parsed' = Append(parsed, RawInfo(encoded \o payload, rlen))
         /\ received' = Append(received, payload)
         /\ rpos' = rpos + n
  /\ rpc' = "length"
  /\ UNCHANGED <<rflow, rlen, encoded, senderVars>>

(* handleUniStream returns, for good or with an error. *)
ReaderReturns(end) ==
  /\ rpc' = end
  /\ rpos' = 0 /\ rflow' = NoFlow /\ rlen' = 0 /\ encoded' = <<>>
  /\ UNCHANGED <<received, parsed, senderVars>>

(* The stream ends before, or inside, the next varint. *)
EndOfStream_NoWait ==
  /\ rpc \in {"flowID", "length"} /\ ~HasVarint(Available)
  /\ ReaderReturns("done")
EndOfStream ==
  /\ rpc \in {"flowID", "length"} /\ ~HasVarint(Available) /\ AtEOF
  /\ ReaderReturns("done")

(* A read fails: the sender reset the stream, the flow was closed and has   *)
(* cancelled its streams, or the connection is gone.                        *)
ReadFails ==
  /\ rpc \in {"flowID", "length", "payload"}
  /\ ReaderReturns("failed")

-----------------------------------------------------------------------------
ReadStep == ReadFlowID \/ ReadLength \/ ReadPayload \/ EndOfStream

TransferNext ==
  \/ \E w \in Writers : LockStep(w) \/ FlushStep(w) \/ RecordCreated(w)
  \/ OtherSendStep
  \/ ReadStep
  \/ ReadFails

(* The reader's goroutine runs: QUIC delivers what the stream accepted, its *)
(* end included, as long as nothing fails.                                  *)
TransferSpec == TransferInit /\ [][TransferNext]_transferVars
TransferFairness ==
  /\ \A w \in Writers :
       /\ SF_transferVars(LockStep(w))
       /\ WF_transferVars(WriteIsOver /\ (FlushStep(w) \/ RecordCreated(w)))
  /\ WF_transferVars(ReadStep)
  /\ WF_transferVars(stream = "cancelled" /\ ReadFails)
TransferFairSpec == TransferSpec /\ TransferFairness

-----------------------------------------------------------------------------
(* Every variable has its type; packets are only read for the flow whose    *)
(* ID the sender wrote, and there is one event per packet pushed.           *)
TransferTypeOK ==
  /\ TypeOK
  /\ sent \in Seq(Packets) /\ received \in Seq(Seq(Byte))
  /\ rpc \in {"flowID", "length", "payload", "done", "failed"}
  /\ rpos \in 0..Len(wire) /\ rlen \in Nat /\ encoded \in Seq(Byte)
  /\ rflow = IF rpos = 0 THEN NoFlow ELSE FlowID
  /\ Len(parsed) = Len(received) /\ Len(created) <= Len(sent)

(* Whatever the writers, short writes and Close do to each other, the flow  *)
(* gets the packets of the stream as PacketStream says.  "Close does not    *)
(* flush the tail of a partially written frame, so closing after a short    *)
(* write leaves the peer with a truncated final frame" (Close): that frame, *)
(* and no other, is handed to the flow cut.                                 *)
PS == INSTANCE PacketStream
ImplementsPacketStream == PS!Spec

(* A stream closed with nothing pending is read to the end: the packets the *)
(* peer's flow gets, framed again, are all there was on the wire.           *)
Rebuilt ==
  LET upTo[i \in 0..Len(received)] ==
        IF i = 0 THEN FlowIDBytes ELSE upTo[i - 1] \o Frame(received[i])
  IN  upTo[Len(received)]
EverythingArrives ==
  stream = "closed" /\ wire = framed ~>
    rpc = "failed" \/ (rpc = "done" /\ wire \in {<<>>, Rebuilt})

(* What a reader of the log makes of an encoded event: absent is zero. *)
Decode(r) ==
  [length         |-> IF "length" \in DOMAIN r THEN r.length ELSE 0,
   payload_length |-> IF "payload_length" \in DOMAIN r THEN r.payload_length ELSE 0,
   data           |-> IF "data" \in DOMAIN r THEN r.data ELSE <<>>]

(* Whenever the log is encoded, the i-th event of the sender and of the     *)
(* reader both describe the frame of the i-th packet as it is on the wire   *)
(* ("The event is encoded on another goroutine and callers reuse their      *)
(* buffers, so the bytes have to be copied").  A frame that was cut is the  *)
(* one exception, on the reader's side.                                     *)
LogsDescribeFrames ==
  LET IsLogged(e, p) == Decode(Encode(e)) = RawInfo(Frame(p), Len(p))
  IN  /\ \A i \in DOMAIN created : IsLogged(created[i], sent[i])
      /\ \A i \in DOMAIN parsed : received[i] = sent[i] => IsLogged(parsed[i], sent[i])
=============================================================================
