-------------------------- MODULE StreamTransferProofs --------------------------
(***************************************************************************)
(* A stream of a flow delivers packets in order and whole, for all         *)
(* writers, packets, flow IDs and numbers of calls: StreamTransfer         *)
(* implements PacketStream.  The log events of both ends describe the      *)
(* bytes that crossed the wire.                                            *)
(***************************************************************************)
EXTENDS StreamTransfer, RTPSendStreamProofs

(* at[i] is where the i-th frame of the stream ends; the flow ID is in      *)
(* front of the first one.                                                  *)
Layout(at) ==
  /\ at \in [0..Len(sent) -> Nat]
  /\ at[0] = Len(FlowIDBytes)
  /\ \A i \in 0..Len(sent) : at[i] <= at[Len(sent)]
  /\ \A i \in 1..Len(sent) :
       /\ at[i] = at[i - 1] + Len(Frame(sent[i]))
       /\ \A k \in 1..Len(Frame(sent[i])) : framed[at[i - 1] + k] = Frame(sent[i])[k]

(* What has been framed: nothing, or the flow ID and the frames. *)
Covers(at) ==
  \/ framed = <<>> /\ sent = <<>>
  \/ /\ framed # <<>> /\ Len(framed) = at[Len(sent)]
     /\ \A k \in 1..Len(FlowIDBytes) : framed[k] = FlowIDBytes[k]

(* All packets pushed so far are whole. *)
Whole ==
  /\ Len(received) <= Len(sent)
  /\ received = SubSeq(sent, 1, Len(received))

(* The reader is at the start of a frame, or inside one behind its length,  *)
(* or at the end of a stream that was closed and gets no more bytes.        *)
ReaderAt(at) ==
  /\ rpc = "flowID" => rpos = 0 /\ received = <<>>
  /\ rpc = "length" => \/ Whole /\ framed # <<>> /\ rpos = at[Len(received)]
                       \/ rpos = Len(wire) /\ stream # "open"
  /\ rpc = "payload" => /\ Whole /\ Len(received) < Len(sent)
                        /\ rlen = Len(sent[Len(received) + 1])
                        /\ rpos = at[Len(received) + 1] - rlen

TransferTypes ==
  /\ sent \in Seq(Packets) /\ received \in Seq(Seq(Byte))
  /\ rpc \in {"flowID", "length", "payload", "done", "failed"}
  /\ rpos \in 0..Len(wire)
  /\ \A w \in Writers : wpc[w] # "idle" => pkt[w] \in Packets

Position == \E at : Layout(at) /\ Covers(at) /\ ReaderAt(at)

TInv == IInv /\ TransferTypes /\ Position

-----------------------------------------------------------------------------
(* The bytes of the shortest encoding of a value parse to the value. *)
LEMMA ParseBytes ==
  ASSUME NEW v \in Nat, v < Limit(8), NEW b,
         \A i \in 1..Len(VarintBytes(v)) : b[i] = VarintBytes(v)[i]
  PROVE  VarintValue(b) = v /\ WidthOf(b[1]) = Len(VarintBytes(v))
<1> DEFINE n == VarintLen(v)
<1>1. n \in {1, 2, 4, 8} /\ v < Limit(n)
  BY VarintWidth, SMT DEF VarintLen, Limit
<1>2. VarintBytes(v) = [i \in 1..n |-> ByteOf(v, n - i) + (IF i = 1 THEN WidthBits(n) ELSE 0)]
  BY Zenon DEF VarintBytes, EncodeIn
<1>3. n \in Nat /\ 1 \in 1..n /\ \A i \in 2..n : i \in 1..n /\ i # 1 /\ n - i \in Nat
  BY <1>1
<1>4. \A i \in Nat : ByteOf(v, i) \in Nat
  <2>1. \A x \in 0..255 : x \in Nat
    OBVIOUS
  <2>2. QED
    BY <2>1, ByteOfIsByte, Zenon
<1> HIDE DEF n
<1>5. Len(VarintBytes(v)) = n
  BY <1>2, <1>3
<1>6. b[1] = ByteOf(v, n - 1) + WidthBits(n)
  BY <1>2, <1>3, <1>5
<1>7. \A i \in 2..n : b[i] = ByteOf(v, n - i)
  BY <1>2, <1>3, <1>4, <1>5
<1>8. VarintValue(b) = v /\ WidthOf(b[1]) = n
  BY <1>1, <1>6, <1>7, ParseEncoded
<1>9. QED
  BY <1>5, <1>8

(* The first byte of an encoding tells its width. *)
LEMMA FirstByteWidth ==
  ASSUME NEW v \in Nat, v < Limit(8)
  PROVE  WidthOf(VarintBytes(v)[1]) = Len(VarintBytes(v))
BY ParseBytes

(* The part of a sequence behind a position. *)
LEMMA SuffixAt ==
  ASSUME NEW a \in Seq(Byte), NEW n \in 0..Len(a)
  PROVE  /\ SubSeq(a, n + 1, Len(a)) \in Seq(Byte)
         /\ Len(SubSeq(a, n + 1, Len(a))) = Len(a) - n
         /\ \A i \in 1..(Len(a) - n) : /\ n + i \in 1..Len(a)
                                      /\ SubSeq(a, n + 1, Len(a))[i] = a[n + i]
<1>1. n + 1 \in Nat /\ Len(a) \in Nat /\ n \in Nat /\ n <= Len(a)
  OBVIOUS
<1>2. SubSeq(a, n + 1, Len(a)) = [i \in 1..(Len(a) - n) |-> a[n + i]]
  BY <1>1
<1>3. \A i \in 1..(Len(a) - n) : n + i \in 1..Len(a) /\ a[n + i] \in Byte
  BY <1>1
<1>4. QED
  BY <1>1, <1>2, <1>3

(* A concatenation, byte by byte. *)
LEMMA ConcatAt ==
  ASSUME NEW a \in Seq(Byte), NEW b \in Seq(Byte)
  PROVE  /\ \A i \in 1..Len(a) : (a \o b)[i] = a[i]
         /\ \A i \in 1..Len(b) : (a \o b)[Len(a) + i] = b[i]
OBVIOUS

(* The wire is a prefix of what was framed. *)
LEMMA WirePrefix ==
  ASSUME IInv
  PROVE  /\ wire \in Seq(Byte) /\ framed \in Seq(Byte)
         /\ Len(wire) <= Len(framed)
         /\ \A i \in 1..Len(wire) : wire[i] = framed[i]
<1>1. wire \in Seq(Byte) /\ framed \in Seq(Byte) /\ Unsent \in Seq(Byte)
  BY Types DEF IInv, Unsent
<1>2. wire \o Unsent = framed
  BY Zenon DEF IInv, NothingLostOrRepeated
<1>3. QED
  BY <1>1, <1>2, ConcatAt, ConcatBytes

(* What the reader can read is the wire behind its position. *)
LEMMA AvailableBytes ==
  ASSUME IInv, TransferTypes
  PROVE  /\ Available \in Seq(Byte) /\ Len(Available) = Len(wire) - rpos
         /\ \A i \in 1..Len(Available) : Available[i] = framed[rpos + i]
<1>1. rpos \in 0..Len(wire)
  BY Zenon DEF TransferTypes
<1>2. wire \in Seq(Byte) /\ \A i \in 1..Len(wire) : wire[i] = framed[i]
  BY WirePrefix, Zenon
<1>3. QED
  BY <1>1, <1>2, SuffixAt, Zenon DEF Available

-----------------------------------------------------------------------------
(* The sending side of a transfer is an RTPSendStream. *)
LEMMA SenderStep ==
  ASSUME [TransferNext]_transferVars
  PROVE  [Next]_vars
<1>1. CASE \E w \in Writers : LockStep(w) \/ FlushStep(w) \/ RecordCreated(w)
  BY <1>1, Zenon DEF LockStep, FlushStep, RecordCreated, Next, Returns
<1>2. CASE OtherSendStep
  BY <1>2, Zenon DEF OtherSendStep, Next
<1>3. CASE ReadStep \/ ReadFails
  BY <1>3, Zenon DEF ReadStep, ReadFails, ReadFlowID, ReadLength, ReadPayload, EndOfStream,
     ReaderReturns, senderVars
<1>4. CASE UNCHANGED transferVars
  BY <1>4, Zenon DEF transferVars
<1>5. QED
  BY <1>1, <1>2, <1>3, <1>4, Zenon DEF TransferNext

(* Initially nothing is framed and nothing is read. *)
LEMMA TransferInitInv == TransferInit => TInv
<1> SUFFICES ASSUME TransferInit PROVE TInv
  OBVIOUS
<1>1. IInv
  BY InitInv, Zenon DEF TransferInit
<1>2. /\ sent = <<>> /\ received = <<>> /\ rpc = "flowID" /\ rpos = 0 /\ wire = <<>>
      /\ framed = <<>> /\ wpc = [w \in Writers |-> "idle"]
  BY Zenon DEF TransferInit, Init
<1>3. TransferTypes
  BY <1>2 DEF TransferTypes
<1>4. Len(FlowIDBytes) \in Nat
  BY FlowIDIsBytes
<1> DEFINE at == [i \in 0..Len(sent) |-> Len(FlowIDBytes)]
<1>5. Layout(at)
  BY <1>2, <1>4 DEF Layout
<1>6. Covers(at) /\ ReaderAt(at)
  BY <1>2 DEF Covers, ReaderAt
<1>7. QED
  BY <1>1, <1>3, <1>5, <1>6, Zenon DEF TInv, Position

(* Packets are bytes, and their lengths can be encoded. *)
LEMMA SentPacket ==
  ASSUME TransferTypes, NEW i \in 1..Len(sent)
  PROVE  /\ sent[i] \in Seq(Byte) /\ Len(sent[i]) \in Nat /\ Len(sent[i]) < Limit(8)
         /\ VarintBytes(Len(sent[i])) \in Seq(Byte)
         /\ Len(VarintBytes(Len(sent[i]))) \in {1, 2, 4, 8}
         /\ Len(Frame(sent[i])) = Len(VarintBytes(Len(sent[i]))) + Len(sent[i])
         /\ \A k \in 1..Len(VarintBytes(Len(sent[i]))) :
              Frame(sent[i])[k] = VarintBytes(Len(sent[i]))[k]
         /\ \A k \in 1..Len(sent[i]) :
              Frame(sent[i])[Len(VarintBytes(Len(sent[i]))) + k] = sent[i][k]
<1>1. sent \in Seq(Packets)
  BY Zenon DEF TransferTypes
<1>2. sent[i] \in Packets
  BY <1>1
<1>3. sent[i] \in Seq(Byte) /\ Len(sent[i]) < Limit(8)
  BY <1>2, SendStreamAssumption, TransferAssumption, Zenon
     DEF SendStreamAssumption, TransferAssumption
<1>4. Len(sent[i]) \in Nat
  BY <1>3
<1>5. /\ VarintBytes(Len(sent[i])) \in Seq(Byte)
      /\ Len(VarintBytes(Len(sent[i]))) \in {1, 2, 4, 8}
  BY <1>4, VarintIsBytes, Zenon
<1>6. QED
  BY <1>3, <1>4, <1>5, ConcatAt, ConcatBytes, Zenon DEF Frame

-----------------------------------------------------------------------------
(* The reader parses the length of the frame it stands before. *)
LEMMA ReadLengthStep ==
  ASSUME IInv, TransferTypes, NEW at, Layout(at), Covers(at), ReaderAt(at), ReadLength
  PROVE  /\ rpc' = "payload" /\ Whole /\ Len(received) < Len(sent)
         /\ rlen' = Len(sent[Len(received) + 1]) /\ encoded' = VarintBytes(rlen')
         /\ rpos' = at[Len(received) + 1] - rlen'
         /\ rpos' \in 0..Len(wire)
         /\ UNCHANGED <<vars, sent, received>>
<1>1. /\ rpc = "length" /\ HasVarint(Available) /\ rlen' = VarintValue(Available)
      /\ encoded' = SubSeq(Available, 1, WidthOf(Head(Available)))
      /\ rpos' = rpos + Len(encoded') /\ rpc' = "payload"
      /\ UNCHANGED <<vars, sent, received>>
  BY Zenon DEF ReadLength, senderVars
<1>2. /\ Available \in Seq(Byte) /\ Len(Available) = Len(wire) - rpos
      /\ \A i \in 1..Len(Available) : Available[i] = framed[rpos + i]
  BY AvailableBytes, Zenon
<1>3. /\ wire \in Seq(Byte) /\ framed \in Seq(Byte) /\ Len(wire) <= Len(framed)
  BY WirePrefix, Zenon
<1>4. rpos \in 0..Len(wire) /\ received \in Seq(Seq(Byte)) /\ sent \in Seq(Packets)
  BY Zenon DEF TransferTypes
<1>5. /\ Available # <<>> /\ Head(Available) = Available[1]
      /\ Len(Available) >= WidthOf(Available[1])
  BY <1>1, <1>2 DEF HasVarint
<1>6. rpos < Len(wire) /\ framed # <<>>
  BY <1>2, <1>3, <1>4, <1>5
<1>7. Whole /\ rpos = at[Len(received)] /\ Len(framed) = at[Len(sent)]
  BY <1>1, <1>4, <1>6 DEF ReaderAt, Covers
<1> DEFINE n == Len(received)
           m == n + 1
           V == VarintBytes(Len(sent[m]))
<1>8. n \in Nat /\ n < Len(sent) /\ m \in 1..Len(sent) /\ m - 1 = n
  BY <1>3, <1>4, <1>6, <1>7 DEF Whole
<1>9. /\ Len(sent[m]) \in Nat /\ Len(sent[m]) < Limit(8) /\ V \in Seq(Byte)
      /\ Len(V) \in {1, 2, 4, 8} /\ Len(Frame(sent[m])) = Len(V) + Len(sent[m])
      /\ \A k \in 1..Len(V) : Frame(sent[m])[k] = V[k]
  BY <1>8, SentPacket, Zenon
<1> HIDE DEF V, m
<1>10. /\ at[m] = at[n] + Len(Frame(sent[m])) /\ at[n] \in Nat
       /\ \A k \in 1..Len(Frame(sent[m])) : framed[at[n] + k] = Frame(sent[m])[k]
  <2>1. /\ at[m] = at[m - 1] + Len(Frame(sent[m]))
        /\ \A k \in 1..Len(Frame(sent[m])) : framed[at[m - 1] + k] = Frame(sent[m])[k]
        /\ at \in [0..Len(sent) -> Nat]
    BY <1>8, Zenon DEF Layout
  <2>2. n \in 0..Len(sent)
    BY <1>4, <1>8
  <2>3. QED
    BY <1>8, <2>1, <2>2, Zenon
<1>11. \A k \in 1..Len(V) : framed[rpos + k] = V[k]
  BY <1>7, <1>9, <1>10
<1>12. WidthOf(V[1]) = Len(V)
  BY <1>9, FirstByteWidth, Zenon DEF V
<1>13. Available[1] = V[1] /\ Len(Available) >= Len(V)
  BY <1>2, <1>5, <1>9, <1>11, <1>12
<1>14. \A k \in 1..Len(V) : Available[k] = V[k]
  BY <1>2, <1>9, <1>11, <1>13
<1>15. VarintValue(Available) = Len(sent[m])
  BY <1>9, <1>14, ParseBytes, Zenon DEF V
<1>16. Len(encoded') = Len(V)
  BY <1>1, <1>2, <1>5, <1>9, <1>12, <1>13
<1>17. rpos' = at[m] - rlen' /\ rpos' \in 0..Len(wire)
  <2>1. rpos' = at[n] + Len(V) /\ rpos' = rpos + Len(V) /\ rlen' = Len(sent[m])
    BY <1>1, <1>7, <1>15, <1>16, Zenon
  <2>2. at[m] = at[n] + (Len(V) + Len(sent[m])) /\ Len(V) \in Nat
    BY <1>9, <1>10
  <2>3. rpos' = at[m] - rlen'
    BY <1>9, <1>10, <2>1, <2>2
  <2>4. rpos + Len(V) <= Len(wire) /\ Len(wire) \in Nat /\ rpos \in Nat
    BY <1>2, <1>3, <1>4, <1>13, <2>2
  <2>5. rpos' \in 0..Len(wire)
    BY <2>1, <2>2, <2>4
  <2>6. QED
    BY <2>3, <2>5
<1>18. encoded' = V
  <2>1. /\ encoded' \in Seq(Byte)
        /\ \A k \in 1..Len(encoded') : encoded'[k] = Available[k]
    BY <1>1, <1>2, <1>5, <1>9, <1>12, <1>13
  <2>2. \A k \in 1..Len(V) : encoded'[k] = V[k]
    BY <1>14, <1>16, <2>1, Zenon
  <2>3. QED
    BY <1>9, <1>16, <2>1, <2>2
<1>19. QED
  BY <1>1, <1>7, <1>8, <1>15, <1>17, <1>18, Zenon DEF m, V

(* The reader parses the flow ID and is before the first frame. *)
LEMMA ReadFlowIDStep ==
  ASSUME IInv, TransferTypes, NEW at, Layout(at), Covers(at), ReaderAt(at), ReadFlowID
  PROVE  /\ rpc' = "length" /\ Whole /\ framed # <<>> /\ rpos' = at[Len(received)]
         /\ rpos' \in 0..Len(wire) /\ rpos' > 0 /\ rflow' = FlowID
         /\ UNCHANGED <<vars, sent, received>>
<1>1. /\ rpc = "flowID" /\ HasVarint(Available) /\ rpc' = "length"
      /\ rflow' = VarintValue(Available)
      /\ rpos' = rpos + WidthOf(Head(Available))
      /\ UNCHANGED <<vars, sent, received>>
  BY Zenon DEF ReadFlowID, senderVars
<1>2. rpos = 0 /\ received = <<>>
  BY <1>1, Zenon DEF ReaderAt
<1>3. /\ Available \in Seq(Byte) /\ Len(Available) = Len(wire) - rpos
      /\ \A i \in 1..Len(Available) : Available[i] = framed[rpos + i]
  BY AvailableBytes, Zenon
<1>4. /\ wire \in Seq(Byte) /\ framed \in Seq(Byte) /\ Len(wire) <= Len(framed)
      /\ sent \in Seq(Packets)
  BY WirePrefix, Zenon DEF TransferTypes
<1>5. /\ Available # <<>> /\ Head(Available) = Available[1]
      /\ Len(Available) >= WidthOf(Available[1])
  BY <1>1, <1>3 DEF HasVarint
<1>6. framed # <<>> /\ Available[1] = framed[1]
  BY <1>2, <1>3, <1>4, <1>5
<1>7. FlowID \in Nat /\ FlowID < Limit(8)
  BY SendStreamAssumption, TransferAssumption, Zenon
     DEF SendStreamAssumption, TransferAssumption
<1>8. /\ Len(FlowIDBytes) \in {1, 2, 4, 8} /\ WidthOf(FlowIDBytes[1]) = Len(FlowIDBytes)
  BY <1>7, VarintIsBytes, FirstByteWidth, Zenon DEF FlowIDBytes
<1>9. framed[1] = FlowIDBytes[1] /\ at[0] = Len(FlowIDBytes)
  <2>1. 1 \in 1..Len(FlowIDBytes)
    BY <1>8
  <2>2. QED
    BY <1>6, <2>1, Zenon DEF Covers, Layout
<1>10. rpos' = 0 + at[0] /\ Len(Available) >= at[0] /\ at[0] \in Nat /\ at[0] > 0
  BY <1>1, <1>2, <1>5, <1>6, <1>8, <1>9
<1>11. rpos' = at[Len(received)] /\ rpos' \in 0..Len(wire) /\ rpos' > 0
  BY <1>2, <1>3, <1>4, <1>10
<1>12. Whole
  BY <1>2, <1>4 DEF Whole
<1>13. \A k \in 1..Len(FlowIDBytes) : Available[k] = FlowIDBytes[k]
  <2>1. \A k \in 1..Len(FlowIDBytes) : framed[k] = FlowIDBytes[k]
    BY <1>6, Zenon DEF Covers
  <2>2. \A k \in 1..Len(FlowIDBytes) : k \in 1..Len(Available) /\ rpos + k = k
    BY <1>2, <1>3, <1>9, <1>10
  <2>3. QED
    BY <1>3, <2>1, <2>2, Zenon
<1>14. rflow' = FlowID
  BY <1>1, <1>7, <1>13, ParseBytes, Zenon DEF FlowIDBytes
<1>15. QED
  BY <1>1, <1>6, <1>11, <1>12, <1>14, Zenon

(* The reader takes a packet, or what there is of it when the stream has    *)
(* ended, and is before the next frame or at the end.                       *)
LEMMA ReadPayloadStep ==
  ASSUME IInv, TransferTypes, NEW at, Layout(at), Covers(at), ReaderAt(at), ReadPayload
  PROVE  /\ PS!Deliver \/ PS!DeliverCut
         /\ rpc' = "length" /\ received' \in Seq(Seq(Byte)) /\ rpos' \in 0..Len(wire)
         /\ \/ Whole' /\ framed # <<>> /\ rpos' = at[Len(received')]
            \/ rpos' = Len(wire) /\ stream # "open"
         /\ UNCHANGED <<vars, sent>>
<1> DEFINE n == Len(received)
           m == n + 1
           p == sent[m]
           V == VarintBytes(Len(p))
           k == IF Len(Available) < rlen THEN Len(Available) ELSE rlen
           payload == SubSeq(Available, 1, k)
<1>1. /\ rpc = "payload" /\ (Len(Available) >= rlen \/ stream = "closed")
      /\ received' = Append(received, payload) /\ rpos' = rpos + k /\ rpc' = "length"
      /\ UNCHANGED <<vars, sent>>
  BY Zenon DEF ReadPayload, senderVars, AtEOF
<1>2. Whole /\ n < Len(sent) /\ rlen = Len(p) /\ rpos = at[m] - rlen
  BY <1>1, Zenon DEF ReaderAt
<1>3. /\ Available \in Seq(Byte) /\ Len(Available) = Len(wire) - rpos
      /\ \A i \in 1..Len(Available) : Available[i] = framed[rpos + i]
  BY AvailableBytes, Zenon
<1>4. /\ rpos \in 0..Len(wire) /\ received \in Seq(Seq(Byte)) /\ sent \in Seq(Packets)
      /\ wire \in Seq(Byte) /\ Len(wire) \in Nat
  BY WirePrefix DEF TransferTypes
<1>5. n \in Nat /\ m \in 1..Len(sent) /\ m - 1 = n /\ n \in 0..Len(sent) /\ m \in 0..Len(sent)
  BY <1>2, <1>4
<1>6. /\ p \in Seq(Byte) /\ Len(p) \in Nat /\ Len(V) \in {1, 2, 4, 8}
      /\ Len(Frame(p)) = Len(V) + Len(p)
      /\ \A i \in 1..Len(p) : Frame(p)[Len(V) + i] = p[i]
  BY <1>5, SentPacket, Zenon
<1> HIDE DEF V, p
<1>7. /\ at[m] = at[n] + Len(Frame(p)) /\ at[n] \in Nat /\ at[m] \in Nat
      /\ \A i \in 1..Len(Frame(p)) : framed[at[n] + i] = Frame(p)[i]
  BY <1>5 DEF Layout, p
<1>8. rpos = at[n] + Len(V) /\ Len(V) \in Nat
  <2>1. Len(V) \in Nat
    BY <1>6
  <2>2. \A a, b, c \in Nat : (a + (b + c)) - c = a + b
    OBVIOUS
  <2>3. rpos = (at[n] + (Len(V) + Len(p))) - Len(p)
    BY <1>2, <1>6, <1>7, Zenon
  <2>4. QED
    BY <1>6, <1>7, <2>1, <2>2, <2>3, Zenon
<1>9. \A i \in 1..Len(p) : framed[rpos + i] = p[i]
  <2> SUFFICES ASSUME NEW i \in 1..Len(p) PROVE framed[rpos + i] = p[i]
    OBVIOUS
  <2>1. Len(V) + i \in 1..Len(Frame(p))
    <3>1. \A a, b \in Nat : \A j \in 1..b : a + j \in 1..(a + b)
      OBVIOUS
    <3>2. QED
      BY <1>6, <1>8, <3>1, Zenon
  <2>2. rpos + i = at[n] + (Len(V) + i)
    <3>1. \A a, b, c \in Nat : (a + b) + c = a + (b + c)
      OBVIOUS
    <3>2. i \in Nat
      OBVIOUS
    <3>3. QED
      BY <1>7, <1>8, <3>1, <3>2, Zenon
  <2>3. QED
    BY <1>6, <1>7, <2>1, <2>2, Zenon
<1>10. k \in 0..Len(p) /\ k <= Len(Available) /\ k \in Nat
  BY <1>2, <1>3, <1>6
<1> HIDE DEF k
<1>11. /\ payload \in Seq(Byte) /\ Len(payload) = k
       /\ \A i \in 1..k : payload[i] = Available[i]
  BY <1>3, <1>10
<1>12. \A i \in 1..k : payload[i] = p[i]
  <2> SUFFICES ASSUME NEW i \in 1..k PROVE payload[i] = p[i]
    OBVIOUS
  <2>1. i \in 1..Len(p) /\ i \in 1..Len(Available)
    BY <1>3, <1>6, <1>10
  <2>2. QED
    BY <1>3, <1>9, <1>11, <2>1, Zenon
<1> HIDE DEF payload
<1>13. /\ Len(SubSeq(p, 1, k)) = k /\ SubSeq(p, 1, k) \in Seq(Byte)
       /\ \A i \in 1..k : SubSeq(p, 1, k)[i] = p[i]
  BY <1>6, <1>10
<1>14. payload = SubSeq(p, 1, k)
  BY <1>11, <1>12, <1>13
<1>15. received' \in Seq(Seq(Byte)) /\ Len(received') = m
  BY <1>1, <1>4, <1>11
<1>16. rpos' \in 0..Len(wire)
  BY <1>1, <1>3, <1>4, <1>10
<1>17. PS!HasNext
  BY <1>2, Zenon DEF PS!HasNext, Whole
<1>18. CASE k = Len(p)
  <2>1. payload = p
    BY <1>6, <1>14, <1>18
  <2>2. PS!Deliver
    BY <1>1, <1>17, <2>1, Zenon DEF PS!Deliver, vars, p
  <2>3. Whole'
    BY <1>1, <1>2, <1>4, <1>5, <2>1 DEF Whole, p
  <2>4. rpos' = at[Len(received')]
    BY <1>1, <1>2, <1>6, <1>7, <1>15, <1>18
  <2>5. framed # <<>>
    BY <1>4, <1>5 DEF Covers
  <2>6. QED
    BY <1>1, <1>15, <1>16, <2>2, <2>3, <2>4, <2>5, Zenon
<1>19. CASE k # Len(p)
  <2>1. k = Len(Available) /\ stream = "closed" /\ k \in 0..(Len(p) - 1)
    <3>1. k = (IF Len(Available) < Len(p) THEN Len(Available) ELSE Len(p))
      BY <1>2, Zenon DEF k
    <3>2. Len(Available) >= Len(p) \/ stream = "closed"
      BY <1>1, <1>2, Zenon
    <3>3. Len(Available) \in Nat /\ Len(p) \in Nat
      BY <1>3, <1>6
    <3>4. QED
      BY <1>19, <3>1, <3>2, <3>3
  <2>2. PS!DeliverCut
    BY <1>1, <1>14, <1>17, <2>1, Zenon DEF PS!DeliverCut, vars, p
  <2>3. rpos' = Len(wire)
    BY <1>1, <1>3, <1>4, <2>1
  <2>4. QED
    BY <1>1, <1>15, <1>16, <2>1, <2>2, <2>3
<1>20. QED
  BY <1>18, <1>19, Zenon

-----------------------------------------------------------------------------
(* at2 is at with one more position at the end. *)
Extended(at2, at, N, L) ==
  /\ at2 \in [0..(N + 1) -> Nat] /\ at2[N + 1] = at[N] + L
  /\ \A i \in 0..N : at2[i] = at[i]
  /\ \A i \in 0..(N + 1) : at2[i] <= at2[N + 1]

(* There is such an at2. *)
LEMMA OneMore ==
  ASSUME NEW N \in Nat, NEW at \in [0..N -> Nat], NEW L \in Nat,
         \A i \in 0..N : at[i] <= at[N]
  PROVE  \E at2 : Extended(at2, at, N, L)
<1> DEFINE at2 == [i \in 0..(N + 1) |-> IF i <= N THEN at[i] ELSE at[N] + L]
<1>1. at[N] \in Nat /\ at[N] + L \in Nat /\ at[N] <= at[N] + L
  OBVIOUS
<1>2. at2 \in [0..(N + 1) -> Nat]
  BY <1>1
<1>3. at2[N + 1] = at[N] + L
  OBVIOUS
<1>4. \A i \in 0..N : at2[i] = at[i]
  OBVIOUS
<1> HIDE DEF at2
<1>5. \A i \in 0..(N + 1) : at2[i] <= at2[N + 1]
  <2> SUFFICES ASSUME NEW i \in 0..(N + 1) PROVE at2[i] <= at2[N + 1]
    OBVIOUS
  <2>1. CASE i \in 0..N
    <3>1. at[i] <= at[N] /\ at[i] \in Nat /\ at2[i] = at[i]
      BY <1>4, <2>1
    <3>2. QED
      BY <1>1, <1>3, <3>1
  <2>2. CASE i = N + 1
    BY <1>1, <1>3, <2>2
  <2>3. QED
    BY <2>1, <2>2
<1>6. QED
  BY <1>2, <1>3, <1>4, <1>5, Zenon DEF Extended

(* A frame for q goes behind base. *)
Grows(base, q) == framed' = base \o Frame(q) /\ sent' = Append(sent, q)

(* A frame behind all that belongs in front of it extends the layout. *)
LEMMA LayoutGrows ==
  ASSUME TransferTypes, NEW at, Layout(at), NEW q \in Packets, NEW base \in Seq(Byte),
         Len(base) = at[Len(sent)], Len(sent) > 0 => base = framed,
         \A k \in 1..Len(FlowIDBytes) : base[k] = FlowIDBytes[k],
         Grows(base, q)
  PROVE  \E at2 : Layout(at2)' /\ Covers(at2)' /\ \A i \in 0..Len(sent) : at2[i] = at[i]
<1> DEFINE N == Len(sent)
           F == Frame(q)
<1>1. N \in Nat /\ N = Len(sent)
  BY DEF TransferTypes
<1>2. F \in Seq(Byte) /\ Len(F) \in Nat /\ Len(F) > 0
  <2>1. q \in Seq(Byte)
    BY SendStreamAssumption, Zenon DEF SendStreamAssumption
  <2>2. F \in Seq(Byte) /\ Len(F) > Len(q)
    BY <2>1, FrameBytes, Zenon
  <2> HIDE DEF F
  <2>3. QED
    BY <2>1, <2>2
<1>3. /\ at \in [0..N -> Nat] /\ at[0] = Len(FlowIDBytes)
      /\ \A i \in 0..N : at[i] <= at[N]
  BY Zenon DEF Layout
<1>4. Len(sent') = N + 1 /\ sent'[N + 1] = q /\ \A i \in 1..N : sent'[i] = sent[i]
  BY DEF Grows, TransferTypes
<1>5. framed' = base \o F
  BY Zenon DEF Grows
<1> HIDE DEF F, N
<1>6. /\ framed' \in Seq(Byte) /\ Len(framed') = at[N] + Len(F)
      /\ \A k \in 1..at[N] : framed'[k] = base[k]
      /\ \A k \in 1..Len(F) : framed'[at[N] + k] = F[k]
  <2>1. Len(base) = at[N]
    BY <1>1, Zenon
  <2>2. base \o F \in Seq(Byte) /\ Len(base \o F) = Len(base) + Len(F)
    BY <1>2, ConcatBytes, Zenon
  <2>3. /\ \A k \in 1..Len(base) : (base \o F)[k] = base[k]
        /\ \A k \in 1..Len(F) : (base \o F)[Len(base) + k] = F[k]
    BY <1>2, ConcatAt, Zenon
  <2>4. QED
    BY <1>5, <2>1, <2>2, <2>3, Zenon
<1>7. PICK at2 : Extended(at2, at, N, Len(F))
  BY <1>1, <1>2, <1>3, OneMore, Zenon
<1>8. 0 \in 0..N /\ N \in 0..N /\ at[N] \in Nat
  BY <1>1, <1>3
<1>9. /\ at2 \in [0..Len(sent') -> Nat] /\ at2[0] = Len(FlowIDBytes)
      /\ \A i \in 0..Len(sent') : at2[i] <= at2[Len(sent')]
  BY <1>3, <1>4, <1>7, <1>8, Zenon DEF Extended
<1>10. ASSUME NEW i \in 1..Len(sent')
       PROVE  /\ at2[i] = at2[i - 1] + Len(Frame(sent'[i]))
              /\ \A k \in 1..Len(Frame(sent'[i])) : framed'[at2[i - 1] + k] = Frame(sent'[i])[k]
  <2>1. CASE i = N + 1
    <3>1. i - 1 = N
      BY <1>1, <2>1
    <3>2. at2[i - 1] = at[N] /\ at2[i] = at[N] + Len(F) /\ sent'[i] = q
      BY <1>4, <1>7, <1>8, <2>1, <3>1, Zenon DEF Extended
    <3>3. QED
      BY <1>6, <3>2, Zenon DEF F
  <2>2. CASE i # N + 1
    <3>1. i \in 1..N /\ i \in 0..N /\ i - 1 \in 0..N /\ N > 0
      BY <1>1, <1>4, <2>2
    <3>2. /\ at2[i] = at[i] /\ at2[i - 1] = at[i - 1] /\ at[i] <= at[N]
          /\ at[i - 1] \in Nat /\ sent'[i] = sent[i]
      BY <1>3, <1>4, <1>7, <3>1, Zenon DEF Extended
    <3>3. /\ at[i] = at[i - 1] + Len(Frame(sent[i]))
          /\ \A k \in 1..Len(Frame(sent[i])) : framed[at[i - 1] + k] = Frame(sent[i])[k]
      BY <1>1, <3>1, Zenon DEF Layout
    <3>4. Len(Frame(sent[i])) \in Nat
      BY <1>1, <3>1, SentPacket
    <3>5. \A k \in 1..Len(Frame(sent[i])) : at[i - 1] + k \in 1..at[N]
      <4>1. at[i - 1] + Len(Frame(sent[i])) <= at[N]
        BY <3>2, <3>3, Zenon
      <4> DEFINE a == at[i - 1]
                 l == Len(Frame(sent[i]))
                 z == at[N]
      <4>2. a \in Nat /\ l \in Nat /\ z \in Nat /\ a + l <= z
        BY <1>8, <3>2, <3>4, <4>1, Zenon
      <4> HIDE DEF a, l, z
      <4>3. \A k \in 1..l : a + k \in 1..z
        BY <4>2
      <4>4. QED
        BY <4>3, Zenon DEF a, l, z
    <3>6. base = framed
      BY <1>1, <3>1, Zenon
    <3>7. QED
      <4>1. \A k \in 1..Len(Frame(sent[i])) : framed'[at[i - 1] + k] = Frame(sent[i])[k]
        BY <1>6, <3>3, <3>5, <3>6, Zenon
      <4>2. QED
        BY <3>2, <3>3, <4>1, Zenon
  <2>3. QED
    BY <2>1, <2>2, Zenon
<1>11. Layout(at2)'
  BY <1>9, <1>10, Zenon DEF Layout
<1>12. Covers(at2)'
  <2>1. framed' # <<>> /\ Len(framed') = at2[Len(sent')]
    BY <1>2, <1>4, <1>6, <1>7, <1>8 DEF Extended
  <2>2. \A k \in 1..Len(FlowIDBytes) : k \in 1..at[N]
    BY <1>3, <1>8
  <2>3. QED
    BY <1>6, <2>1, <2>2, Zenon DEF Covers
<1>13. QED
  BY <1>1, <1>7, <1>11, <1>12, Zenon DEF Extended

(* What stands in front of the next frame. *)
Base == framed \o (IF framed = <<>> THEN FlowIDBytes ELSE <<>>)

(* It ends where the next frame begins. *)
LEMMA BaseLayout ==
  ASSUME IInv, TransferTypes, NEW at, Layout(at), Covers(at)
  PROVE  /\ Base \in Seq(Byte) /\ Len(framed) <= Len(Base)
         /\ Len(Base) = at[Len(sent)] /\ (Len(sent) > 0 => Base = framed)
         /\ \A k \in 1..Len(FlowIDBytes) : Base[k] = FlowIDBytes[k]
<1>1. framed \in Seq(Byte) /\ FlowIDBytes \in Seq(Byte) /\ Len(framed) \in Nat
  <2>1. framed \in Seq(Byte) /\ FlowIDBytes \in Seq(Byte)
    BY WirePrefix, FlowIDIsBytes, Zenon
  <2>2. QED
    BY <2>1
<1>2. CASE framed = <<>>
  <2>1. Base = FlowIDBytes
    BY <1>1, <1>2, ConcatEmpty, Zenon DEF Base
  <2>2. sent = <<>>
    BY <1>2, Zenon DEF Covers
  <2>3. Len(sent) = 0 /\ ~(Len(sent) > 0) /\ Len(framed) = 0 /\ Len(FlowIDBytes) >= 0
    BY <1>1, <1>2, <2>2
  <2>4. Len(framed) <= Len(FlowIDBytes)
    BY <1>1, <2>3
  <2>5. QED
    BY <1>1, <2>1, <2>3, <2>4, Zenon DEF Layout
<1>3. CASE framed # <<>>
  <2>1. Base = framed
    BY <1>1, <1>3, ConcatEmpty, Zenon DEF Base
  <2>2. Len(framed) <= Len(framed)
    BY <1>1
  <2>3. QED
    BY <1>1, <1>3, <2>1, <2>2, Zenon DEF Covers
<1>4. QED
  BY <1>2, <1>3, Zenon

(* The reader is where it was when a frame is added behind the others. *)
LEMMA ReaderStays ==
  ASSUME TransferTypes, NEW at, NEW at2, ReaderAt(at), NEW q,
         \A i \in 0..Len(sent) : at2[i] = at[i],
         sent' = Append(sent, q), framed' # <<>>, UNCHANGED <<wire, stream, readerVars>>
  PROVE  ReaderAt(at2)'
<1>1. sent \in Seq(Packets) /\ received \in Seq(Seq(Byte))
  BY Zenon DEF TransferTypes
<1>2. UNCHANGED <<rpc, rpos, rlen, received>>
  BY Zenon DEF readerVars
<1>3. /\ Len(sent') = Len(sent) + 1 /\ Len(sent) \in Nat /\ Len(received) \in Nat
      /\ \A i \in 1..Len(sent) : sent'[i] = sent[i]
  BY <1>1
<1>4. \A n \in 0..Len(sent) : SubSeq(sent', 1, n) = SubSeq(sent, 1, n)
  BY <1>1
<1>5. Whole => Whole' /\ Len(received) \in 0..Len(sent)
  <2> SUFFICES ASSUME Whole PROVE Whole' /\ Len(received) \in 0..Len(sent)
    OBVIOUS
  <2>1. Len(received) <= Len(sent) /\ received = SubSeq(sent, 1, Len(received))
    BY Zenon DEF Whole
  <2>2. Len(received) \in 0..Len(sent) /\ Len(received) <= Len(sent')
    BY <1>3, <2>1
  <2>3. QED
    BY <1>2, <1>4, <2>1, <2>2, Zenon DEF Whole
<1>6. rpc = "flowID" => rpos = 0 /\ received = <<>>
  BY Zenon DEF ReaderAt
<1>7. ASSUME rpc = "length"
      PROVE  \/ Whole' /\ framed' # <<>> /\ rpos' = at2[Len(received')]
             \/ rpos' = Len(wire') /\ stream' # "open"
  BY <1>2, <1>5, <1>7, Zenon DEF ReaderAt
<1>8. ASSUME rpc = "payload"
      PROVE  /\ Whole' /\ Len(received') < Len(sent')
             /\ rlen' = Len(sent'[Len(received') + 1])
             /\ rpos' = at2[Len(received') + 1] - rlen'
  <2>1. /\ Whole /\ Len(received) < Len(sent) /\ rlen = Len(sent[Len(received) + 1])
        /\ rpos = at[Len(received) + 1] - rlen
    BY <1>8, Zenon DEF ReaderAt
  <2>2. /\ Len(received) < Len(sent') /\ Len(received) + 1 \in 1..Len(sent)
        /\ Len(received) + 1 \in 0..Len(sent)
    BY <1>3, <2>1
  <2>3. QED
    BY <1>2, <1>3, <1>5, <2>1, <2>2, Zenon
<1>9. QED
  BY <1>2, <1>6, <1>7, <1>8, Zenon DEF ReaderAt

(* A frame is put together: the packet counts as sent. *)
LEMMA FramedStep ==
  ASSUME IInv, TransferTypes, NEW at, Layout(at), Covers(at), ReaderAt(at),
         NEW w \in Writers, pkt[w] \in Packets, WriteFrame(w), Frames(w),
         UNCHANGED <<wire, stream, readerVars>>
  PROVE  /\ sent' = Append(sent, pkt[w])
         /\ \E at2 : Layout(at2)' /\ Covers(at2)' /\ ReaderAt(at2)'
<1>1. framed' = Base \o Frame(pkt[w])
  BY Zenon DEF WriteFrame, Base
<1>2. /\ Base \in Seq(Byte) /\ Len(framed) <= Len(Base)
      /\ Len(Base) = at[Len(sent)] /\ (Len(sent) > 0 => Base = framed)
      /\ \A k \in 1..Len(FlowIDBytes) : Base[k] = FlowIDBytes[k]
  BY BaseLayout, Zenon
<1>3. Frame(pkt[w]) \in Seq(Byte) /\ Len(Frame(pkt[w])) > Len(pkt[w]) /\ Len(pkt[w]) \in Nat
  <2>1. pkt[w] \in Seq(Byte)
    BY SendStreamAssumption, Zenon DEF SendStreamAssumption
  <2>2. Len(pkt[w]) \in Nat
    BY <2>1
  <2>3. QED
    BY <2>1, <2>2, FrameBytes, Zenon
<1>4. Len(framed') = Len(Base) + Len(Frame(pkt[w]))
  BY <1>1, <1>2, <1>3, ConcatBytes, Zenon
<1>5. framed' # framed /\ framed' # <<>>
  <2>1. framed \in Seq(Byte)
    BY WirePrefix, Zenon
  <2>2. Len(framed') > Len(framed) /\ Len(framed') > 0 /\ Len(framed) \in Nat
    BY <1>2, <1>3, <1>4, <2>1
  <2>3. Len(framed') # Len(framed) /\ Len(framed') # Len(<<>>)
    BY <2>2
  <2>4. QED
    BY <2>3, Zenon
<1>6. sent' = Append(sent, pkt[w])
  BY <1>5, Zenon DEF Frames
<1>7. Grows(Base, pkt[w])
  BY <1>1, <1>6, Zenon DEF Grows
<1>8. PICK at2 : Layout(at2)' /\ Covers(at2)' /\ \A i \in 0..Len(sent) : at2[i] = at[i]
  BY <1>2, <1>7, LayoutGrows, Zenon
<1>9. ReaderAt(at2)'
  BY <1>5, <1>6, <1>8, ReaderStays, Zenon
<1>10. QED
  BY <1>6, <1>8, <1>9, Zenon

-----------------------------------------------------------------------------
(* A goroutine inside WriteRTPBytes has a packet. *)
LEMMA CallersHavePackets ==
  ASSUME IInv, TransferTypes, [Next]_vars
  PROVE  \A v \in Writers : wpc'[v] # "idle" => pkt'[v] \in Packets
<1> SUFFICES ASSUME NEW v \in Writers, wpc'[v] # "idle" PROVE pkt'[v] \in Packets
  OBVIOUS
<1>1. /\ wpc \in [Writers -> {"idle", "lock", "flush", "write"}]
      /\ pkt \in [Writers -> Seq(Byte)]
  BY Types, Zenon DEF IInv
<1>2. wpc[v] # "idle" => pkt[v] \in Packets
  BY Zenon DEF TransferTypes
<1>3. ASSUME NEW w \in Writers, NEW p \in Packets, WriteRTPBytes(w, p)
      PROVE  pkt'[v] \in Packets
  <2>1. wpc' = [wpc EXCEPT ![w] = "lock"] /\ pkt' = [pkt EXCEPT ![w] = p]
    BY <1>3, Zenon DEF WriteRTPBytes
  <2>2. QED
    BY <1>1, <1>2, <2>1
<1>4. ASSUME NEW w \in Writers, wpc[w] # "idle", UNCHANGED pkt,
             NEW l, wpc' = [wpc EXCEPT ![w] = l]
      PROVE  pkt'[v] \in Packets
  BY <1>1, <1>2, <1>4
<1>5. ASSUME NEW w \in Writers, Lock(w) \/ Returns(w)
      PROVE  pkt'[v] \in Packets
  <2>1. UNCHANGED pkt /\ wpc[w] \in {"lock", "flush", "write"}
    BY <1>5, Zenon DEF Lock, Returns, FlushReturns, WriteReturns
  <2>2. \E l : wpc' = [wpc EXCEPT ![w] = l]
    BY <1>5, Zenon DEF Lock, Returns, FlushReturns, WriteReturns, WriteFrame, Return
  <2>3. wpc[w] # "idle"
    BY <2>1
  <2>4. QED
    BY <1>4, <2>1, <2>2, <2>3, Zenon
<1>6. CASE UNCHANGED <<wpc, pkt>>
  BY <1>2, <1>6, Zenon
<1>7. Accept \/ CancelStream \/ Close \/ UNCHANGED vars => UNCHANGED <<wpc, pkt>>
  BY Zenon DEF Accept, CancelStream, Close, vars
<1>8. QED
  BY <1>3, <1>5, <1>6, <1>7, Zenon DEF Next

(* The positions stay right when nothing is framed and nothing is read: the *)
(* wire may grow while the stream is open, and the stream may be stopped.   *)
LEMMA NothingRead ==
  ASSUME TransferTypes, NEW at, Layout(at), Covers(at), ReaderAt(at),
         UNCHANGED <<sent, framed, received, rpc, rpos, rlen>>,
         stream = "open" \/ UNCHANGED wire,
         stream' = stream \/ stream' # "open"
  PROVE  Layout(at)' /\ Covers(at)' /\ ReaderAt(at)'
<1>1. Layout(at)' /\ Covers(at)' /\ (Whole <=> Whole')
  BY Zenon DEF Layout, Covers, Whole
<1>2. rpos = Len(wire) /\ stream # "open" => rpos' = Len(wire') /\ stream' # "open"
  BY Zenon
<1>3. ReaderAt(at)'
  BY <1>1, <1>2, Zenon DEF ReaderAt
<1>4. QED
  BY <1>1, <1>3, Zenon

(* A step as PacketStream sees it. *)
AbstractStep == PS!Next \/ UNCHANGED PS!vars

(* The sender frames a packet, or does not. *)
LEMMA SendKeeps ==
  ASSUME TInv, NEW w \in Writers, wpc[w] # "idle", WriteFrame(w) \/ UNCHANGED framed,
         Frames(w), UNCHANGED <<wire, stream, readerVars>>
  PROVE  Position' /\ sent' \in Seq(Packets) /\ AbstractStep
<1>1. PICK at : Layout(at) /\ Covers(at) /\ ReaderAt(at)
  BY Zenon DEF TInv, Position
<1>2. IInv /\ TransferTypes /\ sent \in Seq(Packets) /\ pkt[w] \in Packets
  BY Zenon DEF TInv, TransferTypes
<1>3. UNCHANGED <<received, rpc, rpos, rlen>>
  BY Zenon DEF readerVars
<1>4. CASE UNCHANGED framed
  <2>1. UNCHANGED sent
    BY <1>4, Zenon DEF Frames
  <2>2. QED
    BY <1>1, <1>2, <1>3, <1>4, <2>1, NothingRead, Zenon DEF Position, AbstractStep, PS!vars
<1>5. CASE WriteFrame(w)
  <2>1. sent' = Append(sent, pkt[w]) /\ Position'
    BY <1>1, <1>2, <1>5, FramedStep, Zenon DEF Position
  <2>2. sent' \in Seq(Packets)
    BY <1>2, <2>1
  <2>3. PS!Send
    BY <1>2, <1>3, <2>1, Zenon DEF PS!Send
  <2>4. QED
    BY <2>1, <2>2, <2>3, Zenon DEF AbstractStep, PS!Next
<1>6. QED
  BY <1>4, <1>5, Zenon

(* The sender does something else. *)
LEMMA OtherSendKeeps ==
  ASSUME TInv, OtherSendStep \/ (\E w \in Writers : RecordCreated(w)) \/ UNCHANGED transferVars
  PROVE  Position' /\ sent' \in Seq(Packets) /\ AbstractStep
<1>1. PICK at : Layout(at) /\ Covers(at) /\ ReaderAt(at)
  BY Zenon DEF TInv, Position
<1>2. IInv /\ TransferTypes /\ sent \in Seq(Packets)
  BY Zenon DEF TInv, TransferTypes
<1>3. UNCHANGED <<sent, framed, received, rpc, rpos, rlen>>
  BY Zenon DEF OtherSendStep, RecordCreated, WriteReturns, WriteRTPBytes, Accept, CancelStream,
     Close, transferVars, vars, readerVars
<1>4. /\ stream = "open" \/ UNCHANGED wire
      /\ stream' = stream \/ CancelStream \/ Close
  BY Zenon DEF OtherSendStep, RecordCreated, WriteReturns, WriteRTPBytes, Accept, CancelStream,
     Close, transferVars, vars
<1>5. CancelStream \/ Close => stream' # "open" /\ PS!Stop
  BY <1>3 DEF CancelStream, Close, PS!Stop
<1>6. Position'
  BY <1>1, <1>2, <1>3, <1>4, <1>5, NothingRead, Zenon DEF Position
<1>7. AbstractStep
  BY <1>3, <1>4, <1>5, Zenon DEF AbstractStep, PS!Next, PS!vars
<1>8. QED
  BY <1>2, <1>3, <1>6, <1>7, Zenon

(* The reader takes a step. *)
LEMMA ReadKeeps ==
  ASSUME TInv, ReadStep \/ ReadFails
  PROVE  /\ Position' /\ AbstractStep /\ UNCHANGED <<vars, sent>>
         /\ received' \in Seq(Seq(Byte)) /\ rpos' \in 0..Len(wire)
         /\ rpc' \in {"flowID", "length", "payload", "done", "failed"}
<1>1. PICK at : Layout(at) /\ Covers(at) /\ ReaderAt(at)
  BY Zenon DEF TInv, Position
<1>2. /\ IInv /\ TransferTypes /\ received \in Seq(Seq(Byte))
      /\ rpos \in 0..Len(wire) /\ 0 \in 0..Len(wire)
  <2>1. IInv /\ TransferTypes /\ received \in Seq(Seq(Byte)) /\ rpos \in 0..Len(wire)
    BY Zenon DEF TInv, TransferTypes
  <2>2. QED
    BY <2>1, WirePrefix
<1>3. ASSUME UNCHANGED <<vars, sent>> PROVE Layout(at)' /\ Covers(at)'
  <2>1. UNCHANGED <<sent, framed>>
    BY <1>3, Zenon DEF vars
  <2>2. QED
    BY <1>1, <2>1, Zenon DEF Layout, Covers
<1>4. UNCHANGED <<vars, sent>> => UNCHANGED <<sent, framed, wire, stream>>
  BY Zenon DEF vars
<1>5. CASE ReadFlowID
  <2>1. /\ rpc' = "length" /\ Whole /\ framed # <<>> /\ rpos' = at[Len(received)]
        /\ rpos' \in 0..Len(wire) /\ UNCHANGED <<vars, sent, received>>
    BY <1>1, <1>2, <1>5, ReadFlowIDStep, Zenon
  <2>2. ReaderAt(at)'
    BY <1>4, <2>1 DEF ReaderAt, Whole
  <2>3. QED
    BY <1>2, <1>3, <1>4, <2>1, <2>2, Zenon DEF Position, AbstractStep, PS!vars
<1>6. CASE ReadLength
  <2>1. /\ rpc' = "payload" /\ Whole /\ Len(received) < Len(sent)
        /\ rlen' = Len(sent[Len(received) + 1])
        /\ rpos' = at[Len(received) + 1] - rlen'
        /\ rpos' \in 0..Len(wire) /\ UNCHANGED <<vars, sent, received>>
    BY <1>1, <1>2, <1>6, ReadLengthStep, Zenon
  <2>2. ReaderAt(at)'
    BY <1>4, <2>1 DEF ReaderAt, Whole
  <2>3. QED
    BY <1>2, <1>3, <1>4, <2>1, <2>2, Zenon DEF Position, AbstractStep, PS!vars
<1>7. CASE ReadPayload
  <2>1. /\ PS!Deliver \/ PS!DeliverCut
        /\ rpc' = "length" /\ received' \in Seq(Seq(Byte)) /\ rpos' \in 0..Len(wire)
        /\ \/ Whole' /\ framed # <<>> /\ rpos' = at[Len(received')]
           \/ rpos' = Len(wire) /\ stream # "open"
        /\ UNCHANGED <<vars, sent>>
    BY <1>1, <1>2, <1>7, ReadPayloadStep, Zenon
  <2>2. rpc' # "flowID" /\ rpc' # "payload"
    BY <2>1
  <2>3. ReaderAt(at)'
    BY <1>4, <2>1, <2>2, Zenon DEF ReaderAt
  <2>4. QED
    BY <1>3, <2>1, <2>3, Zenon DEF Position, AbstractStep, PS!Next
<1>8. CASE EndOfStream \/ ReadFails
  <2>1. rpc' \in {"done", "failed"} /\ rpos' = 0 /\ UNCHANGED <<vars, sent, received>>
    BY <1>8, Zenon DEF EndOfStream, ReadFails, ReaderReturns, senderVars
  <2>2. rpc' # "flowID" /\ rpc' # "length" /\ rpc' # "payload"
    BY <2>1
  <2>3. ReaderAt(at)'
    BY <2>2, Zenon DEF ReaderAt
  <2>4. QED
    BY <1>2, <1>3, <1>4, <2>1, <2>3, Zenon DEF Position, AbstractStep, PS!vars
<1>9. QED
  BY <1>5, <1>6, <1>7, <1>8, Zenon DEF ReadStep

(* Every step keeps the invariant and is a step of PacketStream or leaves   *)
(* its variables alone.                                                     *)
LEMMA TransferStep ==
  ASSUME TInv, [TransferNext]_transferVars
  PROVE  TInv' /\ AbstractStep
<1>1. IInv /\ TransferTypes
  BY Zenon DEF TInv
<1>2. [Next]_vars
  BY SenderStep, Zenon
<1>3. IInv'
  BY <1>1, <1>2, StepInv, Zenon
<1>4. \A v \in Writers : wpc'[v] # "idle" => pkt'[v] \in Packets
  BY <1>1, <1>2, CallersHavePackets, Zenon
<1>5. ASSUME UNCHANGED <<received, rpc, rpos>>, Len(wire') >= Len(wire)
      PROVE  /\ received' \in Seq(Seq(Byte)) /\ rpos' \in 0..Len(wire')
             /\ rpc' \in {"flowID", "length", "payload", "done", "failed"}
  <2>1. /\ received \in Seq(Seq(Byte)) /\ rpos \in 0..Len(wire)
        /\ rpc \in {"flowID", "length", "payload", "done", "failed"}
    BY <1>1, Zenon DEF TransferTypes
  <2>2. Len(wire) \in Nat /\ Len(wire') \in Nat
    <3>1. wire \in Seq(Byte) /\ wire' \in Seq(Byte)
      BY <1>1, <1>3, Zenon DEF IInv, TypeOK
    <3>2. QED
      BY <3>1
  <2>3. rpos' \in 0..Len(wire')
    BY <1>5, <2>1, <2>2
  <2>4. QED
    BY <1>5, <2>1, <2>3, Zenon
<1>6. Len(wire) >= Len(wire) /\ (Accept => Len(wire') >= Len(wire))
  <2>1. wire \in Seq(Byte) /\ rest \in Seq(Byte) /\ wire' \in Seq(Byte)
    BY <1>1, <1>3, Zenon DEF IInv, TypeOK
  <2>2. Accept => wire' = Append(wire, Head(rest)) /\ rest # <<>>
    BY Zenon DEF Accept, WriteUnderWay
  <2>3. QED
    BY <2>1, <2>2
<1>7. CASE \E w \in Writers : LockStep(w) \/ FlushStep(w)
  <2>1. PICK w \in Writers : LockStep(w) \/ FlushStep(w)
    BY <1>7, Zenon
  <2>2. /\ wpc[w] \in {"lock", "flush"} /\ (WriteFrame(w) \/ UNCHANGED framed)
        /\ Frames(w) /\ UNCHANGED <<wire, stream, readerVars>>
    BY <2>1, Zenon DEF LockStep, FlushStep, Lock, FlushReturns
  <2>3. wpc[w] # "idle"
    BY <2>2
  <2>4. Position' /\ sent' \in Seq(Packets) /\ AbstractStep
    BY <2>2, <2>3, SendKeeps, Zenon
  <2>5. UNCHANGED <<received, rpc, rpos, wire>>
    BY <2>2, Zenon DEF readerVars
  <2>6. QED
    BY <1>3, <1>4, <1>5, <1>6, <2>4, <2>5, Zenon DEF TInv, TransferTypes
<1>8. CASE OtherSendStep \/ (\E w \in Writers : RecordCreated(w)) \/ UNCHANGED transferVars
  <2>1. Position' /\ sent' \in Seq(Packets) /\ AbstractStep
    BY <1>8, OtherSendKeeps, Zenon
  <2>2. UNCHANGED <<received, rpc, rpos>> /\ (UNCHANGED wire \/ Accept)
    BY <1>8, Zenon DEF OtherSendStep, RecordCreated, WriteReturns, WriteRTPBytes, CancelStream,
       Close, transferVars, vars, readerVars
  <2>3. QED
    BY <1>3, <1>4, <1>5, <1>6, <2>1, <2>2, Zenon DEF TInv, TransferTypes
<1>9. CASE ReadStep \/ ReadFails
  <2>1. /\ Position' /\ AbstractStep /\ UNCHANGED <<vars, sent>>
        /\ received' \in Seq(Seq(Byte)) /\ rpos' \in 0..Len(wire)
        /\ rpc' \in {"flowID", "length", "payload", "done", "failed"}
    BY <1>9, ReadKeeps, Zenon
  <2>2. UNCHANGED <<wire, sent>>
    BY <2>1, Zenon DEF vars
  <2>3. QED
    BY <1>1, <1>3, <1>4, <2>1, <2>2, Zenon DEF TInv, TransferTypes
<1>10. QED
  BY <1>7, <1>8, <1>9, Zenon DEF TransferNext

(* The sending side of a transfer is an RTPSendStream, so all that is       *)
(* proved of WriteRTPBytes holds with a reader at the other end.            *)
THEOREM SenderIsRTPSendStream == TransferSpec => Spec
<1>1. TransferInit => Init
  BY Zenon DEF TransferInit
<1>2. [TransferNext]_transferVars => [Next]_vars
  BY SenderStep, Zenon
<1>3. QED
  BY <1>1, <1>2, PTL DEF TransferSpec, Spec

(* handleUniStream and readStream hand the flow the packets of the stream   *)
(* in order, none left out and none twice, and all whole but for one cut at *)
(* the end of a stream that was closed: for any packets, however the writes *)
(* of WriteRTPBytes are cut, resumed and interleaved.                       *)
THEOREM DeliversPackets == TransferSpec => ImplementsPacketStream
<1>1. TransferInit => PS!Init
  BY Zenon DEF TransferInit, Init, PS!Init
<1>2. TInv /\ [TransferNext]_transferVars => TInv' /\ [PS!Next]_PS!vars
  BY TransferStep, Zenon DEF AbstractStep
<1>3. QED
  BY <1>1, <1>2, TransferInitInv, PTL DEF TransferSpec, ImplementsPacketStream, PS!Spec

-----------------------------------------------------------------------------
(* The events of both sides. *)
Events   == [length : Nat, payload_length : Nat, data : Seq(Byte)]
Event(p) == RawInfo(Frame(p), Len(p))

(* The i-th event of the sender is about the i-th packet.  During a Write   *)
(* one event is missing: that of the packet whose frame ends the buffer.    *)
SenderLog ==
  /\ created \in Seq(Events)
  /\ \A i \in 1..Len(created) : created[i] = Event(sent[i])
  /\ \A w \in Writers : wpc[w] = "write" =>
       /\ Len(sent) = Len(created) + 1 /\ sent[Len(sent)] = pkt[w]
       /\ SubSeq(buffer, FrameStart(w) + 1, Len(buffer)) = Frame(pkt[w])
  /\ (\A w \in Writers : wpc[w] # "write") => Len(sent) = Len(created)

(* The i-th event of the reader is about the i-th packet it pushed.  The    *)
(* bytes it keeps of the length are those the sender wrote.                 *)
ReaderLog ==
  /\ parsed \in Seq(Events) /\ rlen \in Nat /\ encoded \in Seq(Byte)
  /\ Len(parsed) = Len(received) /\ Len(received) <= Len(sent)
  /\ rpc \in {"length", "payload"} => rpos > 0 /\ rflow = FlowID
  /\ rpc \notin {"length", "payload"} => rpos = 0 /\ rflow = NoFlow
  /\ rpc = "payload" => encoded = VarintBytes(rlen)
  /\ \A i \in 1..Len(parsed) : received[i] = sent[i] => parsed[i] = Event(sent[i])

(* rawData takes a prefix of a frame. *)
LEMMA EventType ==
  ASSUME NEW b \in Seq(Byte), NEW n \in Nat
  PROVE  RawInfo(b, n) \in Events
<1>1. Len(b) \in Nat /\ <<>> \in Seq(Byte) /\ DataLimit \in Nat
  BY TransferAssumption
<1>2. Len(b) > DataLimit => SubSeq(b, 1, DataLimit) \in Seq(Byte)
  BY <1>1
<1>3. RawData(b) \in Seq(Byte)
  BY <1>1, <1>2, Zenon DEF RawData
<1>4. QED
  BY <1>1, <1>3 DEF RawInfo, Events

(* Leaving out the fields that are zero loses nothing. *)
LEMMA EncodingIsFaithful ==
  ASSUME NEW e \in Events
  PROVE  Decode(Encode(e)) = e
<1> DEFINE present == {f \in {"length", "payload_length"} : e[f] > 0}
                        \cup {f \in {"data"} : Len(e[f]) > 0}
           r == [f \in present |-> e[f]]
<1>1. /\ e.length \in Nat /\ e.payload_length \in Nat /\ e.data \in Seq(Byte)
      /\ e = [length |-> e.length, payload_length |-> e.payload_length, data |-> e.data]
  BY DEF Events
<1>2. Encode(e) = r
  BY DEF Encode
<1>3. DOMAIN r = present
  OBVIOUS
<1>4. (IF "length" \in DOMAIN r THEN r.length ELSE 0) = e.length
  BY <1>1, <1>3
<1>5. (IF "payload_length" \in DOMAIN r THEN r.payload_length ELSE 0) = e.payload_length
  BY <1>1, <1>3
<1>6. (IF "data" \in DOMAIN r THEN r.data ELSE <<>>) = e.data
  BY <1>1, <1>3
<1> HIDE DEF r
<1>7. QED
  BY <1>1, <1>2, <1>4, <1>5, <1>6, Zenon DEF Decode

(* The end of a concatenation. *)
LEMMA ConcatSuffix ==
  ASSUME NEW a \in Seq(Byte), NEW b \in Seq(Byte)
  PROVE  SubSeq(a \o b, Len(a \o b) - Len(b) + 1, Len(a \o b)) = b
<1>1. /\ Len(a) \in Nat /\ Len(b) \in Nat /\ a \o b \in Seq(Byte)
      /\ Len(a \o b) = Len(a) + Len(b)
  BY ConcatBytes
<1>2. Len(a \o b) - Len(b) = Len(a) /\ Len(a) \in 0..Len(a \o b)
  BY <1>1
<1>3. /\ SubSeq(a \o b, Len(a) + 1, Len(a \o b)) \in Seq(Byte)
      /\ Len(SubSeq(a \o b, Len(a) + 1, Len(a \o b))) = Len(b)
      /\ \A i \in 1..Len(b) : SubSeq(a \o b, Len(a) + 1, Len(a \o b))[i] = b[i]
  <2>1. Len(a \o b) - Len(a) = Len(b)
    BY <1>1
  <2>2. /\ SubSeq(a \o b, Len(a) + 1, Len(a \o b)) \in Seq(Byte)
        /\ Len(SubSeq(a \o b, Len(a) + 1, Len(a \o b))) = Len(a \o b) - Len(a)
        /\ \A i \in 1..(Len(a \o b) - Len(a)) :
             SubSeq(a \o b, Len(a) + 1, Len(a \o b))[i] = (a \o b)[Len(a) + i]
    BY <1>1, <1>2, SuffixAt, Zenon
  <2>3. \A i \in 1..Len(b) : (a \o b)[Len(a) + i] = b[i]
    BY ConcatAt, Zenon
  <2>4. QED
    BY <2>1, <2>2, <2>3, Zenon
<1> DEFINE s == SubSeq(a \o b, Len(a) + 1, Len(a \o b))
<1>4. s \in Seq(Byte) /\ Len(s) = Len(b) /\ \A i \in 1..Len(b) : s[i] = b[i]
  BY <1>3, Zenon
<1> HIDE DEF s
<1>5. s = b
  BY <1>4
<1>6. QED
  BY <1>2, <1>5, Zenon DEF s

-----------------------------------------------------------------------------
(* At most one goroutine is inside flush or Write. *)
LEMMA OneWriter ==
  ASSUME IInv, NEW v \in Writers, NEW w \in Writers,
         wpc[v] \in {"flush", "write"}, wpc[w] \in {"flush", "write"}
  PROVE  v = w
BY Zenon DEF IInv, LockInv

(* A step that neither frames a packet nor ends a Write. *)
LEMMA NothingCreated ==
  ASSUME SenderLog, UNCHANGED <<sent, created, buffer>>,
         \A v \in Writers : wpc'[v] = "write" <=> wpc[v] = "write",
         \A v \in Writers : wpc[v] = "write" => pkt'[v] = pkt[v]
  PROVE  SenderLog'
<1>1. \A v \in Writers : wpc[v] = "write" => FrameStart(v)' = FrameStart(v)
  BY Zenon DEF FrameStart
<1>2. QED
  BY <1>1, Zenon DEF SenderLog

(* A frame is put together: its event is the next. *)
LEMMA FrameCreates ==
  ASSUME IInv, TransferTypes, SenderLog, NEW w \in Writers, pkt[w] \in Packets,
         \A v \in Writers : wpc[v] # "write",
         WriteFrame(w), sent' = Append(sent, pkt[w]), UNCHANGED <<pkt, created>>
  PROVE  SenderLog'
<1>1. /\ wpc' = [wpc EXCEPT ![w] = "write"] /\ buffer' = FramePrefix \o Frame(pkt[w])
  BY Zenon DEF WriteFrame
<1>2. wpc \in [Writers -> {"idle", "lock", "flush", "write"}]
  BY Types, Zenon DEF IInv
<1>3. wpc'[w] = "write" /\ \A v \in Writers : wpc'[v] = "write" => v = w
  BY <1>1, <1>2
<1>4. FramePrefix \in Seq(Byte) /\ Frame(pkt[w]) \in Seq(Byte)
  <2>1. pkt[w] \in Seq(Byte)
    BY SendStreamAssumption, Zenon DEF SendStreamAssumption
  <2>2. <<>> \in Seq(Byte)
    OBVIOUS
  <2>3. QED
    BY <2>1, <2>2, FrameBytes, FlowIDIsBytes, Zenon DEF FramePrefix
<1>5. SubSeq(buffer', FrameStart(w)' + 1, Len(buffer')) = Frame(pkt'[w])
  BY <1>1, <1>4, ConcatSuffix, Zenon DEF FrameStart
<1>6. /\ sent \in Seq(Packets) /\ Len(sent) = Len(created) /\ created \in Seq(Events)
      /\ \A i \in 1..Len(created) : created[i] = Event(sent[i])
  BY Zenon DEF SenderLog, TransferTypes
<1>7. /\ Len(sent') = Len(created) + 1 /\ sent'[Len(sent')] = pkt[w]
      /\ \A i \in 1..Len(created) : sent'[i] = sent[i]
  BY <1>6
<1>8. QED
  BY <1>3, <1>5, <1>6, <1>7, Zenon DEF SenderLog, Event

(* stream.Write returns: the event is about the frame and not about the     *)
(* flow ID in front of it.                                                  *)
LEMMA WriteCreates ==
  ASSUME IInv, TransferTypes, SenderLog, NEW w \in Writers, RecordCreated(w)
  PROVE  SenderLog'
<1>1. /\ wpc[w] = "write" /\ wpc' = [wpc EXCEPT ![w] = "idle"] /\ UNCHANGED sent
      /\ created' = Append(created,
                      RawInfo(SubSeq(buffer, FrameStart(w) + 1, Len(buffer)), Len(pkt[w])))
  BY Zenon DEF RecordCreated, WriteReturns, Return
<1>2. /\ wpc \in [Writers -> {"idle", "lock", "flush", "write"}] /\ pkt \in [Writers -> Seq(Byte)]
  BY Types, Zenon DEF IInv
<1>3. \A v \in Writers : wpc'[v] # "write"
  <2>1. \A v \in Writers : wpc[v] = "write" => v = w
    BY <1>1, OneWriter
  <2>2. QED
    BY <1>1, <1>2, <2>1
<1>4. /\ created \in Seq(Events) /\ \A i \in 1..Len(created) : created[i] = Event(sent[i])
      /\ Len(sent) = Len(created) + 1 /\ sent[Len(sent)] = pkt[w]
      /\ SubSeq(buffer, FrameStart(w) + 1, Len(buffer)) = Frame(pkt[w])
  BY <1>1, Zenon DEF SenderLog
<1>5. created' = Append(created, Event(pkt[w]))
  BY <1>1, <1>4, Zenon DEF Event
<1>6. Event(pkt[w]) \in Events
  <2>1. pkt[w] \in Seq(Byte)
    BY <1>2
  <2>2. Len(pkt[w]) \in Nat
    BY <2>1
  <2>3. QED
    BY <2>1, <2>2, FrameBytes, EventType, Zenon DEF Event
<1> DEFINE e == Event(pkt[w])
<1>7. e = Event(sent[Len(created) + 1])
  BY <1>4, Zenon
<1> HIDE DEF e
<1>8. /\ created' \in Seq(Events) /\ Len(created') = Len(created) + 1
      /\ created'[Len(created) + 1] = e
      /\ \A i \in 1..Len(created) : created'[i] = created[i]
  BY <1>4, <1>5, <1>6 DEF e
<1>9. ASSUME NEW i \in 1..Len(created') PROVE created'[i] = Event(sent[i])
  <2>1. i = Len(created) + 1 \/ i \in 1..Len(created)
    BY <1>4, <1>8
  <2>2. QED
    BY <1>4, <1>7, <1>8, <2>1, Zenon
<1>10. QED
  BY <1>1, <1>3, <1>4, <1>8, <1>9, Zenon DEF SenderLog, Event

(* The events of the sender, in every step. *)
LEMMA SenderLogStep ==
  ASSUME TInv, SenderLog, [TransferNext]_transferVars
  PROVE  SenderLog'
<1>1. IInv /\ TransferTypes
  BY Zenon DEF TInv
<1>2. wpc \in [Writers -> {"idle", "lock", "flush", "write"}]
  BY <1>1, Types, Zenon DEF IInv
<1>3. ASSUME NEW w \in Writers, LockStep(w) \/ FlushStep(w)
      PROVE  SenderLog'
  <2>1. /\ wpc[w] \in {"lock", "flush"} /\ UNCHANGED <<pkt, created>> /\ Frames(w)
        /\ lock = NoWriter \/ wpc[w] = "flush"
        /\ \/ WriteFrame(w)
           \/ /\ UNCHANGED <<buffer, framed>>
              /\ \E l \in {"flush", "idle"} : wpc' = [wpc EXCEPT ![w] = l]
    BY <1>3, Zenon DEF LockStep, FlushStep, Lock, FlushReturns, Return
  <2>2. wpc[w] # "idle" /\ wpc[w] # "write"
    BY <2>1
  <2>3. pkt[w] \in Packets
    BY <1>1, <2>2, Zenon DEF TransferTypes
  <2>4. \A v \in Writers : wpc[v] # "write"
    <3>1. CASE lock = NoWriter
      BY <1>1, <3>1, SendStreamAssumption DEF IInv, LockInv, SendStreamAssumption
    <3>2. CASE wpc[w] = "flush"
      BY <1>1, <3>2, OneWriter
    <3>3. QED
      BY <2>1, <3>1, <3>2, Zenon
  <2>5. CASE WriteFrame(w)
    <3>1. sent' = Append(sent, pkt[w])
      <4>1. UNCHANGED <<wire, stream, readerVars>>
        BY <1>3, Zenon DEF LockStep, FlushStep, Lock, FlushReturns
      <4>2. QED
        BY <1>1, <2>1, <2>3, <2>5, <4>1, FramedStep, Zenon DEF TInv, Position
    <3>2. QED
      BY <1>1, <2>1, <2>3, <2>4, <2>5, <3>1, FrameCreates, Zenon
  <2>6. CASE /\ UNCHANGED <<buffer, framed>>
             /\ \E l \in {"flush", "idle"} : wpc' = [wpc EXCEPT ![w] = l]
    <3>1. UNCHANGED <<sent, created, buffer, pkt>>
      BY <2>1, <2>6, Zenon DEF Frames
    <3>2. \A v \in Writers : wpc'[v] # "write"
      BY <1>2, <2>4, <2>6
    <3>3. QED
      BY <2>4, <3>1, <3>2, NothingCreated, Zenon
  <2>7. QED
    BY <2>1, <2>5, <2>6, Zenon
<1>4. ASSUME NEW w \in Writers, NEW p \in Packets, WriteRTPBytes(w, p),
             UNCHANGED <<sent, created>>
      PROVE  SenderLog'
  <2>1. /\ wpc[w] = "idle" /\ wpc' = [wpc EXCEPT ![w] = "lock"]
        /\ pkt' = [pkt EXCEPT ![w] = p] /\ UNCHANGED <<sent, created, buffer>>
    BY <1>4, Zenon DEF WriteRTPBytes
  <2>2. pkt \in [Writers -> Seq(Byte)]
    BY <1>1, Types, Zenon DEF IInv
  <2>3. \A v \in Writers : /\ wpc'[v] = "write" <=> wpc[v] = "write"
                           /\ wpc[v] = "write" => pkt'[v] = pkt[v]
    BY <1>2, <2>1, <2>2
  <2>4. QED
    BY <2>1, <2>3, NothingCreated, Zenon
<1>5. ASSUME UNCHANGED <<sent, created, buffer, wpc, pkt>> PROVE SenderLog'
  BY <1>5, NothingCreated, Zenon
<1>6. CASE OtherSendStep
  <2>1. UNCHANGED <<sent, created>>
    BY <1>6, Zenon DEF OtherSendStep
  <2>2. Accept \/ CancelStream \/ Close => UNCHANGED <<buffer, wpc, pkt>>
    BY Zenon DEF Accept, CancelStream, Close
  <2>3. QED
    BY <1>4, <1>5, <1>6, <2>1, <2>2, Zenon DEF OtherSendStep
<1>7. CASE ReadStep \/ ReadFails \/ UNCHANGED transferVars
  BY <1>5, <1>7, Zenon DEF ReadStep, ReadFails, ReadFlowID, ReadLength, ReadPayload,
     EndOfStream, ReaderReturns, senderVars, transferVars, vars
<1>8. QED
  BY <1>1, <1>3, <1>6, <1>7, WriteCreates, Zenon DEF TransferNext

-----------------------------------------------------------------------------
(* A packet sent later changes nothing about the events of the reader. *)
LEMMA NothingParsed ==
  ASSUME TransferTypes, ReaderLog, UNCHANGED readerVars,
         UNCHANGED sent \/ \E p : sent' = Append(sent, p)
  PROVE  ReaderLog'
<1>1. UNCHANGED <<rpc, rpos, rflow, rlen, encoded, received, parsed>>
  BY Zenon DEF readerVars
<1>2. sent \in Seq(Packets) /\ received \in Seq(Seq(Byte)) /\ parsed \in Seq(Events)
  BY Zenon DEF TransferTypes, ReaderLog
<1>3. Len(sent') >= Len(sent) /\ \A i \in 1..Len(sent) : sent'[i] = sent[i]
  BY <1>2
<1>4. Len(parsed) = Len(received) /\ Len(received) <= Len(sent)
  BY Zenon DEF ReaderLog
<1>5. Len(received) <= Len(sent') /\ \A i \in 1..Len(parsed) : sent'[i] = sent[i]
  <2>1. Len(sent) \in Nat /\ Len(sent') \in Nat /\ Len(received) \in Nat
    BY <1>2
  <2>2. QED
    BY <1>3, <1>4, <2>1
<1>6. QED
  BY <1>1, <1>5, Zenon DEF ReaderLog, Event

(* A packet that the reader pushed whole was framed as its event says. *)
LEMMA PayloadParsed ==
  ASSUME TInv, ReaderLog, ReadPayload
  PROVE  ReaderLog'
<1> DEFINE n == Len(received)
           k == IF Len(Available) < rlen THEN Len(Available) ELSE rlen
           payload == SubSeq(Available, 1, k)
           e == RawInfo(encoded \o payload, rlen)
<1>1. /\ rpc = "payload" /\ rpc' = "length" /\ rpos' = rpos + k
      /\ received' = Append(received, payload) /\ parsed' = Append(parsed, e)
      /\ UNCHANGED <<rflow, rlen, encoded, sent>>
  BY Zenon DEF ReadPayload, senderVars
<1>2. PICK at : Layout(at) /\ Covers(at) /\ ReaderAt(at)
  BY Zenon DEF TInv, Position
<1>3. n < Len(sent) /\ rlen = Len(sent[n + 1])
  BY <1>1, <1>2, Zenon DEF ReaderAt
<1>4. /\ IInv /\ TransferTypes /\ received \in Seq(Seq(Byte)) /\ sent \in Seq(Packets)
      /\ rpos \in 0..Len(wire)
  BY Zenon DEF TInv, TransferTypes
<1>5. /\ parsed \in Seq(Events) /\ rlen \in Nat /\ encoded \in Seq(Byte)
      /\ Len(parsed) = n /\ rpos > 0 /\ rflow = FlowID /\ encoded = VarintBytes(rlen)
      /\ \A i \in 1..Len(parsed) : received[i] = sent[i] => parsed[i] = Event(sent[i])
  BY <1>1, Zenon DEF ReaderLog
<1>6. k \in Nat /\ payload \in Seq(Byte)
  <2>1. Available \in Seq(Byte)
    BY <1>4, AvailableBytes, Zenon
  <2>2. Len(Available) \in Nat
    BY <2>1
  <2>3. k \in Nat /\ k <= Len(Available)
    BY <1>5, <2>2
  <2>4. QED
    BY <2>1, <2>3
<1> HIDE DEF k, payload
<1>7. e \in Events
  BY <1>5, <1>6, ConcatBytes, EventType, Zenon
<1>8. payload = sent[n + 1] => e = Event(sent[n + 1])
  BY <1>3, <1>5, Zenon DEF Event, Frame
<1> HIDE DEF e
<1>9. /\ parsed' \in Seq(Events) /\ Len(parsed') = n + 1 /\ parsed'[n + 1] = e
      /\ \A i \in 1..n : parsed'[i] = parsed[i]
  BY <1>1, <1>5, <1>7
<1>10. /\ Len(received') = n + 1 /\ received'[n + 1] = payload
       /\ \A i \in 1..n : received'[i] = received[i]
  BY <1>1, <1>4, <1>6
<1>11. n \in Nat /\ Len(sent) \in Nat /\ n + 1 <= Len(sent)
  BY <1>3, <1>4
<1>12. ASSUME NEW i \in 1..Len(parsed'), received'[i] = sent[i]
       PROVE  parsed'[i] = Event(sent[i])
  <2>1. i = n + 1 \/ i \in 1..n
    BY <1>9, <1>11
  <2>2. QED
    BY <1>5, <1>8, <1>9, <1>10, <1>12, <2>1, Zenon
<1>13. rpos' > 0
  BY <1>1, <1>4, <1>5, <1>6
<1>14. rpc' \in {"length", "payload"} /\ rpc' # "payload"
  BY <1>1
<1>15. QED
  BY <1>1, <1>5, <1>9, <1>10, <1>11, <1>12, <1>13, <1>14, Zenon DEF ReaderLog, Event

(* The events of the reader, in every step. *)
LEMMA ReaderLogStep ==
  ASSUME TInv, ReaderLog, [TransferNext]_transferVars
  PROVE  ReaderLog'
<1>1. IInv /\ TransferTypes
  BY Zenon DEF TInv
<1>2. PICK at : Layout(at) /\ Covers(at) /\ ReaderAt(at)
  BY Zenon DEF TInv, Position
<1>3. CASE \/ \E w \in Writers : LockStep(w) \/ FlushStep(w) \/ RecordCreated(w)
           \/ OtherSendStep \/ UNCHANGED transferVars
  <2>1. UNCHANGED readerVars /\ (UNCHANGED sent \/ \E p : sent' = Append(sent, p))
    BY <1>3, Zenon DEF LockStep, FlushStep, RecordCreated, OtherSendStep, Frames, transferVars
  <2>2. QED
    BY <1>1, <2>1, NothingParsed, Zenon
<1>4. CASE ReadFlowID
  <2>1. /\ rpc' = "length" /\ rpos' > 0 /\ rflow' = FlowID /\ UNCHANGED <<sent, received>>
    BY <1>1, <1>2, <1>4, ReadFlowIDStep, Zenon
  <2>2. UNCHANGED <<rlen, encoded, parsed>>
    BY <1>4, Zenon DEF ReadFlowID
  <2>3. rpc' \in {"length", "payload"} /\ rpc' # "payload"
    BY <2>1
  <2>4. QED
    BY <2>1, <2>2, <2>3, Zenon DEF ReaderLog, Event
<1>5. CASE ReadLength
  <2>1. /\ rpc' = "payload" /\ Len(received) < Len(sent)
        /\ rlen' = Len(sent[Len(received) + 1]) /\ encoded' = VarintBytes(rlen')
        /\ UNCHANGED <<sent, received>>
    BY <1>1, <1>2, <1>5, ReadLengthStep, Zenon
  <2>2. /\ rpc = "length" /\ rpos' = rpos + Len(encoded') /\ UNCHANGED <<rflow, parsed>>
    BY <1>5, Zenon DEF ReadLength
  <2>3. Len(received) + 1 \in 1..Len(sent)
    <3>1. received \in Seq(Seq(Byte)) /\ sent \in Seq(Packets)
      BY <1>1, Zenon DEF TransferTypes
    <3>2. QED
      BY <2>1, <3>1
  <2>4. rlen' \in Nat /\ encoded' \in Seq(Byte)
    BY <1>1, <2>1, <2>3, SentPacket, Zenon
  <2>5. rpc \in {"length", "payload"} /\ rpc' \in {"length", "payload"}
    BY <2>1, <2>2
  <2>6. rpos > 0 /\ rflow = FlowID
    BY <2>5, Zenon DEF ReaderLog
  <2>7. rpos' > 0
    <3>1. rpos \in 0..Len(wire)
      BY <1>1, Zenon DEF TransferTypes
    <3>2. QED
      BY <2>2, <2>4, <2>6, <3>1
  <2>8. QED
    BY <2>1, <2>2, <2>4, <2>5, <2>6, <2>7, Zenon DEF ReaderLog, Event
<1>6. CASE EndOfStream \/ ReadFails
  <2>1. /\ rpc' \in {"done", "failed"} /\ rpos' = 0 /\ rflow' = NoFlow /\ rlen' = 0
        /\ encoded' = <<>> /\ UNCHANGED <<received, parsed, sent>>
    BY <1>6, Zenon DEF EndOfStream, ReadFails, ReaderReturns, senderVars
  <2>2. /\ rpc' \notin {"length", "payload"} /\ rpc' # "payload"
        /\ 0 \in Nat /\ <<>> \in Seq(Byte)
    BY <2>1
  <2>3. QED
    BY <2>1, <2>2, Zenon DEF ReaderLog, Event
<1>7. QED
  BY <1>3, <1>4, <1>5, <1>6, PayloadParsed, Zenon DEF TransferNext, ReadStep

(* The invariant of a transfer with its logs. *)
LInv == TInv /\ SenderLog /\ ReaderLog

(* It is inductive. *)
LEMMA LogInvariance == TransferSpec => []LInv
<1>1. TransferInit => LInv
  <2> SUFFICES ASSUME TransferInit PROVE SenderLog /\ ReaderLog
    BY TransferInitInv, Zenon DEF LInv
  <2>1. /\ sent = <<>> /\ created = <<>> /\ parsed = <<>> /\ received = <<>> /\ rpc = "flowID"
        /\ rpos = 0 /\ rflow = NoFlow /\ rlen = 0 /\ encoded = <<>>
        /\ wpc = [w \in Writers |-> "idle"]
    BY Zenon DEF TransferInit, Init
  <2>2. SenderLog
    BY <2>1 DEF SenderLog
  <2>3. ReaderLog
    BY <2>1 DEF ReaderLog
  <2>4. QED
    BY <2>2, <2>3
<1>2. LInv /\ [TransferNext]_transferVars => LInv'
  BY TransferStep, SenderLogStep, ReaderLogStep, Zenon DEF LInv
<1>3. QED
  BY <1>1, <1>2, PTL DEF TransferSpec

(* Every variable of a transfer has its type: the reader is within what was *)
(* written, pushes packets for the flow whose ID the sender wrote and for   *)
(* no other, and logs an event for each; the sender logs none too many.     *)
THEOREM TransferTypeCorrect == TransferSpec => []TransferTypeOK
<1>1. LInv => TransferTypeOK
  <2> SUFFICES ASSUME LInv PROVE TransferTypeOK
    OBVIOUS
  <2>1. TInv /\ SenderLog /\ ReaderLog /\ TypeOK /\ TransferTypes
    BY Zenon DEF LInv, TInv, IInv
  <2>2. rflow = IF rpos = 0 THEN NoFlow ELSE FlowID
    <3>1. CASE rpc \in {"length", "payload"}
      <4>1. rpos > 0 /\ rflow = FlowID
        BY <2>1, <3>1, Zenon DEF ReaderLog
      <4>2. QED
        BY <4>1
    <3>2. CASE rpc \notin {"length", "payload"}
      BY <2>1, <3>2, Zenon DEF ReaderLog
    <3>3. QED
      BY <3>1, <3>2, Zenon
  <2>3. Len(created) <= Len(sent)
    <3>1. created \in Seq(Events) /\ sent \in Seq(Packets)
      BY <2>1, Zenon DEF SenderLog, TransferTypes
    <3>2. Len(sent) = Len(created) + 1 \/ Len(sent) = Len(created)
      BY <2>1, Zenon DEF SenderLog
    <3>3. QED
      BY <3>1, <3>2
  <2>4. QED
    BY <2>1, <2>2, <2>3, Zenon DEF TransferTypeOK, TransferTypes, ReaderLog
<1>2. QED
  BY <1>1, LogInvariance, PTL

(* However the writes are cut, resumed and interleaved, and whenever the    *)
(* log is encoded: the i-th StreamPacketCreated of WriteRTPBytes and the    *)
(* i-th StreamPacketParsed of readStream describe the frame of the i-th     *)
(* packet, for all packets and any limit on the bytes that are logged.      *)
THEOREM LogsAreTrue == TransferSpec => []LogsDescribeFrames
<1>1. LInv => LogsDescribeFrames
  <2> SUFFICES ASSUME LInv PROVE LogsDescribeFrames
    OBVIOUS
  <2>1. SenderLog /\ ReaderLog
    BY Zenon DEF LInv
  <2>2. created \in Seq(Events) /\ parsed \in Seq(Events)
    BY <2>1, Zenon DEF SenderLog, ReaderLog
  <2>3. /\ DOMAIN created = 1..Len(created) /\ DOMAIN parsed = 1..Len(parsed)
        /\ \A i \in 1..Len(created) : created[i] \in Events
        /\ \A i \in 1..Len(parsed) : parsed[i] \in Events
    BY <2>2
  <2>4. \A i \in DOMAIN created : Decode(Encode(created[i])) = Event(sent[i])
    BY <2>1, <2>3, EncodingIsFaithful, Zenon DEF SenderLog
  <2>5. \A i \in DOMAIN parsed :
          received[i] = sent[i] => Decode(Encode(parsed[i])) = Event(sent[i])
    BY <2>1, <2>3, EncodingIsFaithful, Zenon DEF ReaderLog
  <2>6. QED
    BY <2>4, <2>5, Zenon DEF LogsDescribeFrames, Event
<1>2. QED
  BY <1>1, LogInvariance, PTL
=============================================================================
