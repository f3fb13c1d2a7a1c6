-------------------------- MODULE RTPSendStreamProofs --------------------------
(***************************************************************************)
(* The invariants of RTPSendStream, for all writers, packets, flow IDs and *)
(* numbers of calls.                                                       *)
(***************************************************************************)
EXTENDS RTPSendStream, VarintProofs

(* The mutex: exactly its holder is inside flush or Write. *)
LockInv == \A w \in Writers : lock = w <=> wpc[w] \in {"flush", "write"}

(* The flow ID goes out with the first frame. *)
FlowIDInv == sentFlowID <=> framed # <<>>

(* During a Write of a frame nothing is pending, and the packet is the end  *)
(* of all that was framed.                                                  *)
FrameInv ==
  \A w \in Writers : wpc[w] = "write" =>
    /\ pending = <<>>
    /\ start[w] > 0 /\ start[w] = Len(framed) - Len(pkt[w])
    /\ Len(rest) <= Len(buffer) /\ Len(pkt[w]) <= Len(buffer)

IInv == TypeOK /\ LockInv /\ FlowIDInv /\ FrameInv /\ NothingLostOrRepeated

-----------------------------------------------------------------------------
(* Concatenation. *)
LEMMA ConcatBytes ==
  ASSUME NEW a \in Seq(Byte), NEW b \in Seq(Byte)
  PROVE  a \o b \in Seq(Byte) /\ Len(a \o b) = Len(a) + Len(b)
OBVIOUS

(* The empty sequence is the unit of concatenation. *)
LEMMA ConcatEmpty ==
  ASSUME NEW a \in Seq(Byte)
  PROVE  a \o <<>> = a /\ <<>> \o a = a
OBVIOUS

(* Concatenation is associative. *)
LEMMA ConcatAssoc ==
  ASSUME NEW a \in Seq(Byte), NEW b \in Seq(Byte), NEW c \in Seq(Byte)
  PROVE  (a \o b) \o c = a \o (b \o c)
OBVIOUS

(* Moving the first byte of the rest to the end of the wire keeps their sum. *)
LEMMA MoveByte ==
  ASSUME NEW a \in Seq(Byte), NEW b \in Seq(Byte), b # <<>>
  PROVE  /\ Append(a, Head(b)) \in Seq(Byte) /\ Tail(b) \in Seq(Byte)
         /\ Len(Tail(b)) = Len(b) - 1
         /\ Append(a, Head(b)) \o Tail(b) = a \o b
OBVIOUS

(* A frame is its packet behind at least one byte. *)
LEMMA FrameBytes ==
  ASSUME NEW p \in Seq(Byte)
  PROVE  Frame(p) \in Seq(Byte) /\ Len(Frame(p)) > Len(p)
<1>1. Len(p) \in Nat
  OBVIOUS
<1>2. VarintBytes(Len(p)) \in Seq(Byte) /\ Len(VarintBytes(Len(p))) \in {1, 2, 4, 8}
  BY <1>1, VarintIsBytes
<1>3. /\ VarintBytes(Len(p)) \o p \in Seq(Byte)
      /\ Len(VarintBytes(Len(p)) \o p) = Len(VarintBytes(Len(p))) + Len(p)
  BY <1>2, ConcatBytes
<1>4. \A n \in {1, 2, 4, 8} : \A m \in Nat : n + m > m
  OBVIOUS
<1>5. Len(VarintBytes(Len(p)) \o p) > Len(p)
  BY <1>1, <1>2, <1>3, <1>4, Zenon
<1> QED BY <1>3, <1>5, Zenon DEF Frame

(* The flow ID is encoded in at least one byte. *)
LEMMA FlowIDIsBytes == FlowIDBytes \in Seq(Byte) /\ FlowIDBytes # <<>>
<1>1. FlowID \in Nat
  BY SendStreamAssumption DEF SendStreamAssumption
<1>2. VarintBytes(FlowID) \in Seq(Byte) /\ Len(VarintBytes(FlowID)) \in {1, 2, 4, 8}
  BY <1>1, VarintIsBytes
<1>3. Len(<<>>) \notin {1, 2, 4, 8}
  OBVIOUS
<1> QED BY <1>2, <1>3, Zenon DEF FlowIDBytes
-----------------------------------------------------------------------------
(* newRTPSendStream establishes the invariant. *)
LEMMA InitInv == Init => IInv
<1> SUFFICES ASSUME Init PROVE IInv
  OBVIOUS
<1>1. MaxCalls \in Nat /\ NoWriter \notin Writers
  BY SendStreamAssumption DEF SendStreamAssumption
<1>2. sentFlowID \in BOOLEAN /\ err \in [Writers -> BOOLEAN]
  BY Zenon DEF Init
<1>3. TypeOK
  <2>1. <<>> \in Seq(Byte)
    OBVIOUS
  <2> QED BY <1>1, <1>2, <2>1 DEF Init, TypeOK
<1>4. LockInv /\ FrameInv
  BY <1>1 DEF Init, LockInv, FrameInv
<1>5. FlowIDInv
  BY Zenon DEF Init, FlowIDInv
<1>6. NothingLostOrRepeated
  <2>1. <<>> \o <<>> = <<>>
    OBVIOUS
  <2> QED BY <2>1, Zenon DEF Init, NothingLostOrRepeated, Unsent
<1> QED BY <1>3, <1>4, <1>5, <1>6 DEF IInv

(* The types the steps below need, one by one. *)
LEMMA Types ==
  ASSUME TypeOK
  PROVE  /\ buffer \in Seq(Byte) /\ pending \in Seq(Byte) /\ rest \in Seq(Byte)
         /\ wire \in Seq(Byte) /\ framed \in Seq(Byte)
         /\ lock \in Writers \cup {NoWriter} /\ NoWriter \notin Writers
         /\ wpc \in [Writers -> {"idle", "lock", "flush", "write"}]
         /\ pkt \in [Writers -> Seq(Byte)] /\ ret \in [Writers -> Nat]
         /\ start \in [Writers -> Nat] /\ calls \in 0..MaxCalls /\ MaxCalls \in Nat
<1>1. Packets \subseteq Seq(Byte) /\ NoWriter \notin Writers /\ MaxCalls \in Nat
  BY SendStreamAssumption DEF SendStreamAssumption
<1>2. <<>> \in Seq(Byte)
  OBVIOUS
<1>3. Packets \cup {<<>>} \subseteq Seq(Byte)
  BY <1>1, <1>2, Zenon
<1>4. pkt \in [Writers -> Seq(Byte)]
  <2>1. pkt \in [Writers -> Packets \cup {<<>>}]
    BY DEF TypeOK
  <2> QED BY <1>3, <2>1, Zenon
<1> QED BY <1>1, <1>4, Zenon DEF TypeOK

(* Handing a frame to stream.Write, when all framed before is on the wire. *)
LEMMA WriteFrameStep ==
  ASSUME IInv, NEW w \in Writers, WriteFrame(w), wire = framed, wire' = wire
  PROVE  /\ buffer' \in Seq(Byte) /\ rest' \in Seq(Byte) /\ framed' \in Seq(Byte)
         /\ rest' = buffer' /\ Len(pkt[w]) <= Len(buffer')
         /\ wire' \o rest' = framed' /\ framed' # <<>>
         /\ start' = [start EXCEPT ![w] = Len(framed') - Len(pkt[w])]
         /\ start' \in [Writers -> Nat] /\ start'[w] > 0
         /\ start'[w] = Len(framed') - Len(pkt[w])
<1> DEFINE prefix == IF framed = <<>> THEN FlowIDBytes ELSE <<>>
           frame == Frame(pkt[w])
<1>1. /\ framed \in Seq(Byte) /\ pkt[w] \in Seq(Byte) /\ start \in [Writers -> Nat]
      /\ Len(pkt[w]) \in Nat
  BY Types DEF IInv
<1>2. prefix = FramePrefix
  <2>1. sentFlowID <=> framed # <<>>
    BY DEF IInv, FlowIDInv
  <2> QED BY <2>1, Zenon DEF FramePrefix
<1>3. /\ buffer' = prefix \o frame /\ rest' = buffer'
      /\ framed' = framed \o prefix \o frame
      /\ start' = [start EXCEPT ![w] = Len(framed') - Len(pkt[w])]
  BY <1>2 DEF WriteFrame
<1>4. prefix \in Seq(Byte)
  <2>1. <<>> \in Seq(Byte)
    OBVIOUS
  <2> QED BY <2>1, FlowIDIsBytes, Zenon
<1>5. frame \in Seq(Byte) /\ Len(frame) > Len(pkt[w])
  BY <1>1, FrameBytes
<1> HIDE DEF prefix, frame
<1>6. /\ buffer' \in Seq(Byte) /\ Len(buffer') = Len(prefix) + Len(frame)
      /\ framed \o prefix \in Seq(Byte) /\ Len(framed \o prefix) = Len(framed) + Len(prefix)
  BY <1>1, <1>3, <1>4, <1>5, ConcatBytes
<1>7. framed' \in Seq(Byte) /\ Len(framed') = Len(framed) + Len(prefix) + Len(frame)
  BY <1>3, <1>5, <1>6, ConcatBytes
<1>8. wire' \o rest' = framed'
  <2>1. (framed \o prefix) \o frame = framed \o (prefix \o frame)
    BY <1>1, <1>4, <1>5, ConcatAssoc, SMTT(60)
  <2> QED BY <1>3, <2>1
<1>9. Len(framed) \in Nat /\ Len(prefix) \in Nat /\ Len(frame) \in Nat /\ Len(framed') \in Nat
  BY <1>1, <1>4, <1>5, <1>7
<1>10. /\ Len(pkt[w]) <= Len(buffer') /\ Len(framed') - Len(pkt[w]) \in Nat
       /\ Len(framed') - Len(pkt[w]) > 0 /\ Len(framed') # 0
  <2> DEFINE a == Len(framed)
             b == Len(prefix)
             c == Len(frame)
             d == Len(pkt[w])
             B == Len(buffer')
             F == Len(framed')
  <2>1. a \in Nat /\ b \in Nat /\ c \in Nat /\ d \in Nat /\ c > d /\ B = b + c /\ F = a + b + c
    BY <1>1, <1>5, <1>6, <1>7, <1>9, Zenon
  <2> HIDE DEF a, b, c, d, B, F
  <2>2. d <= B /\ F - d \in Nat /\ F - d > 0 /\ F # 0
    BY <2>1
  <2> QED BY <2>2, Zenon DEF d, B, F
<1>11. start' \in [Writers -> Nat] /\ start'[w] = Len(framed') - Len(pkt[w])
  BY <1>1, <1>3, <1>10
<1>12. framed' # <<>>
  BY <1>10
<1> QED BY <1>3, <1>6, <1>7, <1>8, <1>10, <1>11, <1>12

(* The same for the rest of the state: the lock is w's. *)
LEMMA FrameWritten ==
  ASSUME IInv, NEW w \in Writers, WriteFrame(w), wire = framed,
         lock' = w, \A v \in Writers : v # w => wpc[v] \notin {"flush", "write"},
         pending' = <<>>, UNCHANGED <<pkt, stream, wire, calls, ret, err>>
  PROVE  IInv'
<1>1. /\ buffer' \in Seq(Byte) /\ rest' \in Seq(Byte) /\ framed' \in Seq(Byte)
      /\ rest' = buffer' /\ Len(pkt[w]) <= Len(buffer')
      /\ wire' \o rest' = framed' /\ framed' # <<>>
      /\ start' = [start EXCEPT ![w] = Len(framed') - Len(pkt[w])]
      /\ start' \in [Writers -> Nat] /\ start'[w] > 0
      /\ start'[w] = Len(framed') - Len(pkt[w])
  BY WriteFrameStep
<1>2. wpc' = [wpc EXCEPT ![w] = "write"] /\ sentFlowID' = TRUE
  BY DEF WriteFrame
<1>3. wpc \in [Writers -> {"idle", "lock", "flush", "write"}] /\ NoWriter \notin Writers
  BY Types DEF IInv
<1>4. wpc'[w] = "write" /\ \A v \in Writers : v # w => wpc'[v] = wpc[v]
  BY <1>2, <1>3
<1>5. TypeOK'
  <2>1. sentFlowID' \in BOOLEAN /\ err' \in [Writers -> BOOLEAN]
    BY <1>2, Zenon DEF IInv, TypeOK
  <2>2. /\ stream' \in {"open", "closed", "cancelled"} /\ wire' \in Seq(Byte)
        /\ pkt' \in [Writers -> Packets \cup {<<>>}] /\ ret' \in [Writers -> Nat]
        /\ calls' \in 0..MaxCalls
    BY DEF IInv, TypeOK
  <2>3. pending' \in Seq(Byte) /\ wpc' \in [Writers -> {"idle", "lock", "flush", "write"}]
    BY <1>2, <1>3
  <2>4. lock' \in Writers \cup {NoWriter}
    OBVIOUS
  <2> QED BY <1>1, <2>1, <2>2, <2>3, <2>4, Zenon DEF TypeOK
<1>6. LockInv'
  BY <1>4 DEF LockInv
<1>7. FlowIDInv'
  BY <1>1, <1>2, Zenon DEF FlowIDInv
<1>8. FrameInv'
  <2>1. Len(rest') <= Len(buffer')
    BY <1>1
  <2>2. \A v \in Writers : wpc'[v] = "write" => v = w
    BY <1>4
  <2> QED BY <1>1, <2>1, <2>2, Zenon DEF FrameInv
<1>9. NothingLostOrRepeated'
  BY <1>1, <1>3, Zenon DEF NothingLostOrRepeated, Unsent
<1> QED BY <1>5, <1>6, <1>7, <1>8, <1>9 DEF IInv
-----------------------------------------------------------------------------
(* WriteRTPBytes is called: nothing happens before the lock is taken. *)
LEMMA CallStep ==
  ASSUME IInv, NEW w \in Writers, NEW p \in Packets, WriteRTPBytes(w, p)
  PROVE  IInv'
<1>1. /\ wpc[w] = "idle" /\ calls < MaxCalls /\ wpc' = [wpc EXCEPT ![w] = "lock"]
      /\ pkt' = [pkt EXCEPT ![w] = p] /\ start' = [start EXCEPT ![w] = 0] /\ calls' = calls + 1
  BY DEF WriteRTPBytes
<1>2. UNCHANGED <<sentFlowID, buffer, pending, lock, ret, err, rest, stream, wire, framed>>
  BY DEF WriteRTPBytes
<1>3. /\ wpc \in [Writers -> {"idle", "lock", "flush", "write"}]
      /\ pkt \in [Writers -> Seq(Byte)] /\ start \in [Writers -> Nat]
      /\ calls \in 0..MaxCalls /\ MaxCalls \in Nat
  BY Types DEF IInv
<1>4. wpc'[w] = "lock" /\ \A v \in Writers : v # w =>
        wpc'[v] = wpc[v] /\ pkt'[v] = pkt[v] /\ start'[v] = start[v]
  BY <1>1, <1>3
<1>5. TypeOK'
  <2>1. sentFlowID' \in BOOLEAN /\ err' \in [Writers -> BOOLEAN]
    BY <1>2, Zenon DEF IInv, TypeOK
  <2>2. wpc' \in [Writers -> {"idle", "lock", "flush", "write"}] /\ start' \in [Writers -> Nat]
        /\ calls' \in 0..MaxCalls
    BY <1>1, <1>3
  <2>3. pkt' \in [Writers -> Packets \cup {<<>>}]
    BY <1>1 DEF IInv, TypeOK
  <2> QED BY <1>2, <2>1, <2>2, <2>3, Zenon DEF IInv, TypeOK
<1>6. LockInv'
  BY <1>1, <1>2, <1>4 DEF IInv, LockInv
<1>7. FlowIDInv'
  BY <1>2, Zenon DEF IInv, FlowIDInv
<1>8. FrameInv'
  BY <1>2, <1>4 DEF IInv, FrameInv
<1>9. NothingLostOrRepeated'
  BY <1>2, Zenon DEF IInv, NothingLostOrRepeated, Unsent
<1> QED BY <1>5, <1>6, <1>7, <1>8, <1>9 DEF IInv

(* The lock is taken. *)
LEMMA LockKeeps ==
  ASSUME IInv, NEW w \in Writers, Lock(w)
  PROVE  IInv'
<1>1. wpc[w] = "lock" /\ lock = NoWriter /\ lock' = w
  BY DEF Lock
<1>2. UNCHANGED <<pending, pkt, ret, err, stream, wire, calls>>
  BY DEF Lock
<1>3. /\ wpc \in [Writers -> {"idle", "lock", "flush", "write"}] /\ NoWriter \notin Writers
      /\ pending \in Seq(Byte) /\ wire \in Seq(Byte)
  BY Types DEF IInv
<1>4. \A v \in Writers : wpc[v] \notin {"flush", "write"}
  BY <1>1, <1>3 DEF IInv, LockInv
<1>5. wire \o pending = framed
  BY <1>1 DEF IInv, NothingLostOrRepeated, Unsent
<1>6. CASE MustFlush
  <2>1. /\ wpc' = [wpc EXCEPT ![w] = "flush"] /\ rest' = pending
        /\ UNCHANGED <<sentFlowID, buffer, framed, start>>
    BY <1>6, Zenon DEF Lock
  <2>2. wpc'[w] = "flush" /\ \A v \in Writers : v # w => wpc'[v] = wpc[v]
    BY <1>3, <2>1
  <2>3. TypeOK'
    <3>1. sentFlowID' \in BOOLEAN /\ err' \in [Writers -> BOOLEAN]
      BY <1>2, <2>1, Zenon DEF IInv, TypeOK
    <3>2. wpc' \in [Writers -> {"idle", "lock", "flush", "write"}]
      BY <1>3, <2>1
    <3> QED BY <1>1, <1>2, <2>1, <3>1, <3>2, Zenon DEF IInv, TypeOK
  <2>4. LockInv' /\ FrameInv'
    BY <1>1, <1>4, <2>2 DEF LockInv, FrameInv
  <2>5. FlowIDInv'
    BY <2>1, Zenon DEF IInv, FlowIDInv
  <2>6. NothingLostOrRepeated'
    BY <1>1, <1>2, <1>3, <1>5, <2>1, Zenon DEF NothingLostOrRepeated, Unsent
  <2> QED BY <2>3, <2>4, <2>5, <2>6 DEF IInv
<1>7. CASE ~MustFlush
  <2>1. WriteFrame(w)
    BY <1>7, Zenon DEF Lock
  <2>2. pending = <<>>
    BY <1>3, <1>7 DEF MustFlush
  <2>3. wire = framed
    BY <1>3, <1>5, <2>2, ConcatEmpty
  <2> QED BY <1>1, <1>2, <1>4, <2>1, <2>2, <2>3, FrameWritten
<1> QED BY <1>6, <1>7

(* The QUIC stream accepts a byte. *)
LEMMA AcceptStep ==
  ASSUME IInv, Accept
  PROVE  IInv'
<1>1. /\ lock # NoWriter /\ rest # <<>> /\ wire' = Append(wire, Head(rest)) /\ rest' = Tail(rest)
  BY DEF Accept, WriteUnderWay
<1>2. UNCHANGED <<sentFlowID, buffer, pending, lock, wpc, pkt, ret, err, stream, calls, framed, start>>
  BY DEF Accept
<1>3. wire \in Seq(Byte) /\ rest \in Seq(Byte) /\ buffer \in Seq(Byte)
  BY Types DEF IInv
<1>4. /\ wire' \in Seq(Byte) /\ rest' \in Seq(Byte) /\ Len(rest') = Len(rest) - 1
      /\ wire' \o rest' = wire \o rest
  BY <1>1, <1>3, MoveByte
<1>5. TypeOK'
  <2>1. sentFlowID' \in BOOLEAN /\ err' \in [Writers -> BOOLEAN]
    BY <1>2, Zenon DEF IInv, TypeOK
  <2> QED BY <1>2, <1>4, <2>1, Zenon DEF IInv, TypeOK
<1>6. LockInv' /\ FlowIDInv'
  BY <1>2, Zenon DEF IInv, LockInv, FlowIDInv
<1>7. FrameInv'
  <2>1. Len(rest) <= Len(buffer) => Len(rest') <= Len(buffer)
    BY <1>3, <1>4
  <2> QED BY <1>2, <2>1, Zenon DEF IInv, FrameInv
<1>8. NothingLostOrRepeated'
  BY <1>1, <1>2, <1>4, Zenon DEF IInv, NothingLostOrRepeated, Unsent
<1> QED BY <1>5, <1>6, <1>7, <1>8 DEF IInv

(* A call returns, keeping what the stream did not accept. *)
LEMMA ReturnStep ==
  ASSUME IInv, NEW w \in Writers, NEW n \in Nat, NEW e \in BOOLEAN,
         wpc[w] \in {"flush", "write"}, Return(w, n, e), pending' = rest,
         UNCHANGED <<sentFlowID, buffer, pkt, rest, stream, wire, calls, framed, start>>
  PROVE  IInv'
<1>1. /\ wpc' = [wpc EXCEPT ![w] = "idle"] /\ lock' = NoWriter
      /\ ret' = [ret EXCEPT ![w] = n]
  BY DEF Return
<1>2. err' = [err EXCEPT ![w] = e]
  BY DEF Return
<1>3. /\ wpc \in [Writers -> {"idle", "lock", "flush", "write"}] /\ ret \in [Writers -> Nat]
      /\ NoWriter \notin Writers
  BY Types DEF IInv
<1>4. lock = w /\ \A v \in Writers : v # w => wpc[v] \notin {"flush", "write"}
  BY DEF IInv, LockInv
<1>5. \A v \in Writers : wpc'[v] \notin {"flush", "write"}
  BY <1>1, <1>3, <1>4
<1>6. TypeOK'
  <2>1. sentFlowID' \in BOOLEAN
    BY Zenon DEF IInv, TypeOK
  <2>2. err' \in [Writers -> BOOLEAN]
    <3>1. err \in [Writers -> BOOLEAN]
      BY DEF IInv, TypeOK
    <3> QED BY <1>2, <3>1
  <2>3. /\ wpc' \in [Writers -> {"idle", "lock", "flush", "write"}] /\ ret' \in [Writers -> Nat]
    BY <1>1, <1>3
  <2> QED BY <1>1, <2>1, <2>2, <2>3, Zenon DEF IInv, TypeOK
<1>7. LockInv' /\ FrameInv'
  BY <1>1, <1>3, <1>5 DEF LockInv, FrameInv
<1>8. FlowIDInv'
  BY Zenon DEF IInv, FlowIDInv
<1>9. NothingLostOrRepeated'
  BY <1>1, <1>3, <1>4, Zenon DEF IInv, NothingLostOrRepeated, Unsent
<1> QED BY <1>6, <1>7, <1>8, <1>9 DEF IInv

(* flush returns: the tail of the earlier frame is kept, or all is sent. *)
LEMMA FlushKeeps ==
  ASSUME IInv, NEW w \in Writers, NEW e \in BOOLEAN, FlushReturns(w, e)
  PROVE  IInv'
<1>1. wpc[w] = "flush" /\ pending' = rest /\ UNCHANGED <<pkt, stream, wire, calls>>
  BY Zenon DEF FlushReturns, FlushTail
<1>2. CASE e \/ rest # <<>>
  <2>1. Return(w, 0, TRUE) /\ UNCHANGED <<sentFlowID, buffer, rest, framed, start>>
    BY <1>2, Zenon DEF FlushReturns, FlushTail
  <2> QED BY <1>1, <2>1, ReturnStep
<1>3. CASE ~e /\ rest = <<>>
  <2>1. WriteFrame(w) /\ UNCHANGED <<lock, ret, err>>
    BY <1>3, Zenon DEF FlushReturns, FlushTail
  <2>2. lock = w /\ NoWriter \notin Writers /\ wire \in Seq(Byte)
    BY <1>1, Types DEF IInv, LockInv
  <2>3. \A v \in Writers : v # w => wpc[v] \notin {"flush", "write"}
    BY <2>2 DEF IInv, LockInv
  <2>4. wire \o <<>> = framed
    BY <1>3, <2>2, Zenon DEF IInv, NothingLostOrRepeated, Unsent
  <2>5. wire = framed
    BY <2>2, <2>4, ConcatEmpty
  <2> QED BY <1>1, <1>3, <2>1, <2>2, <2>3, <2>5, FrameWritten
<1> QED BY <1>2, <1>3, Zenon

(* What WriteReturns reports, in terms of the wire. *)
LEMMA WriteCounts ==
  ASSUME IInv, NEW w \in Writers, wpc[w] = "write"
  PROVE  /\ Accepted(w) \in Nat /\ Accepted(w) <= Len(pkt[w])
         /\ Accepted(w) = OnWire(w)
         /\ rest = <<>> => wire = framed
<1>1. /\ wire \in Seq(Byte) /\ rest \in Seq(Byte) /\ buffer \in Seq(Byte) /\ framed \in Seq(Byte)
      /\ pkt[w] \in Seq(Byte) /\ start[w] \in Nat /\ NoWriter \notin Writers
  BY Types DEF IInv
<1>2. lock = w
  BY DEF IInv, LockInv
<1>3. wire \o rest = framed
  BY <1>1, <1>2, Zenon DEF IInv, NothingLostOrRepeated, Unsent
<1>4. Len(wire) + Len(rest) = Len(framed)
  BY <1>1, <1>3, ConcatBytes
<1>5. /\ start[w] = Len(framed) - Len(pkt[w])
      /\ Len(rest) <= Len(buffer) /\ Len(pkt[w]) <= Len(buffer)
  BY DEF IInv, FrameInv
<1>6. /\ Len(wire) \in Nat /\ Len(rest) \in Nat /\ Len(buffer) \in Nat
      /\ Len(framed) \in Nat /\ Len(pkt[w]) \in Nat
  BY <1>1
<1>7. /\ Accepted(w) = IF Len(buffer) - Len(rest) > Len(buffer) - Len(pkt[w])
                       THEN (Len(buffer) - Len(rest)) - (Len(buffer) - Len(pkt[w])) ELSE 0
      /\ OnWire(w) = IF Len(wire) > start[w] THEN Len(wire) - start[w] ELSE 0
  BY Zenon DEF Accepted, OnWire
<1>8. Accepted(w) \in Nat /\ Accepted(w) <= Len(pkt[w]) /\ Accepted(w) = OnWire(w)
  <2> DEFINE W == Len(wire)
             R == Len(rest)
             B == Len(buffer)
             F == Len(framed)
             P == Len(pkt[w])
             S == start[w]
  <2>1. /\ W \in Nat /\ R \in Nat /\ B \in Nat /\ F \in Nat /\ P \in Nat /\ S \in Nat
        /\ W + R = F /\ S = F - P /\ R <= B /\ P <= B
    BY <1>1, <1>4, <1>5, <1>6, Zenon
  <2>2. /\ Accepted(w) = IF B - R > B - P THEN (B - R) - (B - P) ELSE 0
        /\ OnWire(w) = IF W > S THEN W - S ELSE 0
    BY <1>7, Zenon
  <2> HIDE DEF W, R, B, F, P, S
  <2>3. Accepted(w) \in Nat /\ Accepted(w) <= P /\ Accepted(w) = OnWire(w)
    BY <2>1, <2>2
  <2> QED BY <2>3, Zenon DEF P
<1>9. rest = <<>> => wire = framed
  BY <1>1, <1>3, ConcatEmpty
<1> QED BY <1>8, <1>9

(* stream.Write returns in WriteRTPBytes. *)
LEMMA WriteStep ==
  ASSUME IInv, NEW w \in Writers, NEW e \in BOOLEAN, WriteReturns(w, e)
  PROVE  /\ IInv'
         /\ ret'[w] = OnWire(w) /\ (~err'[w] => rest = <<>>) /\ pending' = rest
         /\ \A v \in Writers : v # w => wpc'[v] = wpc[v]
<1>1. /\ wpc[w] = "write"
      /\ UNCHANGED <<sentFlowID, buffer, pkt, rest, stream, wire, calls, framed, start>>
  BY DEF WriteReturns
<1>2. pending' = rest
  <2>1. pending = <<>>
    BY <1>1 DEF IInv, FrameInv
  <2> QED BY <2>1, Zenon DEF WriteReturns
<1> DEFINE n == IF Accepted(w) < Len(pkt[w]) THEN Accepted(w) ELSE Len(pkt[w])
<1>3. Return(w, n, e \/ rest # <<>>)
  BY Zenon DEF WriteReturns, ShortWrite
<1>4. Accepted(w) \in Nat /\ Accepted(w) <= Len(pkt[w]) /\ Accepted(w) = OnWire(w)
  BY <1>1, WriteCounts
<1>5. Len(pkt[w]) \in Nat
  BY Types DEF IInv
<1>6. n = Accepted(w)
  BY <1>4, <1>5
<1> HIDE DEF n
<1>7. n \in Nat /\ n = OnWire(w)
  BY <1>4, <1>6
<1>8. (e \/ rest # <<>>) \in BOOLEAN
  OBVIOUS
<1>9. IInv'
  BY <1>1, <1>2, <1>3, <1>7, <1>8, ReturnStep
<1>10. ret'[w] = n
  <2>1. ret' = [ret EXCEPT ![w] = n]
    BY <1>3 DEF Return
  <2> QED BY <2>1, Types DEF IInv
<1>11. ~err'[w] => rest = <<>>
  <2>1. err' = [err EXCEPT ![w] = (e \/ rest # <<>>)] /\ err \in [Writers -> BOOLEAN]
    BY <1>3 DEF Return, IInv, TypeOK
  <2>2. err'[w] = (e \/ rest # <<>>)
    BY <2>1, Zenon
  <2> QED BY <2>2, Zenon
<1>12. \A v \in Writers : v # w => wpc'[v] = wpc[v]
  <2>1. wpc' = [wpc EXCEPT ![w] = "idle"]
    BY <1>3 DEF Return
  <2> QED BY <2>1, Types DEF IInv
<1> QED BY <1>2, <1>7, <1>9, <1>10, <1>11, <1>12

(* CancelStream and Close. *)
LEMMA StopStep ==
  ASSUME IInv, CancelStream \/ Close
  PROVE  IInv'
<1>1. UNCHANGED <<sentFlowID, buffer, pending, lock, wpc, pkt, ret, err, rest, wire, calls,
                  framed, start>>
  BY Zenon DEF CancelStream, Close
<1>2. stream' \in {"open", "closed", "cancelled"}
  BY Zenon DEF CancelStream, Close
<1> QED BY <1>1, <1>2, Zenon
           DEF IInv, TypeOK, LockInv, FlowIDInv, FrameInv, NothingLostOrRepeated, Unsent

(* Every step keeps the invariant. *)
LEMMA StepInv == IInv /\ [Next]_vars => IInv'
<1> SUFFICES ASSUME IInv, [Next]_vars PROVE IInv'
  OBVIOUS
<1>1. CASE UNCHANGED vars
  BY <1>1, Zenon DEF vars, IInv, TypeOK, LockInv, FlowIDInv, FrameInv, NothingLostOrRepeated, Unsent
<1>2. CASE \E w \in Writers : \E p \in Packets : WriteRTPBytes(w, p)
  BY <1>2, CallStep
<1>3. CASE \E w \in Writers : Lock(w) \/ Returns(w)
  BY <1>3, LockKeeps, FlushKeeps, WriteStep DEF Returns
<1>4. CASE Accept
  BY <1>4, AcceptStep
<1>5. CASE CancelStream \/ Close
  BY <1>5, StopStep
<1> QED BY <1>1, <1>2, <1>3, <1>4, <1>5 DEF Next

(* The invariant holds in every reachable state of a send stream. *)
THEOREM Invariance == Spec => []IInv
BY InitInv, StepInv, PTL DEF Spec

(* The variables keep their types. *)
THEOREM TypeCorrect == Spec => []TypeOK
<1>1. IInv => TypeOK
  BY DEF IInv
<1> QED BY <1>1, Invariance, PTL

(* WriteRTPBytes and flush together lose, repeat and reorder no byte.        *)
THEOREM WireIsFramed == Spec => []NothingLostOrRepeated
<1>1. IInv => NothingLostOrRepeated
  BY DEF IInv
<1> QED BY <1>1, Invariance, PTL
(* Only the goroutine that holds the lock returns, and flush and Write say  *)
(* what they leave behind.                                                  *)
LEMMA StepReturns ==
  ASSUME IInv, [Next]_vars, NEW w \in Writers, wpc[w] # "idle", wpc'[w] = "idle"
  PROVE  \/ wpc[w] = "flush" /\ err'[w]
         \/ /\ wpc[w] = "write" /\ ret'[w] = OnWire(w)
            /\ (~err'[w] => wire = framed /\ pending' = <<>> /\ start[w] # 0)
<1>1. /\ wpc \in [Writers -> {"idle", "lock", "flush", "write"}] /\ err \in [Writers -> BOOLEAN]
      /\ start[w] \in Nat
  BY Types DEF IInv, TypeOK
<1>2. ASSUME wpc'[w] = wpc[w] PROVE FALSE
  BY <1>2
<1>3. CASE UNCHANGED wpc
  BY <1>2, <1>3
<1>4. ASSUME NEW v \in Writers, NEW x \in {"lock", "flush", "write"}, wpc' = [wpc EXCEPT ![v] = x]
      PROVE  FALSE
  BY <1>1, <1>4
<1>5. CASE \E v \in Writers : (\E p \in Packets : WriteRTPBytes(v, p)) \/ Lock(v)
  BY <1>4, <1>5, Zenon DEF WriteRTPBytes, Lock, WriteFrame
<1>6. ASSUME NEW v \in Writers, NEW e \in BOOLEAN, FlushReturns(v, e)
      PROVE  wpc[w] = "flush" /\ err'[w]
  <2>1. CASE WriteFrame(v)
    BY <1>4, <2>1, Zenon DEF WriteFrame
  <2>2. CASE Return(v, 0, TRUE)
    <3>1. /\ wpc' = [wpc EXCEPT ![v] = "idle"] /\ err' = [err EXCEPT ![v] = TRUE]
          /\ wpc[v] = "flush"
      BY <1>6, <2>2, Zenon DEF Return, FlushReturns
    <3>2. v = w
      BY <1>1, <1>2, <3>1
    <3> QED BY <1>1, <3>1, <3>2, Zenon
  <2> QED BY <1>6, <2>1, <2>2, Zenon DEF FlushReturns
<1>7. ASSUME NEW v \in Writers, NEW e \in BOOLEAN, WriteReturns(v, e)
      PROVE  /\ wpc[w] = "write" /\ ret'[w] = OnWire(w)
             /\ (~err'[w] => wire = framed /\ pending' = <<>> /\ start[w] # 0)
  <2>1. /\ ret'[v] = OnWire(v) /\ (~err'[v] => rest = <<>>) /\ pending' = rest
        /\ \A u \in Writers : u # v => wpc'[u] = wpc[u]
    BY <1>7, WriteStep
  <2>2. v = w /\ wpc[w] = "write"
    <3>1. v = w
      BY <1>2, <2>1
    <3> QED BY <1>7, <3>1 DEF WriteReturns
  <2>3. (rest = <<>> => wire = framed) /\ start[w] > 0
    BY <2>2, WriteCounts DEF IInv, FrameInv
  <2>4. start[w] # 0
    BY <1>1, <2>3
  <2> QED BY <2>1, <2>2, <2>3, <2>4, Zenon
<1>8. CASE Accept \/ CancelStream \/ Close \/ UNCHANGED vars
  <2>1. UNCHANGED wpc
    BY <1>8, Zenon DEF Accept, CancelStream, Close, vars
  <2> QED BY <1>3, <2>1
<1> QED BY <1>5, <1>6, <1>7, <1>8, Zenon DEF Next, Returns

(* The count WriteRTPBytes returns is what is on the wire of its packet. *)
THEOREM ReportsWhatIsOnWire == Spec => CountIsOnWire
<1>1. IInv /\ [Next]_vars =>
        [\A w \in Writers : wpc[w] = "write" /\ wpc'[w] = "idle" => ret'[w] = OnWire(w)]_vars
  <2> SUFFICES ASSUME IInv, [Next]_vars, NEW w \in Writers, wpc[w] = "write", wpc'[w] = "idle"
               PROVE  ret'[w] = OnWire(w)
    OBVIOUS
  <2> QED BY StepReturns
<1> QED BY <1>1, Invariance, PTL DEF Spec, CountIsOnWire

(* A WriteRTPBytes without an error has put everything on the wire. *)
THEOREM SuccessLeavesNothing == Spec => SuccessIsComplete
<1>1. IInv /\ [Next]_vars =>
        [\A w \in Writers : wpc[w] # "idle" /\ wpc'[w] = "idle" /\ ~err'[w] =>
           wire = framed /\ pending' = <<>> /\ start[w] # 0]_vars
  <2> SUFFICES ASSUME IInv, [Next]_vars, NEW w \in Writers,
                      wpc[w] # "idle", wpc'[w] = "idle", ~err'[w]
               PROVE  wire = framed /\ pending' = <<>> /\ start[w] # 0
    OBVIOUS
  <2> QED BY StepReturns
<1> QED BY <1>1, Invariance, PTL DEF Spec, SuccessIsComplete
=============================================================================
