----------------------------- MODULE RTPSendStream -----------------------------
(***************************************************************************)
(* One RTPSendStream (rtp_send_stream.go): goroutines in WriteRTPBytes,    *)
(* which holds s.lock while stream.Write blocks on flow control, and       *)
(* Close and CancelStream, which do not take the lock.                     *)
(***************************************************************************)
EXTENDS Naturals, Sequences, Varint

CONSTANTS
  Writers,    \* goroutines that call WriteRTPBytes
  Packets,    \* the packets they send, as sequences of bytes
  FlowID,
  MaxCalls,   \* bound: calls of WriteRTPBytes
  NoWriter

ASSUME SendStreamAssumption ==
  /\ Packets \subseteq Seq(Byte)
  /\ FlowID \in Nat
  /\ MaxCalls \in Nat
  /\ NoWriter \notin Writers

VARIABLES
  sentFlowID,  \* s.sentFlowID
  buffer,      \* s.buffer
  pending,     \* s.pending
  lock,        \* who holds s.lock
  wpc, pkt,    \* per writer: where, and its packet
  ret, err,    \* per writer: what the last call returned
  rest,        \* what the Write under way has not accepted yet
  stream,      \* the QUIC stream: "open", "closed" or "cancelled"
  wire,        \* all bytes the QUIC stream has accepted
  calls,       \* calls of WriteRTPBytes so far
  framed,      \* history: all bytes that belong on the stream so far
  start        \* history, per writer: where in framed its packet begins; 0 if nowhere

vars == <<sentFlowID, buffer, pending, lock, wpc, pkt, ret, err, rest, stream,
          wire, calls, framed, start>>

FlowIDBytes_OneByte == <<FlowID % 256>>
FlowIDBytes == VarintBytes(FlowID)

-----------------------------------------------------------------------------
Init ==
  /\ sentFlowID = FALSE /\ buffer = <<>> /\ pending = <<>> /\ lock = NoWriter
  /\ wpc = [w \in Writers |-> "idle"] /\ pkt = [w \in Writers |-> <<>>]
  /\ ret = [w \in Writers |-> 0] /\ err = [w \in Writers |-> FALSE]
  /\ rest = <<>> /\ stream = "open" /\ wire = <<>> /\ calls = 0
  /\ framed = <<>> /\ start = [w \in Writers |-> 0]

WriteRTPBytes(w, p) ==
  /\ wpc[w] = "idle" /\ calls < MaxCalls
  /\ wpc' = [wpc EXCEPT ![w] = "lock"]
  /\ pkt' = [pkt EXCEPT ![w] = p]
  /\ start' = [start EXCEPT ![w] = 0]
  /\ calls' = calls + 1
  /\ UNCHANGED <<sentFlowID, buffer, pending, lock, ret, err, rest, stream, wire, framed>>

(* The frame of a packet, behind the flow ID when that has not been sent. *)
Frame(p) == VarintBytes(Len(p)) \o p
FramePrefix == IF sentFlowID THEN <<>> ELSE FlowIDBytes

(* The frame is put together and handed to stream.Write.  What belongs on   *)
(* the stream is one flow ID, then one frame per packet.                    *)
WriteFrame(w) ==
  /\ wpc' = [wpc EXCEPT ![w] = "write"]
  /\ buffer' = FramePrefix \o Frame(pkt[w])
  /\ sentFlowID' = TRUE
  /\ rest' = buffer'
  /\ framed' = framed \o (IF framed = <<>> THEN FlowIDBytes ELSE <<>>) \o Frame(pkt[w])
  /\ start' = [start EXCEPT ![w] = Len(framed') - Len(pkt[w])]

(* The lock is taken; the tail of an earlier frame goes first. *)
MustFlush == Len(pending) > 0

Lock(w) ==
  /\ wpc[w] = "lock" /\ lock = NoWriter
  /\ lock' = w
  /\ \/ /\ MustFlush
        /\ wpc' = [wpc EXCEPT ![w] = "flush"]
        /\ rest' = pending
        /\ UNCHANGED <<sentFlowID, buffer, framed, start>>
     \/ /\ ~MustFlush
        /\ WriteFrame(w)
  /\ UNCHANGED <<pending, pkt, ret, err, stream, wire, calls>>

(* A Write is under way as long as the stream has not accepted all of it. *)
WriteUnderWay == lock # NoWriter /\ rest # <<>>

(* The stream accepts a byte of the Write under way. *)
Accept ==
  /\ WriteUnderWay /\ stream = "open"
  /\ wire' = Append(wire, Head(rest))
  /\ rest' = Tail(rest)
  /\ UNCHANGED <<sentFlowID, buffer, pending, lock, wpc, pkt, ret, err, stream,
                 calls, framed, start>>

(* WriteRTPBytes returns n and whether there is an error. *)
Return_Locked(w, n, e) ==
  /\ wpc' = [wpc EXCEPT ![w] = "idle"]
  /\ lock' = IF e THEN lock ELSE NoWriter
  /\ ret' = [ret EXCEPT ![w] = n]
  /\ err' = [err EXCEPT ![w] = e]

Return(w, n, e) ==
  /\ wpc' = [wpc EXCEPT ![w] = "idle"]
  /\ lock' = NoWriter
  /\ ret' = [ret EXCEPT ![w] = n]
  /\ err' = [err EXCEPT ![w] = e]

(* stream.Write returns in flush, with (e) or without an error of its own,  *)
(* having accepted all, some or nothing of s.pending.                       *)
FlushTail_Kept == pending
FlushTail == rest

FlushReturns(w, e) ==
  /\ wpc[w] = "flush"
  /\ pending' = FlushTail
  /\ \/ /\ e \/ FlushTail # <<>>
        /\ Return(w, 0, TRUE)
        /\ UNCHANGED <<sentFlowID, buffer, rest, framed, start>>
     \/ /\ ~e /\ FlushTail = <<>>
        /\ WriteFrame(w)
        /\ UNCHANGED <<lock, ret, err>>
  /\ UNCHANGED <<pkt, stream, wire, calls>>

(* stream.Write returns in WriteRTPBytes.  What it did not accept is kept,  *)
(* and the caller is told how much of the packet itself was accepted.       *)
Accepted_NoHeader(w) == Len(buffer) - Len(rest)
Accepted(w) ==
  LET n         == Len(buffer) - Len(rest)
      headerLen == Len(buffer) - Len(pkt[w])
  IN  IF n > headerLen THEN n - headerLen ELSE 0

ShortWrite == rest # <<>>

WriteReturns(w, e) ==
  /\ wpc[w] = "write"
  /\ pending' = IF rest # <<>> THEN rest ELSE pending
  /\ Return(w, IF Accepted(w) < Len(pkt[w]) THEN Accepted(w) ELSE Len(pkt[w]), e \/ ShortWrite)
  /\ UNCHANGED <<sentFlowID, buffer, pkt, rest, stream, wire, calls, framed, start>>

(* Neither takes the lock.  CancelStream acts on a Write under way at once. *)
CancelStream ==
  /\ stream # "cancelled"
  /\ stream' = "cancelled"
  /\ UNCHANGED <<sentFlowID, buffer, pending, lock, wpc, pkt, ret, err, rest,
                 wire, calls, framed, start>>

(* Close does not: the stream still accepts the data of that Write and ends *)
(* behind it.  This is the step at which it ends, so after a Write that has *)
(* been accepted or has given up.                                           *)
Close ==
  /\ stream = "open" /\ ~WriteUnderWay
  /\ stream' = "closed"
  /\ UNCHANGED <<sentFlowID, buffer, pending, lock, wpc, pkt, ret, err, rest,
                 wire, calls, framed, start>>

-----------------------------------------------------------------------------
Returns(w) == \E e \in BOOLEAN : FlushReturns(w, e) \/ WriteReturns(w, e)

Next ==
  \/ \E w \in Writers : \E p \in Packets : WriteRTPBytes(w, p)
  \/ \E w \in Writers : Lock(w) \/ Returns(w)
  \/ Accept
  \/ CancelStream
  \/ Close

Spec == Init /\ [][Next]_vars

(* A waiting goroutine gets the mutex in the end (sync.Mutex does not       *)
(* starve), and stream.Write returns when everything is accepted or the     *)
(* stream is cancelled.  Flow control owes nothing, and Close does not wake *)
(* a Write that waits for it.                                               *)
WriteIsOver == rest = <<>> \/ stream = "cancelled"
Fairness ==
  \A w \in Writers : SF_vars(Lock(w)) /\ WF_vars(WriteIsOver /\ Returns(w))

FairSpec == Spec /\ Fairness

-----------------------------------------------------------------------------
(* Every variable has its type. *)
TypeOK ==
  /\ sentFlowID \in BOOLEAN /\ stream \in {"open", "closed", "cancelled"}
  /\ buffer \in Seq(Byte) /\ pending \in Seq(Byte) /\ rest \in Seq(Byte)
  /\ wire \in Seq(Byte) /\ framed \in Seq(Byte)
  /\ lock \in Writers \cup {NoWriter}
  /\ wpc \in [Writers -> {"idle", "lock", "flush", "write"}]
  /\ pkt \in [Writers -> Packets \cup {<<>>}]
  /\ ret \in [Writers -> Nat] /\ err \in [Writers -> BOOLEAN]
  /\ calls \in 0..MaxCalls /\ start \in [Writers -> Nat]

(* What the stream has not accepted: the rest of a Write, or s.pending. *)
Unsent == IF lock = NoWriter THEN pending ELSE rest

(* However writes are cut short, by whichever goroutine they are resumed,   *)
(* and whenever the stream is closed: what is on the wire and what is kept  *)
(* for later are together the flow ID and the frames, each byte once, in    *)
(* order ("Nothing may go on the wire ahead of the tail of an earlier       *)
(* frame").                                                                 *)
NothingLostOrRepeated == wire \o Unsent = framed

(* The count WriteRTPBytes returns is the number of bytes of its packet on  *)
(* the wire at that moment, counted on the wire.                            *)
OnWire(w) == IF Len(wire) > start[w] THEN Len(wire) - start[w] ELSE 0
CountIsOnWire ==
  [][\A w \in Writers :
       wpc[w] = "write" /\ wpc'[w] = "idle" => ret'[w] = OnWire(w)]_vars

(* When WriteRTPBytes reports no error, the packet and everything before it *)
(* is on the wire, and nothing is left pending.                             *)
SuccessIsComplete ==
  [][\A w \in Writers :
       wpc[w] # "idle" /\ wpc'[w] = "idle" /\ ~err'[w] =>
         wire = framed /\ pending' = <<>> /\ start[w] # 0]_vars

(* CancelStream "is what unblocks a write that is blocked on flow control", *)
(* and every goroutine queued behind it, although none of them gives up the *)
(* lock while it waits.                                                     *)
CancelFreesWriters ==
  \A w \in Writers : stream = "cancelled" /\ wpc[w] # "idle" ~> wpc[w] = "idle"
=============================================================================
