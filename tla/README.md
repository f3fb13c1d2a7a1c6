# A TLA+ model of roq

roq sends RTP packets over QUIC. A `Session` wraps a QUIC connection; packets of
a *flow* travel as datagrams or as length-prefixed frames on unidirectional
streams, each datagram or stream opened by the flow ID as a QUIC varint. This
directory models the library and the programs of its interop example, checks
them with TLC, and proves with TLAPS every safety invariant, action property and
refinement the passing runs check.

## The system

| Component | Code | State | Operations |
|---|---|---|---|
| Receive flow | `receive_flow.go` | packet channel, buffer pool, registered streams, context, deadline channel and timer | `readStream`, `push`, `Read`, `SetReadDeadline`, timer callbacks, `Close`, `closeWithError` |
| Routing | `receive_flow_buffer.go`, `session.go` | `receiveFlows`, map and queue of unknown flows | `receiveFlow`, `getOrCreate` (evicts), `NewReceiveFlow` (`pop`, `set`), `close` |
| Send stream and its reader | `rtp_send_stream.go`, `receive_flow.go`, `qlogger.go`, `qlog/event.go` | reused buffer, pending tail, `sentFlowID`, lock; the reader's position; the events of both | `WriteRTPBytes`, `flush`, `CancelStream`, `Close`; `handleUniStream`, `readStream`, `readVarint`; `rawData`, `encode` |
| Send flows | `send_flow.go`, `session.go` | `sendFlows`, streams of a flow, `closedErr` | `NewSendFlow`, `NewSendStream`, `SendFlow.Close`, `close` |
| Session | `session.go` | `closedErr`, WaitGroup, context, `sync.Once` | the two receive loops, stream handlers, `HandleDatagram`, `HandleUniStreamWithFlowID`, `close`, `Close` |
| Two applications | `examples/interop`, `options.go`, the datagram path | what the sender has sent and opened, datagrams in flight, the receiver's queue and output | `send` in three modes, `HandleDatagram`, `receive`, `newSessionConfig`, how both sides close |
| Varints | `quicvarint`, `readVarint` | none | encode, parse |

How they interact: the session's loops start handlers, handlers find a flow
through the routing tables and push into it, the application reads from it.
Closing the session closes every registered flow, then the connection, then the
context, and waits for the loops and handlers. What makes this hard is that
every one of these runs on its own goroutine and that several checks are made
under a lock that is released before their result is used.

## Modules

| Module | Models |
|---|---|
| `ReceiveFlow` | one receive flow and all goroutines that touch it; a section under `f.lock` is one action, everything outside is a step of its own |
| `PacketQueue` | what a receive flow promises: a bounded FIFO that can be closed |
| `FlowRouting` | the tables and the buffer of unknown flows |
| `RTPSendStream` | one send stream, byte by byte; `Accept` lets the QUIC stream take one byte |
| `StreamTransfer` | extends `RTPSendStream` by the goroutine that reads the stream at the peer, on the same bytes, and by the qlog events of both |
| `PacketStream` | what a stream promises, in packets: in order, none lost or repeated, only the last one cut, and only by `Close` |
| `SendFlows` | the send flows, with `f.lock` and `s.mutex` explicit |
| `Session` | loops, handlers, `close`, `Close`, the qlog recorder, with and without the session's own loops |
| `Options` | the options as records, their checks, and `newSessionConfig` |
| `Interop` | composition: sender, connection, receiver; a stream behaves as a `PacketStream`, a flow's buffer as a `PacketQueue` |
| `Varint` | the encoding used by `RTPSendStream`, `StreamTransfer` and `Interop` |
| `MC*` | definitions for TLC: symmetry, small packet sets, lists of options |
| `ReceiveFlowProofs`, `FlowRoutingProofs`, `RTPSendStreamProofs`, `StreamTransferProofs`, `SendFlowsProofs`, `SessionProofs`, `InteropProofs`, `VarintProofs` | theorems |

Correspondence: variables carry the names of the fields; actions carry the
names of the functions, or of the step within one. A deadline channel is named
by its number (`epoch`), so "the channel has been replaced" is `epoch # e`. A
packet is a pair (handler, number) in `ReceiveFlow` and a number in `Interop`;
only `RTPSendStream`, `StreamTransfer` and `Varint` deal in bytes. An operator
with a suffix (`PushAccepts_NoLimit`) is the operator before the suffix with a
plausible mistake in it; no specification uses it.

Abstractions worth knowing:

* `ReceiveFlow` treats `bufferPool.Get` as any buffer that is in the pool or in
  nobody's hand: `sync.Pool` may drop and allocate at will.
* A buffer dropped by `readStream` on a payload error is not put back.
* `RTPSendStream.Close` is the step at which the stream ends. A call of `Close`
  while a `Write` is under way does not wake it: quic-go still takes the data of
  that `Write` and ends the stream behind it, so `Close` waits for it in the model.
* `StreamTransfer.EndOfStream` leaves out the `CancelRead` of a stream that ends
  inside its flow ID: nothing follows it on a stream that has ended.
* `SendFlows` takes closing all streams of a flow and `onClose` as one step: both
  run under `f.lock`, and nobody looks at the single streams meanwhile. `racers`,
  `inside` and `orphaned` are history variables: no guard reads them.
* `StreamTransfer` takes a blocking read (a varint, a payload) as one step, when
  its bytes are there or the stream has ended. `ReadFails` stands for a reset, a
  flow that was closed and a connection that is gone, at any moment. Of an event
  it keeps the raw info; `Encode` leaves out fields that are zero. When
  `handleUniStream` returns, its local variables go back to their initial values.
* `Session` has one step for closing all flows; `SendFlows` and `FlowRouting`
  show what happens inside. `RecordEvent` and `Recorder.Close` take time.
* `Interop` keeps of a datagram its packet and how many bytes its flow ID was
  encoded in. Datagrams may be lost and may overtake each other, as QUIC allows;
  QUIC does not repeat them. `fileWriter` is the list of packets written to its
  jitter buffer. The example itself passes no options; the receiver's session
  is also given lists of options, valid and not, to compose `Options` with the
  rest. `NewSendStream` blocks while `StreamCredit` streams are unfinished; a
  stream is finished when its end was read or its flow closed. `pushed` is a
  history variable: what the reader of each stream handed to `push`.
* `Varint` stays below 2^31, TLC's integers.
* External code is modelled from its use: `sync.Pool`, `time.AfterFunc`,
  `sync.Once`, the QUIC connection and its streams, `quicvarint`.

## Runs

Bounds are the smallest that let the races happen: two of a kind where two of
them can interfere, buffers and queues that fill, enough flows to evict.

| Run | Checks | Bounds |
|---|---|---|
| `ReceiveFlow` | `TypeOK`, `BuffersUnshared`, `NoPanic`, `ClosedReadHasError`, `ClosedFlowStreamsCancelled`, `ImplementsPacketQueue` | a stream and a datagram handler, 2 closers, 5 symmetric buffers, a queue of 2 that fills; no deadlines |
| `ReceiveFlowDeadline` | `NoLostWakeup`, `ExpiredDeadlineBindsRead`, `TimersStoppable`, `StaleTimerIsInert`; fair: `CloseWakesReaders`, `CloseEndsStreams`, `DeadlineWakesReaders` | 3 calls of `SetReadDeadline`, so that a stale callback meets a later deadline; 1 reader, 1 closer |
| `FlowRouting` | `TypeOK`, `QueueListsBuffer`, `OneFlowPerID`, `FlowsAreReachable`, `OpenedFlowNotEvicted`, `RoutedFlowNotEvicted`, `OldestIsEvicted` | 3 IDs for 2 places, 4 flows, 2 openers; symmetric IDs and openers |
| `StreamTransfer` | `TransferTypeOK`, `NothingLostOrRepeated`, `LogsDescribeFrames`, `CountIsOnWire`, `ImplementsPacketStream`; fair: `CancelFreesWriters`, `EverythingArrives` | 2 writers, 3 calls, so that a tail is resumed by another writer and cut again; packets of 0 and 2 bytes, a 2-byte flow ID that can itself be cut, events that keep 2 of at most 3 bytes |
| `SendFlows` | `TypeOK`, `RegisteredFlowsAreOpen`, `OnlyRacersEscapeClose`, `OnlyRacingStreamsStayOpen`; fair: `CloseEnds` | 2 flows, 2 IDs, 2 streams, 2 closers of the session and 1 goroutine of each other kind; flows may be closed again; `OpenUniStreamSync` may block for ever |
| `Session` | `TypeOK`, `FirstCloseDecides`, `CloseOutlivesLoops`; fair: `CloseReturns` | 1 stream, 2 closers, 1 application goroutine, 2 datagrams; with or without datagrams, loops, a producer |
| `Interop` | `InteropTypeOK`, `ArrivesAsSent`, `SendLeavesNoStreamOpen`; fair: `SlowReceiverDoesNotStallSender` | 3 modes, 2 frames of 2 packets, a stream that takes 1 packet ahead of its reader, credit for 1 stream, so that the second frame waits for the first stream to be read, queues of 1, 2 and 1024, 9 lists of options |

Deadlock is not checked: every bound makes a model stop, and a closed session
has nothing left to do. That everything which must go on does go on is what the
liveness properties say.

Five runs show the code and its documentation to disagree, each with the
shortest trace:

* `ReceiveFlowEviction`: a handler that looked a flow up before its eviction
  registers its stream afterwards; nothing cancels that stream.
* `FlowRoutingClose`: `NewReceiveFlow` tests `isClosed`, the session closes, the
  flow is registered; nothing closes it. `NewSendFlow` has the same gap;
  `OnlyRacersEscapeClose` says how much can slip through it.
* `SendFlowsReclose`: a second `Close` of a flow unregisters a newer flow of the
  same ID.
* `InteropEncoding`: `HandleDatagram` strips the length of the shortest encoding
  of the flow ID, not the bytes it has parsed. A sender of another
  implementation that uses a longer encoding gets the rest of it in front of
  every packet.
* `SessionConnFails`: when the connection fails, the loops return and nobody
  calls `close`, against the comment in `start`; flows stay open and a `Read`
  waits until the application closes the session.

Three more disagreements show in the models, and no run repeats them: when
`flush` fails, `WriteRTPBytes` reports the new packet short but has not kept it,
against the advice not to send it again (`RTPSendStream.FlushReturns`);
`NewSendStream` appends a stream to a flow that was closed while the stream was
being opened, and nothing closes it, although `Close` "closes the flow and all
associated streams" (`SendFlows.AppendStream`; `OnlyRacingStreamsStayOpen` says that
these are the only ones, at most one for each such call); an application
goroutine inside `SendFlow.WriteRTPBytes` may record while `Close` closes the
recorder (`Session.AppRecord` after `QlogClosed`; `CloseOutlivesLoops` is what
holds, for the goroutines of the session).

## Fairness

Steps a goroutine takes on its own are weakly fair: the Go scheduler is. A select
with a ready case proceeds; armed timers fire. Waiting for a mutex that others take
again and again is strongly fair (`RTPSendStream.Lock`, closing the session in
`SendFlows`, once it has begun): `sync.Mutex` hands over to a waiter that starves. A
`stream.Write` returns once everything is accepted or the stream is cancelled;
`Close` does not wake it. A read of a cancelled stream or of a closed connection
returns, and so do `ReceiveDatagram` and `AcceptUniStream` once their context is
cancelled. The reader of `StreamTransfer` gets what the stream has accepted, and its
end: QUIC retransmits; `EverythingArrives` allows for a connection that fails
instead. In `Interop` the two programs and the stream readers run, a stream can be
opened when there is credit for it, and the connection to a receiver that has exited
times out; nothing makes the receiver call `NewReceiveFlow`. Nothing is assumed of
flow control or of an application: it need not send, accept, read or close.

## Proofs

All theorems hold for any sets of goroutines, streams, IDs and packets and any
bounds, from the named assumptions: `ReceiveFlowAssumption` (a capacity of at least
one, which `WithReceiveBufferSize` enforces; disjoint handlers),
`FlowRoutingAssumption` (a limit of at least one, which `WithUnknownFlowBufferSize`
enforces), `SendStreamAssumption` (packets are bytes), `TransferAssumption` (flow ID
and packet lengths are below 2^31 - 1, where `Varint` is exact), `SessionAssumption`
(finitely many streams, goroutines with one role each), `SendFlowsAssumption`
(finitely many goroutines that open flows or streams, as they are counted; a
goroutine that closes a flow is not at the same time one that closes the session)
and `InteropAssumption` (at least one frame of at least one packet, credit for at
least one stream, lists of options as the functions of `options.go` make them). The
rest of each is that `None`, `Nobody` and the like are none of the things they stand
beside.

One theorem has a hypothesis of its own. `LibraryInteroperatesWithItself` assumes
`IDWidths = {VarintLen(FlowID)}`: the sender's flow IDs are in the shortest
encoding, which is what `quicvarint.Append` in `SendFlow.WriteRTPBytes` writes. The
run `InteropEncoding` shows that it cannot be dropped, and `ReceiverLosesNothing`
is what holds without it.

* `ReceiveFlowProofs`. The inductive invariant `IInv` adds to the properties:
  which buffers are in whose hand at which program point (`BufferInv`), that the
  channel is closed exactly when `closed` is set and the context was cancelled
  before (`CloseInv`), and that the current deadline channel is closed exactly
  when the deadline has expired. None of the properties is inductive without
  them: that push cannot panic rests on `closed` and `bufClosed` agreeing. Then
  `FlowImplementsPacketQueue`: each step is a step of `PacketQueue` or leaves its
  variables alone. The step that matters is filling a buffer: it must not be one
  that is queued or in a reader's hand.
* `FlowRoutingProofs`. The invariant ties the queue to the map, and creation
  order to queue order, from which "the oldest is evicted" follows.
* `RTPSendStreamProofs`. The invariant says that only the holder of the lock is
  inside a write, that `buffer` is a flow ID (or not) and one frame, and that the
  rest of the write is its end; with it wire and rest are the framed bytes.
* `StreamTransferProofs`. First `SenderIsRTPSendStream`: the sender of the
  composition is `RTPSendStream`, so its invariant can be used. Then
  `DeliversPackets`, the refinement to `PacketStream`. The invariant `TInv` says
  that there is a function `at`, the position at which each frame ends, such
  that the framed bytes between two positions are one frame (`Layout`), the
  whole is covered (`Covers`), and the reader stands at such a position, or
  behind the length of the frame that follows it (`ReaderAt`). The wire is a
  prefix of the framed bytes, so what the reader parses there is the length of
  that frame (`VarintRoundTrip`), and the payload is the packet, or its start
  when the stream was closed inside it; then nothing is left to read. Last, the
  logs (`LogsAreTrue`): `SenderLog` says that each event was made from the frame of
  its packet and, while a write is under way, that the end of `buffer` still is
  that frame; `ReaderLog` that the bytes the reader keeps of a length are those
  the sender wrote. An event copies its bytes, so what is encoded later is what
  was logged.
* `SendFlowsProofs`. Close removes a flow from the map in one step and marks it
  in the next; the invariant says what holds between the two (`MarkInv`): the
  goroutine has the flow's lock, no ID holds the flow, and all its streams are
  closed. With the lock held, nobody can add a stream in between. The two results
  on what escapes a close count. `OnlyRacingStreamsSurvive`: when a flow is marked,
  all its streams are closed, and from then on a goroutine inside `NewSendStream`
  either leaves it or exchanges its place for one open stream (`OneSlips`);
  `isClosed` lets no other in. `OnlyRacingFlowsSurvive`: an open flow that nobody
  closes is registered or was unregistered by the `Close` of another flow
  (`LeftInv`), so the clone of the map has all flows that count. From the clone on,
  the open flows close will not see (`Missed`), with the goroutines that have passed
  `isClosed` and not yet inserted (`Racing`), are no more than the goroutines that
  were between the two when close began (`RaceInv`).
* `SessionProofs`. `WgInv`: the WaitGroup is the number of goroutines alive, and the
  set of those alive is finite. `MutexInv`: who is inside `close` holds the mutex,
  and `closedErr` is the code that goroutine was called with. `ConnInv` says exactly
  when the connection has been closed, and with what. That no goroutine outlives
  `Close` needs the count: a handler is only started by a loop, which is itself
  counted, so a count of zero is final.
* `InteropProofs`. The invariant follows a packet from the sender to the file
  writer. `SenderInv` ties the numbers of the packets to the frame `send` is in and
  to the stream it has open, `NetInv` says that a number is on one stream or in one
  datagram, in order on a stream, and `PacketInv` that what is inside the receiver
  (`Inside`: written, in hand, queued) is exactly what the streams' readers took and
  push did not drop, while what is on the way has been neither (`OnTheWay`).
  `EachArrivesOnce` is not inductive without the last: a datagram that is delivered
  must not be inside already. `SendClosesItsStreams` needs only that a return always
  goes through `flow.Close`. `StreamsArePacketStreams` shows that what the reader of
  a stream of `Interop` hands to `push`, set against what was written to the stream,
  implements `PacketStream`, the specification that `DeliversPackets` shows of the
  real bytes: a reader that handed on another packet, or one of them twice, would
  not. (It leaves out the cut last packet that `PacketStream` allows: a `Write` of
  `send` is short only when the connection is gone or the receiver has stopped the
  stream, and then nobody reads it.) `OptionsAreChecked` says what
  `newSessionConfig` computes for a list of any length. It is an induction over the
  list, made from the set of the lengths at which the claim holds: the complement
  has no least element (`Least`, `Inductive`), so it is empty.
* `VarintProofs`. Encoding, in any width, and parsing are inverse.

Some results reach further than the runs. `NoPanic` is run without deadlines (with
them the state space of `ReceiveFlow` is too large for two closers), and
`NeverPanics` covers the deadline channels as well. `SuccessIsComplete` of
`RTPSendStream`, `StreamsArePacketStreams` and `OptionsAreChecked` are only proved.

Only model-checked: the liveness properties, marked "fair" in the table of runs.
Liveness under fairness is out of the prover's reach. With `EverythingArrives` goes
`Rebuilt`, which no safety property uses.

## Not modelled

* `quic_connection.go` forwards each call to quic-go, one for one; there is no
  behaviour in it apart from quic-go's.
* `errors.go`: the codes appear in the modules; the error values and accessors
  have no state.
* Of `qlog/event.go`, the fields other than the raw info and the events without
  packet data: they are written as they are given. `qlog/qlog.go` names the
  schema for quic-go's tracer.
* Stream priorities: passed through to the stream, and quic-go has none.
* In `examples/interop`, flags, TLS, the ffmpeg and ffplay processes and the video
  formats. `examples/playfromdisk` sends like the stream-per-frame mode of
  `Interop` and panics on errors; `examples/savetodisk` receives like its
  receiver.
* Varints of 2^31 and more: TLC's integers end there. The arithmetic of the
  code does not depend on the size, except `int64(length)` in `readStream`, which
  a varint (below 2^62) cannot overflow.
