SPECIFICATION Spec
CONSTANTS
  Streams = {s1}
  Datagrams = {d1}
  Readers = {r1}
  Closers = {c1, c2}
  Buffers = {b1, b2, b3, b4, b5}
  ReceiveBufferSize = 2
  MaxPackets = 2
  MaxDeadlines = 0
  None = None
SYMMETRY BufferSymmetry
INVARIANTS TypeOK BuffersUnshared NoPanic ClosedReadHasError ClosedFlowStreamsCancelled
PROPERTIES ImplementsPacketQueue
CHECK_DEADLOCK FALSE
