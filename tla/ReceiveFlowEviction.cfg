SPECIFICATION FairSpec
CONSTANTS
  Streams = {s1}
  Datagrams = {}
  Readers = {}
  Closers = {}
  Buffers = {b1}
  ReceiveBufferSize = 1
  MaxPackets = 1
  MaxDeadlines = 0
  None = None
PROPERTIES EvictionCancelsStreams
CHECK_DEADLOCK FALSE
