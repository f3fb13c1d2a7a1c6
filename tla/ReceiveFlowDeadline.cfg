SPECIFICATION FairSpec
CONSTANTS
  Streams = {s1}
  Datagrams = {}
  Readers = {r1}
  Closers = {c1}
  Buffers = {b1, b2, b3}
  ReceiveBufferSize = 1
  MaxPackets = 1
  MaxDeadlines = 3
  None = None
INVARIANTS NoLostWakeup ExpiredDeadlineBindsRead TimersStoppable
PROPERTIES StaleTimerIsInert CloseWakesReaders CloseEndsStreams DeadlineWakesReaders
CHECK_DEADLOCK FALSE
