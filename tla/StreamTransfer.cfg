SPECIFICATION TransferFairSpec
CONSTANTS
  Writers = {w1, w2}
  Packets <- SmallPackets
  FlowID = 64
  MaxCalls = 3
  NoWriter = NoWriter
  NoFlow = NoFlow
  LogData = TRUE
  DataLimit = 2
INVARIANTS TransferTypeOK NothingLostOrRepeated LogsDescribeFrames
PROPERTIES CancelFreesWriters CountIsOnWire EverythingArrives ImplementsPacketStream
CHECK_DEADLOCK FALSE
