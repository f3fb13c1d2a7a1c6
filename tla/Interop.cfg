SPECIFICATION FairSpec
CONSTANTS
  Modes = {"datagram", "frame", "single"}
  Frames = 2
  PerFrame = 2
  Window = 1
  StreamCredit = 1
  FlowID = 0
  IDWidths = {1}
  OptionLists <- SomeOptions
  NoPacket = NoPacket
INVARIANTS InteropTypeOK ArrivesAsSent SendLeavesNoStreamOpen
PROPERTY SlowReceiverDoesNotStallSender
CHECK_DEADLOCK FALSE
