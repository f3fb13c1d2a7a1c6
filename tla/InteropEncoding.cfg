SPECIFICATION Spec
CONSTANTS
  Modes = {"datagram"}
  Frames = 2
  PerFrame = 2
  Window = 1
  StreamCredit = 1
  FlowID = 0
  IDWidths = {1, 2}
  OptionLists <- SomeOptions
  NoPacket = NoPacket
INVARIANT PacketsAreIntact
CHECK_DEADLOCK FALSE
