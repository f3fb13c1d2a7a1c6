CONSTANTS
  IDs = {i1, i2, i3}
  Handlers = {h1}
  Openers = {o1, o2}
  Closers = {c1}
  MaxLen = 2
  MaxFlows = 4
  NoID = NoID
  Nobody = Nobody
SPECIFICATION Spec
INVARIANTS TypeOK QueueListsBuffer OneFlowPerID FlowsAreReachable OpenedFlowNotEvicted
PROPERTIES RoutedFlowNotEvicted OldestIsEvicted
SYMMETRY Symmetry
CHECK_DEADLOCK FALSE
