CONSTANTS
  Ids = {1}
  Streams = {s1}
  Openers = {o1}
  Streamers = {w1}
  FlowClosers = {g1}
  Closers = {}
  Reclose = TRUE
  MaxFlows = 3
  Nobody = Nobody
SPECIFICATION Spec
INVARIANT OpenFlowsAreRegistered
CHECK_DEADLOCK FALSE
