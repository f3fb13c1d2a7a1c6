CONSTANTS
  Ids = {1, 2}
  Streams = {s1, s2}
  Openers = {o1}
  Streamers = {w1}
  FlowClosers = {g1}
  Closers = {c1, c2}
  Reclose = TRUE
  MaxFlows = 2
  Nobody = Nobody
SPECIFICATION FairSpec
INVARIANTS TypeOK RegisteredFlowsAreOpen OnlyRacersEscapeClose OnlyRacingStreamsStayOpen
PROPERTIES CloseEnds
CHECK_DEADLOCK FALSE
