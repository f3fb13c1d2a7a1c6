CONSTANTS
  Streams = {s1}
  Closers = {c1, c2}
  Apps = {a1}
  DLoop = DLoop
  ULoop = ULoop
  MaxDatagrams = 2
  Nobody = Nobody
SPECIFICATION FairSpec
INVARIANTS TypeOK FirstCloseDecides CloseOutlivesLoops
PROPERTY CloseReturns
CHECK_DEADLOCK FALSE
