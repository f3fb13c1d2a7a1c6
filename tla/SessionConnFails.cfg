CONSTANTS
  Streams = {s1}
  Closers = {c1}
  Apps = {a1}
  DLoop = DLoop
  ULoop = ULoop
  MaxDatagrams = 0
  Nobody = Nobody
SPECIFICATION Spec
INVARIANT LoopsEndAfterClose
CHECK_DEADLOCK FALSE
