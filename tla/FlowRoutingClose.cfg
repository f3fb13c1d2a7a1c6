CONSTANTS
  IDs = {i1, i2}
  Handlers = {h1}
  Openers = {o1}
  Closers = {c1}
  MaxLen = 1
  MaxFlows = 2
  NoID = NoID
  Nobody = Nobody
SPECIFICATION Spec
INVARIANT CloseTearsDownFlows
CHECK_DEADLOCK FALSE
