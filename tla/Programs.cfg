SPECIFICATION Parts
CONSTANTS
  o1 = o1
  o2 = o2
  t1 = t1
  t2 = t2
  Fd = {f1, f2, f3}
  None = None
  NullHandle = NullHandle
  Object = {o1, o2}
  Thread = {t1, t2}
  Handle = {h1, h2, h3, h4}
  Connections = 3
  Iterations = 2
INVARIANTS
  SingleOwner
  AwaitHasResult
  FramesOwned
  Verdict
PROPERTIES
  JoinReturns
  ChurnEnds
CHECK_DEADLOCK FALSE
