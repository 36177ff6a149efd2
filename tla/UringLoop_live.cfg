CONSTANTS
  h1 = h1
  h2 = h2
  h3 = h3
  f1 = f1
  Null = Null
  Gone = Gone
  WakeFd = WakeFd
  Handle = {h1, h2}
  File = {f1, WakeFd}
  Conds = {"in"}
  Depth = 1
  MaxToken = 2
  MaxBatch = 2
  Timeout = {0, 1}
  TicksPerMs = 2
  IntMax = 1
  MaxTime = 2
  CanClose = FALSE
  CanFail = FALSE
SPECIFICATION FairSpec
PROPERTIES
  StopReturns
  TimedWaitEnds
  ImplementsScheduler
