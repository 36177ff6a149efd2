CONSTANTS
  h1 = h1
  h2 = h2
  h3 = h3
  f1 = f1
  f2 = f2
  Null = Null
  WakeFd = WakeFd
  Handle = {h1, h2, h3}
  Fd = {f1}
  Conds = {"in", "out", "err"}
  MaxEvents = 1
  Timeout = {1}
  TicksPerMs = 2
  IntMax = 1
  MaxTime = 2
  CanClose = TRUE
SPECIFICATION Spec
SYMMETRY HandleSymmetry
INVARIANTS
  CountersExact
  NoOversleep
  NoLostWakeup
  SuspendedOnce
  FramesOwned
  NoTaskLeftBehind
PROPERTIES
  WakeHasCause
  ImplementsScheduler
