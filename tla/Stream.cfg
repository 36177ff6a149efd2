SPECIFICATION Parts
CONSTANTS
  c1 = c1
  c2 = c2
  a1 = a1
  a2 = a2
  None = None
  Client = {c1, c2}
  Acceptor = {a1, a2}
  Backlog = 1
  CanFail = TRUE
  Room = 2
  Length = {0, 3}
  MaxBytes = 3
  Timeout <- Timeouts
  TicksPerMs = 2
  MaxSlice = 1
  Blocking = FALSE
  CanBreak = TRUE
INVARIANTS
  RefusalReported
  Delivered
PROPERTIES
  WorkingServed
  TimedEnds
CHECK_DEADLOCK FALSE
