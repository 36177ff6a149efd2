SPECIFICATION FairSpec
CONSTANTS
  Null = Null
  Mark = {0, 2}
  Timeout <- MCTimeout
  FlushSlice = 1
  WaitSlice = 1
  TicksPerMs = 1
  MaxChunk = 2
  MaxBytes = 5
  SendBuffer = 2
INVARIANTS
  SentInOrder
  QueuedExact
  Hysteresis
PROPERTIES
  FlushEnds
  BackpressureClears
