SPECIFICATION Parts
CONSTANTS
  Request = {r1, r2}
  Alone = {r1}
  Null = Null
  Sleeper = {s1, s2}
  None = None
  Entry = {inet, other}
  Usable = {inet}
  MaxList = 1
  SleepFails = TRUE
INVARIANTS
  NoLostJob
  OwnAnswer
  ParsesExactly
PROPERTIES
  ResolveEnds
  JoinReturns
  NotEarly
  SleepEnds
CHECK_DEADLOCK FALSE
