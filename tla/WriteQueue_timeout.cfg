SPECIFICATION Spec
CONSTANTS
    Null = Null
    Mark = {2}
    Timeout = {0, 3}
    FlushSlice = 2
    WaitSlice = 1
    TicksPerMs = 1
    MaxChunk = 2
    MaxBytes = 4
    SendBuffer = 1
PROPERTY
    TimeoutHonoured
