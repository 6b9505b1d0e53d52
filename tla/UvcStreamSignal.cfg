SPECIFICATION Spec
CONSTANTS
    Buffers = 2
    SourceSignals = TRUE
    MaxFrames = 4
    MaxFaults = 0
INVARIANT StreamNeverStalls
CHECK_DEADLOCK FALSE
