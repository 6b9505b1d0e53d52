SPECIFICATION Spec
CONSTANTS
    Buffers = 3
    SourceSignals = FALSE
    MaxFrames = 6
    MaxFaults = 1
INVARIANTS TypeOK BuffersKept FramesInOrder
PROPERTY FramesArrive
CHECK_DEADLOCK FALSE
