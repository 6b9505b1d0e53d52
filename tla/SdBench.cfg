SPECIFICATION LiveSpec
CONSTANTS
    Total = 5
    Chunk = 2
    Modes = {0, 1}
    Spaces = {4, 9}
    Remains = {2, 7}
    MaxFaults = 2
    MaxResets = 1
INVARIANTS
    Released
    ReadsAllBack
PROPERTIES
    BenchEnds
CHECK_DEADLOCK FALSE
