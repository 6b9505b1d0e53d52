SPECIFICATION LiveSpec
CONSTANTS
    Lines = {"rs232", "rs485"}
    MaxBytes = 3
    Newlines = {2}
    TurnTicks = 1
    TailTicks = 2
    LoopTicks = 2
    PingTicks = 5
    PingLength = 2
    HelloLength = 3
INVARIANTS
    NothingCutOff
    EchoInOrder
    PausedBytesFit
PROPERTIES
    PingsKeepComing
