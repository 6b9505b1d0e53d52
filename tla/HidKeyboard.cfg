SPECIFICATION LiveSpec
CONSTANTS
    key0 = key0
    key1 = key1
    other = other
    Keys <- MCKeys
    OtherKeys <- MCOtherKeys
    RemoteWakeup = TRUE
    QueueSize = 2
    MaxEdges = 5
INVARIANTS
    KeyboardTypeOK
    HostSeesKeys
PROPERTIES
    FreePressWakesHost
