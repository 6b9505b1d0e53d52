SPECIFICATION LiveSpec
CONSTANTS
    c1 = c1
    c2 = c2
    MaxTouchPoints = 2
    Modes <- BothModes
    HasAltAddr = TRUE
    Repulses = TRUE
    Boards <- AnyBoard
    Contacts <- MCContacts
    Frames <- MCFrames
    MaxFrames = 3
    MaxFaults = 2
INVARIANTS
    TypeOK
    TalksToController
    FramesWhole
    NoFrameSkipped
    RepeatsAreNacks
PROPERTIES
    EveryFrameReported
    ImplementsChannel
CHECK_DEADLOCK FALSE
