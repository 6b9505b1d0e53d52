SPECIFICATION LiveSpec
CONSTANTS
    MaxSlots = 2
    Modes <- Polling
    HasAltAddr = FALSE
    Repulses = FALSE
    Boards <- OneBoard
    Contacts <- MCContacts
    Frames <- MCFrames
    MaxFrames = 2
    MaxFaults = 1
    Width = 3
    Height = 2
    MarkFirst = FALSE
    QueueSize = 7
INVARIANTS
    LastContactShown
    NoUpdateLost
PROPERTIES
    ConsoleSettles
CHECK_DEADLOCK FALSE
