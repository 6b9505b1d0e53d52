SPECIFICATION Spec
CONSTANTS
    QueueSize = 2
    MaxEdges = 4
INVARIANTS
    TypeOK
    MotionConserved
    HostSeesButtons
