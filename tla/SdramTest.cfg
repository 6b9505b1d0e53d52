SPECIFICATION Spec
CONSTANTS
    Size = 4
    TestLimit = 3
    BenchLimit = 3
    Chunk = 2
    Width = 5
    Faults <- MCFaults
INVARIANTS PassMeansSound FailureLocated WindowRefilled
CHECK_DEADLOCK FALSE
