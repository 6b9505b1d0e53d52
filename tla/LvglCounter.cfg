SPECIFICATION Spec
CONSTANTS
    Period = 3
    Wrap = 8
INVARIANTS
    CountsFromReset
    LabelKeepsUp
CHECK_DEADLOCK FALSE
