SPECIFICATION Spec
CONSTANTS
    N = 2
    MaxOutputs = 3
    MaxTroubles = 1
    MaxWords = 1
INVARIANTS HandoffKept
CHECK_DEADLOCK FALSE
