SPECIFICATION Spec
CONSTANTS
    People = {1, 2}
    Inputs = {"u", "s"}
    UserInputs = {"u"}
    Discussion = TRUE
    MaxInputs = 1
    MaxGeneration = 1
    MaxTroubles = 1
    MaxControls = 2
INVARIANTS OnlyUserPauses
CHECK_DEADLOCK FALSE
