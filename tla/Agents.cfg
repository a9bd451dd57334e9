SPECIFICATION Spec
CONSTANTS
    People = {1, 2}
    Inputs = {"u", "s"}
    UserInputs = {"u"}
    Discussion = TRUE
    MaxInputs = 1
    MaxGeneration = 1
    MaxTroubles = 2
    MaxControls = 1
INVARIANTS InputOnce OneAgent
PROPERTIES ProofFitsPlace
CHECK_DEADLOCK FALSE
