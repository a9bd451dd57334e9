SPECIFICATION AllSpec
CONSTANTS
    People = {p1}
    Nobody = nobody
    MaxEvents = 3
    MaxOutputs = 2
    MaxMessages = 1
    MaxTroubles = 1
    Speakers = 2
    MaxSayings = 3
    MaxRefusals = 1
    MaxPauses = 1
    Documents = {d1}
    Document = d1
    TheCode = TheCode
    NoPlan = NoPlan
    NoChange = NoChange
    NoSource = NoSource
    MaxAsks = 2
    MaxSlips = 1
INVARIANTS InputOnce DecisionIsTrue ShownOnce
PROPERTIES OutputsScheduled ObligationsKept PlanningEnds
CHECK_DEADLOCK FALSE
