SPECIFICATION AllSpec
SYMMETRY Peers
CONSTANTS
    Nodes = {"make", "check", "report"}
    Needs <- MCNeeds
    Writers = {"make"}
    Checks = {"check"}
    Reviews = {"check"}
    Reports = {"report"}
    People = {a, b, c}
    Crew = {a, b}
    MaxRev = 1
    MaxUser = 1
    MaxInputs = 4
    MaxTries = 2
    MaxPlans = 2
    MaxTrouble = 1
    Budget = 4
    NoQuestion = NoQuestion
    NoWait = NoWait
    MaxChanges = 1
    MaxSends = 2
    MaxLuck = 1
INVARIANTS Alone AskedOnce
PROPERTIES DeliveredIsProved
CHECK_DEADLOCK FALSE
