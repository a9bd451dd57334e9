SPECIFICATION AllSpec
CONSTANTS
    Services = {s1, s2}
    Old = {o1}
    Probes = {q1}
    Inodes = {n1, n2, n3}
    None = None
    MaxAttempts = 1
    Callers = {"chat", "leader"}
    ToolCalls = {1, 2, 3}
    LargeCalls = {2}
    MaxHistory = 1
    RequestRows = 6
    CheckpointRows = 5
    MaxTurns = 3
    MaxFaults = 2
    Texts <- ResultTexts
    ResultOutcomes = {"successful"}
    PageRoom = 2
    OlderRoom = 4
    MessageRoom = 3
    MaxPages = 3
    LastScope = 1
    MaxKept = 2
    MaxOlder = 1
    StoreFaults = 1
    Confirmers <- TwoPeople
    MaxPlans = 2
    MaxOrders = 4
    MaxTries = 2
    MaxChanges = 2
    MaxSheets = 2
    MaxTroubles = 3
INVARIANTS OneService Paired SavedIsSent ReadsBackWhole SentOnce GroupWaits
PROPERTIES DeliveredIsAgreed AcceptedIsUntouched NoVainRepair
CHECK_DEADLOCK FALSE
