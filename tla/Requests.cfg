SPECIFICATION AllSpec
CONSTANTS
    Ids = {close}
    Calls = {c1, c2}
    Instances = {tasks, app}
    Gated = {tasks}
    Params = {p1, p2}
    Resettable = {close}
    MaxRetries = 2
    Keys = {"k1", "k2"}
    Runs = {"c1", "c2", "c3", "c4"}
    Messages = {"o"}
    Senders = {"s1", "s2"}
    Texts = {"x1", "x2"}
    Targets = {"direct", "reply"}
    Parts = 3
    None = "none"
INVARIANTS NoBlindReplay PartsOnceInOrder
PROPERTIES ImplementsLedger CallsReturn FirstComeFirstServed ClosingEnds
