SPECIFICATION Spec
CONSTANTS
    m1 = m1
    m2 = m2
    la = la
    None = None
    Messages = {m1}
    Lanes = {la}
    LaneOf <- Alone
    Concurrency = 1
    MaxAttempts = 2
PROPERTY NoticeMeansGivenUp
