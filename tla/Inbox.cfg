SPECIFICATION FairSpec
CONSTANTS
    m1 = m1
    m2 = m2
    la = la
    None = None
    Messages = {m1, m2}
    Lanes = {la}
    LaneOf <- OneChat
    Concurrency = 1
    MaxAttempts = 2
INVARIANTS NoticeOnce
PROPERTIES LaneInOrder AcceptedSettles
