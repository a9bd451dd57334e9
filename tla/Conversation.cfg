SPECIFICATION AllSpec
CONSTANTS
    Messages = {1, 2}
    ChatOf <- ChatOfEach
    Commands = {2}
    Writes = {"send"}
    Wishes = {"reset"}
    MaxTries = 3
    MaxSessions = 3
    MaxTrouble = 3
    MaxOrders = 1
    LeaderRows <- ThreeRows
    LeaderSends = {"send"}
    LeaderChoices = {"a", "b"}
    LeaderOps <- ThreeOps
    MaxActivations = 2
    MaxLeaderTrouble = 2
    TrustGates = {1}
    MaxQuestions = 2
    MaxSeq = 1
    MaxNonces = 2
    MaxMoves = 2
    MaxTroubles = 1
INVARIANTS EffectOnce OneKeyEach NextKeyAfterProof
PROPERTIES NothingPastUnknown LeaderEffectOnce
CHECK_DEADLOCK FALSE
