SPECIFICATION FairSpec
CONSTANTS
    People = {p1}
    Nobody = nobody
    MaxEvents = 1
    MaxOutputs = 2
    MaxMessages = 1
    MaxTroubles = 2
PROPERTIES RetryIsTaken
CHECK_DEADLOCK FALSE
