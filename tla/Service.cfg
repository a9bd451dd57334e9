SPECIFICATION FairSpec
CONSTANTS
    Tasks = {t1, t2}
    Texts = {a, b}
    First = a
    MaxRunning = 1
    MaxControls = 1
    Changing = {t1}
    MaxChanges = 2
    MaxTroubles = 1
INVARIANT OnePatch
PROPERTIES EveryTaskServed FinalShown
CHECK_DEADLOCK FALSE
