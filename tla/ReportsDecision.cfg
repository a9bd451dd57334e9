SPECIFICATION Spec
CONSTANTS
    MaxSheets = 1
    MaxTroubles = 1
PROPERTIES DecisionFreesGroup
CHECK_DEADLOCK FALSE
