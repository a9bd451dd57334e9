SPECIFICATION Spec
CONSTANTS
    p1 = p1
    p2 = p2
    Participants = {p1}
    Origins = {"default"}
    MaxTroubles = 1
    MaxArrivals = 0
\* DecidedIsNotUnknown in its place shows the other disagreement of this module.
PROPERTIES OnlyUnknownHolds
