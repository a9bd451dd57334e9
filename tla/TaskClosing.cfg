SPECIFICATION Spec
CONSTANTS
    p1 = p1
    p2 = p2
    Participants = {p1,p2}
    Origins = {"default","legacy"}
    MaxTroubles = 1
    MaxArrivals = 1
SYMMETRY Either
INVARIANTS EndIsTrue
PROPERTIES GroupLast
