---------------------------- MODULE MCTaskClosing ----------------------------
EXTENDS TaskClosing, TLC

CONSTANTS p1, p2

Either == Permutations(Participants)
=============================================================================
