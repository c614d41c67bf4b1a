----------------------------- MODULE MCMetering -----------------------------
EXTENDS Metering, TLC
CONSTANTS u1, u2
Symmetric == Permutations(UserIDs)
=============================================================================
