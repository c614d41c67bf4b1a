---------------------------- MODULE MCAccounting ----------------------------
EXTENDS Accounting, TLC
CONSTANTS u1, u2, o1, o2, c1, c2
Symmetric == Permutations(Users) \cup Permutations(Clients)
=============================================================================
