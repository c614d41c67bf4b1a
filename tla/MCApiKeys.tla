------------------------------ MODULE MCApiKeys ------------------------------
EXTENDS ApiKeys, TLC
CONSTANTS k1, k2, id1, id2, p1, p2, p3
Symmetric == Permutations(Keys) \cup Permutations(Ids) \cup Permutations(Procs)
=============================================================================
