--------------------------- MODULE MCDedupStore ---------------------------
(* DedupStore for TLC: keys and hashes are interchangeable model values.   *)
EXTENDS DedupStore, TLC

Symmetry == Permutations(Keys) \cup Permutations(Hashes)
=============================================================================
