---------------------------- MODULE MCReplicator ----------------------------
EXTENDS Replicator
CONSTANTS a, b, x, y
\* b is a static peer of a and knows no peer itself.
OneWay == [n \in {a, b} |-> IF n = a THEN {b} ELSE {}]
=============================================================================
