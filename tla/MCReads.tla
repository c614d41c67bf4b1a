------------------------------ MODULE MCReads -------------------------------
EXTENDS Reads
CONSTANTS dir
MCDir == [k \in Keys |-> IF k \in {2, 3} THEN dir ELSE None]
MCScope == [list |-> [keys |-> Keys, sizes |-> {1}, time |-> 1, ops |-> 3],
            get |-> [keys |-> {1, 2}, sizes |-> {0, 3}, time |-> 2, ops |-> 2],
            url |-> [keys |-> {1, 2}, sizes |-> {1}, time |-> 6, ops |-> 2]]
MCLifetimes == {-9, 0, 1, 3, 9, 17}
MCHeaders == {[first |-> 0, last |-> 0], [first |-> 1, last |-> 1], [first |-> 1, last |-> 9],
              [first |-> 3, last |-> Absent], [first |-> 2, last |-> 1],
              [first |-> Absent, last |-> 0], [first |-> Absent, last |-> 2],
              [first |-> Absent, last |-> Absent], [first |-> 0, last |-> 10], Malformed}
=============================================================================
