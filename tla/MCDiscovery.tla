---------------------------- MODULE MCDiscovery -----------------------------
EXTENDS Discovery
CONSTANTS n1, n2, a1, a2, h
MCHostOf == [a \in Addresses |-> h]
=============================================================================
