\* Two nodes, two addresses of one host, one of them configured;
\* peers are stale after two scans; three changes of address.
CONSTANTS
  n1 = n1  n2 = n2
  a1 = a1  a2 = a2  h = h
  Nil = Nil
  Others = {n1, n2}
  Addresses = {a1, a2}
  HostOf <- MCHostOf
  Static = {a1}
  StaleScans = 2
  MaxMoves = 3
SPECIFICATION DiscoverySpec
INVARIANTS
  ConfusedOnlyIfTaken
PROPERTIES
  Converges
  KeptInSync
CHECK_DEADLOCK FALSE
