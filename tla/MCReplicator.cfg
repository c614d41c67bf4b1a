\* One node with two overlapping cycles to its peer, two objects of which an
\* answer holds one, two client operations, one fault.
CONSTANTS
  a = a  b = b
  x = x  y = y
  Nodes = {a, b}
  PeersOf <- OneWay
  Objects = {x, y}
  Overlap = 2
  Limit = 1
  None = None
  MaxTime = 2
  MaxOps = 2
  MaxFaults = 1
SPECIFICATION Spec
INVARIANTS
  MissedOnlyIfLost
PROPERTIES
  OverwritesOnlyLate
  ArrivesUnlessLost
CHECK_DEADLOCK FALSE
