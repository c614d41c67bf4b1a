\* Two users; two ordinary types and a generation type (3); up to three events for a
\* buffer of two, of which a restart fills one; two restarts or failed writes.
CONSTANTS
  u1 = u1  u2 = u2
  UserIDs = {u1, u2}
  Types = {1, 2, 3}
  Generation = {3}
  Capacity = 2
  WarmupLimit = 1
  TTL = 1
  MaxEvents = 3
  MaxTime = 2
  MaxFaults = 2
SPECIFICATION MeteringSpec
SYMMETRY Symmetric
INVARIANTS
  OnDiskUnless
  SummaryBounds
CHECK_DEADLOCK FALSE
