\* Two keys, two IDs that may collide, three goroutines.
CONSTANTS
  k1 = k1  k2 = k2
  id1 = id1  id2 = id2
  p1 = p1  p2 = p2  p3 = p3
  Keys = {k1, k2}
  Ids = {id1, id2}
  Procs = {p1, p2, p3}
  NoRec = NoRec
  None = None
SPECIFICATION Spec
SYMMETRY Symmetric
INVARIANTS
  TypeOK
  RevokedStays
  DeletedStays
  IndexesAgree
  WorksUntilRevoked
