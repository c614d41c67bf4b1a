SPECIFICATION Spec
CONSTANTS
  Keys = {k1, k2, k3}
  Hashes = {h1, h2, h3}
  NoRef = NoRef
  NoBlob = NoBlob
  ReadError = ReadError
  MaxFaults = 2
SYMMETRY Symmetry
INVARIANTS
  TypeOK
  RefCountExact
  NoPartialBlob
  LossBounded
  SpaceAccounted
PROPERTIES
  UnlinkOnlyLast
  ImplementsMap
