SPECIFICATION Spec
CONSTANTS
  Plain = {p}
  Dedup = {d}
  Clients = {c1, c2}
  Collectors = {ticker, api}
  None = None
  Never = Never
  MaxTime = 1
  MaxRequests = 3
  MaxFaults = 1
INVARIANTS
  SettledAgree
  DeletionsCounted
PROPERTIES
  GCSparesSettled
  ExpiredFileCollected
CHECK_DEADLOCK FALSE
