SPECIFICATION Spec
CONSTANTS
  Plain = {p}
  Dedup = {d}
  Clients = {c1}
  Collectors = {ticker}
  None = None
  Never = Never
  MaxTime = 1
  MaxRequests = 2
  MaxFaults = 0
PROPERTY GCDeletesOnlyExpired
CHECK_DEADLOCK FALSE
