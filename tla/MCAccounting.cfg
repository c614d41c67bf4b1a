\* Two users, two objects, of which one is in a dedup bucket, two handlers at
\* once; three requests, one of the administrator, and one failure or crash. The
\* free quota holds one large upload.
CONSTANTS
  u1 = u1  u2 = u2
  o1 = o1  o2 = o2
  c1 = c1  c2 = c2
  Users = {u1, u2}
  Objects = {o1, o2}
  Deduped = {o2}
  Clients = {c1, c2}
  Anyone = Anyone
  None = None
  Sizes = {1, 2}
  MaxSize = 2
  FreeQuota = 2
  Quotas = {1, 3}
  MaxRequests = 3
  MaxAdmin = 1
  MaxFailures = 1
SPECIFICATION Spec
SYMMETRY Symmetric
INVARIANTS
  UsageExact
  QuotaOverrun
  IndexComplete
CHECK_DEADLOCK FALSE
