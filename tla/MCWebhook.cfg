SPECIFICATION Spec
CONSTANTS
  e1 = e1
  e2 = e2
  e3 = e3
  t1 = t1
  t2 = t2
  Events = {e1, e2, e3}
  Targets <- MCTargets
  Wants <- MCWants
  BadURL = {t2}
  Workers = {w1, w2}
  Capacity = 1
  MaxAttempts = 2
  None = None
INVARIANTS
  JobConserved
  AttemptsCounted
PROPERTIES
  JobResolved
  StopReturns
CHECK_DEADLOCK FALSE
