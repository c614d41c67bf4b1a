\* Every configuration of the optional parts; one handler; two calls or cycles at once.
CONSTANTS
  h1 = h1
  Handlers = {h1}
  MaxWork = 2
SPECIFICATION Spec
INVARIANTS
  StoresOutliveServers
  PartialOnlyIfLate
  CompleteWhenServing
PROPERTY
  SignalStops
CHECK_DEADLOCK FALSE
