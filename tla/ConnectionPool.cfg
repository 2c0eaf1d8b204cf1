SPECIFICATION FairSpec
CONSTANTS
  Client = {c1, c2, c3}
  Conn = {n1, n2, n3, n4, n5}
  None = None
  InitConns = 2
  Limits = {1, 2}
  MayExpire = TRUE
  OpenFails = TRUE
  MaxGets = 4
  MaxFaults = 1
INVARIANTS ExclusiveUse CountExact NoStrandedWaiter
PROPERTIES GetReturns
