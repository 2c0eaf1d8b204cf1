\* Two pairs of threads; one pointer with conditional locking that starts private or
\* published, one that is always locked, both in the same bucket.
CONSTANTS
  t1 = t1 t2 = t2 t3 = t3 p1 = p1 p2 = p2 v1 = v1 v2 = v2
  None = None
  Bucket <- OneBucket
  Owner <- CondOwner
  Thread = {t1, t2, t3, t4}
  Ptr = {p1, p2}
  Cond = {p1}
  Use <- TwoPairs
  Val = {v1, v2}
  FirstOwn <- TwoOfOne
  FirstVal <- AllOne
  Ops <- Work
  MaxOps = 1
SPECIFICATION LiveSpec
INVARIANTS
  LockedIffHeld
  SleeperRemembered
PROPERTIES
  ImplementsPointerLock
  OperationReturns
CHECK_DEADLOCK FALSE
