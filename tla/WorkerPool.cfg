\* One collector and one producer, one work whose runWork() throws.
CONSTANTS
  Work = {k1, k2, k3}
  Throwing = {k3}
  Workers = {w1, w2, w3}
  Clients = {c1, c2}
  Collectors = {c1}
  MaxChoices = {1, 2}
  NullWork = NullWork
SPECIFICATION LiveSpec
INVARIANTS
  WorkExactlyOnce
  BookkeepingSound
  PendingIsServed
  NoWorkerOutlivesManager
  NullOnlyWhenDone
PROPERTIES
  WorkCompletes
  WaitReturns
  DestroyReturns
