SPECIFICATION CoreSpec
CONSTANTS
  Main = "m"
  Spawned = {"t1", "t2"}
  ThreadSize = 700
  Users <- MCUsers
  Programs <- MCPrograms
INVARIANTS BlocksExact ThreadsReleased TreeExact TableExact CacheExact
PROPERTIES WaitEnds
\* A program may stop asking.
CHECK_DEADLOCK FALSE
