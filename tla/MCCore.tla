------------------------------- MODULE MCCore -------------------------------
(***************************************************************************)
(* The core library on small instances: either threads that allocate and   *)
(* are started and ended, or one of the users of the containers.  The      *)
(* other of the two does nothing.                                          *)
(***************************************************************************)
EXTENDS MemoryManager

VARIABLES user, tree, table, value, timed, answer, model, expected
stored == <<user, tree, table, value, timed, answer, model, expected>>

-----------------------------------------------------------------------------
\* Two threads may wait for t1, one for t2.
MCUsers(t) == IF t = "t1" THEN {"m", "t2"} ELSE {"m"}

\* A program that uses its lists much, one that has two threads, one with small
\* blocks.
MCPrograms ==
  {[options |-> {"thread"}, sizes |-> {1000, 500}, spawn |-> {"t1"}, max |-> 3],
   [options |-> {"bound"}, sizes |-> {}, spawn |-> {"t1", "t2"}, max |-> 2],
   [options |-> {"bound"}, sizes |-> {1000}, spawn |-> {"t1"}, max |-> 3],
   [options |-> {}, sizes |-> {100, 150}, spawn |-> {"t1"}, max |-> 3]}

\* Five of the keys share two buckets, of four and of eight.
MCHash(k) == IF k % 3 = 0 THEN k ELSE 8 * (k % 3) + 1

C == INSTANCE ApplicationCache WITH
       TreeKeys <- 1..12, TableKeys <- 1..8, Keys <- 1..3, Values <- {"v"}, Times <- {1, 2, 4},
       max_items <- 1, hash <- MCHash

-----------------------------------------------------------------------------
ThreadsRun == user = "threads"
NoContainers ==
  /\ user = "threads"
  /\ tree = C!T!Empty /\ table = C!H!Fresh
  /\ value = C!NoEntries /\ timed = C!NoEntries /\ answer = 0
  /\ model = C!NoEntries /\ expected = 0
NoThreads == Init /\ program = CHOOSE p \in Programs : TRUE

CoreInit == (Init /\ NoContainers) \/ (C!Init /\ NoThreads)
CoreNext == \/ ThreadsRun /\ Next /\ UNCHANGED stored
            \/ C!Next /\ UNCHANGED vars
CoreSpec ==
  /\ CoreInit /\ [][CoreNext]_<<vars, stored>>
  /\ \A t \in Threads : WF_vars(ThreadsRun /\ GoesOn(t)) /\ WF_vars(ThreadsRun /\ Finish(t))

\* The containers, and the cache that is built of them, are exact.
TreeExact == C!TreeExact
TableExact == C!TableExact
CacheExact == C!CacheExact
=============================================================================
