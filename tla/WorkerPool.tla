----------------------------- MODULE WorkerPool -----------------------------
(***************************************************************************)
(* The worker thread pool of drt's app library: WorkerPoolManager (the     *)
(* shared state and the calls of its clients) and WorkerPoolThread (the    *)
(* worker's checkNextWork / runWork / addResult loop).                     *)
(*                                                                         *)
(* Every access to the manager's lists happens under access_lock, so a     *)
(* locked region is one step.  What a worker does without the lock (its    *)
(* message checks and its timed wait) is a step of its own, which is where *)
(* the races of the protocol are.  The message queue of a worker is the    *)
(* FIFO that module Mailbox specifies; the timed wait may also time out    *)
(* with a message queued, which is what Thread's queue can do (ThreadMsg). *)
(***************************************************************************)
EXTENDS Integers, Sequences, FiniteSets, Functions

CONSTANTS
  Work,        \* the work objects clients submit, each one once
  Throwing,    \* the works whose runWork() throws
  Workers,     \* identities of WorkerPoolThread objects
  Clients,     \* threads that call the manager
  Collectors,  \* the clients that call waitWorkResult()
  MaxChoices,  \* the values given to setMaxWorkers()
  NullWork     \* the NULL work of the message destroy() sends

ASSUME PoolAssumption ==
  /\ Throwing \subseteq Work
  /\ Collectors \subseteq Clients
  /\ MaxChoices \subseteq Nat \ {0}
  /\ 1 \in MaxChoices               \* the constructor's max_workers
  /\ NullWork \notin Work
  /\ IsFiniteSet(Workers)

VARIABLES
  max_workers, is_waiting, exit_workers, free_workers, all_workers,
  pending_work, result_msg,
  inbox,      \* messages queued for each worker thread
  pc,         \* where each worker is in its run() loop
  cur,        \* the message content a worker holds in wmsg
  cpc,        \* where each client is: outside, or in a wait of access_lock
  added,      \* works passed to addWork() so far
  delivered,  \* works handed back to a client
  limit       \* history: max_workers as the last addWork() found it

managerVars == <<max_workers, is_waiting, exit_workers, free_workers,
                 all_workers, pending_work, result_msg>>
workerVars  == <<inbox, pc, cur>>
clientVars  == <<cpc, added, delivered, limit>>
vars == <<managerVars, workerVars, clientVars>>

-----------------------------------------------------------------------------

Running == {"check", "locked", "wait", "timedout", "quit", "run"}

\* "none": no thread; "exited": run() returned, not yet joined;
\* "thrown": run() was left by an exception, nobody told the manager.
WorkerPC == {"none", "exited", "thrown"} \cup Running

ClientPC == {"idle", "wait", "woken", "dwait", "dwoken", "gone"}

Init ==
  /\ max_workers = 1
  /\ is_waiting = FALSE
  /\ exit_workers = <<>>
  /\ free_workers = {}
  /\ all_workers = {}
  /\ pending_work = <<>>
  /\ result_msg = <<>>
  /\ inbox = [w \in Workers |-> <<>>]
  /\ pc = [w \in Workers |-> "none"]
  /\ cur = [w \in Workers |-> NullWork]
  /\ cpc = [c \in Clients |-> "idle"]
  /\ added = {}
  /\ delivered = {}
  /\ limit = 1

\* Nobody has dropped the last reference: the methods may still be called.
Open == \A c \in Clients : cpc[c] \in {"idle", "wait", "woken"}

-----------------------------------------------------------------------------
(* access_lock->signal() wakes one of the threads in access_lock->wait(),   *)
(* and does nothing when there is none.                                     *)

Woken(p) == IF p = "wait" THEN "woken" ELSE "dwoken"

Sleepers == {c \in Clients : cpc[c] \in {"wait", "dwait"}}

Signal ==
  \/ Sleepers = {} /\ UNCHANGED cpc
  \/ \E c \in Sleepers : cpc' = [cpc EXCEPT ![c] = Woken(cpc[c])]

SignalIfWaiting == IF is_waiting THEN Signal ELSE UNCHANGED cpc

\* exit_workers.removeFirst()->wait() for every exited worker: a worker in the
\* list has nothing left to do that needs the lock, so the join returns.
Joined(f) == [w \in Workers |->
                IF w \in Range(exit_workers) THEN "none" ELSE f[w]]

-----------------------------------------------------------------------------
(* Calls of the clients.                                                    *)

\* setMaxWorkers() writes the limit without taking the lock.
SetMaxWorkers(c) ==
  /\ Open /\ cpc[c] = "idle"
  /\ max_workers' \in MaxChoices
  /\ UNCHANGED <<is_waiting, exit_workers, free_workers, all_workers,
                 pending_work, result_msg, workerVars, clientVars>>

\* How many workers the loop of addWork() creates with n works pending.
Needed(n) ==
  LET lack == n - Cardinality(free_workers)
      room == max_workers - Cardinality(all_workers)
  IN  IF lack <= 0 \/ room <= 0 THEN 0
      ELSE IF lack < room THEN lack ELSE room

Fresh == {w \in Workers : pc[w] = "none"}

\* removeFirst() of pending_work, sent to one of the free workers: whichever
\* comes first in the hash table of pointers.
Dispatch(free, pend) ==
  \/ /\ free = {}
     /\ free_workers' = free
     /\ pending_work' = pend
     /\ UNCHANGED inbox
  \/ \E w \in free :
     /\ free_workers' = free \ {w}
     /\ pending_work' = Tail(pend)
     /\ inbox' = [inbox EXCEPT ![w] = Append(@, Head(pend))]

AddWork(c, k) ==
  /\ Open /\ cpc[c] = "idle"
  /\ k \in Work \ added
  /\ added' = added \cup {k}
  /\ limit' = max_workers
  /\ \E new \in SUBSET Fresh :
       LET pend == Append(pending_work, k) IN
       /\ Cardinality(new) = Needed(Len(pend))
       /\ all_workers' = all_workers \cup new
       /\ Dispatch(free_workers \cup new, pend)
       /\ exit_workers' = IF new = {} THEN exit_workers ELSE <<>>
       /\ pc' = IF new = {} THEN pc
                ELSE [w \in Workers |-> IF w \in new THEN "check"
                                        ELSE Joined(pc)[w]]
  /\ UNCHANGED <<max_workers, is_waiting, result_msg, cur, cpc, delivered>>

\* The result removed by checkWorkResult() and waitWorkResult().
TakeResult ==
  /\ result_msg # <<>>
  /\ result_msg' = Tail(result_msg)
  /\ delivered' = delivered \cup {Head(result_msg)}

CheckWorkResult(c) ==
  /\ Open /\ cpc[c] = "idle"
  /\ \/ TakeResult
     \/ result_msg = <<>> /\ UNCHANGED <<result_msg, delivered>>
  /\ UNCHANGED <<max_workers, is_waiting, exit_workers, free_workers,
                 all_workers, pending_work, workerVars, cpc, added, limit>>

\* Variant: busy workers are not counted.
NothingPending == pending_work = <<>>

\* The test on which waitWorkResult() gives up and returns NULL.
NothingUnderWay ==
  /\ pending_work = <<>>
  /\ Cardinality(free_workers) = Cardinality(all_workers)

\* The client is at the head of the loop of waitWorkResult(), holding the
\* lock: it has just called, or its access_lock->wait() has returned.
AtLoopHead(c) ==
  \/ Open /\ cpc[c] = "idle" /\ c \in Collectors
  \/ cpc[c] = "woken"

\* There the call returns NULL: no result to take and nothing to wait for.
GivesUp(c) == AtLoopHead(c) /\ result_msg = <<>> /\ NothingUnderWay

\* is_waiting as the loop head finds it: the wait that returned cleared it.
WaitingAtHead(c) == is_waiting /\ cpc[c] # "woken"

WaitReturnsWork(c) ==
  /\ AtLoopHead(c)
  /\ TakeResult
  /\ is_waiting' = WaitingAtHead(c)
  /\ cpc' = [cpc EXCEPT ![c] = "idle"]
  /\ UNCHANGED <<max_workers, exit_workers, free_workers, all_workers,
                 pending_work, workerVars, added, limit>>

WaitReturnsNull(c) ==
  /\ GivesUp(c)
  /\ is_waiting' = WaitingAtHead(c)
  /\ cpc' = [cpc EXCEPT ![c] = "idle"]
  /\ UNCHANGED <<max_workers, exit_workers, free_workers, all_workers,
                 pending_work, result_msg, workerVars, added, delivered, limit>>

\* Variant: goes to sleep without telling the workers.
WaitSleepsUnannounced(c) ==
  /\ AtLoopHead(c)
  /\ result_msg = <<>>
  /\ ~NothingUnderWay
  /\ is_waiting' = WaitingAtHead(c)
  /\ cpc' = [cpc EXCEPT ![c] = "wait"]
  /\ UNCHANGED <<max_workers, exit_workers, free_workers, all_workers,
                 pending_work, result_msg, workerVars, added, delivered, limit>>

WaitSleeps(c) ==
  /\ AtLoopHead(c)
  /\ result_msg = <<>>
  /\ ~NothingUnderWay
  /\ is_waiting' = TRUE
  /\ cpc' = [cpc EXCEPT ![c] = "wait"]
  /\ UNCHANGED <<max_workers, exit_workers, free_workers, all_workers,
                 pending_work, result_msg, workerVars, added, delivered, limit>>

WaitWorkResult(c) ==
  WaitReturnsWork(c) \/ WaitReturnsNull(c) \/ WaitSleeps(c)

\* A condition wait may return without a signal.
SpuriousWakeup(c) ==
  /\ c \in Sleepers
  /\ cpc' = [cpc EXCEPT ![c] = Woken(@)]
  /\ UNCHANGED <<managerVars, workerVars, added, delivered, limit>>

\* The end of destroy(): wait for the last worker, then join the exited ones.
DestroyLoop(c) ==
  IF all_workers = {}
  THEN /\ cpc' = [cpc EXCEPT ![c] = "gone"]
       /\ exit_workers' = <<>>
       /\ pc' = Joined(pc)
  ELSE /\ cpc' = [cpc EXCEPT ![c] = "dwait"]
       /\ UNCHANGED <<exit_workers, pc>>

\* destroy() runs when the last reference goes, so nobody is in a call.
Destroy(c) ==
  /\ \A d \in Clients : cpc[d] = "idle"
  /\ max_workers' = -1
  /\ is_waiting' = TRUE
  /\ inbox' = [w \in Workers |-> IF w \in free_workers
                                 THEN Append(inbox[w], NullWork)
                                 ELSE inbox[w]]
  /\ DestroyLoop(c)
  /\ UNCHANGED <<free_workers, all_workers, pending_work, result_msg, cur,
                 added, delivered, limit>>

\* Variant: "if" instead of "while" around the wait of destroy().
DestroyWakesOnce(c) ==
  /\ cpc[c] = "dwoken"
  /\ cpc' = [cpc EXCEPT ![c] = "gone"]
  /\ exit_workers' = <<>>
  /\ pc' = Joined(pc)
  /\ UNCHANGED <<max_workers, is_waiting, free_workers, all_workers,
                 pending_work, result_msg, inbox, cur, added, delivered, limit>>

DestroyWakes(c) ==
  /\ cpc[c] = "dwoken"
  /\ DestroyLoop(c)
  /\ UNCHANGED <<max_workers, is_waiting, free_workers, all_workers,
                 pending_work, result_msg, inbox, cur, added, delivered, limit>>

-----------------------------------------------------------------------------
(* The worker thread.                                                       *)

\* Variant: the waiting manager is not told of the exit.
WorkerExitingSilent(w) ==
  /\ free_workers' = free_workers \ {w}
  /\ all_workers' = all_workers \ {w}
  /\ exit_workers' = Append(exit_workers, w)
  /\ UNCHANGED cpc
  /\ pc' = [pc EXCEPT ![w] = "exited"]

\* workerExiting(), with the lock held, followed by the return from run().
WorkerExiting(w) ==
  /\ free_workers' = free_workers \ {w}
  /\ all_workers' = all_workers \ {w}
  /\ exit_workers' = Append(exit_workers, w)
  /\ SignalIfWaiting
  /\ pc' = [pc EXCEPT ![w] = "exited"]

\* Leaves checkNextWork() through "out" with message m: a work is run, the
\* NULL of destroy() makes the worker quit.
Out(w, m) ==
  /\ cur' = [cur EXCEPT ![w] = m]
  /\ pc' = [pc EXCEPT ![w] = IF m = NullWork THEN "quit" ELSE "run"]

TakeMessage(w) ==
  /\ inbox[w] # <<>>
  /\ inbox' = [inbox EXCEPT ![w] = Tail(@)]
  /\ Out(w, Head(inbox[w]))

\* waitAnyMessageTimeout(0) before the lock is taken.
CheckMessage(w) ==
  /\ pc[w] = "check"
  /\ \/ TakeMessage(w)
     \/ /\ inbox[w] = <<>>
        /\ pc' = [pc EXCEPT ![w] = "locked"]
        /\ UNCHANGED <<inbox, cur>>
  /\ UNCHANGED <<managerVars, clientVars>>

\* The first locked region of checkNextWork(): message, shutdown, pending work
\* or registration as a free worker, in this order.
LockedMessage(w) ==
  /\ pc[w] = "locked"
  /\ TakeMessage(w)
  /\ UNCHANGED <<managerVars, clientVars>>

LockedExit(w) ==
  /\ pc[w] = "locked" /\ inbox[w] = <<>>
  /\ max_workers < 0
  /\ WorkerExiting(w)
  /\ UNCHANGED <<max_workers, is_waiting, pending_work, result_msg, inbox,
                 cur, added, delivered, limit>>

\* Variant: the pending work is taken but left in the list.
LockedPendingPeek(w) ==
  /\ pc[w] = "locked" /\ inbox[w] = <<>>
  /\ max_workers >= 0
  /\ pending_work # <<>>
  /\ free_workers' = free_workers \ {w}
  /\ Out(w, Head(pending_work))
  /\ UNCHANGED <<max_workers, is_waiting, exit_workers, all_workers,
                 pending_work, result_msg, inbox, clientVars>>

LockedPending(w) ==
  /\ pc[w] = "locked" /\ inbox[w] = <<>>
  /\ max_workers >= 0
  /\ pending_work # <<>>
  /\ pending_work' = Tail(pending_work)
  /\ free_workers' = free_workers \ {w}
  /\ Out(w, Head(pending_work))
  /\ UNCHANGED <<max_workers, is_waiting, exit_workers, all_workers,
                 result_msg, inbox, clientVars>>

\* Variant: registers as free without a look at the pending work.
LockedRegisterBlind(w) ==
  /\ pc[w] = "locked" /\ inbox[w] = <<>>
  /\ max_workers >= 0
  /\ free_workers' = free_workers \cup {w}
  /\ pc' = [pc EXCEPT ![w] = "wait"]
  /\ UNCHANGED <<max_workers, is_waiting, exit_workers, all_workers,
                 pending_work, result_msg, inbox, cur, clientVars>>

LockedRegister(w) ==
  /\ pc[w] = "locked" /\ inbox[w] = <<>>
  /\ max_workers >= 0
  /\ pending_work = <<>>
  /\ free_workers' = free_workers \cup {w}
  /\ pc' = [pc EXCEPT ![w] = "wait"]
  /\ UNCHANGED <<max_workers, is_waiting, exit_workers, all_workers,
                 pending_work, result_msg, inbox, cur, clientVars>>

\* waitAnyMessageTimeout(worker_timeout_ns), without the lock.
WaitMessage(w) ==
  /\ pc[w] = "wait"
  /\ TakeMessage(w)
  /\ UNCHANGED <<managerVars, clientVars>>

WaitTimeout(w) ==
  /\ pc[w] = "wait"
  /\ pc' = [pc EXCEPT ![w] = "timedout"]
  /\ UNCHANGED <<managerVars, inbox, cur, clientVars>>

\* The second locked region: a last look at the messages, or exit.
TimedOutMessage(w) ==
  /\ pc[w] = "timedout"
  /\ TakeMessage(w)
  /\ UNCHANGED <<managerVars, clientVars>>

\* Variant: exits on the time-out without the last look under the lock.
TimedOutExitBlind(w) ==
  /\ pc[w] = "timedout"
  /\ WorkerExiting(w)
  /\ UNCHANGED <<max_workers, is_waiting, pending_work, result_msg, inbox,
                 cur, added, delivered, limit>>

TimedOutExit(w) ==
  /\ pc[w] = "timedout" /\ inbox[w] = <<>>
  /\ WorkerExiting(w)
  /\ UNCHANGED <<max_workers, is_waiting, pending_work, result_msg, inbox,
                 cur, added, delivered, limit>>

\* The NULL message of destroy(): workerExiting() takes the lock again.
Quit(w) ==
  /\ pc[w] = "quit"
  /\ WorkerExiting(w)
  /\ UNCHANGED <<max_workers, is_waiting, pending_work, result_msg, inbox,
                 cur, added, delivered, limit>>

\* runWork() returned: addResult() of the manager.
AddResult(w) ==
  /\ pc[w] = "run" /\ cur[w] \notin Throwing
  /\ result_msg' = Append(result_msg, cur[w])
  /\ SignalIfWaiting
  /\ free_workers' = free_workers \cup {w}
  /\ cur' = [cur EXCEPT ![w] = NullWork]
  /\ pc' = [pc EXCEPT ![w] = "check"]
  /\ UNCHANGED <<max_workers, is_waiting, exit_workers, all_workers,
                 pending_work, inbox, added, delivered, limit>>

\* runWork() threw: main_func() of the thread catches it and the thread ends,
\* still registered in all_workers and with its message never given back.
RunThrows(w) ==
  /\ pc[w] = "run" /\ cur[w] \in Throwing
  /\ pc' = [pc EXCEPT ![w] = "thrown"]
  /\ UNCHANGED <<managerVars, inbox, cur, clientVars>>

WorkerStep(w) ==
  \/ CheckMessage(w)
  \/ LockedMessage(w) \/ LockedExit(w) \/ LockedPending(w)
  \/ LockedRegister(w)
  \/ WaitMessage(w) \/ WaitTimeout(w)
  \/ TimedOutMessage(w) \/ TimedOutExit(w)
  \/ Quit(w)
  \/ AddResult(w) \/ RunThrows(w)

\* The manager is gone and the pool is over.
Finished == (\E c \in Clients : cpc[c] = "gone") /\ UNCHANGED vars

Next ==
  \/ \E c \in Clients :
       \/ SetMaxWorkers(c)
       \/ \E k \in Work : AddWork(c, k)
       \/ CheckWorkResult(c)
       \/ WaitWorkResult(c)
       \/ SpuriousWakeup(c)
       \/ Destroy(c)
       \/ DestroyWakes(c)
  \/ \E w \in Workers : WorkerStep(w)
  \/ Finished

\* Threads that are in a step take it: a worker always goes on, and so does a
\* client whose condition wait has returned.  Nothing makes a client call.
Fairness ==
  /\ \A w \in Workers : WF_vars(WorkerStep(w))
  /\ \A c \in Clients : /\ WF_vars(cpc[c] = "woken" /\ WaitWorkResult(c))
                        /\ WF_vars(DestroyWakes(c))

Spec == Init /\ [][Next]_vars
LiveSpec == Spec /\ Fairness

-----------------------------------------------------------------------------
(* Properties.                                                              *)

Message == Work \cup {NullWork}

\* Every variable holds a value of the type its C++ declaration gives it.
TypeOK ==
  /\ max_workers \in MaxChoices \cup {-1}
  /\ is_waiting \in BOOLEAN
  /\ exit_workers \in Seq(Workers)
  /\ free_workers \in SUBSET Workers
  /\ all_workers \in SUBSET Workers
  /\ pending_work \in Seq(Work)
  /\ result_msg \in Seq(Work)
  /\ inbox \in [Workers -> Seq(Message)]
  /\ pc \in [Workers -> WorkerPC]
  /\ cur \in [Workers -> Message]
  /\ cpc \in [Clients -> ClientPC]
  /\ added \in SUBSET Work
  /\ delivered \in SUBSET Work
  /\ limit \in MaxChoices

\* The works a worker has been sent or is running.
Carried(w) == (Range(inbox[w]) \cup {cur[w]}) \ {NullWork}

\* A work handed to addWork() is at every moment in exactly one place: pending,
\* in the queue or in the hands of one worker, among the results, or back with
\* a client.  No race of dispatch, time-out, worker exit and shutdown loses one
\* or runs one twice.
WorkExactlyOnce ==
  /\ added = Range(pending_work) \cup Range(result_msg) \cup delivered
               \cup {k \in Work : \E w \in Workers : k \in Carried(w)}
  /\ IsInjective(pending_work)
  /\ IsInjective(result_msg)
  /\ Range(pending_work) \cap Range(result_msg) = {}
  /\ delivered \cap (Range(pending_work) \cup Range(result_msg)) = {}
  /\ \A w \in Workers :
       /\ Len(inbox[w]) <= 1
       /\ cur[w] # NullWork => cur[w] \notin Range(inbox[w])
       /\ Carried(w) \cap (delivered \cup Range(pending_work)
                             \cup Range(result_msg)) = {}
       /\ \A v \in Workers \ {w} : Carried(v) \cap Carried(w) = {}

\* The bookkeeping matches the threads.  A thread that can still come to
\* workerExiting() is in all_workers, so the DR_AssertInvalid() there is never
\* reached; a worker listed as free will look at its queue again before it
\* exits, holds no work and, while the pool is open, has an empty queue; only
\* exited threads wait to be joined; a message is never left with a thread that
\* has stopped reading its queue.
BookkeepingSound ==
  /\ free_workers \subseteq all_workers
  /\ \A w \in Workers :
       /\ w \in all_workers <=> pc[w] \in Running \cup {"thrown"}
       /\ w \in free_workers =>
            /\ pc[w] \in Running \ {"run"}
            /\ cur[w] = NullWork
            /\ max_workers >= 0 => inbox[w] = <<>> /\ pc[w] # "quit"
       /\ w \in Range(exit_workers) <=> pc[w] = "exited"
       /\ inbox[w] # <<>> =>
            pc[w] \in {"check", "locked", "wait", "timedout"}

\* The registered workers that an exception has ended: they stay registered.
Dead == {w \in all_workers : pc[w] = "thrown"}

\* Work never waits beside a worker that has settled down to wait: while
\* something is pending, every registered worker that has nothing to run is
\* still on its way to the locked check that finds it.  There is such a worker
\* alive, unless thrown works have ended as many threads as the last addWork()
\* was allowed to have.
PendingIsServed ==
  (pending_work # <<>> /\ max_workers >= 0) =>
    /\ all_workers \ Dead # {} \/ Cardinality(Dead) >= limit
    /\ \A w \in all_workers :
         pc[w] \in {"wait", "timedout"} => inbox[w] # <<>>

\* waitWorkResult() returns NULL only when every work ever added has been
\* handed back, whether the call slept or found so at once: a loop that
\* collects results until NULL collects them all.
NullOnlyWhenDone == \A c \in Clients : GivesUp(c) => added = delivered

\* Once destroy() is over, no worker thread is left to touch the manager.
NoWorkerOutlivesManager ==
  (\E c \in Clients : cpc[c] = "gone") =>
    /\ exit_workers = <<>>
    /\ \A w \in Workers : pc[w] = "none"

\* A worker that was left by an exception is never heard of again (see "thrown").
Thrown == \E w \in Workers : pc[w] = "thrown"

\* Every added work is eventually among the results, unless the manager is
\* destroyed first or a work threw: workers that time out and exit never strand
\* it.
WorkCompletes ==
  \A k \in Work :
    (k \in added) ~> (k \in Range(result_msg) \cup delivered \/ ~Open \/ Thrown)

\* A call of waitWorkResult() always comes back, unless a work threw.
WaitReturns ==
  \A c \in Clients : (cpc[c] \in {"wait", "woken"}) ~> (cpc[c] = "idle" \/ Thrown)

\* destroy() always comes to its end, unless a work threw.
DestroyReturns ==
  (\E c \in Clients : cpc[c] \in {"dwait", "dwoken"})
    ~> (Thrown \/ \E c \in Clients : cpc[c] = "gone")
=============================================================================
