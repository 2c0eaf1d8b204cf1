-------------------------- MODULE WorkerPoolProofs --------------------------
(***************************************************************************)
(* Proofs about the worker pool, for every set of works, workers, clients  *)
(* and limits.                                                             *)
(***************************************************************************)
EXTENDS WorkerPool, SeqLemmas, FiniteSetTheorems, TLAPS

\* The Boolean structure that the safety properties need to be inductive.
\* The pool is open exactly as long as the limit is not negative; a worker
\* holds a work exactly while it runs it (or was thrown out of it); NULL
\* messages exist only once destroy() has begun; a worker that has settled
\* down with an empty queue is listed as free, and a free worker has been sent
\* nothing but NULL.
Supporting ==
  /\ Open <=> max_workers >= 0
  /\ \A w \in Workers :
       /\ cur[w] # NullWork <=> pc[w] \in {"run", "thrown"}
       /\ max_workers >= 0 =>
            NullWork \notin Range(inbox[w]) /\ pc[w] # "quit"
       /\ pc[w] \in {"wait", "timedout"} /\ inbox[w] = <<>>
            => w \in free_workers
       /\ w \in free_workers => Range(inbox[w]) \subseteq {NullWork}

\* While work is pending, no registered worker that has nothing to run has
\* settled down to wait.
Attended ==
  (pending_work # <<>> /\ max_workers >= 0) =>
    \A w \in all_workers : pc[w] \in {"wait", "timedout"} => inbox[w] # <<>>

\* ... and as many threads are registered as the last addWork() was allowed, or
\* there is a free one for each pending work: none can exit before it is taken.
Staffed ==
  (pending_work # <<>> /\ max_workers >= 0) =>
    \/ Cardinality(all_workers) >= limit
    \/ Len(pending_work) <= Cardinality(free_workers)

IInv ==
  /\ TypeOK
  /\ WorkExactlyOnce
  /\ BookkeepingSound
  /\ Supporting
  /\ Attended
  /\ Staffed
  /\ NoWorkerOutlivesManager

-----------------------------------------------------------------------------

\* Waking a client keeps every client at a known place.
LEMMA SignalType ==
  ASSUME TypeOK, Signal
  PROVE  cpc' \in [Clients -> ClientPC]
BY DEF TypeOK, Signal, Sleepers, Woken, ClientPC

\* So does waking one only if is_waiting is set.
LEMMA SignalIfWaitingType ==
  ASSUME TypeOK, SignalIfWaiting
  PROVE  cpc' \in [Clients -> ClientPC]
BY SignalType DEF TypeOK, SignalIfWaiting

\* workerExiting() keeps the types.
LEMMA ExitingType ==
  ASSUME TypeOK, NEW w \in Workers, WorkerExiting(w),
         UNCHANGED <<max_workers, is_waiting, pending_work, result_msg, inbox,
                     cur, added, delivered, limit>>
  PROVE  TypeOK'
<1>1. cpc' \in [Clients -> ClientPC]
  BY SignalIfWaitingType DEF WorkerExiting
<1>2. exit_workers' \in Seq(Workers)
  BY DEF TypeOK, WorkerExiting
<1> QED BY <1>1, <1>2 DEF TypeOK, WorkerExiting, WorkerPC

\* Taking a message from the worker's queue keeps the types.
LEMMA TakeMessageType ==
  ASSUME TypeOK, NEW w \in Workers, TakeMessage(w),
         UNCHANGED <<managerVars, clientVars>>
  PROVE  TypeOK'
<1>1. inbox[w] \in Seq(Message) /\ inbox[w] # <<>>
  BY DEF TypeOK, TakeMessage
<1>2. Head(inbox[w]) \in Message /\ Tail(inbox[w]) \in Seq(Message)
  BY <1>1, RangeTail
<1> QED BY <1>2 DEF TypeOK, TakeMessage, Out, WorkerPC, Running, managerVars,
                    clientVars

\* removeFirst() of result_msg leaves a list of works and hands one back.
LEMMA TakeResultType ==
  ASSUME TypeOK, TakeResult
  PROVE  result_msg' \in Seq(Work) /\ delivered' \in SUBSET Work
<1>1. result_msg \in Seq(Work) /\ result_msg # <<>> /\ delivered \subseteq Work
  BY DEF TypeOK, TakeResult
<1>2. Head(result_msg) \in Work /\ Tail(result_msg) \in Seq(Work)
  BY <1>1, RangeTail
<1> QED BY <1>1, <1>2 DEF TakeResult

\* Every step keeps every variable within its type.
LEMMA TypeStep ==
  ASSUME TypeOK, Supporting, [Next]_vars
  PROVE  TypeOK'
<1>1. ASSUME NEW c \in Clients, SetMaxWorkers(c) PROVE TypeOK'
  BY <1>1 DEF TypeOK, SetMaxWorkers, workerVars, clientVars
<1>2. ASSUME NEW c \in Clients, NEW k \in Work, AddWork(c, k) PROVE TypeOK'
  <2>1. PICK new \in SUBSET Fresh :
          LET pend == Append(pending_work, k) IN
          /\ all_workers' = all_workers \cup new
          /\ Dispatch(free_workers \cup new, pend)
          /\ exit_workers' = IF new = {} THEN exit_workers ELSE <<>>
          /\ pc' = IF new = {} THEN pc
                   ELSE [w \in Workers |-> IF w \in new THEN "check"
                                           ELSE Joined(pc)[w]]
    BY <1>2 DEF AddWork
  <2> DEFINE pend == Append(pending_work, k)
  <2>2. pend \in Seq(Work) /\ pend # <<>>
    BY AppendType DEF TypeOK
  <2>3. Head(pend) \in Message /\ Tail(pend) \in Seq(Work)
    BY <2>2, RangeTail DEF Message
  <2>4. new \subseteq Workers /\ free_workers \cup new \subseteq Workers
    BY DEF Fresh, TypeOK
  <2>5. pc' \in [Workers -> WorkerPC]
    BY <2>1 DEF TypeOK, WorkerPC, Running, Joined
  <2> HIDE DEF pend
  <2>6. /\ free_workers' \in SUBSET Workers
        /\ pending_work' \in Seq(Work)
        /\ inbox' \in [Workers -> Seq(Message)]
    <3>1. CASE free_workers \cup new = {}
      BY <2>1, <2>2, <3>1 DEF Dispatch, TypeOK, pend
    <3>2. CASE free_workers \cup new # {}
      <4>1. PICK w \in free_workers \cup new :
              /\ free_workers' = (free_workers \cup new) \ {w}
              /\ pending_work' = Tail(pend)
              /\ inbox' = [inbox EXCEPT ![w] = Append(@, Head(pend))]
        BY <2>1, <3>2 DEF Dispatch, pend
      <4>2. Append(inbox[w], Head(pend)) \in Seq(Message)
        BY <2>3, <2>4 DEF TypeOK
      <4> QED BY <4>1, <4>2, <2>3, <2>4 DEF TypeOK
    <3> QED BY <3>1, <3>2
  <2>7. exit_workers' \in Seq(Workers)
    BY <2>1 DEF TypeOK
  <2>8. max_workers \in MaxChoices
    <3>1. Open
      BY <1>2 DEF AddWork
    <3> QED BY <3>1 DEF Supporting, TypeOK
  <2>9. limit' \in MaxChoices /\ added' \in SUBSET Work
    BY <1>2, <2>8 DEF AddWork, TypeOK
  <2>10. UNCHANGED <<max_workers, is_waiting, result_msg, cur, cpc, delivered>>
    BY <1>2 DEF AddWork
  <2> QED BY <2>1, <2>4, <2>5, <2>6, <2>7, <2>9, <2>10 DEF TypeOK
<1>4. ASSUME NEW c \in Clients, CheckWorkResult(c) PROVE TypeOK'
  <2>1. result_msg' \in Seq(Work) /\ delivered' \in SUBSET Work
    BY <1>4, TakeResultType DEF TypeOK, CheckWorkResult
  <2> QED BY <1>4, <2>1 DEF TypeOK, CheckWorkResult, workerVars
<1>5. ASSUME NEW c \in Clients, WaitWorkResult(c) PROVE TypeOK'
  <2>1. result_msg' \in Seq(Work) /\ delivered' \in SUBSET Work
    BY <1>5, TakeResultType DEF TypeOK, WaitWorkResult, WaitReturnsWork,
          WaitReturnsNull, WaitSleeps
  <2>2. is_waiting' \in BOOLEAN
    BY <1>5 DEF TypeOK, WaitWorkResult, WaitReturnsWork, WaitReturnsNull,
                WaitSleeps, WaitingAtHead
  <2>3. cpc' \in [Clients -> ClientPC]
    BY <1>5 DEF TypeOK, WaitWorkResult, WaitReturnsWork, WaitReturnsNull,
                WaitSleeps, ClientPC
  <2> QED BY <1>5, <2>1, <2>2, <2>3 DEF TypeOK, WaitWorkResult,
             WaitReturnsWork, WaitReturnsNull, WaitSleeps, workerVars
<1>6. ASSUME NEW c \in Clients, SpuriousWakeup(c) PROVE TypeOK'
  BY <1>6 DEF TypeOK, SpuriousWakeup, Sleepers, Woken, ClientPC, managerVars,
              workerVars
<1>7. ASSUME NEW c \in Clients, DestroyLoop(c)
      PROVE  /\ cpc' \in [Clients -> ClientPC]
             /\ exit_workers' \in Seq(Workers)
             /\ pc' \in [Workers -> WorkerPC]
  <2>1. Joined(pc) \in [Workers -> WorkerPC]
    BY DEF TypeOK, Joined, WorkerPC
  <2>2. CASE all_workers = {}
    <3>1. /\ cpc' = [cpc EXCEPT ![c] = "gone"] /\ exit_workers' = <<>>
          /\ pc' = Joined(pc)
      BY <1>7, <2>2 DEF DestroyLoop
    <3> QED BY <2>1, <3>1 DEF TypeOK, ClientPC
  <2>3. CASE all_workers # {}
    <3>1. /\ cpc' = [cpc EXCEPT ![c] = "dwait"]
          /\ UNCHANGED <<exit_workers, pc>>
      BY <1>7, <2>3 DEF DestroyLoop
    <3> QED BY <3>1 DEF TypeOK, ClientPC
  <2> QED BY <2>2, <2>3
<1>8. ASSUME NEW c \in Clients, Destroy(c) PROVE TypeOK'
  <2>1. \A w \in Workers : Append(inbox[w], NullWork) \in Seq(Message)
    BY DEF TypeOK, Message
  <2>2. inbox' \in [Workers -> Seq(Message)]
    BY <1>8, <2>1 DEF TypeOK, Destroy
  <2> QED BY <1>7, <1>8, <2>2 DEF TypeOK, Destroy
<1>9. ASSUME NEW c \in Clients, DestroyWakes(c) PROVE TypeOK'
  BY <1>7, <1>9 DEF TypeOK, DestroyWakes
<1>10. ASSUME NEW w \in Workers, WorkerStep(w) PROVE TypeOK'
  <2>1. CASE CheckMessage(w) \/ LockedMessage(w) \/ WaitMessage(w)
               \/ TimedOutMessage(w)
    <3>1. CASE TakeMessage(w) /\ UNCHANGED <<managerVars, clientVars>>
      BY <3>1, TakeMessageType
    <3>2. CASE /\ pc' = [pc EXCEPT ![w] = "locked"]
               /\ UNCHANGED <<inbox, cur>> /\ UNCHANGED <<managerVars, clientVars>>
      BY <3>2 DEF TypeOK, managerVars, clientVars, WorkerPC, Running
    <3> QED BY <2>1, <3>1, <3>2 DEF CheckMessage, LockedMessage, WaitMessage,
               TimedOutMessage
  <2>2. CASE LockedExit(w) \/ TimedOutExit(w) \/ Quit(w)
    BY <2>2, ExitingType DEF LockedExit, TimedOutExit, Quit
  <2>3. CASE LockedPending(w)
    <3>1. Head(pending_work) \in Message /\ Tail(pending_work) \in Seq(Work)
      BY <2>3, RangeTail DEF TypeOK, LockedPending, Message
    <3> QED BY <2>3, <3>1 DEF TypeOK, LockedPending, Out, WorkerPC, Running,
               clientVars
  <2>4. CASE LockedRegister(w) \/ WaitTimeout(w) \/ RunThrows(w)
    BY <2>4 DEF TypeOK, LockedRegister, WaitTimeout, RunThrows, WorkerPC,
                Running, managerVars, clientVars
  <2>5. CASE AddResult(w)
    <3>1. cpc' \in [Clients -> ClientPC]
      BY <2>5, SignalIfWaitingType DEF AddResult
    <3>2. cur[w] \in Work
      BY <2>5 DEF AddResult, Supporting, TypeOK, Message
    <3>3. result_msg' \in Seq(Work)
      BY <2>5, <3>2 DEF TypeOK, AddResult
    <3> QED BY <2>5, <3>1, <3>3 DEF TypeOK, AddResult, WorkerPC, Running,
               Message
  <2> QED BY <1>10, <2>1, <2>2, <2>3, <2>4, <2>5 DEF WorkerStep
<1>11. CASE UNCHANGED vars
  BY <1>11 DEF TypeOK, vars, managerVars, workerVars, clientVars
<1> QED BY <1>1, <1>2, <1>4, <1>5, <1>6, <1>8, <1>9, <1>10, <1>11
        DEF Next, Finished

-----------------------------------------------------------------------------

\* Waking a client changes neither whether the pool is open nor whether the
\* manager is gone.
LEMMA SignalKeeps ==
  ASSUME TypeOK, SignalIfWaiting
  PROVE  (Open' <=> Open)
         /\ ((\E c \in Clients : cpc'[c] = "gone")
               <=> (\E c \in Clients : cpc[c] = "gone"))
<1>1. CASE UNCHANGED cpc
  BY <1>1 DEF Open
<1>2. CASE \E c \in Sleepers : cpc' = [cpc EXCEPT ![c] = Woken(cpc[c])]
  <2>1. PICK c \in Sleepers : cpc' = [cpc EXCEPT ![c] = Woken(cpc[c])]
    BY <1>2
  <2>2. c \in Clients /\ cpc[c] \in {"wait", "dwait"}
    BY DEF Sleepers
  <2>3. /\ cpc'[c] = Woken(cpc[c])
        /\ \A d \in Clients \ {c} : cpc'[d] = cpc[d]
    BY <2>1, <2>2 DEF TypeOK
  <2>4. /\ cpc'[c] # "gone" /\ cpc[c] # "gone"
        /\ cpc'[c] \in {"idle", "wait", "woken"}
             <=> cpc[c] \in {"idle", "wait", "woken"}
    BY <2>2, <2>3 DEF Woken
  <2> QED BY <2>2, <2>3, <2>4 DEF Open
<1> QED BY <1>1, <1>2 DEF SignalIfWaiting, Signal

\* What a worker that takes a message finds and leaves.
LEMMA TakeMessageEffect ==
  ASSUME IInv, NEW w \in Workers, TakeMessage(w),
         UNCHANGED <<managerVars, clientVars>>
  PROVE  /\ w \in Workers /\ inbox'[w] = <<>> /\ cur[w] = NullWork
         /\ pc[w] \in {"check", "locked", "wait", "timedout"}
         /\ Range(inbox[w]) = {cur'[w]} /\ cur'[w] \in Message
         /\ pc'[w] = IF cur'[w] = NullWork THEN "quit" ELSE "run"
         /\ \A v \in Workers \ {w} : /\ inbox'[v] = inbox[v]
                                     /\ cur'[v] = cur[v] /\ pc'[v] = pc[v]
<1>1. inbox[w] \in Seq(Message) /\ inbox[w] # <<>> /\ Len(inbox[w]) <= 1
  BY DEF IInv, TypeOK, WorkExactlyOnce, TakeMessage
<1>2. Tail(inbox[w]) = <<>> /\ Head(inbox[w]) \in Message
      /\ Range(inbox[w]) = {Head(inbox[w])}
  BY <1>1, SingletonQueue
<1>3. pc[w] \in {"check", "locked", "wait", "timedout"} /\ cur[w] = NullWork
  BY <1>1 DEF IInv, BookkeepingSound, Supporting
<1> QED BY <1>2, <1>3 DEF IInv, TypeOK, TakeMessage, Out

\* The lists keep matching the threads when a worker takes a message.
LEMMA TakeMessageBook ==
  ASSUME IInv, NEW w \in Workers, TakeMessage(w),
         UNCHANGED <<managerVars, clientVars>>
  PROVE  BookkeepingSound' /\ Supporting'
<1>1. /\ inbox'[w] = <<>> /\ cur[w] = NullWork
      /\ pc[w] \in {"check", "locked", "wait", "timedout"}
      /\ Range(inbox[w]) = {cur'[w]} /\ cur'[w] \in Message
      /\ pc'[w] = IF cur'[w] = NullWork THEN "quit" ELSE "run"
      /\ \A v \in Workers \ {w} : /\ inbox'[v] = inbox[v]
                                  /\ cur'[v] = cur[v] /\ pc'[v] = pc[v]
  BY TakeMessageEffect
<1>2. /\ UNCHANGED <<max_workers, exit_workers, free_workers, all_workers>>
      /\ Open' <=> Open
  BY DEF managerVars, clientVars, Open
<1>3. inbox[w] # <<>>
  BY DEF TakeMessage
<1>4. BookkeepingSound'
  BY <1>1, <1>2, <1>3 DEF IInv, BookkeepingSound, Supporting, Running
<1>5. Supporting'
  BY <1>1, <1>2, <1>3, EmptyRange DEF IInv, BookkeepingSound, Supporting
<1> QED BY <1>4, <1>5

\* ... and when a worker that was not given anything exits.
LEMMA ExitingBook ==
  ASSUME IInv, NEW w \in Workers, WorkerExiting(w),
         pc[w] \in Running \ {"run"}, inbox[w] = <<>>,
         UNCHANGED <<max_workers, is_waiting, pending_work, result_msg, inbox,
                     cur, added, delivered, limit>>
  PROVE  BookkeepingSound' /\ Supporting'
<1>1. /\ free_workers' = free_workers \ {w} /\ all_workers' = all_workers \ {w}
      /\ pc'[w] = "exited" /\ \A v \in Workers \ {w} : pc'[v] = pc[v]
      /\ Range(exit_workers') = Range(exit_workers) \cup {w}
      /\ UNCHANGED <<max_workers, inbox, cur>>
  BY RangeAppend DEF IInv, TypeOK, WorkerExiting
<1>2. Open' <=> Open
  BY SignalKeeps DEF IInv, WorkerExiting
<1>3. BookkeepingSound'
  BY <1>1 DEF IInv, BookkeepingSound, Running
<1>4. Supporting'
  BY <1>1, <1>2 DEF IInv, Supporting, Running
<1> QED BY <1>3, <1>4

\* ... and when addWork() starts threads and sends the first pending work.
LEMMA AddWorkBook ==
  ASSUME IInv, NEW c \in Clients, NEW k \in Work, AddWork(c, k)
  PROVE  BookkeepingSound' /\ Supporting'
<1> DEFINE pend == Append(pending_work, k)
<1>1. PICK new \in SUBSET Fresh :
        /\ all_workers' = all_workers \cup new
        /\ Dispatch(free_workers \cup new, pend)
        /\ exit_workers' = IF new = {} THEN exit_workers ELSE <<>>
        /\ pc' = IF new = {} THEN pc
                 ELSE [w \in Workers |-> IF w \in new THEN "check"
                                         ELSE Joined(pc)[w]]
  BY DEF AddWork
<1>2. max_workers >= 0 /\ UNCHANGED <<max_workers, cur, cpc>> /\ Open /\ Open'
  BY DEF AddWork, IInv, Supporting, Open
<1>3. pend \in Seq(Work) /\ pend # <<>>
  BY AppendType DEF IInv, TypeOK
<1>4. Head(pend) \in Work /\ Head(pend) # NullWork /\ Head(pend) \in Message
  BY <1>3, RangeTail, PoolAssumption DEF Message
<1> HIDE DEF pend
<1>5. \A w \in new : pc[w] = "none" /\ w \in Workers /\ inbox[w] = <<>>
                    /\ cur[w] = NullWork
  BY DEF Fresh, IInv, BookkeepingSound, Supporting
<1>6. \A w \in Workers :
        pc'[w] = IF w \in new THEN "check"
                 ELSE IF new # {} /\ pc[w] = "exited" THEN "none" ELSE pc[w]
  BY <1>1 DEF IInv, BookkeepingSound, Joined
<1>7. \A w \in Workers : w \in Range(exit_workers') <=> pc'[w] = "exited"
  <2>1. CASE new = {}
    BY <1>1, <1>6, <2>1 DEF IInv, BookkeepingSound
  <2>2. CASE new # {}
    BY <1>1, <1>6, <2>2, EmptyRange
  <2> QED BY <2>1, <2>2
<1>8. CASE free_workers \cup new = {}
  <2>1. /\ new = {} /\ free_workers = {} /\ free_workers' = {}
        /\ UNCHANGED <<inbox, pc, all_workers, exit_workers>>
    BY <1>1, <1>8 DEF Dispatch
  <2>2. BookkeepingSound'
    BY <1>2, <2>1 DEF IInv, BookkeepingSound
  <2>3. Supporting'
    BY <1>2, <2>1 DEF IInv, Supporting
  <2> QED BY <2>2, <2>3
<1>9. CASE free_workers \cup new # {}
  <2>1. PICK w \in free_workers \cup new :
          /\ free_workers' = (free_workers \cup new) \ {w}
          /\ inbox' = [inbox EXCEPT ![w] = Append(@, Head(pend))]
    BY <1>1, <1>9 DEF Dispatch
  <2>2. w \in Workers /\ inbox[w] = <<>> /\ cur[w] = NullWork
    BY <1>2, <1>5 DEF IInv, BookkeepingSound, TypeOK
  <2>3. inbox'[w] = Append(<<>>, Head(pend))
        /\ \A v \in Workers \ {w} : inbox'[v] = inbox[v]
    BY <2>1, <2>2 DEF IInv, TypeOK
  <2>4. inbox'[w] # <<>> /\ Range(inbox'[w]) = {Head(pend)}
    BY <2>3, SendToEmpty
  <2>5. pc'[w] \in {"check", "locked", "wait", "timedout"}
    BY <1>2, <1>6, <2>2 DEF IInv, BookkeepingSound, Running
  <2>6. free_workers' \subseteq all_workers'
    BY <1>1, <2>1 DEF IInv, BookkeepingSound
  <2>7. ASSUME NEW v \in Workers
        PROVE  /\ v \in all_workers' <=> pc'[v] \in Running \cup {"thrown"}
               /\ v \in free_workers' =>
                    /\ pc'[v] \in Running \ {"run", "quit"}
                    /\ cur'[v] = NullWork
                    /\ inbox'[v] = <<>>
               /\ inbox'[v] # <<>> =>
                    pc'[v] \in {"check", "locked", "wait", "timedout"}
    <3>1. CASE v = w
      BY <1>1, <1>2, <1>5, <1>6, <2>1, <2>2, <2>3, <2>5, <3>1
         DEF IInv, BookkeepingSound, Running
    <3>2. CASE v # w
      BY <1>1, <1>2, <1>5, <1>6, <2>1, <2>2, <2>3, <3>2
         DEF IInv, BookkeepingSound, Running
    <3> QED BY <3>1, <3>2
  <2>8. BookkeepingSound'
    BY <1>7, <2>6, <2>7 DEF BookkeepingSound
  <2>9. ASSUME NEW v \in Workers
        PROVE  /\ cur'[v] # NullWork <=> pc'[v] \in {"run", "thrown"}
               /\ NullWork \notin Range(inbox'[v]) /\ pc'[v] # "quit"
               /\ pc'[v] \in {"wait", "timedout"} /\ inbox'[v] = <<>>
                    => v \in free_workers'
               /\ v \in free_workers' => Range(inbox'[v]) \subseteq {NullWork}
    <3>1. CASE v = w
      BY <1>2, <1>4, <1>5, <1>6, <2>1, <2>2, <2>4, <3>1
         DEF IInv, Supporting
    <3>2. CASE v # w
      BY <1>2, <1>5, <1>6, <2>1, <2>2, <2>3, <3>2, EmptyRange
         DEF IInv, Supporting
    <3> QED BY <3>1, <3>2
  <2>10. Supporting'
    BY <1>2, <2>9 DEF Supporting
  <2> QED BY <2>8, <2>10
<1> QED BY <1>8, <1>9

\* ... and when destroy() ends the idle workers.
LEMMA DestroyLoopEffect ==
  ASSUME IInv, NEW c \in Clients, DestroyLoop(c)
  PROVE  /\ cpc' \in [Clients -> ClientPC] => ~Open'
         /\ \A w \in Workers : \/ pc'[w] = pc[w]
                               \/ pc[w] = "exited" /\ pc'[w] = "none"
         /\ \A w \in Workers :
              w \in Range(exit_workers') <=> pc'[w] = "exited"
<1>1. cpc \in [Clients -> ClientPC]
  BY DEF IInv, TypeOK
<1>2. CASE all_workers = {}
  <2>1. /\ cpc' = [cpc EXCEPT ![c] = "gone"] /\ exit_workers' = <<>>
        /\ pc' = Joined(pc)
    BY <1>2 DEF DestroyLoop
  <2>2. cpc'[c] = "gone"
    BY <1>1, <2>1
  <2>3. \A w \in Workers :
          pc'[w] = IF pc[w] = "exited" THEN "none" ELSE pc[w]
    BY <2>1 DEF Joined, IInv, BookkeepingSound
  <2> QED BY <2>1, <2>2, <2>3, EmptyRange DEF Open
<1>3. CASE all_workers # {}
  <2>1. cpc' = [cpc EXCEPT ![c] = "dwait"] /\ UNCHANGED <<exit_workers, pc>>
    BY <1>3 DEF DestroyLoop
  <2>2. cpc'[c] = "dwait"
    BY <1>1, <2>1
  <2> QED BY <2>1, <2>2 DEF Open, IInv, BookkeepingSound
<1> QED BY <1>2, <1>3

\* destroy(), which sends the NULL work to the free workers and then waits or
\* joins, keeps the bookkeeping.
LEMMA DestroyBook ==
  ASSUME IInv, TypeOK', NEW c \in Clients, Destroy(c)
  PROVE  BookkeepingSound' /\ Supporting'
<1>1. DestroyLoop(c) /\ UNCHANGED <<free_workers, all_workers, cur>>
      /\ max_workers' = -1 /\ max_workers >= 0
  BY DEF Destroy, IInv, Supporting, Open
<1>2. /\ ~Open'
      /\ \A w \in Workers : \/ pc'[w] = pc[w]
                            \/ pc[w] = "exited" /\ pc'[w] = "none"
      /\ \A w \in Workers :
           w \in Range(exit_workers') <=> pc'[w] = "exited"
  BY <1>1, DestroyLoopEffect DEF TypeOK
<1>3. \A w \in Workers :
        inbox'[w] = IF w \in free_workers THEN Append(<<>>, NullWork)
                    ELSE inbox[w]
  BY <1>1 DEF Destroy, IInv, BookkeepingSound
<1>4. BookkeepingSound'
  BY <1>1, <1>2, <1>3 DEF IInv, BookkeepingSound, Running
<1>5. \A w \in Workers : w \in free_workers =>
        Range(inbox'[w]) = {NullWork} /\ inbox'[w] # <<>>
  BY <1>3, SendToEmpty
<1>6. Supporting'
  BY <1>1, <1>2, <1>3, <1>5 DEF IInv, Supporting
<1> QED BY <1>4, <1>6

\* So does the loop of destroy() when it is woken.
LEMMA DestroyWakesBook ==
  ASSUME IInv, TypeOK', NEW c \in Clients, DestroyWakes(c)
  PROVE  BookkeepingSound' /\ Supporting'
<1>1. /\ DestroyLoop(c) /\ cpc[c] = "dwoken"
      /\ UNCHANGED <<max_workers, free_workers, all_workers, inbox, cur>>
  BY DEF DestroyWakes
<1>2. /\ ~Open'
      /\ \A w \in Workers : \/ pc'[w] = pc[w]
                            \/ pc[w] = "exited" /\ pc'[w] = "none"
      /\ \A w \in Workers :
           w \in Range(exit_workers') <=> pc'[w] = "exited"
  BY <1>1, DestroyLoopEffect DEF TypeOK
<1>3. ~(max_workers >= 0)
  BY <1>1 DEF IInv, Supporting, Open
<1>4. BookkeepingSound'
  BY <1>1, <1>2, <1>3 DEF IInv, BookkeepingSound, Running
<1>5. Supporting'
  BY <1>1, <1>2, <1>3 DEF IInv, Supporting
<1> QED BY <1>4, <1>5

\* Every step keeps the lists matching the threads.
LEMMA BookStep ==
  ASSUME IInv, TypeOK', [Next]_vars
  PROVE  BookkeepingSound' /\ Supporting'
<1>1. ASSUME NEW c \in Clients, SetMaxWorkers(c)
      PROVE  BookkeepingSound' /\ Supporting'
  <2>1. /\ Open /\ Open' /\ max_workers >= 0 /\ max_workers' >= 0
        /\ UNCHANGED <<exit_workers, free_workers, all_workers, inbox, pc, cur>>
    BY <1>1, PoolAssumption DEF SetMaxWorkers, workerVars, clientVars, IInv,
       Supporting, Open
  <2> QED BY <2>1 DEF IInv, BookkeepingSound, Supporting
<1>2. ASSUME /\ UNCHANGED <<max_workers, exit_workers, free_workers,
                            all_workers, workerVars>>
             /\ Open' <=> Open
      PROVE  BookkeepingSound' /\ Supporting'
  BY <1>2 DEF IInv, BookkeepingSound, Supporting, workerVars
<1>3. ASSUME NEW c \in Clients, CheckWorkResult(c)
      PROVE  BookkeepingSound' /\ Supporting'
  BY <1>2, <1>3 DEF CheckWorkResult, Open
<1>4. ASSUME NEW c \in Clients, WaitWorkResult(c)
      PROVE  BookkeepingSound' /\ Supporting'
  <2>1. /\ UNCHANGED <<max_workers, exit_workers, free_workers, all_workers,
                       workerVars>>
        /\ cpc[c] \in {"idle", "woken"} /\ cpc'[c] \in {"idle", "wait"}
        /\ \A d \in Clients \ {c} : cpc'[d] = cpc[d]
    BY <1>4 DEF WaitWorkResult, WaitReturnsWork, WaitReturnsNull, WaitSleeps,
       GivesUp, AtLoopHead, IInv, TypeOK
  <2> QED BY <1>2, <2>1 DEF Open
<1>5. ASSUME NEW c \in Clients, SpuriousWakeup(c)
      PROVE  BookkeepingSound' /\ Supporting'
  <2>1. /\ UNCHANGED <<max_workers, exit_workers, free_workers, all_workers,
                       workerVars>>
        /\ cpc[c] \in {"wait", "dwait"} /\ cpc'[c] = Woken(cpc[c])
        /\ \A d \in Clients \ {c} : cpc'[d] = cpc[d]
    BY <1>5 DEF SpuriousWakeup, Sleepers, managerVars, IInv, TypeOK
  <2> QED BY <1>2, <2>1 DEF Open, Woken
<1>6. ASSUME NEW w \in Workers, WorkerStep(w)
      PROVE  BookkeepingSound' /\ Supporting'
  <2>1. CASE CheckMessage(w) \/ LockedMessage(w) \/ WaitMessage(w)
               \/ TimedOutMessage(w)
    <3>1. CASE TakeMessage(w) /\ UNCHANGED <<managerVars, clientVars>>
      BY <3>1, TakeMessageBook
    <3>2. CASE /\ pc[w] = "check" /\ inbox[w] = <<>>
               /\ pc' = [pc EXCEPT ![w] = "locked"]
               /\ UNCHANGED <<inbox, cur>> /\ UNCHANGED <<managerVars, clientVars>>
      <4>1. /\ pc'[w] = "locked" /\ \A v \in Workers \ {w} : pc'[v] = pc[v]
            /\ Open' <=> Open
            /\ UNCHANGED <<max_workers, exit_workers, free_workers, all_workers,
                           inbox, cur>>
        BY <3>2 DEF IInv, TypeOK, managerVars, clientVars, Open
      <4>2. BookkeepingSound'
        BY <3>2, <4>1 DEF IInv, BookkeepingSound, Running
      <4>3. Supporting'
        BY <3>2, <4>1 DEF IInv, Supporting
      <4> QED BY <4>2, <4>3
    <3> QED BY <2>1, <3>1, <3>2 DEF CheckMessage, LockedMessage, WaitMessage,
               TimedOutMessage
  <2>2. CASE LockedExit(w) \/ TimedOutExit(w) \/ Quit(w)
    <3>1. inbox[w] = <<>> /\ pc[w] \in Running \ {"run"}
      BY <2>2 DEF LockedExit, TimedOutExit, Quit, IInv, BookkeepingSound,
         Running
    <3> QED BY <2>2, <3>1, ExitingBook DEF LockedExit, TimedOutExit, Quit
  <2>3. CASE LockedPending(w)
    <3>1. Head(pending_work) # NullWork
      BY <2>3, RangeTail, PoolAssumption DEF LockedPending, IInv, TypeOK
    <3>2. /\ pc[w] = "locked" /\ inbox[w] = <<>> /\ free_workers' = free_workers \ {w}
          /\ pc'[w] = "run" /\ cur'[w] # NullWork
          /\ \A v \in Workers \ {w} : pc'[v] = pc[v] /\ cur'[v] = cur[v]
          /\ UNCHANGED <<max_workers, exit_workers, all_workers, inbox>>
          /\ Open' <=> Open
      BY <2>3, <3>1 DEF LockedPending, Out, IInv, TypeOK, clientVars, Open
    <3>3. BookkeepingSound'
      BY <3>2 DEF IInv, BookkeepingSound, Running
    <3>4. Supporting'
      BY <3>2 DEF IInv, Supporting
    <3> QED BY <3>3, <3>4
  <2>4. CASE LockedRegister(w) \/ WaitTimeout(w)
    <3>1. /\ pc[w] \in {"locked", "wait"} /\ pc'[w] \in {"wait", "timedout"}
          /\ free_workers' \in {free_workers, free_workers \cup {w}}
          /\ w \in free_workers' \ free_workers =>
               max_workers >= 0 /\ inbox[w] = <<>>
          /\ inbox[w] = <<>> => w \in free_workers'
          /\ \A v \in Workers \ {w} : pc'[v] = pc[v]
          /\ UNCHANGED <<max_workers, exit_workers, all_workers, inbox, cur>>
          /\ Open' <=> Open
      BY <2>4 DEF LockedRegister, WaitTimeout, managerVars, clientVars, IInv,
         TypeOK, Supporting, Open
    <3>2. BookkeepingSound'
      BY <3>1 DEF IInv, BookkeepingSound, Supporting, Running
    <3>3. Supporting'
      BY <3>1, EmptyRange DEF IInv, Supporting
    <3> QED BY <3>2, <3>3
  <2>5. CASE AddResult(w)
    <3>1. /\ pc[w] = "run" /\ inbox[w] = <<>> /\ pc'[w] = "check"
          /\ cur'[w] = NullWork /\ free_workers' = free_workers \cup {w}
          /\ \A v \in Workers \ {w} : pc'[v] = pc[v] /\ cur'[v] = cur[v]
          /\ UNCHANGED <<max_workers, exit_workers, all_workers, inbox>>
      BY <2>5 DEF AddResult, IInv, TypeOK, BookkeepingSound
    <3>2. Open' <=> Open
      BY <2>5, SignalKeeps DEF AddResult, IInv
    <3>3. BookkeepingSound'
      BY <3>1 DEF IInv, BookkeepingSound, Running
    <3>4. Supporting'
      BY <3>1, <3>2, EmptyRange DEF IInv, Supporting
    <3> QED BY <3>3, <3>4
  <2>6. CASE RunThrows(w)
    <3>1. /\ pc[w] = "run" /\ pc'[w] = "thrown"
          /\ \A v \in Workers \ {w} : pc'[v] = pc[v]
          /\ UNCHANGED <<max_workers, exit_workers, free_workers, all_workers,
                         inbox, cur>>
          /\ Open' <=> Open
      BY <2>6 DEF RunThrows, IInv, TypeOK, managerVars, clientVars, Open
    <3>2. BookkeepingSound'
      BY <3>1 DEF IInv, BookkeepingSound, Running
    <3>3. Supporting'
      BY <3>1 DEF IInv, Supporting
    <3> QED BY <3>2, <3>3
  <2> QED BY <1>6, <2>1, <2>2, <2>3, <2>4, <2>5, <2>6 DEF WorkerStep
<1>7. CASE UNCHANGED vars
  BY <1>2, <1>7 DEF vars, managerVars, workerVars, clientVars, Open
<1> QED BY <1>1, <1>3, <1>4, <1>5, <1>6, <1>7, AddWorkBook, DestroyBook,
           DestroyWakesBook DEF Next, Finished
-----------------------------------------------------------------------------

\* A step that moves no work keeps every work in its place.
LEMMA OnceUnmoved ==
  ASSUME IInv, UNCHANGED <<pending_work, result_msg, delivered, added>>,
         \A w \in Workers :
           /\ Carried(w)' = Carried(w)
           /\ Len(inbox'[w]) <= 1
           /\ cur'[w] # NullWork => cur'[w] \notin Range(inbox'[w])
  PROVE  WorkExactlyOnce'
BY DEF IInv, WorkExactlyOnce

\* Taking a result moves it from the results to the client.
LEMMA OnceTakeResult ==
  ASSUME IInv, TakeResult, UNCHANGED <<pending_work, added, inbox, cur>>
  PROVE  WorkExactlyOnce'
<1> DEFINE h == Head(result_msg)
<1>1. result_msg \in Seq(Work) /\ result_msg # <<>> /\ IsInjective(result_msg)
  BY DEF IInv, TypeOK, TakeResult, WorkExactlyOnce
<1>2. /\ Range(result_msg) = Range(result_msg') \cup {h}
      /\ IsInjective(result_msg') /\ h \notin Range(result_msg')
      /\ delivered' = delivered \cup {h}
  BY <1>1, RangeTail, InjectiveTail DEF TakeResult
<1>3. \A w \in Workers : Carried(w)' = Carried(w)
  BY DEF Carried
<1> HIDE DEF h
<1> QED BY <1>2, <1>3 DEF IInv, WorkExactlyOnce

\* A pending work that goes to worker w, which held none.
LEMMA OnceHandOver ==
  ASSUME IInv, NEW w \in Workers, NEW h \in Work, NEW P,
         IsInjective(pending_work'),
         P \cap (Range(result_msg) \cup delivered) = {},
         \A v \in Workers : Carried(v) \cap P = {},
         P = Range(pending_work') \cup {h}, h \notin Range(pending_work'),
         UNCHANGED <<result_msg, delivered>>,
         added' = added \cup P, Range(pending_work) \subseteq P,
         Carried(w) = {}, Carried(w)' = {h},
         Len(inbox'[w]) <= 1,
         cur'[w] # NullWork => cur'[w] \notin Range(inbox'[w]),
         \A v \in Workers \ {w} : inbox'[v] = inbox[v] /\ cur'[v] = cur[v]
  PROVE  WorkExactlyOnce'
<1>1. \A v \in Workers \ {w} : Carried(v)' = Carried(v)
  BY DEF Carried
<1>2. {x \in Work : \E v \in Workers : x \in Carried(v)'}
        = {x \in Work : \E v \in Workers : x \in Carried(v)} \cup {h}
  BY <1>1
<1>3. added' = Range(pending_work') \cup Range(result_msg') \cup delivered'
                \cup {x \in Work : \E v \in Workers : x \in Carried(v)'}
  <2>1. added = Range(pending_work) \cup Range(result_msg) \cup delivered
                 \cup {x \in Work : \E v \in Workers : x \in Carried(v)}
    BY DEF IInv, WorkExactlyOnce
  <2> QED BY <1>2, <2>1
<1>4. \A v \in Workers :
       /\ Len(inbox'[v]) <= 1
       /\ cur'[v] # NullWork => cur'[v] \notin Range(inbox'[v])
  BY DEF IInv, WorkExactlyOnce
<1>5. \A v \in Workers : Carried(v)' \cap (delivered' \cup Range(pending_work')
                                          \cup Range(result_msg')) = {}
  BY <1>1 DEF IInv, WorkExactlyOnce
<1>6. \A u \in Workers : \A v \in Workers \ {u} :
        Carried(v)' \cap Carried(u)' = {}
  BY <1>1 DEF IInv, WorkExactlyOnce
<1> QED BY <1>3, <1>4, <1>5, <1>6 DEF IInv, WorkExactlyOnce

\* addWork() puts a new work into one place, and moves at most one.
LEMMA OnceAddWork ==
  ASSUME IInv, NEW c \in Clients, NEW k \in Work, AddWork(c, k)
  PROVE  WorkExactlyOnce'
<1> DEFINE pend == Append(pending_work, k)
<1>1. PICK new \in SUBSET Fresh : Dispatch(free_workers \cup new, pend)
  BY DEF AddWork
<1>2. /\ k \notin added /\ added' = added \cup {k} /\ max_workers >= 0
      /\ UNCHANGED <<result_msg, delivered, cur>>
  BY DEF AddWork, IInv, Supporting, Open
<1>3. pending_work \in Seq(Work) /\ IsInjective(pending_work)
      /\ k \notin Range(pending_work)
  BY <1>2 DEF IInv, TypeOK, WorkExactlyOnce
<1>4. /\ pend \in Seq(Work) /\ pend # <<>> /\ IsInjective(pend)
      /\ Range(pend) = Range(pending_work) \cup {k}
  BY <1>3, AppendType, RangeAppend, InjectiveAppend
<1>5. /\ Range(pend) \cap (Range(result_msg) \cup delivered) = {}
      /\ \A v \in Workers : Carried(v) \cap Range(pend) = {}
      /\ Range(pending_work) \subseteq added
  <2> HIDE DEF pend
  <2> QED BY <1>2, <1>4 DEF IInv, WorkExactlyOnce
<1> HIDE DEF pend
<1>6. CASE free_workers \cup new = {}
  <2>1. pending_work' = pend /\ UNCHANGED inbox
    BY <1>1, <1>6 DEF Dispatch
  <2>2. \A v \in Workers : Carried(v)' = Carried(v)
    BY <1>2, <2>1 DEF Carried
  <2> QED BY <1>2, <1>4, <1>5, <2>1, <2>2 DEF IInv, WorkExactlyOnce
<1>7. CASE free_workers \cup new # {}
  <2>1. PICK w \in free_workers \cup new :
          /\ pending_work' = Tail(pend)
          /\ inbox' = [inbox EXCEPT ![w] = Append(@, Head(pend))]
    BY <1>1, <1>7 DEF Dispatch
  <2>2. w \in Workers /\ inbox[w] = <<>> /\ cur[w] = NullWork
    BY <1>2 DEF IInv, BookkeepingSound, Supporting, TypeOK, Fresh
  <2>3. inbox'[w] = Append(<<>>, Head(pend))
        /\ \A v \in Workers \ {w} : inbox'[v] = inbox[v]
    BY <2>1, <2>2 DEF IInv, TypeOK
  <2>4. Head(pend) \in Work /\ Head(pend) # NullWork
    BY <1>4, RangeTail, PoolAssumption
  <2>5. Carried(w) = {} /\ Carried(w)' = {Head(pend)} /\ Len(inbox'[w]) <= 1
        /\ cur'[w] = NullWork
    BY <1>2, <2>2, <2>3, <2>4, SendToEmpty, EmptyRange DEF Carried
  <2>6. /\ Range(pend) = Range(pending_work') \cup {Head(pend)}
        /\ Head(pend) \notin Range(pending_work')
        /\ IsInjective(pending_work')
    BY <1>4, <2>1, RangeTail, InjectiveTail
  <2>7. added' = added \cup Range(pend)
    BY <1>2, <1>4, <1>5
  <2>8. /\ \A v \in Workers \ {w} : inbox'[v] = inbox[v] /\ cur'[v] = cur[v]
        /\ Range(pending_work) \subseteq Range(pend)
    BY <1>2, <1>4, <2>3
  <2> QED BY <1>2, <1>5, <2>2, <2>4, <2>5, <2>6, <2>7, <2>8, OnceHandOver
<1> QED BY <1>6, <1>7

\* Every step leaves every work in exactly one place.
LEMMA OnceStep ==
  ASSUME IInv, TypeOK', BookkeepingSound', [Next]_vars
  PROVE  WorkExactlyOnce'
<1>1. ASSUME UNCHANGED <<pending_work, result_msg, delivered, added, inbox, cur>>
      PROVE  WorkExactlyOnce'
  BY <1>1, OnceUnmoved DEF IInv, WorkExactlyOnce, Carried
<1>2. ASSUME NEW c \in Clients,
             SetMaxWorkers(c) \/ SpuriousWakeup(c) \/ DestroyWakes(c)
      PROVE  WorkExactlyOnce'
  BY <1>1, <1>2 DEF SetMaxWorkers, SpuriousWakeup, DestroyWakes, managerVars,
     workerVars, clientVars
<1>3. ASSUME NEW c \in Clients, CheckWorkResult(c) \/ WaitWorkResult(c)
      PROVE  WorkExactlyOnce'
  <2>1. CASE TakeResult
    BY <1>3, <2>1, OnceTakeResult DEF CheckWorkResult, WaitWorkResult,
       WaitReturnsWork, WaitReturnsNull, WaitSleeps, workerVars
  <2>2. CASE ~TakeResult
    BY <1>1, <1>3, <2>2 DEF CheckWorkResult, WaitWorkResult, WaitReturnsWork,
       WaitReturnsNull, WaitSleeps, workerVars
  <2> QED BY <2>1, <2>2
<1>4. ASSUME NEW c \in Clients, Destroy(c) PROVE WorkExactlyOnce'
  <2>1. UNCHANGED <<pending_work, result_msg, delivered, added, cur>>
        /\ max_workers >= 0
    BY <1>4 DEF Destroy, IInv, Supporting, Open
  <2>2. ASSUME NEW w \in Workers
        PROVE  /\ Carried(w)' = Carried(w)
               /\ Len(inbox'[w]) <= 1
               /\ cur'[w] # NullWork => cur'[w] \notin Range(inbox'[w])
    <3>1. CASE w \in free_workers
      <4>1. inbox[w] = <<>> /\ cur[w] = NullWork
            /\ inbox'[w] = Append(<<>>, NullWork)
        BY <1>4, <2>1, <3>1 DEF Destroy, IInv, BookkeepingSound
      <4> QED BY <2>1, <4>1, SendToEmpty, EmptyRange DEF Carried
    <3>2. CASE w \notin free_workers
      <4>1. inbox'[w] = inbox[w]
        BY <1>4, <3>2 DEF Destroy
      <4> QED BY <2>1, <4>1 DEF Carried, IInv, WorkExactlyOnce
    <3> QED BY <3>1, <3>2
  <2> QED BY <2>1, <2>2, OnceUnmoved
<1>5. ASSUME NEW w \in Workers, WorkerStep(w) PROVE WorkExactlyOnce'
  <2>1. CASE TakeMessage(w) /\ UNCHANGED <<managerVars, clientVars>>
    <3>1. /\ inbox'[w] = <<>> /\ cur[w] = NullWork
          /\ Range(inbox[w]) = {cur'[w]}
          /\ \A v \in Workers \ {w} : inbox'[v] = inbox[v] /\ cur'[v] = cur[v]
      BY <2>1, TakeMessageEffect
    <3>2. ASSUME NEW v \in Workers
          PROVE  /\ Carried(v)' = Carried(v)
                 /\ Len(inbox'[v]) <= 1
                 /\ cur'[v] # NullWork => cur'[v] \notin Range(inbox'[v])
      <4>1. CASE v = w
        BY <3>1, <4>1, EmptyRange DEF Carried
      <4>2. CASE v # w
        BY <3>1, <4>2 DEF Carried, IInv, WorkExactlyOnce
      <4> QED BY <4>1, <4>2
    <3> QED BY <2>1, <3>2, OnceUnmoved DEF managerVars, clientVars
  <2>2. CASE LockedExit(w) \/ TimedOutExit(w) \/ Quit(w)
    BY <1>1, <2>2 DEF LockedExit, TimedOutExit, Quit
  <2>3. CASE LockedPending(w)
    <3> DEFINE h == Head(pending_work)
    <3>1. /\ pending_work \in Seq(Work) /\ pending_work # <<>>
          /\ IsInjective(pending_work) /\ pending_work' = Tail(pending_work)
      BY <2>3 DEF LockedPending, IInv, TypeOK, WorkExactlyOnce
    <3>2. h \in Work /\ h # NullWork
      BY <3>1, RangeTail, PoolAssumption
    <3>3. /\ Range(pending_work) = Range(pending_work') \cup {h}
          /\ h \notin Range(pending_work') /\ IsInjective(pending_work')
      BY <3>1, RangeTail, InjectiveTail
    <3>4. /\ inbox[w] = <<>> /\ cur[w] = NullWork /\ cur'[w] = h
          /\ UNCHANGED <<inbox, result_msg, delivered, added>>
          /\ \A v \in Workers \ {w} : inbox'[v] = inbox[v] /\ cur'[v] = cur[v]
      BY <2>3 DEF LockedPending, Out, IInv, TypeOK, Supporting, clientVars
    <3>5. Carried(w) = {} /\ Carried(w)' = {h} /\ Len(inbox'[w]) <= 1
          /\ cur'[w] \notin Range(inbox'[w])
      BY <3>2, <3>4, EmptyRange DEF Carried
    <3>6. /\ Range(pending_work) \cap (Range(result_msg) \cup delivered) = {}
          /\ \A v \in Workers : Carried(v) \cap Range(pending_work) = {}
          /\ added' = added \cup Range(pending_work)
      BY <3>4 DEF IInv, WorkExactlyOnce
    <3> HIDE DEF h
    <3> QED BY <3>2, <3>3, <3>4, <3>5, <3>6, OnceHandOver
  <2>4. CASE AddResult(w)
    <3> DEFINE k == cur[w]
    <3>1. k \in Work /\ k # NullWork /\ inbox[w] = <<>>
      BY <2>4, PoolAssumption DEF AddResult, IInv, TypeOK, Message, Supporting,
         BookkeepingSound
    <3>2. Carried(w) = {k} /\ k \notin Range(result_msg)
      BY <3>1, EmptyRange DEF Carried, IInv, WorkExactlyOnce
    <3>3. /\ Range(result_msg') = Range(result_msg) \cup {k}
          /\ IsInjective(result_msg')
      BY <2>4, <3>1, <3>2, RangeAppend, InjectiveAppend
         DEF AddResult, IInv, TypeOK, WorkExactlyOnce
    <3>4. /\ cur'[w] = NullWork /\ UNCHANGED <<inbox, pending_work, delivered, added>>
          /\ \A v \in Workers \ {w} : inbox'[v] = inbox[v] /\ cur'[v] = cur[v]
      BY <2>4 DEF AddResult, IInv, TypeOK
    <3>5. Carried(w)' = {}
      BY <3>1, <3>4, EmptyRange DEF Carried
    <3>6. \A v \in Workers \ {w} : Carried(v)' = Carried(v)
      BY <3>4 DEF Carried
    <3>7. \A v \in Workers :
           /\ Len(inbox'[v]) <= 1
           /\ cur'[v] # NullWork => cur'[v] \notin Range(inbox'[v])
      BY <3>4 DEF IInv, WorkExactlyOnce
    <3> HIDE DEF k
    <3>8. {x \in Work : \E v \in Workers : x \in Carried(v)}
            = {x \in Work : \E v \in Workers : x \in Carried(v)'} \cup {k}
      BY <3>1, <3>2, <3>5, <3>6
    <3>9. added' = Range(pending_work') \cup Range(result_msg') \cup delivered'
                    \cup {x \in Work : \E v \in Workers : x \in Carried(v)'}
      <4>1. added = Range(pending_work) \cup Range(result_msg) \cup delivered
                     \cup {x \in Work : \E v \in Workers : x \in Carried(v)}
        BY DEF IInv, WorkExactlyOnce
      <4> QED BY <3>3, <3>4, <3>8, <4>1
    <3>10. \A v \in Workers :
             Carried(v)' \cap (delivered' \cup Range(pending_work')
                               \cup Range(result_msg')) = {}
      <4>1. \A v \in Workers \ {w} : k \notin Carried(v)
        BY <3>2 DEF IInv, WorkExactlyOnce
      <4> QED BY <3>3, <3>4, <3>5, <3>6, <4>1 DEF IInv, WorkExactlyOnce
    <3>11. \A u \in Workers : \A v \in Workers \ {u} :
             Carried(v)' \cap Carried(u)' = {}
      BY <3>5, <3>6 DEF IInv, WorkExactlyOnce
    <3>12. /\ Range(pending_work') \cap Range(result_msg') = {}
           /\ delivered' \cap (Range(pending_work') \cup Range(result_msg')) = {}
           /\ IsInjective(pending_work')
      BY <3>2, <3>3, <3>4 DEF IInv, WorkExactlyOnce
    <3> QED BY <3>3, <3>7, <3>9, <3>10, <3>11, <3>12 DEF WorkExactlyOnce
  <2>5. CASE LockedRegister(w) \/ WaitTimeout(w) \/ RunThrows(w)
    BY <1>1, <2>5 DEF LockedRegister, WaitTimeout, RunThrows, managerVars,
       clientVars
  <2>6. CASE CheckMessage(w) \/ LockedMessage(w) \/ WaitMessage(w)
               \/ TimedOutMessage(w)
    BY <1>1, <2>1, <2>6 DEF CheckMessage, LockedMessage, WaitMessage,
       TimedOutMessage, managerVars, clientVars
  <2> QED BY <1>5, <2>2, <2>3, <2>4, <2>5, <2>6 DEF WorkerStep
<1>6. CASE UNCHANGED vars
  BY <1>1, <1>6 DEF vars, managerVars, workerVars, clientVars
<1> QED BY <1>2, <1>3, <1>4, <1>5, <1>6, OnceAddWork DEF Next, Finished
-----------------------------------------------------------------------------

\* addWork() leaves work pending only if no registered worker has settled down,
\* and never without a registered worker.
LEMMA ServedAddWork ==
  ASSUME IInv, NEW c \in Clients, NEW k \in Work, AddWork(c, k)
  PROVE  Attended'
<1> DEFINE pend == Append(pending_work, k)
<1>1. PICK new \in SUBSET Fresh :
        /\ Cardinality(new) = Needed(Len(pend))
        /\ all_workers' = all_workers \cup new
        /\ Dispatch(free_workers \cup new, pend)
        /\ pc' = IF new = {} THEN pc
                 ELSE [w \in Workers |-> IF w \in new THEN "check"
                                         ELSE Joined(pc)[w]]
  BY DEF AddWork
<1>2. max_workers \in Nat \ {0}
  <2>1. Open
    BY DEF AddWork
  <2> QED BY <2>1, PoolAssumption DEF IInv, Supporting, TypeOK
<1>3. /\ \A w \in new : pc'[w] = "check"
      /\ \A w \in Workers \ new : pc'[w] \in {pc[w], "none"}
  BY <1>1 DEF Joined, Fresh
<1>4. pending_work \in Seq(Work) /\ Len(pend) = Len(pending_work) + 1
      /\ Len(pending_work) \in Nat
  BY DEF IInv, TypeOK
<1>5. CASE free_workers \cup new = {}
  <2>1. new = {} /\ free_workers = {} /\ UNCHANGED <<inbox, pc, all_workers>>
    BY <1>1, <1>5 DEF Dispatch
  <2>2. \A w \in all_workers : pc[w] \in {"wait", "timedout"} => inbox[w] # <<>>
    BY <2>1 DEF IInv, Supporting, TypeOK
  <2> QED BY <2>1, <2>2 DEF Attended
<1>6. CASE free_workers \cup new # {}
  <2>1. PICK w \in free_workers \cup new :
          /\ pending_work' = Tail(pend)
          /\ inbox' = [inbox EXCEPT ![w] = Append(@, Head(pend))]
    BY <1>1, <1>6 DEF Dispatch
  <2>2. CASE pending_work = <<>>
    <3>1. Len(pend) <= 1 /\ pend \in Seq(Work) /\ pend # <<>>
      BY <1>4, <2>2, AppendType
    <3>2. pending_work' = <<>>
      BY <2>1, <3>1, SingletonQueue
    <3> QED BY <3>2 DEF Attended
  <2>3. CASE pending_work # <<>>
    <3>1. \A v \in all_workers : pc[v] \in {"wait", "timedout"} => inbox[v] # <<>>
      BY <1>2, <2>3 DEF IInv, Attended
    <3>2. w \in Workers /\ inbox[w] \in Seq(Message) /\ all_workers \subseteq Workers
          /\ new \subseteq Workers
      BY DEF IInv, TypeOK, Fresh
    <3>3. Head(pend) \in Message
      BY <1>4, AppendType, RangeTail DEF Message
    <3>4. inbox'[w] # <<>> /\ \A v \in Workers \ {w} : inbox'[v] = inbox[v]
      BY <2>1, <3>2, <3>3, AppendType DEF IInv, TypeOK
    <3>5. \A v \in all_workers' : pc'[v] \in {"wait", "timedout"} => inbox'[v] # <<>>
      BY <1>1, <1>3, <3>1, <3>2, <3>4
    <3> QED BY <3>5 DEF Attended
  <2> QED BY <2>2, <2>3
<1> QED BY <1>5, <1>6

\* No step leaves pending work beside workers that have all settled down.
LEMMA ServedStep ==
  ASSUME IInv, TypeOK', BookkeepingSound', [Next]_vars
  PROVE  Attended'
<1>1. ASSUME UNCHANGED <<pending_work, all_workers, inbox, pc>>,
             max_workers' >= 0 => max_workers >= 0
      PROVE  Attended'
  BY <1>1 DEF IInv, Attended
<1>2. ASSUME NEW c \in Clients, \/ SetMaxWorkers(c) \/ CheckWorkResult(c)
                                \/ WaitWorkResult(c) \/ SpuriousWakeup(c)
      PROVE  Attended'
  <2>1. CASE SetMaxWorkers(c)
    <3>1. max_workers >= 0
      BY <2>1 DEF SetMaxWorkers, IInv, Supporting
    <3> QED BY <1>1, <2>1, <3>1 DEF SetMaxWorkers, workerVars
  <2>2. CASE CheckWorkResult(c) \/ WaitWorkResult(c) \/ SpuriousWakeup(c)
    BY <1>1, <2>2 DEF CheckWorkResult, WaitWorkResult, WaitReturnsWork,
       WaitReturnsNull, WaitSleeps, SpuriousWakeup, managerVars, workerVars
  <2> QED BY <1>2, <2>1, <2>2
<1>3. ASSUME NEW c \in Clients, Destroy(c) \/ DestroyWakes(c)
      PROVE  Attended'
  <2>1. ~(max_workers' >= 0)
    BY <1>3 DEF Destroy, DestroyWakes, IInv, Supporting, Open
  <2> QED BY <2>1 DEF Attended
<1>4. ASSUME NEW w \in Workers, WorkerStep(w) PROVE Attended'
  <2>1. max_workers' = max_workers
    BY <1>4 DEF WorkerStep, CheckMessage, LockedMessage, LockedExit,
       LockedPending, LockedRegister, WaitMessage, WaitTimeout,
       TimedOutMessage, TimedOutExit, Quit, AddResult, RunThrows, managerVars
  <2>2. SUFFICES ASSUME pending_work' # <<>>, max_workers >= 0
                 PROVE  \A v \in all_workers' :
                          pc'[v] \in {"wait", "timedout"} => inbox'[v] # <<>>
    BY <2>1 DEF Attended
  <2>3. pending_work # <<>> =>
          \A v \in all_workers : pc[v] \in {"wait", "timedout"} => inbox[v] # <<>>
    BY <2>2 DEF IInv, Attended
  <2>4. all_workers \subseteq Workers
    BY DEF IInv, TypeOK
  <2>5. CASE TakeMessage(w) /\ UNCHANGED <<managerVars, clientVars>>
    <3>1. /\ pc'[w] \in {"quit", "run"}
          /\ \A v \in Workers \ {w} : pc'[v] = pc[v] /\ inbox'[v] = inbox[v]
      BY <2>5, TakeMessageEffect
    <3> QED BY <2>2, <2>3, <2>4, <2>5, <3>1 DEF managerVars
  <2>6. CASE CheckMessage(w) \/ LockedMessage(w) \/ WaitMessage(w)
               \/ TimedOutMessage(w)
    <3>1. CASE /\ pc' = [pc EXCEPT ![w] = "locked"] /\ UNCHANGED inbox
               /\ UNCHANGED <<managerVars, clientVars>>
      BY <2>2, <2>3, <2>4, <3>1 DEF managerVars, IInv, TypeOK
    <3> QED BY <2>5, <2>6, <3>1 DEF CheckMessage, LockedMessage, WaitMessage,
               TimedOutMessage
  <2>7. CASE LockedExit(w) \/ Quit(w)
    <3>1. max_workers \in Int
      BY PoolAssumption DEF IInv, TypeOK
    <3> QED BY <2>2, <2>7, <3>1 DEF LockedExit, Quit, IInv, Supporting
  <2>8. CASE TimedOutExit(w)
    <3>1. w \in all_workers /\ pending_work # <<>>
      BY <2>2, <2>8 DEF TimedOutExit, IInv, BookkeepingSound, Running
    <3> QED BY <2>3, <2>8, <3>1 DEF TimedOutExit
  <2>9. CASE LockedPending(w)
    <3>1. pending_work # <<>> /\ UNCHANGED <<all_workers, inbox>>
          /\ pc'[w] \in {"quit", "run"}
          /\ \A v \in Workers \ {w} : pc'[v] = pc[v]
      BY <2>9 DEF LockedPending, Out, IInv, TypeOK
    <3> QED BY <2>3, <2>4, <3>1
  <2>10. CASE LockedRegister(w)
    BY <2>2, <2>10 DEF LockedRegister
  <2>11. CASE WaitTimeout(w)
    <3>1. UNCHANGED <<pending_work, all_workers, inbox>> /\ pc[w] = "wait"
          /\ \A v \in Workers \ {w} : pc'[v] = pc[v]
      BY <2>11 DEF WaitTimeout, managerVars, IInv, TypeOK
    <3> QED BY <2>2, <2>3, <2>4, <3>1
  <2>12. CASE AddResult(w) \/ RunThrows(w)
    <3>1. UNCHANGED <<pending_work, all_workers, inbox>>
          /\ pc'[w] \in {"check", "thrown"}
          /\ \A v \in Workers \ {w} : pc'[v] = pc[v]
      BY <2>12 DEF AddResult, RunThrows, managerVars, IInv, TypeOK
    <3> QED BY <2>2, <2>3, <2>4, <3>1
  <2> QED BY <1>4, <2>6, <2>7, <2>8, <2>9, <2>10, <2>11, <2>12 DEF WorkerStep
<1>5. CASE UNCHANGED vars
  BY <1>1, <1>5 DEF vars, managerVars, workerVars
<1> QED BY <1>2, <1>3, <1>4, <1>5, ServedAddWork DEF Next, Finished

\* addWork() leaves work pending only beside a free worker for each, or with
\* as many workers as it may have.
LEMMA StaffedAddWork ==
  ASSUME IInv, NEW c \in Clients, NEW k \in Work, AddWork(c, k)
  PROVE  Staffed'
<1> DEFINE pend == Append(pending_work, k)
<1>1. PICK new \in SUBSET Fresh :
        /\ Cardinality(new) = Needed(Len(pend))
        /\ all_workers' = all_workers \cup new
        /\ Dispatch(free_workers \cup new, pend)
  BY DEF AddWork
<1>2. max_workers \in Nat \ {0} /\ limit' = max_workers
  <2>1. Open /\ limit' = max_workers
    BY DEF AddWork
  <2> QED BY <2>1, PoolAssumption DEF IInv, Supporting, TypeOK
<1>3. pend \in Seq(Work) /\ pend # <<>> /\ Len(pend) \in Nat
  <2>1. pend \in Seq(Work) /\ pend # <<>>
    BY AppendType DEF IInv, TypeOK
  <2> QED BY <2>1
<1>4. /\ IsFiniteSet(all_workers) /\ IsFiniteSet(free_workers)
      /\ IsFiniteSet(new)
      /\ new \cap all_workers = {} /\ new \cap free_workers = {}
  <2>1. /\ all_workers \subseteq Workers /\ free_workers \subseteq all_workers
        /\ new \subseteq Workers /\ \A w \in new : pc[w] = "none"
    BY DEF IInv, TypeOK, BookkeepingSound, Fresh
  <2>2. IsFiniteSet(all_workers) /\ IsFiniteSet(free_workers) /\ IsFiniteSet(new)
    BY <2>1, PoolAssumption, FS_Subset
  <2>3. new \cap all_workers = {}
    BY <2>1 DEF IInv, BookkeepingSound, Running
  <2> QED BY <2>1, <2>2, <2>3
<1> DEFINE all  == Cardinality(all_workers)
           free == Cardinality(free_workers)
           n    == Cardinality(new)
<1>5. all \in Nat /\ free \in Nat /\ n \in Nat
  BY <1>4, FS_CardinalityType
<1>6. /\ Cardinality(all_workers \cup new) = all + n
      /\ Cardinality(free_workers \cup new) = free + n
  <2>1. /\ Cardinality(all_workers \cap new) = 0
        /\ Cardinality(free_workers \cap new) = 0
    BY <1>4, FS_EmptySet
  <2>2. /\ Cardinality(all_workers \cup new) = all + n - 0
        /\ Cardinality(free_workers \cup new) = free + n - 0
    BY <1>4, <2>1, FS_Union
  <2> QED BY <1>5, <2>2
<1>7. all + n >= max_workers \/ free + n >= Len(pend)
  BY <1>1, <1>2, <1>3, <1>5 DEF Needed
<1>8. CASE free_workers \cup new = {}
  <2>1. free + n = 0 /\ pending_work' = pend
    BY <1>1, <1>6, <1>8, FS_EmptySet DEF Dispatch
  <2>2. Len(pend) > 0
    BY <1>3
  <2> QED BY <1>1, <1>2, <1>3, <1>5, <1>6, <1>7, <2>1, <2>2 DEF Staffed
<1>9. CASE free_workers \cup new # {}
  <2>1. PICK w \in free_workers \cup new :
          /\ free_workers' = (free_workers \cup new) \ {w}
          /\ pending_work' = Tail(pend)
    BY <1>1, <1>9 DEF Dispatch
  <2>2. Len(Tail(pend)) = Len(pend) - 1
    BY <1>3
  <2>3. Cardinality(free_workers') = free + n - 1
    <3>1. IsFiniteSet(free_workers \cup new)
      BY <1>4, FS_Union
    <3>2. w \in free_workers \cup new
      OBVIOUS
    <3>3. Cardinality((free_workers \cup new) \ {w})
            = Cardinality(free_workers \cup new) - 1
      BY <3>1, <3>2, FS_RemoveElement
    <3>4. free_workers' = (free_workers \cup new) \ {w}
      BY <2>1
    <3>5. Cardinality(free_workers') = Cardinality((free_workers \cup new) \ {w})
      BY <3>4
    <3> HIDE DEF free, n
    <3> QED BY <1>5, <1>6, <3>3, <3>5
  <2> HIDE DEF pend
  <2> QED BY <1>1, <1>2, <1>3, <1>5, <1>6, <1>7, <2>1, <2>2, <2>3 DEF Staffed
<1> QED BY <1>8, <1>9

\* No step takes a worker away while work is pending.
LEMMA StaffedStep ==
  ASSUME IInv, TypeOK', BookkeepingSound', [Next]_vars
  PROVE  Staffed'
<1>1. ASSUME UNCHANGED <<pending_work, all_workers, free_workers, limit>>,
             max_workers' >= 0 => max_workers >= 0
      PROVE  Staffed'
  BY <1>1 DEF IInv, Staffed
<1>2. ASSUME NEW c \in Clients, \/ SetMaxWorkers(c) \/ CheckWorkResult(c)
                                \/ WaitWorkResult(c) \/ SpuriousWakeup(c)
      PROVE  Staffed'
  <2>1. CASE SetMaxWorkers(c)
    <3>1. max_workers >= 0
      BY <2>1 DEF SetMaxWorkers, IInv, Supporting
    <3> QED BY <1>1, <2>1, <3>1 DEF SetMaxWorkers, clientVars
  <2>2. CASE CheckWorkResult(c) \/ WaitWorkResult(c) \/ SpuriousWakeup(c)
    BY <1>1, <2>2 DEF CheckWorkResult, WaitWorkResult, WaitReturnsWork,
       WaitReturnsNull, WaitSleeps, SpuriousWakeup, managerVars
  <2> QED BY <1>2, <2>1, <2>2
<1>3. ASSUME NEW c \in Clients, Destroy(c) \/ DestroyWakes(c)
      PROVE  Staffed'
  <2>1. ~(max_workers' >= 0)
    BY <1>3 DEF Destroy, DestroyWakes, IInv, Supporting, Open
  <2> QED BY <2>1 DEF Staffed
<1>4. ASSUME NEW w \in Workers, WorkerStep(w) PROVE Staffed'
  <2>1. max_workers' = max_workers /\ limit' = limit
    BY <1>4 DEF WorkerStep, CheckMessage, LockedMessage, LockedExit,
       LockedPending, LockedRegister, WaitMessage, WaitTimeout,
       TimedOutMessage, TimedOutExit, Quit, AddResult, RunThrows, managerVars,
       clientVars
  <2>2. SUFFICES ASSUME pending_work' # <<>>, max_workers >= 0
                 PROVE  \/ Cardinality(all_workers') >= limit
                        \/ Len(pending_work') <= Cardinality(free_workers')
    BY <2>1 DEF Staffed
  <2>3. pending_work # <<>> => \/ Cardinality(all_workers) >= limit
                              \/ Len(pending_work) <= Cardinality(free_workers)
    BY <2>2 DEF IInv, Staffed
  <2>4. IsFiniteSet(free_workers) /\ Cardinality(free_workers) \in Nat
    <3>1. free_workers \subseteq Workers
      BY DEF IInv, TypeOK
    <3> QED BY <3>1, PoolAssumption, FS_Subset, FS_CardinalityType
  <2>5. CASE UNCHANGED managerVars
    BY <2>2, <2>3, <2>5 DEF managerVars
  <2>6. CASE LockedExit(w) \/ Quit(w)
    <3>1. max_workers \in Int
      BY PoolAssumption DEF IInv, TypeOK
    <3> QED BY <2>2, <2>6, <3>1 DEF LockedExit, Quit, IInv, Supporting
  <2>7. CASE TimedOutExit(w)
    <3>1. w \in all_workers /\ pending_work # <<>>
      BY <2>2, <2>7 DEF TimedOutExit, IInv, BookkeepingSound, Running
    <3> QED BY <2>2, <2>7, <3>1 DEF TimedOutExit, IInv, Attended
  <2>8. CASE LockedPending(w)
    <3>1. /\ pending_work # <<>> /\ pending_work \in Seq(Work)
          /\ pending_work' = Tail(pending_work)
          /\ free_workers' = free_workers \ {w} /\ all_workers' = all_workers
      BY <2>8 DEF LockedPending, IInv, TypeOK
    <3>2. Len(pending_work') = Len(pending_work) - 1 /\ Len(pending_work) \in Nat
      BY <3>1
    <3>3. /\ Cardinality(free_workers \ {w}) \in Nat
          /\ Cardinality(free_workers \ {w}) >= Cardinality(free_workers) - 1
      <4>1. CASE w \in free_workers
        <5>1. Cardinality(free_workers \ {w}) = Cardinality(free_workers) - 1
          BY <2>4, <4>1, FS_RemoveElement
        <5>2. IsFiniteSet(free_workers \ {w})
          BY <2>4, FS_Subset
        <5> QED BY <2>4, <5>1, <5>2, FS_CardinalityType
      <4>2. CASE w \notin free_workers
        <5>1. free_workers \ {w} = free_workers
          BY <4>2
        <5> QED BY <2>4, <5>1
      <4> QED BY <4>1, <4>2
    <3> QED BY <2>3, <2>4, <3>1, <3>2, <3>3
  <2>9. CASE LockedRegister(w)
    BY <2>2, <2>9 DEF LockedRegister
  <2>10. CASE AddResult(w)
    <3>1. /\ UNCHANGED <<pending_work, all_workers>>
          /\ free_workers' = free_workers \cup {w}
      BY <2>10 DEF AddResult
    <3>2. /\ Cardinality(free_workers \cup {w}) \in Nat
          /\ Cardinality(free_workers \cup {w}) >= Cardinality(free_workers)
      <4>1. IsFiniteSet(free_workers \cup {w})
        BY <2>4, FS_AddElement
      <4> QED BY <2>4, <4>1, FS_Subset, FS_CardinalityType
    <3>3. pending_work \in Seq(Work)
      BY DEF IInv, TypeOK
    <3> QED BY <2>2, <2>3, <2>4, <3>1, <3>2, <3>3
  <2> QED BY <1>4, <2>5, <2>6, <2>7, <2>8, <2>9, <2>10 DEF WorkerStep,
         CheckMessage, LockedMessage, WaitMessage, WaitTimeout,
         TimedOutMessage, RunThrows
<1>5. CASE UNCHANGED vars
  BY <1>1, <1>5 DEF vars, managerVars, clientVars
<1> QED BY <1>2, <1>3, <1>4, <1>5, StaffedAddWork DEF Next, Finished

\* With that, work that nobody is left to look for is due to thrown works only.
LEMMA StaffedServes == ASSUME IInv PROVE PendingIsServed
<1> SUFFICES ASSUME pending_work # <<>>, max_workers >= 0,
                    all_workers \ Dead = {}
             PROVE  Cardinality(Dead) >= limit
  BY DEF IInv, Attended, PendingIsServed
<1>1. Dead = all_workers
  BY DEF Dead
<1>2. free_workers = {}
  BY <1>1 DEF Dead, IInv, TypeOK, BookkeepingSound, Running
<1>3. Cardinality(free_workers) = 0 /\ Len(pending_work) > 0
  BY <1>2, FS_EmptySet DEF IInv, TypeOK
<1>4. Len(pending_work) \in Nat
  BY DEF IInv, TypeOK
<1> QED BY <1>1, <1>3, <1>4 DEF IInv, Staffed

\* A pool whose manager is gone stays without threads.
LEMMA OutlivesStep ==
  ASSUME IInv, TypeOK', BookkeepingSound', [Next]_vars
  PROVE  NoWorkerOutlivesManager'
<1> DEFINE Gone == \E c \in Clients : cpc[c] = "gone"
<1>1. CASE Gone
  <2>1. exit_workers = <<>> /\ (\A w \in Workers : pc[w] = "none") /\ ~Open
    BY <1>1 DEF IInv, NoWorkerOutlivesManager, Open
  <2>2. ~(\E w \in Workers : WorkerStep(w))
    BY <2>1 DEF WorkerStep, CheckMessage, LockedMessage, LockedExit,
       LockedPending, LockedRegister, WaitMessage, WaitTimeout,
       TimedOutMessage, TimedOutExit, Quit, AddResult, RunThrows
  <2>3. ASSUME NEW c \in Clients, Destroy(c) \/ DestroyWakes(c)
        PROVE  exit_workers' = <<>> /\ \A w \in Workers : pc'[w] = "none"
    BY <1>1, <2>1, <2>3 DEF Destroy, DestroyWakes, DestroyLoop, Joined
  <2>4. exit_workers' = <<>> /\ \A w \in Workers : pc'[w] = "none"
    BY <2>1, <2>2, <2>3 DEF Next, SetMaxWorkers, AddWork, CheckWorkResult,
       WaitWorkResult, WaitReturnsWork, WaitReturnsNull, WaitSleeps,
       SpuriousWakeup, Finished, vars, managerVars, workerVars
  <2> QED BY <2>4 DEF NoWorkerOutlivesManager
<1>2. CASE ~Gone
  <2>1. ASSUME NEW c \in Clients, DestroyLoop(c), Gone'
        PROVE  exit_workers' = <<>> /\ \A w \in Workers : pc'[w] = "none"
    <3>1. all_workers = {}
      BY <1>2, <2>1 DEF DestroyLoop, IInv, TypeOK
    <3>2. exit_workers' = <<>> /\ pc' = Joined(pc)
      BY <2>1, <3>1 DEF DestroyLoop
    <3>3. \A w \in Workers : pc[w] \in {"none", "exited"}
      BY <3>1 DEF IInv, TypeOK, WorkerPC, BookkeepingSound
    <3> QED BY <3>2, <3>3 DEF Joined, IInv, BookkeepingSound
  <2>2. ASSUME NEW c \in Clients, Destroy(c) \/ DestroyWakes(c)
        PROVE  NoWorkerOutlivesManager'
    BY <2>1, <2>2 DEF Destroy, DestroyWakes, NoWorkerOutlivesManager
  <2>3. ASSUME NEW c \in Clients, WaitWorkResult(c) \/ SpuriousWakeup(c)
        PROVE  ~Gone'
    BY <1>2, <2>3 DEF WaitWorkResult, WaitReturnsWork, WaitReturnsNull,
       WaitSleeps, SpuriousWakeup, Sleepers, Woken, IInv, TypeOK
  <2>4. ASSUME NEW w \in Workers, WorkerStep(w) PROVE ~Gone'
    <3>1. CASE UNCHANGED cpc
      BY <1>2, <3>1
    <3>2. CASE SignalIfWaiting
      BY <1>2, <3>2, SignalKeeps DEF IInv
    <3> QED BY <2>4, <3>1, <3>2 DEF WorkerStep, CheckMessage, LockedMessage,
          LockedExit, LockedPending, LockedRegister, WaitMessage, WaitTimeout,
          TimedOutMessage, TimedOutExit, Quit, AddResult, RunThrows,
          WorkerExiting, clientVars
  <2>5. ASSUME UNCHANGED cpc PROVE ~Gone'
    BY <1>2, <2>5
  <2>6. ASSUME ~Gone' PROVE NoWorkerOutlivesManager'
    BY <2>6 DEF NoWorkerOutlivesManager
  <2> QED BY <2>2, <2>3, <2>4, <2>5, <2>6 DEF Next, SetMaxWorkers, AddWork,
        CheckWorkResult, Finished, vars, clientVars
<1> QED BY <1>1, <1>2

-----------------------------------------------------------------------------

\* The initial pool: nothing added, no thread.
LEMMA InitIInv == ASSUME Init PROVE IInv
<1>1. TypeOK
  <2>1. /\ <<>> \in Seq(Work) /\ <<>> \in Seq(Workers) /\ <<>> \in Seq(Message)
        /\ max_workers \in MaxChoices
    BY PoolAssumption DEF Init
  <2>2. /\ inbox \in [Workers -> Seq(Message)] /\ pc \in [Workers -> WorkerPC]
        /\ cur \in [Workers -> Message] /\ cpc \in [Clients -> ClientPC]
    BY <2>1 DEF Init, Message, WorkerPC, ClientPC
  <2> QED BY <2>1, <2>2 DEF Init, TypeOK
<1>2. \A w \in Workers : /\ inbox[w] = <<>> /\ cur[w] = NullWork
                         /\ pc[w] = "none" /\ Carried(w) = {}
                         /\ Len(inbox[w]) <= 1
  BY EmptyRange DEF Init, Carried
<1>3. WorkExactlyOnce
  BY <1>2, EmptyRange DEF Init, WorkExactlyOnce
<1>4. BookkeepingSound
  BY <1>2, EmptyRange DEF Init, BookkeepingSound, Running
<1>5. Supporting
  BY <1>2, EmptyRange DEF Init, Supporting, Open
<1>6. Attended /\ Staffed /\ NoWorkerOutlivesManager
  BY DEF Init, Attended, Staffed, NoWorkerOutlivesManager
<1> QED BY <1>1, <1>3, <1>4, <1>5, <1>6 DEF IInv

\* IInv is an inductive invariant of the pool: it holds at the start and no
\* call of a client and no step of a worker breaks it.
THEOREM PoolInvariant == Spec => []IInv
<1>1. Init => IInv
  BY InitIInv
<1>2. IInv /\ [Next]_vars => IInv'
  <2> SUFFICES ASSUME IInv, [Next]_vars PROVE IInv'
    OBVIOUS
  <2>1. TypeOK'
    BY TypeStep DEF IInv
  <2>2. BookkeepingSound' /\ Supporting'
    BY <2>1, BookStep
  <2>3. WorkExactlyOnce'
    BY <2>1, <2>2, OnceStep
  <2>4. Attended' /\ Staffed' /\ NoWorkerOutlivesManager'
    BY <2>1, <2>2, ServedStep, StaffedStep, OutlivesStep
  <2> QED BY <2>1, <2>2, <2>3, <2>4 DEF IInv
<1> QED BY <1>1, <1>2, PTL DEF Spec

\* Every variable of the pool keeps its type, whatever the clients do.
THEOREM TypeCorrect == Spec => []TypeOK
<1>1. IInv => TypeOK
  BY DEF IInv
<1> QED BY <1>1, PoolInvariant, PTL

\* No work handed to addWork() is ever lost or run twice, for any number of
\* workers, clients and works, any limit, and any time-outs.
THEOREM ExactlyOnce == Spec => []WorkExactlyOnce
<1>1. IInv => WorkExactlyOnce
  BY DEF IInv
<1> QED BY <1>1, PoolInvariant, PTL

\* The assertion in workerExiting() never fails and no message is left with a
\* thread that has ended.
THEOREM Bookkeeping == Spec => []BookkeepingSound
<1>1. IInv => BookkeepingSound
  BY DEF IInv
<1> QED BY <1>1, PoolInvariant, PTL

\* Pending work always has a living worker that will look at the list again,
\* unless thrown works have ended as many threads as addWork() may have.
THEOREM Served == Spec => []PendingIsServed
<1>1. IInv => PendingIsServed
  BY StaffedServes
<1> QED BY <1>1, PoolInvariant, PTL

\* destroy() leaves no thread behind.
THEOREM NoneOutlives == Spec => []NoWorkerOutlivesManager
<1>1. IInv => NoWorkerOutlivesManager
  BY DEF IInv
<1> QED BY <1>1, PoolInvariant, PTL

\* Where waitWorkResult() finds nothing under way, every work is back.
LEMMA NullDone ==
  ASSUME IInv, NEW c \in Clients, GivesUp(c)
  PROVE  added = delivered
<1>1. /\ result_msg = <<>> /\ pending_work = <<>>
      /\ Cardinality(free_workers) = Cardinality(all_workers)
  BY DEF GivesUp, NothingUnderWay
<1>2. free_workers = all_workers
  <2>1. free_workers \subseteq all_workers /\ all_workers \subseteq Workers
    BY DEF IInv, TypeOK, BookkeepingSound
  <2>2. IsFiniteSet(all_workers)
    BY <2>1, PoolAssumption, FS_Subset
  <2> QED BY <1>1, <2>1, <2>2, FS_Subset
<1>3. \A w \in Workers : Carried(w) = {}
  <2> SUFFICES ASSUME NEW w \in Workers PROVE Carried(w) = {}
    OBVIOUS
  <2>1. CASE w \in free_workers
    BY <2>1 DEF IInv, BookkeepingSound, Supporting, Carried
  <2>2. CASE w \notin free_workers
    <3>1. pc[w] \notin Running \cup {"thrown"}
      BY <1>2, <2>2 DEF IInv, BookkeepingSound
    <3>2. inbox[w] = <<>> /\ cur[w] = NullWork
      BY <3>1 DEF IInv, BookkeepingSound, Supporting, Running
    <3> QED BY <3>2, EmptyRange DEF Carried
  <2> QED BY <2>1, <2>2
<1> QED BY <1>1, <1>3, EmptyRange DEF IInv, WorkExactlyOnce

\* A client that collects results until waitWorkResult() returns NULL has
\* collected the result of every work, however many clients there are.
THEOREM NullMeansDone == Spec => []NullOnlyWhenDone
<1>1. IInv => NullOnlyWhenDone
  BY NullDone DEF NullOnlyWhenDone
<1> QED BY <1>1, PoolInvariant, PTL
=============================================================================
