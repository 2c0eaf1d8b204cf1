------------------------- MODULE QueueManagerProofs -------------------------
(***************************************************************************)
(* Proofs about the queue of the SQL dump filter, for any number of lines  *)
(* and of workers, any options and any set of malformed lines.             *)
(***************************************************************************)
EXTENDS QueueManager, FiniteSetTheorems, TLAPS

-----------------------------------------------------------------------------
(* The inductive invariant.                                                 *)

\* The program is in its last phase exactly when the limit is 0, and then no
\* worker sleeps; main() sleeps only in waitProcessedData().
Phases ==
  /\ max_workers = 0 <=> main \in {"join", "exited"}
  /\ max_workers = 0 => At("asleep") = {}
  /\ asleep => main \in {"pop", "drain"}

\* The counters are in order, and an id always means the line after it.
Numbered ==
  /\ return_counter <= proc_counter /\ proc_counter <= lines
  /\ \A w \in Processing : /\ cur[w].id \in return_counter..(proc_counter - 1)
                           /\ cur[w].data = cur[w].id + 1
  /\ \A i \in DOMAIN processed_data : processed_data[i] = i + 1

\* Ids that were given out and not returned are with a worker or stored, and
\* never in two places.
Placed ==
  /\ \A id \in return_counter..(proc_counter - 1) :
       id \in DOMAIN processed_data \/ \E w \in Processing : cur[w].id = id
  /\ \A w \in Processing : cur[w].id \notin DOMAIN processed_data
  /\ \A w, u \in Processing : cur[w].id = cur[u].id => w = u
  /\ DOMAIN processed_data \subseteq return_counter..(proc_counter - 1)
  /\ Len(waiting_data) = lines - proc_counter
  /\ \A i \in 1..Len(waiting_data) : waiting_data[i] = proc_counter + i

\* main() pops at most one line for each it puts, so the lines in the buffers
\* never fall behind the free workers by more than the line about to be read.
Buffered == Len(waiting_data) + Cardinality(DOMAIN processed_data)

Balanced ==
  /\ main = "read" => num_free_workers <= Buffered + 1
  /\ main = "pop" => num_free_workers <= Buffered

IInv ==
  /\ TypeOK /\ Phases /\ Numbered /\ Placed
  /\ OutputInOrder /\ FreeCountExact /\ NoIdleBacklog /\ MainWakeable
  /\ Balanced

-----------------------------------------------------------------------------
(* Facts about the helpers.                                                 *)

Free == At("get") \cup At("asleep") \cup At("done")

\* Unsigned arithmetic is exact within its range.
LEMMA UnsignedExact ==
  ASSUME NEW n \in Nat, n < Word
  PROVE  Unsigned(n) = n
  BY QueueAssumption DEF Unsigned

\* Sets of workers are finite and have at most as many members as there are
\* workers.
LEMMA WorkerSets ==
  ASSUME NEW S, S \subseteq Worker
  PROVE  IsFiniteSet(S) /\ Cardinality(S) \in Nat
         /\ Cardinality(S) <= Cardinality(Worker)
  BY QueueAssumption, FS_Subset, FS_CardinalityType

\* Adding and removing a worker.
LEMMA OneMore ==
  ASSUME NEW S, S \subseteq Worker, NEW w \in Worker \ S
  PROVE  Cardinality(S \cup {w}) = Cardinality(S) + 1
  BY WorkerSets, FS_AddElement

\* The other direction: a worker leaves the set.
LEMMA OneLess ==
  ASSUME NEW S, S \subseteq Worker, NEW w \in S
  PROVE  Cardinality(S \ {w}) = Cardinality(S) - 1
  BY WorkerSets, FS_RemoveElement

\* A larger set of workers has no fewer members.
LEMMA NoFewer ==
  ASSUME NEW S, NEW T, S \subseteq T, T \subseteq Worker
  PROVE  Cardinality(S) <= Cardinality(T)
  BY WorkerSets, FS_Subset

\* The table of results is finite: its ids are numbers of lines.
LEMMA TableFinite ==
  ASSUME NEW S, S \subseteq 0..NumLines
  PROVE  IsFiniteSet(S) /\ Cardinality(S) \in 0..(NumLines + 1)
<1>1. IsFiniteSet(0..NumLines) /\ Cardinality(0..NumLines) = NumLines + 1
  BY QueueAssumption, FS_Interval
<1>2. IsFiniteSet(S) /\ Cardinality(S) <= NumLines + 1
  BY <1>1, FS_Subset
<1>3. Cardinality(S) \in Nat
  BY <1>2, FS_CardinalityType
<1>4. QED
  BY <1>2, <1>3, QueueAssumption

\* signal() and broadcast() only turn sleepers into workers on their way to the
\* queue, and never put main() to sleep.
Wakes(f) ==
  /\ pc' \in [Worker -> WorkerPC]
  /\ \A w \in Worker : pc'[w] = f[w] \/ (f[w] = "asleep" /\ pc'[w] = "get")
  /\ asleep' \in BOOLEAN /\ (asleep' => asleep)

\* A signal() wakes in that sense.
LEMMA SignalWakes ==
  ASSUME TypeOK, NEW f \in [Worker -> WorkerPC], Signal(f),
         \A w \in Worker : pc[w] = "asleep" => f[w] = "asleep"
  PROVE  Wakes(f)
<1>1. CASE pc' = f /\ UNCHANGED asleep
  BY <1>1 DEF TypeOK, Wakes
<1>2. CASE \E w \in At("asleep") : pc' = [f EXCEPT ![w] = "get"] /\ UNCHANGED asleep
  BY <1>2 DEF TypeOK, Wakes, At, WorkerPC
<1>3. CASE asleep' = FALSE /\ pc' = f
  BY <1>3 DEF Wakes
<1>4. QED
  BY <1>1, <1>2, <1>3 DEF Signal

\* A broadcast() wakes in that sense and leaves nobody asleep.
LEMMA BroadcastWakes ==
  ASSUME TypeOK, NEW f \in [Worker -> WorkerPC], Broadcast(f)
  PROVE  Wakes(f) /\ asleep' = FALSE /\ \A w \in Worker : pc'[w] # "asleep"
  BY DEF TypeOK, Broadcast, Wakes, WorkerPC

\* What does not touch the counters, the tables and who processes what leaves
\* the ids where they are.
LEMMA IdsKept ==
  ASSUME Numbered, Placed,
         UNCHANGED <<waiting_data, processed_data, proc_counter, return_counter,
                     cur, lines>>,
         Processing' = Processing
  PROVE  Numbered' /\ Placed'
  BY DEF Numbered, Placed

\* The numbers of the state.
LEMMA Numbers ==
  ASSUME TypeOK
  PROVE  /\ NumLines \in Nat /\ lines \in 0..NumLines
         /\ proc_counter \in 0..NumLines /\ return_counter \in 0..NumLines
         /\ Len(waiting_data) \in Nat /\ num_free_workers \in Nat
         /\ Cardinality(Worker) \in Nat /\ num_free_workers <= Cardinality(Worker)
         /\ \A w \in Worker : cur[w].id \in Int /\ cur[w].data \in Int
<1>1. Cardinality(Worker) \in Nat
  BY WorkerSets
<1>2. QED
  BY <1>1, QueueAssumption DEF TypeOK

-----------------------------------------------------------------------------
(* The steps of a worker.                                                   *)

\* getNextWork() with work: the id and the line it hands out are the next ones.
LEMMA TakeWorkStep ==
  ASSUME IInv, NEW w \in Worker, TakeWork(w)
  PROVE  IInv'
<1> USE DEF IInv
<1> DEFINE f == [pc EXCEPT ![w] = "proc"]
<1>0. /\ NumLines \in Nat /\ lines \in 0..NumLines /\ Len(waiting_data) \in Nat
      /\ proc_counter \in 0..NumLines /\ return_counter \in 0..NumLines
      /\ num_free_workers \in Nat
  BY Numbers
<1>1. Wakes(f) /\ \A u \in Worker \ {w} : f[u] = pc[u]
  <2>1. f \in [Worker -> WorkerPC] /\ \A u \in Worker : pc[u] = "asleep" => f[u] = "asleep"
    BY DEF TypeOK, WorkerPC, TakeWork
  <2>2. QED
    BY <2>1, SignalWakes DEF TakeWork, TypeOK
<1>2. pc[w] = "get" /\ pc'[w] = "proc" /\ f[w] = "proc"
  BY <1>1 DEF TakeWork, TypeOK, Wakes
<1>3. /\ waiting_data \in Seq(Line) /\ waiting_data # <<>>
      /\ Len(waiting_data) \in Nat /\ Len(waiting_data) > 0
      /\ Head(waiting_data) = proc_counter + 1 /\ Head(waiting_data) \in Line
      /\ waiting_data' \in Seq(Line) /\ Len(waiting_data') = Len(waiting_data) - 1
      /\ \A i \in 1..Len(waiting_data') : waiting_data'[i] = proc_counter' + i
  <2>1. /\ waiting_data \in Seq(Line) /\ waiting_data # <<>> /\ waiting_data' = Tail(waiting_data)
        /\ proc_counter' = proc_counter + 1
    BY DEF TypeOK, TakeWork
  <2>2. /\ Len(waiting_data) > 0 /\ Head(waiting_data) = waiting_data[1]
        /\ Head(waiting_data) \in Line
        /\ waiting_data' \in Seq(Line) /\ Len(waiting_data') = Len(waiting_data) - 1
        /\ \A i \in 1..(Len(waiting_data) - 1) : waiting_data'[i] = waiting_data[i + 1]
    BY <2>1
  <2>3. \A i \in 1..Len(waiting_data) : waiting_data[i] = proc_counter + i
    BY DEF Placed
  <2>4. \A i \in 1..(Len(waiting_data) - 1) : waiting_data'[i] = proc_counter + (i + 1)
    BY <1>0, <2>2, <2>3
  <2>5. QED
    BY <1>0, <2>1, <2>2, <2>3, <2>4
<1>4. Free' = Free \ {w} /\ w \in Free /\ Free \subseteq Worker
  BY <1>1, <1>2 DEF Free, At, Wakes, TypeOK
<1>5. FreeCountExact' /\ num_free_workers' = num_free_workers - 1
      /\ num_free_workers' \in 0..Cardinality(Worker)
  <2>1. Cardinality(Free') = Cardinality(Free) - 1 /\ Cardinality(Free) = num_free_workers
    BY <1>4, OneLess DEF FreeCountExact, Free
  <2>2. Cardinality(Free') \in Nat /\ Cardinality(Free') <= Cardinality(Worker)
        /\ Cardinality(Worker) \in Nat
    BY <1>4, WorkerSets
  <2>3. num_free_workers - 1 \in Nat /\ num_free_workers - 1 < Word
    BY <2>1, <2>2, QueueAssumption DEF TypeOK
  <2>4. num_free_workers' = num_free_workers - 1
    BY <2>3, UnsignedExact DEF TakeWork, Busied
  <2>5. QED
    BY <2>1, <2>2, <2>4 DEF FreeCountExact, Free
<1>6. Processing' = Processing \cup {w} /\ w \notin Processing
  BY <1>1, <1>2 DEF Processing, At, Wakes, TypeOK
<1>7. /\ cur' = [cur EXCEPT ![w] = [id |-> proc_counter, data |-> proc_counter + 1]]
      /\ proc_counter' = proc_counter + 1 /\ proc_counter < lines
      /\ UNCHANGED <<processed_data, return_counter, lines>>
  <2>1. Head(waiting_data) = proc_counter + 1
    BY <1>3
  <2>2. cur' = [cur EXCEPT ![w] = [id |-> proc_counter, data |-> Head(waiting_data)]]
        /\ proc_counter' = proc_counter + 1
        /\ UNCHANGED <<processed_data, return_counter, lines>>
    BY DEF TakeWork
  <2>3. Len(waiting_data) = lines - proc_counter
    BY DEF Placed
  <2>4. proc_counter < lines
    BY <1>0, <1>3, <2>3
  <2>5. QED
    BY <2>1, <2>2, <2>4
<1>8. TypeOK'
  <2>1. cur' \in [Worker -> [id : -1..NumLines, data : 0..NumLines]]
    BY <1>0, <1>7 DEF TypeOK
  <2>2. proc_counter' \in 0..NumLines
    BY <1>0, <1>7
  <2>3. QED
    BY <1>1, <1>3, <1>5, <1>7, <2>1, <2>2 DEF TypeOK, TakeWork, Wakes
<1>9. Numbered'
  BY <1>6, <1>7 DEF Numbered, TypeOK, Processing, At
<1>10. Placed'
  <2>1. /\ cur'[w].id = proc_counter
        /\ \A u \in Processing : cur'[u] = cur[u] /\ cur[u].id < proc_counter
        /\ \A i \in DOMAIN processed_data : i < proc_counter
    <3>1. cur \in [Worker -> [id : -1..NumLines, data : 0..NumLines]] /\ Processing \subseteq Worker
      BY DEF TypeOK, Processing, At
    <3>2. cur'[w].id = proc_counter /\ \A u \in Processing : cur'[u] = cur[u]
      BY <1>6, <1>7, <3>1
    <3>3. \A u \in Processing : cur[u].id < proc_counter
      BY <1>0 DEF Numbered
    <3>4. \A i \in DOMAIN processed_data : i < proc_counter
      BY <1>0 DEF Placed
    <3>5. QED
      BY <3>2, <3>3, <3>4
  <2>2. \A id \in return_counter'..(proc_counter' - 1) :
          id \in DOMAIN processed_data' \/ \E u \in Processing' : cur'[u].id = id
    BY <1>0, <1>6, <1>7, <2>1 DEF Placed
  <2>3. /\ \A u \in Processing' : cur'[u].id \notin DOMAIN processed_data'
        /\ \A u, v \in Processing' : cur'[u].id = cur'[v].id => u = v
        /\ DOMAIN processed_data' \subseteq return_counter'..(proc_counter' - 1)
    BY <1>0, <1>6, <1>7, <2>1 DEF Placed
  <2>4. Len(waiting_data') = lines' - proc_counter'
    BY <1>3, <1>7 DEF Placed, TypeOK
  <2>5. QED
    BY <1>3, <2>2, <2>3, <2>4 DEF Placed
<1>11. Phases'
  BY <1>1, <1>2 DEF Phases, TakeWork, Wakes, At
<1>12. OutputInOrder'
  BY DEF OutputInOrder, TakeWork
<1>13. NoIdleBacklog'
  <2>1. SUFFICES ASSUME At("asleep")' # {} PROVE Len(waiting_data') <= Cardinality(At("get")')
    BY DEF NoIdleBacklog
  <2>2. At("asleep") # {}
    BY <1>1, <1>2, <2>1 DEF At, Wakes
  <2>3. At("get") \ {w} \subseteq At("get")' /\ At("get")' \subseteq Worker
        /\ w \in At("get") /\ At("get") \subseteq Worker
    BY <1>1, <1>2 DEF At, Wakes
  <2>4. Cardinality(At("get")) - 1 <= Cardinality(At("get")')
        /\ Cardinality(At("get")) \in Nat
    <3>1. Cardinality(At("get") \ {w}) = Cardinality(At("get")) - 1
      BY <2>3, OneLess
    <3>2. Cardinality(At("get") \ {w}) <= Cardinality(At("get")')
      BY <2>3, NoFewer
    <3>3. QED
      BY <2>3, <3>1, <3>2, WorkerSets
  <2>5. Cardinality(At("get")') \in Nat
    BY <2>3, WorkerSets
  <2>6. QED
    BY <1>3, <2>2, <2>4, <2>5 DEF NoIdleBacklog
<1>14. MainWakeable'
  BY <1>1, <1>6, <1>7 DEF MainWakeable, Wakes, TakeWork, TypeOK, Processing, At
<1>15. Balanced'
  <2>1. Cardinality(DOMAIN processed_data) \in 0..(NumLines + 1)
    BY TableFinite DEF TypeOK
  <2>2. Buffered' = Buffered - 1 /\ Buffered \in Nat /\ main' = main
    BY <1>3, <1>7, <2>1 DEF Buffered, TakeWork
  <2>3. num_free_workers \in Nat
    BY <1>0
  <2>4. QED
    BY <1>5, <2>2, <2>3 DEF Balanced
<1>16. QED
  BY <1>5, <1>8, <1>9, <1>10, <1>11, <1>12, <1>13, <1>14, <1>15

\* A step that leaves the buffers, the counters and the sets of free and of
\* processing workers alone keeps what depends on them only.
LEMMA QuietStep ==
  ASSUME IInv,
         UNCHANGED <<waiting_data, processed_data, proc_counter, return_counter,
                     num_free_workers, is_waiting, cur, lines, written>>,
         Processing' = Processing, Free' = Free, asleep' => asleep
  PROVE  /\ Numbered' /\ Placed' /\ OutputInOrder' /\ FreeCountExact'
         /\ MainWakeable' /\ Buffered' = Buffered
<1>1. Numbered' /\ Placed'
  BY IdsKept DEF IInv
<1>2. OutputInOrder'
  BY DEF IInv, OutputInOrder
<1>3. FreeCountExact'
  BY DEF IInv, FreeCountExact, Free
<1>4. MainWakeable'
  BY DEF IInv, MainWakeable
<1>5. Buffered' = Buffered
  BY DEF Buffered
<1>6. QED
  BY <1>1, <1>2, <1>3, <1>4, <1>5

\* getNextWork() without work: only an idle worker goes to sleep, and only when
\* the queue is empty.
LEMMA NoWorkLeftStep ==
  ASSUME IInv, NEW w \in Worker, NoWorkLeft(w)
  PROVE  IInv'
<1>1. /\ TypeOK' /\ pc[w] = "get" /\ pc'[w] \in {"done", "asleep"}
      /\ \A u \in Worker \ {w} : pc'[u] = pc[u]
  BY DEF IInv, TypeOK, NoWorkLeft, WorkerPC, managerVars, mainVars
<1>2. /\ UNCHANGED <<waiting_data, processed_data, proc_counter, return_counter,
                     num_free_workers, is_waiting, cur, lines, written>>
      /\ UNCHANGED <<main, asleep, max_workers>>
  BY DEF NoWorkLeft, managerVars, mainVars
<1>3. Processing' = Processing /\ Free' = Free
  BY <1>1 DEF Processing, Free, At
<1>4. /\ Numbered' /\ Placed' /\ OutputInOrder' /\ FreeCountExact'
      /\ MainWakeable' /\ Buffered' = Buffered
  BY <1>2, <1>3, QuietStep
<1>5. max_workers = 0 => At("asleep")' = {}
  BY <1>1 DEF NoWorkLeft, IInv, Phases, At, TypeOK
<1>6. Phases'
  BY <1>2, <1>5 DEF IInv, Phases
<1>7. NoIdleBacklog'
  <2>1. CASE max_workers = 0
    BY <1>5, <2>1 DEF NoIdleBacklog
  <2>2. CASE max_workers # 0
    <3>1. Len(waiting_data') = 0
      BY <1>2, <2>2 DEF NoWorkLeft
    <3>2. At("get")' \subseteq Worker
      BY DEF At
    <3>3. Cardinality(At("get")') \in Nat
      BY <3>2, WorkerSets
    <3>4. QED
      BY <3>1, <3>3 DEF NoIdleBacklog
  <2>3. QED
    BY <2>1, <2>2
<1>8. Balanced'
  BY <1>2, <1>4 DEF IInv, Balanced
<1>9. QED
  BY <1>1, <1>4, <1>6, <1>7, <1>8 DEF IInv

\* processOneData() throws: its id stays with the dead worker.
LEMMA ProcessThrowsStep ==
  ASSUME IInv, NEW w \in Worker, ProcessThrows(w)
  PROVE  IInv'
<1>1. /\ TypeOK' /\ pc[w] = "proc" /\ pc'[w] = "thrown"
      /\ \A u \in Worker \ {w} : pc'[u] = pc[u]
  BY DEF IInv, TypeOK, ProcessThrows, WorkerPC, managerVars, mainVars
<1>2. /\ UNCHANGED <<waiting_data, processed_data, proc_counter, return_counter,
                     num_free_workers, is_waiting, cur, lines, written>>
      /\ UNCHANGED <<main, asleep, max_workers>>
  BY DEF ProcessThrows, managerVars, mainVars
<1>3. /\ Processing' = Processing /\ Free' = Free
      /\ At("asleep")' = At("asleep") /\ At("get")' = At("get")
  BY <1>1 DEF Processing, Free, At
<1>4. /\ Numbered' /\ Placed' /\ OutputInOrder' /\ FreeCountExact'
      /\ MainWakeable' /\ Buffered' = Buffered
  BY <1>2, <1>3, QuietStep
<1>5. Phases' /\ NoIdleBacklog' /\ Balanced'
  BY <1>2, <1>3, <1>4 DEF IInv, Phases, NoIdleBacklog, Balanced
<1>6. QED
  BY <1>1, <1>4, <1>5 DEF IInv

\* A wait() that returns without a signal only adds to the workers on their way
\* to the queue.
LEMMA SpuriousStep ==
  ASSUME IInv, Spurious
  PROVE  IInv'
<1>1. /\ UNCHANGED <<waiting_data, processed_data, proc_counter, return_counter,
                     num_free_workers, is_waiting, cur, lines, written>>
      /\ UNCHANGED <<main, max_workers, max_pending, all_workers, malformed>>
  BY DEF Spurious, managerVars
<1>2. Wakes(pc)
  <2>1. CASE \E w \in At("asleep") : pc' = [pc EXCEPT ![w] = "get"] /\ UNCHANGED asleep
    BY <2>1 DEF IInv, TypeOK, Wakes, At, WorkerPC
  <2>2. CASE asleep' = FALSE /\ UNCHANGED pc
    BY <2>2 DEF IInv, TypeOK, Wakes
  <2>3. QED
    BY <2>1, <2>2 DEF Spurious
<1>3. TypeOK'
  BY <1>1, <1>2 DEF IInv, TypeOK, Wakes
<1>4. /\ Processing' = Processing /\ Free' = Free
      /\ At("asleep")' \subseteq At("asleep") /\ At("get") \subseteq At("get")'
      /\ At("get")' \subseteq Worker /\ At("get") \subseteq Worker
  BY <1>2 DEF Wakes, Processing, Free, At
<1>5. /\ Numbered' /\ Placed' /\ OutputInOrder' /\ FreeCountExact'
      /\ MainWakeable' /\ Buffered' = Buffered
  BY <1>1, <1>2, <1>4, QuietStep DEF Wakes
<1>6. Phases' /\ Balanced'
  BY <1>1, <1>2, <1>4, <1>5 DEF IInv, Phases, Balanced, Wakes
<1>7. NoIdleBacklog'
  <2>1. /\ Cardinality(At("get")) <= Cardinality(At("get")')
        /\ Cardinality(At("get")) \in Nat /\ Cardinality(At("get")') \in Nat
        /\ Len(waiting_data) \in Nat
    BY <1>4, NoFewer, WorkerSets, Numbers DEF IInv
  <2>2. QED
    BY <1>1, <1>4, <2>1 DEF IInv, NoIdleBacklog
<1>8. QED
  BY <1>3, <1>5, <1>6, <1>7 DEF IInv

\* putProcessedData(): the result takes the place of the worker in the accounts,
\* and main() is woken if it is the one it waits for.
LEMMA PutProcessedDataStep ==
  ASSUME IInv, NEW w \in Worker, PutProcessedData(w)
  PROVE  IInv'
<1> DEFINE f  == [pc EXCEPT ![w] = "get"]
           id == cur[w].id
<1>0. /\ NumLines \in Nat /\ lines \in 0..NumLines /\ Len(waiting_data) \in Nat
      /\ proc_counter \in 0..NumLines /\ return_counter \in 0..NumLines
      /\ num_free_workers \in Nat /\ id \in Int
  BY Numbers DEF IInv
<1>1. /\ pc[w] = "proc" /\ f[w] = "get" /\ f \in [Worker -> WorkerPC]
      /\ \A u \in Worker \ {w} : f[u] = pc[u]
  BY DEF IInv, TypeOK, PutProcessedData, WorkerPC
<1>2. Wakes(f) /\ (is_waiting /\ id = return_counter => asleep' = FALSE)
  <2>1. CASE is_waiting /\ id = return_counter
    <3>1. Broadcast(f)
      BY <2>1 DEF PutProcessedData, WakeOnResult
    <3>2. QED
      BY <1>1, <3>1, BroadcastWakes DEF IInv
  <2>2. CASE ~(is_waiting /\ id = return_counter)
    <3>1. pc' = f /\ UNCHANGED asleep
      BY <2>2 DEF PutProcessedData, WakeOnResult
    <3>2. QED
      BY <1>1, <2>2, <3>1 DEF IInv, TypeOK, Wakes
  <2>3. QED
    BY <2>1, <2>2
<1>3. /\ processed_data' = [i \in DOMAIN processed_data \cup {id} |->
                             IF i = id THEN cur[w].data ELSE processed_data[i]]
      /\ cur' = [cur EXCEPT ![w] = NoWork]
      /\ UNCHANGED <<waiting_data, proc_counter, return_counter, all_workers,
                     max_workers, max_pending, is_waiting, main, lines, written,
                     malformed>>
  BY DEF PutProcessedData
<1>4. pc'[w] = "get" /\ \A u \in Worker \ {w} :
        pc'[u] = pc[u] \/ (pc[u] = "asleep" /\ pc'[u] = "get")
  BY <1>1, <1>2 DEF Wakes
<1>5. /\ Processing' = Processing \ {w} /\ w \in Processing
      /\ Free' = Free \cup {w} /\ w \notin Free /\ Free \subseteq Worker
      /\ Processing \subseteq Worker
  BY <1>1, <1>4 DEF Processing, Free, At
<1>6. /\ id \in return_counter..(proc_counter - 1) /\ cur[w].data = id + 1
      /\ id \notin DOMAIN processed_data
      /\ \A u \in Processing \ {w} : cur'[u] = cur[u] /\ cur[u].id # id
  BY <1>3, <1>5 DEF IInv, Numbered, Placed, TypeOK
<1>7. /\ DOMAIN processed_data' = DOMAIN processed_data \cup {id}
      /\ \A i \in DOMAIN processed_data' : processed_data'[i] = i + 1
  BY <1>3, <1>6 DEF IInv, Numbered
<1>8. FreeCountExact' /\ num_free_workers' = num_free_workers + 1
      /\ num_free_workers' \in 0..Cardinality(Worker)
  <2>1. Cardinality(Free') = num_free_workers + 1
    BY <1>5, OneMore DEF IInv, FreeCountExact, Free
  <2>2. Cardinality(Free') \in Nat /\ Cardinality(Free') <= Cardinality(Worker)
        /\ Cardinality(Worker) \in Nat
    BY <1>5, WorkerSets
  <2>3. num_free_workers + 1 \in Nat /\ num_free_workers + 1 < Word
    BY <1>0, <2>1, <2>2, QueueAssumption
  <2>4. num_free_workers' = num_free_workers + 1
    BY <2>3, UnsignedExact DEF PutProcessedData, Freed
  <2>5. QED
    BY <2>1, <2>2, <2>4 DEF FreeCountExact, Free
<1>9. TypeOK'
  <2>1. cur' \in [Worker -> [id : -1..NumLines, data : 0..NumLines]]
    BY <1>0, <1>3 DEF IInv, TypeOK, NoWork
  <2>2. DOMAIN processed_data' \subseteq 0..NumLines
    BY <1>0, <1>6, <1>7 DEF IInv, TypeOK
  <2>3. \A i \in DOMAIN processed_data' : processed_data'[i] \in Line
    <3>1. \A i \in DOMAIN processed_data' : i + 1 \in Line
      BY <1>0, <1>6, <1>7 DEF IInv, Placed, Line
    <3>2. QED
      BY <1>7, <3>1
  <2>4. QED
    BY <1>2, <1>3, <1>8, <2>1, <2>2, <2>3 DEF IInv, TypeOK, Wakes
<1>10. Numbered'
  BY <1>3, <1>5, <1>6, <1>7 DEF IInv, Numbered
<1>11. Placed'
  <2>1. \A i \in return_counter..(proc_counter - 1) :
          i \in DOMAIN processed_data' \/ \E u \in Processing' : cur'[u].id = i
    BY <1>5, <1>6, <1>7 DEF IInv, Placed
  <2>2. /\ \A u \in Processing' : cur'[u].id \notin DOMAIN processed_data'
        /\ \A u, v \in Processing' : cur'[u].id = cur'[v].id => u = v
        /\ DOMAIN processed_data' \subseteq return_counter..(proc_counter - 1)
    BY <1>5, <1>6, <1>7 DEF IInv, Placed
  <2>3. QED
    BY <1>3, <2>1, <2>2 DEF IInv, Placed
<1>12. Phases'
  <2>1. At("asleep")' \subseteq At("asleep")
    BY <1>4 DEF At
  <2>2. QED
    BY <1>2, <1>3, <2>1 DEF IInv, Phases, Wakes
<1>13. OutputInOrder'
  BY <1>3 DEF IInv, OutputInOrder
<1>14. NoIdleBacklog'
  <2>1. /\ At("asleep")' \subseteq At("asleep") /\ At("get") \subseteq At("get")'
        /\ At("get")' \subseteq Worker /\ At("get") \subseteq Worker
    BY <1>1, <1>4 DEF At
  <2>2. /\ Cardinality(At("get")) <= Cardinality(At("get")')
        /\ Cardinality(At("get")) \in Nat /\ Cardinality(At("get")') \in Nat
    BY <2>1, NoFewer, WorkerSets
  <2>3. QED
    BY <1>0, <1>3, <2>1, <2>2 DEF IInv, NoIdleBacklog
<1>15. MainWakeable'
  <2>1. SUFFICES ASSUME asleep'
                 PROVE  is_waiting' /\ \E u \in Processing' : cur'[u].id = return_counter'
    BY DEF MainWakeable
  <2>2. asleep /\ is_waiting /\ id # return_counter
    BY <1>2, <2>1 DEF IInv, MainWakeable, Wakes
  <2>3. PICK u \in Processing : cur[u].id = return_counter
    BY <2>2 DEF IInv, MainWakeable
  <2>4. QED
    BY <1>3, <1>5, <1>6, <2>2, <2>3
<1>16. Balanced'
  <2>1. Cardinality(DOMAIN processed_data) \in 0..(NumLines + 1)
        /\ IsFiniteSet(DOMAIN processed_data)
    BY TableFinite DEF IInv, TypeOK
  <2>2. Cardinality(DOMAIN processed_data') = Cardinality(DOMAIN processed_data) + 1
    BY <1>6, <1>7, <2>1, FS_AddElement
  <2>3. QED
    BY <1>0, <1>3, <1>8, <2>1, <2>2 DEF IInv, Balanced, Buffered
<1>17. QED
  BY <1>8, <1>9, <1>10, <1>11, <1>12, <1>13, <1>14, <1>15, <1>16 DEF IInv

-----------------------------------------------------------------------------
(* The steps of main().                                                     *)

\* main() goes on to its next phase.
LEMMA EndOfInputStep ==
  ASSUME IInv, EndOfInput
  PROVE  IInv'
<1>1. /\ UNCHANGED <<waiting_data, processed_data, proc_counter, return_counter,
                     num_free_workers, is_waiting, cur, lines, written>>
      /\ UNCHANGED <<pc, asleep, max_workers, max_pending, all_workers, malformed>>
      /\ main = "read" /\ main' = "drain"
  BY DEF EndOfInput, managerVars, threadVars
<1>2. /\ Processing' = Processing /\ Free' = Free
      /\ At("asleep")' = At("asleep") /\ At("get")' = At("get")
  BY <1>1 DEF Processing, Free, At
<1>3. /\ Numbered' /\ Placed' /\ OutputInOrder' /\ FreeCountExact' /\ MainWakeable'
  BY <1>1, <1>2, QuietStep
<1>4. TypeOK'
  BY <1>1 DEF IInv, TypeOK, MainPC
<1>5. Phases' /\ NoIdleBacklog' /\ Balanced'
  BY <1>1, <1>2 DEF IInv, Phases, NoIdleBacklog, Balanced
<1>6. QED
  BY <1>3, <1>4, <1>5 DEF IInv

\* destroy() leaves no worker asleep.
LEMMA DestroyStep ==
  ASSUME IInv, Destroy
  PROVE  IInv'
<1>1. /\ UNCHANGED <<waiting_data, processed_data, proc_counter, return_counter,
                     num_free_workers, is_waiting, cur, lines, written>>
      /\ UNCHANGED <<max_pending, all_workers, malformed>>
      /\ main' = "join" /\ max_workers' = 0
  BY DEF Destroy
<1>2. Wakes(pc) /\ asleep' = FALSE /\ \A w \in Worker : pc'[w] # "asleep"
  BY BroadcastWakes DEF IInv, Destroy, TypeOK
<1>3. /\ Processing' = Processing /\ Free' = Free /\ At("asleep")' = {}
  BY <1>2 DEF Wakes, Processing, Free, At
<1>4. /\ Numbered' /\ Placed' /\ OutputInOrder' /\ FreeCountExact' /\ MainWakeable'
  BY <1>1, <1>2, <1>3, QuietStep
<1>5. TypeOK'
  <2>1. 0 \in 0..Cardinality(Worker)
    BY WorkerSets
  <2>2. QED
    BY <1>1, <1>2, <2>1 DEF IInv, TypeOK, MainPC, Wakes
<1>6. Phases' /\ NoIdleBacklog' /\ Balanced'
  BY <1>1, <1>2, <1>3 DEF Phases, NoIdleBacklog, Balanced
<1>7. QED
  BY <1>4, <1>5, <1>6 DEF IInv

\* The joins and the end of the program.
LEMMA JoinExitStep ==
  ASSUME IInv, Join \/ Exit
  PROVE  IInv'
<1>1. /\ UNCHANGED <<waiting_data, processed_data, proc_counter, return_counter,
                     num_free_workers, is_waiting, cur, lines, written>>
      /\ UNCHANGED <<pc, asleep, max_workers, max_pending, malformed>>
      /\ main = "join" /\ main' \in {"join", "exited"}
  BY DEF Join, Exit, managerVars, threadVars, mainVars
<1>2. all_workers' \in Seq(Worker)
  <2>1. CASE Join
    BY <2>1 DEF IInv, TypeOK, Join
  <2>2. CASE Exit
    BY <2>2 DEF IInv, TypeOK, Exit, managerVars
  <2>3. QED
    BY <2>1, <2>2
<1>3. /\ Processing' = Processing /\ Free' = Free
      /\ At("asleep")' = At("asleep") /\ At("get")' = At("get")
  BY <1>1 DEF Processing, Free, At
<1>4. /\ Numbered' /\ Placed' /\ OutputInOrder' /\ FreeCountExact' /\ MainWakeable'
  BY <1>1, <1>3, QuietStep
<1>5. TypeOK'
  BY <1>1, <1>2 DEF IInv, TypeOK, MainPC
<1>6. Phases' /\ NoIdleBacklog' /\ Balanced'
  BY <1>1, <1>3 DEF IInv, Phases, NoIdleBacklog, Balanced
<1>7. QED
  BY <1>4, <1>5, <1>6 DEF IInv

\* waitProcessedData() returns the next result: it is the output of the next
\* line.
LEMMA ReturnResultStep ==
  ASSUME IInv, WaitProcessedData, return_counter \in DOMAIN processed_data
  PROVE  IInv'
<1>0. /\ NumLines \in Nat /\ lines \in 0..NumLines /\ Len(waiting_data) \in Nat
      /\ proc_counter \in 0..NumLines /\ return_counter \in 0..NumLines
      /\ num_free_workers \in Nat
  BY Numbers DEF IInv
<1>1. /\ UNCHANGED <<waiting_data, proc_counter, num_free_workers, all_workers,
                     max_workers, max_pending, pc, cur, lines, malformed>>
      /\ main \in {"pop", "drain"} /\ ~asleep /\ asleep' = FALSE /\ is_waiting' = FALSE
      /\ main' = IF main = "pop" THEN "read" ELSE "drain"
      /\ written' = Append(written, processed_data[return_counter])
      /\ return_counter' = return_counter + 1
      /\ processed_data' = WithoutNext
  BY DEF IInv, TypeOK, WaitProcessedData, threadVars
<1>2. /\ DOMAIN processed_data' = DOMAIN processed_data \ {return_counter}
      /\ \A i \in DOMAIN processed_data' : processed_data'[i] = processed_data[i]
  BY <1>1 DEF WithoutNext, Restrict
<1>3. /\ Processing' = Processing /\ Free' = Free
      /\ At("asleep")' = At("asleep") /\ At("get")' = At("get")
      /\ Processing \subseteq Worker
  BY <1>1 DEF Processing, Free, At
<1>4. /\ processed_data[return_counter] = return_counter + 1
      /\ processed_data[return_counter] \in Line
      /\ return_counter < proc_counter
      /\ \A i \in DOMAIN processed_data : i >= return_counter /\ i \in Nat
      /\ \A w \in Processing : cur[w].id # return_counter /\ cur[w].id \in Int
  BY <1>0, <1>3, Numbers DEF IInv, TypeOK, Numbered, Placed
<1>5. TypeOK'
  <2>1. written' \in Seq(Line)
    BY <1>1, <1>4 DEF IInv, TypeOK
  <2>2. return_counter' \in 0..NumLines
    BY <1>0, <1>1, <1>4
  <2>3. main' \in MainPC
    BY <1>1 DEF MainPC
  <2>4. QED
    BY <1>1, <1>2, <2>1, <2>2, <2>3 DEF IInv, TypeOK
<1>6. Numbered'
  <2>1. \A w \in Processing : cur[w].id \in return_counter'..(proc_counter - 1)
    BY <1>0, <1>1, <1>4 DEF IInv, Numbered
  <2>2. return_counter' <= proc_counter
    BY <1>0, <1>1, <1>4
  <2>3. QED
    BY <1>1, <1>2, <1>3, <2>1, <2>2 DEF IInv, Numbered
<1>7. Placed'
  <2>1. \A i \in return_counter'..(proc_counter - 1) :
          i \in DOMAIN processed_data' \/ \E u \in Processing : cur[u].id = i
    BY <1>0, <1>1, <1>2 DEF IInv, Placed
  <2>2. DOMAIN processed_data' \subseteq return_counter'..(proc_counter - 1)
    BY <1>0, <1>1, <1>2 DEF IInv, Placed
  <2>3. QED
    BY <1>1, <1>2, <1>3, <2>1, <2>2 DEF IInv, Placed
<1>8. OutputInOrder'
  <2>1. written \in Seq(Line) /\ Len(written) = return_counter
        /\ \A i \in 1..Len(written) : written[i] = i
    BY DEF IInv, TypeOK, OutputInOrder
  <2>2. /\ Len(written') = Len(written) + 1
        /\ \A i \in 1..Len(written) : written'[i] = written[i]
        /\ written'[Len(written) + 1] = return_counter + 1
    BY <1>1, <1>4, <2>1
  <2>3. QED
    BY <1>0, <1>1, <2>1, <2>2 DEF OutputInOrder
<1>9. FreeCountExact' /\ MainWakeable' /\ NoIdleBacklog' /\ Phases'
  BY <1>1, <1>3 DEF IInv, FreeCountExact, Free, MainWakeable, NoIdleBacklog, Phases
<1>10. Balanced'
  <2>1. Cardinality(DOMAIN processed_data) \in 0..(NumLines + 1)
        /\ IsFiniteSet(DOMAIN processed_data)
    BY TableFinite DEF IInv, TypeOK
  <2>2. Cardinality(DOMAIN processed_data') = Cardinality(DOMAIN processed_data) - 1
    BY <1>2, <2>1, FS_RemoveElement
  <2>3. QED
    BY <1>0, <1>1, <2>1, <2>2 DEF IInv, Balanced, Buffered
<1>11. QED
  BY <1>5, <1>6, <1>7, <1>8, <1>9, <1>10 DEF IInv

\* waitProcessedData() returns Null or goes to sleep: in the second case some
\* worker has the result it waits for.
LEMMA NoResultStep ==
  ASSUME IInv, WaitProcessedData, return_counter \notin DOMAIN processed_data
  PROVE  IInv'
<1>0. /\ proc_counter \in 0..NumLines /\ return_counter \in 0..NumLines
      /\ NumLines \in Nat
  BY Numbers DEF IInv
<1>1. /\ UNCHANGED <<waiting_data, processed_data, proc_counter, return_counter,
                     num_free_workers, all_workers, max_workers, max_pending,
                     pc, cur, lines, written, malformed>>
      /\ main \in {"pop", "drain"} /\ ~asleep
      /\ \/ /\ main' = IF main = "pop" THEN "read" ELSE "destroy"
            /\ is_waiting' = FALSE /\ asleep' = FALSE
         \/ /\ ~NothingLeft /\ main' = main /\ is_waiting' = TRUE /\ asleep' = TRUE
  BY DEF IInv, TypeOK, WaitProcessedData, threadVars
<1>2. /\ Processing' = Processing /\ Free' = Free
      /\ At("asleep")' = At("asleep") /\ At("get")' = At("get")
  BY <1>1 DEF Processing, Free, At
<1>3. TypeOK'
  <2>1. main' \in MainPC /\ is_waiting' \in BOOLEAN /\ asleep' \in BOOLEAN
    BY <1>1 DEF MainPC
  <2>2. QED
    BY <1>1, <2>1 DEF IInv, TypeOK
<1>4. Numbered' /\ Placed'
  BY <1>1, <1>2, IdsKept DEF IInv
<1>5. OutputInOrder' /\ FreeCountExact' /\ NoIdleBacklog'
  BY <1>1, <1>2 DEF IInv, OutputInOrder, FreeCountExact, Free, NoIdleBacklog
<1>6. Phases'
  BY <1>1, <1>2 DEF IInv, Phases
<1>7. MainWakeable'
  <2>1. SUFFICES ASSUME asleep'
                 PROVE  is_waiting' /\ \E w \in Processing' : cur'[w].id = return_counter'
    BY DEF MainWakeable
  <2>2. is_waiting' /\ return_counter # proc_counter
    BY <1>1, <2>1 DEF NothingLeft
  <2>3. return_counter \in return_counter..(proc_counter - 1)
    BY <1>0, <2>2 DEF IInv, Numbered
  <2>4. \E w \in Processing : cur[w].id = return_counter
    BY <2>3 DEF IInv, Placed
  <2>5. QED
    BY <1>1, <1>2, <2>2, <2>4
<1>8. Balanced'
  <2>1. Buffered' = Buffered
    BY <1>1 DEF Buffered
  <2>2. main = "pop" => num_free_workers <= Buffered
    BY DEF IInv, Balanced
  <2>3. Buffered \in Nat /\ num_free_workers \in Nat
    BY TableFinite, Numbers DEF IInv, TypeOK, Buffered
  <2>4. QED
    BY <1>1, <2>1, <2>2, <2>3 DEF Balanced
<1>9. QED
  BY <1>3, <1>4, <1>5, <1>6, <1>7, <1>8 DEF IInv

\* putNextWork() adds the line at the end, and whether it starts a worker or
\* not, the lines in the buffers then are at least as many as the free workers.
LEMMA PutNextWorkCounts ==
  ASSUME IInv, PutNextWork
  PROVE  /\ num_free_workers \in Nat /\ Len(waiting_data) \in Nat
         /\ Len(waiting_data') = Len(waiting_data) + 1
         /\ Buffered' = Buffered + 1 /\ Buffered \in Nat
         /\ num_free_workers' \in Nat /\ num_free_workers' <= Buffered'
         /\ Buffered' < Word
         /\ \/ num_free_workers' = num_free_workers
            \/ /\ num_free_workers' = num_free_workers + 1
               /\ TooFewFree(Len(waiting_data) + 1) /\ Len(all_workers) < max_workers
<1>0. /\ num_free_workers \in Nat /\ Len(waiting_data) \in Nat /\ NumLines \in Nat
      /\ lines \in 0..NumLines /\ proc_counter \in 0..NumLines
      /\ num_free_workers <= Cardinality(Worker) /\ Cardinality(Worker) \in Nat
  BY Numbers DEF IInv
<1>1. main = "read" /\ lines < NumLines /\ waiting_data' = Append(waiting_data, lines + 1)
      /\ UNCHANGED processed_data
  BY DEF PutNextWork, Enqueued
<1>2. Len(waiting_data') = Len(waiting_data) + 1
  BY <1>1 DEF IInv, TypeOK
<1>3. Cardinality(DOMAIN processed_data) \in 0..(NumLines + 1)
  BY TableFinite DEF IInv, TypeOK
<1>4. Buffered' = Buffered + 1 /\ Buffered \in Nat /\ Len(waiting_data) <= Buffered
  <2>1. Cardinality(DOMAIN processed_data') = Cardinality(DOMAIN processed_data)
    BY <1>1
  <2>2. Cardinality(DOMAIN processed_data) \in Nat
    BY <1>0, <1>3
  <2>3. Len(waiting_data') + Cardinality(DOMAIN processed_data')
          = (Len(waiting_data) + Cardinality(DOMAIN processed_data)) + 1
    BY <1>0, <1>2, <2>1, <2>2
  <2>4. QED
    BY <1>0, <2>2, <2>3 DEF Buffered
<1>5. Len(waiting_data) < NumLines
  BY <1>0, <1>1 DEF IInv, Placed
<1>6. Buffered' < Word
  BY <1>0, <1>3, <1>4, <1>5, QueueAssumption DEF Buffered
<1>7. num_free_workers <= Buffered + 1
  BY <1>1 DEF IInv, Balanced
<1>8. CASE TooFewFree(Len(waiting_data) + 1) /\ Len(all_workers) < max_workers
  <2>1. num_free_workers < Len(waiting_data) + 1
    BY <1>8 DEF TooFewFree
  <2>2. num_free_workers + 1 \in Nat /\ num_free_workers + 1 < Word
    BY <1>0, QueueAssumption
  <2>3. num_free_workers' = num_free_workers + 1
    BY <1>8, <2>2, UnsignedExact DEF PutNextWork, Freed
  <2>4. QED
    BY <1>0, <1>2, <1>4, <1>6, <1>8, <2>1, <2>3
<1>9. CASE ~(TooFewFree(Len(waiting_data) + 1) /\ Len(all_workers) < max_workers)
  <2>1. num_free_workers' = num_free_workers
    BY <1>9 DEF PutNextWork
  <2>2. QED
    BY <1>0, <1>2, <1>4, <1>6, <1>7, <2>1
<1>10. QED
  BY <1>8, <1>9

\* What putNextWork() does to the workers: it starts one, or wakes one that
\* sleeps, or leaves them alone, and then none of them sleeps.
LEMMA PutNextWorkThreads ==
  ASSUME IInv, PutNextWork
  PROVE  /\ asleep' = FALSE /\ all_workers' \in Seq(Worker)
         /\ \/ /\ num_free_workers' = num_free_workers + 1
               /\ \E w \in At("none") : pc' = [pc EXCEPT ![w] = "get"]
            \/ /\ num_free_workers' = num_free_workers
               /\ \E w \in At("asleep") : pc' = [pc EXCEPT ![w] = "get"]
            \/ /\ num_free_workers' = num_free_workers
               /\ pc' = pc /\ At("asleep") = {}
<1> DEFINE n     == Len(waiting_data) + 1
           spawn == TooFewFree(n) /\ Len(all_workers) < max_workers
<1>0. num_free_workers \in Nat /\ Len(waiting_data) \in Nat
  BY Numbers DEF IInv
<1>1. ~asleep /\ asleep \in BOOLEAN /\ main = "read"
  BY DEF IInv, Phases, PutNextWork, TypeOK
<1>2. CASE spawn
  <2>1. num_free_workers' = num_free_workers + 1
    <3>1. num_free_workers + 1 \in Nat /\ num_free_workers + 1 < Word
      BY Numbers, QueueAssumption DEF IInv
    <3>2. QED
      BY <1>2, <3>1, UnsignedExact DEF PutNextWork, Freed
  <2>2. PICK w \in At("none") : pc' = [pc EXCEPT ![w] = "get"]
                                /\ all_workers' = <<w>> \o all_workers
    BY <1>2 DEF PutNextWork
  <2>3. UNCHANGED asleep
    BY <1>2 DEF PutNextWork
  <2>4. w \in Worker /\ all_workers \in Seq(Worker)
    BY DEF At, IInv, TypeOK
  <2>5. all_workers' \in Seq(Worker)
    BY <2>2, <2>4
  <2>6. QED
    BY <1>1, <2>1, <2>2, <2>3, <2>5
<1>3. CASE TooFewFree(n) /\ ~spawn
  <2>1. UNCHANGED <<pc, asleep, all_workers>> /\ num_free_workers' = num_free_workers
    BY <1>3 DEF PutNextWork
  <2>2. At("asleep") = {}
    <3>1. SUFFICES ASSUME NEW w \in At("asleep") PROVE FALSE
      OBVIOUS
    <3>2. /\ At("get") \cup {w} \subseteq Free /\ w \notin At("get") /\ w \in Worker
          /\ At("get") \subseteq Worker /\ Free \subseteq Worker
      BY DEF At, Free
    <3>3. Cardinality(At("get") \cup {w}) = Cardinality(At("get")) + 1
      BY <3>2, OneMore
    <3>4. Cardinality(At("get") \cup {w}) <= Cardinality(Free)
      BY <3>2, NoFewer
    <3>5. Cardinality(At("get")) \in Nat /\ Cardinality(Free) = num_free_workers
      BY <3>2, WorkerSets DEF IInv, FreeCountExact, Free
    <3>6. Len(waiting_data) <= Cardinality(At("get"))
      BY DEF IInv, NoIdleBacklog
    <3>7. num_free_workers < Len(waiting_data) + 1
      BY <1>3 DEF TooFewFree
    <3>8. QED
      BY <1>0, <3>3, <3>4, <3>5, <3>6, <3>7
  <2>3. QED
    BY <1>1, <2>1, <2>2 DEF IInv, TypeOK
<1>4. CASE ~TooFewFree(n)
  <2>1. Signal(pc) /\ UNCHANGED all_workers /\ num_free_workers' = num_free_workers
    BY <1>4 DEF PutNextWork
  <2>2. \/ At("asleep") = {} /\ pc' = pc /\ UNCHANGED asleep
        \/ \E w \in At("asleep") : pc' = [pc EXCEPT ![w] = "get"] /\ UNCHANGED asleep
    BY <1>1, <2>1 DEF Signal
  <2>3. QED
    BY <1>1, <2>1, <2>2 DEF IInv, TypeOK
<1>5. QED
  BY <1>2, <1>3, <1>4

\* putNextWork()
LEMMA PutNextWorkStep ==
  ASSUME IInv, PutNextWork
  PROVE  IInv'
<1>0. /\ NumLines \in Nat /\ lines \in 0..NumLines /\ Len(waiting_data) \in Nat
      /\ proc_counter \in 0..NumLines /\ return_counter \in 0..NumLines
      /\ num_free_workers \in Nat
  BY Numbers DEF IInv
<1>1. /\ main = "read" /\ main' \in {"read", "pop"} /\ lines < NumLines
      /\ lines' = lines + 1 /\ waiting_data' = Append(waiting_data, lines + 1)
      /\ UNCHANGED <<processed_data, proc_counter, return_counter, max_workers,
                     max_pending, is_waiting, cur, written, malformed>>
  BY DEF PutNextWork, Enqueued
<1>2. /\ Len(waiting_data') = Len(waiting_data) + 1
      /\ Buffered \in Nat /\ num_free_workers' \in Nat /\ num_free_workers' <= Buffered'
  BY PutNextWorkCounts
<1>3. /\ asleep' = FALSE /\ all_workers' \in Seq(Worker)
      /\ \/ /\ num_free_workers' = num_free_workers + 1
            /\ \E w \in At("none") : pc' = [pc EXCEPT ![w] = "get"]
         \/ /\ num_free_workers' = num_free_workers
            /\ \E w \in At("asleep") : pc' = [pc EXCEPT ![w] = "get"]
         \/ /\ num_free_workers' = num_free_workers
            /\ pc' = pc /\ At("asleep") = {}
  BY PutNextWorkThreads
<1>4. /\ pc' \in [Worker -> WorkerPC] /\ At("asleep")' \subseteq At("asleep")
      /\ Processing' = Processing
  <2>1. pc \in [Worker -> WorkerPC]
    BY DEF IInv, TypeOK
  <2>2. CASE pc' = pc
    BY <2>1, <2>2 DEF At, Processing
  <2>3. CASE \E w \in At("none") \cup At("asleep") : pc' = [pc EXCEPT ![w] = "get"]
    BY <2>1, <2>3 DEF At, Processing, WorkerPC
  <2>4. QED
    BY <1>3, <2>2, <2>3
<1>5. FreeCountExact'
  <2>1. CASE /\ num_free_workers' = num_free_workers + 1
             /\ \E w \in At("none") : pc' = [pc EXCEPT ![w] = "get"]
    <3>1. PICK w \in At("none") : pc' = [pc EXCEPT ![w] = "get"]
      BY <2>1
    <3>2. Free' = Free \cup {w} /\ w \in Worker \ Free /\ Free \subseteq Worker
      BY <3>1 DEF IInv, TypeOK, Free, At
    <3>3. QED
      BY <2>1, <3>2, OneMore DEF IInv, FreeCountExact, Free
  <2>2. CASE /\ num_free_workers' = num_free_workers
             /\ \E w \in At("asleep") : pc' = [pc EXCEPT ![w] = "get"]
    <3>1. Free' = Free
      BY <2>2 DEF IInv, TypeOK, Free, At
    <3>2. QED
      BY <2>2, <3>1 DEF IInv, FreeCountExact, Free
  <2>3. CASE num_free_workers' = num_free_workers /\ pc' = pc
    BY <2>3 DEF IInv, FreeCountExact, At
  <2>4. QED
    BY <1>3, <2>1, <2>2, <2>3
<1>6. num_free_workers' \in 0..Cardinality(Worker)
  <2>1. Free' \subseteq Worker
    BY DEF Free, At
  <2>2. QED
    BY <1>2, <1>5, <2>1, WorkerSets DEF FreeCountExact, Free
<1>7. /\ waiting_data \in Seq(Line) /\ waiting_data' \in Seq(Line)
      /\ \A i \in 1..Len(waiting_data) : waiting_data'[i] = waiting_data[i]
      /\ waiting_data'[Len(waiting_data) + 1] = lines + 1
  <2>1. lines + 1 \in Line /\ waiting_data \in Seq(Line)
    BY <1>0, <1>1 DEF IInv, TypeOK, Line
  <2>2. QED
    BY <1>1, <2>1
<1>8. TypeOK'
  <2>1. lines' \in 0..NumLines /\ main' \in MainPC
    BY <1>0, <1>1 DEF MainPC
  <2>2. QED
    BY <1>1, <1>3, <1>4, <1>6, <1>7, <2>1 DEF IInv, TypeOK
<1>9. Numbered'
  BY <1>0, <1>1, <1>4 DEF IInv, Numbered
<1>10. Placed'
  <2>1. Len(waiting_data) = lines - proc_counter
        /\ \A i \in 1..Len(waiting_data) : waiting_data[i] = proc_counter + i
    BY DEF IInv, Placed
  <2>2. Len(waiting_data') = lines' - proc_counter
    BY <1>0, <1>1, <1>2, <2>1
  <2>3. \A i \in 1..Len(waiting_data') : waiting_data'[i] = proc_counter + i
    <3>1. ASSUME NEW i \in 1..Len(waiting_data) PROVE waiting_data'[i] = proc_counter + i
      BY <1>7, <2>1, <3>1
    <3>2. waiting_data'[Len(waiting_data) + 1] = proc_counter + (Len(waiting_data) + 1)
      BY <1>0, <1>7, <2>1
    <3>3. Len(waiting_data) \in Nat
      BY <1>7
    <3>4. QED
      BY <1>2, <3>1, <3>2, <3>3
  <2>4. QED
    BY <1>1, <1>4, <2>2, <2>3 DEF IInv, Placed
<1>11. Phases' /\ OutputInOrder' /\ MainWakeable'
  BY <1>1, <1>3, <1>4 DEF IInv, Phases, OutputInOrder, MainWakeable
<1>12. Balanced'
  <2>1. num_free_workers' <= Buffered' + 1
    BY <1>2, PutNextWorkCounts
  <2>2. QED
    BY <1>2, <2>1 DEF Balanced
<1>13. NoIdleBacklog'
  <2>1. SUFFICES ASSUME At("asleep")' # {} PROVE Len(waiting_data') <= Cardinality(At("get")')
    BY DEF NoIdleBacklog
  <2>2. At("asleep") # {}
    BY <1>4, <2>1
  <2>3. PICK w \in At("none") \cup At("asleep") : pc' = [pc EXCEPT ![w] = "get"]
    BY <1>3, <2>2
  <2>4. /\ At("get")' = At("get") \cup {w} /\ w \in Worker \ At("get")
        /\ At("get") \subseteq Worker
    BY <2>3 DEF IInv, TypeOK, At
  <2>5. Cardinality(At("get")') = Cardinality(At("get")) + 1
    BY <2>4, OneMore
  <2>6. Cardinality(At("get")) \in Nat
    BY <2>4, WorkerSets
  <2>7. Len(waiting_data) <= Cardinality(At("get"))
    BY <2>2 DEF IInv, NoIdleBacklog
  <2>8. QED
    BY <1>0, <1>2, <2>5, <2>6, <2>7
<1>14. QED
  BY <1>5, <1>8, <1>9, <1>10, <1>11, <1>12, <1>13 DEF IInv

-----------------------------------------------------------------------------
(* The theorems.                                                            *)

\* The program starts in the invariant.
LEMMA InitInvariant ==
  Init => IInv
<1> SUFFICES ASSUME Init PROVE IInv
  OBVIOUS
<1>1. /\ Free = {} /\ Processing = {} /\ At("asleep") = {}
  BY DEF Init, Free, Processing, At
<1>2. Cardinality({}) = 0 /\ Cardinality(Worker) \in Nat
  BY FS_EmptySet, WorkerSets
<1>3. DOMAIN processed_data = {} /\ Len(waiting_data) = 0 /\ Len(written) = 0
  BY DEF Init
<1>4. max_workers \in 1..Cardinality(Worker) /\ max_pending \in Nat
  BY QueueAssumption DEF Init
<1>5. TypeOK
  <2>1. cur \in [Worker -> [id : -1..NumLines, data : 0..NumLines]]
        /\ pc \in [Worker -> WorkerPC]
    BY QueueAssumption DEF Init, NoWork, WorkerPC
  <2>2. 0 \in 0..NumLines /\ 0 \in 0..Cardinality(Worker)
    BY <1>2, QueueAssumption
  <2>3. /\ waiting_data \in Seq(Line) /\ written \in Seq(Line)
        /\ all_workers \in Seq(Worker)
    BY DEF Init
  <2>4. /\ proc_counter = 0 /\ return_counter = 0 /\ num_free_workers = 0 /\ lines = 0
        /\ is_waiting \in BOOLEAN /\ main \in MainPC /\ asleep \in BOOLEAN
        /\ malformed \in Faulty
    BY DEF Init, MainPC
  <2>5. max_workers \in 0..Cardinality(Worker)
    BY <1>2, <1>4
  <2>6. QED
    BY <1>3, <1>4, <2>1, <2>2, <2>3, <2>4, <2>5 DEF TypeOK
<1>6. Numbered
  BY <1>1, <1>3 DEF Init, Numbered
<1>7. Placed
  BY <1>1, <1>3 DEF Init, Placed
<1>8. Phases /\ MainWakeable
  BY <1>1, <1>2, <1>4 DEF Init, Phases, MainWakeable
<1>9. OutputInOrder
  BY <1>3 DEF Init, OutputInOrder
<1>10. FreeCountExact /\ NoIdleBacklog
  BY <1>1, <1>2 DEF Init, FreeCountExact, Free, NoIdleBacklog
<1>11. Balanced
  BY <1>2, <1>3 DEF Init, Balanced, Buffered
<1>12. QED
  BY <1>5, <1>6, <1>7, <1>8, <1>9, <1>10, <1>11 DEF IInv

\* Every step keeps it.
LEMMA NextInvariant ==
  IInv /\ [Next]_vars => IInv'
<1> SUFFICES ASSUME IInv, [Next]_vars PROVE IInv'
  OBVIOUS
<1>1. CASE PutNextWork
  BY <1>1, PutNextWorkStep
<1>2. CASE EndOfInput
  BY <1>2, EndOfInputStep
<1>3. CASE WaitProcessedData
  BY <1>3, ReturnResultStep, NoResultStep
<1>4. CASE Destroy
  BY <1>4, DestroyStep
<1>5. CASE Join \/ Exit
  BY <1>5, JoinExitStep
<1>6. ASSUME NEW w \in Worker, WorkerStep(w) PROVE IInv'
  BY <1>6, TakeWorkStep, NoWorkLeftStep, PutProcessedDataStep, ProcessThrowsStep
     DEF WorkerStep
<1>7. CASE Spurious
  BY <1>7, SpuriousStep
<1>8. CASE UNCHANGED vars
  <2>1. UNCHANGED <<waiting_data, processed_data, proc_counter, return_counter,
                    num_free_workers, all_workers, max_workers, max_pending,
                    is_waiting, pc, cur, main, asleep, lines, written, malformed>>
    BY <1>8 DEF vars, managerVars, threadVars, mainVars
  <2>2. /\ Processing' = Processing /\ Free' = Free
        /\ At("asleep")' = At("asleep") /\ At("get")' = At("get")
    BY <2>1 DEF Processing, Free, At
  <2>3. /\ Numbered' /\ Placed' /\ OutputInOrder' /\ FreeCountExact'
        /\ MainWakeable' /\ Buffered' = Buffered
    BY <2>1, <2>2, QuietStep
  <2>4. TypeOK' /\ Phases' /\ NoIdleBacklog' /\ Balanced'
    BY <2>1, <2>2, <2>3 DEF IInv, TypeOK, Phases, NoIdleBacklog, Balanced
  <2>5. QED
    BY <2>3, <2>4 DEF IInv
<1>9. QED
  BY <1>1, <1>2, <1>3, <1>4, <1>5, <1>6, <1>7, <1>8 DEF Next, MainStep, Exited

\* The inductive invariant of the queue holds throughout: buffers, counters,
\* workers and main() of processExtract() agree.
THEOREM QueueInvariant == Spec => []IInv
  BY InitInvariant, NextInvariant, PTL DEF Spec

\* Every variable keeps its type; num_free_workers never wraps.
THEOREM TypeCorrect == Spec => []TypeOK
<1>1. IInv => TypeOK
  BY DEF IInv
<1>2. QED
  BY <1>1, QueueInvariant, PTL

\* The outputs are written in the order of the lines, without a gap and without
\* a repetition, whatever order the workers finish in.
THEOREM InOrder == Spec => []OutputInOrder
<1>1. IInv => OutputInOrder
  BY DEF IInv
<1>2. QED
  BY <1>1, QueueInvariant, PTL

\* Every line that was read and not written is in exactly one place: queued,
\* with one worker, or stored for main().
THEOREM Accounted == Spec => []ResultsAccounted
<1>1. IInv => ResultsAccounted
  <2>1. SUFFICES ASSUME IInv PROVE ResultsAccounted
    OBVIOUS
  <2>2. ASSUME NEW id \in return_counter..(proc_counter - 1)
        PROVE  IF id \in DOMAIN processed_data
                 THEN \A w \in Processing : cur[w].id # id
                 ELSE \E w \in Processing :
                        cur[w].id = id /\ \A u \in Processing \ {w} : cur[u].id # id
    <3>1. CASE id \in DOMAIN processed_data
      BY <2>1, <3>1 DEF IInv, Placed
    <3>2. CASE id \notin DOMAIN processed_data
      <4>1. PICK w \in Processing : cur[w].id = id
        BY <2>1, <3>2 DEF IInv, Placed
      <4>2. \A u \in Processing \ {w} : cur[u].id # id
        BY <2>1, <4>1 DEF IInv, Placed
      <4>3. QED
        BY <3>2, <4>1, <4>2
    <3>3. QED
      BY <3>1, <3>2
  <2>3. QED
    BY <2>1, <2>2 DEF IInv, Placed, ResultsAccounted
<1>2. QED
  BY <1>1, QueueInvariant, PTL

\* num_free_workers is exactly the number of workers without a line.
THEOREM FreeCount == Spec => []FreeCountExact
<1>1. IInv => FreeCountExact
  BY DEF IInv
<1>2. QED
  BY <1>1, QueueInvariant, PTL

\* A worker sleeps only while the awake ones are enough for the queue, although
\* signal() may wake the wrong thread.
THEOREM NoBacklog == Spec => []NoIdleBacklog
<1>1. IInv => NoIdleBacklog
  BY DEF IInv
<1>2. QED
  BY <1>1, QueueInvariant, PTL

\* While main() sleeps the result it waits for is with a worker that will see
\* that it waits, unless that worker was ended by an exception.
THEOREM Wakeable == Spec => []MainWakeable
<1>1. IInv => MainWakeable
  BY DEF IInv
<1>2. QED
  BY <1>1, QueueInvariant, PTL

\* putNextWork() asks for a pop only when the buffers are overloaded: its
\* unsigned difference never wraps.
THEOREM PopsOverload == Spec => PopOnlyWhenOverloaded
<1>1. IInv /\ [Next]_vars => [PutNextWork /\ main' = "pop" => Overloaded']_vars
  <2>1. SUFFICES ASSUME IInv, PutNextWork, main' = "pop" PROVE Overloaded'
    OBVIOUS
  <2>2. /\ Len(waiting_data') = Len(waiting_data) + 1 /\ Buffered' = Buffered + 1
        /\ Buffered \in Nat /\ num_free_workers' \in Nat
        /\ num_free_workers' <= Buffered' /\ Buffered' < Word
    BY <2>1, PutNextWorkCounts
  <2>3. UNCHANGED <<processed_data, return_counter, max_pending>>
    BY <2>1 DEF PutNextWork
  <2>4. \/ Excess(Len(waiting_data) + 1, Cardinality(DOMAIN processed_data),
                  num_free_workers') > max_pending
        \/ return_counter \in DOMAIN processed_data
    BY <2>1 DEF PutNextWork
  <2>5. Buffered' - num_free_workers' \in Nat /\ Buffered' - num_free_workers' < Word
    <3>1. \A b, f \in Nat : f <= b /\ b < Word => b - f \in Nat /\ b - f < Word
      BY QueueAssumption
    <3>2. Buffered' \in Nat
      BY <2>2
    <3>3. QED
      BY <2>2, <3>1, <3>2
  <2>6. /\ Len(waiting_data) \in Nat /\ Len(waiting_data') \in Nat
        /\ Cardinality(DOMAIN processed_data) \in Nat
    BY <2>1, <2>2, Numbers, TableFinite, QueueAssumption DEF IInv, TypeOK
  <2>7. Buffered' - num_free_workers'
          = Len(waiting_data') + (Cardinality(DOMAIN processed_data) - num_free_workers')
    <3>1. Buffered' = Len(waiting_data') + Cardinality(DOMAIN processed_data)
      BY <2>3 DEF Buffered
    <3>2. QED
      BY <2>2, <2>6, <3>1
  <2>8. Excess(Len(waiting_data) + 1, Cardinality(DOMAIN processed_data),
               num_free_workers') = Buffered' - num_free_workers'
    <3>1. Unsigned(Buffered' - num_free_workers') = Buffered' - num_free_workers'
      BY <2>5, UnsignedExact
    <3>2. QED
      BY <2>2, <2>7, <3>1 DEF Excess
  <2>9. \/ Buffered' - num_free_workers' > max_pending'
        \/ return_counter' \in DOMAIN processed_data'
    BY <2>3, <2>4, <2>8
  <2>10. QED
    BY <2>3, <2>7, <2>9 DEF Overloaded
<1>2. QED
  BY <1>1, QueueInvariant, PTL DEF Spec, PopOnlyWhenOverloaded

-----------------------------------------------------------------------------
(* The way of a line through the program.                                   *)

\* How far a line has come: not read, waiting, with a worker, stored for main(),
\* written.
Stage(l) ==
  IF l \in Range(written) THEN 4
  ELSE IF l \in Range(processed_data) THEN 3
  ELSE IF \E w \in Processing : cur[w].data = l THEN 2
  ELSE IF l \in Range(waiting_data) THEN 1 ELSE 0

\* A step moves a line on by one stage or leaves it where it is.
LinesMoveOn == \A l \in Line : Stage(l)' \in {Stage(l), Stage(l) + 1}

\* The stage of a line as the counters and the ids of the table tell it.
Counted(l) ==
  IF l <= return_counter THEN 4
  ELSE IF l - 1 \in DOMAIN processed_data THEN 3
  ELSE IF l <= proc_counter THEN 2
  ELSE IF l <= lines THEN 1 ELSE 0

\* A list of consecutive numbers holds the numbers between its ends.
LEMMA Consecutive ==
  ASSUME NEW s \in Seq(Int), NEW b \in Nat, \A i \in 1..Len(s) : s[i] = b + i, NEW l \in Nat
  PROVE  l \in Range(s) <=> b < l /\ l <= b + Len(s)
<1>1. Len(s) \in Nat /\ DOMAIN s = 1..Len(s)
  OBVIOUS
<1>2. l \in Range(s) <=> \E i \in 1..Len(s) : l = s[i]
  BY <1>1 DEF Range
<1>3. ASSUME b < l, l <= b + Len(s) PROVE l \in Range(s)
  <2>1. l - b \in 1..Len(s) /\ b + (l - b) = l
    BY <1>1, <1>3
  <2> QED
    BY <1>2, <2>1
<1>4. ASSUME NEW i \in 1..Len(s), l = s[i] PROVE b < l /\ l <= b + Len(s)
  BY <1>1, <1>4
<1> QED
  BY <1>2, <1>3, <1>4

\* What is stored, with workers, waiting and written is what the counters say.
LEMMA StageCounted == IInv => \A l \in Line : Stage(l) = Counted(l)
<1> SUFFICES ASSUME IInv, NEW l \in Line PROVE Stage(l) = Counted(l)
  OBVIOUS
<1>1. /\ NumLines \in Nat /\ lines \in 0..NumLines /\ Len(waiting_data) \in Nat
      /\ proc_counter \in 0..NumLines /\ return_counter \in 0..NumLines
      /\ return_counter <= proc_counter /\ proc_counter <= lines
      /\ Len(waiting_data) = lines - proc_counter
  BY Numbers DEF IInv, Numbered, Placed
<1>2. l \in Nat /\ l >= 1 /\ l - 1 \in Nat
  BY <1>1 DEF Line
<1>3. l \in Range(written) <=> l <= return_counter
  <2>1. /\ written \in Seq(Line) /\ Len(written) = return_counter
        /\ \A i \in 1..Len(written) : written[i] = i
    BY DEF IInv, TypeOK, OutputInOrder
  <2>2. written \in Seq(Int) /\ \A i \in 1..Len(written) : written[i] = 0 + i
    <3>1. Line \subseteq Int
      BY DEF Line
    <3>2. \A i \in 1..Len(written) : written[i] = 0 + i
      BY <2>1
    <3> QED
      BY <2>1, <3>1, <3>2
  <2>3. l \in Range(written) <=> 0 < l /\ l <= 0 + Len(written)
    BY <1>2, <2>2, Consecutive
  <2> QED
    BY <1>1, <1>2, <2>1, <2>3
<1>4. l \in Range(processed_data) <=> l - 1 \in DOMAIN processed_data
  <2>1. /\ \A i \in DOMAIN processed_data : processed_data[i] = i + 1
        /\ DOMAIN processed_data \subseteq Nat
    BY <1>1 DEF IInv, Numbered, TypeOK
  <2> QED
    BY <1>2, <2>1 DEF Range
<1>5. ASSUME l - 1 \notin DOMAIN processed_data, return_counter < l
      PROVE  (\E w \in Processing : cur[w].data = l) <=> l <= proc_counter
  <2>1. \A w \in Processing : /\ cur[w].id \in return_counter..(proc_counter - 1)
                              /\ cur[w].data = cur[w].id + 1
    BY DEF IInv, Numbered
  <2>2. ASSUME l <= proc_counter PROVE \E w \in Processing : cur[w].data = l
    <3>1. l - 1 \in return_counter..(proc_counter - 1)
      BY <1>1, <1>2, <1>5, <2>2
    <3>2. PICK w \in Processing : cur[w].id = l - 1
      BY <1>5, <3>1 DEF IInv, Placed
    <3>3. cur[w].data = l
      BY <1>2, <2>1, <3>2
    <3> QED
      BY <3>3
  <2>3. ASSUME NEW w \in Processing, cur[w].data = l PROVE l <= proc_counter
    BY <1>1, <1>2, <2>1, <2>3
  <2> QED
    BY <2>2, <2>3
<1>6. l \in Range(waiting_data) <=> proc_counter < l /\ l <= lines
  <2>1. /\ waiting_data \in Seq(Line)
        /\ \A i \in 1..Len(waiting_data) : waiting_data[i] = proc_counter + i
    BY DEF IInv, TypeOK, Placed
  <2>2. waiting_data \in Seq(Int) /\ proc_counter \in Nat
    <3>1. Line \subseteq Int
      BY DEF Line
    <3> QED
      BY <1>1, <2>1, <3>1
  <2>3. l \in Range(waiting_data) <=> proc_counter < l /\ l <= proc_counter + Len(waiting_data)
    BY <1>2, <2>1, <2>2, Consecutive
  <2> QED
    BY <1>1, <1>2, <2>3
<1> QED
  BY <1>1, <1>2, <1>3, <1>4, <1>5, <1>6 DEF Stage, Counted

\* A step moves one counter on, or stores one result, or neither.
LEMMA StepCounts ==
  ASSUME IInv, [Next]_vars
  PROVE  \/ UNCHANGED <<processed_data, proc_counter, return_counter, lines>>
         \/ /\ lines' = lines + 1
            /\ UNCHANGED <<processed_data, proc_counter, return_counter>>
         \/ /\ proc_counter' = proc_counter + 1 /\ proc_counter < lines
            /\ UNCHANGED <<processed_data, return_counter, lines>>
         \/ /\ \E id \in return_counter..(proc_counter - 1) :
                 DOMAIN processed_data' = DOMAIN processed_data \cup {id}
            /\ UNCHANGED <<proc_counter, return_counter, lines>>
         \/ /\ return_counter \in DOMAIN processed_data
            /\ DOMAIN processed_data' = DOMAIN processed_data \ {return_counter}
            /\ return_counter' = return_counter + 1
            /\ UNCHANGED <<proc_counter, lines>>
<1>1. CASE \E w \in Worker : TakeWork(w)
  <2>1. /\ waiting_data # <<>> /\ proc_counter' = proc_counter + 1
        /\ UNCHANGED <<processed_data, return_counter, lines>>
    BY <1>1 DEF TakeWork
  <2>2. Len(waiting_data) = lines - proc_counter /\ Len(waiting_data) > 0
    BY <2>1 DEF IInv, TypeOK, Placed
  <2>3. proc_counter < lines
    BY <2>2, Numbers DEF IInv
  <2> QED
    BY <2>1, <2>3
<1>2. CASE \E w \in Worker : PutProcessedData(w)
  <2>1. PICK w \in Worker :
          /\ pc[w] = "proc" /\ DOMAIN processed_data' = DOMAIN processed_data \cup {cur[w].id}
          /\ UNCHANGED <<proc_counter, return_counter, lines>>
    BY <1>2 DEF PutProcessedData
  <2>2. cur[w].id \in return_counter..(proc_counter - 1)
    BY <2>1 DEF IInv, Numbered, Processing, At
  <2> QED
    BY <2>1, <2>2
<1>3. CASE WaitProcessedData
  <2>1. CASE return_counter \in DOMAIN processed_data
    <3>1. /\ processed_data' = WithoutNext /\ return_counter' = return_counter + 1
          /\ UNCHANGED <<proc_counter, lines>>
      BY <1>3, <2>1 DEF WaitProcessedData
    <3>2. DOMAIN processed_data' = DOMAIN processed_data \ {return_counter}
      BY <3>1 DEF WithoutNext, Restrict
    <3> QED
      BY <2>1, <3>1, <3>2
  <2>2. CASE return_counter \notin DOMAIN processed_data
    BY <1>3, <2>2 DEF WaitProcessedData
  <2> QED
    BY <2>1, <2>2
<1>4. CASE PutNextWork
  BY <1>4 DEF PutNextWork
<1>5. CASE EndOfInput \/ Destroy \/ Join \/ Exit \/ Spurious \/ UNCHANGED vars
  BY <1>5 DEF EndOfInput, Destroy, Join, Exit, Spurious, vars, managerVars, threadVars, mainVars
<1>6. CASE \E w \in Worker : NoWorkLeft(w) \/ ProcessThrows(w)
  BY <1>6 DEF NoWorkLeft, ProcessThrows, managerVars, threadVars, mainVars
<1> QED
  BY <1>1, <1>2, <1>3, <1>4, <1>5, <1>6 DEF Next, MainStep, WorkerStep, Exited

\* Every line goes from the input over the queue, a worker and the table of
\* results to the output, one stage at a time: no step drops it, returns it or
\* does it again, and what is written stays.
THEOREM EveryLineMovesOn == Spec => [][LinesMoveOn]_vars
<1>1. IInv => \A l \in Line : Stage(l) = Counted(l)
  BY StageCounted
<1>2. IInv' => (\A l \in Line : Stage(l) = Counted(l))'
  BY <1>1, PTL
<1>3. ASSUME IInv, [Next]_vars PROVE LinesMoveOn
  <2>1. IInv'
    BY <1>3, NextInvariant
  <2> SUFFICES ASSUME NEW l \in Line PROVE Stage(l)' \in {Stage(l), Stage(l) + 1}
    BY DEF LinesMoveOn
  <2>2. Stage(l) = Counted(l) /\ Stage(l)' = Counted(l)'
    BY <1>1, <1>2, <1>3, <2>1
  <2>3. /\ NumLines \in Nat /\ lines \in 0..NumLines
        /\ proc_counter \in 0..NumLines /\ return_counter \in 0..NumLines
        /\ return_counter <= proc_counter /\ proc_counter <= lines
        /\ DOMAIN processed_data \subseteq return_counter..(proc_counter - 1)
    BY <1>3, Numbers DEF IInv, Numbered, Placed
  <2>4. l \in Nat /\ l >= 1 /\ l - 1 \in Nat
    BY <2>3 DEF Line
  <2>5. Counted(l)' \in {Counted(l), Counted(l) + 1}
    <3> DEFINE D == DOMAIN processed_data
    <3>1. CASE UNCHANGED <<processed_data, proc_counter, return_counter, lines>>
      BY <3>1 DEF Counted
    <3>2. CASE lines' = lines + 1 /\ UNCHANGED <<processed_data, proc_counter, return_counter>>
      BY <2>3, <2>4, <3>2 DEF Counted
    <3>3. CASE /\ proc_counter' = proc_counter + 1 /\ proc_counter < lines
               /\ UNCHANGED <<processed_data, return_counter, lines>>
      BY <2>3, <2>4, <3>3 DEF Counted
    <3>4. CASE /\ \E id \in return_counter..(proc_counter - 1) : D' = D \cup {id}
               /\ UNCHANGED <<proc_counter, return_counter, lines>>
      <4>1. PICK id \in return_counter..(proc_counter - 1) : D' = D \cup {id}
        BY <3>4
      <4>2. l - 1 = id => l <= proc_counter /\ ~(l <= return_counter)
        BY <2>3, <2>4, <4>1
      <4> QED
        BY <3>4, <4>1, <4>2 DEF Counted
    <3>5. CASE /\ return_counter \in D /\ D' = D \ {return_counter}
               /\ return_counter' = return_counter + 1 /\ UNCHANGED <<proc_counter, lines>>
      <4>1. l <= return_counter' <=> l <= return_counter \/ l - 1 = return_counter
        BY <2>3, <2>4, <3>5
      <4>2. l - 1 = return_counter => ~(l <= return_counter)
        BY <2>3, <2>4
      <4> QED
        BY <3>5, <4>1, <4>2 DEF Counted
    <3> QED
      BY <1>3, <3>1, <3>2, <3>3, <3>4, <3>5, StepCounts
  <2> QED
    BY <2>2, <2>5
<1>4. IInv /\ [Next]_vars => [LinesMoveOn]_vars
  BY <1>3
<1> QED
  BY <1>4, QueueInvariant, PTL DEF Spec
=============================================================================
