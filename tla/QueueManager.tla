---------------------------- MODULE QueueManager ----------------------------
(***************************************************************************)
(* The parallel filter of the sqldump_filt program: main() reads lines,    *)
(* queues them for a pool of worker threads and writes the results in the  *)
(* order of the lines (QueueManager, and processExtract() of main.cxx).    *)
(*                                                                         *)
(* All state of the QueueManager is guarded by access_lock, so each locked *)
(* region up to its unlock() or wait() is one step.  main() and the workers*)
(* wait on the one condition of that lock.  A line is its number, and so   *)
(* is the output processOneData() makes from it.                           *)
(***************************************************************************)
EXTENDS Integers, Sequences, FiniteSets, Functions

CONSTANTS
  NumLines,   \* the lines of the input are 1..NumLines
  Faulty,     \* sets of lines processOneData() may throw InvalidFormatException on
  Worker,     \* identities of the worker threads
  Options,    \* the pairs <<max_workers, max_pending>> the program starts with
  Word        \* unsigned arithmetic is modulo this number

ASSUME QueueAssumption ==
  /\ NumLines \in Nat
  /\ Faulty \subseteq SUBSET (1..NumLines) /\ Faulty # {}
  /\ IsFiniteSet(Worker)
  /\ Options \subseteq (1..Cardinality(Worker)) \X Nat
  /\ Word \in Nat /\ Word > 2 * NumLines + Cardinality(Worker) + 1

VARIABLES
  waiting_data, processed_data, proc_counter, return_counter,
  num_free_workers, all_workers, max_workers, max_pending, is_waiting,
  pc,        \* where each worker is in runWorker()
  cur,       \* the id and the data a worker got from getNextWork()
  main,      \* where main() is
  asleep,    \* main() is in the wait() of waitProcessedData()
  malformed, \* the lines of the input that are not valid
  lines,     \* how many lines main() has read
  written    \* what main() has written

managerVars == <<waiting_data, processed_data, proc_counter, return_counter,
                 num_free_workers, all_workers, max_workers, max_pending,
                 is_waiting>>
threadVars  == <<pc, cur>>
mainVars    == <<main, asleep, lines, written, malformed>>
vars == <<managerVars, threadVars, mainVars>>

-----------------------------------------------------------------------------

Line == 1..NumLines

\* "get": at the lock of getNextWork(), or woken from its wait(); "proc": in
\* processOneData(); "done" and "thrown": runWorker() returned or was left by
\* an exception.
WorkerPC == {"none", "get", "asleep", "proc", "done", "thrown"}

\* "read" and "pop": the reading loop of processExtract(), before a line is
\* read and after putNextWork() returned true; "drain": its second loop;
\* "destroy" and "join": ~QueueManager, at its lock and joining the workers.
MainPC == {"read", "pop", "drain", "destroy", "join", "exited"}

NoWork == [id |-> -1, data |-> 0]

Init ==
  /\ waiting_data = <<>>
  /\ processed_data = <<>>
  /\ proc_counter = 0
  /\ return_counter = 0
  /\ num_free_workers = 0
  /\ all_workers = <<>>
  /\ \E o \in Options : max_workers = o[1] /\ max_pending = o[2]
  /\ is_waiting = FALSE
  /\ pc = [w \in Worker |-> "none"]
  /\ cur = [w \in Worker |-> NoWork]
  /\ main = "read"
  /\ asleep = FALSE
  /\ malformed \in Faulty
  /\ lines = 0
  /\ written = <<>>

Unsigned(n) == n % Word

\* num_free_workers++ of a worker that is new or has stored its result, and
\* num_free_workers-- of one that takes a line. 
Freed           == Unsigned(num_free_workers + 1)
Busied          == Unsigned(num_free_workers - 1)

-----------------------------------------------------------------------------
(* The condition of access_lock, shared by main() and the workers.          *)

At(place) == {w \in Worker : pc[w] = place}

\* signal() wakes one of the threads in wait(), and does nothing when there is
\* none.  f is pc after the other changes of the step.
Signal(f) ==
  \/ At("asleep") = {} /\ ~asleep /\ pc' = f /\ UNCHANGED asleep
  \/ \E w \in At("asleep") : pc' = [f EXCEPT ![w] = "get"] /\ UNCHANGED asleep
  \/ asleep /\ asleep' = FALSE /\ pc' = f

Broadcast(f) ==
  /\ pc' = [w \in Worker |-> IF f[w] = "asleep" THEN "get" ELSE f[w]]
  /\ asleep' = FALSE

\* A wait() may return without a signal.
Spurious ==
  /\ \/ \E w \in At("asleep") : pc' = [pc EXCEPT ![w] = "get"] /\ UNCHANGED asleep
     \/ asleep /\ asleep' = FALSE /\ UNCHANGED pc
  /\ UNCHANGED <<managerVars, cur, main, lines, written, malformed>>

-----------------------------------------------------------------------------
(* The worker thread: runWorker().                                          *)

\* getNextWork() finds work: the oldest line gets the next id.
TakeWork(w) ==
  /\ pc[w] = "get" /\ max_workers # 0 /\ waiting_data # <<>>
  /\ cur' = [cur EXCEPT ![w] = [id |-> proc_counter, data |-> Head(waiting_data)]]
  /\ waiting_data' = Tail(waiting_data)
  /\ proc_counter' = proc_counter + 1
  /\ num_free_workers' = Busied
  /\ Signal([pc EXCEPT ![w] = "proc"])
  /\ UNCHANGED <<processed_data, return_counter, all_workers, max_workers,
                 max_pending, is_waiting, main, lines, written, malformed>>

\* getNextWork() finds no work and waits, or returns -1 after destroy().
NoWorkLeft(w) ==
  /\ pc[w] = "get" /\ (max_workers = 0 \/ waiting_data = <<>>)
  /\ pc' = [pc EXCEPT ![w] = IF max_workers = 0 THEN "done" ELSE "asleep"]
  /\ UNCHANGED <<managerVars, cur, mainVars>>

\* Variant: one thread is woken where all have to be.
WakeOnResultOne(id, f) ==
  IF is_waiting /\ id = return_counter THEN Signal(f)
  ELSE pc' = f /\ UNCHANGED asleep

\* All sleepers are woken, main() among them, if it waits for this result.
WakeOnResult(id, f) ==
  IF is_waiting /\ id = return_counter THEN Broadcast(f)
  ELSE pc' = f /\ UNCHANGED asleep

\* processOneData() ends and putProcessedData() stores what it returned.
PutProcessedData(w) ==
  LET id == cur[w].id IN
  /\ pc[w] = "proc" /\ cur[w].data \notin malformed
  /\ processed_data' = [i \in DOMAIN processed_data \cup {id} |->
                          IF i = id THEN cur[w].data ELSE processed_data[i]]
  /\ WakeOnResult(id, [pc EXCEPT ![w] = "get"])
  /\ num_free_workers' = Freed
  /\ cur' = [cur EXCEPT ![w] = NoWork]
  /\ UNCHANGED <<waiting_data, proc_counter, return_counter, all_workers,
                 max_workers, max_pending, is_waiting, main, lines, written, malformed>>

\* processOneData() throws: the thread ends, and nobody hears of its line.
ProcessThrows(w) ==
  /\ pc[w] = "proc" /\ cur[w].data \in malformed
  /\ pc' = [pc EXCEPT ![w] = "thrown"]
  /\ UNCHANGED <<managerVars, cur, mainVars>>

-----------------------------------------------------------------------------
(* main(): processExtract() and the destructor of the QueueManager.         *)

\* The unsigned difference putNextWork() compares with max_pending: it wraps
\* with more free workers than lines waiting or processed.
Excess(waiting, processed, free) == Unsigned(waiting + processed - free)

\* Variant: the list is a stack.
EnqueuedFirst(line) == <<line>> \o waiting_data

Enqueued(line) == Append(waiting_data, line)

\* Variant: a worker too few is taken to be enough.
TooFewFreeOrEqual(n) == num_free_workers <= n

\* There are not enough free workers for n waiting lines.
TooFewFree(n) == num_free_workers < n

\* A line is read and putNextWork() called with it.
PutNextWork ==
  LET n     == Len(waiting_data) + 1
      spawn == TooFewFree(n) /\ Len(all_workers) < max_workers
  IN
  /\ main = "read" /\ lines < NumLines
  /\ lines' = lines + 1
  /\ waiting_data' = Enqueued(lines + 1)
  /\ \/ /\ spawn
        /\ \E w \in At("none") : /\ pc' = [pc EXCEPT ![w] = "get"]
                                 /\ all_workers' = <<w>> \o all_workers
        /\ UNCHANGED asleep
     \/ TooFewFree(n) /\ ~spawn /\ UNCHANGED <<pc, asleep, all_workers>>
     \/ ~TooFewFree(n) /\ Signal(pc) /\ UNCHANGED all_workers
  /\ num_free_workers' = IF spawn THEN Freed ELSE num_free_workers
  /\ main' = IF \/ Excess(n, Cardinality(DOMAIN processed_data),
                          num_free_workers') > max_pending
                \/ return_counter \in DOMAIN processed_data
             THEN "pop" ELSE "read"
  /\ UNCHANGED <<processed_data, proc_counter, return_counter, max_workers,
                 max_pending, is_waiting, cur, written, malformed>>

EndOfInput ==
  /\ main = "read" /\ lines = NumLines
  /\ main' = "drain"
  /\ UNCHANGED <<managerVars, threadVars, asleep, lines, written, malformed>>

\* The test that makes waitProcessedData() return Null.
NothingLeft == return_counter = proc_counter

\* processed_data.remove(return_counter)
WithoutNext == Restrict(processed_data, DOMAIN processed_data \ {return_counter})

\* waitProcessedData(), entered or woken, up to its next unlock() or wait().
WaitProcessedData ==
  /\ main \in {"pop", "drain"} /\ ~asleep
  /\ \/ /\ return_counter \in DOMAIN processed_data
        /\ written' = Append(written, processed_data[return_counter])
        /\ processed_data' = WithoutNext
        /\ return_counter' = return_counter + 1
        /\ main' = IF main = "pop" THEN "read" ELSE "drain"
        /\ is_waiting' = FALSE
        /\ UNCHANGED asleep
     \/ /\ return_counter \notin DOMAIN processed_data /\ NothingLeft
        /\ main' = IF main = "pop" THEN "read" ELSE "destroy"
        /\ is_waiting' = FALSE
        /\ UNCHANGED <<processed_data, return_counter, written, asleep>>
     \/ /\ return_counter \notin DOMAIN processed_data /\ ~NothingLeft
        /\ is_waiting' = TRUE
        /\ asleep' = TRUE
        /\ UNCHANGED <<processed_data, return_counter, written, main>>
  /\ UNCHANGED <<waiting_data, proc_counter, num_free_workers, all_workers,
                 max_workers, max_pending, threadVars, lines, malformed>>

\* destroy() up to its first unlock().
Destroy ==
  /\ main = "destroy"
  /\ Broadcast(pc)
  /\ max_workers' = 0
  /\ main' = "join"
  /\ UNCHANGED <<waiting_data, processed_data, proc_counter, return_counter,
                 num_free_workers, all_workers, max_pending, is_waiting, cur,
                 lines, written, malformed>>

\* The loop of destroy(): the first worker of the list has ended.
Join ==
  /\ main = "join"
  /\ all_workers # <<>> /\ pc[Head(all_workers)] \in {"done", "thrown"}
  /\ all_workers' = Tail(all_workers)
  /\ UNCHANGED <<waiting_data, processed_data, proc_counter, return_counter,
                 num_free_workers, max_workers, max_pending, is_waiting,
                 threadVars, mainVars>>

Exit ==
  /\ main = "join" /\ all_workers = <<>>
  /\ main' = "exited"
  /\ UNCHANGED <<managerVars, threadVars, asleep, lines, written, malformed>>

Exited == main = "exited" /\ UNCHANGED vars

-----------------------------------------------------------------------------

MainStep == PutNextWork \/ EndOfInput \/ WaitProcessedData \/ Destroy \/ Join \/ Exit

WorkerStep(w) ==
  TakeWork(w) \/ NoWorkLeft(w) \/ PutProcessedData(w) \/ ProcessThrows(w)

Next == MainStep \/ (\E w \in Worker : WorkerStep(w)) \/ Spurious \/ Exited

Spec == Init /\ [][Next]_vars

\* Threads are scheduled and processOneData() ends.
Fairness == WF_vars(MainStep) /\ \A w \in Worker : WF_vars(WorkerStep(w))

FairSpec == Spec /\ Fairness

-----------------------------------------------------------------------------
(* Properties.                                                              *)

TypeOK ==
  /\ waiting_data \in Seq(Line)
  /\ DOMAIN processed_data \subseteq 0..NumLines
  /\ \A i \in DOMAIN processed_data : processed_data[i] \in Line
  /\ proc_counter \in 0..NumLines /\ return_counter \in 0..NumLines
  /\ num_free_workers \in 0..Cardinality(Worker)
  /\ all_workers \in Seq(Worker)
  /\ max_workers \in 0..Cardinality(Worker) /\ max_pending \in Nat
  /\ is_waiting \in BOOLEAN
  /\ pc \in [Worker -> WorkerPC]
  /\ cur \in [Worker -> [id : -1..NumLines, data : 0..NumLines]]
  /\ main \in MainPC /\ asleep \in BOOLEAN
  /\ malformed \in Faulty /\ lines \in 0..NumLines /\ written \in Seq(Line)

\* Whatever order the workers finish in, the program writes the outputs of its
\* lines in the order of the lines, each at most once and without a gap.
OutputInOrder ==
  /\ Len(written) = return_counter
  /\ \A i \in 1..Len(written) : written[i] = i

Processing == At("proc") \cup At("thrown")

\* Nothing read is lost between the queues: an id that was given out and not
\* yet returned is either stored in processed_data or with exactly one worker,
\* and the lines that have no id yet are those of waiting_data.
ResultsAccounted ==
  /\ \A id \in return_counter..(proc_counter - 1) :
       IF id \in DOMAIN processed_data
         THEN \A w \in Processing : cur[w].id # id
         ELSE \E w \in Processing :
                cur[w].id = id /\ \A u \in Processing \ {w} : cur[u].id # id
  /\ DOMAIN processed_data \subseteq return_counter..(proc_counter - 1)
  /\ Len(waiting_data) = lines - proc_counter
  /\ \A i \in 1..Len(waiting_data) : waiting_data[i] = proc_counter + i

\* num_free_workers, by which putNextWork() decides between a new thread and a
\* signal, is the number of workers without a line; it never wraps below zero.
FreeCountExact ==
  num_free_workers = Cardinality(At("get") \cup At("asleep") \cup At("done"))

\* No worker is left asleep with work for it: while one sleeps there are at
\* least as many awake workers on their way to the queue as it has lines.
NoIdleBacklog ==
  At("asleep") # {} => Len(waiting_data) <= Cardinality(At("get"))

\* When main() sleeps the result it waits for is still to come: a worker has
\* it, unless processOneData() threw, and that worker will see is_waiting.
MainWakeable ==
  asleep => /\ is_waiting
            /\ \E w \in Processing : cur[w].id = return_counter

\* With valid lines the program ends: main() gets every result it waits for, and
\* every worker sees that destroy() wants it to stop.
ProgramEnds == malformed = {} => <>(main = "exited")

\* What waitProcessedData() documents for Null, "there are no more data", as
\* the final loop of processExtract() relies on it: when that loop ends every
\* line of the input has been written.
AllOutputWritten ==
  main \in {"destroy", "join", "exited"} => Len(written) = NumLines

\* Free workers take a line each; the rest is what has to be buffered.
Overloaded ==
  \/ Len(waiting_data) + Cardinality(DOMAIN processed_data) - num_free_workers
       > max_pending
  \/ return_counter \in DOMAIN processed_data

\* What putNextWork() documents: it returns true only if the buffers are
\* overloaded and should be popped.  Its unsigned difference would wrap, and ask
\* for a pop of empty buffers, with more free workers than lines in the buffers;
\* main() pops at most one line for each it puts, so that never happens.
PopOnlyWhenOverloaded == [][PutNextWork /\ main' = "pop" => Overloaded']_vars
=============================================================================
