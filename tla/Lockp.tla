------------------------------- MODULE Lockp -------------------------------
(***************************************************************************)
(* Lockp: locks kept in the two low bits of a pointer.                     *)
(*                                                                         *)
(*   0 unlocked              2 unlocked, conditional locking switched on   *)
(*   3 locked                1 locked, the unlocking thread has to wake    *)
(*                                                                         *)
(* A thread that finds the pointer locked turns 3 into 1 and sleeps on one *)
(* of 256 MutexConds, chosen by the pointer's address: Bucket.  Every      *)
(* access to the pointer is a step of its own; the mutex of a bucket is    *)
(* held over several steps by a thread inside lock() and for one step by   *)
(* p_wake().                                                               *)
(*                                                                         *)
(* The conditional operations (c...) work without atomic instructions as   *)
(* long as the state is 0: the pointer then belongs to one thread, Owner,  *)
(* which publishes it by creset(true).  creset(false) is not modelled.     *)
(*                                                                         *)
(* Whatever a thread stores is the value in own, and what it gets back it  *)
(* keeps there: values are handed around like the free memory blocks of    *)
(* MM_default.                                                             *)
(***************************************************************************)
EXTENDS Naturals

CONSTANTS
  Thread,
  Ptr,      \* pointers that are locked
  Cond,     \* those of Ptr used by the conditional operations
  Use,      \* Use[t]: the pointers that thread t works on
  Owner,    \* Owner[p]: the thread that may use p while it is in state 0
  Bucket,   \* Bucket[p]: index of p in low_conds
  Val,      \* pointer values, the low bits taken off
  FirstOwn, \* FirstOwn[t]: the value t will store first
  FirstVal, \* FirstVal[p]: the value p starts with
  Ops,      \* Ops[t]: the operations that thread t uses
  None,     \* no thread
  MaxOps    \* bound: operations per thread

ASSUME LockpAssumption ==
  /\ Cond \subseteq Ptr
  /\ Use \in [Thread -> SUBSET Ptr]
  /\ Owner \in [Cond -> Thread]
  /\ None \notin Thread
  /\ FirstOwn \in [Thread -> Val] /\ FirstVal \in [Ptr -> Val]
  /\ Ptr # {} /\ Val # {}
  /\ Ops \in [Thread -> SUBSET {"lock", "xchg", "clock", "cmem", "cxchg", "creset"}]
  /\ MaxOps \in Nat

VARIABLES
  ptr,    \* ptr[p] = [v |-> value, b |-> low bits]
  own,    \* own[t]: the value t will store
  pc, op, at,   \* place of a thread, its operation and pointer
  fn,     \* the function it is in
  val,    \* what it read from the pointer
  cond,   \* lock(): cond is not NULL
  done    \* operations finished

vars == <<ptr, own, pc, op, at, fn, val, cond, done>>

-----------------------------------------------------------------------------

\* A thread that is in no operation has no local variables; these stand in.
AnyPtr == CHOOSE p \in Ptr : TRUE
NoVal  == [v |-> CHOOSE v \in Val : TRUE, b |-> 0]

Init ==
  /\ ptr \in [Ptr -> [v : Val, b : {0, 2}]]
  /\ \A p \in Ptr : ptr[p].v = FirstVal[p]
  /\ \A p \in Ptr \ Cond : ptr[p].b = 0
  /\ own = FirstOwn
  /\ pc = [t \in Thread |-> "idle"]
  /\ op = [t \in Thread |-> "lock"]
  /\ at = [t \in Thread |-> AnyPtr]
  /\ fn = [t \in Thread |-> "lock"]
  /\ val = [t \in Thread |-> NoVal]
  /\ cond = [t \in Thread |-> FALSE]
  /\ done = [t \in Thread |-> 0]

\* Operations and the functions they may enter by: the inlined one, or the one
\* behind it.  "cmem" stands for i_cmem, i_cref and i_crefc, which look at the
\* object and leave the pointer as it was.
Entry(o) ==
  CASE o = "lock"   -> {"lock", "i_lock"}
    [] o = "xchg"   -> {"xchg", "i_xchg"}
    [] o = "clock"  -> {"p_clock", "i_clock"}
    [] o = "cmem"   -> {"p_clock", "i_clock"}
    [] o = "cxchg"  -> {"p_cxchg", "i_cxchg"}
    [] o = "creset" -> {"creset"}

PlainOp == {"lock", "xchg"}
CondOp  == {"clock", "cmem", "cxchg", "creset"}

\* Where a function goes when its own attempt fails.
Fallback(f) ==
  CASE f = "i_lock"  -> "lock"
    [] f = "i_xchg"  -> "xchg"
    [] f = "xchg"    -> "i_lock"
    [] f = "i_clock" -> "p_clock"
    [] f = "p_clock" -> "i_lock"
    [] f = "i_cxchg" -> "p_cxchg"
    [] f = "p_cxchg" -> "lock"
    [] f = "creset"  -> "lock"

CClock == {"i_clock", "p_clock"}
CXchg  == {"i_cxchg", "p_cxchg"}

Start(t, p, o, f) ==
  /\ pc[t] = "idle"
  /\ done[t] < MaxOps
  /\ p \in Use[t]
  /\ o \in Ops[t] \cap (IF p \in Cond THEN CondOp ELSE PlainOp)
  /\ p \in Cond /\ ptr[p].b = 0 => t = Owner[p]
  /\ f \in Entry(o)
  /\ op' = [op EXCEPT ![t] = o]
  /\ at' = [at EXCEPT ![t] = p]
  /\ fn' = [fn EXCEPT ![t] = f]
  /\ pc' = [pc EXCEPT ![t] = "read"]
  /\ UNCHANGED <<ptr, own, val, cond, done>>

Forget(t) ==
  /\ op' = [op EXCEPT ![t] = "lock"]
  /\ at' = [at EXCEPT ![t] = AnyPtr]
  /\ fn' = [fn EXCEPT ![t] = "lock"]
  /\ val' = [val EXCEPT ![t] = NoVal]
  /\ done' = [done EXCEPT ![t] = @ + 1]

Return(t) ==
  /\ pc' = [pc EXCEPT ![t] = "idle"]
  /\ Forget(t)

Goto(t, where) ==
  /\ pc' = [pc EXCEPT ![t] = where]
  /\ UNCHANGED <<op, at, done>>

\* The function's own attempt failed: the next one starts afresh.
GiveUp(t) ==
  /\ fn' = [fn EXCEPT ![t] = Fallback(fn[t])]
  /\ val' = [val EXCEPT ![t] = NoVal]
  /\ Goto(t, "read")

\* Variant: a function that is to give up on a locked pointer tries all the same.
ReadUnlessMarked(t) ==
  /\ pc[t] = "read"
  /\ val' = [val EXCEPT ![t] = ptr[at[t]]]
  /\ Goto(t, IF fn[t] \in CClock \cup CXchg /\ ptr[at[t]].b = 0 THEN "open" ELSE "cas")
  /\ UNCHANGED <<ptr, own, fn, cond>>

\* The first look at the pointer.  lock() supposes that it is unlocked; the
\* conditional functions do without locking in state 0; the others do not try
\* if it is locked.
Read(t) ==
  /\ pc[t] = "read"
  /\ LET x == ptr[at[t]]
         locked == x.b \in {1, 3}
         Saw(y, where) == /\ val' = [val EXCEPT ![t] = y]
                          /\ Goto(t, where) /\ UNCHANGED fn
     IN \/ fn[t] = "lock"
             /\ Saw(IF locked THEN [x EXCEPT !.b = @ - 1] ELSE x, "cas")
        \/ fn[t] \in CClock \cup CXchg /\ Saw(x, IF x.b = 0 THEN "open" ELSE "cas")
        \/ fn[t] \in {"i_lock", "i_xchg", "xchg", "creset"}
             /\ IF locked THEN GiveUp(t) ELSE Saw(x, "cas")
  /\ UNCHANGED <<ptr, own, cond>>

\* The value cmpxchg expects, and the one it stores.
Expected(t) ==
  IF fn[t] \in CClock \cup CXchg THEN [val[t] EXCEPT !.b = 2] ELSE val[t]

\* Variant: lock() always leaves state 3 behind.
StoredPlain(t) ==
  CASE fn[t] \in CClock \cup {"lock", "i_lock"} -> [val[t] EXCEPT !.b = 3]
    [] fn[t] \in {"i_xchg", "xchg"} -> [v |-> own[t], b |-> 0]
    [] fn[t] \in CXchg              -> [v |-> own[t], b |-> 2]
    [] fn[t] = "creset"             -> [val[t] EXCEPT !.b = 2]

Stored(t) ==
  CASE fn[t] = "lock"              -> [val[t] EXCEPT !.b = IF cond[t] THEN 1 ELSE 3]
    [] fn[t] \in CClock \cup {"i_lock"} -> [val[t] EXCEPT !.b = 3]
    [] fn[t] \in {"i_xchg", "xchg"}     -> [v |-> own[t], b |-> 0]
    [] fn[t] \in CXchg                  -> [v |-> own[t], b |-> 2]
    [] fn[t] = "creset"                 -> [val[t] EXCEPT !.b = 2]

Exchanges(t) == fn[t] \in {"i_xchg", "xchg"} \cup CXchg

\* Variant: the exchange of i_cxchg() does not compare.
CasBlind(t) ==
  /\ pc[t] = "cas"
  /\ ptr[at[t]] = Expected(t) \/ (Exchanges(t) /\ ptr[at[t]].b = 2)
  /\ ptr' = [ptr EXCEPT ![at[t]] = Stored(t)]
  /\ own' = IF Exchanges(t) THEN [own EXCEPT ![t] = val[t].v] ELSE own
  /\ cond' = [cond EXCEPT ![t] = FALSE]
  /\ IF Exchanges(t) \/ fn[t] = "creset"
       THEN Return(t)
       ELSE /\ val' = [val EXCEPT ![t] = Expected(t)]
            /\ Goto(t, "in") /\ UNCHANGED fn

CasSucceeds(t) ==
  /\ pc[t] = "cas"
  /\ ptr[at[t]] = Expected(t)
  /\ ptr' = [ptr EXCEPT ![at[t]] = Stored(t)]
  /\ own' = IF Exchanges(t) THEN [own EXCEPT ![t] = val[t].v] ELSE own
  /\ cond' = [cond EXCEPT ![t] = FALSE]         \* cond->unlock()
  /\ IF Exchanges(t) \/ fn[t] = "creset"
       THEN Return(t)
       ELSE /\ val' = [val EXCEPT ![t] = Expected(t)]
            /\ Goto(t, "in") /\ UNCHANGED fn

CasFails(t) ==
  /\ pc[t] = "cas"
  /\ ptr[at[t]] # Expected(t)
  /\ IF fn[t] = "lock" THEN Goto(t, "retry") /\ UNCHANGED <<fn, val>> ELSE GiveUp(t)
  /\ UNCHANGED <<ptr, own, cond>>

\* lock(), from the label retry on.
Retry(t) ==
  /\ pc[t] = "retry"
  /\ val' = [val EXCEPT ![t] = ptr[at[t]]]
  /\ Goto(t, CASE ptr[at[t]].b \in {0, 2} -> "cas"
               [] ptr[at[t]].b = 3        -> "mark"
               [] ptr[at[t]].b = 1        -> IF cond[t] THEN "check" ELSE "enter")
  /\ UNCHANGED <<ptr, own, fn, cond>>

\* 3 becomes 1: the thread that unlocks has to wake somebody.
Mark(t) ==
  /\ pc[t] = "mark"
  /\ IF ptr[at[t]] = val[t]
       THEN /\ ptr' = [ptr EXCEPT ![at[t]].b = 1]
            /\ val' = [val EXCEPT ![t].b = 1]
            /\ Goto(t, IF cond[t] THEN "check" ELSE "enter")
       ELSE Goto(t, "retry") /\ UNCHANGED <<ptr, val>>
  /\ UNCHANGED <<own, fn, cond>>

\* cond is kept while the thread sleeps, its mutex is not.
MutexFree(b) ==
  \A u \in Thread :
    ~(cond[u] /\ Bucket[at[u]] = b /\ pc[u] \notin {"asleep", "woken"})

Enter(t) ==
  /\ pc[t] = "enter"
  /\ MutexFree(Bucket[at[t]])
  /\ cond' = [cond EXCEPT ![t] = TRUE]
  /\ Goto(t, "check")
  /\ UNCHANGED <<ptr, own, fn, val>>

\* Variant: the pointer is not looked at again under the mutex.
CheckNothing(t) ==
  /\ pc[t] = "check"
  /\ Goto(t, "asleep")
  /\ UNCHANGED <<ptr, own, fn, val, cond>>

Check(t) ==
  /\ pc[t] = "check"
  /\ Goto(t, IF ptr[at[t]] = val[t] THEN "asleep" ELSE "retry")
  /\ UNCHANGED <<ptr, own, fn, val, cond>>

\* pthread_cond_wait() may return without a signal.
Spurious(t) ==
  /\ pc[t] = "asleep"
  /\ Goto(t, "woken")
  /\ UNCHANGED <<ptr, own, fn, val, cond>>

Rewaken(t) ==
  /\ pc[t] = "woken"
  /\ MutexFree(Bucket[at[t]])
  /\ Goto(t, "retry")
  /\ UNCHANGED <<ptr, own, fn, val, cond>>

\* What the thread that is inside stores on leaving: the low bits are 0 for a
\* plain pointer, 2 for creset(true), else those it found.
NewVal(t) ==
  [v |-> IF op[t] \in {"cmem", "creset"} THEN val[t].v ELSE own[t],
   b |-> CASE op[t] \in PlainOp -> 0 [] op[t] = "creset" -> 2 [] OTHER -> val[t].b]

TakeAway(t) ==
  own' = IF op[t] \in {"cmem", "creset"} THEN own
                                         ELSE [own EXCEPT ![t] = val[t].v]

\* unlock(), i_unlock() and cunlock() of a locked pointer.
Unlock(t) ==
  /\ pc[t] = "in"
  /\ ptr' = [ptr EXCEPT ![at[t]] = NewVal(t)]
  /\ TakeAway(t)
  /\ IF ptr[at[t]].b \in {0, 1} THEN Goto(t, "wake") /\ UNCHANGED <<fn, val>>
                               ELSE Return(t)
  /\ UNCHANGED cond

\* The end of a conditional operation that found state 0: a plain store.
OpenStore(t) ==
  /\ pc[t] = "open"
  /\ ptr' = IF op[t] = "cmem" THEN ptr
                              ELSE [ptr EXCEPT ![at[t]] = [v |-> own[t], b |-> 0]]
  /\ TakeAway(t)
  /\ Return(t)
  /\ UNCHANGED cond

Sleepers(b) == {u \in Thread : pc[u] = "asleep" /\ Bucket[at[u]] = b}

\* One thread of the bucket is signalled, whichever pointer it waits for.
p_wake(t) ==
  LET b == Bucket[at[t]] IN
  /\ pc[t] = "wake"
  /\ MutexFree(b)
  /\ \/ \E u \in Sleepers(b) : pc' = [pc EXCEPT ![t] = "idle", ![u] = "woken"]
     \/ Sleepers(b) = {} /\ pc' = [pc EXCEPT ![t] = "idle"]
  /\ Forget(t)
  /\ UNCHANGED <<ptr, own, cond>>

Step(t) ==
  \/ Read(t) \/ CasSucceeds(t) \/ CasFails(t)
  \/ Retry(t) \/ Mark(t) \/ Enter(t) \/ Check(t) \/ Rewaken(t)
  \/ Unlock(t) \/ OpenStore(t) \/ p_wake(t)

Next ==
  \E t \in Thread :
    \/ \E p \in Ptr, o \in Ops[t] : \E f \in Entry(o) : Start(t, p, o, f)
    \/ Step(t)
    \/ Spurious(t)

Spec == Init /\ [][Next]_vars

\* A thread that can go on does, and leaves what it locked; a signal is the
\* only thing that is sure to end a wait.
LiveSpec == Spec /\ \A t \in Thread : WF_vars(Step(t))

-----------------------------------------------------------------------------
(* Properties.                                                              *)

\* Every variable keeps its type; a plain pointer is never in state 2.
TypeOK ==
  /\ ptr \in [Ptr -> [v : Val, b : 0..3]]
  /\ \A p \in Ptr \ Cond : ptr[p].b # 2
  /\ own \in [Thread -> Val]
  /\ pc \in [Thread -> {"idle", "read", "cas", "retry", "mark", "enter", "check",
                        "asleep", "woken", "in", "open", "wake"}]
  /\ op \in [Thread -> PlainOp \cup CondOp]
  /\ at \in [Thread -> Ptr]
  /\ fn \in [Thread -> {"lock", "i_lock", "xchg", "i_xchg", "p_clock", "i_clock",
                        "p_cxchg", "i_cxchg", "creset"}]
  /\ val \in [Thread -> [v : Val, b : 0..3]]
  /\ cond \in [Thread -> BOOLEAN]
  /\ done \in [Thread -> 0..MaxOps]

Inside(t, p) == pc[t] \in {"in", "open"} /\ at[t] = p

\* The lock as seen from outside.
Cell == [p \in Ptr |-> ptr[p].v]
Holder ==
  [p \in Ptr |-> IF \E t \in Thread : Inside(t, p)
                   THEN CHOOSE t \in Thread : Inside(t, p) ELSE None]

Abstract == INSTANCE PointerLock WITH cell <- Cell, holder <- Holder

\* Every operation, by whichever of its paths, is an indivisible exchange or a
\* section during which nobody else enters or changes the value: what a thread
\* got from lock() is still there when it unlocks, and values are handed over
\* without loss or duplication.
ImplementsPointerLock == Abstract!Spec

\* The assertion in unlock(), and its reverse: the low bit is set exactly while
\* some thread holds the lock, and only one does.
LockedIffHeld ==
  \A p \in Ptr :
    /\ ptr[p].b \in {1, 3} <=> \E t \in Thread : pc[t] = "in" /\ at[t] = p
    /\ \A t, u \in Thread : Inside(t, p) /\ Inside(u, p) => t = u

\* Sleepers are not forgotten although p_wake() signals any one thread of the
\* bucket, be it one that waits for another pointer: as long as a thread sleeps
\* on a bucket, some pointer of the bucket is held by a thread that has to wake,
\* a thread is on its way to p_wake(), or a waiter of the bucket is up and will
\* take its pointer over in state 1.
SleeperRemembered ==
  \A t \in Thread :
    pc[t] = "asleep" =>
      \/ \E p \in Ptr : Bucket[p] = Bucket[at[t]] /\ ptr[p].b = 1
      \/ \E u \in Thread :
           /\ Bucket[at[u]] = Bucket[at[t]]
           /\ pc[u] = "wake" \/ (cond[u] /\ pc[u] # "asleep")

\* Once conditional locking is on it stays on: no operation, waiting or not,
\* takes a pointer back to the state in which threads do not lock it.
LockingSticks ==
  [][\A p \in Cond : ptr[p].b # 0 => ptr'[p].b # 0]_vars

\* Every operation returns.
OperationReturns == \A t \in Thread : (pc[t] # "idle") ~> (pc[t] = "idle")
=============================================================================
