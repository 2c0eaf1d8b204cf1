---------------------------- MODULE LockpProofs ----------------------------
(***************************************************************************)
(* Proofs about Lockp, for any number of threads, pointers and operations  *)
(* and for any assignment of pointers to condition variables.              *)
(***************************************************************************)
EXTENDS Lockp, TLAPS

-----------------------------------------------------------------------------
(* The inductive invariant.                                                 *)

CondFn == CClock \cup CXchg

\* Which function an operation can be in, and on which kind of pointer.
InFunction ==
  \A t \in Thread :
    /\ fn[t] \in CClock => op[t] \in {"clock", "cmem"}
    /\ fn[t] \in CXchg => op[t] = "cxchg"
    /\ fn[t] = "creset" => op[t] = "creset"
    /\ fn[t] \in {"i_xchg", "xchg"} => op[t] = "xchg"
    /\ pc[t] # "idle" => (op[t] \in CondOp <=> at[t] \in Cond) /\ done[t] < MaxOps

\* What a thread knows of the value it read, by its place.
KnowsOf(t) ==
  /\ pc[t] = "cas" => IF fn[t] \in CondFn THEN val[t].b # 0 ELSE val[t].b \in {0, 2}
  /\ pc[t] = "mark" => val[t].b = 3
  /\ pc[t] \in {"enter", "check"} => val[t].b = 1
  /\ pc[t] \in {"retry", "mark", "enter", "check", "asleep", "woken"} => fn[t] = "lock"
  /\ pc[t] \in {"check", "asleep", "woken"} => cond[t]
  /\ cond[t] => /\ pc[t] \in {"retry", "cas", "mark", "check", "asleep", "woken"}
                /\ fn[t] = "lock"
  /\ pc[t] = "in" => val[t].v = ptr[at[t]].v /\ val[t].b \in {0, 2}
  /\ pc[t] = "open" => /\ fn[t] \in CondFn
                       /\ val[t] = ptr[at[t]] /\ ptr[at[t]].b = 0

Knows == \A t \in Thread : KnowsOf(t)

\* A conditional operation that got past state 0 will not see it again.
Passed(t) ==
  /\ op[t] \in {"clock", "cmem", "cxchg"}
  /\ \/ pc[t] = "read" /\ fn[t] \in {"lock", "i_lock"}
     \/ pc[t] \in {"cas", "retry", "mark", "enter", "check", "asleep", "woken", "in"}

SwitchedOn ==
  \A t \in Thread :
    Passed(t) => /\ ptr[at[t]].b # 0
                 /\ pc[t] = "in" => val[t].b = 2

\* While a conditional pointer is in state 0 only its owner works on it.
Private ==
  \A t \in Thread :
    pc[t] # "idle" /\ at[t] \in Cond /\ ptr[at[t]].b = 0 => t = Owner[at[t]]

IInv ==
  /\ TypeOK /\ LockedIffHeld
  /\ InFunction /\ Knows /\ SwitchedOn /\ Private
  /\ SleeperRemembered

-----------------------------------------------------------------------------
(* Facts about the helpers.                                                 *)

\* The values that stand in for the local variables of an idle thread.
LEMMA Placeholders == AnyPtr \in Ptr /\ NoVal \in [v : Val, b : 0..3]
  BY LockpAssumption DEF AnyPtr, NoVal

\* Where the functions go on when their own attempt fails.
LEMMA FallbackFn ==
  /\ Fallback("i_lock") = "lock" /\ Fallback("creset") = "lock"
  /\ Fallback("i_xchg") = "xchg" /\ Fallback("xchg") = "i_lock"
  /\ Fallback("i_clock") = "p_clock" /\ Fallback("p_clock") = "i_lock"
  /\ Fallback("i_cxchg") = "p_cxchg" /\ Fallback("p_cxchg") = "lock"
  BY DEF Fallback

\* What cmpxchg expects is a well-formed pointer: the value that was read, with
\* the bits of an unlocked pointer.
LEMMA ExpectedValue ==
  ASSUME IInv, NEW t \in Thread, pc[t] = "cas"
  PROVE  /\ Expected(t) \in [v : Val, b : {0, 2}]
         /\ Expected(t).v = val[t].v
         /\ fn[t] \in CondFn => Expected(t).b = 2
         /\ fn[t] \notin CondFn => Expected(t) = val[t]
  BY DEF IInv, TypeOK, Knows, KnowsOf, Expected, CondFn

\* What cmpxchg stores, by the kind of attempt.
LEMMA StoredValue ==
  ASSUME IInv, NEW t \in Thread, pc[t] = "cas"
  PROVE  /\ Stored(t) \in [v : Val, b : 0..3]
         /\ Exchanges(t) => /\ Stored(t).v = own[t]
                            /\ Stored(t).b = IF fn[t] \in CXchg THEN 2 ELSE 0
         /\ fn[t] = "creset" => Stored(t).v = val[t].v /\ Stored(t).b = 2
         /\ ~Exchanges(t) /\ fn[t] # "creset" =>
              /\ Stored(t).v = val[t].v
              /\ Stored(t).b = IF cond[t] THEN 1 ELSE 3
<1>1. fn[t] \in {"lock", "i_lock", "xchg", "i_xchg", "p_clock", "i_clock",
                 "p_cxchg", "i_cxchg", "creset"}
      /\ val[t] \in [v : Val, b : 0..3] /\ own[t] \in Val /\ cond[t] \in BOOLEAN
      /\ (cond[t] => fn[t] = "lock")
  BY DEF IInv, TypeOK, Knows, KnowsOf
<1>2. CASE fn[t] = "lock"
  BY <1>1, <1>2 DEF Stored, Exchanges, CClock, CXchg
<1>3. CASE fn[t] = "i_lock"
  BY <1>1, <1>3 DEF Stored, Exchanges, CClock, CXchg
<1>4. CASE fn[t] \in {"i_xchg", "xchg"}
  BY <1>1, <1>4 DEF Stored, Exchanges, CClock, CXchg
<1>5. CASE fn[t] \in CClock
  BY <1>1, <1>5 DEF Stored, Exchanges, CClock, CXchg
<1>6. CASE fn[t] \in CXchg
  BY <1>1, <1>6 DEF Stored, Exchanges, CClock, CXchg
<1>7. CASE fn[t] = "creset"
  BY <1>1, <1>7 DEF Stored, Exchanges, CClock, CXchg
<1>8. QED
  BY <1>1, <1>2, <1>3, <1>4, <1>5, <1>6, <1>7 DEF CClock, CXchg

\* What a thread that is inside stores on leaving.
LEMMA NewValue ==
  ASSUME IInv, NEW t \in Thread, pc[t] = "in"
  PROVE  /\ NewVal(t) \in [v : Val, b : {0, 2}]
         /\ NewVal(t).v = IF op[t] \in {"cmem", "creset"} THEN val[t].v ELSE own[t]
         /\ NewVal(t).b = IF at[t] \in Cond THEN 2 ELSE 0
<1>1. op[t] \in PlainOp \cup CondOp /\ val[t] \in [v : Val, b : 0..3] /\ own[t] \in Val
      /\ (op[t] \in CondOp <=> at[t] \in Cond)
      /\ (op[t] \in {"clock", "cmem", "cxchg"} => val[t].b = 2)
  BY DEF IInv, TypeOK, Knows, KnowsOf, InFunction, SwitchedOn, Passed
<1>2. CASE op[t] \in PlainOp
  BY <1>1, <1>2 DEF NewVal, PlainOp, CondOp
<1>3. CASE op[t] = "creset"
  BY <1>1, <1>3 DEF NewVal, PlainOp, CondOp
<1>4. CASE op[t] \in {"clock", "cmem", "cxchg"}
  BY <1>1, <1>4 DEF NewVal, PlainOp, CondOp
<1>5. QED
  BY <1>1, <1>2, <1>3, <1>4 DEF PlainOp, CondOp

-----------------------------------------------------------------------------
(* What the steps with several outcomes do to the thread that takes them.   *)

FnName == {"lock", "i_lock", "xchg", "i_xchg", "p_clock", "i_clock",
           "p_cxchg", "i_cxchg", "creset"}

\* A step of t leaves the other threads where they are.
OnlyThread(t) ==
  /\ pc' = [pc EXCEPT ![t] = pc'[t]]
  /\ fn' = [fn EXCEPT ![t] = fn'[t]]
  /\ val' = [val EXCEPT ![t] = val'[t]]
  /\ cond' = [cond EXCEPT ![t] = cond'[t]]
  /\ op' = [op EXCEPT ![t] = op'[t]]
  /\ at' = [at EXCEPT ![t] = at'[t]]
  /\ done' = [done EXCEPT ![t] = done'[t]]

\* Giving up changes the function and forgets what was read.
LEMMA GiveUpEffect ==
  ASSUME TypeOK, NEW t \in Thread, fn[t] # "lock", GiveUp(t)
  PROVE  /\ pc' = [pc EXCEPT ![t] = "read"]
         /\ fn' = [fn EXCEPT ![t] = fn'[t]] /\ fn'[t] = Fallback(fn[t])
         /\ fn'[t] \in FnName
         /\ val' = [val EXCEPT ![t] = NoVal] /\ val'[t] = NoVal
         /\ UNCHANGED <<op, at, done>>
<1>1. fn[t] \in FnName /\ fn \in [Thread -> FnName] /\ val \in [Thread -> [v : Val, b : 0..3]]
  BY DEF TypeOK, FnName
<1>2. Fallback(fn[t]) \in FnName
  BY <1>1, FallbackFn DEF FnName
<1>3. QED
  BY <1>1, <1>2 DEF GiveUp, Goto

\* Read: the thread takes the open path, tries, or gives up.
LEMMA ReadEffect ==
  ASSUME IInv, NEW t \in Thread, Read(t)
  PROVE  /\ UNCHANGED <<ptr, own, cond, op, at, done>> /\ OnlyThread(t)
         /\ pc[t] = "read"
         /\ fn'[t] \in FnName /\ val'[t] \in [v : Val, b : 0..3]
         /\ \/ /\ pc'[t] = "open" /\ fn'[t] = fn[t] /\ fn[t] \in CondFn
               /\ val'[t] = ptr[at[t]] /\ ptr[at[t]].b = 0
            \/ /\ pc'[t] = "cas" /\ fn'[t] = fn[t] /\ fn[t] \in CondFn
               /\ val'[t] = ptr[at[t]] /\ ptr[at[t]].b # 0
            \/ /\ pc'[t] = "cas" /\ fn'[t] = fn[t] /\ fn[t] \notin CondFn
               /\ val'[t].b \in {0, 2}
            \/ /\ pc'[t] = "read" /\ fn'[t] = Fallback(fn[t])
               /\ fn[t] \in {"i_lock", "i_xchg", "xchg", "creset"}
               /\ ptr[at[t]].b \in {1, 3}
<1> USE Placeholders DEF IInv
<1>0. /\ pc \in [Thread -> {"idle", "read", "cas", "retry", "mark", "enter", "check",
                        "asleep", "woken", "in", "open", "wake"}]
      /\ fn \in [Thread -> FnName] /\ val \in [Thread -> [v : Val, b : 0..3]]
      /\ cond \in [Thread -> BOOLEAN] /\ done \in [Thread -> 0..MaxOps]
      /\ op \in [Thread -> PlainOp \cup CondOp] /\ at \in [Thread -> Ptr]
      /\ ptr[at[t]] \in [v : Val, b : 0..3] /\ fn[t] \in FnName
  BY DEF TypeOK, FnName
<1>1. CASE fn[t] = "lock"
  BY <1>0, <1>1 DEF Read, Goto, OnlyThread, CondFn, CClock, CXchg
<1>2. CASE fn[t] \in CondFn
  BY <1>0, <1>2 DEF Read, Goto, OnlyThread, CondFn, CClock, CXchg
<1>3. CASE fn[t] \in {"i_lock", "i_xchg", "xchg", "creset"}
  <2>1. CASE ptr[at[t]].b \in {1, 3}
    BY <1>0, <1>3, <2>1, GiveUpEffect DEF Read, OnlyThread, CondFn, CClock, CXchg
  <2>2. CASE ptr[at[t]].b \in {0, 2}
    BY <1>0, <1>3, <2>2 DEF Read, Goto, OnlyThread, CondFn, CClock, CXchg
  <2>3. QED
    BY <1>0, <2>1, <2>2
<1>4. QED
  BY <1>0, <1>1, <1>2, <1>3 DEF FnName, CondFn, CClock, CXchg

\* A successful cmpxchg: the thread is inside, or its operation is over.
LEMMA CasEffect ==
  ASSUME IInv, NEW t \in Thread, CasSucceeds(t)
  PROVE  /\ pc[t] = "cas" /\ OnlyThread(t)
         /\ ptr[at[t]] = Expected(t) /\ ptr[at[t]].b \in {0, 2}
         /\ ptr[at[t]].v = val[t].v
         /\ ptr' = [ptr EXCEPT ![at[t]] = Stored(t)]
         /\ cond'[t] = FALSE
         /\ \/ /\ Exchanges(t) \/ fn[t] = "creset"
               /\ Return(t)
               /\ own' = IF Exchanges(t) THEN [own EXCEPT ![t] = val[t].v] ELSE own
            \/ /\ ~Exchanges(t) /\ fn[t] # "creset"
               /\ UNCHANGED <<own, op, at, fn, done>>
               /\ pc'[t] = "in"
               /\ val'[t] = Expected(t)
<1> USE Placeholders, ExpectedValue DEF IInv
<1>0. /\ pc \in [Thread -> {"idle", "read", "cas", "retry", "mark", "enter", "check",
                        "asleep", "woken", "in", "open", "wake"}]
      /\ fn \in [Thread -> FnName] /\ val \in [Thread -> [v : Val, b : 0..3]]
      /\ cond \in [Thread -> BOOLEAN] /\ done \in [Thread -> 0..MaxOps]
      /\ op \in [Thread -> PlainOp \cup CondOp] /\ at \in [Thread -> Ptr]
  BY DEF TypeOK, FnName
<1>1. CASE Exchanges(t) \/ fn[t] = "creset"
  BY <1>0, <1>1 DEF CasSucceeds, Return, Forget, OnlyThread
<1>2. CASE ~(Exchanges(t) \/ fn[t] = "creset")
  <2>1. own' = own
    BY <1>2 DEF CasSucceeds
  <2>2. QED
    BY <1>0, <1>2, <2>1 DEF CasSucceeds, Goto, OnlyThread
<1>3. QED
  BY <1>1, <1>2

\* Leaving: the thread is done, or has to wake.
LEMMA UnlockEffect ==
  ASSUME IInv, NEW t \in Thread, Unlock(t)
  PROVE  /\ pc[t] = "in" /\ OnlyThread(t) /\ cond' = cond
         /\ ptr' = [ptr EXCEPT ![at[t]] = NewVal(t)]
         /\ own' \in [Thread -> Val]
         /\ \/ ptr[at[t]].b \in {0, 1} /\ pc'[t] = "wake" /\ UNCHANGED <<op, at, fn, val, done>>
            \/ ptr[at[t]].b \notin {0, 1} /\ Return(t)
<1>0. /\ pc \in [Thread -> {"idle", "read", "cas", "retry", "mark", "enter", "check",
                        "asleep", "woken", "in", "open", "wake"}]
      /\ fn \in [Thread -> FnName] /\ val \in [Thread -> [v : Val, b : 0..3]]
      /\ cond \in [Thread -> BOOLEAN] /\ done \in [Thread -> 0..MaxOps]
      /\ op \in [Thread -> PlainOp \cup CondOp] /\ at \in [Thread -> Ptr]
      /\ own \in [Thread -> Val]
  BY DEF IInv, TypeOK, FnName
<1>1. own' \in [Thread -> Val]
  BY <1>0 DEF Unlock, TakeAway
<1>2. CASE ptr[at[t]].b \in {0, 1}
  BY <1>0, <1>1, <1>2 DEF Unlock, Goto, OnlyThread
<1>3. CASE ptr[at[t]].b \notin {0, 1}
  BY <1>0, <1>1, <1>3 DEF Unlock, Return, Forget, OnlyThread
<1>4. QED
  BY <1>2, <1>3

\* p_wake() ends the operation and moves at most one sleeper of the bucket.
LEMMA WakeEffect ==
  ASSUME IInv, NEW t \in Thread, p_wake(t)
  PROVE  /\ pc[t] = "wake" /\ UNCHANGED <<ptr, own, cond>> /\ Forget(t)
         /\ \/ \E u \in Thread : /\ pc[u] = "asleep" /\ u # t
                                /\ Bucket[at[u]] = Bucket[at[t]]
                                /\ pc' = [pc EXCEPT ![t] = "idle", ![u] = "woken"]
            \/ /\ \A u \in Thread : pc[u] = "asleep" => Bucket[at[u]] # Bucket[at[t]]
               /\ pc' = [pc EXCEPT ![t] = "idle"]
  BY DEF p_wake, Sleepers

\* Waking does nothing to the place of another thread, except that it may wake it.
LEMMA WakeOthers ==
  ASSUME IInv, NEW t \in Thread, p_wake(t), NEW u \in Thread, u # t
  PROVE  pc'[u] = pc[u] \/ (pc[u] = "asleep" /\ pc'[u] = "woken")
<1>0. pc \in [Thread -> {"idle", "read", "cas", "retry", "mark", "enter", "check",
                         "asleep", "woken", "in", "open", "wake"}]
  BY DEF IInv, TypeOK
<1>1. CASE pc' = [pc EXCEPT ![t] = "idle"]
  BY <1>0, <1>1
<1>2. ASSUME NEW w \in Thread, w # t, pc[w] = "asleep",
             pc' = [pc EXCEPT ![t] = "idle", ![w] = "woken"]
      PROVE  pc'[u] = pc[u] \/ (pc[u] = "asleep" /\ pc'[u] = "woken")
  BY <1>0, <1>2
<1>3. QED
  BY <1>1, <1>2, WakeEffect

\* A failed cmpxchg: lock() goes to retry, the others give up.
LEMMA CasFailsEffect ==
  ASSUME IInv, NEW t \in Thread, CasFails(t)
  PROVE  /\ pc[t] = "cas" /\ OnlyThread(t) /\ UNCHANGED <<ptr, own, cond, op, at, done>>
         /\ fn'[t] \in FnName /\ val'[t] \in [v : Val, b : 0..3]
         /\ \/ fn[t] = "lock" /\ pc'[t] = "retry" /\ fn'[t] = fn[t]
            \/ fn[t] # "lock" /\ pc'[t] = "read" /\ fn'[t] = Fallback(fn[t])
<1>0. /\ pc \in [Thread -> {"idle", "read", "cas", "retry", "mark", "enter", "check",
                        "asleep", "woken", "in", "open", "wake"}]
      /\ fn \in [Thread -> FnName] /\ val \in [Thread -> [v : Val, b : 0..3]]
      /\ cond \in [Thread -> BOOLEAN] /\ done \in [Thread -> 0..MaxOps]
      /\ op \in [Thread -> PlainOp \cup CondOp] /\ at \in [Thread -> Ptr]
  BY DEF IInv, TypeOK, FnName
<1>1. CASE fn[t] = "lock"
  BY <1>0, <1>1 DEF CasFails, Goto, OnlyThread
<1>2. CASE fn[t] # "lock"
  BY <1>0, <1>2, GiveUpEffect, Placeholders DEF CasFails, OnlyThread, IInv
<1>3. QED
  BY <1>1, <1>2

-----------------------------------------------------------------------------
(* One lemma per part of the invariant, one step per action.                *)

\* The places of a thread.
Place == {"idle", "read", "cas", "retry", "mark", "enter", "check",
          "asleep", "woken", "in", "open", "wake"}

\* A step of one thread keeps the types if it keeps those of this thread.
LEMMA TypeKept ==
  ASSUME TypeOK, NEW t \in Thread, OnlyThread(t),
         ptr' \in [Ptr -> [v : Val, b : 0..3]], \A p \in Ptr \ Cond : ptr'[p].b # 2,
         own' \in [Thread -> Val],
         pc'[t] \in Place, fn'[t] \in FnName, val'[t] \in [v : Val, b : 0..3],
         cond'[t] \in BOOLEAN, op'[t] \in PlainOp \cup CondOp, at'[t] \in Ptr,
         done'[t] \in 0..MaxOps
  PROVE  TypeOK'
  BY DEF TypeOK, OnlyThread, Place, FnName

\* Returning leaves the stand-ins in place of the local variables.
LEMMA ForgetEffect ==
  ASSUME IInv, NEW t \in Thread, pc[t] # "idle", Forget(t)
  PROVE  /\ op'[t] = "lock" /\ at'[t] = AnyPtr /\ fn'[t] = "lock" /\ val'[t] = NoVal
         /\ done'[t] = done[t] + 1 /\ done'[t] \in 0..MaxOps
         /\ \A u \in Thread \ {t} :
              /\ op'[u] = op[u] /\ at'[u] = at[u] /\ fn'[u] = fn[u]
              /\ val'[u] = val[u] /\ done'[u] = done[u]
<1>1. done[t] \in 0..MaxOps /\ done[t] < MaxOps
  BY DEF IInv, TypeOK, InFunction
<1>2. done[t] + 1 \in 0..MaxOps
  BY <1>1, LockpAssumption
<1>3. QED
  BY <1>2 DEF IInv, TypeOK, Forget

\* A pointer that is written with a well-formed value.
LEMMA PtrKept ==
  ASSUME TypeOK, NEW p \in Ptr, NEW x \in [v : Val, b : 0..3],
         p \notin Cond => x.b # 2,
         ptr' = [ptr EXCEPT ![p] = x]
  PROVE  /\ ptr' \in [Ptr -> [v : Val, b : 0..3]]
         /\ \A q \in Ptr \ Cond : ptr'[q].b # 2
  BY DEF TypeOK

\* Types are kept.
LEMMA TypeOKStep == IInv /\ [Next]_vars => TypeOK'
<1> SUFFICES ASSUME IInv, [Next]_vars PROVE TypeOK'
  OBVIOUS
<1> USE LockpAssumption, Placeholders DEF IInv
<1>1. ASSUME NEW t \in Thread, NEW p \in Ptr, NEW o \in Ops[t], NEW f \in Entry(o),
             Start(t, p, o, f)
      PROVE  TypeOK'
  BY <1>1 DEF Start, Entry, TypeOK, InFunction, PlainOp, CondOp, CClock, CXchg, Exchanges
<1>2. ASSUME NEW t \in Thread, Read(t) PROVE TypeOK'
  <2>0. /\ pc[t] \in Place /\ fn[t] \in FnName /\ val[t] \in [v : Val, b : 0..3]
        /\ cond[t] \in BOOLEAN /\ op[t] \in PlainOp \cup CondOp /\ at[t] \in Ptr
        /\ done[t] \in 0..MaxOps /\ ptr \in [Ptr -> [v : Val, b : 0..3]]
        /\ own \in [Thread -> Val] /\ \A p \in Ptr \ Cond : ptr[p].b # 2
    BY DEF TypeOK, Place, FnName
  <2>1. op'[t] = op[t] /\ at'[t] = at[t] /\ cond'[t] = cond[t] /\ done'[t] = done[t]
        /\ OnlyThread(t) /\ ptr' = ptr /\ own' = own /\ fn'[t] \in FnName
        /\ val'[t] \in [v : Val, b : 0..3] /\ pc'[t] \in Place
    BY <1>2, ReadEffect DEF Place
  <2>2. QED
    BY <2>0, <2>1, TypeKept
<1>3. ASSUME NEW t \in Thread, CasSucceeds(t) PROVE TypeOK'
  <2>0. /\ pc[t] \in Place /\ fn[t] \in FnName /\ val[t] \in [v : Val, b : 0..3]
        /\ cond[t] \in BOOLEAN /\ op[t] \in PlainOp \cup CondOp /\ at[t] \in Ptr
        /\ done[t] \in 0..MaxOps /\ ptr \in [Ptr -> [v : Val, b : 0..3]]
        /\ own \in [Thread -> Val] /\ \A p \in Ptr \ Cond : ptr[p].b # 2
    BY DEF TypeOK, Place, FnName
  <2>1. pc[t] = "cas" /\ OnlyThread(t) /\ cond'[t] = FALSE
        /\ ptr' = [ptr EXCEPT ![at[t]] = Stored(t)] /\ Stored(t) \in [v : Val, b : 0..3]
    BY <1>3, CasEffect, StoredValue
  <2>2. at[t] \notin Cond => Stored(t).b # 2
    BY <2>0, <2>1, StoredValue DEF InFunction, CondOp, PlainOp, Exchanges, CClock, CXchg, FnName
  <2>3. ptr' \in [Ptr -> [v : Val, b : 0..3]] /\ \A q \in Ptr \ Cond : ptr'[q].b # 2
    BY <2>0, <2>1, <2>2, PtrKept
  <2>4. CASE Exchanges(t) \/ fn[t] = "creset"
    <3>0. Return(t) /\ own' = IF Exchanges(t) THEN [own EXCEPT ![t] = val[t].v] ELSE own
      BY <1>3, <2>4, CasEffect
    <3>1. Return(t) /\ own' \in [Thread -> Val]
      BY <2>0, <3>0
    <3>2. op'[t] \in PlainOp \cup CondOp /\ at'[t] \in Ptr /\ fn'[t] \in FnName
          /\ val'[t] \in [v : Val, b : 0..3] /\ done'[t] \in 0..MaxOps
      BY <3>1, <2>1, ForgetEffect DEF Return, PlainOp, FnName
    <3>3. pc'[t] \in Place
      BY <3>1 DEF Return, TypeOK, Place
    <3>4. QED
      BY <2>1, <2>3, <3>1, <3>2, <3>3, TypeKept
  <2>5. CASE ~(Exchanges(t) \/ fn[t] = "creset")
    <3>1. UNCHANGED <<own, op, at, fn, done>> /\ pc'[t] = "in" /\ val'[t] = Expected(t)
      BY <1>3, <2>5, CasEffect
    <3>2. val'[t] \in [v : Val, b : 0..3] /\ pc'[t] \in Place
      BY <2>1, <3>1, ExpectedValue DEF Place
    <3>3. QED
      BY <2>0, <2>1, <2>3, <3>1, <3>2, TypeKept
  <2>6. QED
    BY <2>4, <2>5
<1>4. ASSUME NEW t \in Thread, CasFails(t) PROVE TypeOK'
  <2>0. /\ pc[t] \in Place /\ fn[t] \in FnName /\ val[t] \in [v : Val, b : 0..3]
        /\ cond[t] \in BOOLEAN /\ op[t] \in PlainOp \cup CondOp /\ at[t] \in Ptr
        /\ done[t] \in 0..MaxOps /\ ptr \in [Ptr -> [v : Val, b : 0..3]]
        /\ own \in [Thread -> Val] /\ \A p \in Ptr \ Cond : ptr[p].b # 2
    BY DEF TypeOK, Place, FnName
  <2>1. op'[t] = op[t] /\ at'[t] = at[t] /\ cond'[t] = cond[t] /\ done'[t] = done[t]
        /\ OnlyThread(t) /\ ptr' = ptr /\ own' = own /\ fn'[t] \in FnName
        /\ val'[t] \in [v : Val, b : 0..3] /\ pc'[t] \in Place
    BY <1>4, CasFailsEffect DEF Place
  <2>2. QED
    BY <2>0, <2>1, TypeKept
<1>5. ASSUME NEW t \in Thread, Retry(t) PROVE TypeOK'
  BY <1>5 DEF Retry, Goto, TypeOK, InFunction, PlainOp, CondOp, CClock, CXchg, Exchanges
<1>6. ASSUME NEW t \in Thread, Mark(t) PROVE TypeOK'
  <2>1. CASE ptr[at[t]] = val[t]
    <3> DEFINE x == [val[t] EXCEPT !.b = 1]
    <3>0. val[t] \in [v : Val, b : 0..3]
      BY DEF TypeOK
    <3>1. x \in [v : Val, b : 0..3] /\ x.b = 1
      BY <3>0
    <3>2. ptr' = [ptr EXCEPT ![at[t]] = x] /\ val' = [val EXCEPT ![t] = x]
      BY <1>6, <2>1 DEF Mark, TypeOK
    <3> HIDE DEF x
    <3>3. ptr' \in [Ptr -> [v : Val, b : 0..3]] /\ \A q \in Ptr \ Cond : ptr'[q].b # 2
      BY <3>1, <3>2, PtrKept DEF TypeOK
    <3>4. /\ pc[t] \in Place /\ fn[t] \in FnName /\ cond[t] \in BOOLEAN
          /\ op[t] \in PlainOp \cup CondOp /\ at[t] \in Ptr /\ done[t] \in 0..MaxOps
          /\ own \in [Thread -> Val]
      BY DEF TypeOK, Place, FnName
    <3>5. /\ pc' = [pc EXCEPT ![t] = IF cond[t] THEN "check" ELSE "enter"]
          /\ UNCHANGED <<op, at, fn, cond, done, own>>
      BY <1>6, <2>1 DEF Mark, Goto
    <3>6. pc'[t] \in Place /\ val'[t] \in [v : Val, b : 0..3] /\ OnlyThread(t)
      BY <3>1, <3>2, <3>5 DEF Place, OnlyThread, TypeOK
    <3>7. QED
      BY <3>3, <3>4, <3>5, <3>6, TypeKept
  <2>2. CASE ptr[at[t]] # val[t]
    BY <1>6, <2>2 DEF Mark, Goto, TypeOK
  <2>3. QED
    BY <2>1, <2>2
<1>7. ASSUME NEW t \in Thread, Enter(t) PROVE TypeOK'
  BY <1>7 DEF Enter, Goto, TypeOK, InFunction, PlainOp, CondOp, CClock, CXchg, Exchanges
<1>8. ASSUME NEW t \in Thread, Check(t) PROVE TypeOK'
  BY <1>8 DEF Check, Goto, TypeOK, InFunction, PlainOp, CondOp, CClock, CXchg, Exchanges
<1>9. ASSUME NEW t \in Thread, Rewaken(t) PROVE TypeOK'
  BY <1>9 DEF Rewaken, Goto, TypeOK, InFunction, PlainOp, CondOp, CClock, CXchg, Exchanges
<1>10. ASSUME NEW t \in Thread, Spurious(t) PROVE TypeOK'
  BY <1>10 DEF Spurious, Goto, TypeOK, InFunction, PlainOp, CondOp, CClock, CXchg, Exchanges
<1>11. ASSUME NEW t \in Thread, Unlock(t) PROVE TypeOK'
  <2>0. /\ pc[t] \in Place /\ fn[t] \in FnName /\ val[t] \in [v : Val, b : 0..3]
        /\ cond[t] \in BOOLEAN /\ op[t] \in PlainOp \cup CondOp /\ at[t] \in Ptr
        /\ done[t] \in 0..MaxOps /\ ptr \in [Ptr -> [v : Val, b : 0..3]]
        /\ own \in [Thread -> Val] /\ \A p \in Ptr \ Cond : ptr[p].b # 2
    BY DEF TypeOK, Place, FnName
  <2>1. pc[t] = "in" /\ OnlyThread(t) /\ cond'[t] = cond[t] /\ own' \in [Thread -> Val]
        /\ ptr' = [ptr EXCEPT ![at[t]] = NewVal(t)]
        /\ NewVal(t) \in [v : Val, b : 0..3] /\ (at[t] \notin Cond => NewVal(t).b # 2)
    BY <1>11, UnlockEffect, NewValue
  <2>2. ptr' \in [Ptr -> [v : Val, b : 0..3]] /\ \A q \in Ptr \ Cond : ptr'[q].b # 2
    BY <2>0, <2>1, PtrKept
  <2>3. CASE pc'[t] = "wake" /\ UNCHANGED <<op, at, fn, val, done>>
    BY <2>0, <2>1, <2>2, <2>3, TypeKept DEF Place
  <2>4. CASE Return(t)
    <3>1. op'[t] \in PlainOp \cup CondOp /\ at'[t] \in Ptr /\ fn'[t] \in FnName
          /\ val'[t] \in [v : Val, b : 0..3] /\ done'[t] \in 0..MaxOps
      BY <2>4, <2>1, ForgetEffect DEF Return, PlainOp, FnName
    <3>2. pc'[t] \in Place
      BY <2>4 DEF Return, TypeOK, Place
    <3>3. QED
      BY <2>0, <2>1, <2>2, <3>1, <3>2, TypeKept
  <2>5. QED
    BY <1>11, <2>3, <2>4, UnlockEffect
<1>12. ASSUME NEW t \in Thread, OpenStore(t) PROVE TypeOK'
  <2>0. /\ pc[t] \in Place /\ fn[t] \in FnName /\ val[t] \in [v : Val, b : 0..3]
        /\ cond[t] \in BOOLEAN /\ op[t] \in PlainOp \cup CondOp /\ at[t] \in Ptr
        /\ done[t] \in 0..MaxOps /\ ptr \in [Ptr -> [v : Val, b : 0..3]]
        /\ own \in [Thread -> Val] /\ \A p \in Ptr \ Cond : ptr[p].b # 2
    BY DEF TypeOK, Place, FnName
  <2>1. Return(t) /\ pc[t] = "open" /\ cond' = cond
    BY <1>12 DEF OpenStore
  <2>2. own' \in [Thread -> Val]
    BY <1>12, <2>0 DEF OpenStore, TakeAway
  <2>3. ptr' \in [Ptr -> [v : Val, b : 0..3]] /\ \A q \in Ptr \ Cond : ptr'[q].b # 2
    <3>1. CASE op[t] = "cmem"
      BY <1>12, <2>0, <3>1 DEF OpenStore
    <3>2. CASE op[t] # "cmem"
      <4> DEFINE x == [v |-> own[t], b |-> 0]
      <4>1. x \in [v : Val, b : 0..3] /\ x.b # 2
        BY <2>0
      <4>2. ptr' = [ptr EXCEPT ![at[t]] = x]
        BY <1>12, <3>2 DEF OpenStore
      <4> HIDE DEF x
      <4>3. QED
        BY <2>0, <4>1, <4>2, PtrKept
    <3>3. QED
      BY <3>1, <3>2
  <2>4. op'[t] \in PlainOp \cup CondOp /\ at'[t] \in Ptr /\ fn'[t] \in FnName
        /\ val'[t] \in [v : Val, b : 0..3] /\ done'[t] \in 0..MaxOps
    BY <2>1, ForgetEffect DEF Return, PlainOp, FnName
  <2>5. pc'[t] \in Place /\ OnlyThread(t)
    BY <2>1 DEF Return, Forget, TypeOK, Place, OnlyThread
  <2>6. QED
    BY <2>0, <2>1, <2>2, <2>3, <2>4, <2>5, TypeKept
<1>13. ASSUME NEW t \in Thread, p_wake(t) PROVE TypeOK'
  <2>0. /\ pc[t] \in Place /\ fn[t] \in FnName /\ val[t] \in [v : Val, b : 0..3]
        /\ cond[t] \in BOOLEAN /\ op[t] \in PlainOp \cup CondOp /\ at[t] \in Ptr
        /\ done[t] \in 0..MaxOps /\ ptr \in [Ptr -> [v : Val, b : 0..3]]
        /\ own \in [Thread -> Val] /\ \A p \in Ptr \ Cond : ptr[p].b # 2
    BY DEF TypeOK, Place, FnName
  <2>1. op' \in [Thread -> PlainOp \cup CondOp] /\ at' \in [Thread -> Ptr]
        /\ fn' \in [Thread -> FnName] /\ val' \in [Thread -> [v : Val, b : 0..3]]
    <3>1. Forget(t)
      BY <1>13, WakeEffect
    <3>2. QED
      BY <3>1 DEF Forget, TypeOK, PlainOp, FnName
  <2>2. done' \in [Thread -> 0..MaxOps]
    <3>1. pc[t] = "wake" /\ Forget(t)
      BY <1>13, WakeEffect
    <3>2. done'[t] \in 0..MaxOps
      BY <3>1, ForgetEffect
    <3>3. QED
      BY <3>1, <3>2 DEF Forget, TypeOK
  <2>3. pc' \in [Thread -> Place]
    <3>1. pc \in [Thread -> Place]
      BY DEF TypeOK, Place
    <3>2. \/ \E u \in Thread : pc' = [pc EXCEPT ![t] = "idle", ![u] = "woken"]
          \/ pc' = [pc EXCEPT ![t] = "idle"]
      BY <1>13, WakeEffect
    <3>3. QED
      BY <3>1, <3>2 DEF Place
  <2>4. QED
    BY <1>13, <2>1, <2>2, <2>3, WakeEffect DEF TypeOK, Place, FnName
<1>14. CASE UNCHANGED vars
  BY <1>14 DEF vars, TypeOK, InFunction, PlainOp, CondOp, CClock, CXchg, Exchanges
<1>15. QED
  BY <1>1, <1>2, <1>3, <1>4, <1>5, <1>6, <1>7, <1>8, <1>9, <1>10, <1>11, <1>12, <1>13, <1>14 DEF Next, Step

\* An operation stays in its own functions.
LEMMA InFunctionStep == IInv /\ [Next]_vars => InFunction'
<1> SUFFICES ASSUME IInv, [Next]_vars PROVE InFunction'
  OBVIOUS
<1> USE LockpAssumption, Placeholders DEF IInv
<1>1. ASSUME NEW t \in Thread, NEW p \in Ptr, NEW o \in Ops[t], NEW f \in Entry(o),
             Start(t, p, o, f)
      PROVE  InFunction'
  BY <1>1 DEF Start, Entry, TypeOK, InFunction, PlainOp, CondOp, CClock, CXchg, CondFn
<1>2. ASSUME NEW t \in Thread, Read(t) PROVE InFunction'
  <2>0. /\ pc \in [Thread -> Place] /\ fn \in [Thread -> FnName] /\ op \in [Thread -> PlainOp \cup CondOp]
        /\ at \in [Thread -> Ptr] /\ done \in [Thread -> 0..MaxOps] /\ val \in [Thread -> [v : Val, b : 0..3]]
        /\ cond \in [Thread -> BOOLEAN]
    BY DEF TypeOK, Place, FnName
  <2>1. OnlyThread(t) /\ UNCHANGED <<op, at, done>> /\ pc[t] = "read"
    BY <1>2, ReadEffect
  <2>2. fn'[t] = fn[t] \/ (fn'[t] = Fallback(fn[t]) /\ fn[t] # "lock")
    BY <1>2, ReadEffect
  <2>3. QED
    BY <2>0, <2>1, <2>2, FallbackFn DEF InFunction, OnlyThread, FnName, CClock, CXchg
<1>3. ASSUME NEW t \in Thread, CasSucceeds(t) PROVE InFunction'
  <2>0. /\ pc \in [Thread -> Place] /\ fn \in [Thread -> FnName] /\ op \in [Thread -> PlainOp \cup CondOp]
        /\ at \in [Thread -> Ptr] /\ done \in [Thread -> 0..MaxOps] /\ val \in [Thread -> [v : Val, b : 0..3]]
        /\ cond \in [Thread -> BOOLEAN]
    BY DEF TypeOK, Place, FnName
  <2>1. OnlyThread(t) /\ pc[t] = "cas"
    BY <1>3, CasEffect
  <2>2. CASE Return(t)
    BY <2>0, <2>1, <2>2, ForgetEffect DEF InFunction, Return, CClock, CXchg
  <2>3. CASE UNCHANGED <<op, at, fn, done>>
    BY <2>0, <2>1, <2>3 DEF InFunction, OnlyThread
  <2>4. QED
    BY <1>3, <2>2, <2>3, CasEffect
<1>4. ASSUME NEW t \in Thread, CasFails(t) PROVE InFunction'
  <2>0. /\ pc \in [Thread -> Place] /\ fn \in [Thread -> FnName] /\ op \in [Thread -> PlainOp \cup CondOp]
        /\ at \in [Thread -> Ptr] /\ done \in [Thread -> 0..MaxOps] /\ val \in [Thread -> [v : Val, b : 0..3]]
        /\ cond \in [Thread -> BOOLEAN]
    BY DEF TypeOK, Place, FnName
  <2>1. OnlyThread(t) /\ UNCHANGED <<op, at, done>> /\ pc[t] = "cas"
    BY <1>4, CasFailsEffect
  <2>2. fn'[t] = fn[t] \/ (fn'[t] = Fallback(fn[t]) /\ fn[t] # "lock")
    BY <1>4, CasFailsEffect
  <2>3. QED
    BY <2>0, <2>1, <2>2, FallbackFn DEF InFunction, OnlyThread, FnName, CClock, CXchg
<1>5. ASSUME NEW t \in Thread, Retry(t) PROVE InFunction'
  BY <1>5 DEF Retry, Goto, TypeOK, InFunction, PlainOp, CondOp, CClock, CXchg, CondFn
<1>6. ASSUME NEW t \in Thread, Mark(t) PROVE InFunction'
  BY <1>6 DEF Mark, Goto, TypeOK, InFunction, PlainOp, CondOp, CClock, CXchg, CondFn
<1>7. ASSUME NEW t \in Thread, Enter(t) PROVE InFunction'
  BY <1>7 DEF Enter, Goto, TypeOK, InFunction, PlainOp, CondOp, CClock, CXchg, CondFn
<1>8. ASSUME NEW t \in Thread, Check(t) PROVE InFunction'
  BY <1>8 DEF Check, Goto, TypeOK, InFunction, PlainOp, CondOp, CClock, CXchg, CondFn
<1>9. ASSUME NEW t \in Thread, Rewaken(t) PROVE InFunction'
  BY <1>9 DEF Rewaken, Goto, TypeOK, InFunction, PlainOp, CondOp, CClock, CXchg, CondFn
<1>10. ASSUME NEW t \in Thread, Spurious(t) PROVE InFunction'
  BY <1>10 DEF Spurious, Goto, TypeOK, InFunction, PlainOp, CondOp, CClock, CXchg, CondFn
<1>11. ASSUME NEW t \in Thread, Unlock(t) PROVE InFunction'
  BY <1>11, UnlockEffect, NewValue DEF OnlyThread, Return, Forget, TypeOK, InFunction, PlainOp, CondOp, CClock, CXchg, CondFn
<1>12. ASSUME NEW t \in Thread, OpenStore(t) PROVE InFunction'
  BY <1>12 DEF OpenStore, Return, Forget, TakeAway, TypeOK, InFunction, PlainOp, CondOp, CClock, CXchg, CondFn
<1>13. ASSUME NEW t \in Thread, p_wake(t) PROVE InFunction'
  <2>0. /\ pc \in [Thread -> Place] /\ fn \in [Thread -> FnName] /\ op \in [Thread -> PlainOp \cup CondOp]
        /\ at \in [Thread -> Ptr] /\ done \in [Thread -> 0..MaxOps] /\ val \in [Thread -> [v : Val, b : 0..3]]
        /\ cond \in [Thread -> BOOLEAN]
    BY DEF TypeOK, Place, FnName
  <2>1. pc[t] = "wake" /\ Forget(t) /\ pc'[t] = "idle"
        /\ \A u \in Thread \ {t} : pc'[u] # "idle" => pc[u] # "idle"
    BY <1>13, <2>0, WakeEffect
  <2>2. QED
    BY <2>1, ForgetEffect DEF InFunction, CClock, CXchg
<1>14. CASE UNCHANGED vars
  BY <1>14 DEF vars, TypeOK, InFunction, PlainOp, CondOp, CClock, CXchg, CondFn
<1>15. QED
  BY <1>1, <1>2, <1>3, <1>4, <1>5, <1>6, <1>7, <1>8, <1>9, <1>10, <1>11, <1>12, <1>13, <1>14 DEF Next, Step

\* While the lock bit is not set, a thread that is not inside has the pointer
\* to itself: nobody is in a section, or on the path without locking.
LEMMA NobodyInside ==
  ASSUME IInv, NEW t \in Thread, pc[t] \notin {"idle", "in", "open"},
         ptr[at[t]].b \in {0, 2}, NEW u \in Thread, Inside(u, at[t])
  PROVE  FALSE
<1>1. at[t] \in Ptr /\ at[u] = at[t] /\ pc[u] \in {"in", "open"}
  BY DEF IInv, TypeOK, Inside
<1>2. pc[u] # "in"
  BY <1>1 DEF IInv, LockedIffHeld
<1>3. pc[u] = "open" /\ u # t
  BY <1>1, <1>2
<1>4. fn[u] \in CondFn /\ ptr[at[u]].b = 0
  BY <1>3 DEF IInv, Knows, KnowsOf
<1>5. at[u] \in Cond
  BY <1>3, <1>4 DEF IInv, InFunction, CondFn, CondOp
<1>6. QED
  BY <1>1, <1>3, <1>4, <1>5 DEF IInv, Private

\* What another thread knows stays true if the pointer it is inside of does.
LEMMA OtherKnows ==
  ASSUME TypeOK, NEW t \in Thread, OnlyThread(t), NEW u \in Thread, u # t, KnowsOf(u),
         pc[u] = "in" => ptr'[at[u]].v = ptr[at[u]].v,
         pc[u] = "open" => ptr'[at[u]] = ptr[at[u]]
  PROVE  KnowsOf(u)'
<1>1. /\ pc'[u] = pc[u] /\ fn'[u] = fn[u] /\ val'[u] = val[u] /\ cond'[u] = cond[u]
      /\ at'[u] = at[u]
  BY DEF TypeOK, OnlyThread
<1>2. QED
  BY <1>1 DEF KnowsOf

\* What was read still means what it meant.
LEMMA KnowsStep == IInv /\ [Next]_vars => Knows'
<1> SUFFICES ASSUME IInv, [Next]_vars PROVE Knows'
  OBVIOUS
<1> USE LockpAssumption, Placeholders DEF IInv
<1>1. ASSUME NEW t \in Thread, NEW p \in Ptr, NEW o \in Ops[t], NEW f \in Entry(o),
             Start(t, p, o, f)
      PROVE  Knows'
  BY <1>1 DEF Start, Entry, TypeOK, Knows, KnowsOf, LockedIffHeld, Inside, CClock, CXchg, CondFn
<1>2. ASSUME NEW t \in Thread, Read(t) PROVE Knows'
  <2>1. OnlyThread(t) /\ ptr' = ptr /\ UNCHANGED <<cond, at>>
    BY <1>2, ReadEffect
  <2>2. ASSUME NEW u \in Thread, u # t PROVE KnowsOf(u)'
    BY <2>1, <2>2, OtherKnows DEF Knows
  <2>3. KnowsOf(t)'
    BY <1>2, <2>1, ReadEffect DEF Knows, KnowsOf, CondFn
  <2>4. QED
    BY <2>2, <2>3 DEF Knows
<1>3. ASSUME NEW t \in Thread, CasSucceeds(t) PROVE Knows'
  <2>1. pc[t] = "cas" /\ OnlyThread(t) /\ ptr' = [ptr EXCEPT ![at[t]] = Stored(t)]
        /\ ptr[at[t]].b \in {0, 2} /\ cond'[t] = FALSE
    BY <1>3, CasEffect
  <2>2. ASSUME NEW u \in Thread, u # t PROVE KnowsOf(u)'
    <3>1. pc[u] \in {"in", "open"} => at[u] # at[t]
      BY <2>1, NobodyInside DEF Inside
    <3>2. pc[u] \in {"in", "open"} => ptr'[at[u]] = ptr[at[u]]
      BY <2>1, <3>1 DEF TypeOK
    <3>3. QED
      BY <2>1, <2>2, <3>2, OtherKnows DEF Knows
  <2>3. KnowsOf(t)'
    <3>1. CASE pc'[t] = "idle"
      BY <2>1, <3>1 DEF KnowsOf
    <3>2. CASE pc'[t] = "in" /\ val'[t] = Expected(t) /\ at' = at
               /\ ~Exchanges(t) /\ fn[t] # "creset"
      <4>1. ptr'[at[t]].v = val[t].v
        BY <2>1, <3>2, StoredValue DEF TypeOK
      <4>2. QED
        BY <2>1, <3>2, <4>1, ExpectedValue DEF KnowsOf
    <3>3. Return(t) => pc'[t] = "idle"
      BY DEF Return, TypeOK
    <3>4. QED
      BY <1>3, <3>1, <3>2, <3>3, CasEffect
  <2>4. QED
    BY <2>2, <2>3 DEF Knows
<1>4. ASSUME NEW t \in Thread, CasFails(t) PROVE Knows'
  <2>1. OnlyThread(t) /\ ptr' = ptr /\ UNCHANGED <<cond, at>>
    BY <1>4, CasFailsEffect
  <2>2. ASSUME NEW u \in Thread, u # t PROVE KnowsOf(u)'
    BY <2>1, <2>2, OtherKnows DEF Knows
  <2>3. KnowsOf(t)'
    BY <1>4, <2>1, CasFailsEffect DEF Knows, KnowsOf
  <2>4. QED
    BY <2>2, <2>3 DEF Knows
<1>5. ASSUME NEW t \in Thread, Retry(t) PROVE Knows'
  BY <1>5 DEF Retry, Goto, TypeOK, Knows, KnowsOf, LockedIffHeld, Inside, CClock, CXchg, CondFn
<1>6. ASSUME NEW t \in Thread, Mark(t) PROVE Knows'
  <2>1. OnlyThread(t)
    BY <1>6 DEF Mark, Goto, OnlyThread, TypeOK
  <2>2. /\ \A q \in Ptr : ptr'[q].v = ptr[q].v
        /\ \A q \in Ptr : ptr[q].b = 0 => ptr'[q] = ptr[q]
    <3>1. val[t].b = 3
      BY <1>6 DEF Mark, Knows, KnowsOf
    <3>2. CASE ptr[at[t]] = val[t]
      <4>1. ptr' = [ptr EXCEPT ![at[t]] = [ptr[at[t]] EXCEPT !.b = 1]]
        BY <1>6, <3>2 DEF Mark
      <4>2. ptr[at[t]] \in [v : Val, b : 0..3] /\ ptr \in [Ptr -> [v : Val, b : 0..3]]
        BY DEF TypeOK
      <4>3. QED
        BY <3>1, <3>2, <4>1, <4>2
    <3>3. CASE ptr[at[t]] # val[t]
      BY <1>6, <3>3 DEF Mark
    <3>4. QED
      BY <3>2, <3>3
  <2>3. ASSUME NEW u \in Thread, u # t PROVE KnowsOf(u)'
    <3>1. at[u] \in Ptr
      BY DEF TypeOK
    <3>2. pc[u] = "open" => ptr[at[u]].b = 0
      BY DEF Knows, KnowsOf
    <3>3. QED
      BY <2>1, <2>2, <2>3, <3>1, <3>2, OtherKnows DEF Knows
  <2>4. KnowsOf(t)'
    <3>1. fn'[t] = "lock" /\ cond'[t] = cond[t] /\ val[t] \in [v : Val, b : 0..3]
      BY <1>6 DEF Mark, Knows, KnowsOf, TypeOK
    <3>2. CASE ptr[at[t]] = val[t]
      <4>1. val'[t].b = 1 /\ pc'[t] = IF cond[t] THEN "check" ELSE "enter"
        BY <1>6, <3>1, <3>2 DEF Mark, Goto, TypeOK
      <4>2. QED
        BY <3>1, <4>1 DEF KnowsOf
    <3>3. CASE ptr[at[t]] # val[t]
      <4>1. pc'[t] = "retry"
        BY <1>6, <3>3 DEF Mark, Goto, TypeOK
      <4>2. QED
        BY <3>1, <4>1 DEF KnowsOf
    <3>4. QED
      BY <3>2, <3>3
  <2>5. QED
    BY <2>3, <2>4 DEF Knows
<1>7. ASSUME NEW t \in Thread, Enter(t) PROVE Knows'
  BY <1>7 DEF Enter, Goto, TypeOK, Knows, KnowsOf, LockedIffHeld, Inside, CClock, CXchg, CondFn
<1>8. ASSUME NEW t \in Thread, Check(t) PROVE Knows'
  BY <1>8 DEF Check, Goto, TypeOK, Knows, KnowsOf, LockedIffHeld, Inside, CClock, CXchg, CondFn
<1>9. ASSUME NEW t \in Thread, Rewaken(t) PROVE Knows'
  BY <1>9 DEF Rewaken, Goto, TypeOK, Knows, KnowsOf, LockedIffHeld, Inside, CClock, CXchg, CondFn
<1>10. ASSUME NEW t \in Thread, Spurious(t) PROVE Knows'
  BY <1>10 DEF Spurious, Goto, TypeOK, Knows, KnowsOf, LockedIffHeld, Inside, CClock, CXchg, CondFn
<1>11. ASSUME NEW t \in Thread, Unlock(t) PROVE Knows'
  BY <1>11, UnlockEffect, NewValue DEF OnlyThread, Return, Forget, TypeOK, Knows, KnowsOf, LockedIffHeld, Inside, CClock, CXchg, CondFn
<1>12. ASSUME NEW t \in Thread, OpenStore(t) PROVE Knows'
  BY <1>12 DEF OpenStore, Return, Forget, TakeAway, TypeOK, Knows, KnowsOf, LockedIffHeld, Inside, CClock, CXchg, CondFn
<1>13. ASSUME NEW t \in Thread, p_wake(t) PROVE Knows'
  <2>1. pc[t] = "wake" /\ Forget(t) /\ UNCHANGED <<ptr, own, cond>>
    BY <1>13, WakeEffect
  <2>2. KnowsOf(t)'
    <3>0. ~cond[t]
      BY <2>1 DEF Knows, KnowsOf
    <3>1. ~cond[t] /\ pc'[t] = "idle"
      BY <1>13, <3>0, WakeEffect DEF TypeOK
    <3>2. QED
      BY <2>1, <3>1 DEF KnowsOf
  <2>3. ASSUME NEW u \in Thread, u # t PROVE KnowsOf(u)'
    <3>1. /\ fn'[u] = fn[u] /\ val'[u] = val[u] /\ cond'[u] = cond[u] /\ at'[u] = at[u]
      BY <2>1, <2>3, ForgetEffect
    <3>2. pc'[u] = pc[u] \/ (pc[u] = "asleep" /\ pc'[u] = "woken")
      BY <1>13, <2>3, WakeOthers
    <3>3. QED
      BY <2>1, <3>1, <3>2 DEF Knows, KnowsOf
  <2>4. QED
    BY <2>2, <2>3 DEF Knows
<1>14. CASE UNCHANGED vars
  BY <1>14 DEF vars, TypeOK, Knows, KnowsOf, LockedIffHeld, Inside, CClock, CXchg, CondFn
<1>15. QED
  BY <1>1, <1>2, <1>3, <1>4, <1>5, <1>6, <1>7, <1>8, <1>9, <1>10, <1>11, <1>12, <1>13, <1>14 DEF Next, Step

\* What another thread's part of SwitchedOn and Private needs: state 0 does not
\* come back to a conditional pointer.
LEMMA StaysOn ==
  ASSUME IInv, [Next]_vars, NEW p \in Cond, ptr[p].b # 0
  PROVE  ptr'[p].b # 0
<1> USE LockpAssumption DEF IInv
<1>0. p \in Ptr /\ ptr \in [Ptr -> [v : Val, b : 0..3]]
  BY DEF TypeOK
<1>1. ASSUME NEW t \in Thread, CasSucceeds(t) PROVE ptr'[p].b # 0
  <2>1. pc[t] = "cas" /\ ptr' = [ptr EXCEPT ![at[t]] = Stored(t)]
    BY <1>1, CasEffect
  <2>2. at[t] \in Cond => ~(fn[t] \in {"i_xchg", "xchg"})
    BY <2>1 DEF InFunction, CondOp
  <2>3. at[t] \in Cond => Stored(t).b # 0
    BY <2>1, <2>2, StoredValue DEF Exchanges
  <2>4. QED
    BY <1>0, <2>1, <2>3
<1>2. ASSUME NEW t \in Thread, Mark(t) PROVE ptr'[p].b # 0
  <2>1. CASE at[t] = p
    <3>1. val[t].b = 3 /\ ptr[p] \in [v : Val, b : 0..3]
      BY <1>0, <1>2 DEF Mark, Knows, KnowsOf
    <3>2. QED
      BY <1>0, <1>2, <2>1, <3>1 DEF Mark
  <2>2. CASE at[t] # p
    BY <1>0, <1>2, <2>2 DEF Mark
  <2>3. QED
    BY <2>1, <2>2
<1>3. ASSUME NEW t \in Thread, Unlock(t) PROVE ptr'[p].b # 0
  <2>1. pc[t] = "in" /\ ptr' = [ptr EXCEPT ![at[t]] = NewVal(t)]
    BY <1>3, UnlockEffect
  <2>2. at[t] \in Cond => NewVal(t).b = 2
    BY <2>1, NewValue
  <2>3. QED
    BY <1>0, <2>1, <2>2
<1>4. ASSUME NEW t \in Thread, OpenStore(t) PROVE ptr'[p].b # 0
  <2>1. ptr[at[t]].b = 0
    BY <1>4 DEF OpenStore, Knows, KnowsOf
  <2>2. QED
    BY <1>0, <1>4, <2>1 DEF OpenStore
<1>5. ASSUME NEW t \in Thread, Read(t) \/ CasFails(t) \/ Retry(t) \/ Enter(t) \/ Check(t)
                             \/ Rewaken(t) \/ p_wake(t) \/ Spurious(t)
      PROVE ptr'[p].b # 0
  BY <1>5 DEF Read, CasFails, Retry, Enter, Check, Rewaken, p_wake, Spurious
<1>6. ASSUME NEW t \in Thread, NEW q \in Ptr, NEW o \in Ops[t], NEW f \in Entry(o),
             Start(t, q, o, f)
      PROVE ptr'[p].b # 0
  BY <1>6 DEF Start
<1>7. CASE UNCHANGED vars
  BY <1>7 DEF vars
<1>8. QED
  BY <1>1, <1>2, <1>3, <1>4, <1>5, <1>6, <1>7 DEF Next, Step

\* A conditional operation past state 0 keeps its pointer out of it.
LEMMA PassedStays ==
  ASSUME IInv, [Next]_vars, NEW u \in Thread, ptr[at[u]].b # 0, pc[u] # "idle",
         op[u] \in CondOp, at'[u] = at[u]
  PROVE  ptr'[at'[u]].b # 0
  BY StaysOn DEF IInv, InFunction

\* State 0 is not seen again.
LEMMA SwitchedOnStep == IInv /\ [Next]_vars => SwitchedOn'
<1> SUFFICES ASSUME IInv, [Next]_vars PROVE SwitchedOn'
  OBVIOUS
<1> USE LockpAssumption, Placeholders DEF IInv
<1>1. ASSUME NEW t \in Thread, NEW p \in Ptr, NEW o \in Ops[t], NEW f \in Entry(o),
             Start(t, p, o, f)
      PROVE  SwitchedOn'
  BY <1>1 DEF Start, Entry, TypeOK, SwitchedOn, Passed, Knows, KnowsOf, InFunction, CClock, CXchg, CondFn, CondOp, PlainOp
<1>2. ASSUME NEW t \in Thread, Read(t) PROVE SwitchedOn'
  <2>1. OnlyThread(t) /\ UNCHANGED <<ptr, op, at>>
    BY <1>2, ReadEffect
  <2>2. ASSUME NEW u \in Thread, u # t, Passed(u)'
        PROVE  ptr'[at'[u]].b # 0 /\ (pc'[u] = "in" => val'[u].b = 2)
    <3>1. pc'[u] = pc[u] /\ fn'[u] = fn[u] /\ val'[u] = val[u]
      BY <2>1, <2>2 DEF OnlyThread, TypeOK
    <3>2. QED
      BY <2>1, <2>2, <3>1 DEF SwitchedOn, Passed
  <2>3. ASSUME Passed(t)' PROVE ptr'[at'[t]].b # 0 /\ (pc'[t] = "in" => val'[t].b = 2)
    <3>1. op[t] \in {"clock", "cmem", "cxchg"} /\ pc[t] = "read" /\ pc'[t] # "in"
          /\ (fn[t] = "lock" \/ fn[t] = "i_lock" => Passed(t))
      BY <1>2, <2>1, <2>3, ReadEffect DEF Passed
    <3>2. fn[t] \in CondFn \cup {"lock", "i_lock"}
      BY <3>1 DEF TypeOK, InFunction, CondFn, CClock, CXchg
    <3>3. CASE fn[t] \in {"lock", "i_lock"}
      BY <2>1, <3>1, <3>3 DEF SwitchedOn
    <3>4. CASE fn[t] \in CondFn
      <4>1. pc'[t] = "open" \/ ptr[at[t]].b # 0
        BY <1>2, <3>4, ReadEffect DEF CondFn, CClock, CXchg
      <4>2. QED
        BY <2>1, <2>3, <3>1, <4>1 DEF Passed
    <3>5. QED
      BY <3>2, <3>3, <3>4
  <2>4. QED
    BY <2>2, <2>3 DEF SwitchedOn
<1>3. ASSUME NEW t \in Thread, CasSucceeds(t) PROVE SwitchedOn'
  <2>1. pc[t] = "cas" /\ OnlyThread(t) /\ ptr[at[t]] = Expected(t)
        /\ ptr' = [ptr EXCEPT ![at[t]] = Stored(t)]
    BY <1>3, CasEffect
  <2>2. ASSUME NEW u \in Thread, u # t, Passed(u)'
        PROVE  ptr'[at'[u]].b # 0 /\ (pc'[u] = "in" => val'[u].b = 2)
    <3>1. pc'[u] = pc[u] /\ fn'[u] = fn[u] /\ val'[u] = val[u] /\ at'[u] = at[u] /\ op'[u] = op[u]
      BY <2>1, <2>2 DEF OnlyThread, TypeOK
    <3>2. Passed(u) /\ pc[u] # "idle" /\ op[u] \in CondOp
      BY <2>2, <3>1 DEF Passed, CondOp
    <3>3. QED
      BY <3>1, <3>2, PassedStays DEF SwitchedOn
  <2>3. ASSUME Passed(t)' PROVE ptr'[at'[t]].b # 0 /\ (pc'[t] = "in" => val'[t].b = 2)
    <3>1. ~Return(t)
      BY <2>3 DEF Return, Forget, Passed, TypeOK
    <3>2. UNCHANGED <<op, at>> /\ val'[t] = Expected(t)
      BY <1>3, <3>1, CasEffect
    <3>3. Passed(t) /\ op[t] \in CondOp
      BY <2>1, <2>3, <3>2 DEF Passed, CondOp
    <3>4. ptr[at[t]].b # 0 /\ ptr'[at'[t]].b # 0
      BY <2>1, <3>2, <3>3, PassedStays DEF SwitchedOn
    <3>5. QED
      BY <2>1, <3>2, <3>4, ExpectedValue
  <2>4. QED
    BY <2>2, <2>3 DEF SwitchedOn
<1>4. ASSUME NEW t \in Thread, CasFails(t) PROVE SwitchedOn'
  <2>1. OnlyThread(t) /\ UNCHANGED <<ptr, op, at>>
    BY <1>4, CasFailsEffect
  <2>2. ASSUME NEW u \in Thread, u # t, Passed(u)'
        PROVE  ptr'[at'[u]].b # 0 /\ (pc'[u] = "in" => val'[u].b = 2)
    <3>1. pc'[u] = pc[u] /\ fn'[u] = fn[u] /\ val'[u] = val[u]
      BY <2>1, <2>2 DEF OnlyThread, TypeOK
    <3>2. QED
      BY <2>1, <2>2, <3>1 DEF SwitchedOn, Passed
  <2>3. ASSUME Passed(t)' PROVE ptr'[at'[t]].b # 0 /\ (pc'[t] = "in" => val'[t].b = 2)
    BY <1>4, <2>1, <2>3, CasFailsEffect DEF SwitchedOn, Passed
  <2>4. QED
    BY <2>2, <2>3 DEF SwitchedOn
<1>5. ASSUME NEW t \in Thread, Retry(t) PROVE SwitchedOn'
  BY <1>5 DEF Retry, Goto, TypeOK, SwitchedOn, Passed, Knows, KnowsOf, InFunction, CClock, CXchg, CondFn, CondOp, PlainOp
<1>6. ASSUME NEW t \in Thread, Mark(t) PROVE SwitchedOn'
  BY <1>6 DEF Mark, Goto, TypeOK, SwitchedOn, Passed, Knows, KnowsOf, InFunction, CClock, CXchg, CondFn, CondOp, PlainOp
<1>7. ASSUME NEW t \in Thread, Enter(t) PROVE SwitchedOn'
  BY <1>7 DEF Enter, Goto, TypeOK, SwitchedOn, Passed, Knows, KnowsOf, InFunction, CClock, CXchg, CondFn, CondOp, PlainOp
<1>8. ASSUME NEW t \in Thread, Check(t) PROVE SwitchedOn'
  BY <1>8 DEF Check, Goto, TypeOK, SwitchedOn, Passed, Knows, KnowsOf, InFunction, CClock, CXchg, CondFn, CondOp, PlainOp
<1>9. ASSUME NEW t \in Thread, Rewaken(t) PROVE SwitchedOn'
  BY <1>9 DEF Rewaken, Goto, TypeOK, SwitchedOn, Passed, Knows, KnowsOf, InFunction, CClock, CXchg, CondFn, CondOp, PlainOp
<1>10. ASSUME NEW t \in Thread, Spurious(t) PROVE SwitchedOn'
  BY <1>10 DEF Spurious, Goto, TypeOK, SwitchedOn, Passed, Knows, KnowsOf, InFunction, CClock, CXchg, CondFn, CondOp, PlainOp
<1>11. ASSUME NEW t \in Thread, Unlock(t) PROVE SwitchedOn'
  <2>1. OnlyThread(t) /\ pc[t] = "in" /\ ptr' = [ptr EXCEPT ![at[t]] = NewVal(t)]
    BY <1>11, UnlockEffect
  <2>2. ASSUME NEW u \in Thread, u # t, Passed(u)'
        PROVE  ptr'[at'[u]].b # 0 /\ (pc'[u] = "in" => val'[u].b = 2)
    <3>1. /\ pc'[u] = pc[u] /\ fn'[u] = fn[u] /\ val'[u] = val[u]
          /\ op'[u] = op[u] /\ at'[u] = at[u]
      BY <2>1, <2>2 DEF OnlyThread, TypeOK
    <3>2. Passed(u)
      BY <2>2, <3>1 DEF Passed
    <3>3. ptr'[at'[u]].b # 0
      BY <3>1, <3>2, PassedStays DEF SwitchedOn, Passed, CondOp
    <3>4. QED
      BY <3>1, <3>2, <3>3 DEF SwitchedOn
  <2>3. ~Passed(t)'
    <3>1. pc'[t] \in {"wake", "idle"}
      BY <1>11, UnlockEffect DEF Return, TypeOK
    <3>2. QED
      BY <3>1 DEF Passed
  <2>4. QED
    BY <2>2, <2>3 DEF SwitchedOn
<1>12. ASSUME NEW t \in Thread, OpenStore(t) PROVE SwitchedOn'
  BY <1>12 DEF OpenStore, Return, Forget, TakeAway, TypeOK, SwitchedOn, Passed, Knows, KnowsOf, InFunction, CClock, CXchg, CondFn, CondOp, PlainOp
<1>13. ASSUME NEW t \in Thread, p_wake(t) PROVE SwitchedOn'
  <2>1. pc[t] = "wake" /\ Forget(t) /\ UNCHANGED <<ptr, own, cond>>
    BY <1>13, WakeEffect
  <2>2. ASSUME NEW u \in Thread, Passed(u)'
        PROVE  ptr'[at'[u]].b # 0 /\ (pc'[u] = "in" => val'[u].b = 2)
    <3>1. u # t
      BY <2>1, <2>2, ForgetEffect DEF Passed
    <3>2. op'[u] = op[u] /\ fn'[u] = fn[u] /\ val'[u] = val[u] /\ at'[u] = at[u]
      BY <2>1, <3>1, ForgetEffect
    <3>3. pc'[u] = pc[u] \/ (pc[u] = "asleep" /\ pc'[u] = "woken")
      BY <1>13, <3>1, WakeOthers
    <3>4. QED
      BY <2>1, <2>2, <3>2, <3>3 DEF SwitchedOn, Passed
  <2>3. QED
    BY <2>2 DEF SwitchedOn
<1>14. CASE UNCHANGED vars
  BY <1>14 DEF vars, TypeOK, SwitchedOn, Passed, Knows, KnowsOf, InFunction, CClock, CXchg, CondFn, CondOp, PlainOp
<1>15. QED
  BY <1>1, <1>2, <1>3, <1>4, <1>5, <1>6, <1>7, <1>8, <1>9, <1>10, <1>11, <1>12, <1>13, <1>14 DEF Next, Step

\* A step of t does nothing to another thread, except that it may wake it.
LEMMA StepFrame ==
  ASSUME IInv, NEW t \in Thread, Step(t), NEW u \in Thread, u # t
  PROVE  /\ at'[u] = at[u] /\ op'[u] = op[u] /\ fn'[u] = fn[u] /\ val'[u] = val[u]
         /\ cond'[u] = cond[u]
         /\ pc'[u] = pc[u] \/ (pc[u] = "asleep" /\ pc'[u] = "woken" /\ pc[t] = "wake")
<1> DEFINE Frame == /\ at'[u] = at[u] /\ op'[u] = op[u] /\ fn'[u] = fn[u] /\ val'[u] = val[u]
                    /\ cond'[u] = cond[u]
                    /\ pc'[u] = pc[u] \/ (pc[u] = "asleep" /\ pc'[u] = "woken" /\ pc[t] = "wake")
<1>1. OnlyThread(t) => Frame
  BY DEF OnlyThread, IInv, TypeOK
<1>2. CASE Read(t)
  BY <1>1, <1>2, ReadEffect
<1>3. CASE CasSucceeds(t)
  BY <1>1, <1>3, CasEffect
<1>4. CASE CasFails(t)
  BY <1>1, <1>4, CasFailsEffect
<1>5. CASE Unlock(t)
  BY <1>1, <1>5, UnlockEffect
<1>6. CASE Retry(t) \/ Mark(t) \/ Enter(t) \/ Check(t) \/ Rewaken(t)
  BY <1>6 DEF Retry, Mark, Enter, Check, Rewaken, Goto, IInv, TypeOK
<1>7. CASE OpenStore(t)
  BY <1>7 DEF OpenStore, Return, Forget, IInv, TypeOK
<1>8. CASE p_wake(t)
  <2>1. pc[t] = "wake" /\ Forget(t) /\ cond' = cond
    BY <1>8, WakeEffect
  <2>2. at'[u] = at[u] /\ op'[u] = op[u] /\ fn'[u] = fn[u] /\ val'[u] = val[u]
    BY <2>1, ForgetEffect
  <2>3. pc'[u] = pc[u] \/ (pc[u] = "asleep" /\ pc'[u] = "woken")
    BY <1>8, WakeEffect DEF IInv, TypeOK
  <2>4. QED
    BY <2>1, <2>2, <2>3
<1>9. QED
  BY <1>2, <1>3, <1>4, <1>5, <1>6, <1>7, <1>8 DEF Step

\* State 0 means that only the owner is there.
LEMMA PrivateStep == IInv /\ [Next]_vars => Private'
<1> SUFFICES ASSUME IInv, [Next]_vars, NEW u \in Thread, pc'[u] # "idle",
                    at'[u] \in Cond, ptr'[at'[u]].b = 0
             PROVE  u = Owner[at'[u]]
  BY DEF Private
<1>1. CASE pc[u] # "idle" /\ at'[u] = at[u]
  BY <1>1, StaysOn DEF IInv, Private
<1>2. CASE pc[u] = "idle" \/ at'[u] # at[u]
  <2>1. ASSUME NEW t \in Thread, NEW p \in Ptr, NEW o \in Ops[t], NEW f \in Entry(o),
               Start(t, p, o, f)
        PROVE  u = Owner[at'[u]]
    BY <1>2, <2>1 DEF IInv, TypeOK, Start
  <2>2. ASSUME NEW t \in Thread, Step(t) PROVE u = Owner[at'[u]]
    <3>1. ASSUME u # t PROVE FALSE
      <4>2. at'[u] = at[u] /\ pc[u] = "idle" /\ pc'[u] = "idle"
        BY <1>2, <2>2, <3>1, StepFrame
      <4>3. QED
        BY <4>2
    <3>2. ASSUME u = t PROVE FALSE
      <4>1. pc[u] # "idle" /\ at'[u] # at[u]
        BY <1>2, <2>2, <3>2 DEF Step, Read, CasSucceeds, CasFails, Retry, Mark, Enter, Check,
                         Rewaken, Unlock, OpenStore, p_wake
      <4>2. Return(u) \/ p_wake(u)
        BY <2>2, <3>2, <4>1, ReadEffect, CasEffect, CasFailsEffect, UnlockEffect
           DEF Step, Retry, Mark, Enter, Check, Rewaken, OpenStore, Goto
      <4>3. pc'[u] = "idle"
        BY <4>2, WakeEffect DEF Return, IInv, TypeOK
      <4>4. QED
        BY <4>3
    <3>3. QED
      BY <3>1, <3>2
  <2>3. ASSUME NEW t \in Thread, Spurious(t) PROVE u = Owner[at'[u]]
    BY <1>2, <2>3 DEF IInv, TypeOK, Spurious, Goto
  <2>4. CASE UNCHANGED vars
    BY <1>2, <2>4 DEF vars
  <2>5. QED
    BY <2>1, <2>2, <2>3, <2>4 DEF Next
<1>3. QED
  BY <1>1, <1>2

\* Who holds a pointer, in terms of the lock bit.
HeldOf(p) == ptr[p].b \in {1, 3} <=> \E t \in Thread : pc[t] = "in" /\ at[t] = p
OneInside(p) == \A t, u \in Thread : Inside(t, p) /\ Inside(u, p) => t = u

\* Nobody enters or leaves p: u is inside after the step if it was before.
SameInside(u, p) ==
  /\ pc'[u] = "in" /\ at'[u] = p => pc[u] = "in" /\ at[u] = p
  /\ pc[u] = "in" /\ at[u] = p => pc'[u] = "in" /\ at'[u] = p
  /\ pc'[u] = "open" /\ at'[u] = p => pc[u] = "open" /\ at[u] = p

\* A step that leaves a pointer's lock bit alone, and nobody enters or leaves.
LEMMA HeldKept ==
  ASSUME IInv, NEW p \in Ptr, ptr'[p].b \in {1, 3} <=> ptr[p].b \in {1, 3},
         \A u \in Thread : SameInside(u, p)
  PROVE  HeldOf(p)' /\ OneInside(p)'
<1>1. HeldOf(p) /\ OneInside(p)
  BY DEF IInv, LockedIffHeld, HeldOf, OneInside
<1>2. HeldOf(p)'
  BY <1>1 DEF HeldOf, SameInside
<1>3. OneInside(p)'
  BY <1>1 DEF OneInside, Inside, SameInside
<1>4. QED
  BY <1>2, <1>3

\* A step during which t enters p, with the lock bit if it locks.
LEMMA HeldEntered ==
  ASSUME IInv, NEW p \in Ptr, NEW t \in Thread, at'[t] = p, pc'[t] \in {"in", "open"},
         ptr'[p].b \in {1, 3} <=> pc'[t] = "in",
         \A u \in Thread \ {t} : ~Inside(u, p)'
  PROVE  HeldOf(p)' /\ OneInside(p)'
  BY DEF HeldOf, OneInside, Inside

\* A step during which t leaves p and clears the lock bit.
LEMMA HeldLeft ==
  ASSUME IInv, NEW p \in Ptr, ptr'[p].b \notin {1, 3},
         \A u \in Thread : ~Inside(u, p)'
  PROVE  HeldOf(p)' /\ OneInside(p)'
  BY DEF HeldOf, OneInside, Inside

\* The lock bit belongs to the thread inside.
LEMMA LockedIffHeldStep == IInv /\ [Next]_vars => LockedIffHeld'
<1> SUFFICES ASSUME IInv, [Next]_vars, NEW p \in Ptr PROVE HeldOf(p)' /\ OneInside(p)'
  BY DEF LockedIffHeld, HeldOf, OneInside
<1>0. ASSUME NEW t \in Thread, Step(t), NEW u \in Thread, u # t
      PROVE  SameInside(u, p) /\ (Inside(u, p)' => Inside(u, p))
  <2>1. SameInside(u, p)
    BY <1>0, StepFrame DEF SameInside
  <2>2. QED
    BY <2>1 DEF SameInside, Inside
<1>1. ASSUME NEW t \in Thread, NEW q \in Ptr, NEW o \in Ops[t], NEW f \in Entry(o),
             Start(t, q, o, f)
      PROVE  HeldOf(p)' /\ OneInside(p)'
  <2>1. ptr' = ptr /\ \A u \in Thread : SameInside(u, p)
    BY <1>1 DEF Start, SameInside, IInv, TypeOK
  <2>2. QED
    BY <2>1, HeldKept
<1>2. ASSUME NEW t \in Thread, Step(t), ptr' = ptr,
             pc[t] \notin {"in", "open"}, pc'[t] \notin {"in", "open"}
      PROVE  HeldOf(p)' /\ OneInside(p)'
  <2>1. \A u \in Thread : SameInside(u, p)
    BY <1>0, <1>2 DEF SameInside
  <2>2. QED
    BY <1>2, <2>1, HeldKept
<1>3. ASSUME NEW t \in Thread, Read(t) PROVE HeldOf(p)' /\ OneInside(p)'
  <2>1. Step(t) /\ ptr' = ptr /\ pc[t] = "read" /\ at' = at /\ pc'[t] # "in"
    BY <1>3, ReadEffect DEF Step
  <2>2. CASE pc'[t] # "open"
    BY <1>2, <2>1, <2>2
  <2>3. CASE pc'[t] = "open" /\ at[t] = p
    <3>1. ptr[p].b = 0
      BY <1>3, <2>3, ReadEffect
    <3>2. \A u \in Thread \ {t} : ~Inside(u, p)'
      BY <1>0, <2>1, <2>3, <3>1, NobodyInside
    <3>3. QED
      BY <2>1, <2>3, <3>1, <3>2, HeldEntered
  <2>4. CASE at[t] # p
    <3>1. \A u \in Thread : SameInside(u, p)
      BY <1>0, <2>1, <2>4 DEF SameInside
    <3>2. QED
      BY <2>1, <3>1, HeldKept
  <2>5. QED
    BY <2>2, <2>3, <2>4
<1>4. ASSUME NEW t \in Thread, CasSucceeds(t) PROVE HeldOf(p)' /\ OneInside(p)'
  <2>1. Step(t) /\ pc[t] = "cas" /\ ptr' = [ptr EXCEPT ![at[t]] = Stored(t)]
        /\ ptr[at[t]].b \in {0, 2}
    BY <1>4, CasEffect DEF Step
  <2>2. ptr'[at[t]] = Stored(t) /\ \A q \in Ptr : q # at[t] => ptr'[q] = ptr[q]
    BY <2>1 DEF IInv, TypeOK
  <2>3. \A u \in Thread \ {t} : ~Inside(u, at[t])
    BY <2>1, NobodyInside
  <2>4. CASE Return(t)
    <3>0. pc'[t] = "idle"
      BY <2>4 DEF Return, IInv, TypeOK
    <3>1. CASE at[t] = p
      <4>1. Stored(t).b \notin {1, 3}
        <5>1. Exchanges(t) \/ fn[t] = "creset"
          BY <1>4, <3>0, CasEffect
        <5>2. QED
          BY <2>1, <5>1, StoredValue
      <4>2. \A u \in Thread : ~Inside(u, p)'
        BY <1>0, <2>1, <2>3, <3>0, <3>1 DEF Inside
      <4>3. QED
        BY <2>2, <3>1, <4>1, <4>2, HeldLeft
    <3>2. CASE at[t] # p
      <4>1. \A u \in Thread : SameInside(u, p)
        BY <1>0, <2>1, <3>0 DEF SameInside
      <4>2. QED
        BY <2>2, <3>2, <4>1, HeldKept
    <3>3. QED
      BY <3>1, <3>2
  <2>5. CASE ~Return(t)
    <3>1. pc'[t] = "in" /\ at' = at /\ Stored(t).b \in {1, 3}
      BY <1>4, <2>1, <2>5, CasEffect, StoredValue
    <3>2. CASE at[t] = p
      <4>1. \A u \in Thread \ {t} : ~Inside(u, p)'
        BY <1>0, <2>1, <2>3, <3>2
      <4>2. QED
        BY <2>2, <3>1, <3>2, <4>1, HeldEntered
    <3>3. CASE at[t] # p
      <4>1. \A u \in Thread : SameInside(u, p)
        BY <1>0, <2>1, <3>1, <3>3 DEF SameInside
      <4>2. QED
        BY <2>2, <3>3, <4>1, HeldKept
    <3>4. QED
      BY <3>2, <3>3
  <2>6. QED
    BY <2>4, <2>5
<1>5. ASSUME NEW t \in Thread, CasFails(t) PROVE HeldOf(p)' /\ OneInside(p)'
  BY <1>2, <1>5, CasFailsEffect DEF Step
<1>6. ASSUME NEW t \in Thread, Retry(t) \/ Enter(t) \/ Check(t) \/ Rewaken(t)
      PROVE  HeldOf(p)' /\ OneInside(p)'
  <2>1. Step(t) /\ ptr' = ptr /\ pc[t] \notin {"in", "open"}
    BY <1>6 DEF Step, Retry, Enter, Check, Rewaken
  <2>2. pc'[t] \notin {"in", "open"}
    BY <1>6 DEF Retry, Enter, Check, Rewaken, Goto, IInv, TypeOK
  <2>3. QED
    BY <1>2, <2>1, <2>2
<1>7. ASSUME NEW t \in Thread, Mark(t) PROVE HeldOf(p)' /\ OneInside(p)'
  <2>1. Step(t) /\ pc[t] = "mark" /\ pc'[t] \notin {"in", "open"}
    BY <1>7 DEF Step, Mark, Goto, IInv, TypeOK
  <2>2. ptr'[p].b \in {1, 3} <=> ptr[p].b \in {1, 3}
    <3>1. val[t].b = 3 /\ ptr \in [Ptr -> [v : Val, b : 0..3]] /\ at[t] \in Ptr
      BY <2>1 DEF IInv, Knows, KnowsOf, TypeOK
    <3>2. CASE ptr[at[t]] = val[t]
      <4>1. ptr' = [ptr EXCEPT ![at[t]] = [ptr[at[t]] EXCEPT !.b = 1]]
        BY <1>7, <3>2 DEF Mark
      <4>2. QED
        BY <3>1, <3>2, <4>1
    <3>3. CASE ptr[at[t]] # val[t]
      BY <1>7, <3>3 DEF Mark
    <3>4. QED
      BY <3>2, <3>3
  <2>3. \A u \in Thread : SameInside(u, p)
    BY <1>0, <2>1 DEF SameInside
  <2>4. QED
    BY <2>2, <2>3, HeldKept
<1>8. ASSUME NEW t \in Thread, Unlock(t) PROVE HeldOf(p)' /\ OneInside(p)'
  <2>1. Step(t) /\ pc[t] = "in" /\ ptr' = [ptr EXCEPT ![at[t]] = NewVal(t)]
    BY <1>8, UnlockEffect DEF Step
  <2>2. NewVal(t).b \notin {1, 3}
    BY <2>1, NewValue
  <2>3. pc'[t] \notin {"in", "open"}
    BY <1>8, UnlockEffect DEF Return, IInv, TypeOK
  <2>4. CASE at[t] = p
    <3>1. \A u \in Thread : ~Inside(u, p)'
      BY <1>0, <2>1, <2>3, <2>4 DEF IInv, LockedIffHeld, Inside
    <3>2. ptr'[p].b \notin {1, 3}
      BY <2>1, <2>2, <2>4 DEF IInv, TypeOK
    <3>3. QED
      BY <3>1, <3>2, HeldLeft
  <2>5. CASE at[t] # p
    <3>1. \A u \in Thread : SameInside(u, p)
      BY <1>0, <2>1, <2>3, <2>5 DEF SameInside
    <3>2. ptr'[p] = ptr[p]
      BY <2>1, <2>5 DEF IInv, TypeOK
    <3>3. QED
      BY <3>1, <3>2, HeldKept
  <2>6. QED
    BY <2>4, <2>5
<1>9. ASSUME NEW t \in Thread, OpenStore(t) PROVE HeldOf(p)' /\ OneInside(p)'
  <2>1. Step(t) /\ pc[t] = "open" /\ ptr[at[t]].b = 0
    BY <1>9 DEF Step, OpenStore, IInv, Knows, KnowsOf
  <2>2. pc'[t] = "idle"
    BY <1>9 DEF OpenStore, Return, IInv, TypeOK
  <2>3. ptr'[p].b \in {1, 3} <=> ptr[p].b \in {1, 3}
    BY <1>9, <2>1 DEF OpenStore, IInv, TypeOK
  <2>4. \A u \in Thread : SameInside(u, p)
    BY <1>0, <2>1, <2>2 DEF SameInside
  <2>5. QED
    BY <2>3, <2>4, HeldKept
<1>10. ASSUME NEW t \in Thread, p_wake(t) PROVE HeldOf(p)' /\ OneInside(p)'
  <2>1. Step(t) /\ pc[t] = "wake" /\ ptr' = ptr
    BY <1>10, WakeEffect DEF Step
  <2>2. pc'[t] = "idle"
    BY <1>10, WakeEffect DEF IInv, TypeOK
  <2>3. QED
    BY <1>2, <2>1, <2>2
<1>11. ASSUME NEW t \in Thread, Spurious(t) PROVE HeldOf(p)' /\ OneInside(p)'
  <2>1. ptr' = ptr /\ \A u \in Thread : SameInside(u, p)
    BY <1>11 DEF Spurious, Goto, SameInside, IInv, TypeOK
  <2>2. QED
    BY <2>1, HeldKept
<1>12. CASE UNCHANGED vars
  BY <1>12, HeldKept DEF vars, SameInside
<1>13. QED
  BY <1>1, <1>3, <1>4, <1>5, <1>6, <1>7, <1>8, <1>9, <1>10, <1>11, <1>12 DEF Next, Step

\* The parts of SleeperRemembered: a thread that will hand on, a bucket that is
\* looked after.
UpIn(u, b) == Bucket[at[u]] = b /\ (pc[u] = "wake" \/ (cond[u] /\ pc[u] # "asleep"))
MarkedIn(b) == \E p \in Ptr : Bucket[p] = b /\ ptr[p].b = 1
LookedAfter(b) == MarkedIn(b) \/ \E u \in Thread : UpIn(u, b)

\* State 1 ends only by an unlock() that goes on to p_wake().
LEMMA MarkCleared ==
  ASSUME IInv, NEW t \in Thread, Step(t), NEW p \in Ptr, ptr[p].b = 1, ptr'[p].b # 1
  PROVE  at[t] = p /\ at'[t] = p /\ pc'[t] = "wake"
<1>0. ptr \in [Ptr -> [v : Val, b : 0..3]] /\ at[t] \in Ptr /\ pc \in [Thread -> Place]
  BY DEF IInv, TypeOK, Place
<1>1. CASE CasSucceeds(t)
  <2>1. ptr[at[t]].b \in {0, 2} /\ ptr' = [ptr EXCEPT ![at[t]] = Stored(t)]
    BY <1>1, CasEffect
  <2>2. QED
    BY <1>0, <2>1
<1>2. CASE Mark(t)
  <2>1. val[t].b = 3
    BY <1>2 DEF Mark, IInv, Knows, KnowsOf
  <2>2. QED
    BY <1>0, <1>2, <2>1 DEF Mark
<1>3. CASE OpenStore(t)
  <2>1. ptr[at[t]].b = 0
    BY <1>3 DEF OpenStore, IInv, Knows, KnowsOf
  <2>2. QED
    BY <1>0, <1>3, <2>1 DEF OpenStore
<1>4. CASE Unlock(t)
  <2>1. ptr' = [ptr EXCEPT ![at[t]] = NewVal(t)]
    BY <1>4, UnlockEffect
  <2>2. at[t] = p
    BY <1>0, <2>1
  <2>3. QED
    BY <1>4, <2>2, UnlockEffect
<1>5. CASE Read(t) \/ CasFails(t) \/ Retry(t) \/ Enter(t) \/ Check(t) \/ Rewaken(t) \/ p_wake(t)
  BY <1>5 DEF Read, CasFails, Retry, Enter, Check, Rewaken, p_wake
<1>6. QED
  BY <1>1, <1>2, <1>3, <1>4, <1>5 DEF Step

\* A thread that is up takes its pointer over in state 1, finds it in state 1 and
\* goes to sleep, wakes another one, or stays up.
LEMMA UpHandsOn ==
  ASSUME IInv, NEW t \in Thread, Step(t), NEW b, UpIn(t, b),
         NEW s \in Thread, pc[s] = "asleep", Bucket[at[s]] = b
  PROVE  LookedAfter(b)'
<1>0. ptr \in [Ptr -> [v : Val, b : 0..3]] /\ at[t] \in Ptr /\ pc \in [Thread -> Place]
      /\ Bucket[at[t]] = b /\ cond \in [Thread -> BOOLEAN] /\ pc[t] # "asleep"
      /\ at \in [Thread -> Ptr]
  BY DEF IInv, TypeOK, Place, UpIn
<1>1. CASE pc[t] = "wake"
  <2>1. p_wake(t)
    BY <1>1 DEF Step, Read, CasSucceeds, CasFails, Retry, Mark, Enter, Check, Rewaken,
                Unlock, OpenStore
  <2>2. PICK u \in Thread : /\ pc[u] = "asleep" /\ u # t /\ Bucket[at[u]] = b
                             /\ pc' = [pc EXCEPT ![t] = "idle", ![u] = "woken"]
    BY <1>0, <2>1, WakeEffect
  <2>3. cond[u]
    BY <2>2 DEF IInv, Knows, KnowsOf
  <2>4. at'[u] = at[u] /\ cond'[u] = cond[u] /\ pc'[u] = "woken"
    BY <1>0, <2>2, StepFrame
  <2>5. QED
    BY <2>2, <2>3, <2>4 DEF LookedAfter, UpIn
<1>2. CASE pc[t] # "wake"
  <2>1. cond[t] /\ fn[t] = "lock" /\ pc[t] \in {"retry", "cas", "mark", "check", "woken"}
    BY <1>0, <1>2 DEF UpIn, IInv, Knows, KnowsOf
  <2>2. CASE CasSucceeds(t)
    <3>1. ~Exchanges(t) /\ fn[t] # "creset" /\ pc[t] = "cas"
      BY <2>1, <2>2 DEF Exchanges, CXchg, CasSucceeds
    <3>2. Stored(t).b = 1 /\ ptr' = [ptr EXCEPT ![at[t]] = Stored(t)]
      BY <2>1, <2>2, <3>1, StoredValue, CasEffect
    <3>3. QED
      BY <1>0, <3>2 DEF LookedAfter, MarkedIn
  <2>3. CASE Check(t)
    <3>1. ptr' = ptr /\ at' = at /\ cond' = cond /\ val[t].b = 1
      BY <2>3 DEF Check, Goto, IInv, Knows, KnowsOf
    <3>2. CASE ptr[at[t]] = val[t]
      BY <1>0, <3>1, <3>2 DEF LookedAfter, MarkedIn
    <3>3. CASE ptr[at[t]] # val[t]
      <4>1. pc'[t] = "retry"
        BY <1>0, <2>3, <3>3 DEF Check, Goto
      <4>2. QED
        BY <1>0, <2>1, <3>1, <4>1 DEF LookedAfter, UpIn
    <3>4. QED
      BY <3>2, <3>3
  <2>4. CASE CasFails(t)
    <3>1. pc'[t] = "retry" /\ at' = at /\ cond' = cond
      BY <2>1, <2>4, CasFailsEffect
    <3>2. QED
      BY <1>0, <2>1, <3>1 DEF LookedAfter, UpIn
  <2>5. CASE Retry(t) \/ Mark(t) \/ Rewaken(t)
    <3>1. pc'[t] \in {"cas", "mark", "check", "enter", "retry"} /\ at' = at /\ cond' = cond
      BY <1>0, <2>5 DEF Retry, Mark, Rewaken, Goto, IInv, TypeOK
    <3>2. QED
      BY <1>0, <2>1, <3>1 DEF LookedAfter, UpIn
  <2>6. QED
    BY <2>1, <2>2, <2>3, <2>4, <2>5
       DEF Step, Read, Enter, Unlock, OpenStore, p_wake
<1>3. QED
  BY <1>1, <1>2

\* A step of t leaves a bucket looked after while another thread sleeps on it.
LEMMA StaysLookedAfter ==
  ASSUME IInv, NEW t \in Thread, Step(t), NEW b, LookedAfter(b),
         NEW s \in Thread, pc[s] = "asleep", Bucket[at[s]] = b
  PROVE  LookedAfter(b)'
<1>1. CASE MarkedIn(b)
  <2>1. PICK p \in Ptr : Bucket[p] = b /\ ptr[p].b = 1
    BY <1>1 DEF MarkedIn
  <2>2. CASE ptr'[p].b = 1
    BY <2>1, <2>2 DEF LookedAfter, MarkedIn
  <2>3. CASE ptr'[p].b # 1
    BY <2>1, <2>3, MarkCleared DEF LookedAfter, UpIn
  <2>4. QED
    BY <2>2, <2>3
<1>2. ASSUME NEW u \in Thread, UpIn(u, b), u # t PROVE LookedAfter(b)'
  <2>1. at'[u] = at[u] /\ cond'[u] = cond[u] /\ pc'[u] = pc[u]
    BY <1>2, StepFrame DEF UpIn
  <2>2. QED
    BY <1>2, <2>1 DEF UpIn, LookedAfter
<1>3. CASE UpIn(t, b)
  BY <1>3, UpHandsOn
<1>4. QED
  BY <1>1, <1>2, <1>3 DEF LookedAfter

\* Sleepers stay remembered.
LEMMA SleeperRememberedStep == IInv /\ [Next]_vars => SleeperRemembered'
<1> SUFFICES ASSUME IInv, [Next]_vars, NEW s \in Thread, pc'[s] = "asleep",
                    NEW b, b = Bucket[at'[s]]
             PROVE  LookedAfter(b)'
  BY DEF SleeperRemembered, LookedAfter, MarkedIn, UpIn
<1>0. pc[s] = "asleep" => LookedAfter(Bucket[at[s]])
  BY DEF IInv, SleeperRemembered, LookedAfter, MarkedIn, UpIn
<1>1. ASSUME NEW t \in Thread, Step(t) PROVE LookedAfter(b)'
  <2>1. CASE s # t
    <3>1. pc[s] = "asleep" /\ at'[s] = at[s]
      BY <1>1, <2>1, StepFrame
    <3>2. QED
      BY <1>0, <1>1, <3>1, StaysLookedAfter
  <2>2. CASE s = t
    <3>1. Check(t)
      <4>1. ~Read(t)
        BY <2>2, ReadEffect
      <4>2. ~CasSucceeds(t)
        BY <2>2, CasEffect DEF Return, IInv, TypeOK
      <4>3. ~CasFails(t)
        BY <2>2, CasFailsEffect
      <4>4. ~Unlock(t)
        BY <2>2, UnlockEffect DEF Return, IInv, TypeOK
      <4>5. ~p_wake(t)
        BY <2>2, WakeEffect DEF IInv, TypeOK
      <4>6. ~Retry(t) /\ ~Mark(t) /\ ~Enter(t) /\ ~Rewaken(t) /\ ~OpenStore(t)
        BY <2>2 DEF Retry, Mark, Enter, Rewaken, OpenStore, Goto, Return, IInv, TypeOK
      <4>7. QED
        BY <1>1, <4>1, <4>2, <4>3, <4>4, <4>5, <4>6 DEF Step
    <3>2. ptr' = ptr /\ at' = at /\ val[t].b = 1 /\ at[t] \in Ptr
      BY <3>1 DEF Check, Goto, IInv, Knows, KnowsOf, TypeOK
    <3>3. ptr[at[t]] = val[t]
      BY <2>2, <3>1 DEF Check, Goto, IInv, TypeOK
    <3>4. QED
      BY <2>2, <3>2, <3>3 DEF LookedAfter, MarkedIn
  <2>3. QED
    BY <2>1, <2>2
<1>2. ASSUME NEW t \in Thread, Spurious(t) PROVE LookedAfter(b)'
  <2>1. ptr' = ptr /\ at' = at /\ cond' = cond /\ pc' = [pc EXCEPT ![t] = "woken"] /\ pc[t] = "asleep"
    BY <1>2 DEF Spurious, Goto
  <2>2. pc[s] = "asleep"
    BY <2>1 DEF IInv, TypeOK
  <2>3. \A u \in Thread : UpIn(u, b) => UpIn(u, b)'
    BY <2>1 DEF UpIn, IInv, TypeOK
  <2>4. QED
    BY <1>0, <2>1, <2>2, <2>3 DEF LookedAfter, MarkedIn
<1>3. ASSUME NEW t \in Thread, NEW q \in Ptr, NEW o \in Ops[t], NEW f \in Entry(o),
             Start(t, q, o, f)
      PROVE  LookedAfter(b)'
  <2>1. ptr' = ptr /\ cond' = cond /\ pc[t] = "idle" /\ pc' = [pc EXCEPT ![t] = "read"]
        /\ at' = [at EXCEPT ![t] = q]
    BY <1>3 DEF Start
  <2>2. pc[s] = "asleep" /\ at'[s] = at[s] /\ ~cond[t]
    BY <2>1 DEF IInv, TypeOK, Knows, KnowsOf
  <2>3. \A u \in Thread : UpIn(u, b) => UpIn(u, b)'
    BY <2>1, <2>2 DEF UpIn, IInv, TypeOK
  <2>4. QED
    BY <1>0, <2>1, <2>2, <2>3 DEF LookedAfter, MarkedIn
<1>4. CASE UNCHANGED vars
  BY <1>0, <1>4 DEF vars, LookedAfter, MarkedIn, UpIn
<1>5. QED
  BY <1>1, <1>2, <1>3, <1>4 DEF Next

-----------------------------------------------------------------------------
(* The theorems.                                                            *)

\* The invariant holds initially.
LEMMA InitIInv == Init => IInv
<1> SUFFICES ASSUME Init PROVE IInv
  OBVIOUS
<1>1. TypeOK
  BY LockpAssumption, Placeholders DEF Init, TypeOK, PlainOp
<1>2. LockedIffHeld
  <2>1. \A p \in Ptr : ptr[p].b \in {0, 2}
    BY DEF Init
  <2>2. QED
    BY <2>1 DEF Init, LockedIffHeld, Inside
<1>3. InFunction /\ Private /\ SwitchedOn /\ SleeperRemembered
  BY DEF Init, InFunction, Private, SwitchedOn, Passed, SleeperRemembered, CClock, CXchg
<1>4. Knows
  BY DEF Init, Knows, KnowsOf
<1>5. QED
  BY <1>1, <1>2, <1>3, <1>4 DEF IInv

\* The inductive invariant holds in every reachable state.
THEOREM LockInvariant == Spec => []IInv
<1>1. IInv /\ [Next]_vars => IInv'
  BY TypeOKStep, InFunctionStep, KnowsStep, SwitchedOnStep, PrivateStep,
     LockedIffHeldStep, SleeperRememberedStep DEF IInv
<1>2. QED
  BY InitIInv, <1>1, PTL DEF Spec

\* Types, for every number of threads, pointers and operations.
THEOREM TypeCorrect == Spec => []TypeOK
<1>1. IInv => TypeOK
  BY DEF IInv
<1>2. QED
  BY LockInvariant, <1>1, PTL

\* The lock bit is set exactly while one thread holds the lock, so the assertion
\* in unlock() cannot fail.
THEOREM Exclusive == Spec => []LockedIffHeld
<1>1. IInv => LockedIffHeld
  BY DEF IInv
<1>2. QED
  BY LockInvariant, <1>1, PTL

\* No thread that sleeps in lock() is forgotten, however the pointers are spread
\* over the condition variables.
THEOREM NobodyForgotten == Spec => []SleeperRemembered
<1>1. IInv => SleeperRemembered
  BY DEF IInv
<1>2. QED
  BY LockInvariant, <1>1, PTL

\* Conditional locking is never switched off by an operation.
THEOREM LockingStaysOn == Spec => LockingSticks
<1>1. IInv /\ [Next]_vars => [\A p \in Cond : ptr[p].b # 0 => ptr'[p].b # 0]_vars
  BY StaysOn
<1>2. QED
  BY LockInvariant, <1>1, PTL DEF Spec, LockingSticks

-----------------------------------------------------------------------------
(* Lockp implements PointerLock.                                            *)

\* The holder is the thread inside, before and after a step.
LEMMA HolderValue ==
  ASSUME IInv, NEW p \in Ptr
  PROVE  /\ \A t \in Thread : Inside(t, p) => Holder[p] = t
         /\ (\A t \in Thread : ~Inside(t, p)) => Holder[p] = None
<1>1. \A t, u \in Thread : Inside(t, p) /\ Inside(u, p) => t = u
  BY DEF IInv, LockedIffHeld
<1>2. QED
  BY <1>1 DEF Holder

\* The same for the state after a step.
LEMMA HolderValueNext ==
  ASSUME IInv', NEW p \in Ptr
  PROVE  /\ \A t \in Thread : Inside(t, p)' => Holder'[p] = t
         /\ (\A t \in Thread : ~Inside(t, p)') => Holder'[p] = None
<1>1. \A t, u \in Thread : Inside(t, p)' /\ Inside(u, p)' => t = u
  BY DEF IInv, LockedIffHeld
<1>2. QED
  BY <1>1 DEF Holder

\* Nobody enters or leaves.
LEMMA HolderSame ==
  ASSUME IInv, IInv', \A u \in Thread, p \in Ptr : Inside(u, p)' <=> Inside(u, p)
  PROVE  Holder' = Holder
<1>1. ASSUME NEW p \in Ptr PROVE Holder'[p] = Holder[p]
  <2>1. CASE \E u \in Thread : Inside(u, p)
    BY <2>1, HolderValue, HolderValueNext
  <2>2. CASE \A u \in Thread : ~Inside(u, p)
    BY <2>2, HolderValue, HolderValueNext
  <2>3. QED
    BY <2>1, <2>2
<1>2. QED
  BY <1>1 DEF Holder

\* One thread enters.
LEMMA HolderEnter ==
  ASSUME IInv, IInv', NEW t \in Thread, NEW p \in Ptr,
         \A u \in Thread : ~Inside(u, p), Inside(t, p)',
         \A u \in Thread, q \in Ptr \ {p} : Inside(u, q)' <=> Inside(u, q)
  PROVE  Holder[p] = None /\ Holder' = [Holder EXCEPT ![p] = t]
<1>1. Holder[p] = None /\ Holder'[p] = t
  BY HolderValue, HolderValueNext
<1>2. ASSUME NEW q \in Ptr, q # p PROVE Holder'[q] = Holder[q]
  <2>1. CASE \E u \in Thread : Inside(u, q)
    BY <1>2, <2>1, HolderValue, HolderValueNext
  <2>2. CASE \A u \in Thread : ~Inside(u, q)
    BY <1>2, <2>2, HolderValue, HolderValueNext
  <2>3. QED
    BY <2>1, <2>2
<1>3. QED
  BY <1>1, <1>2 DEF Holder

\* One thread leaves.
LEMMA HolderLeave ==
  ASSUME IInv, IInv', NEW t \in Thread, NEW p \in Ptr,
         Inside(t, p), \A u \in Thread : ~Inside(u, p)',
         \A u \in Thread, q \in Ptr \ {p} : Inside(u, q)' <=> Inside(u, q)
  PROVE  Holder[p] = t /\ Holder' = [Holder EXCEPT ![p] = None]
<1>1. Holder[p] = t /\ Holder'[p] = None
  BY HolderValue, HolderValueNext
<1>2. ASSUME NEW q \in Ptr, q # p PROVE Holder'[q] = Holder[q]
  <2>1. CASE \E u \in Thread : Inside(u, q)
    BY <1>2, <2>1, HolderValue, HolderValueNext
  <2>2. CASE \A u \in Thread : ~Inside(u, q)
    BY <1>2, <2>2, HolderValue, HolderValueNext
  <2>3. QED
    BY <2>1, <2>2
<1>3. QED
  BY <1>1, <1>2 DEF Holder

\* Writing a pointer writes its cell.
LEMMA CellWritten ==
  ASSUME TypeOK, NEW p \in Ptr, NEW x \in [v : Val, b : 0..3],
         ptr' = [ptr EXCEPT ![p] = x]
  PROVE  Cell[p] = ptr[p].v /\ Cell' = [Cell EXCEPT ![p] = x.v]
  BY DEF Cell, TypeOK

\* Initial states are initial states of PointerLock.
LEMMA ImplementsInit == Init => Abstract!Init
<1> SUFFICES ASSUME Init PROVE Abstract!Init
  OBVIOUS
<1>1. IInv
  BY InitIInv
<1>2. Cell \in [Ptr -> Val] /\ own \in [Thread -> Val]
  BY <1>1 DEF IInv, TypeOK, Cell
<1>3. \A p \in Ptr, t \in Thread : ~Inside(t, p)
  BY DEF Init, Inside
<1>4. Holder = [p \in Ptr |-> None]
  BY <1>3 DEF Holder
<1>5. QED
  BY <1>2, <1>4 DEF Abstract!Init

\* Every step is a step of PointerLock or leaves its state alone.
LEMMA ImplementsStep ==
  IInv /\ IInv' /\ [Next]_vars => [Abstract!Next]_(Abstract!cellVars)
<1> SUFFICES ASSUME IInv, IInv', [Next]_vars
             PROVE  Abstract!Next \/ UNCHANGED <<Cell, Holder, own>>
  BY DEF Abstract!cellVars
<1> DEFINE Stutter == UNCHANGED <<Cell, Holder, own>>
<1>a. ptr \in [Ptr -> [v : Val, b : 0..3]] /\ at \in [Thread -> Ptr] /\ pc \in [Thread -> Place]
      /\ val \in [Thread -> [v : Val, b : 0..3]] /\ own \in [Thread -> Val]
  BY DEF IInv, TypeOK, Place
<1>0. ASSUME NEW t \in Thread, Step(t), NEW u \in Thread, u # t, NEW p \in Ptr
      PROVE  Inside(u, p)' <=> Inside(u, p)
  BY <1>0, StepFrame DEF Inside
<1>1. ASSUME NEW t \in Thread, Step(t), pc[t] \notin {"in", "open"}, pc'[t] \notin {"in", "open"}
      PROVE  Holder' = Holder
  <2>1. \A p \in Ptr : ~Inside(t, p) /\ ~Inside(t, p)'
    BY <1>1 DEF Inside
  <2>2. QED
    BY <1>0, <1>1, <2>1, HolderSame
<1>2. ASSUME NEW t \in Thread, NEW q \in Ptr, NEW o \in Ops[t], NEW f \in Entry(o),
             Start(t, q, o, f)
      PROVE  Stutter
  <2>1. ptr' = ptr /\ own' = own /\ pc[t] = "idle" /\ pc' = [pc EXCEPT ![t] = "read"]
        /\ at' = [at EXCEPT ![t] = q]
    BY <1>2 DEF Start
  <2>2. \A u \in Thread, p \in Ptr : Inside(u, p)' <=> Inside(u, p)
    BY <1>a, <2>1 DEF Inside
  <2>3. QED
    BY <2>1, <2>2, HolderSame DEF Cell
<1>3. ASSUME NEW t \in Thread, Read(t) PROVE Stutter \/ Abstract!Next
  <2>1. Step(t) /\ ptr' = ptr /\ own' = own /\ at' = at /\ pc[t] = "read" /\ pc'[t] # "in"
    BY <1>3, ReadEffect DEF Step
  <2>2. CASE pc'[t] # "open"
    BY <1>1, <2>1, <2>2 DEF Cell
  <2>3. CASE pc'[t] = "open"
    <3>0. PICK p \in Ptr : p = at[t]
      BY <1>a
    <3>1. ptr[p].b = 0
      BY <1>3, <2>3, <3>0, ReadEffect
    <3>2. \A u \in Thread : ~Inside(u, p)
      BY <2>1, <3>0, <3>1, NobodyInside
    <3>3. Inside(t, p)' /\ \A q \in Ptr \ {p} : ~Inside(t, q) /\ ~Inside(t, q)'
      BY <2>1, <2>3, <3>0 DEF Inside
    <3>4. \A u \in Thread, q \in Ptr \ {p} : Inside(u, q)' <=> Inside(u, q)
      BY <1>0, <2>1, <3>3
    <3>5. Holder[p] = None /\ Holder' = [Holder EXCEPT ![p] = t]
      BY <3>2, <3>3, <3>4, HolderEnter
    <3>6. Abstract!Acquire(t, p)
      BY <2>1, <3>5 DEF Abstract!Acquire, Cell
    <3>7. QED
      BY <3>6 DEF Abstract!Next
  <2>4. QED
    BY <2>2, <2>3
<1>4. ASSUME NEW t \in Thread, CasSucceeds(t) PROVE Stutter \/ Abstract!Next
  <2>1. Step(t) /\ pc[t] = "cas" /\ ptr' = [ptr EXCEPT ![at[t]] = Stored(t)]
        /\ ptr[at[t]].b \in {0, 2} /\ ptr[at[t]].v = val[t].v /\ at[t] \in Ptr
    BY <1>4, <1>a, CasEffect DEF Step
  <2>2. Cell[at[t]] = val[t].v /\ Cell' = [Cell EXCEPT ![at[t]] = Stored(t).v]
    BY <2>1, StoredValue, CellWritten DEF IInv
  <2>3. \A u \in Thread : ~Inside(u, at[t])
    BY <2>1, NobodyInside
  <2>4. CASE Exchanges(t) \/ fn[t] = "creset"
    <3>1. Return(t) /\ own' = IF Exchanges(t) THEN [own EXCEPT ![t] = val[t].v] ELSE own
      BY <1>4, <2>4, CasEffect
    <3>2. pc'[t] = "idle"
      BY <1>a, <3>1 DEF Return
    <3>3. Holder' = Holder
      BY <1>1, <2>1, <3>2
    <3>4. CASE Exchanges(t)
      <4>1. Holder[at[t]] = None
        BY <2>1, <2>3, HolderValue
      <4>2. Stored(t).v = own[t]
        BY <2>1, <3>4, StoredValue
      <4>3. Abstract!Exchange(t, at[t])
        BY <2>2, <3>1, <3>3, <3>4, <4>1, <4>2 DEF Abstract!Exchange, Abstract!Swap
      <4>4. QED
        BY <2>1, <4>3 DEF Abstract!Next
    <3>5. CASE ~Exchanges(t)
      <4>1. Stored(t).v = val[t].v
        BY <2>1, <2>4, <3>5, StoredValue
      <4>2. Cell' = Cell
        BY <2>2, <4>1 DEF Cell
      <4>3. QED
        BY <3>1, <3>3, <3>5, <4>2
    <3>6. QED
      BY <3>4, <3>5
  <2>5. CASE ~(Exchanges(t) \/ fn[t] = "creset")
    <3>1. own' = own /\ at' = at /\ pc'[t] = "in"
      BY <1>4, <2>5, CasEffect
    <3>2. Stored(t).v = val[t].v
      BY <2>1, <2>5, StoredValue
    <3>3. Cell' = Cell
      BY <2>2, <3>2 DEF Cell
    <3>a. PICK p \in Ptr : p = at[t]
      BY <2>1
    <3>4. Inside(t, p)' /\ \A q \in Ptr \ {p} : ~Inside(t, q) /\ ~Inside(t, q)'
      BY <2>1, <3>1, <3>a DEF Inside
    <3>5. \A u \in Thread, q \in Ptr \ {p} : Inside(u, q)' <=> Inside(u, q)
      BY <1>0, <2>1, <3>4
    <3>6. Holder[p] = None /\ Holder' = [Holder EXCEPT ![p] = t]
      BY <2>3, <3>a, <3>4, <3>5, HolderEnter
    <3>7. Abstract!Acquire(t, p)
      BY <3>1, <3>3, <3>6 DEF Abstract!Acquire
    <3>8. QED
      BY <3>7 DEF Abstract!Next
  <2>6. QED
    BY <2>4, <2>5
<1>5. ASSUME NEW t \in Thread, CasFails(t) PROVE Stutter
  <2>1. Step(t) /\ ptr' = ptr /\ own' = own /\ pc[t] = "cas" /\ pc'[t] \notin {"in", "open"}
    BY <1>5, CasFailsEffect DEF Step
  <2>2. QED
    BY <1>1, <2>1 DEF Cell
<1>6. ASSUME NEW t \in Thread, Retry(t) \/ Enter(t) \/ Check(t) \/ Rewaken(t)
      PROVE  Stutter
  <2>1. Step(t) /\ ptr' = ptr /\ own' = own /\ pc[t] \notin {"in", "open"}
    BY <1>6 DEF Step, Retry, Enter, Check, Rewaken
  <2>2. pc'[t] \notin {"in", "open"}
    BY <1>6, <1>a DEF Retry, Enter, Check, Rewaken, Goto, IInv, TypeOK
  <2>3. QED
    BY <1>1, <2>1, <2>2 DEF Cell
<1>7. ASSUME NEW t \in Thread, Mark(t) PROVE Stutter
  <2>1. Step(t) /\ own' = own /\ pc[t] = "mark" /\ pc'[t] \notin {"in", "open"}
    BY <1>7, <1>a DEF Step, Mark, Goto
  <2>2. Cell' = Cell
    <3>1. CASE ptr[at[t]] = val[t]
      <4>1. ptr' = [ptr EXCEPT ![at[t]] = [ptr[at[t]] EXCEPT !.b = 1]]
        BY <1>7, <3>1 DEF Mark
      <4>2. \A q \in Ptr : ptr'[q].v = ptr[q].v
        BY <1>a, <4>1
      <4>3. QED
        BY <4>2 DEF Cell
    <3>2. CASE ptr[at[t]] # val[t]
      BY <1>7, <3>2 DEF Mark, Cell
    <3>3. QED
      BY <3>1, <3>2
  <2>3. QED
    BY <1>1, <2>1, <2>2
<1>8. ASSUME NEW t \in Thread, Unlock(t) \/ OpenStore(t) PROVE Stutter \/ Abstract!Next
  <2>1. Step(t) /\ pc[t] \in {"in", "open"} /\ Inside(t, at[t]) /\ at[t] \in Ptr
    BY <1>8, <1>a DEF Step, Unlock, OpenStore, Inside
  <2>2. pc'[t] \notin {"in", "open"}
    <3>1. CASE Unlock(t)
      BY <3>1, <1>a, UnlockEffect DEF Return
    <3>2. CASE OpenStore(t)
      BY <3>2, <1>a DEF OpenStore, Return
    <3>3. QED
      BY <1>8, <3>1, <3>2
  <2>a. PICK p \in Ptr : p = at[t]
    BY <2>1
  <2>3. \A u \in Thread : ~Inside(u, p)'
    <3>1. ~Inside(t, p)'
      BY <2>2 DEF Inside
    <3>2. ASSUME NEW u \in Thread, u # t PROVE ~Inside(u, p)'
      <4>1. ~Inside(u, p)
        BY <2>1, <2>a, <3>2 DEF IInv, LockedIffHeld
      <4>2. QED
        BY <1>0, <2>1, <3>2, <4>1
    <3>3. QED
      BY <3>1, <3>2
  <2>4. \A u \in Thread, q \in Ptr \ {p} : Inside(u, q)' <=> Inside(u, q)
    <3>1. \A q \in Ptr \ {p} : ~Inside(t, q) /\ ~Inside(t, q)'
      BY <2>1, <2>2, <2>a DEF Inside
    <3>2. QED
      BY <1>0, <2>1, <3>1
  <2>5. Holder[at[t]] = t /\ Holder' = [Holder EXCEPT ![at[t]] = None]
    BY <2>1, <2>a, <2>3, <2>4, HolderLeave
  <2>6. Cell[at[t]] = val[t].v
    BY <2>1, <1>a DEF Cell, Inside, IInv, Knows, KnowsOf
  <2>7. TakeAway(t)
    BY <1>8 DEF Unlock, OpenStore
  <2>8. Cell' = IF op[t] \in {"cmem", "creset"} THEN Cell ELSE [Cell EXCEPT ![at[t]] = own[t]]
    <3>1. CASE Unlock(t)
      <4>1. ptr' = [ptr EXCEPT ![at[t]] = NewVal(t)] /\ pc[t] = "in"
        BY <3>1, UnlockEffect
      <4>a. NewVal(t) \in [v : Val, b : 0..3]
        BY <4>1, NewValue
      <4>2. Cell' = [Cell EXCEPT ![at[t]] = NewVal(t).v]
        BY <2>1, <4>1, <4>a, CellWritten DEF IInv
      <4>3. NewVal(t).v = IF op[t] \in {"cmem", "creset"} THEN val[t].v ELSE own[t]
        BY <4>1, NewValue
      <4>4. [Cell EXCEPT ![at[t]] = val[t].v] = Cell
        BY <2>6 DEF Cell
      <4>5. QED
        BY <4>2, <4>3, <4>4
    <3>2. CASE OpenStore(t)
      <4>1. op[t] # "creset"
        BY <3>2 DEF OpenStore, IInv, Knows, KnowsOf, InFunction, CondFn
      <4>2. CASE op[t] = "cmem"
        BY <3>2, <4>2 DEF OpenStore, Cell
      <4>3. CASE op[t] # "cmem"
        <5> DEFINE x == [v |-> own[t], b |-> 0]
        <5>1. x \in [v : Val, b : 0..3] /\ x.v = own[t]
          BY <1>a
        <5>2. ptr' = [ptr EXCEPT ![at[t]] = x]
          BY <3>2, <4>3 DEF OpenStore
        <5> HIDE DEF x
        <5>3. QED
          BY <2>1, <4>1, <4>3, <5>1, <5>2, CellWritten DEF IInv
      <4>4. QED
        BY <4>2, <4>3
    <3>3. QED
      BY <1>8, <3>1, <3>2
  <2>9. Abstract!Release(t, at[t])
    BY <2>5, <2>6, <2>7, <2>8 DEF TakeAway, Abstract!Release, Abstract!Swap
  <2>10. QED
    BY <2>1, <2>9 DEF Abstract!Next
<1>9. ASSUME NEW t \in Thread, p_wake(t) PROVE Stutter
  <2>1. Step(t) /\ pc[t] = "wake" /\ ptr' = ptr /\ own' = own
    BY <1>9, WakeEffect DEF Step
  <2>2. pc'[t] = "idle"
    BY <1>9, <1>a, WakeEffect
  <2>3. QED
    BY <1>1, <2>1, <2>2 DEF Cell
<1>10. ASSUME NEW t \in Thread, Spurious(t) PROVE Stutter
  <2>1. ptr' = ptr /\ own' = own /\ at' = at /\ pc[t] = "asleep" /\ pc' = [pc EXCEPT ![t] = "woken"]
    BY <1>10 DEF Spurious, Goto
  <2>2. \A u \in Thread, p \in Ptr : Inside(u, p)' <=> Inside(u, p)
    BY <1>a, <2>1 DEF Inside
  <2>3. QED
    BY <2>1, <2>2, HolderSame DEF Cell
<1>11. CASE UNCHANGED vars
  BY <1>11 DEF vars, Cell, Holder, Inside
<1>12. QED
  BY <1>2, <1>3, <1>4, <1>5, <1>6, <1>7, <1>8, <1>9, <1>10, <1>11 DEF Next, Step

\* Lockp implements PointerLock: mutual exclusion and indivisible hand-over for
\* any threads, pointers and values.
THEOREM LockpImplementsPointerLock == Spec => ImplementsPointerLock
<1>1. Spec => []IInv
  BY LockInvariant
<1>2. QED
  BY <1>1, ImplementsInit, ImplementsStep, PTL DEF Spec, ImplementsPointerLock, Abstract!Spec

=============================================================================
