---------------------------- MODULE MemoryManager ----------------------------
(***************************************************************************)
(* MM_default: blocks of sixteen sizes in free lists, one list of a size   *)
(* for all threads, under its pointer lock, and with MMD_THREAD one more   *)
(* in each thread.  And the threads that use it, from start() to the end   *)
(* of finish_func(), which gives the lists of a thread back: a Thread is a *)
(* block too, freed by whoever drops the last reference.                   *)
(*                                                                         *)
(* What happens between i_lock() and i_unlock() of a list touches nothing  *)
(* else that is shared and is one step (PointerLock).                      *)
(***************************************************************************)
EXTENDS Integers, Sequences, FiniteSets, SequencesExt, FiniteSetsExt

CONSTANTS
  Main, Spawned,  \* the first thread, and the others
  ThreadSize,     \* the size of a Thread
  Users(_),       \* the threads that get a reference to a Thread
  Programs        \* the programs: the options they start with, a subset of
                  \*   {"thread", "bound"}, the sizes they ask for, the threads
                  \*   they start; and a bound on the number of blocks

Threads == {Main} \cup Spawned
NoThread == "none"

ASSUME SizesAssumption ==
  ThreadSize \in Nat \ {0} /\ \A p \in Programs : p.sizes \subseteq Nat \ {0}
ASSUME UsersAssumption ==
  /\ IsFiniteSet(Spawned) /\ Main \notin Spawned /\ NoThread \notin Threads
  /\ \A t \in Spawned : Users(t) \subseteq Threads

VARIABLES
  program,        \* which of the programs this is
  options,        \* debug_options
  chunks,         \* what malloc() returned and is not yet freed: its length,
                  \*   the size of its blocks, 0 for one large block
  queue,          \* the free lists of MM_default, by the size of their blocks
  first, last,    \* the lists of the threads, and the blocks thr_alsmall_x[1]
                  \*   points to
  held,           \* the blocks in use and their sizes, as asked for
  at,             \* where the threads are in a call
  allocs,         \* number of blocks asked for
  life,           \* "none", "running", "closing" or "ended"
  main,           \* the blocks of the Threads
  refcnt, implrefs, \* references to the Thread, to its Thread_impl
  users,          \* the threads that have a reference to the Thread; it has one itself
  attached, joinlock,
  released        \* calls of pthread_join() that returned, of pthread_detach()

memory == <<program, options, chunks, queue, first, last, held, allocs>>
threads == <<life, main, refcnt, implrefs, users, attached, joinlock, released>>
vars == <<memory, at, threads>>

------------------------------------------------------------------------------
(* Sizes. *)

Ptr == 8        \* sizeof(void *)
Align == 16     \* DR_ALIGN_ALLOC
Small == {Align * i : i \in 1..(128 \div Align)}
Bigger == {192, 256, 384, 512, 768, 1024}
Classes == {Ptr} \cup Small \cup Bigger
RoundUp(n) == ((n + Align - 1) \div Align) * Align

\* The size with the word that holds it, and the guards.
WithBound(n) == IF "bound" \in options THEN RoundUp(n + Ptr) + 64 ELSE n + Ptr

ClassOf(size) == IF size <= Ptr THEN Ptr
                 ELSE IF (size - 1) \div Align < Cardinality(Small) THEN RoundUp(size)
                 ELSE Min({c \in Bigger : size <= c})

ChunkSize(class) == (IF class <= Ptr THEN 512 ELSE IF class \in Small THEN 1024 ELSE 4096) - 4 * Ptr

\* A chunk is cut into blocks; what remains is a block of a smaller list.
FirstAt == Align - Ptr
Capacity(class) == (ChunkSize(class) - FirstAt) \div class
RemainAt(class) == FirstAt + Capacity(class) * class
RemainSize(class) == ChunkSize(class) - RemainAt(class)
Carve(id, class) == [i \in 1..Capacity(class) |-> <<id, FirstAt + (i - 1) * class>>]

RemainClass(n) == IF n < 2 * Ptr THEN Ptr
                  ELSE IF n \div Align <= Cardinality(Small) THEN ((n - Align) \div Align + 1) * Align
                  ELSE IF n < 192 THEN 128
                  ELSE Max({c \in Bigger : c <= n})

------------------------------------------------------------------------------
NoBlock == <<0, 0>>
Idle == [pc |-> "idle", size |-> 0, old |-> NoBlock, out |-> NoBlock, of |-> NoThread]

Init ==
  /\ program \in Programs /\ options = program.options
  /\ chunks = [id \in {} |-> <<>>]
  /\ queue = [c \in Classes |-> <<>>]
  /\ first = [t \in Threads |-> queue]
  /\ last = [t \in Threads |-> [c \in Classes |-> NoBlock]]
  /\ held = [b \in {} |-> 0]
  /\ at = [t \in Threads |-> Idle] /\ allocs = 0
  /\ life = [t \in Threads |-> IF t = Main THEN "running" ELSE "none"]
  /\ main = [t \in Spawned |-> NoBlock]
  /\ refcnt = [t \in Spawned |-> 0] /\ implrefs = refcnt /\ users = [t \in Spawned |-> {}]
  /\ attached = [t \in Spawned |-> FALSE] /\ joinlock = [t \in Spawned |-> NoThread]
  /\ released = refcnt

With(f, x, v) == [y \in DOMAIN f \cup {x} |-> IF y = x THEN v ELSE f[y]]
Without(f, x) == [y \in DOMAIN f \ {x} |-> f[y]]
NewChunk == Min(1..(Cardinality(DOMAIN chunks) + 1) \ DOMAIN chunks)
AtPlace(t, pc) == life[t] \in {"running", "closing"} /\ at[t].pc = pc
Goes(t, pc) == at' = [at EXCEPT ![t].pc = pc]

\* The blocks a program may free: those that are no Thread, and that nobody is
\* about to replace by larger ones.
Owned == DOMAIN held \ ({main[t] : t \in Spawned} \cup {at[t].old : t \in Threads})

------------------------------------------------------------------------------
(* impl_alloc() *)

\* The call returns out; regrow goes on with the old block.
Return(t, out, n, old) ==
  /\ held' = With(held, out, n)
  /\ at' = [at EXCEPT ![t] = IF old = NoBlock THEN Idle
                             ELSE [Idle EXCEPT !.pc = "copied", !.old = old]]

\* The list of all threads is looked at if that of the thread has no block, without
\* its lock: while another thread holds it even the pointer of an empty list is not
\* NULL.
Asks(t, n, old) ==
  LET size == WithBound(n)  c == ClassOf(size) IN
  /\ allocs < program.max /\ allocs' = allocs + 1
  /\ UNCHANGED <<program, options, last, threads>>
  /\ IF size > 1024
     THEN /\ chunks' = With(chunks, NewChunk, [len |-> size + Align, class |-> 0])
          /\ Return(t, <<NewChunk, FirstAt>>, n, old)
          /\ UNCHANGED <<queue, first>>
     ELSE IF "thread" \in options /\ first[t][c] # <<>>
     THEN /\ first' = [first EXCEPT ![t][c] = Tail(@)]
          /\ Return(t, Head(first[t][c]), n, old)
          /\ UNCHANGED <<chunks, queue>>
     ELSE /\ \E pc \in {"pop"} \cup (IF queue[c] = <<>> THEN {"grow"} ELSE {}) :
               at' = [at EXCEPT ![t] = [Idle EXCEPT !.pc = pc, !.size = n, !.old = old]]
          /\ UNCHANGED <<chunks, queue, first, held>>

Alloc(t, n) == AtPlace(t, "idle") /\ life[t] = "running" /\ Asks(t, n, NoBlock)

Class(t) == ClassOf(WithBound(at[t].size))

Pop(t) ==
  LET q == queue[Class(t)] IN
  /\ AtPlace(t, "pop")
  /\ IF q = <<>>
     THEN Goes(t, "grow") /\ UNCHANGED <<queue, held>>
     ELSE queue' = [queue EXCEPT ![Class(t)] = Tail(q)] /\ Return(t, Head(q), at[t].size, at[t].old)
  /\ UNCHANGED <<program, options, chunks, first, last, allocs, threads>>

\* A new chunk, which is freed again if meanwhile the list got blocks.
Grow(t) ==
  LET c == Class(t)  q == queue[c]  cut == Carve(NewChunk, c) IN
  /\ AtPlace(t, "grow")
  /\ IF q # <<>>
     THEN /\ queue' = [queue EXCEPT ![c] = Tail(q)]
          /\ Return(t, Head(q), at[t].size, at[t].old)
          /\ UNCHANGED chunks
     ELSE /\ queue' = [queue EXCEPT ![c] = Tail(cut)]
          /\ chunks' = With(chunks, NewChunk, [len |-> ChunkSize(c), class |-> c])
          /\ IF RemainSize(c) = 0
             THEN Return(t, Head(cut), at[t].size, at[t].old)
             ELSE /\ at' = [at EXCEPT ![t].pc = "remain", ![t].out = Head(cut)]
                  /\ UNCHANGED held
  /\ UNCHANGED <<program, options, first, last, allocs, threads>>

\* malloc() has no chunk: the call throws.
GrowFails(t) ==
  /\ AtPlace(t, "grow")
  /\ at' = [at EXCEPT ![t] = Idle]
  /\ UNCHANGED <<memory, threads>>

Remaining(t) == <<at[t].out[1], RemainAt(Class(t))>>

Remain(t) ==
  LET c == RemainClass(RemainSize(Class(t))) IN
  /\ AtPlace(t, "remain")
  /\ queue' = [queue EXCEPT ![c] = <<Remaining(t)>> \o @]
  /\ Return(t, at[t].out, at[t].size, at[t].old)
  /\ UNCHANGED <<program, options, chunks, first, last, allocs, threads>>

------------------------------------------------------------------------------
(* impl_free(), impl_regrow() *)

LastAfterKept(t, c, b) == last[t][c]    \* Variant: only the first block is noted
LastAfter(t, c, b) == IF first[t][c] = <<>> THEN b ELSE last[t][c]

Frees(t, b) ==
  LET size == WithBound(held[b])  c == ClassOf(size) IN
  /\ held' = Without(held, b)
  /\ IF size > 1024
     THEN chunks' = Without(chunks, b[1]) /\ UNCHANGED <<queue, first, last>>
     ELSE IF "thread" \in options
     THEN /\ first' = [first EXCEPT ![t][c] = <<b>> \o @]
          /\ last' = [last EXCEPT ![t][c] = LastAfter(t, c, b)]
          /\ UNCHANGED <<chunks, queue>>
     ELSE /\ queue' = [queue EXCEPT ![c] = <<b>> \o @]
          /\ UNCHANGED <<chunks, first, last>>
  /\ UNCHANGED <<program, options, allocs>>

Free(t, b) ==
  /\ AtPlace(t, "idle") /\ life[t] = "running" /\ b \in Owned
  /\ Frees(t, b)
  /\ UNCHANGED <<at, threads>>

Regrow(t, b, n) ==
  /\ AtPlace(t, "idle") /\ life[t] = "running" /\ b \in Owned
  /\ held[b] < n
  /\ Asks(t, n, b)

RegrowFree(t) ==
  /\ AtPlace(t, "copied")
  /\ Frees(t, at[t].old)
  /\ at' = [at EXCEPT ![t] = Idle]
  /\ UNCHANGED threads

------------------------------------------------------------------------------
(* impl_closingThread(), for the end of a thread and for flushThreadCache() *)

EnableThreadCache ==
  /\ options' = options \cup {"thread"} /\ "thread" \notin options
  /\ UNCHANGED <<program, chunks, queue, first, last, held, allocs, at, threads>>

FlushThreadCache(t) ==
  /\ AtPlace(t, "idle") /\ life[t] = "running" /\ \E c \in Classes : first[t][c] # <<>>
  /\ Goes(t, "flush")
  /\ UNCHANGED <<memory, threads>>

\* The next pointer of the block that last points to is set: what follows it in
\* the list is cut off, and if it is not in the list the old list is.
Spliced(list, end, prev) ==
  IF Contains(list, end)
  THEN SubSeq(list, 1, SelectInSeq(list, LAMBDA b : b = end)) \o prev
  ELSE list

insertGlobalCache(t, c) ==
  /\ queue' = [queue EXCEPT ![c] = Spliced(first[t][c], last[t][c], @)]
  /\ first' = [first EXCEPT ![t][c] = <<>>]
  /\ UNCHANGED <<program, options, chunks, last, held, allocs>>

Cached(t) == {c \in Classes : first[t][c] # <<>>}

CloseNext(t) ==
  /\ AtPlace(t, "flush") /\ Cached(t) # {}
  /\ insertGlobalCache(t, Min(Cached(t)))
  /\ UNCHANGED <<at, threads>>

Flushed(t) ==
  /\ AtPlace(t, "flush") /\ life[t] = "running" /\ Cached(t) = {}
  /\ Goes(t, "idle")
  /\ UNCHANGED <<memory, threads>>

------------------------------------------------------------------------------
(* Threads *)

\* A Thread with one reference for each of its users is started: it has a
\* reference of its own.
Start(t, u, b) ==
  /\ AtPlace(t, "idle") /\ life[t] = "running" /\ life[u] = "none" /\ u \in program.spawn
  /\ b \in Owned /\ held[b] = ThreadSize
  /\ main' = [main EXCEPT ![u] = b]
  /\ users' = [users EXCEPT ![u] = Users(u)]
  /\ refcnt' = [refcnt EXCEPT ![u] = Cardinality(Users(u)) + 1]
  /\ implrefs' = [implrefs EXCEPT ![u] = 1]
  /\ attached' = [attached EXCEPT ![u] = TRUE]
  /\ life' = [life EXCEPT ![u] = "running"]
  /\ UNCHANGED <<memory, at, joinlock, released>>

\* ~Thread_impl: the last reference to the implementation.
ImplUnref(u, n) ==
  /\ implrefs' = [implrefs EXCEPT ![u] = n - 1]
  /\ released' = [released EXCEPT ![u] = IF n = 1 /\ attached[u] THEN @ + 1 ELSE @]

\* The reference to the Thread, by thread t; n references to its Thread_impl.
Unref(t, u, n) ==
  /\ refcnt' = [refcnt EXCEPT ![u] = @ - 1]
  /\ IF refcnt[u] = 1
     THEN Frees(t, main[u]) /\ main' = [main EXCEPT ![u] = NoBlock] /\ ImplUnref(u, n)
     ELSE /\ implrefs' = [implrefs EXCEPT ![u] = n]
          /\ UNCHANGED <<memory, main, released>>

Using(u) == {t \in Threads : at[t].of = u}

\* A user drops its reference.
UserUnref(t, u) ==
  /\ AtPlace(t, "idle") /\ life[t] = "running" /\ t \in users[u]
  /\ users' = [users EXCEPT ![u] = @ \ {t}]
  /\ Unref(t, u, implrefs[u])
  /\ UNCHANGED <<at, life, attached, joinlock>>

\* run() has returned: finish_func() begins.
Finish(u) ==
  /\ u \in Spawned /\ AtPlace(u, "idle") /\ life[u] = "running"
  /\ Unref(u, u, implrefs[u] + 1)
  /\ life' = [life EXCEPT ![u] = "closing"] /\ Goes(u, "flush")
  /\ UNCHANGED <<users, attached, joinlock>>

\* ... and ends, and with it the thread.
End(u) ==
  /\ AtPlace(u, "flush") /\ life[u] = "closing" /\ Cached(u) = {}
  /\ ImplUnref(u, implrefs[u])
  /\ life' = [life EXCEPT ![u] = "ended"] /\ at' = [at EXCEPT ![u] = Idle]
  /\ UNCHANGED <<memory, main, refcnt, users, attached, joinlock>>

\* wait(): attached is read without the lock and with it.
Wait(t, u) ==
  /\ AtPlace(t, "idle") /\ life[t] = "running" /\ t \in users[u]
  /\ attached[u]
  /\ at' = [at EXCEPT ![t].pc = "lock", ![t].of = u]
  /\ UNCHANGED <<memory, threads>>

StillAttachedAgain(u) == TRUE           \* Variant: attached is not read again
StillAttached(u) == attached[u]

WaitLock(t) ==
  LET u == at[t].of IN
  /\ AtPlace(t, "lock") /\ joinlock[u] = NoThread
  /\ joinlock' = [joinlock EXCEPT ![u] = t]
  /\ Goes(t, IF StillAttached(u) THEN "join" ELSE "unlock")
  /\ UNCHANGED <<memory, life, main, refcnt, implrefs, users, attached, released>>

WaitJoin(t) ==
  LET u == at[t].of IN
  /\ AtPlace(t, "join") /\ life[u] = "ended"
  /\ released' = [released EXCEPT ![u] = @ + 1]
  /\ attached' = [attached EXCEPT ![u] = FALSE]
  /\ Goes(t, "unlock")
  /\ UNCHANGED <<memory, life, main, refcnt, implrefs, users, joinlock>>

UnlockedNever(u) == joinlock            \* Variant: the lock is kept
Unlocked(u) == [joinlock EXCEPT ![u] = NoThread]

WaitUnlock(t) ==
  LET u == at[t].of IN
  /\ AtPlace(t, "unlock")
  /\ joinlock' = Unlocked(u)
  /\ at' = [at EXCEPT ![t] = Idle]
  /\ UNCHANGED <<memory, life, main, refcnt, implrefs, users, attached, released>>

------------------------------------------------------------------------------
\* What a call that has begun does next.
GoesOn(t) ==
  \/ Pop(t) \/ Grow(t) \/ GrowFails(t) \/ Remain(t) \/ RegrowFree(t)
  \/ CloseNext(t) \/ Flushed(t) \/ End(t)
  \/ WaitLock(t) \/ WaitJoin(t) \/ WaitUnlock(t)

Calls(t) ==
  \/ \E n \in program.sizes \cup {ThreadSize} : Alloc(t, n)
  \/ \E b \in Owned : Free(t, b) \/ \E n \in program.sizes : Regrow(t, b, n)
  \/ \E u \in Spawned, b \in Owned : Start(t, u, b)
  \/ FlushThreadCache(t)
  \/ \E u \in Spawned : Wait(t, u) \/ UserUnref(t, u)

Next == EnableThreadCache \/ \E t \in Threads : GoesOn(t) \/ Calls(t) \/ Finish(t)

\* Every thread goes on, and returns from its run().
Spec == Init /\ [][Next]_vars /\ \A t \in Threads : WF_vars(GoesOn(t)) /\ WF_vars(Finish(t))

------------------------------------------------------------------------------
\* The length of a block: that of its size, of the rest of its chunk, or of a
\* large block.
Extent(b) == LET k == chunks[b[1]] IN
             IF k.class = 0 \/ b[2] = RemainAt(k.class) THEN k.len - b[2] ELSE k.class
Blocks(id) == LET k == chunks[id] IN
              IF k.class = 0 THEN {<<id, FirstAt>>}
              ELSE Range(Carve(id, k.class))
                   \cup (IF RemainSize(k.class) = 0 THEN {} ELSE {<<id, RemainAt(k.class)>>})

\* The lists from which some thread can still get a block: whose they are, which
\* may be nobody's in particular, and the size of their blocks.
ListOf(k) == IF k[1] = NoThread THEN queue[k[2]] ELSE first[k[1]][k[2]]
Lists == {k \in ({NoThread} \cup {t \in Threads : life[t] # "ended"}) \X Classes : ListOf(k) # <<>>}
Listed(k) == Range(ListOf(k))
InCall == UNION {{at[t].out, Remaining(t)} : t \in {u \in Threads : at[u].pc = "remain"}}

\* Every byte that was taken from malloc() is in one place: in use, in one list
\* that a thread can still get it from, or with the thread that is cutting it.
\* None is in two, whoever allocates, frees, flushes or ends at the same time,
\* and a block is as long as its list or its user thinks.
BlocksExact ==
  LET lists == Lists  listed == UNION {Listed(k) : k \in lists} IN
  /\ listed \cup DOMAIN held \cup InCall = UNION {Blocks(id) : id \in DOMAIN chunks}
  /\ \A k \in lists : IsInjective(ListOf(k)) /\ \A m \in lists \ {k} : Listed(k) \cap Listed(m) = {}
  /\ listed \cap DOMAIN held = {} /\ InCall \cap (listed \cup DOMAIN held) = {}
  /\ \A k \in lists : \A b \in Listed(k) : Extent(b) >= k[2]
  /\ \A b \in DOMAIN held : Extent(b) >= WithBound(held[b])

\* A thread is joined or detached once, and both are impossible after the
\* Thread_impl is gone; whoever waits for a thread or is that thread has
\* its Thread.
ThreadsReleased ==
  \A u \in Spawned :
    /\ released[u] <= 1
    /\ life[u] = "ended" /\ implrefs[u] = 0 => released[u] = 1
    /\ Using(u) # {} \/ life[u] = "running" => main[u] \in DOMAIN held /\ implrefs[u] > 0

\* Whoever waits for a thread returns, with other waiters or without.
WaitEnds == \A t \in Threads : at[t].of # NoThread ~> at[t].of = NoThread
=============================================================================
