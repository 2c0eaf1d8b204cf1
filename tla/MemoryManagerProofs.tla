------------------------- MODULE MemoryManagerProofs -------------------------
(***************************************************************************)
(* Proofs about MemoryManager, for any number of threads, any users of     *)
(* them, and programs that ask for blocks of any sizes.                    *)
(***************************************************************************)
EXTENDS MemoryManager, SeqLemmas, FiniteSetTheorems, SequenceTheorems, TLAPS

-----------------------------------------------------------------------------
(* The inductive invariant of the threads.                                  *)

Block == (Nat \ {0}) \X Nat
Allocating == {"pop", "grow", "remain"}
Waiting == {"lock", "join", "unlock"}
Call == [pc : {"idle", "copied", "flush"} \cup Allocating \cup Waiting, size : Nat,
         old : Block \cup {NoBlock}, out : Block \cup {NoBlock}, of : Spawned \cup {NoThread}]

MemoryTypes ==
  /\ program \in Programs
  /\ IsFiniteSet(DOMAIN chunks) /\ DOMAIN chunks \subseteq Nat \ {0}
  /\ chunks \in [DOMAIN chunks -> [len : Nat, class : Classes \cup {0}]]
  /\ queue \in [Classes -> Seq(Block)]
  /\ first \in [Threads -> [Classes -> Seq(Block)]]
  /\ last \in [Threads -> [Classes -> Block \cup {NoBlock}]]
  /\ DOMAIN held \subseteq Block /\ held \in [DOMAIN held -> Nat \ {0}]

ThreadTypes ==
  /\ at \in [Threads -> Call]
  /\ life \in [Threads -> {"none", "running", "closing", "ended"}] /\ life[Main] = "running"
  /\ main \in [Spawned -> Block \cup {NoBlock}]
  /\ refcnt \in [Spawned -> Nat] /\ implrefs \in [Spawned -> Nat]
  /\ users \in [Spawned -> SUBSET Threads]
  /\ attached \in [Spawned -> BOOLEAN] /\ joinlock \in [Spawned -> Threads \cup {NoThread}]
  /\ released \in [Spawned -> Nat]

\* A thread is in a call only while it lives, and what it keeps belongs to that
\* call: the size it allocates, the block it replaces, the thread it waits for.
CallsSound ==
  \A t \in Threads :
    /\ at[t].pc = "idle" => at[t] = Idle
    /\ at[t].pc = "flush" => at[t] = [Idle EXCEPT !.pc = "flush"]
    /\ at[t].pc \in Allocating => at[t].size > 0 /\ WithBound(at[t].size) <= 1024
    /\ at[t].pc = "remain" => at[t].out # NoBlock /\ RemainSize(ClassOf(WithBound(at[t].size))) # 0
    /\ at[t].pc = "copied" => at[t].old # NoBlock
    /\ at[t].of # NoThread <=> at[t].pc \in Waiting
    /\ life[t] \in {"none", "ended"} => at[t] = Idle

\* The block of a Thread is in use while there are references to it.
MainsHeld ==
  \A u \in Spawned :
    /\ refcnt[u] > 0 => main[u] # NoBlock /\ main[u] \in DOMAIN held
    /\ refcnt[u] = 0 => main[u] = NoBlock
    /\ \A v \in Spawned \ {u} : main[u] # NoBlock => main[v] # main[u]

\* The block that regrow replaces is in use, is no Thread and is replaced by one
\* thread.
OldsHeld ==
  \A t \in Threads : at[t].old # NoBlock =>
    /\ at[t].old \in DOMAIN held
    /\ \A u \in Spawned : main[u] # at[t].old
    /\ \A s \in Threads \ {t} : at[s].old # at[t].old

\* The references to a Thread are those of its users and its own; it has one to
\* its Thread_impl and so has finish_func().
RefsCounted ==
  \A u \in Spawned :
    /\ refcnt[u] = Cardinality(users[u]) + (IF life[u] = "running" THEN 1 ELSE 0)
    /\ implrefs[u] = (IF refcnt[u] > 0 THEN 1 ELSE 0) + (IF life[u] = "closing" THEN 1 ELSE 0)

\* pthread_join() or pthread_detach() is still to come exactly while the thread is
\* attached, and a Thread_impl does not go without one of them.
ReleasedOnce ==
  \A u \in Spawned :
    /\ life[u] = "none" => released[u] = 0 /\ users[u] = {}
    /\ implrefs[u] > 0 => released[u] = IF attached[u] THEN 0 ELSE 1
    /\ implrefs[u] = 0 /\ life[u] # "none" => released[u] = 1

\* Who waits for a thread has a reference to it; one of them at a time has its lock
\* and only that one joins it.
Joiners ==
  /\ \A t \in Threads : at[t].of # NoThread => t \in users[at[t].of]
  /\ \A u \in Spawned, t \in Threads :
       joinlock[u] = t <=> at[t].of = u /\ at[t].pc \in {"join", "unlock"}
  /\ \A t \in Threads : at[t].pc = "join" => attached[at[t].of]

ThreadInv == CallsSound /\ MainsHeld /\ OldsHeld /\ RefsCounted /\ ReleasedOnce /\ Joiners
Inv == MemoryTypes /\ ThreadTypes /\ ThreadInv

-----------------------------------------------------------------------------
(* The inductive invariant of the blocks.                                   *)

\* Where a block can be: in the list of a size of a thread or of all threads, in
\* use, or with a thread that cuts its chunk.
Owners == {NoThread} \cup Threads
Keys == Owners \X Classes
Spots == Keys \cup (Owners \X {0})
InUse == <<NoThread, 0>>
Cut(t) == IF at[t].pc = "remain" THEN {at[t].out, Remaining(t)} ELSE {}
Content == [p \in Spots |-> IF p \in Keys THEN Listed(p)
                            ELSE IF p = InUse THEN DOMAIN held ELSE Cut(p[1])]

\* No block is in two of these, and together they are the blocks of the chunks.
Apart(f) == \A p, q \in DOMAIN f : p # q => f[p] \cap f[q] = {}
All(f) == UNION {f[p] : p \in DOMAIN f}
AllBlocks == UNION {Blocks(id) : id \in DOMAIN chunks}
ContentExact == Apart(Content) /\ All(Content) = AllBlocks

\* A list has a block once, last points to the end of the list of a thread, and
\* the lists of a thread that is not there are empty.
ListsSound ==
  /\ \A k \in Keys : IsInjective(ListOf(k))
  /\ \A t \in Threads, c \in Classes : first[t][c] # <<>> =>
       last[t][c] = first[t][c][Len(first[t][c])] /\ life[t] \in {"running", "closing"}

\* The blocks of a list are cut from a chunk and at least as long as it says.
FitsList(b, c) == chunks[b[1]].class # 0 /\ Extent(b) >= c
ListedFit == \A k \in Keys : \A b \in Listed(k) : FitsList(b, k[2])

\* A block in use is as long as the list it will be freed to says, or has a chunk
\* for itself.
FitsSize(b, size) ==
  IF size > 1024 THEN chunks[b[1]].class = 0 /\ chunks[b[1]].len = size + Align
  ELSE FitsList(b, ClassOf(size))
HeldFit == \A b \in DOMAIN held : FitsSize(b, WithBound(held[b]))

\* A thread that cuts a chunk has its first block and its rest.
CutFit ==
  \A t \in Threads : at[t].pc = "remain" =>
    /\ at[t].out[1] \in DOMAIN chunks /\ at[t].out[2] = FirstAt
    /\ chunks[at[t].out[1]].class = Class(t)

\* A chunk of blocks has the length of all such chunks.
ChunksFit ==
  \A id \in DOMAIN chunks : chunks[id].class # 0 => chunks[id].len = ChunkSize(chunks[id].class)

BlockInv == ContentExact /\ ListsSound /\ ListedFit /\ HeldFit /\ CutFit /\ ChunksFit

-----------------------------------------------------------------------------
(* Sizes.                                                                   *)

\* There are eight small sizes.
LEMMA SmallCount == IsFiniteSet(Small) /\ Cardinality(Small) = 8
<1> DEFINE f == [i \in 1..8 |-> 16 * i]
<1>1. Small = {16 * i : i \in 1..8}
  BY DEF Small, Align
<1>2. f \in [1..8 -> Small] /\ \A i, j \in 1..8 : f[i] = f[j] => i = j
  BY <1>1
<1>3. \A s \in Small : \E i \in 1..8 : f[i] = s
  BY <1>1
<1>4. f \in Bijection(1..8, Small)
  <2> HIDE DEF f
  <2> QED BY <1>2, <1>3 DEF Bijection, Injection, Surjection, IsInjective
<1>5. IsFiniteSet(1..8) /\ Cardinality(1..8) = 8
  <2>1. \A n \in Nat : n >= 1 => IsFiniteSet(1..n) /\ Cardinality(1..n) = n - 1 + 1
    BY FS_Interval
  <2> QED BY <2>1
<1> QED
  BY <1>4, <1>5, FS_Bijection DEF ExistsBijection

\* All the sizes.
LEMMA ClassList ==
  /\ Small = {16, 32, 48, 64, 80, 96, 112, 128}
  /\ Classes = {8, 16, 32, 48, 64, 80, 96, 112, 128, 192, 256, 384, 512, 768, 1024}
<1>1. 1..8 = {1, 2, 3, 4, 5, 6, 7, 8}
  OBVIOUS
<1>2. Small = {16 * i : i \in 1..8}
  BY DEF Small, Align
<1>3. Small = {16, 32, 48, 64, 80, 96, 112, 128}
  BY <1>1, <1>2
<1> QED
  BY <1>3 DEF Classes, Bigger, Ptr

\* A block is asked for with its size, which is not zero, and the guards.
LEMMA Bounded ==
  ASSUME NEW n \in Nat
  PROVE  WithBound(n) \in Nat \ {0}
BY DEF WithBound, RoundUp, Ptr, Align

\* The smallest and the largest of the sizes above 128 exist.
LEMMA MinBigger ==
  ASSUME NEW n \in Nat, n <= 1024
  PROVE  Min({c \in Bigger : n <= c}) \in Bigger /\ n <= Min({c \in Bigger : n <= c})
<1> DEFINE S == {c \in Bigger : n <= c}
<1>1. S \subseteq Nat /\ 1024 \in S
  BY DEF Bigger
<1>2. \E x \in S : \A y \in S : x <= y
  <2> HIDE DEF S
  <2> QED BY <1>1, Smallest
<1>3. Min(S) \in S
  <2> HIDE DEF S
  <2> QED BY <1>2 DEF Min
<1> QED
  BY <1>3

\* The largest size that is not above n is one of the sizes.
LEMMA MaxBigger ==
  ASSUME NEW n \in Nat, 192 <= n
  PROVE  Max({c \in Bigger : c <= n}) \in Bigger /\ Max({c \in Bigger : c <= n}) <= n
<1> DEFINE S == {c \in Bigger : c <= n}
<1>1. \E x \in S : \A y \in S : x >= y
  <2>1. CASE n >= 1024 BY <2>1 DEF Bigger
  <2>2. CASE n < 1024 /\ n >= 768 BY <2>2 DEF Bigger
  <2>3. CASE n < 768 /\ n >= 512 BY <2>3 DEF Bigger
  <2>4. CASE n < 512 /\ n >= 384 BY <2>4 DEF Bigger
  <2>5. CASE n < 384 /\ n >= 256 BY <2>5 DEF Bigger
  <2>6. CASE n < 256 BY <2>6 DEF Bigger
  <2> QED BY <2>1, <2>2, <2>3, <2>4, <2>5, <2>6
<1>2. Max(S) \in S
  <2> HIDE DEF S
  <2> QED BY <1>1 DEF Max
<1> QED
  BY <1>2

\* The list of a size has blocks that are long enough for it.
LEMMA ClassFits ==
  ASSUME NEW n \in Nat \ {0}, n <= 1024
  PROVE  ClassOf(n) \in Classes /\ n <= ClassOf(n)
<1>1. CASE n <= 8
  BY <1>1 DEF ClassOf, Classes, Ptr
<1>2. CASE 8 < n /\ n <= 128
  <2> DEFINE k == (n + 15) \div 16
  <2>1. (n - 1) \div 16 < 8 /\ k \in 1..8 /\ n <= k * 16
    BY <1>2
  <2>2. ClassOf(n) = k * 16
    BY <1>2, <2>1, SmallCount DEF ClassOf, RoundUp, Align, Ptr
  <2>3. k * 16 \in Small
    <3> HIDE DEF k
    <3> QED BY <2>1 DEF Small, Align
  <2> QED
    BY <2>1, <2>2, <2>3 DEF Classes
<1>3. CASE 128 < n
  <2>1. ~((n - 1) \div 16 < 8)
    BY <1>3
  <2>2. ClassOf(n) = Min({c \in Bigger : n <= c})
    BY <1>3, <2>1, SmallCount DEF ClassOf, Align, Ptr
  <2> QED
    BY <2>2, MinBigger DEF Classes
<1> QED
  BY <1>1, <1>2, <1>3

\* What remains of a chunk fits the list it goes to.
LEMMA RemainFits ==
  ASSUME NEW n \in Nat, 8 <= n
  PROVE  RemainClass(n) \in Classes /\ RemainClass(n) <= n
<1>1. CASE n < 16
  BY <1>1 DEF RemainClass, Classes, Ptr
<1>2. CASE 16 <= n /\ n < 144
  <2> DEFINE k == (n - 16) \div 16 + 1
  <2>1. n \div 16 <= 8 /\ k \in 1..8 /\ k * 16 <= n
    BY <1>2
  <2>2. RemainClass(n) = k * 16
    BY <1>2, <2>1, SmallCount DEF RemainClass, Align, Ptr
  <2>3. k * 16 \in Small
    <3> HIDE DEF k
    <3> QED BY <2>1 DEF Small, Align
  <2> QED
    BY <2>1, <2>2, <2>3 DEF Classes
<1>3. CASE 144 <= n /\ n < 192
  <2>1. ~(n \div 16 <= 8)
    BY <1>3
  <2>2. RemainClass(n) = 128
    BY <1>3, <2>1, SmallCount DEF RemainClass, Align, Ptr
  <2> QED
    BY <1>3, <2>2, ClassList
<1>4. CASE 192 <= n
  <2>1. ~(n \div 16 <= 8)
    BY <1>4
  <2>2. RemainClass(n) = Max({c \in Bigger : c <= n})
    BY <1>4, <2>1, SmallCount DEF RemainClass, Align, Ptr
  <2> QED
    BY <1>4, <2>2, MaxBigger DEF Classes
<1> QED
  BY <1>1, <1>2, <1>3, <1>4

\* A chunk has room for a block, its blocks end where the rest begins, and the
\* rest is nothing or a block of the smallest size at least.
LEMMA ChunkFacts ==
  ASSUME NEW c \in Classes
  PROVE  /\ c \in Nat \ {0} /\ c <= 1024 /\ FirstAt = 8
         /\ ChunkSize(c) \in Nat /\ Capacity(c) \in Nat \ {0}
         /\ RemainAt(c) \in Nat /\ RemainAt(c) = 8 + Capacity(c) * c
         /\ RemainSize(c) \in Nat /\ RemainSize(c) = ChunkSize(c) - RemainAt(c)
         /\ RemainSize(c) # 0 => RemainSize(c) >= 8
<1>1. c \in Nat \ {0} /\ c <= 1024 /\ FirstAt = 8
  BY ClassList DEF FirstAt, Align, Ptr
<1>2. ChunkSize(c) = IF c = 8 THEN 480 ELSE IF c <= 128 THEN 992 ELSE 4064
  BY ClassList DEF ChunkSize, Ptr
<1>3. Capacity(c) = (ChunkSize(c) - 8) \div c
  BY <1>1 DEF Capacity
<1>4. RemainAt(c) = 8 + Capacity(c) * c
  BY <1>1 DEF RemainAt
<1>5. RemainSize(c) = ChunkSize(c) - RemainAt(c)
  BY DEF RemainSize
<1> DEFINE k == Capacity(c)  z == ChunkSize(c)  r == RemainAt(c)
<1>6. k \in Nat \ {0} /\ r \in Nat /\ (z - r = 0 \/ z - r >= 8)
  <2>1. CASE c = 8
    BY <1>2, <1>3, <1>4, <2>1
  <2>2. CASE c \in {16, 32, 48, 64}
    BY <1>2, <1>3, <1>4, <2>2
  <2>3. CASE c \in {80, 96, 112, 128}
    BY <1>2, <1>3, <1>4, <2>3
  <2>4. CASE c \in {192, 256, 384}
    BY <1>2, <1>3, <1>4, <2>4
  <2>5. CASE c \in {512, 768, 1024}
    BY <1>2, <1>3, <1>4, <2>5
  <2> QED
    BY <2>1, <2>2, <2>3, <2>4, <2>5, ClassList
<1>7. z \in Nat
  BY <1>2, <1>1
<1> QED
  BY <1>1, <1>4, <1>5, <1>6, <1>7

-----------------------------------------------------------------------------
(* Blocks, chunks and lists.                                                *)

\* malloc() returns a chunk that is not in use.
LEMMA NewChunkNew ==
  ASSUME MemoryTypes
  PROVE  NewChunk \in Nat \ {0} /\ NewChunk \notin DOMAIN chunks
<1> DEFINE D == DOMAIN chunks  n == Cardinality(D) + 1  S == (1..n) \ D
<1>1. IsFiniteSet(D) /\ Cardinality(D) \in Nat
  BY FS_CardinalityType DEF MemoryTypes
<1>2. n \in Nat /\ IsFiniteSet(1..n) /\ Cardinality(1..n) = n
  BY <1>1, FS_Interval
<1>3. S # {}
  <2> SUFFICES ASSUME S = {} PROVE FALSE
    OBVIOUS
  <2>1. 1..n \in SUBSET D
    OBVIOUS
  <2>2. Cardinality(1..n) <= Cardinality(D)
    <3> HIDE DEF D, n, S
    <3> QED BY <1>1, <2>1, FS_Subset
  <2> QED
    BY <1>1, <1>2, <2>2
<1>4. S \in SUBSET Nat
  OBVIOUS
<1>5. \E x \in S : \A y \in S : x <= y
  <2> HIDE DEF S
  <2> QED BY <1>3, <1>4, Smallest
<1>6. Min(S) \in S
  <2> HIDE DEF S
  <2> QED BY <1>5 DEF Min
<1> QED
  BY <1>6 DEF NewChunk

\* What is spliced: the list up to a place of the block that it ends with.
LEMMA SplicedAt ==
  ASSUME NEW S, NEW s \in Seq(S), NEW e, NEW q, Contains(s, e)
  PROVE  \E i \in 1..Len(s) : s[i] = e /\ Spliced(s, e, q) = SubSeq(s, 1, i) \o q
<1> DEFINE I == {i \in 1..Len(s) : s[i] = e}
<1>1. I # {} /\ I \in SUBSET Nat
  BY DEF Contains
<1>2. \E x \in I : \A y \in I : x <= y
  <2> HIDE DEF I
  <2> QED BY <1>1, Smallest
<1>3. Min(I) \in I
  <2> HIDE DEF I
  <2> QED BY <1>2 DEF Min
<1>4. Spliced(s, e, q) = SubSeq(s, 1, Min(I)) \o q
  BY <1>1 DEF Spliced, SelectInSeq
<1> QED BY <1>3, <1>4

\* Splicing two lists of blocks gives one.
LEMMA SplicedType ==
  ASSUME NEW S, NEW s \in Seq(S), NEW e, NEW q \in Seq(S)
  PROVE  Spliced(s, e, q) \in Seq(S)
<1>1. CASE Contains(s, e)
  <2>1. PICK i \in 1..Len(s) : Spliced(s, e, q) = SubSeq(s, 1, i) \o q
    BY <1>1, SplicedAt
  <2>2. SubSeq(s, 1, i) \in Seq(S)
    OBVIOUS
  <2> QED BY <2>1, <2>2
<1>2. CASE ~Contains(s, e)
  BY <1>2 DEF Spliced
<1> QED BY <1>1, <1>2

\* The blocks of a chunk are blocks, and there is a first one.
LEMMA CarveType ==
  ASSUME NEW id \in Nat \ {0}, NEW c \in Classes
  PROVE  /\ Carve(id, c) \in Seq(Block) /\ Carve(id, c) # <<>>
         /\ Len(Carve(id, c)) = Capacity(c)
         /\ \A i \in 1..Capacity(c) : Carve(id, c)[i] = <<id, 8 + (i - 1) * c>>
         /\ Head(Carve(id, c)) = <<id, FirstAt>>
<1> DEFINE s == Carve(id, c)  n == Capacity(c)
<1>1. n \in Nat \ {0} /\ c \in Nat \ {0} /\ FirstAt = 8
  BY ChunkFacts
<1>2. s = [i \in 1..n |-> <<id, 8 + (i - 1) * c>>]
  BY <1>1 DEF Carve
<1> HIDE DEF s, n
<1>3. \A i \in 1..n : 8 + (i - 1) * c \in Nat
  <2> SUFFICES ASSUME NEW i \in 1..n PROVE 8 + (i - 1) * c \in Nat
    OBVIOUS
  <2>1. i - 1 \in Nat
    BY <1>1
  <2>2. \A x, y \in Nat : 8 + x * y \in Nat
    OBVIOUS
  <2> QED BY <1>1, <2>1, <2>2
<1>4. \A i \in 1..n : <<id, 8 + (i - 1) * c>> \in Block
  BY <1>3 DEF Block
<1>5. s \in [1..n -> Block]
  BY <1>2, <1>4
<1>6. s \in Seq(Block) /\ Len(s) = n
  BY <1>1, <1>5
<1>7. s # <<>> /\ Head(s) = s[1]
  BY <1>1, <1>6
<1>8. 8 + (1 - 1) * c = 8
  BY <1>1
<1>9. s[1] = <<id, 8>>
  BY <1>1, <1>2, <1>8
<1>10. /\ s \in Seq(Block) /\ s # <<>> /\ Len(s) = n
       /\ \A i \in 1..n : s[i] = <<id, 8 + (i - 1) * c>>
       /\ Head(s) = <<id, FirstAt>>
  BY <1>1, <1>2, <1>6, <1>7, <1>9
<1> QED BY <1>10 DEF s, n

\* A block that is allocated or freed has a list if it is not large.
LEMMA SizeClass ==
  ASSUME NEW n \in Nat, WithBound(n) <= 1024
  PROVE  ClassOf(WithBound(n)) \in Classes /\ WithBound(n) <= ClassOf(WithBound(n))
BY Bounded, ClassFits

\* The list a call goes to serves the size it asked for.
LEMMA CallClass ==
  ASSUME Inv, NEW t \in Threads, at[t].pc \in Allocating
  PROVE  Class(t) \in Classes /\ WithBound(at[t].size) <= Class(t)
<1>1. at[t].size \in Nat /\ WithBound(at[t].size) <= 1024
  BY DEF Inv, ThreadTypes, ThreadInv, CallsSound, Call
<1> QED BY <1>1, SizeClass DEF Class

-----------------------------------------------------------------------------
(* Threads and blocks: what a step of a call changes.                       *)

\* What a thread keeps for its call is sound.
Sound(r) ==
  /\ r.pc = "idle" => r = Idle
  /\ r.pc = "flush" => r = [Idle EXCEPT !.pc = "flush"]
  /\ r.pc \in Allocating => r.size > 0 /\ WithBound(r.size) <= 1024
  /\ r.pc = "remain" => r.out # NoBlock /\ RemainSize(ClassOf(WithBound(r.size))) # 0
  /\ r.pc = "copied" => r.old # NoBlock
  /\ r.of = NoThread /\ r.pc \notin Waiting

\* The options change, but not the guards.
LEMMA BoundKept ==
  ASSUME "bound" \in options' <=> "bound" \in options
  PROVE  \A n : WithBound(n)' = WithBound(n)
BY DEF WithBound

\* A step of a call that is no wait(): it leaves all that is true of threads as it is,
\* if the blocks that it frees are no Threads and nobody is replacing them.
CallGoes(t, r) ==
  /\ r \in Call /\ Sound(r)
  /\ at' = [at EXCEPT ![t] = r] /\ options' = options /\ UNCHANGED threads
  /\ life[t] \in {"running", "closing"} /\ at[t].pc \notin Waiting
  /\ r.old # NoBlock => r.old = at[t].old \/ r.old \in Owned
  /\ \A b \in DOMAIN held \ DOMAIN held' :
       (\A u \in Spawned : main[u] # b) /\ (\A s \in Threads : at'[s].old # b)

\* A step that changes only the call of one thread keeps what holds of all calls.
LEMMA CallStep ==
  ASSUME Inv, NEW t \in Threads, NEW r, CallGoes(t, r)
  PROVE  ThreadTypes' /\ ThreadInv'
<1> USE DEF CallGoes
<1>1. /\ ThreadTypes /\ CallsSound /\ MainsHeld /\ OldsHeld /\ RefsCounted /\ ReleasedOnce /\ Joiners
      /\ UNCHANGED <<life, main, refcnt, implrefs, users, attached, joinlock, released>>
  BY DEF Inv, ThreadInv, threads
<1>2. at \in [Threads -> Call] /\ at' \in [Threads -> Call]
  BY <1>1 DEF ThreadTypes
<1>3. at'[t] = r /\ \A s \in Threads \ {t} : at'[s] = at[s]
  BY <1>2
<1>4. at[t].of = NoThread
  BY <1>1 DEF CallsSound
<1>5. ThreadTypes'
  BY <1>1, <1>2 DEF ThreadTypes
<1>6. CallsSound'
  <2> SUFFICES ASSUME NEW s \in Threads
               PROVE  /\ at'[s].pc = "idle" => at'[s] = Idle
                      /\ at'[s].pc = "flush" => at'[s] = [Idle EXCEPT !.pc = "flush"]
                      /\ at'[s].pc \in Allocating => at'[s].size > 0 /\ WithBound(at'[s].size) <= 1024
                      /\ at'[s].pc = "remain" =>
                           at'[s].out # NoBlock /\ RemainSize(ClassOf(WithBound(at'[s].size))) # 0
                      /\ at'[s].pc = "copied" => at'[s].old # NoBlock
                      /\ at'[s].of # NoThread <=> at'[s].pc \in Waiting
                      /\ life[s] \in {"none", "ended"} => at'[s] = Idle
    BY <1>1, BoundKept DEF CallsSound
  <2>1. CASE s = t
    BY <1>3, <2>1 DEF Sound
  <2>2. CASE s # t
    BY <1>1, <1>3, <2>2 DEF CallsSound
  <2> QED BY <2>1, <2>2
<1>7. MainsHeld'
  BY <1>1 DEF MainsHeld, ThreadTypes
<1>8. OldsHeld'
  <2> SUFFICES ASSUME NEW s \in Threads, at'[s].old # NoBlock
               PROVE  /\ at'[s].old \in DOMAIN held'
                      /\ \A u \in Spawned : main[u] # at'[s].old
                      /\ \A z \in Threads \ {s} : at'[z].old # at'[s].old
    BY <1>1 DEF OldsHeld
  <2>1. r.old # NoBlock => /\ r.old \in DOMAIN held
                           /\ \A u \in Spawned : main[u] # r.old
                           /\ \A z \in Threads \ {t} : at[z].old # r.old
    BY <1>1 DEF OldsHeld, Owned
  <2>2. /\ at'[s].old \in DOMAIN held
        /\ \A u \in Spawned : main[u] # at'[s].old
        /\ \A z \in Threads \ {s} : at'[z].old # at'[s].old
    <3>1. CASE s = t
      BY <1>3, <2>1, <3>1
    <3>2. CASE s # t
      <4>1. at'[s] = at[s] /\ at[s].old # NoBlock /\ t # s
        BY <1>3, <3>2
      <4>2. r.old # at[s].old
        BY <2>1, <4>1
      <4> QED
        BY <1>1, <1>3, <4>1, <4>2 DEF OldsHeld
    <3> QED BY <3>1, <3>2
  <2> QED BY <2>2
<1>9. RefsCounted'
  BY <1>1 DEF RefsCounted
<1>10. ReleasedOnce'
  BY <1>1 DEF ReleasedOnce
<1>11. Joiners'
  <2>1. ASSUME NEW s \in Threads, at'[s].of # NoThread PROVE s \in users[at'[s].of]
    BY <1>1, <1>3, <2>1 DEF Joiners, Sound
  <2>2. ASSUME NEW u \in Spawned, NEW s \in Threads
        PROVE  joinlock[u] = s <=> at'[s].of = u /\ at'[s].pc \in {"join", "unlock"}
    <3>1. CASE s = t
      <4>1. at'[s].pc \notin {"join", "unlock"} /\ at[s].pc \notin {"join", "unlock"}
        BY <1>3, <3>1 DEF Sound, Waiting
      <4> QED BY <1>1, <4>1 DEF Joiners
    <3>2. CASE s # t
      BY <1>1, <1>3, <3>2 DEF Joiners
    <3> QED BY <3>1, <3>2
  <2>3. ASSUME NEW s \in Threads, at'[s].pc = "join" PROVE attached[at'[s].of]
    BY <1>1, <1>3, <2>3 DEF Joiners, Sound, Waiting
  <2> QED BY <1>1, <2>1, <2>2, <2>3 DEF Joiners
<1> QED
  BY <1>5, <1>6, <1>7, <1>8, <1>9, <1>10, <1>11 DEF ThreadInv

\* What is left of a call that returns a block.
Returned(old) == IF old = NoBlock THEN Idle ELSE [Idle EXCEPT !.pc = "copied", !.old = old]

\* A call that returned is sound: it holds nothing any more.
LEMMA ReturnedSound ==
  ASSUME NEW old \in Block \cup {NoBlock}
  PROVE  Returned(old) \in Call /\ Sound(Returned(old)) /\ Returned(old).old = old
<1>1. Idle \in Call
  BY DEF Idle, Call, NoBlock
<1>2. CASE old = NoBlock
  BY <1>1, <1>2 DEF Returned, Sound, Idle, Allocating, Waiting
<1>3. CASE old # NoBlock
  <2>1. Returned(old) = [pc |-> "copied", size |-> 0, old |-> old, out |-> NoBlock, of |-> NoThread]
    BY <1>3 DEF Returned, Idle
  <2> QED
    BY <1>1, <1>3, <2>1 DEF Call, Idle, Sound, Allocating, Waiting
<1> QED BY <1>2, <1>3

\* What a call that allocates a small block keeps.
Begun(pc, n, old) == [Idle EXCEPT !.pc = pc, !.size = n, !.old = old]

\* A call that just began is sound.
LEMMA BegunSound ==
  ASSUME NEW pc \in {"pop", "grow"}, NEW n \in Nat \ {0}, NEW old \in Block \cup {NoBlock},
         WithBound(n) <= 1024
  PROVE  Begun(pc, n, old) \in Call /\ Sound(Begun(pc, n, old)) /\ Begun(pc, n, old).old = old
<1> DEFINE r == Begun(pc, n, old)
<1>1. r.pc = pc /\ r.size = n /\ r.old = old /\ r.of = NoThread
  BY DEF Begun, Idle
<1>2. Idle \in Call
  BY DEF Idle, Call
<1>3. r \in Call
  BY <1>2 DEF Begun, Call, Allocating
<1> QED BY <1>1, <1>3 DEF Sound, Allocating, Waiting

\* NoBlock is no block.
LEMMA NoBlockNone == NoBlock \notin Block
BY DEF NoBlock, Block

-----------------------------------------------------------------------------
(* Each action keeps the invariant of the threads.                          *)

\* A block comes into use.
LEMMA ReturnHolds ==
  ASSUME MemoryTypes, NEW t \in Threads, NEW out \in Block, NEW n \in Nat \ {0}, NEW old,
         Return(t, out, n, old)
  PROVE  /\ DOMAIN held' = DOMAIN held \cup {out} /\ DOMAIN held' \subseteq Block
         /\ held' \in [DOMAIN held' -> Nat \ {0}]
         /\ at' = [at EXCEPT ![t] = Returned(old)]
<1>1. held' = [y \in DOMAIN held \cup {out} |-> IF y = out THEN n ELSE held[y]]
  BY DEF Return, With
<1>2. DOMAIN held' = DOMAIN held \cup {out}
  BY <1>1
<1>3. \A y \in DOMAIN held : held[y] \in Nat \ {0} /\ y \in Block
  BY DEF MemoryTypes
<1>4. held' \in [DOMAIN held \cup {out} -> Nat \ {0}]
  BY <1>1, <1>3
<1> QED
  BY <1>2, <1>3, <1>4 DEF Return, Returned

\* A chunk is added.
LEMMA ChunkAdded ==
  ASSUME MemoryTypes, NEW z \in Nat, NEW c \in Classes \cup {0},
         chunks' = With(chunks, NewChunk, [len |-> z, class |-> c])
  PROVE  /\ IsFiniteSet(DOMAIN chunks') /\ DOMAIN chunks' \subseteq Nat \ {0}
         /\ chunks' \in [DOMAIN chunks' -> [len : Nat, class : Classes \cup {0}]]
         /\ DOMAIN chunks' = DOMAIN chunks \cup {NewChunk}
         /\ chunks'[NewChunk] = [len |-> z, class |-> c]
         /\ \A id \in DOMAIN chunks : chunks'[id] = chunks[id]
<1> DEFINE id == NewChunk
<1>1. id \in Nat \ {0} /\ id \notin DOMAIN chunks
  BY NewChunkNew
<1> HIDE DEF id
<1>2. chunks' = [y \in DOMAIN chunks \cup {id} |-> IF y = id THEN [len |-> z, class |-> c] ELSE chunks[y]]
  BY DEF With, id
<1>3. DOMAIN chunks' = DOMAIN chunks \cup {id}
  BY <1>2
<1>4. IsFiniteSet(DOMAIN chunks')
  <2>1. IsFiniteSet(DOMAIN chunks)
    BY DEF MemoryTypes
  <2>2. IsFiniteSet(DOMAIN chunks \cup {id})
    BY <2>1, FS_AddElement
  <2> QED BY <1>3, <2>2
<1>5. \A y \in DOMAIN chunks : chunks[y] \in [len : Nat, class : Classes \cup {0}]
  BY DEF MemoryTypes
<1>6. chunks' \in [DOMAIN chunks' -> [len : Nat, class : Classes \cup {0}]]
  BY <1>2, <1>3, <1>5
<1>7. chunks'[id] = [len |-> z, class |-> c] /\ \A y \in DOMAIN chunks : chunks'[y] = chunks[y]
  BY <1>1, <1>2
<1> QED
  BY <1>1, <1>3, <1>4, <1>6, <1>7 DEF id, MemoryTypes

\* alloc() and the allocation of regrow().
LEMMA AsksStep ==
  ASSUME Inv, NEW t \in Threads, NEW n \in Nat \ {0}, NEW old \in Block \cup {NoBlock},
         AtPlace(t, "idle"), life[t] = "running", old # NoBlock => old \in Owned,
         Asks(t, n, old)
  PROVE  Inv'
<1> DEFINE size == WithBound(n)  c == ClassOf(size)
<1>1. size \in Nat \ {0} /\ MemoryTypes
  BY Bounded DEF Inv
<1>2. /\ UNCHANGED <<program, options, last, threads>>
      /\ at[t].pc = "idle" /\ at[t].pc \notin Waiting /\ program' \in Programs
  BY <1>1 DEF Asks, AtPlace, Waiting, MemoryTypes
<1>3. Returned(old) \in Call /\ Sound(Returned(old)) /\ Returned(old).old = old
  BY ReturnedSound
<1>4. CASE size > 1024
  <2> DEFINE id == NewChunk  z == size + Align
  <2>1. /\ chunks' = With(chunks, id, [len |-> z, class |-> 0])
        /\ Return(t, <<id, FirstAt>>, n, old) /\ UNCHANGED <<queue, first>>
    BY <1>4 DEF Asks
  <2>2. z \in Nat /\ FirstAt \in Nat
    BY <1>1 DEF Align, FirstAt, Ptr
  <2>3. <<id, FirstAt>> \in Block
    BY <1>1, <2>2, NewChunkNew DEF Block
  <2> HIDE DEF id, z, size, c
  <2>4. /\ DOMAIN held' = DOMAIN held \cup {<<id, FirstAt>>} /\ DOMAIN held' \subseteq Block
        /\ held' \in [DOMAIN held' -> Nat \ {0}]
        /\ at' = [at EXCEPT ![t] = Returned(old)]
    BY <1>1, <2>1, <2>3, ReturnHolds
  <2>5. /\ IsFiniteSet(DOMAIN chunks') /\ DOMAIN chunks' \subseteq Nat \ {0}
        /\ chunks' \in [DOMAIN chunks' -> [len : Nat, class : Classes \cup {0}]]
    BY <1>1, <2>1, <2>2, ChunkAdded DEF id
  <2>6. MemoryTypes'
    BY <1>1, <1>2, <2>1, <2>4, <2>5 DEF MemoryTypes
  <2>7. CallGoes(t, Returned(old))
    BY <1>2, <1>3, <2>4 DEF CallGoes
  <2>8. ThreadTypes' /\ ThreadInv'
    BY <2>7, CallStep
  <2> QED BY <2>6, <2>8 DEF Inv
<1>5. CASE ~(size > 1024) /\ "thread" \in options /\ first[t][c] # <<>>
  <2>0. c \in Classes
    BY <1>1, <1>5, SizeClass
  <2>1. /\ first' = [first EXCEPT ![t][c] = Tail(@)]
        /\ Return(t, Head(first[t][c]), n, old) /\ UNCHANGED <<chunks, queue>>
    BY <1>5 DEF Asks
  <2> HIDE DEF size, c
  <2>2. first[t][c] \in Seq(Block) /\ first \in [Threads -> [Classes -> Seq(Block)]]
    BY <1>1, <2>0 DEF MemoryTypes
  <2>3. Head(first[t][c]) \in Block /\ Tail(first[t][c]) \in Seq(Block)
    BY <1>5, <2>2, RangeTail
  <2>4. first' \in [Threads -> [Classes -> Seq(Block)]]
    BY <2>1, <2>2, <2>3
  <2>5. /\ DOMAIN held' = DOMAIN held \cup {Head(first[t][c])} /\ DOMAIN held' \subseteq Block
        /\ held' \in [DOMAIN held' -> Nat \ {0}]
        /\ at' = [at EXCEPT ![t] = Returned(old)]
    BY <1>1, <2>1, <2>3, ReturnHolds
  <2>6. MemoryTypes'
    BY <1>1, <1>2, <2>1, <2>4, <2>5 DEF MemoryTypes
  <2>7. CallGoes(t, Returned(old))
    BY <1>2, <1>3, <2>5 DEF CallGoes
  <2>8. ThreadTypes' /\ ThreadInv'
    BY <2>7, CallStep
  <2> QED BY <2>6, <2>8 DEF Inv
<1>6. CASE ~(size > 1024) /\ ~("thread" \in options /\ first[t][c] # <<>>)
  <2>1. PICK pc \in {"pop", "grow"} : at' = [at EXCEPT ![t] = Begun(pc, n, old)]
    BY <1>6 DEF Asks, Begun
  <2>2. UNCHANGED <<chunks, queue, first, held>>
    BY <1>6 DEF Asks
  <2> DEFINE r == Begun(pc, n, old)
  <2>4. r \in Call /\ Sound(r) /\ r.old = old
    BY <1>1, <1>6, BegunSound
  <2> HIDE DEF r, size, c
  <2>5. at' = [at EXCEPT ![t] = r]
    BY <2>1 DEF r
  <2>6. MemoryTypes'
    BY <1>1, <1>2, <2>2 DEF MemoryTypes
  <2>7. CallGoes(t, r)
    BY <1>2, <2>2, <2>4, <2>5 DEF CallGoes
  <2>8. ThreadTypes' /\ ThreadInv'
    BY <2>7, CallStep
  <2> QED BY <2>6, <2>8 DEF Inv
<1> QED BY <1>4, <1>5, <1>6

\* Only the place of a call changes.
LEMMA GoesTo ==
  ASSUME ThreadTypes, NEW t \in Threads, NEW p \in {"idle", "grow", "flush"} \cup Waiting, Goes(t, p)
  PROVE  LET r == [at[t] EXCEPT !.pc = p] IN
         /\ r \in Call /\ at' = [at EXCEPT ![t] = r]
         /\ r.pc = p /\ r.size = at[t].size /\ r.old = at[t].old /\ r.of = at[t].of /\ r.out = at[t].out
<1>1. at \in [Threads -> Call] /\ at[t] \in Call
  BY DEF ThreadTypes
<1> DEFINE r == [at[t] EXCEPT !.pc = p]
<1>2. /\ r \in Call /\ r.pc = p /\ r.size = at[t].size /\ r.old = at[t].old
      /\ r.of = at[t].of /\ r.out = at[t].out
  BY <1>1 DEF Call, Allocating
<1>3. at' = [at EXCEPT ![t] = r]
  BY DEF Goes
<1> QED BY <1>2, <1>3

\* Pop: a list that is not empty gives its first block.
LEMMA PopStep ==
  ASSUME Inv, NEW t \in Threads, Pop(t)
  PROVE  Inv'
<1> DEFINE c == Class(t)  q == queue[c]
<1>1. /\ life[t] \in {"running", "closing"} /\ at[t].pc = "pop" /\ at[t].pc \notin Waiting
      /\ UNCHANGED <<program, options, chunks, first, last, allocs, threads>>
  BY DEF Pop, AtPlace, Waiting
<1>2. /\ MemoryTypes /\ ThreadTypes /\ at[t] \in Call /\ at[t].size \in Nat \ {0} /\ at[t].of = NoThread
      /\ at[t].old \in Block \cup {NoBlock} /\ WithBound(at[t].size) <= 1024
  BY <1>1 DEF Inv, ThreadTypes, ThreadInv, CallsSound, Call, Allocating, Waiting
<1>3. c \in Classes /\ q \in Seq(Block)
  BY <1>1, <1>2, CallClass DEF Allocating, MemoryTypes
<1>4. CASE q = <<>>
  <2>1. Goes(t, "grow") /\ UNCHANGED <<queue, held>>
    BY <1>4 DEF Pop
  <2> DEFINE r == [at[t] EXCEPT !.pc = "grow"]
  <2>2. /\ r \in Call /\ at' = [at EXCEPT ![t] = r] /\ r.pc = "grow" /\ r.size = at[t].size
        /\ r.old = at[t].old /\ r.of = at[t].of
    BY <1>2, <2>1, GoesTo
  <2> HIDE DEF r
  <2>3. Sound(r)
    BY <1>2, <2>2 DEF Sound, Allocating, Waiting
  <2>4. CallGoes(t, r)
    BY <1>1, <2>1, <2>2, <2>3 DEF CallGoes
  <2>5. MemoryTypes'
    BY <1>1, <1>2, <2>1 DEF MemoryTypes
  <2> QED BY <2>4, <2>5, CallStep DEF Inv
<1>5. CASE q # <<>>
  <2>1. /\ queue' = [queue EXCEPT ![c] = Tail(q)]
        /\ Return(t, Head(q), at[t].size, at[t].old)
    BY <1>5 DEF Pop
  <2> HIDE DEF c, q
  <2>2. Head(q) \in Block /\ Tail(q) \in Seq(Block)
    BY <1>3, <1>5, RangeTail
  <2>3. queue' \in [Classes -> Seq(Block)]
    BY <1>2, <1>3, <2>1, <2>2 DEF MemoryTypes
  <2>4. /\ DOMAIN held' = DOMAIN held \cup {Head(q)} /\ DOMAIN held' \subseteq Block
        /\ held' \in [DOMAIN held' -> Nat \ {0}]
        /\ at' = [at EXCEPT ![t] = Returned(at[t].old)]
    BY <1>2, <2>1, <2>2, ReturnHolds
  <2>5. MemoryTypes'
    BY <1>1, <1>2, <2>3, <2>4 DEF MemoryTypes
  <2>6. CallGoes(t, Returned(at[t].old))
    BY <1>1, <1>2, <2>4, ReturnedSound DEF CallGoes
  <2> QED BY <2>5, <2>6, CallStep DEF Inv
<1> QED BY <1>4, <1>5

\* Grow: malloc() gave a chunk, which is cut for the list that asked.
LEMMA GrowStep ==
  ASSUME Inv, NEW t \in Threads, Grow(t)
  PROVE  Inv'
<1> DEFINE c == Class(t)  q == queue[c]  cut == Carve(NewChunk, c)
<1>1. /\ life[t] \in {"running", "closing"} /\ at[t].pc = "grow" /\ at[t].pc \notin Waiting
      /\ UNCHANGED <<program, options, first, last, allocs, threads>>
  BY DEF Grow, AtPlace, Waiting
<1>2. /\ MemoryTypes /\ ThreadTypes /\ at[t] \in Call /\ at[t].size \in Nat \ {0} /\ at[t].of = NoThread
      /\ at[t].old \in Block \cup {NoBlock} /\ WithBound(at[t].size) <= 1024
  BY <1>1 DEF Inv, ThreadTypes, ThreadInv, CallsSound, Call, Allocating, Waiting
<1>3. c \in Classes /\ q \in Seq(Block)
  BY <1>1, <1>2, CallClass DEF Allocating, MemoryTypes
<1>4. /\ cut \in Seq(Block) /\ cut # <<>> /\ ChunkSize(c) \in Nat
  BY <1>2, <1>3, CarveType, ChunkFacts, NewChunkNew
<1>5. CASE q # <<>>
  <2>1. /\ queue' = [queue EXCEPT ![c] = Tail(q)]
        /\ Return(t, Head(q), at[t].size, at[t].old) /\ UNCHANGED chunks
    BY <1>5 DEF Grow
  <2> HIDE DEF c, q, cut
  <2>2. Head(q) \in Block /\ Tail(q) \in Seq(Block)
    BY <1>3, <1>5, RangeTail
  <2>3. queue' \in [Classes -> Seq(Block)]
    BY <1>2, <1>3, <2>1, <2>2 DEF MemoryTypes
  <2>4. /\ DOMAIN held' = DOMAIN held \cup {Head(q)} /\ DOMAIN held' \subseteq Block
        /\ held' \in [DOMAIN held' -> Nat \ {0}]
        /\ at' = [at EXCEPT ![t] = Returned(at[t].old)]
    BY <1>2, <2>1, <2>2, ReturnHolds
  <2>5. MemoryTypes'
    BY <1>1, <1>2, <2>1, <2>3, <2>4 DEF MemoryTypes
  <2>6. CallGoes(t, Returned(at[t].old))
    BY <1>1, <1>2, <2>4, ReturnedSound DEF CallGoes
  <2> QED BY <2>5, <2>6, CallStep DEF Inv
<1>6. CASE q = <<>>
  <2>1. /\ queue' = [queue EXCEPT ![c] = Tail(cut)]
        /\ chunks' = With(chunks, NewChunk, [len |-> ChunkSize(c), class |-> c])
        /\ IF RemainSize(c) = 0
           THEN Return(t, Head(cut), at[t].size, at[t].old)
           ELSE at' = [at EXCEPT ![t].pc = "remain", ![t].out = Head(cut)] /\ UNCHANGED held
    BY <1>6 DEF Grow
  <2> HIDE DEF c, q, cut
  <2>2. Head(cut) \in Block /\ Tail(cut) \in Seq(Block)
    BY <1>4, RangeTail
  <2>3. queue' \in [Classes -> Seq(Block)]
    BY <1>2, <1>3, <2>1, <2>2 DEF MemoryTypes
  <2>4. /\ IsFiniteSet(DOMAIN chunks') /\ DOMAIN chunks' \subseteq Nat \ {0}
        /\ chunks' \in [DOMAIN chunks' -> [len : Nat, class : Classes \cup {0}]]
    BY <1>2, <1>3, <1>4, <2>1, ChunkAdded
  <2>5. CASE RemainSize(c) = 0
    <3>1. /\ DOMAIN held' = DOMAIN held \cup {Head(cut)} /\ DOMAIN held' \subseteq Block
          /\ held' \in [DOMAIN held' -> Nat \ {0}]
          /\ at' = [at EXCEPT ![t] = Returned(at[t].old)]
      BY <1>2, <2>1, <2>2, <2>5, ReturnHolds
    <3>2. MemoryTypes'
      BY <1>1, <1>2, <2>3, <2>4, <3>1 DEF MemoryTypes
    <3>3. CallGoes(t, Returned(at[t].old))
      BY <1>1, <1>2, <3>1, ReturnedSound DEF CallGoes
    <3> QED BY <3>2, <3>3, CallStep DEF Inv
  <2>6. CASE RemainSize(c) # 0
    <3> DEFINE r == [at[t] EXCEPT !.pc = "remain", !.out = Head(cut)]
    <3>1. at' = [at EXCEPT ![t] = r] /\ UNCHANGED held
      BY <1>2, <2>1, <2>6 DEF ThreadTypes
    <3>2. r \in Call
      BY <1>2, <2>2 DEF Call, Allocating
    <3>3. r.pc = "remain" /\ r.size = at[t].size /\ r.old = at[t].old /\ r.of = NoThread
          /\ r.out = Head(cut)
      BY <1>2 DEF Call
    <3> HIDE DEF r
    <3>4. Sound(r)
      BY <1>2, <2>2, <2>6, <3>3, NoBlockNone DEF Sound, Allocating, Waiting, c, Class
    <3>5. CallGoes(t, r)
      BY <1>1, <3>1, <3>2, <3>3, <3>4 DEF CallGoes
    <3>6. MemoryTypes'
      BY <1>1, <1>2, <2>3, <2>4, <3>1 DEF MemoryTypes
    <3> QED BY <3>5, <3>6, CallStep DEF Inv
  <2> QED BY <2>5, <2>6
<1> QED BY <1>5, <1>6

\* GrowFails: malloc() gave nothing; the call returns NULL.
LEMMA GrowFailsStep ==
  ASSUME Inv, NEW t \in Threads, GrowFails(t)
  PROVE  Inv'
<1>1. /\ life[t] \in {"running", "closing"} /\ at[t].pc = "grow" /\ at[t].pc \notin Waiting
      /\ UNCHANGED <<program, options, chunks, queue, first, last, held, allocs, threads>>
      /\ at' = [at EXCEPT ![t] = Idle]
  BY DEF GrowFails, AtPlace, Waiting, memory
<1>2. Idle \in Call /\ Sound(Idle) /\ Idle.old = NoBlock
  BY DEF Idle, Call, Sound, Allocating, Waiting
<1>3. CallGoes(t, Idle)
  BY <1>1, <1>2 DEF CallGoes
<1>4. MemoryTypes'
  BY <1>1 DEF Inv, MemoryTypes
<1> QED BY <1>3, <1>4, CallStep DEF Inv

\* Remain: the rest of a chunk goes to the list of a smaller size.
LEMMA RemainStep ==
  ASSUME Inv, NEW t \in Threads, Remain(t)
  PROVE  Inv'
<1> DEFINE k == Class(t)  c == RemainClass(RemainSize(k))  x == Remaining(t)
<1>1. /\ life[t] \in {"running", "closing"} /\ at[t].pc = "remain" /\ at[t].pc \notin Waiting
      /\ UNCHANGED <<program, options, chunks, first, last, allocs, threads>>
      /\ queue' = [queue EXCEPT ![c] = <<x>> \o @]
      /\ Return(t, at[t].out, at[t].size, at[t].old)
  BY DEF Remain, AtPlace, Waiting
<1>2. /\ MemoryTypes /\ ThreadTypes /\ at[t] \in Call /\ at[t].size \in Nat \ {0}
      /\ at[t].old \in Block \cup {NoBlock} /\ at[t].out \in Block /\ RemainSize(k) # 0
  BY <1>1 DEF Inv, ThreadTypes, ThreadInv, CallsSound, Call, Allocating, Class
<1>3. k \in Classes
  BY <1>1, CallClass DEF Allocating
<1>4. c \in Classes /\ RemainAt(k) \in Nat
  BY <1>2, <1>3, ChunkFacts, RemainFits
<1>5. x \in Block
  BY <1>2, <1>4 DEF Remaining, Block
<1> HIDE DEF c, k, x
<1>6. queue[c] \in Seq(Block) /\ queue \in [Classes -> Seq(Block)]
  BY <1>2, <1>4 DEF MemoryTypes
<1>7. <<x>> \o queue[c] \in Seq(Block)
  BY <1>5, <1>6, PushFront
<1>8. queue' \in [Classes -> Seq(Block)]
  BY <1>1, <1>6, <1>7
<1>9. /\ DOMAIN held' = DOMAIN held \cup {at[t].out} /\ DOMAIN held' \subseteq Block
      /\ held' \in [DOMAIN held' -> Nat \ {0}]
      /\ at' = [at EXCEPT ![t] = Returned(at[t].old)]
  BY <1>1, <1>2, ReturnHolds
<1>10. MemoryTypes'
  BY <1>1, <1>2, <1>8, <1>9 DEF MemoryTypes
<1>11. CallGoes(t, Returned(at[t].old))
  BY <1>1, <1>2, <1>9, ReturnedSound DEF CallGoes
<1> QED BY <1>10, <1>11, CallStep DEF Inv

\* A block goes back to a list or to malloc().
LEMMA FreesTypes ==
  ASSUME MemoryTypes, NEW t \in Threads, NEW b \in DOMAIN held, Frees(t, b)
  PROVE  MemoryTypes' /\ DOMAIN held' = DOMAIN held \ {b} /\ options' = options
<1> DEFINE size == WithBound(held[b])  c == ClassOf(size)
<1>1. /\ b \in Block /\ held[b] \in Nat /\ size \in Nat \ {0}
      /\ ~(size > 1024) => c \in Classes
  BY Bounded, SizeClass DEF MemoryTypes
<1>2. /\ UNCHANGED <<program, options>>
      /\ held' = [y \in DOMAIN held \ {b} |-> held[y]]
  BY DEF Frees, Without
<1>3. /\ DOMAIN held' = DOMAIN held \ {b} /\ DOMAIN held' \subseteq Block
      /\ held' \in [DOMAIN held' -> Nat \ {0}]
  BY <1>2 DEF MemoryTypes
<1>4. CASE size > 1024
  <2>1. chunks' = [y \in DOMAIN chunks \ {b[1]} |-> chunks[y]] /\ UNCHANGED <<queue, first, last>>
    BY <1>4 DEF Frees, Without
  <2>2. DOMAIN chunks' = DOMAIN chunks \ {b[1]}
    BY <2>1
  <2>3. IsFiniteSet(DOMAIN chunks')
    <3>1. IsFiniteSet(DOMAIN chunks) /\ DOMAIN chunks' \in SUBSET DOMAIN chunks
      BY <2>2 DEF MemoryTypes
    <3> QED BY <3>1, FS_Subset
  <2>4. chunks' \in [DOMAIN chunks' -> [len : Nat, class : Classes \cup {0}]]
    BY <2>1, <2>2 DEF MemoryTypes
  <2> QED
    BY <1>2, <1>3, <2>1, <2>2, <2>3, <2>4 DEF MemoryTypes
<1>5. CASE ~(size > 1024) /\ "thread" \in options
  <2>1. /\ first' = [first EXCEPT ![t][c] = <<b>> \o @]
        /\ last' = [last EXCEPT ![t][c] = LastAfter(t, c, b)]
        /\ UNCHANGED <<chunks, queue>>
    BY <1>5 DEF Frees
  <2> HIDE DEF size, c
  <2>2. first \in [Threads -> [Classes -> Seq(Block)]] /\ c \in Classes /\ first[t][c] \in Seq(Block)
    BY <1>1, <1>5 DEF MemoryTypes
  <2>3. <<b>> \o first[t][c] \in Seq(Block)
    BY <1>1, <2>2, PushFront
  <2>4. first' \in [Threads -> [Classes -> Seq(Block)]]
    BY <2>1, <2>2, <2>3
  <2>5. last' \in [Threads -> [Classes -> Block \cup {NoBlock}]]
    BY <1>1, <2>1, <2>2 DEF MemoryTypes, LastAfter
  <2> QED
    BY <1>2, <1>3, <2>1, <2>4, <2>5 DEF MemoryTypes
<1>6. CASE ~(size > 1024) /\ "thread" \notin options
  <2>1. queue' = [queue EXCEPT ![c] = <<b>> \o @] /\ UNCHANGED <<chunks, first, last>>
    BY <1>6 DEF Frees
  <2> HIDE DEF size, c
  <2>2. queue \in [Classes -> Seq(Block)] /\ c \in Classes /\ queue[c] \in Seq(Block)
    BY <1>1, <1>6 DEF MemoryTypes
  <2>3. <<b>> \o queue[c] \in Seq(Block)
    BY <1>1, <2>2, PushFront
  <2>4. queue' \in [Classes -> Seq(Block)]
    BY <2>1, <2>2, <2>3
  <2> QED
    BY <1>2, <1>3, <2>1, <2>4 DEF MemoryTypes
<1> QED BY <1>4, <1>5, <1>6

\* Free: a block is given back.
LEMMA FreeStep ==
  ASSUME Inv, NEW t \in Threads, NEW b, Free(t, b)
  PROVE  Inv'
<1>1. /\ b \in DOMAIN held /\ Frees(t, b) /\ UNCHANGED <<at, threads>> /\ life[t] = "running"
      /\ at[t].pc = "idle" /\ (\A u \in Spawned : main[u] # b) /\ \A s \in Threads : at[s].old # b
  BY DEF Free, Owned, AtPlace
<1>2. MemoryTypes' /\ DOMAIN held' = DOMAIN held \ {b} /\ options' = options
  BY <1>1, FreesTypes DEF Inv
<1>3. at \in [Threads -> Call] /\ at[t] = Idle
  BY <1>1 DEF Inv, ThreadTypes, ThreadInv, CallsSound
<1>4. Idle \in Call /\ Sound(Idle) /\ Idle.old = NoBlock
  BY DEF Idle, Call, Sound, Allocating, Waiting
<1>5. at' = [at EXCEPT ![t] = Idle]
  BY <1>1, <1>3
<1>6. CallGoes(t, Idle)
  BY <1>1, <1>2, <1>4, <1>5 DEF CallGoes, Waiting
<1> QED BY <1>2, <1>6, CallStep DEF Inv

\* RegrowFree: regrow() gives the old block back.
LEMMA RegrowFreeStep ==
  ASSUME Inv, NEW t \in Threads, RegrowFree(t)
  PROVE  Inv'
<1> DEFINE b == at[t].old
<1>1. /\ Frees(t, b) /\ UNCHANGED threads /\ life[t] \in {"running", "closing"}
      /\ at[t].pc = "copied" /\ at' = [at EXCEPT ![t] = Idle]
  BY DEF RegrowFree, AtPlace
<1>2. /\ b \in DOMAIN held /\ b # NoBlock
      /\ (\A u \in Spawned : main[u] # b) /\ \A s \in Threads \ {t} : at[s].old # b
  BY <1>1 DEF Inv, ThreadInv, CallsSound, OldsHeld
<1>3. MemoryTypes' /\ DOMAIN held' = DOMAIN held \ {b} /\ options' = options
  BY <1>1, <1>2, FreesTypes DEF Inv
<1>4. Idle \in Call /\ Sound(Idle) /\ Idle.old = NoBlock
  BY DEF Idle, Call, Sound, Allocating, Waiting
<1>5. \A s \in Threads : at'[s].old # b
  BY <1>1, <1>2, <1>4 DEF Inv, ThreadTypes
<1>6. CallGoes(t, Idle)
  BY <1>1, <1>2, <1>3, <1>4, <1>5 DEF CallGoes, Waiting
<1> QED BY <1>3, <1>6, CallStep DEF Inv

\* Enable: a thread starts to use lists of its own.
LEMMA EnableStep ==
  ASSUME Inv, EnableThreadCache
  PROVE  Inv'
<1>1. /\ UNCHANGED <<program, chunks, queue, first, last, held, at>>
      /\ UNCHANGED <<life, main, refcnt, implrefs, users, attached, joinlock, released>>
      /\ "bound" \in options' <=> "bound" \in options
  BY DEF EnableThreadCache, threads
<1>2. \A n : WithBound(n)' = WithBound(n)
  BY <1>1, BoundKept
<1>3. MemoryTypes' /\ ThreadTypes'
  BY <1>1 DEF Inv, MemoryTypes, ThreadTypes
<1>4. CallsSound'
  BY <1>1, <1>2 DEF Inv, ThreadInv, CallsSound
<1>5. MainsHeld' /\ OldsHeld' /\ RefsCounted' /\ ReleasedOnce' /\ Joiners'
  BY <1>1 DEF Inv, ThreadInv, MainsHeld, OldsHeld, RefsCounted, ReleasedOnce, Joiners
<1> QED BY <1>3, <1>4, <1>5 DEF Inv, ThreadInv

\* The beginning and the end of flushThreadCache().
LEMMA FlushStep ==
  ASSUME Inv, NEW t \in Threads, FlushThreadCache(t)
  PROVE  Inv'
<1>1. /\ UNCHANGED <<program, options, chunks, queue, first, last, held, allocs, threads>>
      /\ life[t] \in {"running", "closing"} /\ at[t].pc = "idle" /\ Goes(t, "flush")
  BY DEF FlushThreadCache, AtPlace, memory
<1>2. ThreadTypes /\ at[t] = Idle
  BY <1>1 DEF Inv, ThreadInv, CallsSound
<1> DEFINE r == [at[t] EXCEPT !.pc = "flush"]
<1>3. r \in Call /\ at' = [at EXCEPT ![t] = r] /\ r.pc = "flush" /\ r.old = at[t].old /\ r.of = at[t].of
  BY <1>1, <1>2, GoesTo
<1>4. r.old = NoBlock /\ r.of = NoThread /\ r = [Idle EXCEPT !.pc = "flush"]
  BY <1>2, <1>3 DEF Idle
<1> HIDE DEF r
<1>5. CallGoes(t, r)
  BY <1>1, <1>3, <1>4 DEF CallGoes, Sound, Allocating, Waiting
<1>6. MemoryTypes'
  BY <1>1 DEF Inv, MemoryTypes
<1> QED BY <1>5, <1>6, CallStep DEF Inv

\* CloseNext: the end of a thread hands one of its lists over to all threads.
LEMMA CloseNextStep ==
  ASSUME Inv, NEW t \in Threads, CloseNext(t)
  PROVE  Inv'
<1> DEFINE c == Min(Cached(t))
<1>1. /\ queue' = [queue EXCEPT ![c] = Spliced(first[t][c], last[t][c], @)]
      /\ first' = [first EXCEPT ![t][c] = <<>>]
      /\ UNCHANGED <<program, options, chunks, last, held, allocs, at, threads>>
      /\ Cached(t) # {} /\ life[t] \in {"running", "closing"} /\ at[t].pc = "flush"
  BY DEF CloseNext, insertGlobalCache, AtPlace
<1>2. c \in Cached(t)
  <2>1. Cached(t) \in SUBSET Nat /\ Cached(t) # {}
    BY <1>1, ClassList DEF Cached
  <2>2. \E x \in Cached(t) : \A y \in Cached(t) : x <= y
    BY <2>1, Smallest
  <2> QED BY <2>2 DEF Min
<1> HIDE DEF c
<1>3. c \in Classes /\ first[t][c] \in Seq(Block) /\ queue[c] \in Seq(Block) /\ MemoryTypes
  BY <1>2 DEF Cached, Inv, MemoryTypes
<1>4. Spliced(first[t][c], last[t][c], queue[c]) \in Seq(Block)
  BY <1>3, SplicedType
<1>5. queue' \in [Classes -> Seq(Block)]
  BY <1>1, <1>3, <1>4 DEF MemoryTypes
<1>6. first' \in [Threads -> [Classes -> Seq(Block)]]
  BY <1>1, <1>3 DEF MemoryTypes
<1>7. MemoryTypes'
  BY <1>1, <1>3, <1>5, <1>6 DEF MemoryTypes
<1>8. /\ at[t] \in Call /\ at \in [Threads -> Call] /\ at[t].of = NoThread
      /\ at[t] = [Idle EXCEPT !.pc = "flush"]
  <2>1. at \in [Threads -> Call] /\ CallsSound
    BY DEF Inv, ThreadTypes, ThreadInv
  <2>2. at[t] = [Idle EXCEPT !.pc = "flush"]
    BY <1>1, <2>1 DEF CallsSound
  <2>3. at[t].of = NoThread
    BY <1>1, <2>1 DEF CallsSound, Waiting
  <2> QED BY <2>1, <2>2, <2>3
<1>9. at' = [at EXCEPT ![t] = at[t]]
  BY <1>1, <1>8
<1>10. CallGoes(t, at[t])
  BY <1>1, <1>8, <1>9 DEF CallGoes, Sound, Allocating, Waiting
<1> QED BY <1>7, <1>10, CallStep DEF Inv

\* Flushed: all lists of a thread that ends have been handed over.
LEMMA FlushedStep ==
  ASSUME Inv, NEW t \in Threads, Flushed(t)
  PROVE  Inv'
<1>1. /\ UNCHANGED <<program, options, chunks, queue, first, last, held, allocs, threads>>
      /\ life[t] \in {"running", "closing"} /\ at[t].pc = "flush" /\ Goes(t, "idle")
  BY DEF Flushed, AtPlace, memory
<1>2. ThreadTypes /\ at[t] = [Idle EXCEPT !.pc = "flush"]
  BY <1>1 DEF Inv, ThreadInv, CallsSound
<1> DEFINE r == [at[t] EXCEPT !.pc = "idle"]
<1>3. r \in Call /\ at' = [at EXCEPT ![t] = r] /\ r.pc = "idle" /\ r.old = at[t].old /\ r.of = at[t].of
  BY <1>1, <1>2, GoesTo
<1>4. r = Idle
  <2>1. at[t] = [pc |-> "flush", size |-> 0, old |-> NoBlock, out |-> NoBlock, of |-> NoThread]
    BY <1>2 DEF Idle
  <2> QED BY <2>1 DEF Idle
<1> HIDE DEF r
<1>5. r.old = NoBlock /\ r.of = NoThread
  BY <1>4 DEF Idle
<1>6. CallGoes(t, r)
  BY <1>1, <1>3, <1>4, <1>5 DEF CallGoes, Sound, Allocating, Waiting
<1>7. MemoryTypes'
  BY <1>1 DEF Inv, MemoryTypes
<1> QED BY <1>6, <1>7, CallStep DEF Inv

-----------------------------------------------------------------------------
(* References to threads.                                                   *)

\* The users of a thread are finitely many.
LEMMA UsersCount ==
  ASSUME NEW S \in SUBSET Threads
  PROVE  /\ Cardinality(S) \in Nat /\ (Cardinality(S) = 0 <=> S = {})
         /\ \A t \in S : Cardinality(S \ {t}) = Cardinality(S) - 1 /\ Cardinality(S) > 0
<1>1. IsFiniteSet(Threads)
  BY UsersAssumption, FS_AddElement, FS_EmptySet DEF Threads
<1>2. IsFiniteSet(S) /\ Cardinality(S) \in Nat
  BY <1>1, FS_Subset, FS_CardinalityType
<1>3. Cardinality(S) = 0 <=> S = {}
  BY <1>2, FS_EmptySet
<1>4. ASSUME NEW t \in S PROVE Cardinality(S \ {t}) = Cardinality(S) - 1 /\ Cardinality(S) > 0
  <2>1. Cardinality(S \ {t}) = Cardinality(S) - 1
    BY <1>2, FS_RemoveElement
  <2> QED BY <1>2, <1>3, <2>1
<1> QED BY <1>2, <1>3, <1>4

\* A reference is dropped: with the last one the block of the Thread is freed.
LEMMA UnrefEffect ==
  ASSUME Inv, NEW t \in Threads, NEW u \in Spawned, NEW n \in Nat \ {0}, refcnt[u] > 0,
         Unref(t, u, n), attached' = attached
  PROVE  /\ MemoryTypes' /\ options' = options
         /\ refcnt' = [refcnt EXCEPT ![u] = @ - 1] /\ refcnt' \in [Spawned -> Nat]
         /\ main' \in [Spawned -> Block \cup {NoBlock}]
         /\ implrefs' = [implrefs EXCEPT ![u] = IF refcnt[u] = 1 THEN n - 1 ELSE n]
         /\ released' = [released EXCEPT ![u] =
                           IF refcnt[u] = 1 /\ n = 1 /\ attached[u] THEN @ + 1 ELSE @]
         /\ MainsHeld' /\ \A v \in Spawned : main'[v] \in {NoBlock, main[v]}
         /\ \A b \in DOMAIN held \ DOMAIN held' : b = main[u]
<1>1. /\ MemoryTypes /\ ThreadTypes /\ MainsHeld /\ main[u] \in DOMAIN held /\ main[u] # NoBlock
      /\ refcnt[u] \in Nat
  BY DEF Inv, ThreadInv, MainsHeld, ThreadTypes
<1>2. refcnt' = [refcnt EXCEPT ![u] = @ - 1] /\ refcnt' \in [Spawned -> Nat]
  BY <1>1 DEF Unref, ThreadTypes
<1>3. CASE refcnt[u] = 1
  <2>1. /\ Frees(t, main[u]) /\ main' = [main EXCEPT ![u] = NoBlock]
        /\ implrefs' = [implrefs EXCEPT ![u] = n - 1]
        /\ released' = [released EXCEPT ![u] = IF n = 1 /\ attached[u] THEN @ + 1 ELSE @]
    BY <1>3 DEF Unref, ImplUnref
  <2>2. MemoryTypes' /\ DOMAIN held' = DOMAIN held \ {main[u]} /\ options' = options
    BY <1>1, <2>1, FreesTypes
  <2>3. main' \in [Spawned -> Block \cup {NoBlock}] /\ \A v \in Spawned : main'[v] \in {NoBlock, main[v]}
    BY <1>1, <2>1 DEF ThreadTypes
  <2>4. MainsHeld'
    <3> SUFFICES ASSUME NEW v \in Spawned
                 PROVE  /\ refcnt'[v] > 0 => main'[v] # NoBlock /\ main'[v] \in DOMAIN held'
                        /\ refcnt'[v] = 0 => main'[v] = NoBlock
                        /\ \A w \in Spawned \ {v} : main'[v] # NoBlock => main'[w] # main'[v]
      BY DEF MainsHeld
    <3>1. CASE v = u
      BY <1>1, <1>2, <1>3, <2>1, <3>1 DEF ThreadTypes
    <3>2. CASE v # u
      BY <1>1, <1>2, <1>3, <2>1, <2>2, <3>2 DEF ThreadTypes, MainsHeld
    <3> QED BY <3>1, <3>2
  <2>5. released' = [released EXCEPT ![u] = IF refcnt[u] = 1 /\ n = 1 /\ attached[u] THEN @ + 1 ELSE @]
    BY <1>3, <2>1
  <2>6. implrefs' = [implrefs EXCEPT ![u] = IF refcnt[u] = 1 THEN n - 1 ELSE n]
    BY <1>3, <2>1
  <2> QED BY <1>2, <2>2, <2>3, <2>4, <2>5, <2>6
<1>4. CASE refcnt[u] # 1
  <2>1. /\ implrefs' = [implrefs EXCEPT ![u] = n]
        /\ UNCHANGED <<program, options, chunks, queue, first, last, held, main, released>>
    BY <1>4 DEF Unref, memory
  <2>2. MemoryTypes'
    BY <1>1, <2>1 DEF MemoryTypes
  <2>3. MainsHeld'
    <3> SUFFICES ASSUME NEW v \in Spawned
                 PROVE  /\ refcnt'[v] > 0 => main[v] # NoBlock /\ main[v] \in DOMAIN held
                        /\ refcnt'[v] = 0 => main[v] = NoBlock
      BY <1>1, <2>1 DEF MainsHeld
    <3>1. CASE v = u
      BY <1>1, <1>2, <1>4, <3>1 DEF ThreadTypes
    <3>2. CASE v # u
      BY <1>1, <1>2, <3>2 DEF ThreadTypes, MainsHeld
    <3> QED BY <3>1, <3>2
  <2>4. released' = [released EXCEPT ![u] = IF refcnt[u] = 1 /\ n = 1 /\ attached[u] THEN @ + 1 ELSE @]
    BY <1>1, <1>4, <2>1 DEF ThreadTypes
  <2>5. implrefs' = [implrefs EXCEPT ![u] = IF refcnt[u] = 1 THEN n - 1 ELSE n]
    BY <1>4, <2>1
  <2> QED BY <1>1, <1>2, <2>1, <2>2, <2>3, <2>4, <2>5 DEF ThreadTypes
<1> QED BY <1>3, <1>4

\* start().
LEMMA StartStep ==
  ASSUME Inv, NEW t \in Threads, NEW u \in Spawned, NEW b, Start(t, u, b)
  PROVE  Inv'
<1>1. /\ at[t].pc = "idle" /\ life[u] = "none" /\ b \in Owned
      /\ main' = [main EXCEPT ![u] = b] /\ users' = [users EXCEPT ![u] = Users(u)]
      /\ refcnt' = [refcnt EXCEPT ![u] = Cardinality(Users(u)) + 1]
      /\ implrefs' = [implrefs EXCEPT ![u] = 1] /\ attached' = [attached EXCEPT ![u] = TRUE]
      /\ life' = [life EXCEPT ![u] = "running"]
      /\ UNCHANGED <<program, options, chunks, queue, first, last, held, allocs, at, joinlock, released>>
  BY DEF Start, AtPlace, memory
<1>2. /\ MemoryTypes /\ ThreadTypes /\ CallsSound /\ MainsHeld /\ OldsHeld /\ RefsCounted
      /\ ReleasedOnce /\ Joiners
  BY DEF Inv, ThreadInv
<1>3. at[t] = Idle /\ at[t].old = NoBlock
  BY <1>1, <1>2 DEF CallsSound, Idle
<1>4. /\ b \in DOMAIN held /\ b # NoBlock /\ b \in Block
      /\ \A v \in Spawned : main[v] # b /\ \A s \in Threads : at[s].old # b
  BY <1>1, <1>2, <1>3 DEF Owned, MemoryTypes
<1>5. Users(u) \in SUBSET Threads /\ u \in Threads
  BY UsersAssumption DEF Threads
<1>6. Cardinality(Users(u)) \in Nat
  BY <1>5, UsersCount
<1>7. users[u] = {} /\ released[u] = 0
  BY <1>1, <1>2 DEF ReleasedOnce
<1>8. MemoryTypes'
  BY <1>1, <1>2 DEF MemoryTypes
<1>9. ThreadTypes'
  BY <1>1, <1>2, <1>4, <1>5, <1>6 DEF ThreadTypes
<1>10. CallsSound'
  <2>1. \A n : WithBound(n)' = WithBound(n)
    BY <1>1, BoundKept
  <2>2. \A s \in Threads : life'[s] \in {"none", "ended"} => life[s] = life'[s]
    BY <1>1, <1>2, <1>5 DEF ThreadTypes
  <2> QED BY <1>1, <1>2, <2>1, <2>2 DEF CallsSound
<1>11. MainsHeld'
  <2> SUFFICES ASSUME NEW v \in Spawned
               PROVE  /\ refcnt'[v] > 0 => main'[v] # NoBlock /\ main'[v] \in DOMAIN held
                      /\ refcnt'[v] = 0 => main'[v] = NoBlock
                      /\ \A w \in Spawned \ {v} : main'[v] # NoBlock => main'[w] # main'[v]
    BY <1>1 DEF MainsHeld
  <2>1. CASE v = u
    BY <1>1, <1>2, <1>4, <1>6, <2>1 DEF ThreadTypes
  <2>2. CASE v # u
    BY <1>1, <1>2, <1>4, <2>2 DEF ThreadTypes, MainsHeld
  <2> QED BY <2>1, <2>2
<1>12. OldsHeld'
  <2>1. \A v \in Spawned : main'[v] \in {b, main[v]}
    BY <1>1, <1>2 DEF ThreadTypes
  <2> QED BY <1>1, <1>2, <1>4, <2>1 DEF OldsHeld
<1>13. RefsCounted'
  <2> SUFFICES ASSUME NEW v \in Spawned
               PROVE  /\ refcnt'[v] = Cardinality(users'[v]) + (IF life'[v] = "running" THEN 1 ELSE 0)
                      /\ implrefs'[v] = (IF refcnt'[v] > 0 THEN 1 ELSE 0)
                                        + (IF life'[v] = "closing" THEN 1 ELSE 0)
    BY DEF RefsCounted
  <2>1. CASE v = u
    <3>1. refcnt'[v] = Cardinality(Users(u)) + 1 /\ users'[v] = Users(u) /\ life'[v] = "running"
          /\ implrefs'[v] = 1
      BY <1>1, <1>2, <1>5, <2>1 DEF ThreadTypes
    <3> QED BY <1>6, <3>1
  <2>2. CASE v # u
    <3>1. refcnt'[v] = refcnt[v] /\ users'[v] = users[v] /\ life'[v] = life[v] /\ implrefs'[v] = implrefs[v]
      BY <1>1, <1>2, <2>2 DEF ThreadTypes, Threads
    <3> QED BY <1>2, <3>1 DEF RefsCounted
  <2> QED BY <2>1, <2>2
<1>14. ReleasedOnce'
  <2> SUFFICES ASSUME NEW v \in Spawned
               PROVE  /\ life'[v] = "none" => released[v] = 0 /\ users'[v] = {}
                      /\ implrefs'[v] > 0 => released[v] = IF attached'[v] THEN 0 ELSE 1
                      /\ implrefs'[v] = 0 /\ life'[v] # "none" => released[v] = 1
    BY <1>1 DEF ReleasedOnce
  <2>1. CASE v = u
    BY <1>1, <1>2, <1>5, <1>7, <2>1 DEF ThreadTypes
  <2>2. CASE v # u
    <3>1. users'[v] = users[v] /\ life'[v] = life[v] /\ implrefs'[v] = implrefs[v] /\ attached'[v] = attached[v]
      BY <1>1, <1>2, <2>2 DEF ThreadTypes, Threads
    <3> QED BY <1>2, <3>1 DEF ReleasedOnce
  <2> QED BY <2>1, <2>2
<1>15. Joiners'
  <2>1. ASSUME NEW s \in Threads, at[s].of # NoThread
        PROVE  at[s].of \in Spawned /\ at[s].of # u
    BY <1>2, <1>7, <2>1 DEF Joiners, ThreadTypes, Call
  <2>2. ASSUME NEW s \in Threads, at[s].of # NoThread PROVE s \in users'[at[s].of]
    BY <1>1, <1>2, <2>1, <2>2 DEF Joiners, ThreadTypes
  <2>3. ASSUME NEW s \in Threads, at[s].pc = "join" PROVE attached'[at[s].of]
    <3>1. at[s].of # NoThread /\ attached[at[s].of]
      BY <1>2, <2>3 DEF CallsSound, Waiting, Joiners
    <3> QED BY <1>1, <1>2, <2>1, <3>1 DEF ThreadTypes
  <2> QED BY <1>1, <1>2, <2>2, <2>3 DEF Joiners
<1> QED BY <1>8, <1>9, <1>10, <1>11, <1>12, <1>13, <1>14, <1>15 DEF Inv, ThreadInv

\* A user drops its reference.
LEMMA UserUnrefStep ==
  ASSUME Inv, NEW t \in Threads, NEW u \in Spawned, UserUnref(t, u)
  PROVE  Inv'
<1>1. /\ at[t].pc = "idle" /\ life[t] = "running" /\ t \in users[u]
      /\ users' = [users EXCEPT ![u] = @ \ {t}] /\ Unref(t, u, implrefs[u])
      /\ UNCHANGED <<at, life, attached, joinlock>>
  BY DEF UserUnref, AtPlace
<1>2. /\ MemoryTypes /\ ThreadTypes /\ CallsSound /\ MainsHeld /\ OldsHeld /\ RefsCounted
      /\ ReleasedOnce /\ Joiners
  BY DEF Inv, ThreadInv
<1> DEFINE n == Cardinality(users[u])  k == implrefs[u]
<1>3. n \in Nat /\ n > 0 /\ Cardinality(users[u] \ {t}) = n - 1 /\ users[u] \in SUBSET Threads
  <2>1. users[u] \in SUBSET Threads
    BY <1>2 DEF ThreadTypes
  <2> QED BY <1>1, <2>1, UsersCount
<1>4. /\ refcnt[u] = n + (IF life[u] = "running" THEN 1 ELSE 0) /\ refcnt[u] \in Nat
      /\ k = (IF refcnt[u] > 0 THEN 1 ELSE 0) + (IF life[u] = "closing" THEN 1 ELSE 0)
  BY <1>2 DEF RefsCounted, ThreadTypes
<1>5. refcnt[u] > 0 /\ k \in Nat \ {0} /\ life[u] # "none"
  <2>1. refcnt[u] > 0
    BY <1>3, <1>4
  <2>2. life[u] # "none"
    BY <1>1, <1>2 DEF ReleasedOnce
  <2> QED BY <1>4, <2>1, <2>2
<1> DEFINE k2 == IF refcnt[u] = 1 THEN k - 1 ELSE k
           r2 == IF refcnt[u] = 1 /\ k = 1 /\ attached[u] THEN released[u] + 1 ELSE released[u]
<1>6. /\ MemoryTypes' /\ options' = options
      /\ refcnt' = [refcnt EXCEPT ![u] = @ - 1] /\ refcnt' \in [Spawned -> Nat]
      /\ main' \in [Spawned -> Block \cup {NoBlock}]
      /\ implrefs' = [implrefs EXCEPT ![u] = k2]
      /\ released' = [released EXCEPT ![u] = r2]
      /\ MainsHeld' /\ (\A v \in Spawned : main'[v] \in {NoBlock, main[v]})
      /\ \A b \in DOMAIN held \ DOMAIN held' : b = main[u]
  BY <1>1, <1>5, UnrefEffect
<1> HIDE DEF n, k, k2, r2
<1>7. k2 \in Nat /\ r2 \in Nat
  BY <1>2, <1>5 DEF k2, r2, ThreadTypes
<1>8. ThreadTypes'
  BY <1>1, <1>2, <1>6, <1>7 DEF ThreadTypes
<1>9. CallsSound'
  <2>1. \A i : WithBound(i)' = WithBound(i)
    BY <1>6, BoundKept
  <2> QED BY <1>1, <1>2, <2>1 DEF CallsSound
<1>10. OldsHeld'
  BY <1>1, <1>2, <1>6 DEF OldsHeld
<1>11. /\ refcnt'[u] = refcnt[u] - 1 /\ implrefs'[u] = k2 /\ released'[u] = r2
       /\ users'[u] = users[u] \ {t}
       /\ \A v \in Spawned \ {u} : /\ refcnt'[v] = refcnt[v] /\ implrefs'[v] = implrefs[v]
                                   /\ released'[v] = released[v] /\ users'[v] = users[v]
  BY <1>1, <1>2, <1>6 DEF ThreadTypes
<1>12. RefsCounted'
  <2> SUFFICES ASSUME NEW v \in Spawned
               PROVE  /\ refcnt'[v] = Cardinality(users'[v]) + (IF life[v] = "running" THEN 1 ELSE 0)
                      /\ implrefs'[v] = (IF refcnt'[v] > 0 THEN 1 ELSE 0)
                                        + (IF life[v] = "closing" THEN 1 ELSE 0)
    BY <1>1 DEF RefsCounted
  <2>1. CASE v = u
    <3>1. Cardinality(users'[u]) = n - 1
      BY <1>3, <1>11
    <3>2. refcnt'[u] = (n - 1) + (IF life[u] = "running" THEN 1 ELSE 0)
      BY <1>3, <1>4, <1>11
    <3>3. k2 = (IF refcnt[u] - 1 > 0 THEN 1 ELSE 0) + (IF life[u] = "closing" THEN 1 ELSE 0)
      BY <1>4, <1>5 DEF k2
    <3> QED BY <1>11, <2>1, <3>1, <3>2, <3>3
  <2>2. CASE v # u
    BY <1>2, <1>11, <2>2 DEF RefsCounted
  <2> QED BY <2>1, <2>2
<1>13. ReleasedOnce'
  <2> SUFFICES ASSUME NEW v \in Spawned
               PROVE  /\ life[v] = "none" => released'[v] = 0 /\ users'[v] = {}
                      /\ implrefs'[v] > 0 => released'[v] = IF attached[v] THEN 0 ELSE 1
                      /\ implrefs'[v] = 0 /\ life[v] # "none" => released'[v] = 1
    BY <1>1 DEF ReleasedOnce
  <2>1. CASE v = u
    <3>1. released[u] = IF attached[u] THEN 0 ELSE 1
      BY <1>2, <1>5 DEF ReleasedOnce, k
    <3>2. attached[u] \in BOOLEAN
      BY <1>2 DEF ThreadTypes
    <3>3. k2 > 0 => r2 = IF attached[u] THEN 0 ELSE 1
      BY <1>5, <3>1, <3>2 DEF k2, r2
    <3>4. k2 = 0 => r2 = 1
      BY <1>5, <3>1, <3>2 DEF k2, r2
    <3> QED BY <1>5, <1>11, <2>1, <3>3, <3>4
  <2>2. CASE v # u
    BY <1>2, <1>11, <2>2 DEF ReleasedOnce
  <2> QED BY <2>1, <2>2
<1>14. Joiners'
  <2>1. at[t].of = NoThread
    BY <1>1, <1>2 DEF CallsSound, Idle
  <2>2. ASSUME NEW s \in Threads, at[s].of # NoThread PROVE s \in users'[at[s].of]
    <3>1. s # t /\ s \in users[at[s].of] /\ at[s].of \in Spawned
      BY <1>2, <2>1, <2>2 DEF Joiners, ThreadTypes, Call
    <3> QED BY <1>11, <3>1
  <2> QED BY <1>1, <1>2, <2>2 DEF Joiners
<1> QED BY <1>6, <1>8, <1>9, <1>10, <1>12, <1>13, <1>14 DEF Inv, ThreadInv

\* The beginning of finish_func().
LEMMA FinishStep ==
  ASSUME Inv, NEW u \in Threads, Finish(u)
  PROVE  Inv'
<1>1. /\ u \in Spawned /\ at[u].pc = "idle" /\ life[u] = "running" /\ Unref(u, u, implrefs[u] + 1)
      /\ life' = [life EXCEPT ![u] = "closing"] /\ Goes(u, "flush")
      /\ UNCHANGED <<users, attached, joinlock>>
  BY DEF Finish, AtPlace
<1>2. /\ MemoryTypes /\ ThreadTypes /\ CallsSound /\ MainsHeld /\ OldsHeld /\ RefsCounted
      /\ ReleasedOnce /\ Joiners
  BY DEF Inv, ThreadInv
<1>3. at[u] = Idle
  BY <1>1, <1>2 DEF CallsSound
<1> DEFINE r == [at[u] EXCEPT !.pc = "flush"]  n == Cardinality(users[u])  k == implrefs[u] + 1
<1>4. r \in Call /\ at' = [at EXCEPT ![u] = r] /\ r.pc = "flush" /\ r.old = at[u].old /\ r.of = at[u].of
  BY <1>1, <1>2, GoesTo
<1>5. r = [Idle EXCEPT !.pc = "flush"] /\ r.of = NoThread /\ r.old = NoBlock
  BY <1>3, <1>4 DEF Idle
<1> HIDE DEF r
<1>6. at'[u] = r /\ (\A s \in Threads \ {u} : at'[s] = at[s]) /\ at' \in [Threads -> Call]
  BY <1>2, <1>4 DEF ThreadTypes
<1>7. users[u] \in SUBSET Threads /\ n \in Nat
  <2>1. users[u] \in SUBSET Threads
    BY <1>1, <1>2 DEF ThreadTypes
  <2> QED BY <2>1, UsersCount
<1>8. refcnt[u] = n + 1 /\ implrefs[u] = 1
  BY <1>1, <1>2, <1>7 DEF RefsCounted
<1>9. /\ MemoryTypes' /\ options' = options
      /\ refcnt' = [refcnt EXCEPT ![u] = @ - 1] /\ refcnt' \in [Spawned -> Nat]
      /\ main' \in [Spawned -> Block \cup {NoBlock}]
      /\ implrefs' = [implrefs EXCEPT ![u] = IF refcnt[u] = 1 THEN k - 1 ELSE k]
      /\ released' = [released EXCEPT ![u] =
                        IF refcnt[u] = 1 /\ k = 1 /\ attached[u] THEN @ + 1 ELSE @]
      /\ MainsHeld' /\ (\A v \in Spawned : main'[v] \in {NoBlock, main[v]})
      /\ \A b \in DOMAIN held \ DOMAIN held' : b = main[u]
  BY <1>1, <1>7, <1>8, UnrefEffect
<1>10. /\ refcnt'[u] = n /\ implrefs'[u] = (IF n = 0 THEN 1 ELSE 2) /\ released' = released
       /\ life'[u] = "closing" /\ implrefs' \in [Spawned -> Nat]
       /\ \A v \in Spawned \ {u} : refcnt'[v] = refcnt[v] /\ implrefs'[v] = implrefs[v]
       /\ \A s \in Threads \ {u} : life'[s] = life[s]
  BY <1>1, <1>2, <1>7, <1>8, <1>9 DEF ThreadTypes
<1>11. ThreadTypes'
  BY <1>1, <1>2, <1>6, <1>9, <1>10, UsersAssumption DEF ThreadTypes
<1>12. CallsSound'
  <2>1. \A i : WithBound(i)' = WithBound(i)
    BY <1>9, BoundKept
  <2> SUFFICES ASSUME NEW s \in Threads
               PROVE  /\ at'[s].pc = "idle" => at'[s] = Idle
                      /\ at'[s].pc = "flush" => at'[s] = [Idle EXCEPT !.pc = "flush"]
                      /\ at'[s].pc \in Allocating => at'[s].size > 0 /\ WithBound(at'[s].size) <= 1024
                      /\ at'[s].pc = "remain" =>
                           at'[s].out # NoBlock /\ RemainSize(ClassOf(WithBound(at'[s].size))) # 0
                      /\ at'[s].pc = "copied" => at'[s].old # NoBlock
                      /\ at'[s].of # NoThread <=> at'[s].pc \in Waiting
                      /\ life'[s] \in {"none", "ended"} => at'[s] = Idle
    BY <2>1 DEF CallsSound
  <2>2. CASE s = u
    BY <1>4, <1>5, <1>6, <1>10, <2>2 DEF Allocating, Waiting
  <2>3. CASE s # u
    BY <1>2, <1>6, <1>10, <2>3 DEF CallsSound
  <2> QED BY <2>2, <2>3
<1>13. OldsHeld'
  <2> SUFFICES ASSUME NEW s \in Threads, at'[s].old # NoBlock
               PROVE  /\ at'[s].old \in DOMAIN held'
                      /\ \A v \in Spawned : main'[v] # at'[s].old
                      /\ \A z \in Threads \ {s} : at'[z].old # at'[s].old
    BY DEF OldsHeld
  <2>1. s # u /\ at'[s] = at[s] /\ at'[u].old = NoBlock
    BY <1>5, <1>6
  <2> QED BY <1>1, <1>2, <1>6, <1>9, <2>1 DEF OldsHeld
<1>14. RefsCounted'
  <2> SUFFICES ASSUME NEW v \in Spawned
               PROVE  /\ refcnt'[v] = Cardinality(users[v]) + (IF life'[v] = "running" THEN 1 ELSE 0)
                      /\ implrefs'[v] = (IF refcnt'[v] > 0 THEN 1 ELSE 0)
                                        + (IF life'[v] = "closing" THEN 1 ELSE 0)
    BY <1>1 DEF RefsCounted
  <2>1. CASE v = u
    BY <1>7, <1>10, <2>1
  <2>2. CASE v # u
    BY <1>2, <1>10, <2>2 DEF RefsCounted, Threads
  <2> QED BY <2>1, <2>2
<1>15. ReleasedOnce'
  <2> SUFFICES ASSUME NEW v \in Spawned
               PROVE  /\ life'[v] = "none" => released[v] = 0 /\ users[v] = {}
                      /\ implrefs'[v] > 0 => released[v] = IF attached[v] THEN 0 ELSE 1
                      /\ implrefs'[v] = 0 /\ life'[v] # "none" => released[v] = 1
    BY <1>1, <1>10 DEF ReleasedOnce
  <2>1. CASE v = u
    BY <1>2, <1>7, <1>8, <1>10, <2>1 DEF ReleasedOnce
  <2>2. CASE v # u
    BY <1>2, <1>10, <2>2 DEF ReleasedOnce, Threads
  <2> QED BY <2>1, <2>2
<1>16. Joiners'
  <2>1. \A s \in Threads : at'[s].of = at[s].of /\ (at'[s].pc \in Waiting <=> at[s].pc \in Waiting)
                           /\ (at[s].pc \in Waiting => at'[s] = at[s])
    BY <1>1, <1>3, <1>4, <1>6 DEF Waiting
  <2>2. \A s \in Threads, p \in Waiting : at'[s].pc = p <=> at[s].pc = p
    BY <2>1 DEF Waiting
  <2>3. \A s \in Threads : at'[s].of # NoThread => s \in users[at'[s].of]
    BY <1>2, <2>1 DEF Joiners
  <2>4. \A v \in Spawned, s \in Threads :
          joinlock[v] = s <=> at'[s].of = v /\ at'[s].pc \in {"join", "unlock"}
    BY <1>2, <2>1, <2>2 DEF Joiners, Waiting
  <2>5. \A s \in Threads : at'[s].pc = "join" => attached[at'[s].of]
    BY <1>2, <2>1, <2>2 DEF Joiners, Waiting
  <2> QED BY <1>1, <2>3, <2>4, <2>5 DEF Joiners
<1> QED BY <1>9, <1>11, <1>12, <1>13, <1>14, <1>15, <1>16 DEF Inv, ThreadInv

\* The end of finish_func().
LEMMA EndStep ==
  ASSUME Inv, NEW u \in Threads, End(u)
  PROVE  Inv'
<1>0. u \in Spawned
  BY DEF End, Inv, ThreadTypes, Threads
<1> USE <1>0
<1>1. /\ at[u].pc = "flush" /\ life[u] = "closing" /\ ImplUnref(u, implrefs[u])
      /\ life' = [life EXCEPT ![u] = "ended"] /\ at' = [at EXCEPT ![u] = Idle]
      /\ UNCHANGED <<program, options, chunks, queue, first, last, held, allocs>>
      /\ UNCHANGED <<main, refcnt, users, attached, joinlock>>
  BY DEF End, AtPlace, memory
<1>2. /\ MemoryTypes /\ ThreadTypes /\ CallsSound /\ MainsHeld /\ OldsHeld /\ RefsCounted
      /\ ReleasedOnce /\ Joiners
  BY DEF Inv, ThreadInv
<1>3. /\ refcnt[u] \in Nat /\ released[u] \in Nat /\ attached[u] \in BOOLEAN /\ refcnt[u] = Cardinality(users[u])
      /\ users[u] \in SUBSET Threads /\ Cardinality(users[u]) \in Nat
  <2>1. users[u] \in SUBSET Threads
    BY <1>2 DEF ThreadTypes
  <2>2. Cardinality(users[u]) \in Nat
    BY <2>1, UsersCount
  <2> QED BY <1>1, <1>2, <2>1, <2>2 DEF ThreadTypes, RefsCounted
<1>4. implrefs[u] = (IF refcnt[u] > 0 THEN 1 ELSE 0) + 1
  BY <1>1, <1>2, <1>3 DEF RefsCounted
<1>5. implrefs' = [implrefs EXCEPT ![u] = implrefs[u] - 1]
  BY <1>1 DEF ImplUnref
<1>6. released' = [released EXCEPT ![u] = IF implrefs[u] = 1 /\ attached[u] THEN @ + 1 ELSE @]
  BY <1>1 DEF ImplUnref
<1>7. released[u] = IF attached[u] THEN 0 ELSE 1
  BY <1>2, <1>3, <1>4 DEF ReleasedOnce
<1>8. /\ implrefs'[u] = implrefs[u] - 1 /\ implrefs'[u] \in Nat
      /\ released'[u] = IF implrefs[u] = 1 /\ attached[u] THEN released[u] + 1 ELSE released[u]
      /\ released'[u] \in Nat /\ life'[u] = "ended"
      /\ (\A v \in Spawned \ {u} : implrefs'[v] = implrefs[v] /\ released'[v] = released[v])
      /\ (\A s \in Threads \ {u} : life'[s] = life[s])
  BY <1>1, <1>2, <1>3, <1>4, <1>5, <1>6 DEF ThreadTypes
<1>9. Idle \in Call /\ Idle.pc = "idle" /\ Idle.old = NoBlock /\ Idle.of = NoThread
  BY DEF Idle, Call
<1>10. at'[u] = Idle /\ (\A s \in Threads \ {u} : at'[s] = at[s]) /\ at' \in [Threads -> Call]
  BY <1>1, <1>2, <1>9 DEF ThreadTypes
<1>11. implrefs' \in [Spawned -> Nat] /\ released' \in [Spawned -> Nat]
  BY <1>2, <1>5, <1>6, <1>8 DEF ThreadTypes
<1>12. MemoryTypes'
  BY <1>1, <1>2 DEF MemoryTypes
<1>13. ThreadTypes'
  BY <1>1, <1>2, <1>10, <1>11, UsersAssumption DEF ThreadTypes
<1>14. CallsSound'
  <2>1. \A i : WithBound(i)' = WithBound(i)
    BY <1>1, BoundKept
  <2> SUFFICES ASSUME NEW s \in Threads
               PROVE  /\ at'[s].pc = "idle" => at'[s] = Idle
                      /\ at'[s].pc = "flush" => at'[s] = [Idle EXCEPT !.pc = "flush"]
                      /\ at'[s].pc \in Allocating => at'[s].size > 0 /\ WithBound(at'[s].size) <= 1024
                      /\ at'[s].pc = "remain" =>
                           at'[s].out # NoBlock /\ RemainSize(ClassOf(WithBound(at'[s].size))) # 0
                      /\ at'[s].pc = "copied" => at'[s].old # NoBlock
                      /\ at'[s].of # NoThread <=> at'[s].pc \in Waiting
                      /\ life'[s] \in {"none", "ended"} => at'[s] = Idle
    BY <2>1 DEF CallsSound
  <2>2. CASE s = u
    BY <1>9, <1>10, <2>2 DEF Allocating, Waiting
  <2>3. CASE s # u
    BY <1>2, <1>8, <1>10, <2>3 DEF CallsSound
  <2> QED BY <2>2, <2>3
<1>15. MainsHeld'
  BY <1>1, <1>2 DEF MainsHeld
<1>16. OldsHeld'
  <2> SUFFICES ASSUME NEW s \in Threads, at'[s].old # NoBlock
               PROVE  /\ at'[s].old \in DOMAIN held
                      /\ \A v \in Spawned : main[v] # at'[s].old
                      /\ \A z \in Threads \ {s} : at'[z].old # at'[s].old
    BY <1>1 DEF OldsHeld
  <2>1. s # u /\ at'[s] = at[s] /\ at'[u].old = NoBlock
    BY <1>9, <1>10
  <2> QED BY <1>1, <1>2, <1>10, <2>1 DEF OldsHeld
<1>17. RefsCounted'
  <2> SUFFICES ASSUME NEW v \in Spawned
               PROVE  /\ refcnt[v] = Cardinality(users[v]) + (IF life'[v] = "running" THEN 1 ELSE 0)
                      /\ implrefs'[v] = (IF refcnt[v] > 0 THEN 1 ELSE 0)
                                        + (IF life'[v] = "closing" THEN 1 ELSE 0)
    BY <1>1 DEF RefsCounted
  <2>1. CASE v = u
    BY <1>3, <1>4, <1>8, <2>1
  <2>2. CASE v # u
    BY <1>2, <1>8, <2>2 DEF RefsCounted, Threads
  <2> QED BY <2>1, <2>2
<1>18. ReleasedOnce'
  <2> SUFFICES ASSUME NEW v \in Spawned
               PROVE  /\ life'[v] = "none" => released'[v] = 0 /\ users[v] = {}
                      /\ implrefs'[v] > 0 => released'[v] = IF attached[v] THEN 0 ELSE 1
                      /\ implrefs'[v] = 0 /\ life'[v] # "none" => released'[v] = 1
    BY <1>1 DEF ReleasedOnce
  <2>1. CASE v = u
    BY <1>3, <1>4, <1>7, <1>8, <2>1
  <2>2. CASE v # u
    BY <1>2, <1>8, <2>2 DEF ReleasedOnce, Threads
  <2> QED BY <2>1, <2>2
<1>19. Joiners'
  <2>1. at[u].of = NoThread
    BY <1>1, <1>2 DEF CallsSound, Waiting
  <2>2. \A s \in Threads : at'[s].of = at[s].of /\ (at[s].pc \in Waiting => at'[s] = at[s])
                           /\ (at'[s].pc \in Waiting => at'[s] = at[s])
    BY <1>1, <1>9, <1>10, <2>1 DEF Waiting
  <2>3. \A s \in Threads : at'[s].of # NoThread => s \in users[at'[s].of]
    BY <1>2, <2>2 DEF Joiners
  <2>4. \A v \in Spawned, s \in Threads :
          joinlock[v] = s <=> at'[s].of = v /\ at'[s].pc \in {"join", "unlock"}
    BY <1>2, <2>2 DEF Joiners, Waiting
  <2>5. \A s \in Threads : at'[s].pc = "join" => attached[at'[s].of]
    BY <1>2, <2>2 DEF Joiners, Waiting
  <2> QED BY <1>1, <2>3, <2>4, <2>5 DEF Joiners
<1> QED BY <1>12, <1>13, <1>14, <1>15, <1>16, <1>17, <1>18, <1>19 DEF Inv, ThreadInv

-----------------------------------------------------------------------------
(* wait().                                                                  *)

\* What a step of wait() does not touch.
WaitGoes(t, r) ==
  /\ r \in Call /\ at' = [at EXCEPT ![t] = r] /\ r.old \in {NoBlock, at[t].old}
  /\ r = Idle \/ (r.pc \in Waiting /\ r.of \in Spawned)
  /\ life[t] \in {"running", "closing"}
  /\ UNCHANGED <<program, options, chunks, queue, first, last, held>>
  /\ UNCHANGED <<life, main, refcnt, implrefs, users>>

\* A step of wait() changes nothing of memory and references.
LEMMA WaitStep ==
  ASSUME Inv, NEW t \in Threads, NEW r, WaitGoes(t, r)
  PROVE  /\ MemoryTypes' /\ CallsSound' /\ MainsHeld' /\ OldsHeld' /\ RefsCounted'
         /\ at' \in [Threads -> Call] /\ at'[t] = r /\ \A s \in Threads \ {t} : at'[s] = at[s]
<1> USE DEF WaitGoes
<1>1. MemoryTypes /\ ThreadTypes /\ CallsSound /\ MainsHeld /\ OldsHeld /\ RefsCounted
  BY DEF Inv, ThreadInv
<1>2. at' \in [Threads -> Call] /\ at'[t] = r /\ \A s \in Threads \ {t} : at'[s] = at[s]
  BY <1>1 DEF ThreadTypes
<1>3. MemoryTypes'
  BY <1>1 DEF MemoryTypes
<1>4. CallsSound'
  <2>1. \A i : WithBound(i)' = WithBound(i)
    BY BoundKept
  <2> SUFFICES ASSUME NEW s \in Threads
               PROVE  /\ at'[s].pc = "idle" => at'[s] = Idle
                      /\ at'[s].pc = "flush" => at'[s] = [Idle EXCEPT !.pc = "flush"]
                      /\ at'[s].pc \in Allocating => at'[s].size > 0 /\ WithBound(at'[s].size) <= 1024
                      /\ at'[s].pc = "remain" =>
                           at'[s].out # NoBlock /\ RemainSize(ClassOf(WithBound(at'[s].size))) # 0
                      /\ at'[s].pc = "copied" => at'[s].old # NoBlock
                      /\ at'[s].of # NoThread <=> at'[s].pc \in Waiting
                      /\ life[s] \in {"none", "ended"} => at'[s] = Idle
    BY <2>1 DEF CallsSound
  <2>2. Idle.pc = "idle" /\ Idle.of = NoThread /\ NoThread \notin Spawned
    BY UsersAssumption DEF Idle, Threads
  <2>3. CASE s = t
    BY <1>2, <2>2, <2>3 DEF Allocating, Waiting
  <2>4. CASE s # t
    BY <1>1, <1>2, <2>4 DEF CallsSound
  <2> QED BY <2>3, <2>4
<1>5. MainsHeld'
  BY <1>1 DEF MainsHeld
<1>6. OldsHeld'
  <2> SUFFICES ASSUME NEW s \in Threads, at'[s].old # NoBlock
               PROVE  /\ at'[s].old \in DOMAIN held
                      /\ \A v \in Spawned : main[v] # at'[s].old
                      /\ \A z \in Threads \ {s} : at'[z].old # at'[s].old
    BY DEF OldsHeld
  <2>1. \A z \in Threads : at'[z].old \in {NoBlock, at[z].old}
    BY <1>2
  <2>2. at'[s].old = at[s].old /\ at[s].old # NoBlock
    BY <2>1
  <2> QED BY <1>1, <2>1, <2>2 DEF OldsHeld
<1>7. RefsCounted'
  BY <1>1 DEF RefsCounted
<1> QED BY <1>2, <1>3, <1>4, <1>5, <1>6, <1>7

\* Wait: a thread calls wait() for another one.
LEMMA WaitBeginsStep ==
  ASSUME Inv, NEW t \in Threads, NEW u \in Spawned, Wait(t, u)
  PROVE  Inv'
<1> DEFINE r == [at[t] EXCEPT !.pc = "lock", !.of = u]
<1>1. /\ life[t] \in {"running", "closing"} /\ at[t].pc = "idle" /\ t \in users[u]
      /\ at' = [at EXCEPT ![t].pc = "lock", ![t].of = u]
      /\ UNCHANGED <<program, options, chunks, queue, first, last, held>>
      /\ UNCHANGED <<life, main, refcnt, implrefs, users, attached, joinlock, released>>
  BY DEF Wait, AtPlace, memory, threads
<1>2. ThreadTypes /\ CallsSound /\ ReleasedOnce /\ Joiners /\ at[t] \in Call
  BY DEF Inv, ThreadInv, ThreadTypes
<1>3. at' = [at EXCEPT ![t] = r]
  BY <1>1, <1>2 DEF ThreadTypes
<1>4. r \in Call /\ r.pc = "lock" /\ r.of = u /\ r.old = at[t].old
  BY <1>2 DEF Call, Waiting
<1> HIDE DEF r
<1>5. WaitGoes(t, r)
  BY <1>1, <1>3, <1>4 DEF WaitGoes, Waiting
<1>6. /\ MemoryTypes' /\ CallsSound' /\ MainsHeld' /\ OldsHeld' /\ RefsCounted'
      /\ at' \in [Threads -> Call] /\ at'[t] = r /\ \A s \in Threads \ {t} : at'[s] = at[s]
  BY <1>5, WaitStep
<1>7. ThreadTypes' /\ ReleasedOnce'
  BY <1>1, <1>2, <1>6 DEF ThreadTypes, ReleasedOnce
<1>8. Joiners'
  <2>1. \A s \in Threads : at'[s].of # NoThread => s \in users[at'[s].of]
    BY <1>1, <1>2, <1>4, <1>6 DEF Joiners
  <2>2. \A v \in Spawned, s \in Threads :
          joinlock[v] = s <=> at'[s].of = v /\ at'[s].pc \in {"join", "unlock"}
    BY <1>1, <1>2, <1>4, <1>6 DEF Joiners
  <2>3. \A s \in Threads : at'[s].pc = "join" => attached[at'[s].of]
    BY <1>2, <1>4, <1>6 DEF Joiners
  <2>4. users' = users /\ attached' = attached /\ joinlock' = joinlock
    BY <1>1
  <2> QED BY <2>1, <2>2, <2>3, <2>4 DEF Joiners
<1> QED BY <1>6, <1>7, <1>8 DEF Inv, ThreadInv

\* WaitLock: the waiting thread gets the join lock.
LEMMA WaitLockStep ==
  ASSUME Inv, NEW t \in Threads, WaitLock(t)
  PROVE  Inv'
<1> DEFINE u == at[t].of  p == IF attached[u] THEN "join" ELSE "unlock"  r == [at[t] EXCEPT !.pc = p]
<1>1. /\ life[t] \in {"running", "closing"} /\ at[t].pc = "lock" /\ joinlock[u] = NoThread
      /\ joinlock' = [joinlock EXCEPT ![u] = t] /\ Goes(t, p)
      /\ UNCHANGED <<program, options, chunks, queue, first, last, held>>
      /\ UNCHANGED <<life, main, refcnt, implrefs, users, attached, released>>
  BY DEF WaitLock, AtPlace, memory, StillAttached
<1>2. ThreadTypes /\ CallsSound /\ ReleasedOnce /\ Joiners /\ at[t] \in Call
  BY DEF Inv, ThreadInv, ThreadTypes
<1>3. u \in Spawned /\ p \in Waiting
  BY <1>1, <1>2 DEF CallsSound, Call, Waiting
<1>4. r \in Call /\ at' = [at EXCEPT ![t] = r] /\ r.pc = p /\ r.of = u /\ r.old = at[t].old
  BY <1>1, <1>2, <1>3, GoesTo
<1>5. p \in {"join", "unlock"} /\ (p = "join" => attached[u])
  OBVIOUS
<1> HIDE DEF r, p, u
<1>6. WaitGoes(t, r)
  BY <1>1, <1>3, <1>4 DEF WaitGoes
<1>7. /\ MemoryTypes' /\ CallsSound' /\ MainsHeld' /\ OldsHeld' /\ RefsCounted'
      /\ at' \in [Threads -> Call] /\ at'[t] = r /\ \A s \in Threads \ {t} : at'[s] = at[s]
  BY <1>6, WaitStep
<1>8. ThreadTypes' /\ ReleasedOnce'
  BY <1>1, <1>2, <1>3, <1>7 DEF ThreadTypes, ReleasedOnce
<1>9. joinlock'[u] = t /\ \A v \in Spawned \ {u} : joinlock'[v] = joinlock[v]
  BY <1>1, <1>2, <1>3 DEF ThreadTypes
<1>10. Joiners'
  <2>1. \A s \in Threads : at'[s].of # NoThread => s \in users[at'[s].of]
    BY <1>2, <1>4, <1>7 DEF Joiners, u
  <2>2. ASSUME NEW v \in Spawned, NEW s \in Threads
        PROVE  joinlock'[v] = s <=> at'[s].of = v /\ at'[s].pc \in {"join", "unlock"}
    <3>1. CASE s = t
      <4>1. at'[s].of = u /\ at'[s].pc \in {"join", "unlock"}
        BY <1>4, <1>5, <1>7, <3>1
      <4>2. v # u => joinlock[v] # t
        BY <1>1, <1>2 DEF Joiners
      <4> QED BY <1>9, <3>1, <4>1, <4>2
    <3>2. CASE s # t
      <4>1. at'[s] = at[s] /\ (joinlock[v] = s <=> at[s].of = v /\ at[s].pc \in {"join", "unlock"})
        BY <1>2, <1>7, <3>2 DEF Joiners
      <4>2. s # NoThread
        BY UsersAssumption
      <4> QED BY <1>1, <1>9, <3>2, <4>1, <4>2
    <3> QED BY <3>1, <3>2
  <2>3. \A s \in Threads : at'[s].pc = "join" => attached[at'[s].of]
    BY <1>2, <1>4, <1>5, <1>7 DEF Joiners
  <2>4. users' = users /\ attached' = attached
    BY <1>1
  <2> QED BY <2>1, <2>2, <2>3, <2>4 DEF Joiners
<1> QED BY <1>7, <1>8, <1>10 DEF Inv, ThreadInv

\* WaitJoin: the holder of the join lock joins the thread, unless that was done.
LEMMA WaitJoinStep ==
  ASSUME Inv, NEW t \in Threads, WaitJoin(t)
  PROVE  Inv'
<1> DEFINE u == at[t].of  r == [at[t] EXCEPT !.pc = "unlock"]
<1>1. /\ life[t] \in {"running", "closing"} /\ at[t].pc = "join" /\ life[u] = "ended"
      /\ released' = [released EXCEPT ![u] = @ + 1] /\ attached' = [attached EXCEPT ![u] = FALSE]
      /\ Goes(t, "unlock")
      /\ UNCHANGED <<program, options, chunks, queue, first, last, held>>
      /\ UNCHANGED <<life, main, refcnt, implrefs, users, joinlock>>
  BY DEF WaitJoin, AtPlace, memory
<1>2. ThreadTypes /\ CallsSound /\ RefsCounted /\ ReleasedOnce /\ Joiners /\ at[t] \in Call
  BY DEF Inv, ThreadInv, ThreadTypes
<1>3. u \in Spawned /\ u # NoThread
  BY <1>1, <1>2 DEF CallsSound, Call, Waiting
<1>4. r \in Call /\ at' = [at EXCEPT ![t] = r] /\ r.pc = "unlock" /\ r.of = u /\ r.old = at[t].old
  BY <1>1, <1>2, GoesTo DEF Waiting
<1>5. t \in users[u] /\ attached[u] /\ joinlock[u] = t
  BY <1>1, <1>2, <1>3 DEF Joiners
<1> HIDE DEF r, u
<1>6. WaitGoes(t, r)
  BY <1>1, <1>3, <1>4 DEF WaitGoes, Waiting
<1>7. /\ MemoryTypes' /\ CallsSound' /\ MainsHeld' /\ OldsHeld' /\ RefsCounted'
      /\ at' \in [Threads -> Call] /\ at'[t] = r /\ \A s \in Threads \ {t} : at'[s] = at[s]
  BY <1>6, WaitStep
<1>8. implrefs[u] > 0
  <2>1. users[u] \in SUBSET Threads /\ refcnt[u] \in Nat
    BY <1>2, <1>3 DEF ThreadTypes
  <2>2. Cardinality(users[u]) \in Nat /\ Cardinality(users[u]) > 0
    BY <1>5, <2>1, UsersCount
  <2>3. refcnt[u] > 0
    BY <1>1, <1>2, <1>3, <2>2 DEF RefsCounted
  <2> QED BY <1>1, <1>2, <1>3, <2>3 DEF RefsCounted
<1>9. released[u] = 0
  BY <1>2, <1>3, <1>5, <1>8 DEF ReleasedOnce
<1>10. /\ released'[u] = 1 /\ attached'[u] = FALSE
       /\ \A v \in Spawned \ {u} : released'[v] = released[v] /\ attached'[v] = attached[v]
  BY <1>1, <1>2, <1>3, <1>9 DEF ThreadTypes
<1>11. ThreadTypes'
  BY <1>1, <1>2, <1>3, <1>7 DEF ThreadTypes
<1>12. ReleasedOnce'
  <2> SUFFICES ASSUME NEW v \in Spawned
               PROVE  /\ life[v] = "none" => released'[v] = 0 /\ users[v] = {}
                      /\ implrefs[v] > 0 => released'[v] = IF attached'[v] THEN 0 ELSE 1
                      /\ implrefs[v] = 0 /\ life[v] # "none" => released'[v] = 1
    BY <1>1 DEF ReleasedOnce
  <2>1. CASE v = u
    BY <1>1, <1>10, <2>1
  <2>2. CASE v # u
    BY <1>2, <1>10, <2>2 DEF ReleasedOnce
  <2> QED BY <2>1, <2>2
<1>13. Joiners'
  <2>1. \A s \in Threads : at'[s].of = at[s].of
    BY <1>4, <1>7 DEF u
  <2>2. \A s \in Threads : at'[s].of # NoThread => s \in users[at'[s].of]
    BY <1>2, <2>1 DEF Joiners
  <2>3. \A v \in Spawned, s \in Threads :
          joinlock[v] = s <=> at'[s].of = v /\ at'[s].pc \in {"join", "unlock"}
    BY <1>1, <1>2, <1>4, <1>7, <2>1 DEF Joiners
  <2>4. ASSUME NEW s \in Threads, at'[s].pc = "join" PROVE attached'[at'[s].of]
    <3>1. s # t /\ at'[s] = at[s] /\ at[s].pc = "join"
      BY <1>4, <1>7, <2>4
    <3>2. at[s].of \in Spawned /\ attached[at[s].of]
      BY <1>2, <3>1 DEF CallsSound, Waiting, Joiners, ThreadTypes, Call
    <3>3. joinlock[at[s].of] = s
      BY <1>2, <3>1, <3>2 DEF Joiners
    <3>4. at[s].of # u
      BY <1>5, <3>1, <3>3
    <3> QED BY <1>10, <3>1, <3>2, <3>4
  <2> QED BY <1>1, <2>2, <2>3, <2>4 DEF Joiners
<1> QED BY <1>7, <1>11, <1>12, <1>13 DEF Inv, ThreadInv

\* WaitUnlock: the join lock is given up and wait() returns.
LEMMA WaitUnlockStep ==
  ASSUME Inv, NEW t \in Threads, WaitUnlock(t)
  PROVE  Inv'
<1> DEFINE u == at[t].of
<1>1. /\ life[t] \in {"running", "closing"} /\ at[t].pc = "unlock"
      /\ joinlock' = [joinlock EXCEPT ![u] = NoThread] /\ at' = [at EXCEPT ![t] = Idle]
      /\ UNCHANGED <<program, options, chunks, queue, first, last, held>>
      /\ UNCHANGED <<life, main, refcnt, implrefs, users, attached, released>>
  BY DEF WaitUnlock, AtPlace, memory, Unlocked
<1>2. ThreadTypes /\ CallsSound /\ ReleasedOnce /\ Joiners /\ at[t] \in Call
  BY DEF Inv, ThreadInv, ThreadTypes
<1>3. u \in Spawned
  BY <1>1, <1>2 DEF CallsSound, Call, Waiting
<1>4. joinlock[u] = t
  BY <1>1, <1>2, <1>3 DEF Joiners
<1> HIDE DEF u
<1>5. Idle \in Call /\ Idle.pc = "idle" /\ Idle.old = NoBlock /\ Idle.of = NoThread
  BY DEF Idle, Call
<1>6. WaitGoes(t, Idle)
  BY <1>1, <1>5 DEF WaitGoes
<1>7. /\ MemoryTypes' /\ CallsSound' /\ MainsHeld' /\ OldsHeld' /\ RefsCounted'
      /\ at' \in [Threads -> Call] /\ at'[t] = Idle /\ \A s \in Threads \ {t} : at'[s] = at[s]
  BY <1>6, WaitStep
<1>8. ThreadTypes' /\ ReleasedOnce'
  BY <1>1, <1>2, <1>3, <1>7 DEF ThreadTypes, ReleasedOnce
<1>9. joinlock'[u] = NoThread /\ \A v \in Spawned \ {u} : joinlock'[v] = joinlock[v]
  BY <1>1, <1>2, <1>3 DEF ThreadTypes
<1>10. Joiners'
  <2>1. \A s \in Threads : at'[s].of # NoThread => s \in users[at'[s].of]
    BY <1>2, <1>5, <1>7 DEF Joiners
  <2>2. ASSUME NEW v \in Spawned, NEW s \in Threads
        PROVE  joinlock'[v] = s <=> at'[s].of = v /\ at'[s].pc \in {"join", "unlock"}
    <3>1. NoThread \notin Threads /\ v # NoThread
      BY UsersAssumption DEF Threads
    <3>2. CASE s = t
      <4>1. v # u => joinlock[v] # t
        BY <1>1, <1>2 DEF Joiners, u
      <4> QED BY <1>5, <1>7, <1>9, <3>1, <3>2, <4>1
    <3>3. CASE s # t
      BY <1>2, <1>4, <1>7, <1>9, <3>1, <3>3 DEF Joiners
    <3> QED BY <3>2, <3>3
  <2>3. \A s \in Threads : at'[s].pc = "join" => attached[at'[s].of]
    BY <1>2, <1>5, <1>7 DEF Joiners
  <2> QED BY <1>1, <2>1, <2>2, <2>3 DEF Joiners
<1> QED BY <1>7, <1>8, <1>10 DEF Inv, ThreadInv

-----------------------------------------------------------------------------
(* The invariant of the threads.                                            *)

\* The first state satisfies it.
LEMMA InitInv ==
  ASSUME Init
  PROVE  Inv
<1>1. /\ program \in Programs /\ chunks = [id \in {} |-> <<>>] /\ queue = [c \in Classes |-> <<>>]
      /\ first = [t \in Threads |-> queue] /\ last = [t \in Threads |-> [c \in Classes |-> NoBlock]]
      /\ held = [b \in {} |-> 0] /\ at = [t \in Threads |-> Idle]
      /\ life = [t \in Threads |-> IF t = Main THEN "running" ELSE "none"]
  BY DEF Init
<1>2. /\ main = [t \in Spawned |-> NoBlock] /\ refcnt = [t \in Spawned |-> 0]
      /\ implrefs = [t \in Spawned |-> 0] /\ users = [t \in Spawned |-> {}]
      /\ attached = [t \in Spawned |-> FALSE] /\ joinlock = [t \in Spawned |-> NoThread]
      /\ released = [t \in Spawned |-> 0]
  BY DEF Init
<1>3. Idle \in Call /\ Idle.pc = "idle" /\ Idle.old = NoBlock /\ Idle.of = NoThread
  BY DEF Idle, Call
<1>4. DOMAIN chunks = {} /\ DOMAIN held = {}
  BY <1>1
<1>5. <<>> \in Seq(Block)
  OBVIOUS
<1>6. MemoryTypes
  <2>1. IsFiniteSet(DOMAIN chunks)
    BY <1>4, FS_EmptySet
  <2>2. chunks \in [DOMAIN chunks -> [len : Nat, class : Classes \cup {0}]]
    BY <1>1
  <2>3. held \in [DOMAIN held -> Nat \ {0}]
    BY <1>1
  <2>4. queue \in [Classes -> Seq(Block)] /\ first \in [Threads -> [Classes -> Seq(Block)]]
    BY <1>1, <1>5
  <2>5. last \in [Threads -> [Classes -> Block \cup {NoBlock}]]
    BY <1>1
  <2> QED BY <1>1, <1>4, <2>1, <2>2, <2>3, <2>4, <2>5 DEF MemoryTypes
<1>7. ThreadTypes
  BY <1>1, <1>2, <1>3 DEF ThreadTypes, Threads
<1>8. \A t \in Threads : at[t] = Idle
  BY <1>1
<1>9. CallsSound
  BY <1>3, <1>8 DEF CallsSound, Allocating, Waiting
<1>10. MainsHeld /\ OldsHeld
  BY <1>2, <1>3, <1>8 DEF MainsHeld, OldsHeld
<1>11. \A u \in Spawned : u \in Threads /\ life[u] = "none"
  BY <1>1, UsersAssumption DEF Threads
<1>12. RefsCounted
  BY <1>2, <1>11, FS_EmptySet DEF RefsCounted
<1>13. ReleasedOnce
  BY <1>2, <1>11 DEF ReleasedOnce
<1>14. Joiners
  BY <1>2, <1>3, <1>8, UsersAssumption DEF Joiners, Threads
<1> QED BY <1>6, <1>7, <1>9, <1>10, <1>12, <1>13, <1>14 DEF Inv, ThreadInv

\* Every step keeps the invariant about threads.
LEMMA NextInv ==
  ASSUME Inv, [Next]_vars
  PROVE  Inv'
<1>1. CASE UNCHANGED vars
  <2>1. /\ UNCHANGED <<program, options, chunks, queue, first, last, held, at>>
        /\ UNCHANGED <<life, main, refcnt, implrefs, users, attached, joinlock, released>>
    BY <1>1 DEF vars, memory, threads
  <2>2. \A n : WithBound(n)' = WithBound(n)
    BY <2>1, BoundKept
  <2>3. MemoryTypes' /\ ThreadTypes'
    BY <2>1 DEF Inv, MemoryTypes, ThreadTypes
  <2>4. CallsSound'
    BY <2>1, <2>2 DEF Inv, ThreadInv, CallsSound
  <2>5. MainsHeld' /\ OldsHeld' /\ RefsCounted' /\ ReleasedOnce' /\ Joiners'
    BY <2>1 DEF Inv, ThreadInv, MainsHeld, OldsHeld, RefsCounted, ReleasedOnce, Joiners
  <2> QED BY <2>3, <2>4, <2>5 DEF Inv, ThreadInv
<1>2. CASE EnableThreadCache
  BY <1>2, EnableStep
<1>3. ASSUME NEW t \in Threads, GoesOn(t) PROVE Inv'
  BY <1>3, PopStep, GrowStep, GrowFailsStep, RemainStep, RegrowFreeStep, CloseNextStep,
     FlushedStep, EndStep, WaitLockStep, WaitJoinStep, WaitUnlockStep DEF GoesOn
<1>4. ASSUME NEW t \in Threads, Calls(t) PROVE Inv'
  <2>1. program.sizes \subseteq Nat \ {0} /\ ThreadSize \in Nat \ {0}
    BY SizesAssumption DEF Inv, MemoryTypes
  <2>2. ASSUME NEW n \in program.sizes \cup {ThreadSize}, Alloc(t, n) PROVE Inv'
    BY <2>1, <2>2, AsksStep DEF Alloc
  <2>3. ASSUME NEW b \in Owned, Free(t, b) PROVE Inv'
    BY <2>3, FreeStep
  <2>4. ASSUME NEW b \in Owned, NEW n \in program.sizes, Regrow(t, b, n) PROVE Inv'
    <3>1. b \in Block \cup {NoBlock}
      BY DEF Owned, Inv, MemoryTypes
    <3> QED BY <2>1, <2>4, <3>1, AsksStep DEF Regrow
  <2>5. ASSUME NEW u \in Spawned, NEW b \in Owned, Start(t, u, b) PROVE Inv'
    BY <2>5, StartStep
  <2>6. CASE FlushThreadCache(t)
    BY <2>6, FlushStep
  <2>7. ASSUME NEW u \in Spawned, Wait(t, u) PROVE Inv'
    BY <2>7, WaitBeginsStep
  <2>8. ASSUME NEW u \in Spawned, UserUnref(t, u) PROVE Inv'
    BY <2>8, UserUnrefStep
  <2> QED BY <1>4, <2>2, <2>3, <2>4, <2>5, <2>6, <2>7, <2>8 DEF Calls
<1>5. ASSUME NEW t \in Threads, Finish(t) PROVE Inv'
  BY <1>5, FinishStep
<1> QED BY <1>1, <1>2, <1>3, <1>4, <1>5 DEF Next

\* Of threads and their blocks the inductive invariant holds, whatever the threads do.
THEOREM ThreadInvariance == Spec => []Inv
<1>1. Init => Inv
  BY InitInv
<1>2. Inv /\ [Next]_vars => Inv'
  BY NextInv
<1> QED
  BY <1>1, <1>2, PTL DEF Spec

\* The invariant about threads contains what the run checks.
LEMMA InvReleases ==
  ASSUME Inv
  PROVE  ThreadsReleased
<1>1. ThreadTypes /\ MainsHeld /\ RefsCounted /\ ReleasedOnce /\ Joiners
  BY DEF Inv, ThreadInv
<1> SUFFICES ASSUME NEW u \in Spawned
             PROVE  /\ released[u] <= 1
                    /\ life[u] = "ended" /\ implrefs[u] = 0 => released[u] = 1
                    /\ Using(u) # {} \/ life[u] = "running" =>
                         main[u] \in DOMAIN held /\ implrefs[u] > 0
  BY DEF ThreadsReleased
<1>2. users[u] \in SUBSET Threads /\ refcnt[u] \in Nat /\ implrefs[u] \in Nat /\ attached[u] \in BOOLEAN
  BY <1>1 DEF ThreadTypes
<1>3. Cardinality(users[u]) \in Nat /\ (users[u] # {} => Cardinality(users[u]) > 0)
  BY <1>2, UsersCount
<1>4. released[u] <= 1
  BY <1>1, <1>2 DEF ReleasedOnce
<1>5. Using(u) # {} => users[u] # {}
  BY <1>1, UsersAssumption DEF Using, Joiners, Threads
<1>6. Using(u) # {} \/ life[u] = "running" => refcnt[u] > 0
  BY <1>1, <1>3, <1>5 DEF RefsCounted
<1>7. refcnt[u] > 0 => main[u] \in DOMAIN held /\ implrefs[u] > 0
  BY <1>1, <1>2 DEF MainsHeld, RefsCounted
<1> QED BY <1>1, <1>4, <1>6, <1>7 DEF ReleasedOnce

\* A thread is joined or detached exactly once, and its Thread is there for whoever
\* waits for it: the reference counts of Thread and Thread_impl and the lock of
\* wait() work together, with any number of threads that wait, drop their
\* references and end in any order.
THEOREM EveryThreadReleased == Spec => []ThreadsReleased
BY ThreadInvariance, InvReleases, PTL

-----------------------------------------------------------------------------
(* Blocks that move between places.                                         *)

\* The blocks X move from one place to another, come from nowhere, or go.
Moved(f, g, a, b, X) ==
  /\ DOMAIN g = DOMAIN f /\ a \in DOMAIN f /\ b \in DOMAIN f /\ a # b /\ X \subseteq f[a]
  /\ \A p \in DOMAIN f : g[p] = IF p = a THEN f[a] \ X ELSE IF p = b THEN f[b] \cup X ELSE f[p]
Added(f, g, e) ==
  /\ DOMAIN g = DOMAIN f /\ DOMAIN e = DOMAIN f /\ Apart(e) /\ All(f) \cap All(e) = {}
  /\ \A p \in DOMAIN f : g[p] = f[p] \cup e[p]
Dropped(f, g, a, X) ==
  /\ DOMAIN g = DOMAIN f /\ a \in DOMAIN f /\ X \subseteq f[a]
  /\ \A p \in DOMAIN f : g[p] = IF p = a THEN f[a] \ X ELSE f[p]

\* In each of these cases no block gets into two places. Blocks move.
LEMMA MoveApart ==
  ASSUME NEW f, NEW g, NEW a, NEW b, NEW X, Apart(f), Moved(f, g, a, b, X)
  PROVE  Apart(g) /\ All(g) = All(f)
<1> USE DEF Moved
<1> DEFINE P == DOMAIN f
<1>1. \A p, q \in P : p # q => f[p] \cap f[q] = {}
  BY DEF Apart
<1>2. ASSUME NEW p \in P, NEW q \in P, p # q PROVE g[p] \cap g[q] = {}
  <2> SUFFICES ASSUME NEW x, x \in g[p], x \in g[q] PROVE FALSE
    OBVIOUS
  <2>1. \A z \in P, w \in P : x \in f[z] /\ x \in f[w] => z = w
    BY <1>1
  <2>2. g[p] = (IF p = a THEN f[a] \ X ELSE IF p = b THEN f[b] \cup X ELSE f[p])
        /\ g[q] = (IF q = a THEN f[a] \ X ELSE IF q = b THEN f[b] \cup X ELSE f[q])
    OBVIOUS
  <2> QED BY <1>2, <2>1, <2>2
<1>3. ASSUME NEW x PROVE (\E p \in P : x \in g[p]) <=> (\E p \in P : x \in f[p])
  <2>1. ASSUME NEW p \in P, x \in g[p] PROVE \E q \in P : x \in f[q]
    BY <2>1
  <2>2. ASSUME NEW p \in P, x \in f[p] PROVE \E q \in P : x \in g[q]
    <3>1. CASE p = a /\ x \in X
      BY <2>2, <3>1
    <3>2. CASE p = a /\ x \notin X
      BY <2>2, <3>2
    <3>3. CASE p # a
      BY <2>2, <3>3
    <3> QED BY <3>1, <3>2, <3>3
  <2> QED BY <2>1, <2>2
<1> QED BY <1>2, <1>3 DEF Apart, All

\* Blocks come that are nowhere yet, to several places.
LEMMA AddApart ==
  ASSUME NEW f, NEW g, NEW e, Apart(f), Added(f, g, e)
  PROVE  Apart(g) /\ All(g) = All(f) \cup All(e)
<1> USE DEF Added
<1> DEFINE P == DOMAIN f
<1>1. \A p, q \in P : p # q => f[p] \cap f[q] = {} /\ e[p] \cap e[q] = {}
  BY DEF Apart
<1>2. \A p, q \in P : f[p] \cap e[q] = {}
  BY DEF All
<1>3. ASSUME NEW p \in P, NEW q \in P, p # q PROVE g[p] \cap g[q] = {}
  <2>1. g[p] = f[p] \cup e[p] /\ g[q] = f[q] \cup e[q]
    OBVIOUS
  <2> QED BY <1>1, <1>2, <1>3, <2>1
<1>4. ASSUME NEW x
      PROVE  (\E p \in P : x \in g[p]) <=> (\E p \in P : x \in f[p]) \/ (\E p \in P : x \in e[p])
  OBVIOUS
<1> QED BY <1>3, <1>4 DEF Apart, All

\* Blocks go.
LEMMA DropApart ==
  ASSUME NEW f, NEW g, NEW a, NEW X, Apart(f), Dropped(f, g, a, X)
  PROVE  Apart(g) /\ All(g) = All(f) \ X
<1> USE DEF Dropped
<1> DEFINE P == DOMAIN f
<1>1. \A p, q \in P : p # q => f[p] \cap f[q] = {}
  BY DEF Apart
<1>2. \A p \in P : g[p] \subseteq f[p]
  OBVIOUS
<1>3. Apart(g)
  BY <1>1, <1>2 DEF Apart
<1>4. ASSUME NEW x PROVE (\E p \in P : x \in g[p]) <=> (\E p \in P : x \in f[p]) /\ x \notin X
  <2>1. ASSUME NEW p \in P, x \in g[p] PROVE (\E q \in P : x \in f[q]) /\ x \notin X
    <3>1. CASE p = a
      BY <2>1, <3>1
    <3>2. CASE p # a
      <4>1. x \in f[p] /\ f[p] \cap f[a] = {}
        BY <1>1, <2>1, <3>2
      <4> QED BY <4>1
    <3> QED BY <3>1, <3>2
  <2>2. ASSUME NEW p \in P, x \in f[p], x \notin X PROVE \E q \in P : x \in g[q]
    <3>1. x \in g[p]
      BY <2>2
    <3> QED BY <3>1
  <2> QED BY <2>1, <2>2
<1> QED BY <1>3, <1>4 DEF All

\* The places.
LEMMA SpotFacts ==
  /\ InUse \in Spots /\ InUse \notin Keys
  /\ \A t \in Threads : <<t, 0>> \in Spots /\ <<t, 0>> \notin Keys /\ <<t, 0>> # InUse
  /\ \A p \in Spots : p \in Keys \/ p = InUse \/ \E t \in Threads : p = <<t, 0>>
  /\ \A o \in Owners, c \in Classes : <<o, c>> \in Keys
  /\ \A k \in Keys : k \in Spots /\ k[1] \in Owners /\ k[2] \in Classes /\ k = <<k[1], k[2]>>
<1>1. 0 \notin Classes
  BY ClassList
<1>2. NoThread \notin Threads
  BY UsersAssumption
<1> QED BY <1>1, <1>2 DEF InUse, Spots, Keys, Owners

\* The blocks at a place, before a step and after it.
LEMMA ContentAt ==
  /\ DOMAIN Content = Spots /\ Content[InUse] = DOMAIN held
  /\ (\A k \in Keys : Content[k] = Range(ListOf(k))) /\ \A t \in Threads : Content[<<t, 0>>] = Cut(t)
<1> QED BY SpotFacts DEF Content, Listed

\* The places after a step.
LEMMA ContentAfter ==
  /\ DOMAIN Content' = Spots /\ Content'[InUse] = DOMAIN held'
  /\ (\A k \in Keys : Content'[k] = Range(ListOf(k)')) /\ \A t \in Threads : Content'[<<t, 0>>] = Cut(t)'
<1> QED BY SpotFacts DEF Content, Listed

\* The lists are lists of blocks.
LEMMA ListTypes ==
  ASSUME MemoryTypes
  PROVE  /\ \A k \in Keys : ListOf(k) \in Seq(Block)
         /\ \A c \in Classes : ListOf(<<NoThread, c>>) = queue[c]
         /\ \A t \in Threads, c \in Classes : ListOf(<<t, c>>) = first[t][c]
<1>1. NoThread \notin Threads
  BY UsersAssumption
<1>2. \A c \in Classes : ListOf(<<NoThread, c>>) = queue[c]
  BY DEF ListOf
<1>3. \A t \in Threads, c \in Classes : ListOf(<<t, c>>) = first[t][c]
  BY <1>1 DEF ListOf
<1>4. ASSUME NEW k \in Keys PROVE ListOf(k) \in Seq(Block)
  <2>1. PICK o \in Owners, c \in Classes : k = <<o, c>>
    BY DEF Keys
  <2> QED BY <1>2, <1>3, <2>1 DEF Owners, MemoryTypes
<1> QED BY <1>2, <1>3, <1>4

\* The list of a place after a step.
LEMMA ListAfter ==
  /\ \A c \in Classes : ListOf(<<NoThread, c>>)' = queue'[c]
  /\ \A t \in Threads, c \in Classes : ListOf(<<t, c>>)' = first'[t][c]
<1>1. NoThread \notin Threads
  BY UsersAssumption
<1> QED BY <1>1 DEF ListOf

\* A block is in its chunk.
LEMMA BlockShape ==
  ASSUME MemoryTypes, NEW id \in DOMAIN chunks, NEW b \in Blocks(id)
  PROVE  b[1] = id /\ b \in Block /\ (chunks[id].class = 0 => b = <<id, FirstAt>>)
<1> DEFINE c == chunks[id].class
<1>1. id \in Nat \ {0} /\ c \in Classes \cup {0}
  BY DEF MemoryTypes
<1>2. CASE c = 0
  <2>1. b = <<id, FirstAt>> /\ FirstAt \in Nat
    BY <1>2 DEF Blocks, FirstAt, Align, Ptr
  <2> QED BY <1>1, <2>1 DEF Block
<1>3. CASE c # 0
  <2>1. c \in Classes /\ RemainAt(c) \in Nat /\ Capacity(c) \in Nat
    BY <1>1, <1>3, ChunkFacts
  <2>2. b \in Range(Carve(id, c)) \/ b = <<id, RemainAt(c)>>
    BY <1>3 DEF Blocks
  <2> HIDE DEF c
  <2>3. CASE b = <<id, RemainAt(c)>>
    BY <1>1, <1>3, <2>1, <2>3 DEF Block, c
  <2>4. CASE b \in Range(Carve(id, c))
    <3>1. /\ Carve(id, c) \in Seq(Block) /\ Len(Carve(id, c)) = Capacity(c)
          /\ \A i \in 1..Capacity(c) : Carve(id, c)[i] = <<id, 8 + (i - 1) * c>>
      BY <1>1, <2>1, CarveType
    <3>2. PICK i \in DOMAIN Carve(id, c) : b = Carve(id, c)[i]
      BY <2>4 DEF Range
    <3>3. i \in 1..Capacity(c) /\ b \in Block
      BY <3>1, <3>2
    <3>4. b = <<id, 8 + (i - 1) * c>>
      BY <3>1, <3>2, <3>3
    <3> QED BY <1>3, <3>3, <3>4 DEF c
  <2> QED BY <2>2, <2>3, <2>4
<1> QED BY <1>2, <1>3

\* The chunk of a block is one malloc() has returned.
LEMMA BlockChunk ==
  ASSUME MemoryTypes, NEW b \in AllBlocks
  PROVE  b[1] \in DOMAIN chunks /\ b \in Blocks(b[1])
BY BlockShape DEF AllBlocks

\* Blocks of a chunk that is there before and after a step are as long as before.
LEMMA FitsKept ==
  ASSUME NEW b, chunks'[b[1]] = chunks[b[1]]
  PROVE  /\ Extent(b)' = Extent(b)
         /\ \A c : FitsList(b, c)' <=> FitsList(b, c)
         /\ \A n : FitsSize(b, n)' <=> FitsSize(b, n)
<1>1. Extent(b)' = Extent(b)
  BY DEF Extent
<1>2. \A c : FitsList(b, c)' <=> FitsList(b, c)
  BY <1>1 DEF FitsList
<1>3. \A n : FitsSize(b, n)' <=> FitsSize(b, n)
  BY <1>2 DEF FitsSize
<1> QED BY <1>1, <1>2, <1>3

\* The threads that cut chunks go on.
LEMMA CutsKept ==
  ASSUME "bound" \in options' <=> "bound" \in options, NEW s,
         at[s].pc = "remain" \/ at'[s].pc = "remain" => at'[s] = at[s]
  PROVE  Cut(s)' = Cut(s) /\ (at'[s].pc = "remain" => Class(s)' = Class(s))
<1>1. \A n : WithBound(n)' = WithBound(n)
  BY BoundKept
<1>2. at'[s] = at[s] => Class(s)' = Class(s)
  BY <1>1 DEF Class
<1>3. at'[s] = at[s] => Remaining(s)' = Remaining(s)
  BY <1>2 DEF Remaining
<1> QED BY <1>2, <1>3 DEF Cut

\* A step that moves no block.
LEMMA QuietStep ==
  ASSUME BlockInv, UNCHANGED <<chunks, queue, first, last, held>>,
         "bound" \in options' <=> "bound" \in options,
         \A s \in Threads : at[s].pc = "remain" \/ at'[s].pc = "remain" => at'[s] = at[s],
         \A s \in Threads : life[s] \in {"running", "closing"} /\ Cached(s) # {} =>
                              life'[s] \in {"running", "closing"}
  PROVE  BlockInv'
<1>1. ContentExact /\ ListsSound /\ ListedFit /\ HeldFit /\ CutFit /\ ChunksFit
  BY DEF BlockInv
<1>2. \A s \in Threads : Cut(s)' = Cut(s) /\ (at'[s].pc = "remain" => Class(s)' = Class(s))
  BY CutsKept
<1>3. \A k : ListOf(k)' = ListOf(k) /\ Listed(k)' = Listed(k)
  BY DEF ListOf, Listed
<1>4. ContentExact'
  <2>1. \A p \in Spots : Content'[p] = Content[p]
    BY <1>2, <1>3, SpotFacts, ContentAt, ContentAfter
  <2>2. Apart(Content')
    BY <1>1, <2>1, ContentAt, ContentAfter DEF ContentExact, Apart
  <2>3. All(Content') = All(Content)
    BY <2>1, ContentAt, ContentAfter DEF All
  <2>4. AllBlocks' = AllBlocks
    BY DEF AllBlocks, Blocks
  <2> QED BY <1>1, <2>2, <2>3, <2>4 DEF ContentExact, Apart, All
<1>5. ListsSound'
  BY <1>1, <1>3 DEF ListsSound, Cached
<1>6. ListedFit'
  BY <1>1, <1>3, FitsKept DEF ListedFit
<1>7. HeldFit'
  <2>1. \A n : WithBound(n)' = WithBound(n)
    BY BoundKept
  <2> QED BY <1>1, <2>1, FitsKept DEF HeldFit
<1>8. CutFit'
  <2> SUFFICES ASSUME NEW s \in Threads, at'[s].pc = "remain"
               PROVE  /\ at'[s].out[1] \in DOMAIN chunks /\ at'[s].out[2] = FirstAt
                      /\ chunks[at'[s].out[1]].class = Class(s)'
    BY DEF CutFit
  <2> QED BY <1>1, <1>2 DEF CutFit
<1>9. ChunksFit'
  BY <1>1 DEF ChunksFit
<1> QED BY <1>4, <1>5, <1>6, <1>7, <1>8, <1>9 DEF BlockInv

\* The end of a list stays where it is when its first block is taken.
LEMMA TailEnd ==
  ASSUME NEW S, NEW s \in Seq(S), s # <<>>, Tail(s) # <<>>
  PROVE  Tail(s)[Len(Tail(s))] = s[Len(s)]
<1>1. Len(s) \in Nat \ {0} /\ Len(Tail(s)) = Len(s) - 1 /\ Tail(s) \in Seq(S)
  OBVIOUS
<1>2. Len(Tail(s)) # 0
  BY <1>1, LenZero
<1> QED BY <1>1, <1>2

\* A call that returns cuts nothing.
LEMMA ReturnedPlace ==
  ASSUME NEW old
  PROVE  Returned(old).pc # "remain"
BY DEF Returned, Idle

\* The first block of a list comes into use.
LEMMA TakeStep ==
  ASSUME Inv, BlockInv, NEW t \in Threads, NEW k \in Keys, NEW n \in Nat \ {0}, NEW old,
         ListOf(k) # <<>>, Return(t, Head(ListOf(k)), n, old),
         k[2] = ClassOf(WithBound(n)), WithBound(n) <= 1024, at[t].pc # "remain",
         \A m \in Keys : ListOf(m)' = IF m = k THEN Tail(ListOf(k)) ELSE ListOf(m),
         UNCHANGED <<chunks, last, options, life>>
  PROVE  BlockInv'
<1> DEFINE L == ListOf(k)  h == Head(L)
<1>1. /\ ContentExact /\ ListsSound /\ ListedFit /\ HeldFit /\ CutFit /\ ChunksFit /\ MemoryTypes
      /\ ThreadTypes
  BY DEF BlockInv, Inv
<1>2. L \in Seq(Block) /\ IsInjective(L) /\ L # <<>>
  BY <1>1, ListTypes DEF ListsSound
<1> HIDE DEF L
<1>3. /\ h \in Block /\ Tail(L) \in Seq(Block) /\ Range(L) = Range(Tail(L)) \cup {h}
      /\ IsInjective(Tail(L)) /\ h \notin Range(Tail(L))
  BY <1>2, RangeTail, InjectiveTail
<1> HIDE DEF h
<1>4. DOMAIN held' = DOMAIN held \cup {h} /\ at' = [at EXCEPT ![t] = Returned(old)]
  BY <1>1, <1>3, ReturnHolds DEF h, L
<1>5. \A b \in DOMAIN held' : held'[b] = IF b = h THEN n ELSE held[b]
  <2>1. held' = [y \in DOMAIN held \cup {h} |-> IF y = h THEN n ELSE held[y]]
    BY DEF Return, With, h, L
  <2> QED BY <2>1
<1>6. \A s \in Threads : at[s].pc = "remain" \/ at'[s].pc = "remain" => at'[s] = at[s]
  <2> SUFFICES ASSUME NEW s \in Threads, at[s].pc = "remain" \/ at'[s].pc = "remain"
               PROVE  at'[s] = at[s]
    OBVIOUS
  <2>1. at'[t] = Returned(old) /\ (s # t => at'[s] = at[s])
    BY <1>1, <1>4 DEF ThreadTypes
  <2> QED BY <2>1, ReturnedPlace
<1>7. \A s \in Threads : Cut(s)' = Cut(s) /\ (at'[s].pc = "remain" => Class(s)' = Class(s))
  BY <1>6, CutsKept
<1>8. ContentExact'
  <2> DEFINE f == Content  g == Content'  X == {h}
  <2>1. /\ DOMAIN f = Spots /\ DOMAIN g = Spots /\ Apart(f) /\ k \in Spots /\ InUse \in Spots /\ k # InUse
    BY <1>1, ContentAt, ContentAfter, SpotFacts DEF ContentExact
  <2>2. f[k] = Range(L) /\ g[k] = Range(Tail(L)) /\ f[InUse] = DOMAIN held /\ g[InUse] = DOMAIN held'
    BY ContentAt, ContentAfter DEF L
  <2>3. \A p \in Spots : p # k /\ p # InUse => g[p] = f[p]
    BY <1>7, SpotFacts, ContentAt, ContentAfter
  <2>4. X \subseteq f[k] /\ g[k] = f[k] \ X /\ g[InUse] = f[InUse] \cup X
    BY <1>3, <1>4, <2>2
  <2> HIDE DEF f, g, X
  <2>5. Moved(f, g, k, InUse, X)
    BY <2>1, <2>3, <2>4 DEF Moved
  <2>6. Apart(g) /\ All(g) = All(f)
    BY <2>1, <2>5, MoveApart
  <2>7. AllBlocks' = AllBlocks
    BY DEF AllBlocks, Blocks
  <2> QED BY <1>1, <2>6, <2>7 DEF ContentExact, Apart, All, f, g
<1>9. ListsSound'
  <2>1. ASSUME NEW m \in Keys PROVE IsInjective(ListOf(m)')
    <3>1. ListOf(m)' = IF m = k THEN Tail(L) ELSE ListOf(m)
      BY DEF L
    <3> QED BY <1>1, <1>3, <3>1 DEF ListsSound
  <2>2. ASSUME NEW s \in Threads, NEW c \in Classes, first'[s][c] # <<>>
        PROVE  last[s][c] = first'[s][c][Len(first'[s][c])] /\ life[s] \in {"running", "closing"}
    <3>1. <<s, c>> \in Keys /\ first'[s][c] = ListOf(<<s, c>>)' /\ first[s][c] = ListOf(<<s, c>>)
      BY <1>1, ListAfter, ListTypes, SpotFacts DEF Owners
    <3>2. CASE <<s, c>> = k
      <4>1. first'[s][c] = Tail(L) /\ first[s][c] = L
        BY <3>1, <3>2 DEF L
      <4>2. Tail(L)[Len(Tail(L))] = L[Len(L)]
        BY <1>2, <2>2, <4>1, TailEnd
      <4> QED BY <1>1, <1>2, <4>1, <4>2 DEF ListsSound
    <3>3. CASE <<s, c>> # k
      <4>1. first'[s][c] = first[s][c]
        BY <3>1, <3>3
      <4> QED BY <1>1, <2>2, <4>1 DEF ListsSound
    <3> QED BY <3>2, <3>3
  <2>3. life' = life /\ last' = last
    OBVIOUS
  <2> QED BY <2>1, <2>2, <2>3 DEF ListsSound
<1>10. ListedFit'
  <2> SUFFICES ASSUME NEW m \in Keys, NEW b \in Range(ListOf(m)') PROVE FitsList(b, m[2])'
    BY DEF ListedFit, Listed
  <2>1. b \in Listed(m)
    BY <1>3 DEF Listed, L
  <2>2. FitsList(b, m[2])
    BY <1>1, <2>1 DEF ListedFit
  <2> QED BY <2>2, FitsKept
<1>11. HeldFit'
  <2>1. \A i : WithBound(i)' = WithBound(i)
    BY BoundKept
  <2> SUFFICES ASSUME NEW b \in DOMAIN held' PROVE FitsSize(b, WithBound(held[b]))'
    BY DEF HeldFit
  <2>2. CASE b = h
    <3>1. FitsList(h, k[2])
      BY <1>1, <1>3 DEF ListedFit, Listed, L
    <3>2. held'[b] = n
      BY <1>5, <2>2
    <3>3. WithBound(n) \in Nat
      BY Bounded
    <3>4. FitsSize(b, WithBound(n))
      BY <2>2, <3>1, <3>3 DEF FitsSize
    <3> QED BY <2>1, <3>2, <3>4, FitsKept
  <2>3. CASE b # h
    <3>1. b \in DOMAIN held /\ held'[b] = held[b]
      BY <1>4, <1>5, <2>3
    <3>2. FitsSize(b, WithBound(held[b]))
      BY <1>1, <3>1 DEF HeldFit
    <3> QED BY <2>1, <3>1, <3>2, FitsKept
  <2> QED BY <2>2, <2>3
<1>12. CutFit'
  <2> SUFFICES ASSUME NEW s \in Threads, at'[s].pc = "remain"
               PROVE  /\ at'[s].out[1] \in DOMAIN chunks /\ at'[s].out[2] = FirstAt
                      /\ chunks[at'[s].out[1]].class = Class(s)'
    BY DEF CutFit
  <2> QED BY <1>1, <1>6, <1>7 DEF CutFit
<1>13. ChunksFit'
  BY <1>1 DEF ChunksFit
<1> QED BY <1>8, <1>9, <1>10, <1>11, <1>12, <1>13 DEF BlockInv

\* Threads that are there stay, and those that cut chunks go on.
Undisturbed ==
  /\ options' = options
  /\ \A s \in Threads : at[s].pc = "remain" \/ at'[s].pc = "remain" => at'[s] = at[s]
  /\ \A s \in Threads : life[s] \in {"running", "closing"} => life'[s] \in {"running", "closing"}

\* A block in use goes to the front of a list.
LEMMA PutStep ==
  ASSUME Inv, BlockInv, Undisturbed, NEW b \in DOMAIN held, NEW k \in Keys,
         WithBound(held[b]) <= 1024, k[2] = ClassOf(WithBound(held[b])),
         held' = Without(held, b), chunks' = chunks,
         \A m \in Keys : ListOf(m)' = IF m = k THEN <<b>> \o ListOf(k) ELSE ListOf(m),
         \A s \in Threads, c \in Classes :
           /\ last'[s][c] = IF <<s, c>> = k /\ first[s][c] = <<>> THEN b ELSE last[s][c]
           /\ <<s, c>> = k => life'[s] \in {"running", "closing"}
  PROVE  BlockInv'
<1> DEFINE L == ListOf(k)
<1>1. /\ ContentExact /\ ListsSound /\ ListedFit /\ HeldFit /\ CutFit /\ ChunksFit /\ MemoryTypes
      /\ ThreadTypes
  BY DEF BlockInv, Inv
<1>2. L \in Seq(Block) /\ IsInjective(L) /\ b \in Block
  BY <1>1, ListTypes DEF ListsSound, MemoryTypes
<1> DEFINE N == <<b>> \o L
<1> HIDE DEF L
<1>3. /\ N \in Seq(Block) /\ N # <<>> /\ Len(N) = Len(L) + 1 /\ N[1] = b
      /\ (\A i \in 1..Len(L) : N[i + 1] = L[i]) /\ Range(N) = Range(L) \cup {b}
  BY <1>2, PushFront
<1>4. k \in Spots /\ InUse \in Spots /\ k # InUse /\ DOMAIN Content = Spots /\ Apart(Content)
  BY <1>1, SpotFacts, ContentAt DEF ContentExact
<1>5. b \notin Range(L)
  <2>1. Content[k] = Range(L) /\ Content[InUse] = DOMAIN held
    BY ContentAt DEF L
  <2>2. Content[k] \cap Content[InUse] = {}
    BY <1>4 DEF Apart
  <2> QED BY <2>1, <2>2
<1>6. IsInjective(N)
  BY <1>2, <1>5, InjectivePush
<1> HIDE DEF N
<1>7. DOMAIN held' = DOMAIN held \ {b} /\ \A x \in DOMAIN held' : held'[x] = held[x]
  BY DEF Without
<1>8. \A s \in Threads : Cut(s)' = Cut(s) /\ (at'[s].pc = "remain" => Class(s)' = Class(s))
  BY CutsKept DEF Undisturbed
<1>9. ContentExact'
  <2> DEFINE f == Content  g == Content'  X == {b}
  <2>1. DOMAIN g = Spots
    BY ContentAfter
  <2>2. f[k] = Range(L) /\ g[k] = Range(N) /\ f[InUse] = DOMAIN held /\ g[InUse] = DOMAIN held'
    BY ContentAt, ContentAfter DEF L, N
  <2>3. \A p \in Spots : p # k /\ p # InUse => g[p] = f[p]
    BY <1>8, SpotFacts, ContentAt, ContentAfter
  <2>4. X \subseteq f[InUse] /\ g[k] = f[k] \cup X /\ g[InUse] = f[InUse] \ X
    BY <1>3, <1>7, <2>2
  <2>5. DOMAIN f = Spots /\ Apart(f)
    BY <1>4
  <2> HIDE DEF f, g, X
  <2>6. Moved(f, g, InUse, k, X)
    BY <1>4, <2>1, <2>3, <2>4, <2>5 DEF Moved
  <2>7. Apart(g) /\ All(g) = All(f)
    BY <2>5, <2>6, MoveApart
  <2>8. AllBlocks' = AllBlocks
    BY DEF AllBlocks, Blocks
  <2> QED BY <1>1, <2>7, <2>8 DEF ContentExact, Apart, All, f, g
<1>10. ListsSound'
  <2>1. ASSUME NEW m \in Keys PROVE IsInjective(ListOf(m)')
    <3>1. ListOf(m)' = IF m = k THEN N ELSE ListOf(m)
      BY DEF L, N
    <3> QED BY <1>1, <1>6, <3>1 DEF ListsSound
  <2>2. ASSUME NEW s \in Threads, NEW c \in Classes, first'[s][c] # <<>>
        PROVE  last'[s][c] = first'[s][c][Len(first'[s][c])] /\ life'[s] \in {"running", "closing"}
    <3>1. <<s, c>> \in Keys /\ first'[s][c] = ListOf(<<s, c>>)' /\ first[s][c] = ListOf(<<s, c>>)
      BY <1>1, ListAfter, ListTypes, SpotFacts DEF Owners
    <3>2. CASE <<s, c>> = k
      <4>1. first'[s][c] = N /\ first[s][c] = L
        BY <3>1, <3>2 DEF L, N
      <4>2. life'[s] \in {"running", "closing"} /\ last'[s][c] = IF L = <<>> THEN b ELSE last[s][c]
        BY <3>2, <4>1
      <4>3. CASE L = <<>>
        <5>1. Len(L) = 0
          BY <4>3
        <5>2. Len(N) = 1
          BY <1>3, <5>1
        <5>3. last'[s][c] = b
          BY <4>2, <4>3
        <5> QED BY <1>3, <4>1, <4>2, <5>2, <5>3
      <4>4. CASE L # <<>>
        <5>1. Len(L) \in Nat /\ Len(L) # 0
          BY <1>2, <4>4, LenZero
        <5>2. N[Len(L) + 1] = L[Len(L)]
          <6>1. Len(L) \in 1..Len(L)
            BY <5>1
          <6>2. \A i \in 1..Len(L) : N[i + 1] = L[i]
            BY <1>3
          <6> QED BY <6>1, <6>2
        <5>3. last[s][c] = L[Len(L)]
          BY <1>1, <4>1, <4>4 DEF ListsSound
        <5> QED BY <1>3, <4>1, <4>2, <4>4, <5>2, <5>3
      <4> QED BY <4>3, <4>4
    <3>3. CASE <<s, c>> # k
      <4>1. first'[s][c] = first[s][c] /\ last'[s][c] = last[s][c]
        BY <3>1, <3>3
      <4> QED BY <1>1, <2>2, <4>1 DEF ListsSound, Undisturbed
    <3> QED BY <3>2, <3>3
  <2> QED BY <2>1, <2>2 DEF ListsSound
<1>11. \A i : WithBound(i)' = WithBound(i)
  BY BoundKept DEF Undisturbed
<1>12. ListedFit'
  <2> SUFFICES ASSUME NEW m \in Keys, NEW x \in Range(ListOf(m)') PROVE FitsList(x, m[2])'
    BY DEF ListedFit, Listed
  <2>1. CASE x \in Listed(m)
    <3>1. FitsList(x, m[2])
      BY <1>1, <2>1 DEF ListedFit
    <3> QED BY <3>1, FitsKept
  <2>2. CASE x \notin Listed(m)
    <3>1. m = k /\ x = b
      <4>1. ListOf(m)' = IF m = k THEN N ELSE ListOf(m)
        BY DEF L, N
      <4>2. Listed(k) = Range(L) /\ Listed(m) = Range(ListOf(m))
        BY DEF Listed, L
      <4>3. Range(N) = Range(L) \cup {b}
        BY <1>3
      <4> QED BY <2>2, <4>1, <4>2, <4>3
    <3>2. FitsSize(b, WithBound(held[b])) /\ WithBound(held[b]) \in Nat
      BY <1>1, Bounded DEF HeldFit, MemoryTypes
    <3>3. FitsList(x, m[2])
      BY <3>1, <3>2 DEF FitsSize
    <3> QED BY <3>3, FitsKept
  <2> QED BY <2>1, <2>2
<1>13. HeldFit'
  <2> SUFFICES ASSUME NEW x \in DOMAIN held' PROVE FitsSize(x, WithBound(held[x]))'
    BY DEF HeldFit
  <2>1. x \in DOMAIN held /\ held'[x] = held[x]
    BY <1>7
  <2>2. FitsSize(x, WithBound(held[x]))
    BY <1>1, <2>1 DEF HeldFit
  <2> QED BY <1>11, <2>1, <2>2, FitsKept
<1>14. CutFit'
  <2> SUFFICES ASSUME NEW s \in Threads, at'[s].pc = "remain"
               PROVE  /\ at'[s].out[1] \in DOMAIN chunks /\ at'[s].out[2] = FirstAt
                      /\ chunks[at'[s].out[1]].class = Class(s)'
    BY DEF CutFit
  <2> QED BY <1>1, <1>8 DEF CutFit, Undisturbed
<1>15. ChunksFit'
  BY <1>1 DEF ChunksFit
<1> QED BY <1>9, <1>10, <1>12, <1>13, <1>14, <1>15 DEF BlockInv

\* A large block goes back to malloc() with its chunk.
LEMMA DropStep ==
  ASSUME Inv, BlockInv, Undisturbed, NEW b \in DOMAIN held, WithBound(held[b]) > 1024,
         held' = Without(held, b), chunks' = Without(chunks, b[1]), UNCHANGED <<queue, first, last>>
  PROVE  BlockInv'
<1>1. /\ ContentExact /\ ListsSound /\ ListedFit /\ HeldFit /\ CutFit /\ ChunksFit /\ MemoryTypes
      /\ ThreadTypes
  BY DEF BlockInv, Inv
<1>2. InUse \in Spots /\ DOMAIN Content = Spots /\ Apart(Content) /\ Content[InUse] = DOMAIN held
  BY <1>1, SpotFacts, ContentAt DEF ContentExact
<1>3. \A p \in Spots : \A x \in Content[p] : x \in AllBlocks
  BY <1>1, <1>2 DEF ContentExact, All
<1>4. /\ b[1] \in DOMAIN chunks /\ chunks[b[1]].class = 0
      /\ \A x \in AllBlocks : x[1] = b[1] => x = b
  <2>1. b \in AllBlocks
    BY <1>2, <1>3
  <2>2. b[1] \in DOMAIN chunks /\ b \in Blocks(b[1])
    BY <1>1, <2>1, BlockChunk
  <2>3. chunks[b[1]].class = 0
    <3>1. FitsSize(b, WithBound(held[b]))
      BY <1>1 DEF HeldFit
    <3> QED BY <3>1 DEF FitsSize
  <2>4. b = <<b[1], FirstAt>>
    BY <1>1, <2>2, <2>3, BlockShape
  <2>5. ASSUME NEW x \in AllBlocks, x[1] = b[1] PROVE x = b
    <3>1. x \in Blocks(b[1])
      BY <1>1, <2>5, BlockChunk
    <3>2. x = <<b[1], FirstAt>>
      BY <1>1, <2>2, <2>3, <3>1, BlockShape
    <3> QED BY <2>4, <3>2
  <2> QED BY <2>2, <2>3, <2>5
<1>5. DOMAIN held' = DOMAIN held \ {b} /\ \A x \in DOMAIN held' : held'[x] = held[x]
  BY DEF Without
<1>6. DOMAIN chunks' = DOMAIN chunks \ {b[1]} /\ \A id \in DOMAIN chunks' : chunks'[id] = chunks[id]
  BY DEF Without
<1>7. \A x \in AllBlocks : x # b => x[1] \in DOMAIN chunks' /\ chunks'[x[1]] = chunks[x[1]]
  BY <1>1, <1>4, <1>6, BlockChunk
<1>8. \A s \in Threads : Cut(s)' = Cut(s) /\ (at'[s].pc = "remain" => Class(s)' = Class(s))
  BY CutsKept DEF Undisturbed
<1>9. \A k : ListOf(k)' = ListOf(k)
  BY DEF ListOf
<1>10. AllBlocks' = AllBlocks \ {b}
  <2>1. \A id \in DOMAIN chunks' : Blocks(id)' = Blocks(id)
    BY <1>6 DEF Blocks
  <2>2. ASSUME NEW x \in AllBlocks' PROVE x \in AllBlocks \ {b}
    <3>1. PICK id \in DOMAIN chunks' : x \in Blocks(id)
      BY <2>1, <2>2 DEF AllBlocks
    <3>2. id \in DOMAIN chunks /\ id # b[1]
      BY <1>6
    <3>3. x[1] = id
      BY <1>1, <3>1, <3>2, BlockShape
    <3> QED BY <3>1, <3>2, <3>3 DEF AllBlocks
  <2>3. ASSUME NEW x \in AllBlocks, x # b PROVE x \in AllBlocks'
    <3>1. x[1] \in DOMAIN chunks' /\ x \in Blocks(x[1])
      BY <1>1, <1>7, <2>3, BlockChunk
    <3> QED BY <2>1, <3>1 DEF AllBlocks
  <2> QED BY <2>2, <2>3
<1>11. ContentExact'
  <2> DEFINE f == Content  g == Content'  X == {b}
  <2>1. DOMAIN g = Spots
    BY ContentAfter
  <2>2. f[InUse] = DOMAIN held /\ g[InUse] = DOMAIN held'
    BY ContentAt, ContentAfter
  <2>3. \A p \in Spots : p # InUse => g[p] = f[p]
    BY <1>8, <1>9, SpotFacts, ContentAt, ContentAfter
  <2>4. X \subseteq f[InUse] /\ g[InUse] = f[InUse] \ X
    BY <1>5, <2>2
  <2>5. DOMAIN f = Spots /\ Apart(f) /\ All(f) = AllBlocks
    BY <1>1, <1>2 DEF ContentExact
  <2>6. AllBlocks' = AllBlocks \ X
    BY <1>10
  <2> HIDE DEF f, g, X
  <2>7. Dropped(f, g, InUse, X)
    BY <1>2, <2>1, <2>3, <2>4, <2>5 DEF Dropped
  <2>8. Apart(g) /\ All(g) = All(f) \ X
    BY <2>5, <2>7, DropApart
  <2> QED BY <2>5, <2>6, <2>8 DEF ContentExact, Apart, All, f, g
<1>12. ListsSound'
  BY <1>1, <1>9 DEF ListsSound, Undisturbed
<1>13. ListedFit'
  <2> SUFFICES ASSUME NEW m \in Keys, NEW x \in Range(ListOf(m)) PROVE FitsList(x, m[2])'
    BY <1>9 DEF ListedFit, Listed
  <2>1. FitsList(x, m[2]) /\ x \in AllBlocks
    BY <1>1, <1>3, ContentAt, SpotFacts DEF ListedFit, Listed
  <2>2. x # b
    BY <1>4, <2>1 DEF FitsList
  <2> QED BY <1>7, <2>1, <2>2, FitsKept
<1>14. HeldFit'
  <2>0. \A i : WithBound(i)' = WithBound(i)
    BY BoundKept DEF Undisturbed
  <2> SUFFICES ASSUME NEW x \in DOMAIN held' PROVE FitsSize(x, WithBound(held[x]))'
    BY DEF HeldFit
  <2>1. x \in DOMAIN held /\ held'[x] = held[x] /\ x # b /\ x \in AllBlocks
    BY <1>2, <1>3, <1>5
  <2>2. FitsSize(x, WithBound(held[x]))
    BY <1>1, <2>1 DEF HeldFit
  <2> QED BY <1>7, <2>0, <2>1, <2>2, FitsKept
<1>15. CutFit'
  <2> SUFFICES ASSUME NEW s \in Threads, at'[s].pc = "remain"
               PROVE  /\ at'[s].out[1] \in DOMAIN chunks' /\ at'[s].out[2] = FirstAt
                      /\ chunks'[at'[s].out[1]].class = Class(s)'
    BY DEF CutFit
  <2>1. at'[s] = at[s] /\ Class(s)' = Class(s) /\ at[s].pc = "remain"
    BY <1>8 DEF Undisturbed
  <2>2. at[s].out[1] \in DOMAIN chunks /\ at[s].out[2] = FirstAt /\ chunks[at[s].out[1]].class = Class(s)
    BY <1>1, <2>1 DEF CutFit
  <2>3. Class(s) # 0
    BY <2>1, CallClass, ClassList DEF Allocating
  <2> QED BY <1>4, <1>6, <2>1, <2>2, <2>3
<1>16. ChunksFit'
  BY <1>1, <1>6 DEF ChunksFit
<1> QED BY <1>11, <1>12, <1>13, <1>14, <1>15, <1>16 DEF BlockInv

\* A block is freed.
LEMMA FreesBlocks ==
  ASSUME Inv, BlockInv, Undisturbed, NEW t \in Threads, NEW b \in DOMAIN held, Frees(t, b),
         life'[t] \in {"running", "closing"}
  PROVE  BlockInv'
<1> DEFINE z == WithBound(held[b])  c == ClassOf(z)
<1>1. MemoryTypes /\ held[b] \in Nat
  BY DEF Inv, MemoryTypes
<1>2. held' = Without(held, b)
  BY DEF Frees
<1>3. z \in Nat \ {0}
  BY <1>1, Bounded
<1>4. CASE z > 1024
  <2>1. chunks' = Without(chunks, b[1]) /\ UNCHANGED <<queue, first, last>>
    BY <1>4 DEF Frees
  <2> QED BY <1>2, <1>4, <2>1, DropStep
<1>5. CASE ~(z > 1024)
  <2>1. z <= 1024 /\ c \in Classes
    BY <1>1, <1>3, <1>5, SizeClass
  <2>2. \A m \in Keys : (m[1] = NoThread /\ ListOf(m) = queue[m[2]] /\ ListOf(m)' = queue'[m[2]])
                        \/ (m[1] \in Threads /\ ListOf(m) = first[m[1]][m[2]] /\ ListOf(m)' = first'[m[1]][m[2]])
    BY SpotFacts, UsersAssumption DEF ListOf, Owners
  <2>3. NoThread \notin Threads /\ \A m \in Keys : m[2] \in Classes /\ m = <<m[1], m[2]>>
    BY SpotFacts, UsersAssumption
  <2>4. CASE "thread" \in options
    <3> DEFINE k == <<t, c>>
    <3>1. /\ first' = [first EXCEPT ![t][c] = <<b>> \o @] /\ queue' = queue /\ chunks' = chunks
          /\ last' = [last EXCEPT ![t][c] = LastAfter(t, c, b)]
      BY <1>5, <2>4 DEF Frees
    <3>2. k \in Keys /\ k[1] = t /\ k[2] = c /\ ListOf(k) = first[t][c]
      BY <1>1, <2>1, SpotFacts, ListTypes DEF Owners
    <3> HIDE DEF c, z
    <3>3. \A s \in Threads, d \in Classes :
            first'[s][d] = IF s = t /\ d = c THEN <<b>> \o first[t][c] ELSE first[s][d]
      BY <1>1, <2>1, <3>1 DEF MemoryTypes
    <3>4. \A s \in Threads, d \in Classes :
            last'[s][d] = IF s = t /\ d = c THEN LastAfter(t, c, b) ELSE last[s][d]
      BY <1>1, <2>1, <3>1 DEF MemoryTypes
    <3>5. \A m \in Keys : ListOf(m)' = IF m = k THEN <<b>> \o ListOf(k) ELSE ListOf(m)
      <4> SUFFICES ASSUME NEW m \in Keys
                   PROVE  ListOf(m)' = IF m = k THEN <<b>> \o ListOf(k) ELSE ListOf(m)
        OBVIOUS
      <4>1. CASE m[1] = NoThread
        <5>1. m # k
          BY <2>3, <3>2, <4>1
        <5> QED BY <2>2, <2>3, <3>1, <4>1, <5>1
      <4>2. CASE m[1] # NoThread
        <5>1. m[1] \in Threads /\ m[2] \in Classes /\ (m = k <=> m[1] = t /\ m[2] = c)
          BY <2>2, <2>3, <3>2, <4>2
        <5>2. ListOf(m) = first[m[1]][m[2]] /\ ListOf(m)' = first'[m[1]][m[2]]
          BY <2>2, <4>2
        <5> QED BY <3>2, <3>3, <5>1, <5>2
      <4> QED BY <4>1, <4>2
    <3>6. \A s \in Threads, d \in Classes :
            /\ last'[s][d] = IF <<s, d>> = k /\ first[s][d] = <<>> THEN b ELSE last[s][d]
            /\ <<s, d>> = k => life'[s] \in {"running", "closing"}
      BY <3>4 DEF LastAfter
    <3> HIDE DEF k
    <3> QED BY <1>2, <2>1, <3>1, <3>2, <3>5, <3>6, PutStep DEF c, z
  <2>5. CASE "thread" \notin options
    <3> DEFINE k == <<NoThread, c>>
    <3>1. queue' = [queue EXCEPT ![c] = <<b>> \o @] /\ UNCHANGED <<chunks, first, last>>
      BY <1>5, <2>5 DEF Frees
    <3>2. k \in Keys /\ k[1] = NoThread /\ k[2] = c /\ ListOf(k) = queue[c]
      BY <1>1, <2>1, SpotFacts, ListTypes DEF Owners
    <3> HIDE DEF c, z
    <3>3. \A d \in Classes : queue'[d] = IF d = c THEN <<b>> \o queue[c] ELSE queue[d]
      BY <1>1, <2>1, <3>1 DEF MemoryTypes
    <3>5. \A m \in Keys : ListOf(m)' = IF m = k THEN <<b>> \o ListOf(k) ELSE ListOf(m)
      BY <2>2, <2>3, <3>1, <3>2, <3>3
    <3>6. \A s \in Threads, d \in Classes :
            /\ last'[s][d] = IF <<s, d>> = k /\ first[s][d] = <<>> THEN b ELSE last[s][d]
            /\ <<s, d>> = k => life'[s] \in {"running", "closing"}
      BY <2>3, <3>1
    <3> HIDE DEF k
    <3> QED BY <1>2, <2>1, <3>1, <3>2, <3>5, <3>6, PutStep DEF c, z
  <2> QED BY <2>4, <2>5
<1> QED BY <1>4, <1>5

-----------------------------------------------------------------------------
(* New chunks.                                                              *)

\* The blocks of a chunk: those it is cut into, once each, and the rest, which is
\* none of them.
NewBlocks(id, c) ==
  IF c = 0 THEN {<<id, FirstAt>>}
  ELSE Range(Carve(id, c)) \cup (IF RemainSize(c) = 0 THEN {} ELSE {<<id, RemainAt(c)>>})

\* A chunk is cut into different blocks, and none of them is what remains.
LEMMA CarvePlaces ==
  ASSUME NEW id \in Nat \ {0}, NEW c \in Classes
  PROVE  /\ IsInjective(Carve(id, c)) /\ Head(Carve(id, c)) \in Range(Carve(id, c))
         /\ \A x \in Range(Carve(id, c)) : x[1] = id /\ x[2] # RemainAt(c)
<1> DEFINE s == Carve(id, c)  n == Capacity(c)
<1>1. /\ s \in Seq(Block) /\ s # <<>> /\ Len(s) = n
      /\ \A i \in 1..n : s[i] = <<id, 8 + (i - 1) * c>>
  BY CarveType
<1>2. c \in Nat \ {0} /\ n \in Nat \ {0} /\ RemainAt(c) = 8 + n * c
  BY ChunkFacts
<1> HIDE DEF s, n
<1>3. DOMAIN s = 1..n /\ Head(s) = s[1] /\ 1 \in 1..n
  BY <1>1, <1>2
<1>4. \A x, y, z \in Nat : z # 0 /\ 8 + x * z = 8 + y * z => x = y
  <2> SUFFICES ASSUME NEW x \in Nat, NEW y \in Nat, NEW z \in Nat, z # 0, x < y PROVE x * z < y * z
    OBVIOUS
  <2>1. PICK w \in Nat \ {0} : y = x + w
    <3>1. y - x \in Nat \ {0} /\ y = x + (y - x)
      OBVIOUS
    <3> QED BY <3>1
  <2>2. y * z = x * z + w * z
    BY <2>1
  <2>3. w * z \in Nat \ {0}
    <3>1. \A u, v \in Nat \ {0} : u * v \in Nat \ {0}
      OBVIOUS
    <3> QED BY <2>1, <3>1
  <2>4. x * z \in Nat
    OBVIOUS
  <2> QED BY <2>2, <2>3, <2>4
<1>5. IsInjective(s)
  <2> SUFFICES ASSUME NEW i \in 1..n, NEW j \in 1..n, s[i] = s[j] PROVE i = j
    BY <1>3 DEF IsInjective
  <2>1. 8 + (i - 1) * c = 8 + (j - 1) * c
    BY <1>1
  <2>2. i - 1 \in Nat /\ j - 1 \in Nat
    BY <1>2
  <2>3. i - 1 = j - 1
    BY <1>2, <1>4, <2>1, <2>2
  <2> QED BY <1>2, <2>3
<1>6. ASSUME NEW x \in Range(s) PROVE x[1] = id /\ x[2] # RemainAt(c)
  <2>1. PICK i \in 1..n : x = <<id, 8 + (i - 1) * c>>
    BY <1>1, <1>3, <1>6 DEF Range
  <2>2. i - 1 \in Nat /\ i - 1 # n
    BY <1>2
  <2>3. 8 + (i - 1) * c # 8 + n * c
    BY <1>2, <1>4, <2>2
  <2> QED BY <1>2, <2>1, <2>3
<1>7. Head(s) \in Range(s)
  BY <1>3 DEF Range
<1> QED BY <1>5, <1>6, <1>7 DEF s

\* A new chunk has new blocks, and the others have theirs.
LEMMA ChunkBlocks ==
  ASSUME MemoryTypes, NEW id, id = NewChunk, NEW z \in Nat, NEW c \in Classes \cup {0},
         chunks' = With(chunks, id, [len |-> z, class |-> c])
  PROVE  /\ id \in Nat \ {0} /\ DOMAIN chunks' = DOMAIN chunks \cup {id}
         /\ chunks'[id].len = z /\ chunks'[id].class = c
         /\ \A i \in DOMAIN chunks : i # id /\ chunks'[i] = chunks[i]
         /\ \A x \in AllBlocks : x[1] \in DOMAIN chunks /\ chunks'[x[1]] = chunks[x[1]]
         /\ AllBlocks' = AllBlocks \cup NewBlocks(id, c)
         /\ AllBlocks \cap NewBlocks(id, c) = {}
         /\ \A x \in NewBlocks(id, c) : x[1] = id
<1>1. id \in Nat \ {0} /\ id \notin DOMAIN chunks
  BY NewChunkNew
<1>2. /\ DOMAIN chunks' = DOMAIN chunks \cup {id} /\ chunks'[id] = [len |-> z, class |-> c]
      /\ \A i \in DOMAIN chunks : chunks'[i] = chunks[i]
  BY ChunkAdded
<1>3. Blocks(id)' = NewBlocks(id, c)
  BY <1>2 DEF Blocks, NewBlocks
<1>4. \A i \in DOMAIN chunks : Blocks(i)' = Blocks(i)
  BY <1>2 DEF Blocks
<1>5. ASSUME NEW x \in NewBlocks(id, c) PROVE x[1] = id
  <2>1. CASE c = 0
    BY <2>1, <1>5 DEF NewBlocks
  <2>2. CASE c # 0
    BY <1>1, <1>5, <2>2, CarvePlaces DEF NewBlocks
  <2> QED BY <2>1, <2>2
<1>6. \A x \in AllBlocks : x[1] \in DOMAIN chunks
  BY BlockChunk
<1>7. AllBlocks' = AllBlocks \cup NewBlocks(id, c)
  <2>1. ASSUME NEW x PROVE x \in AllBlocks' <=> x \in AllBlocks \/ x \in NewBlocks(id, c)
    <3>1. x \in AllBlocks' <=> \E i \in DOMAIN chunks' : x \in Blocks(i)'
      BY DEF AllBlocks
    <3>2. x \in AllBlocks <=> \E i \in DOMAIN chunks : x \in Blocks(i)
      BY DEF AllBlocks
    <3> QED BY <1>2, <1>3, <1>4, <3>1, <3>2
  <2> QED BY <2>1
<1> QED BY <1>1, <1>2, <1>5, <1>6, <1>7

\* What a step that takes a chunk from malloc() does with its blocks: Q go to a list,
\* H come into use, C stay with thread t, which cuts it.
Grown(t, id, c, k, Q, H, C) ==
  /\ options' = options /\ life' = life
  /\ NewBlocks(id, c) = Q \cup H \cup C /\ Q \cap H = {} /\ Q \cap C = {} /\ H \cap C = {}
  /\ \A m \in Keys : Listed(m)' = IF m = k THEN Listed(k) \cup Q ELSE Listed(m)
  /\ DOMAIN held' = DOMAIN held \cup H /\ \A b \in DOMAIN held : held'[b] = held[b]
  /\ at[t].pc # "remain" /\ Cut(t)' = C
  /\ \A s \in Threads \ {t} : at'[s] = at[s]

\* Such a step keeps the invariant of the blocks, if the new ones fit.
LEMMA GrownStep ==
  ASSUME Inv, BlockInv, NEW t \in Threads, NEW id, id = NewChunk,
         NEW z \in Nat, NEW c \in Classes \cup {0}, c # 0 => z = ChunkSize(c),
         chunks' = With(chunks, id, [len |-> z, class |-> c]),
         NEW k \in Keys, NEW Q, NEW H, NEW C, Grown(t, id, c, k, Q, H, C), ListsSound',
         \A b \in Q : FitsList(b, k[2])', \A b \in H : FitsSize(b, WithBound(held[b]))',
         at'[t].pc = "remain" =>
           at'[t].out[1] = id /\ at'[t].out[2] = FirstAt /\ Class(t)' = c
  PROVE  BlockInv'
<1>1. /\ ContentExact /\ ListsSound /\ ListedFit /\ HeldFit /\ CutFit /\ ChunksFit /\ MemoryTypes
  BY DEF BlockInv, Inv
<1>2. /\ DOMAIN chunks' = DOMAIN chunks \cup {id} /\ chunks'[id].len = z /\ chunks'[id].class = c
      /\ \A i \in DOMAIN chunks : i # id /\ chunks'[i] = chunks[i]
  BY <1>1, ChunkBlocks
<1>3. \A x \in AllBlocks : chunks'[x[1]] = chunks[x[1]]
  BY <1>1, ChunkBlocks
<1>4. AllBlocks' = AllBlocks \cup NewBlocks(id, c) /\ AllBlocks \cap NewBlocks(id, c) = {}
  BY <1>1, ChunkBlocks
<1>5. \A s \in Threads \ {t} : Cut(s)' = Cut(s) /\ (at'[s].pc = "remain" => Class(s)' = Class(s))
  BY CutsKept DEF Grown
<1>6. \A p \in Spots : \A x \in Content[p] : x \in AllBlocks
  BY <1>1, ContentAt DEF ContentExact, All
<1>7. ContentExact'
  <2> DEFINE f == Content  g == Content'
             e == [p \in Spots |-> IF p = k THEN Q ELSE IF p = InUse THEN H ELSE IF p = <<t, 0>> THEN C ELSE {}]
  <2>1. DOMAIN f = Spots /\ DOMAIN g = Spots /\ Apart(f) /\ All(f) = AllBlocks
    BY <1>1, ContentAt, ContentAfter DEF ContentExact
  <2>2. /\ k \in Spots /\ InUse \in Spots /\ <<t, 0>> \in Spots /\ k # InUse /\ k # <<t, 0>>
        /\ InUse # <<t, 0>>
    BY SpotFacts
  <2>3. \A p \in Spots : g[p] = f[p] \cup e[p]
    <3> SUFFICES ASSUME NEW p \in Spots PROVE g[p] = f[p] \cup e[p]
      OBVIOUS
    <3>1. CASE p \in Keys
      <4>1. g[p] = Listed(p)' /\ f[p] = Listed(p)
        BY <3>1, ContentAt, ContentAfter DEF Listed
      <4>2. e[p] = IF p = k THEN Q ELSE {}
        BY <3>1, SpotFacts
      <4> QED BY <3>1, <4>1, <4>2 DEF Grown
    <3>2. CASE p = InUse
      <4>1. g[p] = DOMAIN held' /\ f[p] = DOMAIN held
        BY <3>2, ContentAt, ContentAfter
      <4>2. e[p] = H
        BY <2>2, <3>2
      <4> QED BY <4>1, <4>2 DEF Grown
    <3>3. CASE p = <<t, 0>>
      <4>1. g[p] = Cut(t)' /\ f[p] = Cut(t)
        BY <3>3, ContentAt, ContentAfter
      <4>2. e[p] = C
        BY <2>2, <3>3
      <4> QED BY <4>1, <4>2 DEF Grown, Cut
    <3>4. ASSUME NEW s \in Threads \ {t}, p = <<s, 0>> PROVE g[p] = f[p] \cup e[p]
      <4>1. g[p] = Cut(s)' /\ f[p] = Cut(s)
        BY <3>4, ContentAt, ContentAfter
      <4>2. p # k /\ p # InUse /\ p # <<t, 0>>
        BY <3>4, SpotFacts
      <4>3. e[p] = {}
        BY <4>2
      <4> QED BY <1>5, <4>1, <4>3
    <3> QED BY <3>1, <3>2, <3>3, <3>4, SpotFacts
  <2>4. e[k] = Q /\ e[InUse] = H /\ e[<<t, 0>>] = C /\ DOMAIN e = Spots
    BY <2>2
  <2>5. \A p \in Spots : p # k /\ p # InUse /\ p # <<t, 0>> => e[p] = {}
    OBVIOUS
  <2> HIDE DEF e
  <2>6. Apart(e)
    <3> SUFFICES ASSUME NEW p \in Spots, NEW q \in Spots, p # q PROVE e[p] \cap e[q] = {}
      BY <2>4 DEF Apart
    <3>1. Q \cap H = {} /\ Q \cap C = {} /\ H \cap C = {}
      BY DEF Grown
    <3> QED BY <2>4, <2>5, <3>1
  <2>7. All(e) = NewBlocks(id, c)
    <3>1. \A x : (\E p \in Spots : x \in e[p]) <=> x \in Q \cup H \cup C
      BY <2>2, <2>4, <2>5
    <3>2. NewBlocks(id, c) = Q \cup H \cup C
      BY DEF Grown
    <3> QED BY <2>4, <3>1, <3>2 DEF All
  <2> HIDE DEF f, g
  <2>8. Added(f, g, e)
    BY <1>4, <2>1, <2>3, <2>4, <2>6, <2>7 DEF Added
  <2>9. Apart(g) /\ All(g) = All(f) \cup All(e)
    BY <2>1, <2>8, AddApart
  <2> QED BY <1>4, <2>1, <2>7, <2>9 DEF ContentExact, Apart, All, f, g
<1>8. \A i : WithBound(i)' = WithBound(i)
  BY BoundKept DEF Grown
<1>9. ListedFit'
  <2> SUFFICES ASSUME NEW m \in Keys, NEW x \in Listed(m)' PROVE FitsList(x, m[2])'
    BY DEF ListedFit
  <2>1. CASE x \in Listed(m)
    <3>1. FitsList(x, m[2]) /\ x \in AllBlocks
      BY <1>1, <1>6, <2>1, ContentAt, SpotFacts DEF ListedFit, Listed
    <3> QED BY <1>3, <3>1, FitsKept
  <2>2. CASE x \notin Listed(m)
    <3>1. m = k /\ x \in Q
      BY <2>2 DEF Grown
    <3> QED BY <3>1
  <2> QED BY <2>1, <2>2
<1>10. HeldFit'
  <2> SUFFICES ASSUME NEW x \in DOMAIN held' PROVE FitsSize(x, WithBound(held[x]))'
    BY DEF HeldFit
  <2>1. CASE x \in H
    BY <2>1
  <2>2. CASE x \notin H
    <3>1. x \in DOMAIN held /\ held'[x] = held[x]
      BY <2>2 DEF Grown
    <3>2. x \in AllBlocks
      BY <1>6, <3>1, ContentAt, SpotFacts
    <3>3. FitsSize(x, WithBound(held[x]))
      BY <1>1, <3>1 DEF HeldFit
    <3> QED BY <1>3, <1>8, <3>1, <3>2, <3>3, FitsKept
  <2> QED BY <2>1, <2>2
<1>11. CutFit'
  <2> SUFFICES ASSUME NEW s \in Threads, at'[s].pc = "remain"
               PROVE  /\ at'[s].out[1] \in DOMAIN chunks' /\ at'[s].out[2] = FirstAt
                      /\ chunks'[at'[s].out[1]].class = Class(s)'
    BY DEF CutFit
  <2>1. CASE s = t
    BY <1>2, <2>1
  <2>2. CASE s # t
    <3>1. at'[s] = at[s] /\ Class(s)' = Class(s) /\ at[s].pc = "remain"
      BY <1>5, <2>2 DEF Grown
    <3>2. /\ at[s].out[1] \in DOMAIN chunks /\ at[s].out[2] = FirstAt
          /\ chunks[at[s].out[1]].class = Class(s)
      BY <1>1, <3>1 DEF CutFit
    <3> QED BY <1>2, <3>1, <3>2
  <2> QED BY <2>1, <2>2
<1>12. ChunksFit'
  BY <1>1, <1>2 DEF ChunksFit
<1> QED BY <1>7, <1>9, <1>10, <1>11, <1>12 DEF BlockInv

-----------------------------------------------------------------------------
(* Each action keeps the invariant of the blocks.                           *)

\* One of the lists of all threads changes.
LEMMA QueueChange ==
  ASSUME MemoryTypes, NEW c \in Classes, NEW q, queue' = [queue EXCEPT ![c] = q], first' = first
  PROVE  /\ <<NoThread, c>> \in Keys /\ ListOf(<<NoThread, c>>) = queue[c]
         /\ \A m \in Keys : ListOf(m)' = IF m = <<NoThread, c>> THEN q ELSE ListOf(m)
<1>1. <<NoThread, c>> \in Keys /\ ListOf(<<NoThread, c>>) = queue[c]
  BY SpotFacts, ListTypes DEF Owners
<1>2. \A d \in Classes : queue'[d] = IF d = c THEN q ELSE queue[d]
  BY DEF MemoryTypes
<1>3. \A m \in Keys : m[2] \in Classes /\ m = <<m[1], m[2]>>
  BY SpotFacts
<1>4. ASSUME NEW m \in Keys PROVE ListOf(m)' = IF m = <<NoThread, c>> THEN q ELSE ListOf(m)
  <2>1. CASE m[1] = NoThread
    <3>1. ListOf(m) = queue[m[2]] /\ ListOf(m)' = queue'[m[2]]
      BY <2>1 DEF ListOf
    <3>2. m = <<NoThread, c>> <=> m[2] = c
      BY <1>3, <2>1
    <3> QED BY <1>2, <1>3, <3>1, <3>2
  <2>2. CASE m[1] # NoThread
    BY <2>2 DEF ListOf
  <2> QED BY <2>1, <2>2
<1> QED BY <1>1, <1>4

\* One of the lists of a thread changes.
LEMMA FirstChange ==
  ASSUME MemoryTypes, NEW t \in Threads, NEW c \in Classes, NEW q,
         first' = [first EXCEPT ![t][c] = q], queue' = queue
  PROVE  /\ <<t, c>> \in Keys /\ ListOf(<<t, c>>) = first[t][c]
         /\ \A m \in Keys : ListOf(m)' = IF m = <<t, c>> THEN q ELSE ListOf(m)
<1>1. <<t, c>> \in Keys /\ ListOf(<<t, c>>) = first[t][c] /\ NoThread # t
  BY SpotFacts, ListTypes, UsersAssumption DEF Owners
<1>2. \A s \in Threads, d \in Classes : first'[s][d] = IF s = t /\ d = c THEN q ELSE first[s][d]
  BY DEF MemoryTypes
<1>3. \A m \in Keys : m[1] \in Owners /\ m[2] \in Classes /\ m = <<m[1], m[2]>>
  BY SpotFacts
<1>4. ASSUME NEW m \in Keys PROVE ListOf(m)' = IF m = <<t, c>> THEN q ELSE ListOf(m)
  <2>1. CASE m[1] = NoThread
    <3>1. m # <<t, c>>
      BY <1>1, <2>1
    <3> QED BY <2>1, <3>1 DEF ListOf
  <2>2. CASE m[1] # NoThread
    <3>1. m[1] \in Threads
      BY <1>3, <2>2 DEF Owners
    <3>2. ListOf(m) = first[m[1]][m[2]] /\ ListOf(m)' = first'[m[1]][m[2]]
      BY <2>2 DEF ListOf
    <3>3. m = <<t, c>> <=> m[1] = t /\ m[2] = c
      BY <1>3
    <3> QED BY <1>2, <1>3, <3>1, <3>2, <3>3
  <2> QED BY <2>1, <2>2
<1> QED BY <1>1, <1>4

\* The call of a thread that cuts no chunk goes on, but to no cutting.
LEMMA OthersCut ==
  ASSUME ThreadTypes, NEW t \in Threads, NEW r, at' = [at EXCEPT ![t] = r], at[t].pc # "remain"
  PROVE  /\ at'[t] = r /\ (\A s \in Threads \ {t} : at'[s] = at[s])
         /\ r.pc # "remain" =>
              \A s \in Threads : at[s].pc = "remain" \/ at'[s].pc = "remain" => at'[s] = at[s]
<1>1. at'[t] = r /\ \A s \in Threads \ {t} : at'[s] = at[s]
  BY DEF ThreadTypes
<1> QED BY <1>1

\* alloc() and the allocation of regrow().
LEMMA AsksBlocks ==
  ASSUME Inv, BlockInv, NEW t \in Threads, NEW n \in Nat \ {0}, NEW old,
         at[t].pc = "idle", Asks(t, n, old)
  PROVE  BlockInv'
<1> DEFINE size == WithBound(n)  c == ClassOf(size)
<1>1. size \in Nat \ {0} /\ MemoryTypes /\ ThreadTypes /\ ListsSound
  BY Bounded DEF Inv, BlockInv
<1>2. options' = options /\ last' = last /\ life' = life
  BY DEF Asks, threads
<1>3. CASE size > 1024
  <2>1. PICK id : id = NewChunk
    OBVIOUS
  <2> DEFINE z == size + Align  h == <<id, FirstAt>>  k == <<NoThread, 8>>
  <2>2. /\ chunks' = With(chunks, id, [len |-> z, class |-> 0]) /\ Return(t, h, n, old)
        /\ UNCHANGED <<queue, first>>
    BY <1>3, <2>1 DEF Asks
  <2>3. z \in Nat /\ FirstAt \in Nat /\ id \in Nat \ {0}
    BY <1>1, <2>1, NewChunkNew DEF Align, FirstAt, Ptr
  <2>4. h \in Block
    BY <2>3 DEF Block
  <2>5. k \in Keys /\ 0 \in Classes \cup {0}
    <3>1. 8 \in Classes /\ NoThread \in Owners
      BY ClassList DEF Owners
    <3> QED BY <3>1, SpotFacts
  <2>6. NewBlocks(id, 0) = {h} /\ h[1] = id
    BY DEF NewBlocks
  <2>7. chunks'[id].len = z /\ chunks'[id].class = 0
    BY <1>1, <2>1, <2>2, <2>3, <2>5, ChunkBlocks
  <2>8. h \notin DOMAIN held
    <3>1. AllBlocks \cap NewBlocks(id, 0) = {}
      BY <1>1, <2>1, <2>2, <2>3, <2>5, ChunkBlocks
    <3>2. DOMAIN held \subseteq AllBlocks
      BY ContentAt, SpotFacts DEF BlockInv, ContentExact, All
    <3> QED BY <2>6, <3>1, <3>2
  <2> HIDE DEF z, h, k
  <2>9. held' = [y \in DOMAIN held \cup {h} |-> IF y = h THEN n ELSE held[y]]
    BY <2>2 DEF Return, With
  <2>10. DOMAIN held' = DOMAIN held \cup {h} /\ held'[h] = n /\ \A b \in DOMAIN held : held'[b] = held[b]
    BY <2>8, <2>9
  <2>11. at' = [at EXCEPT ![t] = Returned(old)]
    BY <1>1, <2>2, <2>4, ReturnHolds
  <2>12. at'[t] = Returned(old) /\ \A s \in Threads \ {t} : at'[s] = at[s]
    BY <1>1, <2>11, OthersCut
  <2>13. Cut(t)' = {} /\ at'[t].pc # "remain"
    BY <2>12, ReturnedPlace DEF Cut
  <2>14. \A m : ListOf(m)' = ListOf(m) /\ Listed(m)' = Listed(m)
    BY <2>2 DEF ListOf, Listed
  <2>15. Grown(t, id, 0, k, {}, {h}, {})
    BY <1>2, <2>6, <2>10, <2>12, <2>13, <2>14 DEF Grown
  <2>16. ListsSound'
    BY <1>1, <1>2, <2>2, <2>14 DEF ListsSound
  <2>17. FitsSize(h, WithBound(held[h]))'
    <3>1. \A i : WithBound(i)' = WithBound(i)
      BY <1>2, BoundKept
    <3>2. WithBound(held[h])' = size
      BY <2>10, <3>1
    <3>3. h[1] = id /\ chunks'[id].class = 0 /\ chunks'[id].len = size + Align /\ size > 1024
      BY <1>3, <2>6, <2>7 DEF z
    <3> HIDE DEF size
    <3> QED BY <3>2, <3>3 DEF FitsSize
  <2> QED BY <2>1, <2>2, <2>3, <2>5, <2>13, <2>15, <2>16, <2>17, GrownStep
<1>4. CASE ~(size > 1024) /\ "thread" \in options /\ first[t][c] # <<>>
  <2>1. c \in Classes /\ size <= 1024
    BY <1>1, <1>4, SizeClass
  <2>2. /\ first' = [first EXCEPT ![t][c] = Tail(first[t][c])]
        /\ Return(t, Head(first[t][c]), n, old) /\ UNCHANGED <<chunks, queue>>
    BY <1>4 DEF Asks
  <2> DEFINE k == <<t, c>>
  <2> HIDE DEF size, c
  <2>3. k \in Keys /\ ListOf(k) = first[t][c] /\ k[2] = c
    BY <1>1, <2>1, <2>2, FirstChange
  <2>4. \A m \in Keys : ListOf(m)' = IF m = k THEN Tail(ListOf(k)) ELSE ListOf(m)
    BY <1>1, <2>1, <2>2, <2>3, FirstChange
  <2> HIDE DEF k
  <2>5. ListOf(k) # <<>> /\ Return(t, Head(ListOf(k)), n, old) /\ at[t].pc # "remain"
    BY <1>4, <2>2, <2>3
  <2> QED BY <1>2, <2>1, <2>2, <2>3, <2>4, <2>5, TakeStep DEF size, c
<1>5. CASE ~(size > 1024) /\ ~("thread" \in options /\ first[t][c] # <<>>)
  <2>1. PICK pc \in {"pop", "grow"} : at' = [at EXCEPT ![t] = Begun(pc, n, old)]
    BY <1>5 DEF Asks, Begun
  <2>2. UNCHANGED <<chunks, queue, first, held>>
    BY <1>5 DEF Asks
  <2>3. Begun(pc, n, old).pc # "remain"
    BY DEF Begun, Idle
  <2>4. \A s \in Threads : at[s].pc = "remain" \/ at'[s].pc = "remain" => at'[s] = at[s]
    BY <1>1, <2>1, <2>3, OthersCut
  <2> QED BY <1>2, <2>2, <2>4, QuietStep
<1> QED BY <1>3, <1>4, <1>5

\* A block of a list of all threads comes into use.
LEMMA PopsBlocks ==
  ASSUME Inv, BlockInv, NEW t \in Threads, at[t].pc \in {"pop", "grow"}, queue[Class(t)] # <<>>,
         queue' = [queue EXCEPT ![Class(t)] = Tail(queue[Class(t)])],
         Return(t, Head(queue[Class(t)]), at[t].size, at[t].old),
         UNCHANGED <<options, chunks, first, last, life>>
  PROVE  BlockInv'
<1> DEFINE c == Class(t)  k == <<NoThread, c>>
<1>1. /\ MemoryTypes /\ at[t].size \in Nat \ {0} /\ WithBound(at[t].size) <= 1024
      /\ at[t].pc # "remain"
  BY DEF Inv, ThreadTypes, ThreadInv, CallsSound, Call, Allocating
<1>2. c \in Classes /\ c = ClassOf(WithBound(at[t].size))
  BY CallClass DEF Allocating, Class
<1> HIDE DEF c
<1>3. k \in Keys /\ ListOf(k) = queue[c] /\ k[2] = c
  BY <1>1, <1>2, QueueChange DEF c
<1>4. \A m \in Keys : ListOf(m)' = IF m = k THEN Tail(ListOf(k)) ELSE ListOf(m)
  BY <1>1, <1>2, <1>3, QueueChange DEF c
<1> HIDE DEF k
<1>5. ListOf(k) # <<>> /\ Return(t, Head(ListOf(k)), at[t].size, at[t].old)
  BY <1>3 DEF c
<1> QED BY <1>1, <1>2, <1>3, <1>4, <1>5, TakeStep

\* A thread looks at the list of all threads.
LEMMA PopBlocks ==
  ASSUME Inv, BlockInv, NEW t \in Threads, Pop(t)
  PROVE  BlockInv'
<1>1. at[t].pc = "pop" /\ UNCHANGED <<options, chunks, first, last, life>> /\ ThreadTypes
  BY DEF Pop, AtPlace, threads, Inv
<1>2. CASE queue[Class(t)] = <<>>
  <2>1. Goes(t, "grow") /\ UNCHANGED <<queue, held>>
    BY <1>2 DEF Pop
  <2> DEFINE r == [at[t] EXCEPT !.pc = "grow"]
  <2>2. at' = [at EXCEPT ![t] = r] /\ r.pc = "grow"
    BY <1>1, <2>1, GoesTo
  <2> HIDE DEF r
  <2>3. \A s \in Threads : at[s].pc = "remain" \/ at'[s].pc = "remain" => at'[s] = at[s]
    BY <1>1, <2>2, OthersCut
  <2> QED BY <1>1, <2>1, <2>3, QuietStep
<1>3. CASE queue[Class(t)] # <<>>
  <2>1. /\ queue' = [queue EXCEPT ![Class(t)] = Tail(queue[Class(t)])]
        /\ Return(t, Head(queue[Class(t)]), at[t].size, at[t].old)
    BY <1>3 DEF Pop
  <2> QED BY <1>1, <1>3, <2>1, PopsBlocks
<1> QED BY <1>2, <1>3

\* A new chunk is cut, unless the list of all threads has a block again.
LEMMA GrowBlocks ==
  ASSUME Inv, BlockInv, NEW t \in Threads, Grow(t)
  PROVE  BlockInv'
<1> DEFINE n == at[t].size
<1>1. at[t].pc = "grow" /\ UNCHANGED <<options, first, last, life>> /\ at[t].pc # "remain"
  BY DEF Grow, AtPlace, threads
<1>2. CASE queue[Class(t)] # <<>>
  <2>1. /\ queue' = [queue EXCEPT ![Class(t)] = Tail(queue[Class(t)])]
        /\ Return(t, Head(queue[Class(t)]), at[t].size, at[t].old) /\ UNCHANGED chunks
    BY <1>2 DEF Grow
  <2> QED BY <1>1, <1>2, <2>1, PopsBlocks
<1>3. CASE queue[Class(t)] = <<>>
  <2>1. PICK id, c : id = NewChunk /\ c = Class(t)
    OBVIOUS
  <2> DEFINE cut == Carve(id, c)  z == ChunkSize(c)  k == <<NoThread, c>>  rest == <<id, RemainAt(c)>>
  <2>2. /\ queue' = [queue EXCEPT ![c] = Tail(cut)] /\ chunks' = With(chunks, id, [len |-> z, class |-> c])
        /\ IF RemainSize(c) = 0
           THEN Return(t, Head(cut), n, at[t].old)
           ELSE at' = [at EXCEPT ![t].pc = "remain", ![t].out = Head(cut)] /\ UNCHANGED held
    BY <1>3, <2>1 DEF Grow
  <2>3. /\ MemoryTypes /\ ThreadTypes /\ ListsSound /\ at[t] \in Call /\ n \in Nat \ {0}
        /\ WithBound(n) <= 1024
    BY <1>1 DEF Inv, BlockInv, ThreadTypes, ThreadInv, CallsSound, Call, Allocating
  <2>4. c \in Classes /\ c \in Nat \ {0} /\ c = ClassOf(WithBound(n)) /\ z \in Nat
    BY <1>1, <2>1, CallClass, ChunkFacts DEF Allocating, Class
  <2>5. id \in Nat \ {0}
    BY <2>1, <2>3, NewChunkNew
  <2>6. /\ cut \in Seq(Block) /\ cut # <<>> /\ Head(cut) = <<id, FirstAt>> /\ IsInjective(cut)
        /\ \A x \in Range(cut) : x[1] = id /\ x[2] # RemainAt(c)
    BY <2>4, <2>5, CarveType, CarvePlaces
  <2>7. NewBlocks(id, c) = Range(cut) \cup (IF RemainSize(c) = 0 THEN {} ELSE {rest}) /\ rest \notin Range(cut)
    BY <2>4, <2>6 DEF NewBlocks
  <2> HIDE DEF cut, z, rest
  <2>8. /\ Tail(cut) \in Seq(Block) /\ Range(cut) = Range(Tail(cut)) \cup {Head(cut)}
        /\ Head(cut) \notin Range(Tail(cut)) /\ IsInjective(Tail(cut)) /\ Head(cut) \in Block
    BY <2>6, RangeTail, InjectiveTail
  <2>9. k \in Keys /\ ListOf(k) = <<>> /\ k[2] = c
    BY <1>1, <1>3, <2>1, <2>2, <2>3, <2>4, QueueChange
  <2>10. \A m \in Keys : ListOf(m)' = IF m = k THEN Tail(cut) ELSE ListOf(m)
    BY <1>1, <2>2, <2>3, <2>4, QueueChange
  <2>11. \A m \in Keys : Listed(m)' = IF m = k THEN Listed(k) \cup Range(Tail(cut)) ELSE Listed(m)
    <3>1. Listed(k) = {}
      BY <2>9, EmptyRange DEF Listed
    <3> QED BY <2>10, <3>1 DEF Listed
  <2> HIDE DEF k
  <2>12. ListsSound'
    BY <1>1, <2>3, <2>8, <2>10 DEF ListsSound
  <2>13. chunks'[id].len = z /\ chunks'[id].class = c
    BY <2>1, <2>2, <2>3, <2>4, ChunkBlocks
  <2>14. \A x \in Range(cut) : FitsList(x, c)'
    <3> SUFFICES ASSUME NEW x \in Range(cut) PROVE FitsList(x, c)'
      OBVIOUS
    <3>1. chunks'[x[1]].class = c /\ x[2] # RemainAt(c) /\ c # 0 /\ c >= c
      BY <2>4, <2>6, <2>13
    <3> QED BY <3>1 DEF FitsList, Extent
  <2>15. \A i : WithBound(i)' = WithBound(i)
    BY <1>1, BoundKept
  <2>16. CASE RemainSize(c) = 0
    <3>1. Return(t, Head(cut), n, at[t].old)
      BY <2>2, <2>16
    <3>2. Head(cut) \notin DOMAIN held
      <4>1. AllBlocks \cap NewBlocks(id, c) = {}
        BY <2>1, <2>2, <2>3, <2>4, ChunkBlocks
      <4>2. DOMAIN held \subseteq AllBlocks
        BY ContentAt, SpotFacts DEF BlockInv, ContentExact, All
      <4> QED BY <2>7, <2>8, <4>1, <4>2
    <3>3. held' = [y \in DOMAIN held \cup {Head(cut)} |-> IF y = Head(cut) THEN n ELSE held[y]]
      BY <3>1 DEF Return, With
    <3>4. /\ DOMAIN held' = DOMAIN held \cup {Head(cut)} /\ held'[Head(cut)] = n
          /\ \A b \in DOMAIN held : held'[b] = held[b]
      BY <3>2, <3>3
    <3>5. at' = [at EXCEPT ![t] = Returned(at[t].old)]
      BY <2>3, <2>8, <3>1, ReturnHolds
    <3>6. at'[t] = Returned(at[t].old) /\ \A s \in Threads \ {t} : at'[s] = at[s]
      BY <1>1, <2>3, <3>5, OthersCut
    <3>7. Cut(t)' = {} /\ at'[t].pc # "remain"
      BY <3>6, ReturnedPlace DEF Cut
    <3>8. Grown(t, id, c, k, Range(Tail(cut)), {Head(cut)}, {})
      BY <1>1, <2>7, <2>8, <2>11, <2>16, <3>4, <3>6, <3>7 DEF Grown
    <3>9. \A b \in {Head(cut)} : FitsSize(b, WithBound(held[b]))'
      <4> SUFFICES ASSUME NEW b, b = Head(cut) PROVE FitsSize(b, WithBound(held[b]))'
        OBVIOUS
      <4>1. WithBound(held[b])' = WithBound(n) /\ WithBound(n) \in Nat /\ ~(WithBound(n) > 1024)
        BY <2>3, <2>15, <3>4, Bounded
      <4>2. FitsList(b, c)'
        BY <2>8, <2>14
      <4> QED BY <2>4, <4>1, <4>2 DEF FitsSize
    <3> QED BY <2>1, <2>2, <2>4, <2>8, <2>9, <2>12, <2>14, <3>7, <3>8, <3>9, GrownStep DEF z
  <2>17. CASE RemainSize(c) # 0
    <3> DEFINE r == [at[t] EXCEPT !.pc = "remain", !.out = Head(cut)]
    <3>1. at' = [at EXCEPT ![t] = r] /\ UNCHANGED held
      BY <2>2, <2>3, <2>17 DEF ThreadTypes
    <3>2. r.pc = "remain" /\ r.size = n /\ r.out = Head(cut)
      BY <2>3 DEF Call
    <3> HIDE DEF r
    <3>3. at'[t] = r /\ \A s \in Threads \ {t} : at'[s] = at[s]
      BY <1>1, <2>3, <3>1, OthersCut
    <3>4. Class(t)' = c
      BY <2>4, <2>15, <3>2, <3>3 DEF Class
    <3>5. Remaining(t)' = rest /\ at'[t].out = Head(cut) /\ at'[t].pc = "remain"
      BY <2>6, <3>2, <3>3, <3>4 DEF Remaining, rest
    <3>6. Cut(t)' = {Head(cut), rest}
      BY <3>5 DEF Cut
    <3>7. Grown(t, id, c, k, Range(Tail(cut)), {}, {Head(cut), rest})
      BY <1>1, <2>7, <2>8, <2>11, <2>17, <3>1, <3>3, <3>6 DEF Grown
    <3>8. at'[t].out[1] = id /\ at'[t].out[2] = FirstAt
      BY <2>6, <3>5
    <3> QED BY <2>1, <2>2, <2>4, <2>8, <2>9, <2>12, <2>14, <3>4, <3>7, <3>8, GrownStep DEF z
  <2> QED BY <2>16, <2>17
<1> QED BY <1>2, <1>3

\* The rest of a chunk goes to a list, and its first block comes into use.
LEMMA RemainBlocks ==
  ASSUME Inv, BlockInv, NEW t \in Threads, Remain(t)
  PROVE  BlockInv'
<1>1. /\ ContentExact /\ ListsSound /\ ListedFit /\ HeldFit /\ CutFit /\ ChunksFit /\ MemoryTypes
      /\ ThreadTypes
  BY DEF BlockInv, Inv
<1>2. at[t].pc = "remain" /\ UNCHANGED <<options, chunks, first, last, life>>
  BY DEF Remain, AtPlace, threads
<1>3. /\ at[t] \in Call /\ at[t].out # NoBlock /\ at[t].size \in Nat \ {0} /\ WithBound(at[t].size) <= 1024
      /\ RemainSize(Class(t)) # 0
  BY <1>2 DEF Inv, ThreadTypes, ThreadInv, CallsSound, Call, Allocating, Class
<1>4. PICK c, out, rest, n : c = Class(t) /\ out = at[t].out /\ rest = Remaining(t) /\ n = at[t].size
  OBVIOUS
<1>5. c \in Classes /\ c = ClassOf(WithBound(n))
  BY <1>2, <1>4, CallClass DEF Allocating, Class
<1>6. PICK d : d = RemainClass(RemainSize(c))
  OBVIOUS
<1>7. /\ c \in Nat \ {0} /\ RemainSize(c) \in Nat /\ RemainSize(c) >= 8 /\ Capacity(c) \in Nat \ {0}
      /\ RemainAt(c) = 8 + Capacity(c) * c /\ RemainAt(c) \in Nat /\ FirstAt = 8
      /\ RemainSize(c) = ChunkSize(c) - RemainAt(c)
  BY <1>3, <1>4, <1>5, ChunkFacts
<1>8. d \in Classes /\ d <= RemainSize(c)
  BY <1>6, <1>7, RemainFits
<1>9. RemainAt(c) # FirstAt
  <2>1. \A x, y \in Nat \ {0} : 8 + x * y # 8
    OBVIOUS
  <2> QED BY <1>7, <2>1
<1>10. /\ out[1] \in DOMAIN chunks /\ out[2] = FirstAt /\ chunks[out[1]].class = c
       /\ chunks[out[1]].len = ChunkSize(c)
  BY <1>1, <1>2, <1>4, <1>7 DEF CutFit, ChunksFit
<1>11. rest = <<out[1], RemainAt(c)>> /\ rest # out /\ Cut(t) = {out, rest}
  BY <1>2, <1>4, <1>9, <1>10 DEF Remaining, Cut
<1>12. out \in Block /\ rest \in Block
  <2>1. out \in Block
    BY <1>3, <1>4 DEF Call
  <2>2. out[1] \in Nat \ {0}
    BY <2>1 DEF Block
  <2> QED BY <1>7, <1>11, <2>1, <2>2 DEF Block
<1>13. FitsList(out, c) /\ FitsList(rest, d)
  <2>1. Extent(out) = c
    BY <1>7, <1>9, <1>10 DEF Extent
  <2>2. Extent(rest) = RemainSize(c)
    BY <1>7, <1>10, <1>11 DEF Extent
  <2> QED BY <1>7, <1>8, <1>10, <1>11, <2>1, <2>2 DEF FitsList
<1>14. queue' = [queue EXCEPT ![d] = <<rest>> \o queue[d]] /\ Return(t, out, n, at[t].old)
  BY <1>4, <1>6 DEF Remain
<1> DEFINE k == <<NoThread, d>>  L == ListOf(k)  N == <<rest>> \o L
<1>15. k \in Keys /\ k[2] = d /\ L = queue[d]
  BY <1>1, <1>2, <1>8, <1>14, QueueChange
<1>16. \A m \in Keys : ListOf(m)' = IF m = k THEN N ELSE ListOf(m)
  BY <1>1, <1>2, <1>8, <1>14, <1>15, QueueChange
<1> HIDE DEF k, N
<1>17. /\ k \in Spots /\ InUse \in Spots /\ <<t, 0>> \in Spots /\ k # InUse /\ k # <<t, 0>>
       /\ InUse # <<t, 0>> /\ DOMAIN Content = Spots /\ Apart(Content)
  BY <1>1, <1>15, SpotFacts, ContentAt DEF ContentExact
<1>18. L \in Seq(Block) /\ IsInjective(L)
  BY <1>1, <1>15, ListTypes DEF ListsSound
<1>19. rest \notin Range(L) /\ out \notin DOMAIN held
  <2>1. Content[k] = Range(L) /\ Content[<<t, 0>>] = {out, rest} /\ Content[InUse] = DOMAIN held
    BY <1>11, <1>15, ContentAt
  <2>2. Content[k] \cap Content[<<t, 0>>] = {} /\ Content[InUse] \cap Content[<<t, 0>>] = {}
    BY <1>17 DEF Apart
  <2> QED BY <2>1, <2>2
<1> HIDE DEF L
<1>20. Range(N) = Range(L) \cup {rest} /\ IsInjective(N)
  BY <1>12, <1>18, <1>19, PushFront, InjectivePush DEF N
<1>21. DOMAIN held' = DOMAIN held \cup {out} /\ held'[out] = n /\ \A b \in DOMAIN held : held'[b] = held[b]
  <2>1. held' = [y \in DOMAIN held \cup {out} |-> IF y = out THEN n ELSE held[y]]
    BY <1>14 DEF Return, With
  <2> QED BY <1>19, <2>1
<1>22. at'[t] = Returned(at[t].old) /\ \A s \in Threads \ {t} : at'[s] = at[s]
  <2>1. at' = [at EXCEPT ![t] = Returned(at[t].old)]
    BY <1>1, <1>3, <1>4, <1>12, <1>14, ReturnHolds
  <2> QED BY <1>1, <2>1 DEF ThreadTypes
<1>23. Cut(t)' = {} /\ at'[t].pc # "remain"
  BY <1>22, ReturnedPlace DEF Cut
<1>24. \A s \in Threads \ {t} : Cut(s)' = Cut(s) /\ (at'[s].pc = "remain" => Class(s)' = Class(s))
  BY <1>2, <1>22, CutsKept
<1>25. ContentExact'
  <2> DEFINE f == Content  g == Content'
             h == [p \in Spots |-> IF p = <<t, 0>> THEN {rest} ELSE IF p = InUse THEN f[InUse] \cup {out} ELSE f[p]]
  <2>1. DOMAIN f = Spots /\ DOMAIN g = Spots /\ Apart(f) /\ All(f) = AllBlocks
    BY <1>1, ContentAt, ContentAfter DEF ContentExact
  <2>2. f[<<t, 0>>] = {out, rest} /\ g[<<t, 0>>] = {}
    BY <1>11, <1>23, ContentAt, ContentAfter
  <2>3. g[InUse] = f[InUse] \cup {out}
    BY <1>21, ContentAt, ContentAfter
  <2>4. g[k] = f[k] \cup {rest}
    <3>1. f[k] = Range(L) /\ g[k] = Range(N)
      BY <1>15, <1>16, ContentAt, ContentAfter DEF L
    <3> QED BY <1>20, <3>1
  <2>5. \A p \in Spots : p # k /\ p # InUse /\ p # <<t, 0>> => g[p] = f[p]
    <3> SUFFICES ASSUME NEW p \in Spots, p # k, p # InUse, p # <<t, 0>> PROVE g[p] = f[p]
      OBVIOUS
    <3>1. CASE p \in Keys
      <4>1. ListOf(p)' = ListOf(p)
        BY <1>16, <3>1
      <4> QED BY <3>1, <4>1, ContentAt, ContentAfter
    <3>2. CASE p \notin Keys
      <4>1. PICK s \in Threads : p = <<s, 0>>
        BY <3>2, SpotFacts
      <4>2. s # t
        BY <4>1
      <4> QED BY <1>24, <4>1, <4>2, ContentAt, ContentAfter
    <3> QED BY <3>1, <3>2
  <2>6. /\ DOMAIN h = Spots /\ h[<<t, 0>>] = {rest} /\ h[InUse] = f[InUse] \cup {out}
        /\ \A p \in Spots : p # InUse /\ p # <<t, 0>> => h[p] = f[p]
    BY <1>17
  <2> HIDE DEF f, g, h
  <2>7. Moved(f, h, <<t, 0>>, InUse, {out})
    BY <1>11, <1>17, <2>1, <2>2, <2>6 DEF Moved
  <2>8. Apart(h) /\ All(h) = All(f)
    BY <2>1, <2>7, MoveApart
  <2>9. Moved(h, g, <<t, 0>>, k, {rest})
    BY <1>17, <2>1, <2>2, <2>3, <2>4, <2>5, <2>6 DEF Moved
  <2>10. Apart(g) /\ All(g) = All(h)
    BY <2>8, <2>9, MoveApart
  <2>11. AllBlocks' = AllBlocks
    BY <1>2 DEF AllBlocks, Blocks
  <2> QED BY <2>1, <2>8, <2>10, <2>11 DEF ContentExact, Apart, All, f, g
<1>26. ListsSound'
  BY <1>1, <1>2, <1>16, <1>20 DEF ListsSound
<1>27. ListedFit'
  <2> SUFFICES ASSUME NEW m \in Keys, NEW x \in Range(ListOf(m)') PROVE FitsList(x, m[2])'
    BY DEF ListedFit, Listed
  <2>1. CASE x \in Listed(m)
    <3>1. FitsList(x, m[2])
      BY <1>1, <2>1 DEF ListedFit
    <3> QED BY <1>2, <3>1, FitsKept
  <2>2. CASE x \notin Listed(m)
    <3>1. Listed(k) = Range(L) /\ Listed(m) = Range(ListOf(m))
      BY DEF Listed, L
    <3>2. m = k /\ x = rest
      BY <1>16, <1>20, <2>2, <3>1
    <3> QED BY <1>2, <1>13, <1>15, <3>2, FitsKept
  <2> QED BY <2>1, <2>2
<1>28. HeldFit'
  <2>1. \A i : WithBound(i)' = WithBound(i)
    BY <1>2, BoundKept
  <2> SUFFICES ASSUME NEW b \in DOMAIN held' PROVE FitsSize(b, WithBound(held[b]))'
    BY DEF HeldFit
  <2>2. CASE b = out
    <3>1. WithBound(n) \in Nat /\ ~(WithBound(n) > 1024)
      BY <1>3, <1>4, Bounded
    <3>2. FitsSize(b, WithBound(n))
      BY <1>5, <1>13, <2>2, <3>1 DEF FitsSize
    <3> QED BY <1>2, <1>21, <2>1, <2>2, <3>2, FitsKept
  <2>3. CASE b # out
    <3>1. b \in DOMAIN held /\ held'[b] = held[b]
      BY <1>21, <2>3
    <3>2. FitsSize(b, WithBound(held[b]))
      BY <1>1, <3>1 DEF HeldFit
    <3> QED BY <1>2, <2>1, <3>1, <3>2, FitsKept
  <2> QED BY <2>2, <2>3
<1>29. CutFit'
  <2> SUFFICES ASSUME NEW s \in Threads, at'[s].pc = "remain"
               PROVE  /\ at'[s].out[1] \in DOMAIN chunks /\ at'[s].out[2] = FirstAt
                      /\ chunks[at'[s].out[1]].class = Class(s)'
    BY <1>2 DEF CutFit
  <2>1. s # t /\ at'[s] = at[s] /\ Class(s)' = Class(s)
    BY <1>22, <1>23, <1>24
  <2> QED BY <1>1, <2>1 DEF CutFit
<1>30. ChunksFit'
  BY <1>1, <1>2 DEF ChunksFit
<1> QED BY <1>25, <1>26, <1>27, <1>28, <1>29, <1>30 DEF BlockInv

\* A list is put in front of another one if what is taken for its end is its end.
LEMMA SplicedWhole ==
  ASSUME NEW S, NEW s \in Seq(S), s # <<>>, IsInjective(s), NEW q \in Seq(S)
  PROVE  Spliced(s, s[Len(s)], q) = s \o q
<1> DEFINE n == Len(s)  e == s[n]
<1>1. n \in Nat \ {0} /\ DOMAIN s = 1..n
  BY LenZero
<1>2. Contains(s, e)
  <2>1. n \in 1..Len(s) /\ s[n] = e
    BY <1>1
  <2> QED BY <2>1 DEF Contains
<1> HIDE DEF e
<1>3. PICK i \in 1..n : s[i] = e /\ Spliced(s, e, q) = SubSeq(s, 1, i) \o q
  BY <1>2, SplicedAt
<1>4. i = n
  <2>1. n \in DOMAIN s /\ i \in DOMAIN s /\ s[i] = s[n]
    BY <1>1, <1>3 DEF e
  <2> QED BY <2>1 DEF IsInjective
<1>5. SubSeq(s, 1, n) = s
  <2> HIDE DEF n
  <2>1. Len(s) = n
    BY DEF n
  <2> QED BY <1>1, <2>1
<1> QED BY <1>3, <1>4, <1>5 DEF e

\* A list of a thread goes in front of the one of all threads.
LEMMA CloseNextBlocks ==
  ASSUME Inv, BlockInv, NEW t \in Threads, CloseNext(t)
  PROVE  BlockInv'
<1>1. /\ ContentExact /\ ListsSound /\ ListedFit /\ HeldFit /\ CutFit /\ ChunksFit /\ MemoryTypes
  BY DEF BlockInv, Inv
<1>2. PICK c : c = Min(Cached(t))
  OBVIOUS
<1>3. /\ queue' = [queue EXCEPT ![c] = Spliced(first[t][c], last[t][c], queue[c])]
      /\ first' = [first EXCEPT ![t][c] = <<>>]
      /\ UNCHANGED <<options, chunks, last, held, at, life>> /\ Cached(t) # {}
  BY <1>2 DEF CloseNext, insertGlobalCache, threads
<1>4. c \in Cached(t)
  <2>1. Cached(t) \in SUBSET Nat /\ Cached(t) # {}
    BY <1>3, ClassList DEF Cached
  <2>2. \E x \in Cached(t) : \A y \in Cached(t) : x <= y
    BY <2>1, Smallest
  <2> QED BY <1>2, <2>2 DEF Min
<1> DEFINE L == first[t][c]  Q == queue[c]  k == <<t, c>>  m == <<NoThread, c>>
<1>5. c \in Classes /\ L # <<>> /\ L \in Seq(Block) /\ Q \in Seq(Block)
  BY <1>1, <1>4 DEF Cached, MemoryTypes
<1>6. k \in Keys /\ m \in Keys /\ k # m /\ ListOf(k) = L /\ ListOf(m) = Q /\ k[2] = c /\ m[2] = c
  BY <1>1, <1>5, SpotFacts, ListTypes, UsersAssumption DEF Owners
<1>7. IsInjective(L) /\ IsInjective(Q) /\ last[t][c] = L[Len(L)]
  <2>1. IsInjective(ListOf(k)) /\ IsInjective(ListOf(m))
    BY <1>1, <1>6 DEF ListsSound
  <2>2. last[t][c] = L[Len(L)]
    BY <1>1, <1>5 DEF ListsSound
  <2> QED BY <1>6, <2>1, <2>2
<1>8. /\ k \in Spots /\ m \in Spots /\ DOMAIN Content = Spots /\ Apart(Content)
      /\ Content[k] = Range(L) /\ Content[m] = Range(Q)
  BY <1>1, <1>6, SpotFacts, ContentAt DEF ContentExact
<1> DEFINE N == L \o Q
<1>9. \A s \in Threads, d \in Classes : first'[s][d] = IF s = t /\ d = c THEN <<>> ELSE first[s][d]
  BY <1>1, <1>3, <1>5 DEF MemoryTypes
<1> HIDE DEF L, Q
<1>10. Spliced(L, last[t][c], Q) = N
  BY <1>5, <1>7, SplicedWhole
<1>11. N \in Seq(Block) /\ Range(N) = Range(L) \cup Range(Q) /\ IsInjective(N)
  <2>1. Range(L) \cap Range(Q) = {}
    BY <1>6, <1>8 DEF Apart
  <2> QED BY <1>5, <1>7, <2>1, Concatenation
<1> HIDE DEF N
<1>12. \A d \in Classes : queue'[d] = IF d = c THEN N ELSE queue[d]
  BY <1>1, <1>3, <1>5, <1>10 DEF MemoryTypes, L, Q
<1>13. \A p \in Keys : ListOf(p)' = IF p = k THEN <<>> ELSE IF p = m THEN N ELSE ListOf(p)
  <2> SUFFICES ASSUME NEW p \in Keys
               PROVE  ListOf(p)' = IF p = k THEN <<>> ELSE IF p = m THEN N ELSE ListOf(p)
    OBVIOUS
  <2>1. p[1] \in Owners /\ p[2] \in Classes /\ p = <<p[1], p[2]>> /\ t # NoThread
    BY SpotFacts, UsersAssumption
  <2>2. CASE p[1] = NoThread
    <3>1. ListOf(p) = queue[p[2]] /\ ListOf(p)' = queue'[p[2]]
      BY <2>2 DEF ListOf
    <3>2. p # k /\ (p = m <=> p[2] = c)
      BY <2>1, <2>2
    <3> QED BY <1>12, <2>1, <3>1, <3>2
  <2>3. CASE p[1] # NoThread
    <3>1. ListOf(p) = first[p[1]][p[2]] /\ ListOf(p)' = first'[p[1]][p[2]] /\ p[1] \in Threads
      BY <2>1, <2>3 DEF ListOf, Owners
    <3>2. p # m /\ (p = k <=> p[1] = t /\ p[2] = c)
      BY <2>1, <2>3
    <3> QED BY <1>9, <2>1, <3>1, <3>2
  <2> QED BY <2>2, <2>3
<1> HIDE DEF k, m
<1>14. \A s \in Threads : Cut(s)' = Cut(s) /\ Class(s)' = Class(s)
  <2>1. \A s \in Threads : Class(s)' = Class(s)
    BY <1>3 DEF Class, WithBound
  <2> QED BY <1>3, <2>1 DEF Cut, Remaining
<1>15. ContentExact'
  <2> DEFINE f == Content  g == Content'
  <2>1. DOMAIN f = Spots /\ DOMAIN g = Spots /\ Apart(f) /\ All(f) = AllBlocks
    BY <1>1, ContentAt, ContentAfter DEF ContentExact
  <2>2. g[k] = {}
    <3>1. g[k] = Range(ListOf(k)') /\ ListOf(k)' = <<>>
      BY <1>6, <1>13, ContentAfter
    <3> QED BY <3>1, EmptyRange
  <2>3. g[m] = f[m] \cup Range(L) /\ f[k] = Range(L)
    <3>1. g[m] = Range(ListOf(m)') /\ ListOf(m)' = N
      BY <1>6, <1>13, ContentAfter
    <3> QED BY <1>8, <1>11, <3>1
  <2>4. \A p \in Spots : p # k /\ p # m => g[p] = f[p]
    <3> SUFFICES ASSUME NEW p \in Spots, p # k, p # m PROVE g[p] = f[p]
      OBVIOUS
    <3>1. CASE p \in Keys
      <4>1. ListOf(p)' = ListOf(p)
        BY <1>13, <3>1
      <4> QED BY <3>1, <4>1, ContentAt, ContentAfter
    <3>2. CASE p = InUse
      BY <1>3, <3>2, ContentAt, ContentAfter
    <3>3. ASSUME NEW s \in Threads, p = <<s, 0>> PROVE g[p] = f[p]
      BY <1>14, <3>3, ContentAt, ContentAfter
    <3> QED BY <3>1, <3>2, <3>3, SpotFacts
  <2> HIDE DEF f, g
  <2>5. Moved(f, g, k, m, Range(L))
    BY <1>6, <1>8, <2>1, <2>2, <2>3, <2>4 DEF Moved
  <2>6. Apart(g) /\ All(g) = All(f)
    BY <2>1, <2>5, MoveApart
  <2>7. AllBlocks' = AllBlocks
    BY <1>3 DEF AllBlocks, Blocks
  <2> QED BY <2>1, <2>6, <2>7 DEF ContentExact, Apart, All, f, g
<1>16. ListsSound'
  <2>1. \A p \in Keys : IsInjective(ListOf(p)')
    BY <1>1, <1>11, <1>13, EmptyRange DEF ListsSound
  <2>2. ASSUME NEW s \in Threads, NEW d \in Classes, first'[s][d] # <<>>
        PROVE  last[s][d] = first'[s][d][Len(first'[s][d])] /\ life[s] \in {"running", "closing"}
    <3>1. first'[s][d] = first[s][d]
      BY <1>9, <2>2
    <3> QED BY <1>1, <2>2, <3>1 DEF ListsSound
  <2> QED BY <1>3, <2>1, <2>2 DEF ListsSound
<1>17. ListedFit'
  <2> SUFFICES ASSUME NEW p \in Keys, NEW x \in Range(ListOf(p)') PROVE FitsList(x, p[2])'
    BY DEF ListedFit, Listed
  <2>1. Listed(k) = Range(L) /\ Listed(m) = Range(Q) /\ Listed(p) = Range(ListOf(p))
    BY <1>6 DEF Listed
  <2>2. x \in Listed(p) \/ (p = m /\ x \in Listed(k))
    <3>1. CASE p = k
      BY <1>13, <3>1, EmptyRange
    <3>2. CASE p = m
      BY <1>6, <1>11, <1>13, <2>1, <3>2
    <3>3. CASE p # k /\ p # m
      BY <1>13, <2>1, <3>3
    <3> QED BY <3>1, <3>2, <3>3
  <2>3. FitsList(x, p[2])
    BY <1>1, <1>6, <2>2 DEF ListedFit
  <2> QED BY <1>3, <2>3, FitsKept
<1>18. HeldFit'
  <2>1. \A i : WithBound(i)' = WithBound(i)
    BY <1>3, BoundKept
  <2> QED BY <1>1, <1>3, <2>1, FitsKept DEF HeldFit
<1>19. CutFit'
  <2> SUFFICES ASSUME NEW s \in Threads, at[s].pc = "remain"
               PROVE  /\ at[s].out[1] \in DOMAIN chunks /\ at[s].out[2] = FirstAt
                      /\ chunks[at[s].out[1]].class = Class(s)'
    BY <1>3 DEF CutFit
  <2> QED BY <1>1, <1>14 DEF CutFit
<1>20. ChunksFit'
  BY <1>1, <1>3 DEF ChunksFit
<1> QED BY <1>15, <1>16, <1>17, <1>18, <1>19, <1>20 DEF BlockInv

\* A thread goes to another place of a call, no block moves, and threads that still have
\* blocks in their lists do not end.
LEMMA PlaceStep ==
  ASSUME Inv, BlockInv, NEW t \in Threads, UNCHANGED <<options, chunks, queue, first, last, held>>,
         at[t].pc # "remain", at'[t].pc # "remain", \A s \in Threads \ {t} : at'[s] = at[s],
         \A s \in Threads : life[s] \in {"running", "closing"} /\ Cached(s) # {} =>
                              life'[s] \in {"running", "closing"}
  PROVE  BlockInv'
<1>1. \A s \in Threads : at[s].pc = "remain" \/ at'[s].pc = "remain" => at'[s] = at[s]
  OBVIOUS
<1> QED BY <1>1, QuietStep

\* A block is freed, by free() or by regrow().
LEMMA FreeBlocks ==
  ASSUME Inv, BlockInv, NEW t \in Threads, NEW b, Free(t, b)
  PROVE  BlockInv'
<1>1. /\ b \in DOMAIN held /\ Frees(t, b) /\ life[t] = "running" /\ at' = at /\ life' = life
      /\ options' = options
  BY DEF Free, Owned, Frees, threads
<1>2. Undisturbed
  BY <1>1 DEF Undisturbed
<1> QED BY <1>1, <1>2, FreesBlocks

\* The block that regrow() replaced is freed.
LEMMA RegrowFreeBlocks ==
  ASSUME Inv, BlockInv, NEW t \in Threads, RegrowFree(t)
  PROVE  BlockInv'
<1>1. /\ Frees(t, at[t].old) /\ life[t] \in {"running", "closing"} /\ at[t].pc = "copied"
      /\ at' = [at EXCEPT ![t] = Idle] /\ life' = life /\ options' = options
  BY DEF RegrowFree, Frees, AtPlace, threads
<1>2. ThreadTypes /\ at[t].old \in DOMAIN held
  BY <1>1 DEF Inv, ThreadInv, CallsSound, OldsHeld
<1>3. Idle.pc # "remain"
  BY DEF Idle
<1>4. \A s \in Threads : at[s].pc = "remain" \/ at'[s].pc = "remain" => at'[s] = at[s]
  BY <1>1, <1>2, <1>3, OthersCut
<1>5. Undisturbed
  BY <1>1, <1>4 DEF Undisturbed
<1> QED BY <1>1, <1>2, <1>5, FreesBlocks

\* A reference to a Thread is dropped, and with the last one its block is freed.
LEMMA UnrefBlocks ==
  ASSUME Inv, BlockInv, NEW t \in Threads, NEW u \in Spawned, NEW n, Unref(t, u, n), refcnt[u] > 0,
         life'[t] \in {"running", "closing"},
         \A s \in Threads : at[s].pc = "remain" \/ at'[s].pc = "remain" => at'[s] = at[s],
         \A s \in Threads : life[s] \in {"running", "closing"} => life'[s] \in {"running", "closing"}
  PROVE  BlockInv'
<1>1. CASE refcnt[u] = 1
  <2>1. Frees(t, main[u]) /\ options' = options
    BY <1>1 DEF Unref, Frees
  <2>2. main[u] \in DOMAIN held
    BY DEF Inv, ThreadInv, MainsHeld
  <2>3. Undisturbed
    BY <2>1 DEF Undisturbed
  <2> QED BY <2>1, <2>2, <2>3, FreesBlocks
<1>2. CASE refcnt[u] # 1
  <2>1. UNCHANGED <<options, chunks, queue, first, last, held>>
    BY <1>2 DEF Unref, memory
  <2> QED BY <2>1, QuietStep
<1> QED BY <1>1, <1>2

\* Who has a reference to a Thread is counted.
LEMMA Referred ==
  ASSUME Inv, NEW u \in Spawned, life[u] = "running" \/ users[u] # {}
  PROVE  refcnt[u] > 0
<1>1. users[u] \in SUBSET Threads /\ RefsCounted
  BY DEF Inv, ThreadTypes, ThreadInv
<1>2. Cardinality(users[u]) \in Nat /\ (users[u] # {} => Cardinality(users[u]) > 0)
  BY <1>1, UsersCount
<1> QED BY <1>1, <1>2 DEF RefsCounted

\* A user drops its reference.
LEMMA UserUnrefBlocks ==
  ASSUME Inv, BlockInv, NEW t \in Threads, NEW u \in Spawned, UserUnref(t, u)
  PROVE  BlockInv'
<1>1. Unref(t, u, implrefs[u]) /\ t \in users[u] /\ life[t] = "running" /\ at' = at /\ life' = life
  BY DEF UserUnref
<1>2. refcnt[u] > 0
  BY <1>1, Referred
<1> QED BY <1>1, <1>2, UnrefBlocks

\* finish_func() begins.
LEMMA FinishBlocks ==
  ASSUME Inv, BlockInv, NEW u \in Threads, Finish(u)
  PROVE  BlockInv'
<1>1. /\ u \in Spawned /\ Unref(u, u, implrefs[u] + 1) /\ life[u] = "running" /\ at[u].pc = "idle"
      /\ Goes(u, "flush") /\ life' = [life EXCEPT ![u] = "closing"]
  BY DEF Finish, AtPlace
<1>2. ThreadTypes /\ refcnt[u] > 0
  BY <1>1, Referred DEF Inv
<1> DEFINE r == [at[u] EXCEPT !.pc = "flush"]
<1>3. at' = [at EXCEPT ![u] = r] /\ r.pc = "flush"
  BY <1>1, <1>2, GoesTo
<1> HIDE DEF r
<1>4. \A s \in Threads : at[s].pc = "remain" \/ at'[s].pc = "remain" => at'[s] = at[s]
  BY <1>1, <1>2, <1>3, OthersCut
<1>5. life'[u] = "closing" /\ \A s \in Threads \ {u} : life'[s] = life[s]
  BY <1>1, <1>2 DEF ThreadTypes
<1> QED BY <1>1, <1>2, <1>4, <1>5, UnrefBlocks

\* The end of a thread leaves no block in its lists.
LEMMA EndBlocks ==
  ASSUME Inv, BlockInv, NEW u \in Threads, End(u)
  PROVE  BlockInv'
<1>1. /\ at[u].pc = "flush" /\ Cached(u) = {} /\ life' = [life EXCEPT ![u] = "ended"]
      /\ at' = [at EXCEPT ![u] = Idle] /\ UNCHANGED <<options, chunks, queue, first, last, held>>
  BY DEF End, AtPlace, memory
<1>2. ThreadTypes /\ Idle.pc # "remain"
  BY DEF Inv, Idle
<1>3. at'[u] = Idle /\ (\A s \in Threads \ {u} : at'[s] = at[s]) /\ \A s \in Threads \ {u} : life'[s] = life[s]
  BY <1>1, <1>2 DEF ThreadTypes
<1> QED BY <1>1, <1>2, <1>3, PlaceStep

\* A thread begins, ends or goes on with something that moves no block.
LEMMA OtherBlocks ==
  ASSUME Inv, BlockInv, NEW t \in Threads, NEW u, NEW b,
         GrowFails(t) \/ FlushThreadCache(t) \/ Flushed(t) \/ Start(t, u, b) \/ Wait(t, u)
           \/ WaitLock(t) \/ WaitJoin(t) \/ WaitUnlock(t)
  PROVE  BlockInv'
<1>1. UNCHANGED <<options, chunks, queue, first, last, held>>
  BY DEF GrowFails, FlushThreadCache, Flushed, Start, Wait, WaitLock, WaitJoin, WaitUnlock, memory
<1>2. ThreadTypes /\ Idle.pc # "remain" /\ at \in [Threads -> Call]
  BY DEF Inv, Idle, ThreadTypes
<1>3. \A s \in Threads : life[s] \in {"running", "closing"} => life'[s] \in {"running", "closing"}
  <2>1. CASE Start(t, u, b)
    <3>1. life' = [life EXCEPT ![u] = "running"]
      BY <2>1 DEF Start
    <3> QED BY <1>2, <3>1 DEF ThreadTypes
  <2>2. CASE ~Start(t, u, b)
    BY <2>2 DEF GrowFails, FlushThreadCache, Flushed, Wait, WaitLock, WaitJoin, WaitUnlock, threads
  <2> QED BY <2>1, <2>2
<1>4. CASE GrowFails(t) \/ WaitUnlock(t)
  <2>1. at' = [at EXCEPT ![t] = Idle] /\ at[t].pc # "remain"
    BY <1>4 DEF GrowFails, WaitUnlock, AtPlace
  <2> QED BY <1>1, <1>2, <1>3, <2>1, OthersCut, QuietStep
<1>5. ASSUME NEW p \in {"idle", "flush", "join", "unlock"}, Goes(t, p), at[t].pc # "remain"
      PROVE  BlockInv'
  <2> DEFINE r == [at[t] EXCEPT !.pc = p]
  <2>1. at' = [at EXCEPT ![t] = r] /\ r.pc = p
    BY <1>2, <1>5, GoesTo DEF Waiting
  <2> HIDE DEF r
  <2> QED BY <1>1, <1>2, <1>3, <1>5, <2>1, OthersCut, QuietStep
<1>6. CASE FlushThreadCache(t) \/ Flushed(t) \/ WaitLock(t) \/ WaitJoin(t)
  <2>1. at[t].pc # "remain"
    BY <1>6 DEF FlushThreadCache, Flushed, WaitLock, WaitJoin, AtPlace
  <2>2. Goes(t, "flush") \/ Goes(t, "idle") \/ Goes(t, "join") \/ Goes(t, "unlock")
    BY <1>6 DEF FlushThreadCache, Flushed, WaitLock, WaitJoin
  <2> QED BY <1>5, <2>1, <2>2
<1>7. CASE Start(t, u, b)
  <2>1. at' = at
    BY <1>7 DEF Start
  <2> QED BY <1>1, <1>3, <2>1, QuietStep
<1>8. CASE Wait(t, u)
  <2>1. at[t].pc # "remain" /\ at' = [at EXCEPT ![t].pc = "lock", ![t].of = u]
    BY <1>8 DEF Wait, AtPlace
  <2>2. at'[t].pc = "lock" /\ \A s \in Threads \ {t} : at'[s] = at[s]
    BY <1>2, <2>1 DEF Call
  <2> QED BY <1>1, <1>3, <2>1, <2>2, PlaceStep
<1> QED BY <1>4, <1>6, <1>7, <1>8

-----------------------------------------------------------------------------
(* The invariant of the blocks.                                             *)

\* At first there are no blocks.
LEMMA InitBlocks ==
  ASSUME Init
  PROVE  BlockInv
<1>1. /\ chunks = [id \in {} |-> <<>>] /\ queue = [c \in Classes |-> <<>>]
      /\ first = [t \in Threads |-> queue] /\ held = [b \in {} |-> 0] /\ at = [t \in Threads |-> Idle]
  BY DEF Init
<1>2. \A k \in Keys : ListOf(k) = <<>>
  <2> SUFFICES ASSUME NEW k \in Keys PROVE ListOf(k) = <<>>
    OBVIOUS
  <2>1. k[1] \in Owners /\ k[2] \in Classes
    BY SpotFacts
  <2> QED BY <1>1, <2>1 DEF ListOf, Owners
<1>3. DOMAIN chunks = {} /\ DOMAIN held = {}
  BY <1>1
<1>4. \A t \in Threads : Cut(t) = {} /\ at[t].pc # "remain"
  BY <1>1 DEF Cut, Idle
<1>5. \A p \in Spots : Content[p] = {}
  BY <1>2, <1>3, <1>4, ContentAt, SpotFacts, EmptyRange
<1>6. ContentExact
  <2>1. Apart(Content) /\ All(Content) = {}
    BY <1>5, ContentAt DEF Apart, All
  <2> QED BY <1>3, <2>1 DEF ContentExact, AllBlocks
<1>7. ListsSound
  BY <1>1, <1>2, EmptyRange DEF ListsSound
<1>8. ListedFit
  BY <1>2, EmptyRange DEF ListedFit, Listed
<1>9. HeldFit /\ CutFit /\ ChunksFit
  BY <1>3, <1>4 DEF HeldFit, CutFit, ChunksFit
<1> QED BY <1>6, <1>7, <1>8, <1>9 DEF BlockInv

\* Every step keeps the invariant of the blocks.
LEMMA NextBlocks ==
  ASSUME Inv, BlockInv, [Next]_vars
  PROVE  BlockInv'
<1>1. CASE UNCHANGED vars
  <2>1. UNCHANGED <<options, chunks, queue, first, last, held, at, life>>
    BY <1>1 DEF vars, memory, threads
  <2> QED BY <2>1, QuietStep
<1>2. CASE EnableThreadCache
  <2>1. UNCHANGED <<chunks, queue, first, last, held, at, life>> /\ options' = options \cup {"thread"}
    BY <1>2 DEF EnableThreadCache, threads
  <2>2. "bound" \in options' <=> "bound" \in options
    BY <2>1
  <2> QED BY <2>1, <2>2, QuietStep
<1>3. ASSUME NEW t \in Threads, GoesOn(t) PROVE BlockInv'
  <2>1. CASE GrowFails(t) \/ Flushed(t) \/ WaitLock(t) \/ WaitJoin(t) \/ WaitUnlock(t)
    BY <2>1, OtherBlocks
  <2> QED BY <1>3, <2>1, PopBlocks, GrowBlocks, RemainBlocks, RegrowFreeBlocks, CloseNextBlocks,
             EndBlocks DEF GoesOn
<1>4. ASSUME NEW t \in Threads, Calls(t) PROVE BlockInv'
  <2>1. program.sizes \subseteq Nat \ {0} /\ ThreadSize \in Nat \ {0}
    BY SizesAssumption DEF Inv, MemoryTypes
  <2>2. ASSUME NEW n \in program.sizes \cup {ThreadSize}, Alloc(t, n) PROVE BlockInv'
    BY <2>1, <2>2, AsksBlocks DEF Alloc, AtPlace
  <2>3. ASSUME NEW b \in Owned, Free(t, b) PROVE BlockInv'
    BY <2>3, FreeBlocks
  <2>4. ASSUME NEW b \in Owned, NEW n \in program.sizes, Regrow(t, b, n) PROVE BlockInv'
    BY <2>1, <2>4, AsksBlocks DEF Regrow, AtPlace
  <2>5. ASSUME NEW u \in Spawned, NEW b \in Owned, Start(t, u, b) PROVE BlockInv'
    BY <2>5, OtherBlocks
  <2>6. CASE FlushThreadCache(t)
    BY <2>6, OtherBlocks
  <2>7. ASSUME NEW u \in Spawned, Wait(t, u) PROVE BlockInv'
    BY <2>7, OtherBlocks
  <2>8. ASSUME NEW u \in Spawned, UserUnref(t, u) PROVE BlockInv'
    BY <2>8, UserUnrefBlocks
  <2> QED BY <1>4, <2>2, <2>3, <2>4, <2>5, <2>6, <2>7, <2>8 DEF Calls
<1>5. ASSUME NEW t \in Threads, Finish(t) PROVE BlockInv'
  BY <1>5, FinishBlocks
<1> QED BY <1>1, <1>2, <1>3, <1>4, <1>5 DEF Next

\* Of the blocks the inductive invariant holds, whatever the threads allocate and free.
THEOREM BlockInvariance == Spec => []BlockInv
<1>1. Init => BlockInv
  BY InitBlocks
<1>2. Inv /\ BlockInv /\ [Next]_vars => BlockInv'
  BY NextBlocks
<1>3. Spec => []Inv
  BY ThreadInvariance
<1> QED
  BY <1>1, <1>2, <1>3, PTL DEF Spec

\* The invariants of threads and blocks say what BlocksExact does.
LEMMA InvExact ==
  ASSUME Inv, BlockInv
  PROVE  BlocksExact
<1>1. /\ ContentExact /\ ListsSound /\ ListedFit /\ HeldFit /\ MemoryTypes
  BY DEF BlockInv, Inv
<1> DEFINE listed == UNION {Listed(k) : k \in Lists}
<1>2. \A k \in Lists : k \in Keys
  BY DEF Lists, Keys, Owners
<1>3. \A k \in Keys : ListOf(k) # <<>> => k \in Lists
  <2> SUFFICES ASSUME NEW k \in Keys, ListOf(k) # <<>> PROVE k \in Lists
    OBVIOUS
  <2>1. k[1] \in Owners /\ k[2] \in Classes /\ k = <<k[1], k[2]>>
    BY SpotFacts
  <2>2. k[1] = NoThread \/ (k[1] \in Threads /\ life[k[1]] # "ended")
    <3>1. CASE k[1] # NoThread
      <4>1. k[1] \in Threads /\ ListOf(k) = first[k[1]][k[2]]
        BY <2>1, <3>1 DEF Owners, ListOf
      <4>2. life[k[1]] \in {"running", "closing"}
        BY <1>1, <2>1, <4>1 DEF ListsSound
      <4> QED BY <4>1, <4>2
    <3> QED BY <3>1
  <2>3. k \in ({NoThread} \cup {t \in Threads : life[t] # "ended"}) \X Classes
    BY <2>1, <2>2
  <2> QED BY <2>3 DEF Lists
<1>4. \A x : x \in listed <=> \E k \in Keys : x \in Listed(k)
  <2>1. \A k \in Keys : Listed(k) # {} => k \in Lists
    BY <1>3, EmptyRange DEF Listed
  <2> QED BY <1>2, <2>1
<1>5. \A x : x \in InCall <=> \E t \in Threads : x \in Cut(t)
  BY DEF InCall, Cut
<1>6. \A x : x \in AllBlocks <=> x \in listed \cup DOMAIN held \cup InCall
  <2>1. \A x : x \in AllBlocks <=> \E p \in Spots : x \in Content[p]
    BY <1>1, ContentAt DEF ContentExact, All
  <2>2. \A x : (\E p \in Spots : x \in Content[p]) <=>
               (\E k \in Keys : x \in Listed(k)) \/ x \in DOMAIN held \/ (\E t \in Threads : x \in Cut(t))
    <3>1. \A k \in Keys : k \in Spots /\ Content[k] = Listed(k)
      BY ContentAt, SpotFacts DEF Listed
    <3>2. InUse \in Spots /\ Content[InUse] = DOMAIN held
      BY ContentAt, SpotFacts
    <3>3. \A t \in Threads : <<t, 0>> \in Spots /\ Content[<<t, 0>>] = Cut(t)
      BY ContentAt, SpotFacts
    <3>4. \A p \in Spots : p \in Keys \/ p = InUse \/ \E t \in Threads : p = <<t, 0>>
      BY SpotFacts
    <3>5. ASSUME NEW x, NEW p \in Spots, x \in Content[p]
          PROVE  (\E k \in Keys : x \in Listed(k)) \/ x \in DOMAIN held \/ (\E t \in Threads : x \in Cut(t))
      BY <3>1, <3>2, <3>3, <3>4, <3>5
    <3> QED BY <3>1, <3>2, <3>3, <3>5
  <2> QED BY <1>4, <1>5, <2>1, <2>2
<1>7. \A p, q \in Spots : p # q => Content[p] \cap Content[q] = {}
  BY <1>1, ContentAt DEF ContentExact, Apart
<1>8. \A k, m \in Keys : k # m => Listed(k) \cap Listed(m) = {}
  BY <1>7, ContentAt, SpotFacts DEF Listed
<1>9. \A k \in Keys : Listed(k) \cap DOMAIN held = {}
  BY <1>7, ContentAt, SpotFacts DEF Listed
<1>10. \A t \in Threads : Cut(t) \cap DOMAIN held = {} /\ \A k \in Keys : Cut(t) \cap Listed(k) = {}
  <2> SUFFICES ASSUME NEW t \in Threads
               PROVE  Cut(t) \cap DOMAIN held = {} /\ \A k \in Keys : Cut(t) \cap Listed(k) = {}
    OBVIOUS
  <2>1. <<t, 0>> \in Spots /\ <<t, 0>> # InUse /\ Content[<<t, 0>>] = Cut(t)
    BY ContentAt, SpotFacts
  <2>2. InUse \in Spots /\ Content[InUse] = DOMAIN held
    BY ContentAt, SpotFacts
  <2>3. \A k \in Keys : k \in Spots /\ k # <<t, 0>> /\ Content[k] = Listed(k)
    BY ContentAt, SpotFacts DEF Listed
  <2> QED BY <1>7, <2>1, <2>2, <2>3
<1>11. listed \cap DOMAIN held = {} /\ InCall \cap (listed \cup DOMAIN held) = {}
  BY <1>4, <1>5, <1>9, <1>10
<1>12. \A k \in Lists : IsInjective(ListOf(k)) /\ \A m \in Lists \ {k} : Listed(k) \cap Listed(m) = {}
  BY <1>1, <1>2, <1>8 DEF ListsSound
<1>13. \A k \in Lists : \A b \in Listed(k) : Extent(b) >= k[2]
  BY <1>1, <1>2 DEF ListedFit, FitsList
<1>14. ASSUME NEW b \in DOMAIN held PROVE Extent(b) >= WithBound(held[b])
  <2> DEFINE size == WithBound(held[b])
  <2>1. held[b] \in Nat \ {0} /\ FitsSize(b, size)
    BY <1>1 DEF MemoryTypes, HeldFit
  <2>2. size \in Nat \ {0}
    BY <2>1, Bounded
  <2>3. b \in AllBlocks
    BY <1>6
  <2>4. b[1] \in DOMAIN chunks /\ b \in Blocks(b[1])
    BY <1>1, <2>3, BlockChunk
  <2>5. CASE size > 1024
    <3>1. chunks[b[1]].class = 0 /\ chunks[b[1]].len = size + Align
      BY <2>1, <2>5 DEF FitsSize
    <3>2. b = <<b[1], FirstAt>>
      BY <1>1, <2>4, <3>1, BlockShape
    <3>3. b[2] = 8
      BY <3>2 DEF FirstAt, Align, Ptr
    <3> HIDE DEF size
    <3>4. Extent(b) = (size + Align) - 8 /\ Align = 16
      BY <3>1, <3>3 DEF Extent, Align
    <3>5. Extent(b) >= size
      BY <2>2, <3>4
    <3> QED BY <3>5 DEF size
  <2>6. CASE ~(size > 1024)
    <3>1. FitsList(b, ClassOf(size)) /\ size <= 1024
      BY <2>1, <2>2, <2>6 DEF FitsSize
    <3>2. ClassOf(size) \in Classes /\ size <= ClassOf(size)
      BY <2>2, <3>1, ClassFits
    <3>3. Extent(b) >= ClassOf(size) /\ Extent(b) \in Int
      <4>1. chunks[b[1]].len \in Nat /\ chunks[b[1]].class \in Classes
        BY <1>1, <2>4, <3>1 DEF MemoryTypes, FitsList
      <4>2. b[2] \in Nat /\ chunks[b[1]].class \in Nat
        BY <1>1, <2>4, <4>1, BlockShape, ChunkFacts DEF Block
      <4>3. Extent(b) \in Int
        BY <4>1, <4>2 DEF Extent
      <4> QED BY <3>1, <4>3 DEF FitsList
    <3>4. ClassOf(size) \in Nat
      BY <3>2, ChunkFacts
    <3> HIDE DEF size
    <3>5. Extent(b) >= size
      BY <2>2, <3>2, <3>3, <3>4
    <3> QED BY <3>5 DEF size
  <2> QED BY <2>5, <2>6
<1>15. listed \cup DOMAIN held \cup InCall = UNION {Blocks(id) : id \in DOMAIN chunks}
  BY <1>6 DEF AllBlocks
<1> QED BY <1>11, <1>12, <1>13, <1>14, <1>15 DEF BlocksExact

\* Every block that was taken from malloc() is in use, in one list that a thread can
\* still get it from or with the thread that cuts its chunk, in one of these and once,
\* and is as long as its list or its user thinks: whatever number of threads allocate,
\* replace and free blocks of any sizes, flush their lists and end.
THEOREM BlocksAreExact == Spec => []BlocksExact
BY ThreadInvariance, BlockInvariance, InvExact, PTL
=============================================================================
