--------------------------- MODULE StringsProofs ---------------------------
(***************************************************************************)
(* Proofs about Strings: the counters of the shared data and buffers are   *)
(* exact, equality of Strings is equality of their texts, no operation     *)
(* changes the text of another handle, and every operation gives its own   *)
(* handle a text that TextValues allows.  Then what the searches and       *)
(* replace() promise each other, and what format() prints of integers, for *)
(* all texts and numbers.                                                  *)
(***************************************************************************)
EXTENDS Strings, SeqLemmas, TLAPS

(* Shapes.  Texts and hashes are not typed: no step depends on it.         *)
Handles == Strs \cup Blobs
Reps == Places \cup {NoRep}
IsData(r) == DOMAIN r = {"rc", "b", "w", "hash"} /\ r.rc \in Nat /\ r.b \in Reps /\ r.w \in Reps
IsBuf(r) == DOMAIN r = {"rc", "s", "al", "hash"} /\ r.rc \in Nat
DataHeap(dt) == DOMAIN dt = Places /\ \A i \in Places : dt[i] = Free \/ IsData(dt[i])
BufHeap(bf) == DOMAIN bf = Places /\ \A j \in Places : bf[j] = Free \/ IsBuf(bf[j])
Pendings == {Idle} \cup [k : {"b", "w"}, new : Places]

TypeOK ==
    /\ prog \in Programs
    /\ d \in [Handles -> Places]
    /\ DataHeap(data) /\ BufHeap(buf)
    /\ pend \in [Handles -> Pendings]

(* Owners, counted for any state of the heaps: a step changes them one     *)
(* after the other.                                                        *)
BlobsAt(dd, j) == {x \in Blobs : dd[x] = j}
StrsAt(dd, i) == {h \in Strs : dd[h] = i}
BytesAt(dt, j) == {i \in Live(dt) \ Static : dt[i].b = j}
WidesAt(dt, j) == {i \in Live(dt) \ Static : dt[i].w = j}
PendsAt(pp, j) == {h \in Strs : pp[h] # Idle /\ pp[h].new = j}
DataCount(dd) == [i \in Places |-> Cardinality(StrsAt(dd, i)) + (IF i \in Static THEN 1 ELSE 0)]
BufCount(dd, dt, pp) ==
    [j \in Places |-> Cardinality(BlobsAt(dd, j)) + Cardinality(BytesAt(dt, j)) + Cardinality(WidesAt(dt, j))
                      + Cardinality(PendsAt(pp, j)) + (IF j \in Static THEN 2 ELSE 0)]

\* The counters of a heap are the numbers n, less one; what is free is not counted.
Exact(heap, n) == \A i \in Places : IF heap[i] = Free THEN n[i] = 0 ELSE heap[i].rc + 1 = n[i]

Counted == Exact(data, DataCount(d)) /\ Exact(buf, BufCount(d, data, pend))

\* The static data stay what they are; only hash and counter of zero change.
StaticsSound ==
    /\ \A i \in Static : /\ data[i] # Free /\ data[i].b = i /\ data[i].w = i
                         /\ buf[i] # Free /\ buf[i].s = <<>>
    /\ data[Null].hash = NullHash

\* A StrData in use has a text; two representations of it are the same but for
\* what one of them cannot hold; a hash is the one of a representation.
TextOf(r, bf) == IF r.b # NoRep THEN bf[r.b].s ELSE bf[r.w].s
DataSound(i, r, bf) ==
    /\ r.b # NoRep \/ r.w # NoRep
    /\ r.b # NoRep /\ r.w # NoRep => Fold(bf[r.b].s) = Fold(bf[r.w].s)
    /\ i # Null /\ r.hash # None =>
         (r.b # NoRep /\ r.hash = Hash(bf[r.b].s)) \/ (r.w # NoRep /\ r.hash = Hash(bf[r.w].s))
TextsSound == \A i \in Places : data[i] # Free => DataSound(i, data[i], buf)

\* A conversion that is not stored yet has the text of its handle.
PendsSound == \A h \in Strs : pend[h] # Idle => Fold(buf[pend[h].new].s) = Fold(TextOf(data[d[h]], buf))

CountInv == TypeOK /\ Counted
IInv == CountInv /\ StaticsSound /\ TextsSound /\ PendsSound

\* The handle h may have a new text, no other one has.
OthersSame(h) == \A g \in Handles \ {h} : Val(g)' = Val(g)
AllSame == \A g \in Handles : Val(g)' = Val(g)

-----------------------------------------------------------------------------
(* Counting.                                                               *)
One(x, y) == IF x = y THEN 1 ELSE 0

\* The sets of the constants, as the proofs use them.
LEMMA Constants ==
  /\ IsFiniteSet(Strs) /\ IsFiniteSet(Blobs) /\ Strs \cap Blobs = {} /\ MaxPlace \in Nat
  /\ Cardinality(Strs) \in Nat /\ Cardinality(Blobs) \in Nat
  /\ MaxPlace > 3 * Cardinality(Strs) + Cardinality(Blobs)
  /\ Places \subseteq Int /\ IsFiniteSet(Places) /\ NoRep \notin Places
  /\ Static \subseteq Places /\ Null \in Static /\ Zero \in Static /\ Null # Zero
  /\ Places \ Static = 1..MaxPlace
<1>1. /\ IsFiniteSet(Strs) /\ IsFiniteSet(Blobs) /\ Strs \cap Blobs = {} /\ MaxPlace \in Nat
      /\ MaxPlace > 3 * Cardinality(Strs) + Cardinality(Blobs)
  BY StringsAssumption
<1>2. Cardinality(Strs) \in Nat /\ Cardinality(Blobs) \in Nat
  BY <1>1, FS_CardinalityType
<1>3. Places = (-1)..MaxPlace
  BY <1>1 DEF Places, Static, Null, Zero
<1>4. IsFiniteSet((-1)..MaxPlace)
  BY <1>1, FS_Interval
<1>5. /\ (-1)..MaxPlace \subseteq Int /\ -2 \notin (-1)..MaxPlace /\ {-1, 0} \subseteq (-1)..MaxPlace
      /\ (-1)..MaxPlace \ {-1, 0} = 1..MaxPlace
  BY <1>1
<1>6. Static = {-1, 0} /\ Null = -1 /\ Zero = 0 /\ NoRep = -2
  BY DEF Static, Null, Zero, NoRep
<1> QED BY <1>1, <1>2, <1>3, <1>4, <1>5, <1>6

\* Two sets that differ in one element at most.
LEMMA Differ ==
  ASSUME NEW A, NEW B, NEW h, IsFiniteSet(A), A \ {h} = B \ {h}
  PROVE  /\ IsFiniteSet(B) /\ Cardinality(A) \in Nat /\ Cardinality(B) \in Nat
         /\ Cardinality(B) = Cardinality(A) + (IF h \in B THEN 1 ELSE 0) - (IF h \in A THEN 1 ELSE 0)
<1> DEFINE C == A \ {h}
<1>1. /\ IsFiniteSet(C) /\ Cardinality(C) = IF h \in A THEN Cardinality(A) - 1 ELSE Cardinality(A)
  BY FS_RemoveElement
<1>2. /\ IsFiniteSet(C \cup {h}) /\ Cardinality(C \cup {h}) = IF h \in C THEN Cardinality(C) ELSE Cardinality(C) + 1
  BY <1>1, FS_AddElement
<1>3. B = IF h \in B THEN C \cup {h} ELSE C
  OBVIOUS
<1>4. Cardinality(A) \in Nat /\ Cardinality(C) \in Nat /\ h \notin C
  BY <1>1, FS_CardinalityType
<1> HIDE DEF C
<1>5. CASE h \in B
  <2>1. B = C \cup {h}
    BY <1>3, <1>5
  <2>2. IsFiniteSet(B) /\ Cardinality(B) = Cardinality(C) + 1
    BY <1>2, <1>4, <2>1
  <2> QED BY <1>1, <1>4, <1>5, <2>2
<1>6. CASE h \notin B
  BY <1>1, <1>2, <1>3, <1>4, <1>6
<1> QED BY <1>5, <1>6

\* The sets of owners are finite.
LEMMA OwnersFinite ==
  ASSUME NEW dd, NEW dt, NEW pp, DOMAIN dt = Places, NEW j
  PROVE  /\ IsFiniteSet(BlobsAt(dd, j)) /\ IsFiniteSet(StrsAt(dd, j)) /\ IsFiniteSet(BytesAt(dt, j))
         /\ IsFiniteSet(WidesAt(dt, j)) /\ IsFiniteSet(PendsAt(pp, j))
<1>1. /\ BlobsAt(dd, j) \in SUBSET Blobs /\ StrsAt(dd, j) \in SUBSET Strs /\ BytesAt(dt, j) \in SUBSET Places
      /\ WidesAt(dt, j) \in SUBSET Places /\ PendsAt(pp, j) \in SUBSET Strs
  BY DEF BlobsAt, StrsAt, BytesAt, WidesAt, PendsAt, Live
<1> QED BY <1>1, Constants, FS_Subset

\* Counts are numbers.
LEMMA CountTypes ==
  ASSUME NEW dd, NEW dt, NEW pp, DOMAIN dt = Places
  PROVE  DataCount(dd) \in [Places -> Nat] /\ BufCount(dd, dt, pp) \in [Places -> Nat]
<1>1. \A j \in Places : /\ Cardinality(BlobsAt(dd, j)) \in Nat /\ Cardinality(StrsAt(dd, j)) \in Nat
                        /\ Cardinality(BytesAt(dt, j)) \in Nat /\ Cardinality(WidesAt(dt, j)) \in Nat
                        /\ Cardinality(PendsAt(pp, j)) \in Nat
  BY OwnersFinite, FS_CardinalityType
<1> QED BY <1>1 DEF DataCount, BufCount

\* The handle h points to i, then; h has the pending conversion q, then.
MovesTo(dd, h, i, e) == dd \in [Handles -> Places] /\ i \in Places /\ e = [dd EXCEPT ![h] = i]
PendsTo(pp, h, q, e) == pp \in [Handles -> Pendings] /\ q \in Pendings /\ e = [pp EXCEPT ![h] = q]

\* What that changes, for a String handle and for a blob.
StrMoved(dd, h, i, e, dt, pp) ==
    /\ i \in Places /\ e \in [Handles -> Places] /\ BufCount(e, dt, pp) = BufCount(dd, dt, pp)
    /\ \A k \in Places : DataCount(e)[k] = DataCount(dd)[k] + One(k, i) - One(k, dd[h])
BlobMoved(dd, x, i, e, dt, pp) ==
    /\ i \in Places /\ e \in [Handles -> Places] /\ DataCount(e) = DataCount(dd)
    /\ \A k \in Places : BufCount(e, dt, pp)[k] = BufCount(dd, dt, pp)[k] + One(k, i) - One(k, dd[x])

\* A String handle points elsewhere.
LEMMA StrMoves ==
  ASSUME NEW dd, NEW h \in Strs, NEW i, NEW dt, NEW pp, DOMAIN dt = Places, NEW e, MovesTo(dd, h, i, e)
  PROVE  StrMoved(dd, h, i, e, dt, pp)
<1>1. i \in Places /\ e \in [Handles -> Places] /\ e[h] = i /\ \A g \in Handles \ {h} : e[g] = dd[g]
  BY DEF Handles, MovesTo
<1>2. \A j \in Places : BlobsAt(e, j) = BlobsAt(dd, j)
  BY <1>1, Constants DEF BlobsAt, Handles
<1>3. BufCount(e, dt, pp) = BufCount(dd, dt, pp)
  BY <1>2 DEF BufCount
<1>4. ASSUME NEW k \in Places
      PROVE  DataCount(e)[k] = DataCount(dd)[k] + One(k, i) - One(k, dd[h])
  <2> DEFINE A == StrsAt(dd, k)  B == StrsAt(e, k)
  <2>1. A \ {h} = B \ {h} /\ (h \in A <=> dd[h] = k) /\ (h \in B <=> i = k)
    BY <1>1 DEF StrsAt, Handles
  <2>2. IsFiniteSet(A)
    BY OwnersFinite
  <2> HIDE DEF A, B
  <2>3. /\ Cardinality(A) \in Nat /\ Cardinality(B) \in Nat
        /\ Cardinality(B) = Cardinality(A) + (IF h \in B THEN 1 ELSE 0) - (IF h \in A THEN 1 ELSE 0)
    BY <2>1, <2>2, Differ
  <2> QED BY <2>1, <2>3 DEF DataCount, One, A, B
<1> QED BY <1>1, <1>3, <1>4 DEF StrMoved

\* A blob handle points elsewhere.
LEMMA BlobMoves ==
  ASSUME NEW dd, NEW x \in Blobs, NEW i, NEW dt, NEW pp, DOMAIN dt = Places, NEW e, MovesTo(dd, x, i, e)
  PROVE  BlobMoved(dd, x, i, e, dt, pp)
<1>1. i \in Places /\ e \in [Handles -> Places] /\ e[x] = i /\ \A g \in Handles \ {x} : e[g] = dd[g]
  BY DEF Handles, MovesTo
<1>2. \A j \in Places : StrsAt(e, j) = StrsAt(dd, j)
  BY <1>1, Constants DEF StrsAt, Handles
<1>3. DataCount(e) = DataCount(dd)
  BY <1>2 DEF DataCount
<1>4. ASSUME NEW k \in Places
      PROVE  BufCount(e, dt, pp)[k] = BufCount(dd, dt, pp)[k] + One(k, i) - One(k, dd[x])
  <2> DEFINE A == BlobsAt(dd, k)  B == BlobsAt(e, k)
  <2>1. A \ {x} = B \ {x} /\ (x \in A <=> dd[x] = k) /\ (x \in B <=> i = k)
    BY <1>1 DEF BlobsAt, Handles
  <2>2. /\ IsFiniteSet(A) /\ Cardinality(BytesAt(dt, k)) \in Nat /\ Cardinality(WidesAt(dt, k)) \in Nat
        /\ Cardinality(PendsAt(pp, k)) \in Nat
    BY OwnersFinite, FS_CardinalityType
  <2> HIDE DEF A, B
  <2>3. /\ Cardinality(A) \in Nat /\ Cardinality(B) \in Nat
        /\ Cardinality(B) = Cardinality(A) + (IF x \in B THEN 1 ELSE 0) - (IF x \in A THEN 1 ELSE 0)
    BY <2>1, <2>2, Differ
  <2> QED BY <2>1, <2>2, <2>3 DEF BufCount, One, A, B
<1> QED BY <1>1, <1>3, <1>4 DEF BlobMoved

\* What the StrData r owns of the buffer j, and what a pending conversion does.
DataPart(r, j) == IF r = Free THEN 0 ELSE One(j, r.b) + One(j, r.w)
PendPart(q, j) == IF q = Idle THEN 0 ELSE One(j, q.new)

\* One StrData that is not static changes.
LEMMA DataChanges ==
  ASSUME NEW dd, NEW dt, NEW et, NEW pp, NEW i \in Places \ Static, DataHeap(dt), DataHeap(et),
         \A k \in Places \ {i} : et[k] = dt[k]
  PROVE  \A j \in Places : BufCount(dd, et, pp)[j]
            = BufCount(dd, dt, pp)[j] + DataPart(et[i], j) - DataPart(dt[i], j)
<1> SUFFICES ASSUME NEW j \in Places
             PROVE  BufCount(dd, et, pp)[j]
                      = BufCount(dd, dt, pp)[j] + DataPart(et[i], j) - DataPart(dt[i], j)
  OBVIOUS
<1> DEFINE A == BytesAt(dt, j)  B == BytesAt(et, j)  V == WidesAt(dt, j)  W == WidesAt(et, j)
<1>1. DOMAIN dt = Places /\ DOMAIN et = Places
  BY DEF DataHeap
<1>2. /\ A \ {i} = B \ {i} /\ (i \in A <=> dt[i] # Free /\ dt[i].b = j) /\ (i \in B <=> et[i] # Free /\ et[i].b = j)
      /\ V \ {i} = W \ {i} /\ (i \in V <=> dt[i] # Free /\ dt[i].w = j) /\ (i \in W <=> et[i] # Free /\ et[i].w = j)
  BY <1>1 DEF BytesAt, WidesAt, Live
<1>3. /\ IsFiniteSet(A) /\ IsFiniteSet(V) /\ Cardinality(BlobsAt(dd, j)) \in Nat /\ Cardinality(PendsAt(pp, j)) \in Nat
  BY <1>1, OwnersFinite, FS_CardinalityType
<1> HIDE DEF A, B, V, W
<1>4. /\ Cardinality(A) \in Nat /\ Cardinality(B) \in Nat
      /\ Cardinality(B) = Cardinality(A) + (IF i \in B THEN 1 ELSE 0) - (IF i \in A THEN 1 ELSE 0)
  BY <1>2, <1>3, Differ
<1>5. /\ Cardinality(V) \in Nat /\ Cardinality(W) \in Nat
      /\ Cardinality(W) = Cardinality(V) + (IF i \in W THEN 1 ELSE 0) - (IF i \in V THEN 1 ELSE 0)
  BY <1>2, <1>3, Differ
<1>6. DataPart(dt[i], j) = (IF i \in A THEN 1 ELSE 0) + (IF i \in V THEN 1 ELSE 0)
  BY <1>2 DEF DataPart, One
<1>7. DataPart(et[i], j) = (IF i \in B THEN 1 ELSE 0) + (IF i \in W THEN 1 ELSE 0)
  BY <1>2 DEF DataPart, One
<1> QED BY <1>3, <1>4, <1>5, <1>6, <1>7 DEF BufCount, A, B, V, W

\* The same data with the same representations; counters and hashes may differ.
SameReps(dt, et) ==
    /\ DOMAIN dt = Places /\ DOMAIN et = Places
    /\ \A k \in Places : /\ et[k] = Free <=> dt[k] = Free
                         /\ dt[k] # Free => et[k].b = dt[k].b /\ et[k].w = dt[k].w

\* They own the same buffers.
LEMMA RepsKept ==
  ASSUME NEW dd, NEW dt, NEW et, NEW pp, SameReps(dt, et)
  PROVE  BufCount(dd, et, pp) = BufCount(dd, dt, pp)
<1>1. \A j \in Places : BytesAt(et, j) = BytesAt(dt, j) /\ WidesAt(et, j) = WidesAt(dt, j)
  BY DEF SameReps, BytesAt, WidesAt, Live
<1> QED BY <1>1 DEF BufCount

\* What another pending conversion changes.
PendMoved(dd, dt, pp, h, q, e) ==
    /\ e \in [Handles -> Pendings]
    /\ \A j \in Places : BufCount(dd, dt, e)[j] = BufCount(dd, dt, pp)[j] + PendPart(q, j) - PendPart(pp[h], j)

\* A conversion begins or ends.
LEMMA PendChanges ==
  ASSUME NEW dd, NEW dt, NEW pp, NEW h \in Strs, NEW q, DOMAIN dt = Places, NEW e, PendsTo(pp, h, q, e)
  PROVE  PendMoved(dd, dt, pp, h, q, e)
<1>1. e \in [Handles -> Pendings] /\ e[h] = q /\ \A g \in Handles \ {h} : e[g] = pp[g]
  BY DEF Handles, PendsTo
<1>2. ASSUME NEW j \in Places
      PROVE  BufCount(dd, dt, e)[j] = BufCount(dd, dt, pp)[j] + PendPart(q, j) - PendPart(pp[h], j)
  <2> DEFINE A == PendsAt(pp, j)  B == PendsAt(e, j)
  <2>1. A \ {h} = B \ {h} /\ (h \in A <=> pp[h] # Idle /\ pp[h].new = j) /\ (h \in B <=> q # Idle /\ q.new = j)
    BY <1>1 DEF PendsAt, Handles
  <2>2. /\ IsFiniteSet(A) /\ Cardinality(BlobsAt(dd, j)) \in Nat /\ Cardinality(BytesAt(dt, j)) \in Nat
        /\ Cardinality(WidesAt(dt, j)) \in Nat
    BY OwnersFinite, FS_CardinalityType
  <2> HIDE DEF A, B
  <2>3. /\ Cardinality(A) \in Nat /\ Cardinality(B) \in Nat
        /\ Cardinality(B) = Cardinality(A) + (IF h \in B THEN 1 ELSE 0) - (IF h \in A THEN 1 ELSE 0)
    BY <2>1, <2>2, Differ
  <2>4. /\ PendPart(q, j) = (IF h \in B THEN 1 ELSE 0)
        /\ PendPart(pp[h], j) = (IF h \in A THEN 1 ELSE 0)
    BY <2>1 DEF PendPart, One
  <2> QED BY <2>2, <2>3, <2>4 DEF BufCount, A, B
<1> QED BY <1>1, <1>2 DEF PendMoved

-----------------------------------------------------------------------------
(* The operations on one heap.                                             *)

\* A new owner.
LEMMA BufRef ==
  ASSUME NEW bf, BufHeap(bf), NEW n \in [Places -> Nat], Exact(bf, n), NEW i \in Places, bf[i] # Free,
         NEW m \in [Places -> Nat], \A k \in Places : m[k] = n[k] + One(k, i)
  PROVE  /\ BufHeap(RefBuf(bf, i)) /\ Exact(RefBuf(bf, i), m)
         /\ \A k \in Places : bf[k] # Free => RefBuf(bf, i)[k] # Free /\ RefBuf(bf, i)[k].s = bf[k].s
<1>1. RefBuf(bf, i) = [bf EXCEPT ![i].rc = @ + 1]
  BY Constants DEF RefBuf
<1> DEFINE e == [bf EXCEPT ![i].rc = @ + 1]
<1>2. DOMAIN bf = Places /\ IsBuf(bf[i])
  BY DEF BufHeap
<1>3. DOMAIN e = Places /\ e[i] = [bf[i] EXCEPT !.rc = @ + 1] /\ \A k \in Places \ {i} : e[k] = bf[k]
  BY <1>2
<1> HIDE DEF e
<1>4. IsBuf(e[i]) /\ e[i].rc = bf[i].rc + 1 /\ e[i].s = bf[i].s
  BY <1>2, <1>3 DEF IsBuf
<1>5. e[i] # Free
  BY <1>4 DEF IsBuf, Free
<1>6. BufHeap(e)
  BY <1>3, <1>4 DEF BufHeap
<1>7. Exact(e, m)
  BY <1>2, <1>3, <1>4, <1>5 DEF Exact, One, IsBuf
<1> QED BY <1>1, <1>3, <1>4, <1>5, <1>6, <1>7 DEF e

\* An owner less; the last one frees.
LEMMA BufUnref ==
  ASSUME NEW bf, BufHeap(bf), NEW n \in [Places -> Nat], Exact(bf, n), NEW i \in Reps,
         NEW m \in [Places -> Nat], \A k \in Places : m[k] = n[k] - One(k, i)
  PROVE  /\ BufHeap(UnrefBuf(bf, i)) /\ Exact(UnrefBuf(bf, i), m)
         /\ \A k \in Places : UnrefBuf(bf, i)[k] # Free => bf[k] # Free /\ UnrefBuf(bf, i)[k].s = bf[k].s
<1>1. CASE i = NoRep
  <2>1. UnrefBuf(bf, i) = bf /\ \A k \in Places : m[k] = n[k]
    BY <1>1, Constants DEF UnrefBuf, One
  <2> QED BY <2>1 DEF Exact
<1>2. CASE i # NoRep
  <2>1. i \in Places
    BY <1>2 DEF Reps
  <2>2. n[i] # 0
    BY <2>1 DEF One
  <2>3. bf[i] # Free /\ bf[i].rc + 1 = n[i]
    BY <2>1, <2>2 DEF Exact
  <2>4. DOMAIN bf = Places /\ IsBuf(bf[i])
    BY <2>1, <2>3 DEF BufHeap
  <2>5. CASE bf[i].rc = 0
    <3> DEFINE e == [bf EXCEPT ![i] = Free]
    <3>1. UnrefBuf(bf, i) = e
      BY <1>2, <2>5 DEF UnrefBuf
    <3>2. DOMAIN e = Places /\ e[i] = Free /\ \A k \in Places \ {i} : e[k] = bf[k]
      BY <2>1, <2>4
    <3> HIDE DEF e
    <3>3. BufHeap(e)
      BY <3>2 DEF BufHeap
    <3>4. Exact(e, m)
      BY <2>1, <2>3, <2>5, <3>2 DEF Exact, One
    <3> QED BY <3>1, <3>2, <3>3, <3>4
  <2>6. CASE bf[i].rc # 0
    <3> DEFINE e == [bf EXCEPT ![i].rc = @ - 1]
    <3>1. UnrefBuf(bf, i) = e
      BY <1>2, <2>6 DEF UnrefBuf
    <3>2. DOMAIN e = Places /\ e[i] = [bf[i] EXCEPT !.rc = @ - 1] /\ \A k \in Places \ {i} : e[k] = bf[k]
      BY <2>1, <2>4
    <3> HIDE DEF e
    <3>3. IsBuf(e[i]) /\ e[i].rc = bf[i].rc - 1 /\ e[i].s = bf[i].s
      BY <2>4, <2>6, <3>2 DEF IsBuf
    <3>4. e[i] # Free
      BY <3>3 DEF IsBuf, Free
    <3>5. BufHeap(e)
      BY <3>2, <3>3 DEF BufHeap
    <3>6. Exact(e, m)
      BY <2>1, <2>3, <2>4, <3>2, <3>3, <3>4 DEF Exact, One, IsBuf
    <3> QED BY <2>1, <2>3, <3>1, <3>2, <3>3, <3>4, <3>5, <3>6
  <2> QED BY <2>5, <2>6
<1> QED BY <1>1, <1>2

-----------------------------------------------------------------------------
(* There is always a free place: every thing allocated has an owner, and   *)
(* the handles can own no more than MaxPlace.                              *)

\* A heap whose things are all in a set smaller than MaxPlace has a free place.
LEMMA FreePlace ==
  ASSUME NEW heap, DOMAIN heap = Places, \A i \in Static : heap[i] # Free,
         NEW T, IsFiniteSet(T), \A i \in Places \ Static : heap[i] # Free => i \in T, Cardinality(T) < MaxPlace
  PROVE  FreeId(heap) \in Places \ Static /\ heap[FreeId(heap)] = Free
<1> DEFINE S == Places \ Live(heap)
<1>1. S \subseteq 1..MaxPlace
  BY Constants DEF Live
<1>2. S # {}
  <2> SUFFICES ASSUME S = {} PROVE FALSE
    OBVIOUS
  <2>1. 1..MaxPlace \in SUBSET T
    BY Constants DEF Live
  <2>2. Cardinality(1..MaxPlace) <= Cardinality(T) /\ Cardinality(T) \in Nat
    BY <2>1, FS_Subset, FS_CardinalityType
  <2>3. Cardinality(1..MaxPlace) = MaxPlace
    <3>1. Cardinality(1..MaxPlace) = IF 1 > MaxPlace THEN 0 ELSE MaxPlace - 1 + 1
      BY FS_Interval, Constants
    <3> QED BY <3>1, Constants
  <2> QED BY <2>2, <2>3, Constants
<1>3. PICK x \in S : \A y \in S : x <= y
  <2>1. S \in SUBSET Nat
    BY <1>1, Constants
  <2> QED BY <1>2, <2>1, Smallest
<1> HIDE DEF S
<1>4. Min(S) \in S
  BY <1>3 DEF Min
<1> QED BY <1>1, <1>4, Constants DEF S, FreeId, Live

\* What a handle can own: a blob a buffer, a String two and a conversion.
OwnerSlots == (Blobs \X {0}) \cup (Strs \X {1, 2, 3})

\* How many.
LEMMA SlotCount == IsFiniteSet(OwnerSlots) /\ Cardinality(OwnerSlots) < MaxPlace
<1>1. IsFiniteSet({0}) /\ Cardinality({0}) = 1
  BY FS_Singleton
<1>2. IsFiniteSet({1, 2, 3}) /\ Cardinality({1, 2, 3}) = 3
  <2>1. IsFiniteSet({1}) /\ Cardinality({1}) = 1
    BY FS_Singleton
  <2>2. IsFiniteSet({1} \cup {2}) /\ Cardinality({1} \cup {2}) = 2
    BY <2>1, FS_AddElement
  <2>3. IsFiniteSet(({1} \cup {2}) \cup {3}) /\ Cardinality(({1} \cup {2}) \cup {3}) = 3
    BY <2>2, FS_AddElement
  <2>4. ({1} \cup {2}) \cup {3} = {1, 2, 3}
    OBVIOUS
  <2> QED BY <2>3, <2>4
<1> DEFINE A == Blobs \X {0}  B == Strs \X {1, 2, 3}
<1>4. IsFiniteSet(A) /\ Cardinality(A) = Cardinality(Blobs) * Cardinality({0})
  BY <1>1, Constants, FS_Product
<1>5. IsFiniteSet(B) /\ Cardinality(B) = Cardinality(Strs) * Cardinality({1, 2, 3})
  BY <1>2, Constants, FS_Product
<1>6. A \cap B = {}
  OBVIOUS
<1> HIDE DEF A, B
<1>7. IsFiniteSet(A \cup B) /\ Cardinality(A \cup B) = Cardinality(A) + Cardinality(B) - Cardinality(A \cap B)
  BY <1>4, <1>5, FS_Union
<1>8. Cardinality(A \cap B) = 0
  BY <1>6, FS_EmptySet
<1>9. Cardinality(A) = Cardinality(Blobs) /\ Cardinality(B) = 3 * Cardinality(Strs)
  BY <1>1, <1>2, <1>4, <1>5, Constants
<1> QED BY <1>7, <1>8, <1>9, Constants DEF OwnerSlots, A, B

\* A function of a smaller set covers no more than its domain.
LEMMA Covered ==
  ASSUME NEW S, IsFiniteSet(S), Cardinality(S) < MaxPlace, NEW f, DOMAIN f = S
  PROVE  LET T == {f[z] : z \in S} IN IsFiniteSet(T) /\ Cardinality(T) < MaxPlace
<1> DEFINE T == {f[z] : z \in S}  g == [z \in S |-> f[z]]
<1>1. g \in Surjection(S, T)
  BY DEF Surjection
<1> HIDE DEF T, g
<1>2. IsFiniteSet(T) /\ Cardinality(T) <= Cardinality(S)
  BY <1>1, FS_Surjection
<1>3. Cardinality(T) \in Nat /\ Cardinality(S) \in Nat
  BY <1>2, FS_CardinalityType
<1> QED BY <1>2, <1>3, Constants DEF T

\* Something counted is there.
LEMMA SomeOwner ==
  ASSUME NEW A, IsFiniteSet(A), Cardinality(A) # 0
  PROVE  \E x \in A : TRUE
<1>1. A # {}
  BY FS_EmptySet
<1> QED BY <1>1

\* Every StrData has a String handle, every buffer an owner.
LEMMA HasOwner ==
  ASSUME CountInv
  PROVE  /\ \A i \in Places \ Static : data[i] # Free => \E h \in Strs : d[h] = i
         /\ \A j \in Places \ Static : buf[j] # Free =>
              \/ \E x \in Blobs : d[x] = j
              \/ \E h \in Strs : data[d[h]] # Free /\ (data[d[h]].b = j \/ data[d[h]].w = j)
              \/ \E h \in Strs : pend[h] # Idle /\ pend[h].new = j
<1> USE DEF CountInv
<1>1. DOMAIN data = Places /\ DataHeap(data) /\ BufHeap(buf)
  BY DEF TypeOK, DataHeap
<1>2. ASSUME NEW i \in Places \ Static, data[i] # Free PROVE \E h \in Strs : d[h] = i
  <2>1. data[i].rc + 1 = DataCount(d)[i] /\ data[i].rc \in Nat
    BY <1>1, <1>2 DEF Counted, Exact, DataHeap, IsData
  <2>2. Cardinality(StrsAt(d, i)) # 0
    BY <2>1, <1>2 DEF DataCount
  <2> QED BY <1>1, <2>2, OwnersFinite, SomeOwner DEF StrsAt
<1>3. ASSUME NEW j \in Places \ Static, buf[j] # Free
      PROVE  \/ \E x \in Blobs : d[x] = j
             \/ \E h \in Strs : data[d[h]] # Free /\ (data[d[h]].b = j \/ data[d[h]].w = j)
             \/ \E h \in Strs : pend[h] # Idle /\ pend[h].new = j
  <2>1. buf[j].rc + 1 = BufCount(d, data, pend)[j] /\ buf[j].rc \in Nat
    BY <1>1, <1>3 DEF Counted, Exact, BufHeap, IsBuf
  <2>2. /\ Cardinality(BlobsAt(d, j)) \in Nat /\ Cardinality(BytesAt(data, j)) \in Nat
        /\ Cardinality(WidesAt(data, j)) \in Nat /\ Cardinality(PendsAt(pend, j)) \in Nat
    BY <1>1, OwnersFinite, FS_CardinalityType
  <2>3. \/ Cardinality(BlobsAt(d, j)) # 0 \/ Cardinality(BytesAt(data, j)) # 0
        \/ Cardinality(WidesAt(data, j)) # 0 \/ Cardinality(PendsAt(pend, j)) # 0
    BY <2>1, <1>3, <2>2 DEF BufCount
  <2>4. CASE Cardinality(BlobsAt(d, j)) # 0
    BY <1>1, <2>4, OwnersFinite, SomeOwner DEF BlobsAt
  <2>5. CASE Cardinality(BytesAt(data, j)) # 0
    <3>1. PICK i \in BytesAt(data, j) : TRUE
      BY <1>1, <2>5, OwnersFinite, SomeOwner
    <3>2. i \in Places \ Static /\ data[i] # Free /\ data[i].b = j
      BY <1>1 DEF BytesAt, Live
    <3> QED BY <1>2, <3>2
  <2>6. CASE Cardinality(WidesAt(data, j)) # 0
    <3>1. PICK i \in WidesAt(data, j) : TRUE
      BY <1>1, <2>6, OwnersFinite, SomeOwner
    <3>2. i \in Places \ Static /\ data[i] # Free /\ data[i].w = j
      BY <1>1 DEF WidesAt, Live
    <3> QED BY <1>2, <3>2
  <2>7. CASE Cardinality(PendsAt(pend, j)) # 0
    BY <1>1, <2>7, OwnersFinite, SomeOwner DEF PendsAt
  <2> QED BY <2>3, <2>4, <2>5, <2>6, <2>7
<1> QED BY <1>2, <1>3

\* The heaps as they are, or with less in them, have room.
LEMMA Room ==
  ASSUME CountInv, NEW heap, DOMAIN heap = Places, \A i \in Static : heap[i] # Free
  PROVE  /\ (\A i \in Places : heap[i] # Free => data[i] # Free)
              => FreeId(heap) \in Places \ Static /\ heap[FreeId(heap)] = Free
         /\ (\A i \in Places : heap[i] # Free => buf[i] # Free)
              => FreeId(heap) \in Places \ Static /\ heap[FreeId(heap)] = Free
<1>1. ASSUME \A i \in Places : heap[i] # Free => data[i] # Free
      PROVE  FreeId(heap) \in Places \ Static /\ heap[FreeId(heap)] = Free
  <2> DEFINE f == [h \in Strs |-> d[h]]  T == {f[h] : h \in Strs}
  <2>1. \A i \in Places \ Static : heap[i] # Free => i \in T
    BY <1>1, HasOwner
  <2>2. DOMAIN f = Strs
    OBVIOUS
  <2> HIDE DEF f
  <2>3. Cardinality(Strs) < MaxPlace
    BY Constants
  <2>4. IsFiniteSet(T) /\ Cardinality(T) < MaxPlace
    BY <2>2, <2>3, Constants, Covered
  <2> HIDE DEF T
  <2> QED BY <2>1, <2>4, FreePlace
<1>2. ASSUME \A i \in Places : heap[i] # Free => buf[i] # Free
      PROVE  FreeId(heap) \in Places \ Static /\ heap[FreeId(heap)] = Free
  <2> DEFINE f == [z \in OwnerSlots |-> IF z[2] = 0 THEN d[z[1]]
                                   ELSE IF z[2] = 1 THEN data[d[z[1]]].b
                                   ELSE IF z[2] = 2 THEN data[d[z[1]]].w ELSE pend[z[1]].new]
             T == {f[z] : z \in OwnerSlots}
  <2>1. /\ \A x \in Blobs : <<x, 0>> \in OwnerSlots /\ f[<<x, 0>>] = d[x]
        /\ \A h \in Strs : /\ <<h, 1>> \in OwnerSlots /\ f[<<h, 1>>] = data[d[h]].b
                           /\ <<h, 2>> \in OwnerSlots /\ f[<<h, 2>>] = data[d[h]].w
                           /\ <<h, 3>> \in OwnerSlots /\ f[<<h, 3>>] = pend[h].new
    BY DEF OwnerSlots
  <2>2. DOMAIN f = OwnerSlots
    OBVIOUS
  <2> HIDE DEF f
  <2>3. ASSUME NEW j \in Places \ Static, heap[j] # Free PROVE j \in T
    <3>1. \/ \E x \in Blobs : d[x] = j
          \/ \E h \in Strs : data[d[h]].b = j \/ data[d[h]].w = j
          \/ \E h \in Strs : pend[h].new = j
      BY <1>2, <2>3, HasOwner
    <3>2. CASE \E x \in Blobs : d[x] = j
      BY <2>1, <3>2
    <3>3. CASE \E h \in Strs : data[d[h]].b = j \/ data[d[h]].w = j
      <4>1. PICK h \in Strs : data[d[h]].b = j \/ data[d[h]].w = j
        BY <3>3
      <4> QED BY <2>1, <4>1
    <3>4. CASE \E h \in Strs : pend[h].new = j
      BY <2>1, <3>4
    <3> QED BY <3>1, <3>2, <3>3, <3>4
  <2>4. IsFiniteSet(T) /\ Cardinality(T) < MaxPlace
    BY <2>2, SlotCount, Covered
  <2> HIDE DEF T
  <2> QED BY <2>3, <2>4, FreePlace
<1> QED BY <1>1, <1>2

-----------------------------------------------------------------------------
\* A member makes a count positive.
LEMMA Member ==
  ASSUME NEW A, IsFiniteSet(A), NEW x \in A
  PROVE  Cardinality(A) \in Nat \ {0}
BY FS_EmptySet, FS_CardinalityType

\* Whatever has an owner is counted.
LEMMA OwnedCounts ==
  ASSUME NEW dd, NEW dt, NEW pp, DOMAIN dt = Places
  PROVE  /\ \A h \in Strs, i \in Places : dd[h] = i => DataCount(dd)[i] >= 1
         /\ \A x \in Blobs, j \in Places : dd[x] = j => BufCount(dd, dt, pp)[j] >= 1
         /\ \A i \in Places \ Static, j \in Places :
              dt[i] # Free /\ (dt[i].b = j \/ dt[i].w = j) => BufCount(dd, dt, pp)[j] >= 1
         /\ \A h \in Strs, j \in Places : pp[h] # Idle /\ pp[h].new = j => BufCount(dd, dt, pp)[j] >= 1
         /\ \A i \in Static : DataCount(dd)[i] >= 1 /\ BufCount(dd, dt, pp)[i] >= 2
         /\ \A h \in Strs, i \in Static : dd[h] = i => DataCount(dd)[i] >= 2
         /\ \A x \in Blobs, h \in Strs, j \in Places :
              dd[x] = j /\ pp[h] # Idle /\ pp[h].new = j => BufCount(dd, dt, pp)[j] >= 2
         /\ \A x \in Blobs, i \in Places \ Static, j \in Places :
              dd[x] = j /\ dt[i] # Free /\ (dt[i].b = j \/ dt[i].w = j) => BufCount(dd, dt, pp)[j] >= 2
<1> DEFINE N(j) == Cardinality(BlobsAt(dd, j))  B(j) == Cardinality(BytesAt(dt, j))
           W(j) == Cardinality(WidesAt(dt, j))  P(j) == Cardinality(PendsAt(pp, j))  S(i) == Cardinality(StrsAt(dd, i))
<1>1. \A j \in Places : /\ N(j) \in Nat /\ B(j) \in Nat /\ W(j) \in Nat /\ P(j) \in Nat /\ S(j) \in Nat
  BY OwnersFinite, FS_CardinalityType
<1>2. \A h \in Strs, i \in Places : dd[h] = i => S(i) # 0
  BY OwnersFinite, Member DEF StrsAt
<1>3. \A x \in Blobs, j \in Places : dd[x] = j => N(j) # 0
  BY OwnersFinite, Member DEF BlobsAt
<1>4. ASSUME NEW i \in Places \ Static, NEW j \in Places, dt[i] # Free, dt[i].b = j PROVE B(j) # 0
  <2>1. i \in BytesAt(dt, j)
    BY <1>4 DEF BytesAt, Live
  <2>2. IsFiniteSet(BytesAt(dt, j))
    BY OwnersFinite
  <2> QED BY <2>1, <2>2, Member
<1>5. ASSUME NEW i \in Places \ Static, NEW j \in Places, dt[i] # Free, dt[i].w = j PROVE W(j) # 0
  <2>1. i \in WidesAt(dt, j)
    BY <1>5 DEF WidesAt, Live
  <2>2. IsFiniteSet(WidesAt(dt, j))
    BY OwnersFinite
  <2> QED BY <2>1, <2>2, Member
<1>6. \A h \in Strs, j \in Places : pp[h] # Idle /\ pp[h].new = j => P(j) # 0
  BY OwnersFinite, Member DEF PendsAt
<1>7. /\ \A i \in Places : DataCount(dd)[i] = S(i) + (IF i \in Static THEN 1 ELSE 0)
      /\ \A j \in Places : BufCount(dd, dt, pp)[j] = N(j) + B(j) + W(j) + P(j) + (IF j \in Static THEN 2 ELSE 0)
  BY DEF DataCount, BufCount
<1> HIDE DEF N, B, W, P, S
<1>8. Static \subseteq Places
  BY Constants
<1>9. /\ \A h \in Strs, i \in Places : dd[h] = i => DataCount(dd)[i] >= 1
      /\ \A i \in Static : DataCount(dd)[i] >= 1
      /\ \A h \in Strs, i \in Static : dd[h] = i => DataCount(dd)[i] >= 2
  BY <1>1, <1>2, <1>7, <1>8
<1>10. /\ \A x \in Blobs, j \in Places : dd[x] = j => BufCount(dd, dt, pp)[j] >= 1
       /\ \A i \in Static : BufCount(dd, dt, pp)[i] >= 2
       /\ \A h \in Strs, j \in Places : pp[h] # Idle /\ pp[h].new = j => BufCount(dd, dt, pp)[j] >= 1
  <2>1. \A x \in Blobs, j \in Places : dd[x] = j => BufCount(dd, dt, pp)[j] >= 1
    BY <1>1, <1>3, <1>7
  <2>2. \A i \in Static : BufCount(dd, dt, pp)[i] >= 2
    BY <1>1, <1>7, <1>8
  <2>3. \A h \in Strs, j \in Places : pp[h] # Idle /\ pp[h].new = j => BufCount(dd, dt, pp)[j] >= 1
    BY <1>1, <1>6, <1>7
  <2> QED BY <2>1, <2>2, <2>3
<1>11. ASSUME NEW i \in Places \ Static, NEW j \in Places, dt[i] # Free, dt[i].b = j \/ dt[i].w = j
       PROVE  B(j) + W(j) >= 1
  BY <1>1, <1>4, <1>5, <1>11
<1>12. \A i \in Places \ Static, j \in Places :
         dt[i] # Free /\ (dt[i].b = j \/ dt[i].w = j) => BufCount(dd, dt, pp)[j] >= 1
  BY <1>1, <1>7, <1>11
<1>13. ASSUME NEW x \in Blobs, NEW i \in Places \ Static, NEW j \in Places,
              dd[x] = j, dt[i] # Free, dt[i].b = j \/ dt[i].w = j
       PROVE  BufCount(dd, dt, pp)[j] >= 2
  <2>1. N(j) # 0 /\ B(j) + W(j) >= 1
    BY <1>3, <1>11, <1>13
  <2>2. N(j) \in Nat /\ B(j) \in Nat /\ W(j) \in Nat /\ P(j) \in Nat
    BY <1>1
  <2>3. BufCount(dd, dt, pp)[j] = N(j) + B(j) + W(j) + P(j) + (IF j \in Static THEN 2 ELSE 0)
    BY <1>7
  <2> QED BY <2>1, <2>2, <2>3
<1>14. \A x \in Blobs, h \in Strs, j \in Places :
         dd[x] = j /\ pp[h] # Idle /\ pp[h].new = j => BufCount(dd, dt, pp)[j] >= 2
  <2> SUFFICES ASSUME NEW x \in Blobs, NEW h \in Strs, NEW j \in Places, dd[x] = j, pp[h] # Idle, pp[h].new = j
               PROVE  BufCount(dd, dt, pp)[j] >= 2
    OBVIOUS
  <2>1. N(j) # 0 /\ P(j) # 0
    BY <1>3, <1>6
  <2>2. N(j) \in Nat /\ B(j) \in Nat /\ W(j) \in Nat /\ P(j) \in Nat
    BY <1>1
  <2>3. BufCount(dd, dt, pp)[j] = N(j) + B(j) + W(j) + P(j) + (IF j \in Static THEN 2 ELSE 0)
    BY <1>7
  <2> QED BY <2>1, <2>2, <2>3
<1> QED BY <1>9, <1>10, <1>12, <1>13, <1>14

\* What is counted is there.
LEMMA CountedLive ==
  ASSUME NEW heap, NEW n \in [Places -> Nat], Exact(heap, n), NEW i \in Places, n[i] >= 1
  PROVE  heap[i] # Free /\ heap[i].rc + 1 = n[i]
BY DEF Exact

\* One owner more; a heap with a new buffer.
CountAdds(n, m, i) == m \in [Places -> Nat] /\ \A k \in Places : m[k] = n[k] + One(k, i)
NewMade(bf, s, m, cf) ==
    /\ BufHeap(cf) /\ Exact(cf, m) /\ cf[FreeId(bf)] # Free /\ cf[FreeId(bf)].s = s
    /\ \A k \in Places \ {FreeId(bf)} : cf[k] = bf[k]

\* A new buffer with one owner.
LEMMA BufNew ==
  ASSUME NEW bf, BufHeap(bf), NEW n \in [Places -> Nat], Exact(bf, n), NEW s, NEW al,
         FreeId(bf) \in Places, bf[FreeId(bf)] = Free,
         NEW m, CountAdds(n, m, FreeId(bf))
  PROVE  NewMade(bf, s, m, NewBuf(bf, s, al))
<1>9. m \in [Places -> Nat] /\ \A k \in Places : m[k] = n[k] + One(k, FreeId(bf))
  BY DEF CountAdds
<1> DEFINE i == FreeId(bf)  r == [rc |-> 0, s |-> s, al |-> al, hash |-> None]  e == [bf EXCEPT ![i] = r]
<1>1. DOMAIN bf = Places
  BY DEF BufHeap
<1>2. NewBuf(bf, s, al) = e
  BY DEF NewBuf
<1> HIDE DEF i
<1>3. DOMAIN e = Places /\ e[i] = r /\ \A k \in Places \ {i} : e[k] = bf[k]
  BY <1>1 DEF i
<1>4. IsBuf(r) /\ r.rc = 0 /\ r.s = s
  BY DEF IsBuf
<1> HIDE DEF r, e
<1>5. r # Free
  BY <1>4 DEF IsBuf, Free
<1>6. BufHeap(e)
  BY <1>3, <1>4 DEF BufHeap
<1>7. n[i] = 0
  BY DEF Exact, i
<1>8. Exact(e, m)
  BY <1>3, <1>4, <1>5, <1>7, <1>9 DEF Exact, One, i
<1> QED BY <1>2, <1>3, <1>4, <1>5, <1>6, <1>8 DEF i, NewMade

\* A String handle gives up a StrData; the last one gives up its buffers.
LEMMA DataUnref ==
  ASSUME NEW dd, NEW pp, NEW dt, NEW bf, DataHeap(dt), BufHeap(bf), NEW n \in [Places -> Nat], Exact(dt, n),
         Exact(bf, BufCount(dd, dt, pp)), NEW i \in Places, i \in Static => n[i] >= 2,
         NEW m \in [Places -> Nat], \A k \in Places : m[k] = n[k] - One(k, i)
  PROVE  LET r == UnrefData(dt, bf, i) IN
         /\ DataHeap(r[1]) /\ BufHeap(r[2]) /\ Exact(r[1], m) /\ Exact(r[2], BufCount(dd, r[1], pp))
         /\ \A k \in Places : r[1][k] # Free => /\ dt[k] # Free /\ r[1][k].b = dt[k].b /\ r[1][k].w = dt[k].w
                                               /\ r[1][k].hash = dt[k].hash
         /\ \A k \in Places : r[2][k] # Free => bf[k] # Free /\ r[2][k].s = bf[k].s
<1> DEFINE r == UnrefData(dt, bf, i)
<1>1. n[i] >= 1
  BY DEF One
<1>2. dt[i] # Free /\ dt[i].rc + 1 = n[i]
  BY <1>1, CountedLive
<1>3. DOMAIN dt = Places /\ IsData(dt[i])
  BY <1>2 DEF DataHeap
<1>4. CASE dt[i].rc # 0
  <2> DEFINE e == [dt EXCEPT ![i].rc = @ - 1]
  <2>1. r[1] = e /\ r[2] = bf
    BY <1>4 DEF UnrefData
  <2>2. DOMAIN e = Places /\ e[i] = [dt[i] EXCEPT !.rc = @ - 1] /\ \A k \in Places \ {i} : e[k] = dt[k]
    BY <1>3
  <2> HIDE DEF e, r
  <2>3. IsData(e[i]) /\ e[i].rc = dt[i].rc - 1 /\ e[i].b = dt[i].b /\ e[i].w = dt[i].w /\ e[i].hash = dt[i].hash
    BY <1>3, <1>4, <2>2 DEF IsData
  <2>4. e[i] # Free
    BY <2>3 DEF IsData, Free
  <2>5. DataHeap(e)
    BY <2>2, <2>3 DEF DataHeap
  <2>6. Exact(e, m)
    BY <1>2, <1>3, <2>2, <2>3, <2>4 DEF Exact, One, IsData
  <2>7. BufCount(dd, e, pp) = BufCount(dd, dt, pp)
    <3>1. SameReps(dt, e)
      BY <1>2, <1>3, <2>2, <2>3, <2>4 DEF SameReps
    <3> QED BY <3>1, RepsKept
  <2>8. \A k \in Places : e[k] # Free => dt[k] # Free /\ e[k].b = dt[k].b /\ e[k].w = dt[k].w /\ e[k].hash = dt[k].hash
    BY <1>2, <2>2, <2>3
  <2> QED BY <2>1, <2>5, <2>6, <2>7, <2>8 DEF r
<1>5. CASE dt[i].rc = 0
  <2> DEFINE e == [dt EXCEPT ![i] = Free]  b == dt[i].b  w == dt[i].w  bf1 == UnrefBuf(bf, b)  bf2 == UnrefBuf(bf1, w)
             n0 == BufCount(dd, dt, pp)  n2 == BufCount(dd, e, pp)  n1 == [k \in Places |-> n0[k] - One(k, b)]
  <2>1. r[1] = e /\ r[2] = bf2
    BY <1>5 DEF UnrefData
  <2>2. DOMAIN e = Places /\ e[i] = Free /\ \A k \in Places \ {i} : e[k] = dt[k]
    BY <1>3
  <2> HIDE DEF e, r
  <2>3. b \in Reps /\ w \in Reps
    BY <1>3 DEF IsData
  <2>4. DataHeap(e)
    BY <2>2 DEF DataHeap
  <2>5. Exact(e, m)
    BY <1>2, <1>5, <2>2 DEF Exact, One
  <2>6. i \notin Static
    BY <1>2, <1>5
  <2>7. n0 \in [Places -> Nat] /\ n2 \in [Places -> Nat]
    BY <1>3, <2>2, CountTypes
  <2>8. \A k \in Places : n2[k] = n0[k] - One(k, b) - One(k, w)
    <3>1. \A k \in Places : n2[k] = n0[k] + DataPart(e[i], k) - DataPart(dt[i], k)
      BY <2>2, <2>4, <2>6, DataChanges
    <3>2. \A k \in Places : DataPart(e[i], k) = 0 /\ DataPart(dt[i], k) = One(k, b) + One(k, w)
      BY <1>2, <2>2 DEF DataPart
    <3> HIDE DEF n0, n2
    <3> QED BY <2>7, <3>1, <3>2 DEF One
  <2>9. n1 \in [Places -> Nat] /\ \A k \in Places : n1[k] = n0[k] - One(k, b) /\ n2[k] = n1[k] - One(k, w)
    <3> HIDE DEF n0, n2, b, w
    <3> QED BY <2>7, <2>8 DEF One
  <2>10. Exact(bf, n0)
    OBVIOUS
  <2> HIDE DEF n0, n1, n2, b, w
  <2>11. /\ BufHeap(bf1) /\ Exact(bf1, n1)
         /\ \A k \in Places : bf1[k] # Free => bf[k] # Free /\ bf1[k].s = bf[k].s
    BY <2>3, <2>7, <2>9, <2>10, BufUnref
  <2> HIDE DEF bf1
  <2>12. /\ BufHeap(bf2) /\ Exact(bf2, n2)
         /\ \A k \in Places : bf2[k] # Free => bf1[k] # Free /\ bf2[k].s = bf1[k].s
    BY <2>3, <2>7, <2>9, <2>11, BufUnref
  <2> HIDE DEF bf2
  <2>13. \A k \in Places : e[k] # Free => dt[k] # Free /\ e[k].b = dt[k].b /\ e[k].w = dt[k].w /\ e[k].hash = dt[k].hash
    BY <2>2
  <2> QED BY <2>1, <2>4, <2>5, <2>11, <2>12, <2>13 DEF r, n2
<1> QED BY <1>3, <1>4, <1>5 DEF IsData

-----------------------------------------------------------------------------
(* A handle gives up what it has.                                          *)

\* A second owner is counted.
LEMMA OtherOwner ==
  ASSUME CountInv, NEW h \in Strs, NEW g \in Strs \ {h}
  PROVE  DataCount(d)[d[g]] - One(d[g], d[h]) >= 1
<1>1. d \in [Handles -> Places] /\ DOMAIN data = Places /\ h \in Handles /\ g \in Handles
  BY DEF CountInv, TypeOK, DataHeap, Handles
<1>2. PICK k \in Places : k # d[g]
  BY Constants
<1>7. PICK e : e = [d EXCEPT ![h] = k]
  OBVIOUS
<1>3. e[g] = d[g] /\ d[g] \in Places
  BY <1>1, <1>7
<1>4. DataCount(e)[d[g]] = DataCount(d)[d[g]] + One(d[g], k) - One(d[g], d[h])
  <2>1. MovesTo(d, h, k, e)
    BY <1>1, <1>7 DEF MovesTo
  <2>2. StrMoved(d, h, k, e, data, pend)
    BY <1>1, <2>1, StrMoves
  <2> QED BY <1>3, <2>2 DEF StrMoved
<1>5. DataCount(e)[d[g]] >= 1
  BY <1>1, <1>3, OwnedCounts
<1>6. DataCount(d)[d[g]] \in Nat /\ One(d[g], k) = 0 /\ One(d[g], d[h]) \in {0, 1}
  BY <1>1, <1>2, <1>3, CountTypes DEF One
<1> QED BY <1>4, <1>5, <1>6

\* The text of the StrData r is the same in both heaps.
SameText(bf, cf, r) ==
    /\ r.b # NoRep => cf[r.b].s = bf[r.b].s
    /\ r.w # NoRep => cf[r.w].s = bf[r.w].s

\* Data and buffers after the handle h gave up its StrData: what is left is what
\* it was, and the other handles still have theirs.
Remains(h, dt, bf) ==
    /\ \A i \in Places : dt[i] # Free =>
         /\ data[i] # Free /\ dt[i].b = data[i].b /\ dt[i].w = data[i].w /\ dt[i].hash = data[i].hash
         /\ dt[i].b # NoRep => bf[dt[i].b] # Free
         /\ dt[i].w # NoRep => bf[dt[i].w] # Free
    /\ \A j \in Places : bf[j] # Free => buf[j] # Free /\ bf[j].s = buf[j].s
    /\ \A i \in Static : dt[i] # Free /\ bf[i] # Free
    /\ \A g \in Strs \ {h} : dt[d[g]] # Free /\ (pend[g] # Idle => bf[pend[g].new] # Free)
    /\ \A x \in Blobs : bf[d[x]] # Free

\* Data with other counters but the same representations and hashes.
SameData(dt, et) == SameReps(dt, et) /\ \A k \in Places : dt[k] # Free => et[k].hash = dt[k].hash

\* unref() of the StrData of h, where other owners may have come before.
LEMMA GiveUp ==
  ASSUME IInv, NEW h \in Strs, NEW dt, DataHeap(dt), SameData(data, dt),
         NEW n \in [Places -> Nat], Exact(dt, n), \A k \in Places : n[k] >= DataCount(d)[k],
         NEW m \in [Places -> Nat], \A k \in Places : m[k] = n[k] - One(k, d[h])
  PROVE  LET r == UnrefData(dt, buf, d[h]) IN
         /\ DataHeap(r[1]) /\ BufHeap(r[2]) /\ Exact(r[1], m) /\ Exact(r[2], BufCount(d, r[1], pend))
         /\ Remains(h, r[1], r[2])
<1> DEFINE r == UnrefData(dt, buf, d[h])  et == r[1]  ef == r[2]
<1>1. /\ CountInv /\ TypeOK /\ Counted /\ StaticsSound /\ DataHeap(data) /\ BufHeap(buf)
      /\ d \in [Handles -> Places] /\ pend \in [Handles -> Pendings] /\ DOMAIN data = Places /\ DOMAIN dt = Places
  BY DEF IInv, CountInv, TypeOK, DataHeap
<1>2. d[h] \in Places /\ \A g \in Strs : d[g] \in Places
  BY <1>1 DEF Handles
<1>3. DataCount(d) \in [Places -> Nat]
  BY <1>1, CountTypes
<1>4. d[h] \in Static => n[d[h]] >= 2
  <2>1. d[h] \in Static => DataCount(d)[d[h]] >= 2
    BY <1>1, <1>2, OwnedCounts
  <2>2. n[d[h]] >= DataCount(d)[d[h]] /\ n[d[h]] \in Nat /\ DataCount(d)[d[h]] \in Nat
    BY <1>2, <1>3
  <2> QED BY <2>1, <2>2
<1>5. Exact(buf, BufCount(d, dt, pend))
  <2>1. BufCount(d, dt, pend) = BufCount(d, data, pend)
    BY RepsKept DEF SameData
  <2> QED BY <1>1, <2>1 DEF Counted
<1>6. /\ DataHeap(et) /\ BufHeap(ef) /\ Exact(et, m) /\ Exact(ef, BufCount(d, et, pend))
      /\ \A k \in Places : et[k] # Free => /\ dt[k] # Free /\ et[k].b = dt[k].b /\ et[k].w = dt[k].w
                                           /\ et[k].hash = dt[k].hash
      /\ \A k \in Places : ef[k] # Free => buf[k] # Free /\ ef[k].s = buf[k].s
  BY <1>1, <1>2, <1>4, <1>5, DataUnref
<1> HIDE DEF et, ef, r
<1>7. \A k \in Places : et[k] # Free => /\ data[k] # Free /\ et[k].b = data[k].b /\ et[k].w = data[k].w
                                        /\ et[k].hash = data[k].hash
  BY <1>6 DEF SameData, SameReps
<1> DEFINE c == BufCount(d, et, pend)
<1>8. c \in [Places -> Nat] /\ DOMAIN et = Places
  BY <1>6, CountTypes DEF DataHeap
<1>9. \A j \in Places : c[j] >= 1 => ef[j] # Free
  <2> HIDE DEF c
  <2> QED BY <1>6, <1>8, CountedLive DEF c
<1>10. \A i \in Static : ef[i] # Free
  <2>1. \A i \in Static : c[i] >= 2 /\ c[i] \in Nat /\ i \in Places
    BY <1>8, OwnedCounts, Constants
  <2> HIDE DEF c
  <2> QED BY <1>9, <2>1
<1>11. \A i \in Static : et[i] # Free
  <2> SUFFICES ASSUME NEW i \in Static PROVE et[i] # Free
    OBVIOUS
  <2>1. i \in Places /\ DataCount(d)[i] >= 1 /\ (d[h] = i => DataCount(d)[i] >= 2)
    BY <1>1, Constants, OwnedCounts
  <2>2. n[i] >= DataCount(d)[i] /\ n[i] \in Nat /\ DataCount(d)[i] \in Nat /\ m[i] = n[i] - One(i, d[h])
    BY <1>3, <2>1
  <2>3. m[i] >= 1
    BY <2>1, <2>2 DEF One
  <2> QED BY <1>6, <2>1, <2>3, CountedLive
<1>12. ASSUME NEW i \in Places, et[i] # Free
       PROVE  (et[i].b # NoRep => ef[et[i].b] # Free) /\ (et[i].w # NoRep => ef[et[i].w] # Free)
  <2>1. CASE i \in Static
    <3>1. et[i].b = i /\ et[i].w = i
      BY <1>1, <1>7, <1>12, <2>1 DEF StaticsSound
    <3> QED BY <1>10, <2>1, <3>1
  <2>2. CASE i \notin Static
    <3>1. et[i].b \in Reps /\ et[i].w \in Reps
      BY <1>6, <1>12 DEF DataHeap, IsData
    <3>2. (et[i].b \in Places => c[et[i].b] >= 1) /\ (et[i].w \in Places => c[et[i].w] >= 1)
      BY <1>8, <1>12, <2>2, OwnedCounts
    <3> HIDE DEF c
    <3> QED BY <1>9, <3>1, <3>2 DEF Reps
  <2> QED BY <2>1, <2>2
<1>13. ASSUME NEW g \in Strs \ {h} PROVE et[d[g]] # Free /\ (pend[g] # Idle => ef[pend[g].new] # Free)
  <2>1. et[d[g]] # Free
    <3>1. DataCount(d)[d[g]] - One(d[g], d[h]) >= 1
      BY <1>1, OtherOwner
    <3>2. /\ n[d[g]] >= DataCount(d)[d[g]] /\ n[d[g]] \in Nat /\ DataCount(d)[d[g]] \in Nat
          /\ m[d[g]] = n[d[g]] - One(d[g], d[h]) /\ One(d[g], d[h]) \in {0, 1}
      BY <1>2, <1>3 DEF One
    <3>3. m[d[g]] >= 1
      BY <3>1, <3>2
    <3> QED BY <1>2, <1>6, <3>3, CountedLive
  <2>2. ASSUME pend[g] # Idle PROVE ef[pend[g].new] # Free
    <3>1. pend[g] \in Pendings
      BY <1>1 DEF Handles
    <3>2. pend[g].new \in Places
      BY <2>2, <3>1 DEF Pendings
    <3>3. c[pend[g].new] >= 1
      BY <1>8, <2>2, <3>2, OwnedCounts
    <3> HIDE DEF c
    <3> QED BY <1>9, <3>2, <3>3
  <2> QED BY <2>1, <2>2
<1>14. \A x \in Blobs : ef[d[x]] # Free
  <2>1. \A x \in Blobs : d[x] \in Places /\ c[d[x]] >= 1
    BY <1>1, <1>8, OwnedCounts DEF Handles
  <2> HIDE DEF c
  <2> QED BY <1>9, <2>1
<1>15. Remains(h, et, ef)
  BY <1>6, <1>7, <1>10, <1>11, <1>12, <1>13, <1>14 DEF Remains
<1> QED BY <1>6, <1>15 DEF et, ef, r

\* A StrData whose reps and hash are kept, over buffers with the same texts, is
\* sound as before and has the same text.
LEMMA KeptSound ==
  ASSUME NEW i, NEW r, NEW q, NEW bf, NEW cf, DataSound(i, r, bf), q.b = r.b, q.w = r.w, q.hash = r.hash, SameText(bf, cf, r)
  PROVE  DataSound(i, q, cf) /\ TextOf(q, cf) = TextOf(r, bf)
<1>1. (r.b # NoRep => cf[r.b].s = bf[r.b].s) /\ (r.w # NoRep => cf[r.w].s = bf[r.w].s)
  BY DEF SameText
<1>2. TextOf(q, cf) = TextOf(r, bf)
  BY <1>1 DEF TextOf, DataSound
<1>3. q.b # NoRep \/ q.w # NoRep
  BY DEF DataSound
<1>4. ASSUME q.b # NoRep, q.w # NoRep PROVE Fold(cf[q.b].s) = Fold(cf[q.w].s)
  <2>1. cf[q.b].s = bf[r.b].s /\ cf[q.w].s = bf[r.w].s
    BY <1>1, <1>4
  <2>2. Fold(bf[r.b].s) = Fold(bf[r.w].s)
    BY <1>4 DEF DataSound
  <2> QED BY <2>1, <2>2
<1>5. ASSUME i # Null, q.hash # None
      PROVE  \/ q.b # NoRep /\ q.hash = Hash(cf[q.b].s)
             \/ q.w # NoRep /\ q.hash = Hash(cf[q.w].s)
  <2>1. \/ r.b # NoRep /\ r.hash = Hash(bf[r.b].s)
        \/ r.w # NoRep /\ r.hash = Hash(bf[r.w].s)
    BY <1>5 DEF DataSound
  <2>2. CASE r.b # NoRep /\ r.hash = Hash(bf[r.b].s)
    BY <1>1, <2>2
  <2>3. CASE r.w # NoRep /\ r.hash = Hash(bf[r.w].s)
    BY <1>1, <2>3
  <2> QED BY <2>1, <2>2, <2>3
<1>6. DataSound(i, q, cf)
  BY <1>3, <1>4, <1>5 DEF DataSound
<1> QED BY <1>2, <1>6

\* A handle that stays where it is, over the same text, has the same value.
LEMMA SameVal ==
  ASSUME NEW g, d'[g] = d[g],
         g \in Strs => Fold(TextOf(data'[d[g]], buf')) = Fold(TextOf(data[d[g]], buf)),
         g \notin Strs => buf'[d[g]].s = buf[d[g]].s
  PROVE  Val(g)' = Val(g)
<1>1. Chars(d[g]) = TextOf(data[d[g]], buf) /\ Chars(d[g])' = TextOf(data'[d'[g]], buf')
  BY DEF Chars, TextOf, HasB, Bytes, Wides
<1> QED BY <1>1 DEF Val

\* After a step: the StrData k is one of those before, with the texts it had; so are
\* the conversions of the threads of the other handles and the buffers of the other
\* blobs.
DataKept(k) == /\ data[k] # Free /\ data'[k].b = data[k].b /\ data'[k].w = data[k].w
               /\ SameText(buf, buf', data[k])
OthersHold(h) ==
    /\ \A g \in Strs \ {h} : pend'[g] = pend[g] /\ (pend[g] # Idle => buf'[pend[g].new].s = buf[pend[g].new].s)
    /\ \A x \in Blobs \ {h} : d'[x] = d[x] /\ buf'[d[x]].s = buf[d[x]].s

\* h has a StrData of its own with the text s.
Became(h, s, isWide) ==
    /\ OthersHold(h) /\ pend'[h] = Idle
    /\ \E i \in Places \ Static, j \in Places :
         /\ d'[h] = i /\ buf'[j].s = s
         /\ data'[i].b = (IF isWide THEN NoRep ELSE j) /\ data'[i].w = (IF isWide THEN j ELSE NoRep)
         /\ \A k \in Places \ {i} : data'[k] # Free => DataKept(k)

-----------------------------------------------------------------------------
(* The operations on a String.                                             *)

\* What is left after h gave up its StrData is sound, in any heap that keeps the
\* buffers left.
LEMMA RemainTexts ==
  ASSUME IInv, NEW h \in Strs, NEW dt, NEW bf, Remains(h, dt, bf), DataHeap(dt),
         NEW cf, \A j \in Places : bf[j] # Free => cf[j].s = bf[j].s
  PROVE  /\ \A i \in Places : dt[i] # Free => DataSound(i, dt[i], cf) /\ TextOf(dt[i], cf) = TextOf(data[i], buf)
         /\ \A g \in Strs \ {h} : pend[g] # Idle => Fold(cf[pend[g].new].s) = Fold(TextOf(dt[d[g]], cf))
         /\ \A i \in Static : dt[i] # Free /\ dt[i].b = i /\ dt[i].w = i /\ cf[i].s = <<>>
         /\ dt[Null].hash = NullHash
<1>1. /\ TextsSound /\ PendsSound /\ StaticsSound
      /\ d \in [Handles -> Places] /\ pend \in [Handles -> Pendings]
  BY DEF IInv, CountInv, TypeOK
<1>2. ASSUME NEW i \in Places, dt[i] # Free
      PROVE  DataSound(i, dt[i], cf) /\ TextOf(dt[i], cf) = TextOf(data[i], buf)
  <2>1. /\ data[i] # Free /\ dt[i].b = data[i].b /\ dt[i].w = data[i].w /\ dt[i].hash = data[i].hash
        /\ dt[i].b # NoRep => bf[dt[i].b] # Free
        /\ dt[i].w # NoRep => bf[dt[i].w] # Free
    BY <1>2 DEF Remains
  <2>2. dt[i].b \in Reps /\ dt[i].w \in Reps
    BY <1>2 DEF DataHeap, IsData
  <2>3. \A j \in Places : bf[j] # Free => cf[j].s = buf[j].s
    BY DEF Remains
  <2>4. SameText(buf, cf, data[i])
    BY <2>1, <2>2, <2>3 DEF SameText, Reps
  <2>5. DataSound(i, data[i], buf)
    BY <1>1, <2>1 DEF TextsSound
  <2> QED BY <2>1, <2>4, <2>5, KeptSound
<1>3. ASSUME NEW g \in Strs \ {h}, pend[g] # Idle
      PROVE  Fold(cf[pend[g].new].s) = Fold(TextOf(dt[d[g]], cf))
  <2>1. pend[g] \in Pendings /\ d[g] \in Places
    BY <1>1 DEF Handles
  <2>2. pend[g].new \in Places
    BY <1>3, <2>1 DEF Pendings
  <2>3. dt[d[g]] # Free /\ bf[pend[g].new] # Free
    BY <1>3 DEF Remains
  <2>4. cf[pend[g].new].s = buf[pend[g].new].s
    BY <2>2, <2>3 DEF Remains
  <2>5. TextOf(dt[d[g]], cf) = TextOf(data[d[g]], buf)
    BY <1>2, <2>1, <2>3
  <2>6. Fold(buf[pend[g].new].s) = Fold(TextOf(data[d[g]], buf))
    BY <1>1, <1>3 DEF PendsSound
  <2> QED BY <2>4, <2>5, <2>6
<1>4. ASSUME NEW i \in Static
      PROVE  dt[i] # Free /\ dt[i].b = i /\ dt[i].w = i /\ cf[i].s = <<>>
  <2>1. i \in Places
    BY Constants
  <2>2. dt[i] # Free /\ bf[i] # Free /\ dt[i].b = data[i].b /\ dt[i].w = data[i].w /\ bf[i].s = buf[i].s
    BY <2>1 DEF Remains
  <2> QED BY <1>1, <2>1, <2>2 DEF StaticsSound
<1>5. dt[Null].hash = NullHash
  <2>1. Null \in Static /\ Null \in Places
    BY Constants
  <2>2. dt[Null].hash = data[Null].hash
    BY <2>1 DEF Remains
  <2> QED BY <1>1, <2>2 DEF StaticsSound
<1> QED BY <1>2, <1>3, <1>4, <1>5

\* The texts of what is left, one by one.
LEMMA RemainHeld ==
  ASSUME IInv, NEW h \in Strs, NEW dt, NEW bf, Remains(h, dt, bf), DataHeap(dt),
         NEW cf, \A j \in Places : bf[j] # Free => cf[j].s = bf[j].s
  PROVE  /\ \A i \in Places : dt[i] # Free => /\ data[i] # Free /\ dt[i].b = data[i].b /\ dt[i].w = data[i].w
                                              /\ SameText(buf, cf, data[i])
         /\ \A g \in Strs \ {h} : pend[g] # Idle => cf[pend[g].new].s = buf[pend[g].new].s
         /\ \A x \in Blobs : cf[d[x]].s = buf[d[x]].s
<1>1. d \in [Handles -> Places] /\ pend \in [Handles -> Pendings]
  BY DEF IInv, CountInv, TypeOK
<1>2. \A j \in Places : bf[j] # Free => cf[j].s = buf[j].s
  BY DEF Remains
<1>3. ASSUME NEW i \in Places, dt[i] # Free
      PROVE  data[i] # Free /\ dt[i].b = data[i].b /\ dt[i].w = data[i].w /\ SameText(buf, cf, data[i])
  <2>1. /\ data[i] # Free /\ dt[i].b = data[i].b /\ dt[i].w = data[i].w
        /\ dt[i].b # NoRep => bf[dt[i].b] # Free
        /\ dt[i].w # NoRep => bf[dt[i].w] # Free
    BY <1>3 DEF Remains
  <2>2. dt[i].b \in Reps /\ dt[i].w \in Reps
    BY <1>3 DEF DataHeap, IsData
  <2> QED BY <1>2, <2>1, <2>2 DEF SameText, Reps
<1>4. ASSUME NEW g \in Strs \ {h}, pend[g] # Idle PROVE cf[pend[g].new].s = buf[pend[g].new].s
  <2>1. pend[g] \in Pendings
    BY <1>1 DEF Handles
  <2>2. pend[g].new \in Places
    BY <1>4, <2>1 DEF Pendings
  <2>3. bf[pend[g].new] # Free
    BY <1>4 DEF Remains
  <2> QED BY <1>2, <2>2, <2>3
<1>5. \A x \in Blobs : cf[d[x]].s = buf[d[x]].s
  <2>1. \A x \in Blobs : d[x] \in Places /\ bf[d[x]] # Free
    BY <1>1 DEF Handles, Remains
  <2> QED BY <1>2, <2>1
<1> QED BY <1>3, <1>4, <1>5

\* A handle gets a StrData of its own: i_setNoref() after allocAscii(), allocWide().
LEMMA BecomeStep ==
  ASSUME IInv, NEW h \in Strs, Alone(h), NEW s, NEW isWide \in BOOLEAN, Become(h, s, isWide)
  PROVE  IInv' /\ OthersSame(h) /\ Became(h, s, isWide)
<1>1. /\ CountInv /\ TypeOK /\ Counted /\ DataHeap(data) /\ BufHeap(buf) /\ StaticsSound
      /\ d \in [Handles -> Places] /\ pend \in [Handles -> Pendings] /\ DOMAIN data = Places
      /\ d[h] \in Places /\ pend[h] = Idle /\ Exact(data, DataCount(d)) /\ prog \in Programs
  BY DEF IInv, CountInv, TypeOK, DataHeap, Handles, Counted, Alone
<1>2. PICK et : et = UnrefData(data, buf, d[h])[1]
  OBVIOUS
<1>3. PICK ef : ef = UnrefData(data, buf, d[h])[2]
  OBVIOUS
<1>4. PICK i : i = FreeId(et)
  OBVIOUS
<1>5. PICK j : j = FreeId(ef)
  OBVIOUS
<1>6. PICK q : q = [rc |-> 0, hash |-> None, b |-> IF isWide THEN NoRep ELSE j, w |-> IF isWide THEN j ELSE NoRep]
  OBVIOUS
<1>7. /\ d' = [d EXCEPT ![h] = i] /\ data' = [et EXCEPT ![i] = q] /\ buf' = NewBuf(ef, s, Len(s) + 1)
      /\ prog' = prog /\ pend' = pend
  BY <1>2, <1>3, <1>4, <1>5, <1>6 DEF Become
<1>8. PICK m : m = [k \in Places |-> DataCount(d)[k] - One(k, d[h])]
  OBVIOUS
<1>9. DataCount(d) \in [Places -> Nat] /\ DataCount(d)[d[h]] >= 1
  BY <1>1, CountTypes, OwnedCounts
<1>10. m \in [Places -> Nat] /\ \A k \in Places : m[k] = DataCount(d)[k] - One(k, d[h])
  BY <1>8, <1>9 DEF One
<1>11. SameData(data, data)
  BY <1>1 DEF SameData, SameReps
<1>12. \A k \in Places : DataCount(d)[k] >= DataCount(d)[k]
  BY <1>9
<1>13. /\ DataHeap(et) /\ BufHeap(ef) /\ Exact(et, m) /\ Exact(ef, BufCount(d, et, pend))
       /\ Remains(h, et, ef)
  BY <1>1, <1>2, <1>3, <1>9, <1>10, <1>11, <1>12, GiveUp
<1>14. DOMAIN et = Places /\ DOMAIN ef = Places
  BY <1>13 DEF DataHeap, BufHeap
<1>15. i \in Places \ Static /\ et[i] = Free /\ j \in Places \ Static /\ ef[j] = Free
  BY <1>1, <1>4, <1>5, <1>13, <1>14, Room DEF Remains
<1>16. IsData(q) /\ q.rc = 0 /\ q # Free
  BY <1>6, <1>15 DEF IsData, Reps, Free
<1>17. DOMAIN data' = Places /\ data'[i] = q /\ \A k \in Places \ {i} : data'[k] = et[k]
  BY <1>7, <1>14, <1>15
<1>18. DataHeap(data')
  BY <1>13, <1>16, <1>17 DEF DataHeap
<1>19. MovesTo(d, h, i, d')
  BY <1>1, <1>7, <1>15 DEF MovesTo
<1>20. /\ d' \in [Handles -> Places] /\ BufCount(d', data', pend) = BufCount(d, data', pend)
       /\ \A k \in Places : DataCount(d')[k] = DataCount(d)[k] + One(k, i) - One(k, d[h])
  <2>1. StrMoved(d, h, i, d', data', pend)
    BY <1>17, <1>19, StrMoves
  <2> QED BY <2>1 DEF StrMoved
<1>21. Exact(data', DataCount(d'))
  <2>1. m[i] = 0
    BY <1>13, <1>15 DEF Exact
  <2>2. \A k \in Places : DataCount(d')[k] = m[k] + One(k, i)
    BY <1>9, <1>10, <1>20 DEF One
  <2> QED BY <1>10, <1>13, <1>15, <1>16, <1>17, <2>1, <2>2 DEF Exact, One
<1>22. \A k \in Places : BufCount(d, data', pend)[k] = BufCount(d, et, pend)[k] + One(k, j)
  <2>1. \A k \in Places : BufCount(d, data', pend)[k]
          = BufCount(d, et, pend)[k] + DataPart(data'[i], k) - DataPart(et[i], k)
    BY <1>13, <1>15, <1>17, <1>18, DataChanges
  <2>2. \A k \in Places : DataPart(data'[i], k) = One(k, j) /\ DataPart(et[i], k) = 0
    BY <1>6, <1>15, <1>16, <1>17, Constants DEF DataPart, One
  <2>3. BufCount(d, et, pend) \in [Places -> Nat]
    BY <1>14, CountTypes
  <2> QED BY <2>1, <2>2, <2>3 DEF One
<1>23. BufCount(d, et, pend) \in [Places -> Nat] /\ BufCount(d, data', pend) \in [Places -> Nat]
  BY <1>14, <1>17, CountTypes
<1>24. /\ BufHeap(buf') /\ Exact(buf', BufCount(d, data', pend)) /\ buf'[j] # Free
       /\ \A k \in Places \ {j} : buf'[k] = ef[k]
  <2>1. PICK n0 : n0 = BufCount(d, et, pend)
    OBVIOUS
  <2>2. PICK n1 : n1 = BufCount(d, data', pend)
    OBVIOUS
  <2>3. /\ n0 \in [Places -> Nat] /\ CountAdds(n0, n1, FreeId(ef))
        /\ Exact(ef, n0) /\ FreeId(ef) \in Places /\ ef[FreeId(ef)] = Free
    BY <1>5, <1>13, <1>15, <1>22, <1>23, <2>1, <2>2 DEF CountAdds
  <2>4. NewMade(ef, s, n1, buf')
    BY <1>7, <1>13, <2>3, BufNew
  <2> QED BY <1>5, <2>2, <2>4 DEF NewMade
<1>25. CountInv'
  BY <1>1, <1>7, <1>18, <1>20, <1>21, <1>24 DEF CountInv, TypeOK, Counted
<1>26. \A k \in Places : ef[k] # Free => buf'[k].s = ef[k].s
  BY <1>15, <1>24
<1>27. /\ \A k \in Places : et[k] # Free => DataSound(k, et[k], buf')
       /\ \A g \in Strs \ {h} : pend[g] # Idle => Fold(buf'[pend[g].new].s) = Fold(TextOf(et[d[g]], buf'))
       /\ \A k \in Static : et[k] # Free /\ et[k].b = k /\ et[k].w = k /\ buf'[k].s = <<>>
       /\ et[Null].hash = NullHash
  BY <1>13, <1>26, RemainTexts
<1>28. DataSound(i, q, buf')
  <2>1. q.hash = None /\ (q.b = NoRep <=> q.w # NoRep)
    BY <1>6, <1>15, Constants
  <2> QED BY <2>1 DEF DataSound
<1>29. TextsSound'
  BY <1>17, <1>27, <1>28 DEF TextsSound
<1>30. StaticsSound'
  <2>1. ASSUME NEW k \in Static
        PROVE data'[k] # Free /\ data'[k].b = k /\ data'[k].w = k /\ buf'[k] # Free /\ buf'[k].s = <<>>
    <3>1. k \in Places /\ k # i /\ k # j
      BY <1>15, Constants
    <3>2. ef[k] # Free
      BY <1>13 DEF Remains
    <3> QED BY <1>17, <1>24, <1>27, <3>1, <3>2
  <2>2. data'[Null].hash = NullHash
    BY <1>15, <1>17, <1>27, Constants
  <2> QED BY <2>1, <2>2 DEF StaticsSound
<1>31. PendsSound'
  <2> SUFFICES ASSUME NEW g \in Strs, pend'[g] # Idle
               PROVE  Fold(buf'[pend'[g].new].s) = Fold(TextOf(data'[d'[g]], buf'))
    BY DEF PendsSound
  <2>1. g # h /\ pend'[g] = pend[g] /\ pend[g] # Idle
    BY <1>1, <1>7
  <2>2. d'[g] = d[g] /\ d[g] \in Places
    BY <1>1, <1>7, <2>1 DEF Handles
  <2>3. et[d[g]] # Free
    BY <1>13, <2>1 DEF Remains
  <2>4. data'[d'[g]] = et[d[g]]
    BY <1>15, <1>17, <2>2, <2>3
  <2> QED BY <1>27, <2>1, <2>4
<1>32. ASSUME NEW g \in Handles \ {h} PROVE Val(g)' = Val(g)
  <2>1. d'[g] = d[g] /\ d[g] \in Places
    BY <1>1, <1>7
  <2>2. CASE g \in Strs
    <3>1. et[d[g]] # Free
      BY <1>13, <1>32, <2>2 DEF Remains
    <3>2. data'[d[g]] = et[d[g]]
      BY <1>15, <1>17, <2>1, <3>1
    <3>3. TextOf(et[d[g]], buf') = TextOf(data[d[g]], buf)
      BY <1>13, <1>26, <2>1, <3>1, RemainTexts
    <3> QED BY <2>1, <2>2, <3>2, <3>3, SameVal
  <2>3. CASE g \notin Strs
    <3>1. g \in Blobs
      BY <2>3 DEF Handles
    <3>2. ef[d[g]] # Free /\ ef[d[g]].s = buf[d[g]].s
      BY <1>13, <2>1, <3>1 DEF Remains
    <3> QED BY <1>26, <2>1, <2>3, <3>2, SameVal
  <2> QED BY <2>2, <2>3
<1>33. /\ \A k \in Places : et[k] # Free => /\ data[k] # Free /\ et[k].b = data[k].b /\ et[k].w = data[k].w
                                            /\ SameText(buf, buf', data[k])
       /\ \A g \in Strs \ {h} : pend[g] # Idle => buf'[pend[g].new].s = buf[pend[g].new].s
       /\ \A x \in Blobs : buf'[d[x]].s = buf[d[x]].s
  BY <1>13, <1>26, RemainHeld
<1>34. \A k \in Places \ {i} : data'[k] # Free => DataKept(k)
  BY <1>17, <1>33 DEF DataKept
<1>35. OthersHold(h)
  <2>1. \A x \in Blobs : d'[x] = d[x]
    BY <1>1, <1>7, Constants DEF Handles
  <2> QED BY <1>7, <1>33, <2>1 DEF OthersHold
<1>36. buf'[j].s = s
  BY <1>5, <1>7, <1>14, <1>15 DEF NewBuf
<1>37. d'[h] = i /\ pend'[h] = Idle
  BY <1>1, <1>7 DEF Handles
<1>38. Became(h, s, isWide)
  BY <1>6, <1>15, <1>17, <1>34, <1>35, <1>36, <1>37 DEF Became
<1> QED BY <1>25, <1>29, <1>30, <1>31, <1>32, <1>38 DEF IInv, OthersSame

\* A handle shares the StrData of another, or a static one: i_setDoref().
LEMMA ShareDataStep ==
  ASSUME IInv, NEW h \in Strs, Alone(h), NEW i \in Places, data[i] # Free, ShareData(h, i)
  PROVE  /\ IInv' /\ OthersSame(h) /\ OthersHold(h) /\ pend' = pend /\ d'[h] = i
         /\ data'[i] # Free /\ \A k \in Places : data'[k] # Free => DataKept(k)
<1>1. /\ CountInv /\ TypeOK /\ Counted /\ DataHeap(data) /\ BufHeap(buf) /\ StaticsSound
      /\ d \in [Handles -> Places] /\ pend \in [Handles -> Pendings] /\ DOMAIN data = Places
      /\ d[h] \in Places /\ pend[h] = Idle /\ Exact(data, DataCount(d)) /\ prog \in Programs
  BY DEF IInv, CountInv, TypeOK, DataHeap, Handles, Counted, Alone
<1>2. PICK dt : dt = [data EXCEPT ![i].rc = @ + 1]
  OBVIOUS
<1>3. PICK et : et = UnrefData(dt, buf, d[h])[1]
  OBVIOUS
<1>4. PICK ef : ef = UnrefData(dt, buf, d[h])[2]
  OBVIOUS
<1>5. d' = [d EXCEPT ![h] = i] /\ data' = et /\ buf' = ef /\ prog' = prog /\ pend' = pend
  BY <1>2, <1>3, <1>4 DEF ShareData
<1>6. IsData(data[i])
  BY <1>1 DEF DataHeap
<1>7. DOMAIN dt = Places /\ dt[i] = [data[i] EXCEPT !.rc = @ + 1] /\ \A k \in Places \ {i} : dt[k] = data[k]
  BY <1>1, <1>2
<1>8. /\ IsData(dt[i]) /\ dt[i].rc = data[i].rc + 1 /\ dt[i].b = data[i].b /\ dt[i].w = data[i].w
      /\ dt[i].hash = data[i].hash /\ data[i].rc \in Nat
  BY <1>6, <1>7 DEF IsData
<1>9. dt[i] # Free
  BY <1>8 DEF IsData, Free
<1>10. DataHeap(dt)
  BY <1>1, <1>7, <1>8 DEF DataHeap
<1>11. SameData(data, dt)
  BY <1>1, <1>7, <1>8, <1>9 DEF SameData, SameReps
<1>12. DataCount(d) \in [Places -> Nat] /\ DataCount(d)[d[h]] >= 1
  BY <1>1, CountTypes, OwnedCounts
<1>13. PICK n : n = [k \in Places |-> DataCount(d)[k] + One(k, i)]
  OBVIOUS
<1>14. PICK m : m = [k \in Places |-> n[k] - One(k, d[h])]
  OBVIOUS
<1>15. /\ n \in [Places -> Nat] /\ \A k \in Places : n[k] = DataCount(d)[k] + One(k, i)
       /\ \A k \in Places : n[k] >= DataCount(d)[k]
  BY <1>12, <1>13 DEF One
<1>16. m \in [Places -> Nat] /\ \A k \in Places : m[k] = n[k] - One(k, d[h])
  BY <1>12, <1>14, <1>15 DEF One
<1>17. Exact(dt, n)
  <2>1. dt[i].rc + 1 = n[i]
    <3>1. data[i].rc + 1 = DataCount(d)[i]
      BY <1>1 DEF Exact
    <3> QED BY <1>8, <1>12, <1>15, <3>1 DEF One
  <2>2. ASSUME NEW k \in Places \ {i} PROVE dt[k] = data[k] /\ n[k] = DataCount(d)[k]
    BY <1>7, <1>12, <1>15 DEF One
  <2> QED BY <1>1, <1>9, <2>1, <2>2 DEF Exact
<1>18. /\ DataHeap(et) /\ BufHeap(ef) /\ Exact(et, m) /\ Exact(ef, BufCount(d, et, pend))
       /\ Remains(h, et, ef)
  BY <1>1, <1>3, <1>4, <1>10, <1>11, <1>15, <1>16, <1>17, GiveUp
<1>19. DOMAIN et = Places
  BY <1>18 DEF DataHeap
<1>20. MovesTo(d, h, i, d')
  BY <1>1, <1>5 DEF MovesTo
<1>21. StrMoved(d, h, i, d', et, pend)
  BY <1>19, <1>20, StrMoves
<1>22. Exact(et, DataCount(d'))
  <2>1. DataCount(d') \in [Places -> Nat]
    BY <1>19, CountTypes
  <2>2. \A k \in Places : DataCount(d')[k] = m[k]
    BY <1>12, <1>15, <1>16, <1>21 DEF StrMoved, One
  <2> QED BY <1>18, <2>2 DEF Exact
<1>23. CountInv'
  BY <1>1, <1>5, <1>18, <1>21, <1>22 DEF CountInv, TypeOK, Counted, StrMoved
<1>24. \A k \in Places : ef[k] # Free => ef[k].s = ef[k].s
  OBVIOUS
<1>25. /\ \A k \in Places : et[k] # Free => DataSound(k, et[k], ef)
       /\ \A g \in Strs \ {h} : pend[g] # Idle => Fold(ef[pend[g].new].s) = Fold(TextOf(et[d[g]], ef))
       /\ \A k \in Static : et[k] # Free /\ et[k].b = k /\ et[k].w = k /\ ef[k].s = <<>>
       /\ et[Null].hash = NullHash
  BY <1>18, <1>24, RemainTexts
<1>26. TextsSound'
  BY <1>5, <1>25 DEF TextsSound
<1>27. StaticsSound'
  BY <1>5, <1>18, <1>25 DEF StaticsSound, Remains
<1>28. PendsSound'
  <2> SUFFICES ASSUME NEW g \in Strs, pend'[g] # Idle
               PROVE  Fold(buf'[pend'[g].new].s) = Fold(TextOf(data'[d'[g]], buf'))
    BY DEF PendsSound
  <2>1. g # h /\ pend'[g] = pend[g] /\ pend[g] # Idle
    BY <1>1, <1>5
  <2>2. d'[g] = d[g]
    BY <1>1, <1>5, <2>1 DEF Handles
  <2> QED BY <1>5, <1>25, <2>1, <2>2
<1>29. ASSUME NEW g \in Handles \ {h} PROVE Val(g)' = Val(g)
  <2>1. d'[g] = d[g] /\ d[g] \in Places
    BY <1>1, <1>5
  <2>2. CASE g \in Strs
    <3>1. et[d[g]] # Free
      BY <1>18, <1>29, <2>2 DEF Remains
    <3>2. TextOf(et[d[g]], ef) = TextOf(data[d[g]], buf)
      BY <1>18, <1>24, <2>1, <3>1, RemainTexts
    <3> QED BY <1>5, <2>1, <2>2, <3>2, SameVal
  <2>3. CASE g \notin Strs
    <3>1. g \in Blobs
      BY <2>3 DEF Handles
    <3>2. ef[d[g]] # Free /\ ef[d[g]].s = buf[d[g]].s
      BY <1>18, <2>1, <3>1 DEF Remains
    <3> QED BY <1>5, <2>1, <2>3, <3>2, SameVal
  <2> QED BY <2>2, <2>3
<1>30. /\ \A k \in Places : et[k] # Free => /\ data[k] # Free /\ et[k].b = data[k].b /\ et[k].w = data[k].w
                                            /\ SameText(buf, ef, data[k])
       /\ \A g \in Strs \ {h} : pend[g] # Idle => ef[pend[g].new].s = buf[pend[g].new].s
       /\ \A x \in Blobs : ef[d[x]].s = buf[d[x]].s
  BY <1>18, <1>24, RemainHeld
<1>31. \A k \in Places : data'[k] # Free => DataKept(k)
  BY <1>5, <1>30 DEF DataKept
<1>32. OthersHold(h)
  <2>1. \A x \in Blobs : d'[x] = d[x]
    BY <1>1, <1>5, Constants DEF Handles
  <2> QED BY <1>5, <1>30, <2>1 DEF OthersHold
<1>33. d'[h] = i
  BY <1>1, <1>5 DEF Handles
<1>34. et[i] # Free
  <2>1. DataCount(d')[i] >= 1 /\ DataCount(d') \in [Places -> Nat]
    BY <1>19, <1>33, OwnedCounts, CountTypes
  <2> QED BY <1>22, <2>1, CountedLive
<1> QED BY <1>5, <1>23, <1>26, <1>27, <1>28, <1>29, <1>31, <1>32, <1>33, <1>34 DEF IInv, OthersSame

\* All that a handle refers to is there.
LEMMA Alive ==
  ASSUME IInv
  PROVE  /\ \A h \in Strs : d[h] \in Places /\ data[d[h]] # Free
         /\ \A x \in Blobs : d[x] \in Places /\ buf[d[x]] # Free
         /\ \A i \in Places : data[i] # Free => /\ data[i].b # NoRep => data[i].b \in Places /\ buf[data[i].b] # Free
                                                /\ data[i].w # NoRep => data[i].w \in Places /\ buf[data[i].w] # Free
         /\ \A h \in Strs : pend[h] # Idle => /\ pend[h] \in [k : {"b", "w"}, new : Places]
                                              /\ pend[h].new \in Places /\ buf[pend[h].new] # Free
         /\ \A i \in Static : i \in Places /\ data[i] # Free /\ buf[i] # Free
<1>1. /\ CountInv /\ TypeOK /\ Counted /\ DataHeap(data) /\ BufHeap(buf) /\ StaticsSound
      /\ d \in [Handles -> Places] /\ pend \in [Handles -> Pendings] /\ DOMAIN data = Places
  BY DEF IInv, CountInv, TypeOK, DataHeap, Counted
<1>2. DataCount(d) \in [Places -> Nat] /\ BufCount(d, data, pend) \in [Places -> Nat]
  BY <1>1, CountTypes
<1>3. /\ \A i \in Places : DataCount(d)[i] >= 1 => data[i] # Free
      /\ \A j \in Places : BufCount(d, data, pend)[j] >= 1 => buf[j] # Free
  <2>1. PICK n : n = DataCount(d)
    OBVIOUS
  <2>2. PICK m : m = BufCount(d, data, pend)
    OBVIOUS
  <2>3. \A i \in Places : n[i] >= 1 => data[i] # Free
    BY <1>1, <1>2, <2>1, CountedLive DEF Counted
  <2>4. \A i \in Places : m[i] >= 1 => buf[i] # Free
    BY <1>1, <1>2, <2>2, CountedLive DEF Counted
  <2> QED BY <2>1, <2>2, <2>3, <2>4
<1>4. \A h \in Strs : d[h] \in Places /\ data[d[h]] # Free
  BY <1>1, <1>3, OwnedCounts DEF Handles
<1>5. \A x \in Blobs : d[x] \in Places /\ buf[d[x]] # Free
  BY <1>1, <1>3, OwnedCounts DEF Handles
<1>6. \A i \in Static : i \in Places /\ data[i] # Free /\ buf[i] # Free
  BY <1>1, Constants DEF StaticsSound
<1>7. ASSUME NEW i \in Places, data[i] # Free
      PROVE  /\ data[i].b # NoRep => data[i].b \in Places /\ buf[data[i].b] # Free
             /\ data[i].w # NoRep => data[i].w \in Places /\ buf[data[i].w] # Free
  <2>1. data[i].b \in Reps /\ data[i].w \in Reps
    BY <1>1, <1>7 DEF DataHeap, IsData
  <2>2. CASE i \in Static
    BY <1>1, <1>6, <2>2 DEF StaticsSound
  <2>3. CASE i \notin Static
    <3>1. /\ data[i].b \in Places => BufCount(d, data, pend)[data[i].b] >= 1
          /\ data[i].w \in Places => BufCount(d, data, pend)[data[i].w] >= 1
      BY <1>1, <1>7, <2>3, OwnedCounts
    <3> QED BY <1>3, <2>1, <3>1 DEF Reps
  <2> QED BY <2>2, <2>3
<1>8. ASSUME NEW h \in Strs, pend[h] # Idle
      PROVE  pend[h] \in [k : {"b", "w"}, new : Places] /\ pend[h].new \in Places /\ buf[pend[h].new] # Free
  <2>1. pend[h] \in Pendings
    BY <1>1 DEF Handles
  <2>2. pend[h] \in [k : {"b", "w"}, new : Places]
    BY <1>8, <2>1 DEF Pendings
  <2>3. pend[h].new \in Places
    BY <2>2
  <2>4. BufCount(d, data, pend)[pend[h].new] >= 1
    BY <1>1, <1>8, <2>3, OwnedCounts
  <2> QED BY <1>3, <2>2, <2>3, <2>4
<1> QED BY <1>4, <1>5, <1>6, <1>7, <1>8

\* Characters of a StrData, in the terms of the invariant.
LEMMA CharsText ==
  ASSUME NEW i
  PROVE  Chars(i) = TextOf(data[i], buf) /\ Bytes(i) = buf[data[i].b].s /\ Wides(i) = buf[data[i].w].s
BY DEF Chars, TextOf, HasB, Bytes, Wides

\* getHash(), beq(): the hash of a StrData is computed.
LEMMA UpdateHashStep ==
  ASSUME IInv, NEW h \in Strs, UpdateHash(h)
  PROVE  IInv' /\ AllSame
<1>1. /\ CountInv /\ TypeOK /\ Counted /\ DataHeap(data) /\ BufHeap(buf) /\ StaticsSound /\ TextsSound /\ PendsSound
      /\ d \in [Handles -> Places] /\ pend \in [Handles -> Pendings] /\ DOMAIN data = Places
  BY DEF IInv, CountInv, TypeOK, DataHeap, Counted
<1>2. PICK i : i = d[h]
  OBVIOUS
<1>3. /\ prog' = prog /\ d' = d /\ buf' = buf /\ pend' = pend /\ data[i].hash = None
      /\ data' = [data EXCEPT ![i].hash = Hash(TextOf(data[i], buf))]
  BY <1>2, CharsText DEF UpdateHash
<1>4. i \in Places /\ data[i] # Free
  BY <1>2, Alive
<1>5. i # Null
  BY <1>1, <1>3 DEF StaticsSound, None, NullHash
<1>6. IsData(data[i])
  BY <1>1, <1>4 DEF DataHeap
<1>7. /\ DOMAIN data' = Places /\ \A k \in Places \ {i} : data'[k] = data[k]
      /\ data'[i] = [data[i] EXCEPT !.hash = Hash(TextOf(data[i], buf))]
  BY <1>1, <1>3, <1>4
<1>8. /\ IsData(data'[i]) /\ data'[i].rc = data[i].rc /\ data'[i].b = data[i].b /\ data'[i].w = data[i].w
      /\ data'[i].hash = Hash(TextOf(data[i], buf))
  BY <1>6, <1>7 DEF IsData
<1>9. data'[i] # Free
  BY <1>8 DEF IsData, Free
<1>10. DataHeap(data')
  BY <1>1, <1>7, <1>8 DEF DataHeap
<1>11. SameReps(data, data')
  BY <1>1, <1>4, <1>7, <1>8, <1>9 DEF SameReps
<1>12. BufCount(d, data', pend) = BufCount(d, data, pend)
  BY <1>11, RepsKept
<1>13. Exact(data', DataCount(d))
  BY <1>1, <1>4, <1>7, <1>8, <1>9 DEF Counted, Exact
<1>14. CountInv'
  BY <1>1, <1>3, <1>10, <1>12, <1>13 DEF CountInv, TypeOK, Counted
<1>15. DataSound(i, data'[i], buf)
  <2>1. DataSound(i, data[i], buf)
    BY <1>1, <1>4 DEF TextsSound
  <2>2. CASE data[i].b # NoRep
    <3>1. data'[i].hash = Hash(buf[data[i].b].s)
      BY <1>8, <2>2 DEF TextOf
    <3> QED BY <1>8, <2>1, <2>2, <3>1 DEF DataSound
  <2>3. CASE data[i].b = NoRep
    <3>1. data'[i].hash = Hash(buf[data[i].w].s) /\ data[i].w # NoRep
      BY <1>8, <2>1, <2>3 DEF TextOf, DataSound
    <3> QED BY <1>8, <2>1, <2>3, <3>1 DEF DataSound
  <2> QED BY <2>2, <2>3
<1>16. TextsSound'
  BY <1>1, <1>3, <1>7, <1>15 DEF TextsSound
<1>17. StaticsSound'
  BY <1>1, <1>3, <1>4, <1>5, <1>7, <1>8, <1>9, Constants DEF StaticsSound
<1>18. \A k \in Places : TextOf(data'[k], buf) = TextOf(data[k], buf)
  BY <1>7, <1>8 DEF TextOf
<1>19. PendsSound'
  BY <1>1, <1>3, <1>18, Alive DEF PendsSound
<1>20. AllSame
  <2> SUFFICES ASSUME NEW g \in Handles PROVE Val(g)' = Val(g)
    BY DEF AllSame
  <2>1. d'[g] = d[g] /\ d[g] \in Places
    BY <1>1, <1>3
  <2> QED BY <1>3, <1>18, <2>1, SameVal
<1> QED BY <1>14, <1>16, <1>17, <1>19, <1>20 DEF IInv

\* A conversion loses what only the other representation can hold, and no more.
LEMMA Folds ==
  ASSUME NEW s
  PROVE  Fold(ToByte(s)) = Fold(s) /\ Fold(ToWide(s)) = Fold(s)
<1>1. "?" \notin WideOnly /\ "?" \notin ByteOnly
  BY StringsAssumption
<1> DEFINE b == ToByte(s)  w == ToWide(s)
<1>2. /\ DOMAIN b = DOMAIN s /\ \A i \in DOMAIN s : b[i] = IF s[i] \in WideOnly THEN "?" ELSE s[i]
      /\ DOMAIN w = DOMAIN s /\ \A i \in DOMAIN s : w[i] = IF s[i] \in ByteOnly THEN "?" ELSE s[i]
  BY DEF ToByte, ToWide
<1> HIDE DEF b, w
<1>3. \A i \in DOMAIN s : (IF b[i] \in ByteOnly THEN "?" ELSE b[i]) \in WideOnly <=> FALSE
  BY <1>1, <1>2
<1>4. ToWide(b) = [i \in DOMAIN s |-> IF b[i] \in ByteOnly THEN "?" ELSE b[i]]
  BY <1>2 DEF ToWide
<1>5. ToByte(w) = [i \in DOMAIN s |-> IF w[i] \in WideOnly THEN "?" ELSE w[i]]
  BY <1>2 DEF ToByte
<1>6. ToWide(w) = w
  <2>1. ToWide(w) = [i \in DOMAIN s |-> IF w[i] \in ByteOnly THEN "?" ELSE w[i]]
    BY <1>2 DEF ToWide
  <2>2. w = [i \in DOMAIN s |-> IF s[i] \in ByteOnly THEN "?" ELSE s[i]]
    BY DEF w, ToWide
  <2>3. \A i \in DOMAIN s : (IF w[i] \in ByteOnly THEN "?" ELSE w[i]) = (IF s[i] \in ByteOnly THEN "?" ELSE s[i])
    BY <1>1, <1>2
  <2> QED BY <2>1, <2>2, <2>3
<1>7. ToByte(ToWide(b)) = [i \in DOMAIN s |-> IF b[i] \in ByteOnly THEN "?" ELSE b[i]]
  <2> DEFINE v == ToWide(b)
  <2>1. DOMAIN v = DOMAIN s /\ \A i \in DOMAIN s : v[i] = IF b[i] \in ByteOnly THEN "?" ELSE b[i]
    BY <1>4
  <2> HIDE DEF v
  <2>2. ToByte(v) = [i \in DOMAIN s |-> IF v[i] \in WideOnly THEN "?" ELSE v[i]]
    BY <2>1 DEF ToByte
  <2>3. \A i \in DOMAIN s : (IF v[i] \in WideOnly THEN "?" ELSE v[i]) = (IF b[i] \in ByteOnly THEN "?" ELSE b[i])
    BY <1>3, <2>1
  <2> QED BY <2>2, <2>3 DEF v
<1>8. \A i \in DOMAIN s : (IF b[i] \in ByteOnly THEN "?" ELSE b[i]) = (IF w[i] \in WideOnly THEN "?" ELSE w[i])
  BY <1>1, <1>2
<1>9. ToByte(ToWide(b)) = ToByte(w)
  BY <1>5, <1>7, <1>8
<1> QED BY <1>6, <1>9 DEF Fold, b, w

\* A step that leaves data, String handles and conversions alone, and the text of
\* every buffer they own.
LEMMA TextsKept ==
  ASSUME IInv, data' = data, pend' = pend, \A h \in Strs : d'[h] = d[h],
         \A i \in Static : buf'[i] # Free /\ buf'[i].s = buf[i].s,
         \A i \in Places : data[i] # Free => SameText(buf, buf', data[i]),
         \A h \in Strs : pend[h] # Idle => buf'[pend[h].new].s = buf[pend[h].new].s
  PROVE  StaticsSound' /\ TextsSound' /\ PendsSound'
<1>1. StaticsSound /\ TextsSound /\ PendsSound
  BY DEF IInv
<1>2. \A i \in Places : data[i] # Free => DataSound(i, data[i], buf') /\ TextOf(data[i], buf') = TextOf(data[i], buf)
  <2> SUFFICES ASSUME NEW i \in Places, data[i] # Free
               PROVE  DataSound(i, data[i], buf') /\ TextOf(data[i], buf') = TextOf(data[i], buf)
    OBVIOUS
  <2>1. DataSound(i, data[i], buf) /\ SameText(buf, buf', data[i])
    BY <1>1 DEF TextsSound
  <2> QED BY <2>1, KeptSound
<1>3. StaticsSound'
  BY <1>1 DEF StaticsSound
<1>4. TextsSound'
  BY <1>2 DEF TextsSound
<1>5. PendsSound'
  <2> SUFFICES ASSUME NEW h \in Strs, pend[h] # Idle
               PROVE  Fold(buf'[pend[h].new].s) = Fold(TextOf(data[d[h]], buf'))
    BY DEF PendsSound
  <2>1. Fold(buf[pend[h].new].s) = Fold(TextOf(data[d[h]], buf))
    BY <1>1 DEF PendsSound
  <2>2. TextOf(data[d[h]], buf') = TextOf(data[d[h]], buf)
    BY <1>2, Alive
  <2> QED BY <2>1, <2>2
<1> QED BY <1>3, <1>4, <1>5

\* updateByte(), updateWide(): the first half of a conversion.
LEMMA ConvertStep ==
  ASSUME IInv, NEW h \in Strs, Convert(h)
  PROVE  IInv' /\ AllSame
<1>1. /\ CountInv /\ TypeOK /\ Counted /\ DataHeap(data) /\ BufHeap(buf) /\ StaticsSound /\ TextsSound /\ PendsSound
      /\ d \in [Handles -> Places] /\ pend \in [Handles -> Pendings] /\ DOMAIN data = Places /\ DOMAIN buf = Places
      /\ h \in Handles /\ pend[h] = Idle
  BY DEF IInv, CountInv, TypeOK, DataHeap, BufHeap, Counted, Handles, Convert, Alone
<1>2. PICK k \in {"b", "w"} :
         /\ data[d[h]][k] = NoRep
         /\ buf' = NewBuf(buf, Converted(d[h], k), Len(Converted(d[h], k)) + 1)
         /\ pend' = [pend EXCEPT ![h] = [k |-> k, new |-> FreeId(buf)]]
  BY DEF Convert
<1>3. prog' = prog /\ d' = d /\ data' = data
  BY DEF Convert
<1>4. PICK j : j = FreeId(buf)
  OBVIOUS
<1>5. PICK s : s = Converted(d[h], k)
  OBVIOUS
<1>6. j \in Places \ Static /\ buf[j] = Free
  BY <1>1, <1>4, Room, Alive
<1>7. PICK q : q = [k |-> k, new |-> j]
  OBVIOUS
<1>8. q \in Pendings /\ q.new = j /\ q # Idle
  BY <1>6, <1>7 DEF Pendings, Idle
<1>9. pend' = [pend EXCEPT ![h] = q] /\ pend'[h] = q /\ \A g \in Handles \ {h} : pend'[g] = pend[g]
  BY <1>1, <1>2, <1>4, <1>7
<1>10. PendsTo(pend, h, q, pend')
  BY <1>1, <1>8, <1>9 DEF PendsTo
<1>11. PendMoved(d, data, pend, h, q, pend')
  BY <1>1, <1>10, PendChanges
<1>12. BufCount(d, data, pend) \in [Places -> Nat] /\ BufCount(d, data, pend') \in [Places -> Nat]
  BY <1>1, CountTypes
<1>13. CountAdds(BufCount(d, data, pend), BufCount(d, data, pend'), j)
  <2>1. \A i \in Places : PendPart(q, i) = One(i, j) /\ PendPart(pend[h], i) = 0
    BY <1>1, <1>8 DEF PendPart
  <2> QED BY <1>11, <1>12, <2>1 DEF PendMoved, CountAdds, One
<1>14. NewMade(buf, s, BufCount(d, data, pend'), buf')
  <2>1. PICK n0 : n0 = BufCount(d, data, pend)
    OBVIOUS
  <2>2. PICK n1 : n1 = BufCount(d, data, pend')
    OBVIOUS
  <2>3. /\ n0 \in [Places -> Nat] /\ CountAdds(n0, n1, FreeId(buf)) /\ Exact(buf, n0)
        /\ FreeId(buf) \in Places /\ buf[FreeId(buf)] = Free
    BY <1>1, <1>4, <1>6, <1>12, <1>13, <2>1, <2>2 DEF Counted
  <2>4. NewMade(buf, s, n1, buf')
    BY <1>1, <1>2, <1>5, <2>3, BufNew
  <2> QED BY <2>2, <2>4
<1>15. CountInv'
  BY <1>1, <1>3, <1>11, <1>14 DEF CountInv, TypeOK, Counted, NewMade, PendMoved
<1>16. buf'[j].s = s /\ \A i \in Places \ {j} : buf'[i] = buf[i]
  BY <1>4, <1>14 DEF NewMade
<1>17. \A i \in Places : buf[i] # Free => i # j /\ buf'[i] = buf[i]
  BY <1>6, <1>16
<1>18. /\ \A i \in Static : buf'[i] # Free /\ buf'[i].s = buf[i].s
       /\ \A i \in Places : data[i] # Free => SameText(buf, buf', data[i])
       /\ \A g \in Strs : pend[g] # Idle => buf'[pend[g].new].s = buf[pend[g].new].s
  BY <1>17, Alive DEF SameText
<1>19. \A i \in Places : data[i] # Free => DataSound(i, data[i], buf') /\ TextOf(data[i], buf') = TextOf(data[i], buf)
  <2> SUFFICES ASSUME NEW i \in Places, data[i] # Free
               PROVE  DataSound(i, data[i], buf') /\ TextOf(data[i], buf') = TextOf(data[i], buf)
    OBVIOUS
  <2>1. DataSound(i, data[i], buf) /\ SameText(buf, buf', data[i])
    BY <1>1, <1>18 DEF TextsSound
  <2> QED BY <2>1, KeptSound
<1>20. StaticsSound' /\ TextsSound'
  BY <1>1, <1>3, <1>18, <1>19 DEF StaticsSound, TextsSound
<1>21. Fold(s) = Fold(TextOf(data[d[h]], buf))
  <2>1. data[d[h]].b # NoRep \/ data[d[h]].w # NoRep
    BY <1>1, Alive DEF TextsSound, DataSound
  <2>2. CASE k = "b"
    <3>1. data[d[h]].b = NoRep
      BY <1>2, <2>2
    <3>2. s = ToByte(buf[data[d[h]].w].s)
      BY <1>5, <2>2 DEF Converted, Wides
    <3> QED BY <3>1, <3>2, Folds DEF TextOf
  <2>3. CASE k = "w"
    <3>1. data[d[h]].w = NoRep
      BY <1>2, <2>3
    <3>2. s = ToWide(buf[data[d[h]].b].s)
      BY <1>5, <2>3 DEF Converted, Bytes
    <3> QED BY <2>1, <3>1, <3>2, Folds DEF TextOf
  <2> QED BY <2>2, <2>3
<1>22. PendsSound'
  <2> SUFFICES ASSUME NEW g \in Strs, pend'[g] # Idle
               PROVE  Fold(buf'[pend'[g].new].s) = Fold(TextOf(data[d[g]], buf'))
    BY <1>3 DEF PendsSound
  <2>1. TextOf(data[d[g]], buf') = TextOf(data[d[g]], buf)
    BY <1>19, Alive
  <2>2. CASE g = h
    BY <1>8, <1>9, <1>16, <1>21, <2>1, <2>2
  <2>3. CASE g # h
    <3>1. pend'[g] = pend[g]
      BY <1>9, <2>3 DEF Handles
    <3>2. Fold(buf[pend[g].new].s) = Fold(TextOf(data[d[g]], buf))
      BY <1>1, <3>1 DEF PendsSound
    <3> QED BY <1>18, <2>1, <3>1, <3>2
  <2> QED BY <2>2, <2>3
<1>23. AllSame
  <2> SUFFICES ASSUME NEW g \in Handles PROVE Val(g)' = Val(g)
    BY DEF AllSame
  <2>1. d'[g] = d[g] /\ d[g] \in Places
    BY <1>1, <1>3
  <2>2. g \in Strs => TextOf(data[d[g]], buf') = TextOf(data[d[g]], buf)
    BY <1>19, Alive
  <2>3. g \notin Strs => buf'[d[g]].s = buf[d[g]].s
    BY <1>17, <2>1, Alive DEF Handles
  <2> QED BY <1>3, <2>1, <2>2, <2>3, SameVal
<1> QED BY <1>15, <1>20, <1>22, <1>23 DEF IInv

\* The second half of a conversion, first to come: the representation is stored.
LEMMA StoreFirst ==
  ASSUME IInv, NEW h \in Strs, Store(h), data[d[h]][pend[h].k] = NoRep
  PROVE  IInv' /\ AllSame
<1>1. /\ CountInv /\ TypeOK /\ Counted /\ DataHeap(data) /\ BufHeap(buf) /\ StaticsSound /\ TextsSound /\ PendsSound
      /\ d \in [Handles -> Places] /\ pend \in [Handles -> Pendings] /\ DOMAIN data = Places
      /\ h \in Handles /\ pend[h] # Idle
  BY DEF IInv, CountInv, TypeOK, DataHeap, Counted, Handles, Store
<1>2. PICK i : i = d[h]
  OBVIOUS
<1>3. PICK new : new = pend[h].new
  OBVIOUS
<1>4. PICK k \in {"b", "w"} : k = pend[h].k
  BY <1>1, Alive
<1>5. /\ prog' = prog /\ d' = d /\ buf' = buf /\ data[i][k] = NoRep
      /\ data' = [data EXCEPT ![i][k] = new] /\ pend' = [pend EXCEPT ![h] = Idle]
  BY <1>2, <1>3, <1>4 DEF Store
<1>6. i \in Places /\ data[i] # Free /\ new \in Places /\ buf[new] # Free
  BY <1>1, <1>2, <1>3, Alive
<1>7. IsData(data[i])
  BY <1>1, <1>6 DEF DataHeap
<1>8. DOMAIN data' = Places /\ \A g \in Places \ {i} : data'[g] = data[g]
  BY <1>1, <1>5, <1>6
<1>9. /\ IsData(data'[i]) /\ data'[i].rc = data[i].rc /\ data'[i].hash = data[i].hash
      /\ \/ data[i].b = NoRep /\ data'[i].b = new /\ data'[i].w = data[i].w
         \/ data[i].w = NoRep /\ data'[i].w = new /\ data'[i].b = data[i].b
  <2>1. CASE k = "b"
    <3>1. data[i].b = NoRep /\ data' = [data EXCEPT ![i].b = new]
      BY <1>5, <2>1
    <3>2. data'[i] = [data[i] EXCEPT !.b = new]
      BY <1>1, <1>6, <3>1
    <3> QED BY <1>6, <1>7, <3>1, <3>2 DEF IsData, Reps
  <2>2. CASE k = "w"
    <3>1. data[i].w = NoRep /\ data' = [data EXCEPT ![i].w = new]
      BY <1>5, <2>2
    <3>2. data'[i] = [data[i] EXCEPT !.w = new]
      BY <1>1, <1>6, <3>1
    <3> QED BY <1>6, <1>7, <3>1, <3>2 DEF IsData, Reps
  <2> QED BY <2>1, <2>2
<1>10. data'[i] # Free
  BY <1>9 DEF IsData, Free
<1>11. i \notin Static
  BY <1>1, <1>6, <1>9, Constants DEF StaticsSound
<1>12. DataHeap(data')
  BY <1>1, <1>8, <1>9 DEF DataHeap
<1>13. Exact(data', DataCount(d))
  BY <1>1, <1>6, <1>8, <1>9, <1>10 DEF Counted, Exact
<1>14. Idle \in Pendings /\ pend'[h] = Idle /\ \A g \in Handles \ {h} : pend'[g] = pend[g]
  BY <1>1, <1>5 DEF Pendings
<1>15. PendMoved(d, data', pend, h, Idle, pend')
  <2>1. PendsTo(pend, h, Idle, pend')
    BY <1>1, <1>5, <1>14 DEF PendsTo
  <2> QED BY <1>8, <2>1, PendChanges
<1>16. /\ BufCount(d, data, pend) \in [Places -> Nat] /\ BufCount(d, data', pend) \in [Places -> Nat]
       /\ BufCount(d, data', pend') \in [Places -> Nat]
  BY <1>1, <1>8, CountTypes
<1>17. \A j \in Places : BufCount(d, data', pend')[j] = BufCount(d, data, pend)[j]
  <2>1. \A j \in Places : BufCount(d, data', pend)[j]
          = BufCount(d, data, pend)[j] + DataPart(data'[i], j) - DataPart(data[i], j)
    BY <1>1, <1>6, <1>8, <1>11, <1>12, DataChanges
  <2>2. \A j \in Places : DataPart(data'[i], j) = DataPart(data[i], j) + One(j, new)
    BY <1>6, <1>9, <1>10, Constants DEF DataPart, One
  <2>3. \A j \in Places : PendPart(Idle, j) = 0 /\ PendPart(pend[h], j) = One(j, new)
    BY <1>1, <1>3 DEF PendPart
  <2>4. \A j \in Places : One(j, new) \in Nat /\ DataPart(data[i], j) \in Nat
    BY DEF One, DataPart
  <2>5. ASSUME NEW j \in Places PROVE BufCount(d, data', pend')[j] = BufCount(d, data, pend)[j]
    <3>1. BufCount(d, data', pend')[j] = BufCount(d, data', pend)[j] + 0 - One(j, new)
      BY <1>15, <2>3 DEF PendMoved
    <3>2. BufCount(d, data', pend)[j] = BufCount(d, data, pend)[j] + One(j, new)
      BY <1>16, <2>1, <2>2, <2>4
    <3> QED BY <1>16, <2>4, <3>1, <3>2
  <2> QED BY <2>5
<1>18. Exact(buf, BufCount(d, data', pend'))
  BY <1>1, <1>17 DEF Counted, Exact
<1>19. CountInv'
  BY <1>1, <1>5, <1>12, <1>13, <1>15, <1>18 DEF CountInv, TypeOK, Counted, PendMoved
<1>20. Fold(buf[new].s) = Fold(TextOf(data[i], buf)) /\ DataSound(i, data[i], buf)
  BY <1>1, <1>2, <1>3, <1>6 DEF PendsSound, TextsSound
<1>21. DataSound(i, data'[i], buf) /\ Fold(TextOf(data'[i], buf)) = Fold(TextOf(data[i], buf))
  <2>1. CASE data[i].b = NoRep /\ data'[i].b = new /\ data'[i].w = data[i].w
    <3>1. TextOf(data[i], buf) = buf[data[i].w].s /\ TextOf(data'[i], buf) = buf[new].s /\ data[i].w # NoRep
      BY <1>6, <1>20, <2>1, Constants DEF TextOf, DataSound
    <3>2. data[i].hash # None /\ i # Null => data[i].hash = Hash(buf[data[i].w].s)
      BY <1>20, <2>1 DEF DataSound
    <3> QED BY <1>9, <1>20, <2>1, <3>1, <3>2 DEF DataSound
  <2>2. CASE data[i].w = NoRep /\ data'[i].w = new /\ data'[i].b = data[i].b
    <3>1. TextOf(data[i], buf) = buf[data[i].b].s /\ TextOf(data'[i], buf) = buf[data[i].b].s /\ data[i].b # NoRep
      BY <1>20, <2>2 DEF TextOf, DataSound
    <3>2. data[i].hash # None /\ i # Null => data[i].hash = Hash(buf[data[i].b].s)
      BY <1>20, <2>2 DEF DataSound
    <3> QED BY <1>9, <1>20, <2>2, <3>1, <3>2 DEF DataSound
  <2> QED BY <1>9, <2>1, <2>2
<1>22. TextsSound'
  BY <1>1, <1>5, <1>8, <1>21 DEF TextsSound
<1>23. StaticsSound'
  BY <1>1, <1>5, <1>8, <1>11, Constants DEF StaticsSound
<1>24. PendsSound'
  <2> SUFFICES ASSUME NEW g \in Strs, pend'[g] # Idle
               PROVE  Fold(buf[pend'[g].new].s) = Fold(TextOf(data'[d[g]], buf))
    BY <1>5 DEF PendsSound
  <2>1. pend'[g] = pend[g]
    BY <1>14 DEF Handles
  <2>2. Fold(buf[pend[g].new].s) = Fold(TextOf(data[d[g]], buf))
    BY <1>1, <2>1 DEF PendsSound
  <2>3. Fold(TextOf(data'[d[g]], buf)) = Fold(TextOf(data[d[g]], buf))
    <3>1. d[g] \in Places
      BY Alive
    <3> QED BY <1>8, <1>21, <3>1
  <2> QED BY <2>1, <2>2, <2>3
<1>25. AllSame
  <2> SUFFICES ASSUME NEW g \in Handles PROVE Val(g)' = Val(g)
    BY DEF AllSame
  <2>1. d'[g] = d[g] /\ d[g] \in Places
    BY <1>1, <1>5
  <2>2. Fold(TextOf(data'[d[g]], buf')) = Fold(TextOf(data[d[g]], buf))
    BY <1>5, <1>8, <1>21, <2>1
  <2> QED BY <1>5, <2>1, <2>2, SameVal
<1> QED BY <1>19, <1>22, <1>23, <1>24, <1>25 DEF IInv

\* The loser of the race gives its buffer up.
LEMMA StoreLate ==
  ASSUME IInv, NEW h \in Strs, Store(h), data[d[h]][pend[h].k] # NoRep
  PROVE  /\ IInv' /\ AllSame /\ data' = data
         /\ \A i \in Places : data[i] # Free => SameText(buf, buf', data[i])
         /\ \A g \in Strs : pend'[g] # Idle => pend'[g] = pend[g] /\ buf'[pend[g].new].s = buf[pend[g].new].s
         /\ \A x \in Blobs : buf'[d[x]].s = buf[d[x]].s
<1>1. /\ CountInv /\ TypeOK /\ Counted /\ DataHeap(data) /\ BufHeap(buf)
      /\ d \in [Handles -> Places] /\ pend \in [Handles -> Pendings] /\ DOMAIN data = Places
      /\ h \in Handles /\ pend[h] # Idle
  BY DEF IInv, CountInv, TypeOK, DataHeap, Counted, Handles, Store
<1>2. PICK new : new = pend[h].new
  OBVIOUS
<1>3. /\ prog' = prog /\ d' = d /\ data' = data /\ buf' = UnrefBuf(buf, new) /\ pend' = [pend EXCEPT ![h] = Idle]
  BY <1>2 DEF Store, Lose
<1>4. new \in Reps /\ new \in Places
  BY <1>1, <1>2, Alive DEF Reps
<1>5. Idle \in Pendings /\ pend'[h] = Idle /\ \A g \in Handles \ {h} : pend'[g] = pend[g]
  BY <1>1, <1>3 DEF Pendings
<1>6. PendMoved(d, data, pend, h, Idle, pend')
  <2>1. PendsTo(pend, h, Idle, pend')
    BY <1>1, <1>3, <1>5 DEF PendsTo
  <2> QED BY <1>1, <2>1, PendChanges
<1>7. PICK n : n = BufCount(d, data, pend)
  OBVIOUS
<1>8. PICK m : m = BufCount(d, data, pend')
  OBVIOUS
<1>9. n \in [Places -> Nat] /\ m \in [Places -> Nat] /\ Exact(buf, n)
  BY <1>1, <1>7, <1>8, CountTypes DEF Counted
<1>10. \A j \in Places : m[j] = n[j] - One(j, new)
  <2>1. \A j \in Places : PendPart(Idle, j) = 0 /\ PendPart(pend[h], j) = One(j, new) /\ One(j, new) \in Nat
    BY <1>1, <1>2 DEF PendPart, One
  <2> QED BY <1>6, <1>7, <1>8, <1>9, <2>1 DEF PendMoved
<1>11. /\ BufHeap(buf') /\ Exact(buf', m)
       /\ \A k \in Places : buf'[k] # Free => buf[k] # Free /\ buf'[k].s = buf[k].s
  BY <1>1, <1>3, <1>4, <1>9, <1>10, BufUnref
<1>12. CountInv'
  BY <1>1, <1>3, <1>6, <1>8, <1>11 DEF CountInv, TypeOK, Counted, PendMoved
<1>13. \A k \in Places : m[k] >= 1 => buf'[k].s = buf[k].s /\ buf'[k] # Free
  BY <1>9, <1>11, CountedLive
<1>14. \A i \in Static : buf'[i] # Free /\ buf'[i].s = buf[i].s
  <2>1. \A i \in Static : m[i] >= 2 /\ i \in Places /\ m[i] \in Nat
    BY <1>1, <1>8, <1>9, OwnedCounts, Constants
  <2> QED BY <1>13, <2>1
<1>15. ASSUME NEW i \in Places, data[i] # Free PROVE SameText(buf, buf', data[i])
  <2>1. CASE i \in Static
    <3>1. data[i].b = i /\ data[i].w = i
      BY <2>1 DEF IInv, StaticsSound
    <3> QED BY <1>14, <2>1, <3>1 DEF SameText
  <2>2. CASE i \notin Static
    <3>1. /\ data[i].b # NoRep => data[i].b \in Places
          /\ data[i].w # NoRep => data[i].w \in Places
      BY <1>15, Alive
    <3>2. /\ data[i].b \in Places => m[data[i].b] >= 1
          /\ data[i].w \in Places => m[data[i].w] >= 1
      BY <1>1, <1>8, <1>15, <2>2, OwnedCounts
    <3> QED BY <1>13, <3>1, <3>2 DEF SameText
  <2> QED BY <2>1, <2>2
<1>16. ASSUME NEW g \in Strs, pend'[g] # Idle
       PROVE  pend'[g] = pend[g] /\ buf'[pend'[g].new].s = buf[pend'[g].new].s
  <2>1. pend'[g] = pend[g] /\ pend[g] # Idle
    BY <1>5, <1>16 DEF Handles
  <2>2. pend'[g].new \in Places
    BY <2>1, Alive
  <2>3. m[pend'[g].new] >= 1
    BY <1>1, <1>8, <1>16, <2>2, OwnedCounts
  <2> QED BY <1>13, <2>1, <2>2, <2>3
<1>17. StaticsSound /\ TextsSound /\ PendsSound
  BY DEF IInv
<1>18. \A i \in Places : data[i] # Free => DataSound(i, data[i], buf') /\ TextOf(data[i], buf') = TextOf(data[i], buf)
  <2> SUFFICES ASSUME NEW i \in Places, data[i] # Free
               PROVE  DataSound(i, data[i], buf') /\ TextOf(data[i], buf') = TextOf(data[i], buf)
    OBVIOUS
  <2>1. DataSound(i, data[i], buf) /\ SameText(buf, buf', data[i])
    BY <1>15, <1>17 DEF TextsSound
  <2> QED BY <2>1, KeptSound
<1>19. StaticsSound' /\ TextsSound'
  BY <1>3, <1>14, <1>17, <1>18 DEF StaticsSound, TextsSound
<1>20. PendsSound'
  <2> SUFFICES ASSUME NEW g \in Strs, pend'[g] # Idle
               PROVE  Fold(buf'[pend'[g].new].s) = Fold(TextOf(data[d[g]], buf'))
    BY <1>3 DEF PendsSound
  <2>1. pend'[g] = pend[g]
    BY <1>5 DEF Handles
  <2>2. Fold(buf[pend[g].new].s) = Fold(TextOf(data[d[g]], buf))
    BY <1>17, <2>1 DEF PendsSound
  <2>3. TextOf(data[d[g]], buf') = TextOf(data[d[g]], buf)
    BY <1>18, Alive
  <2> QED BY <1>16, <2>1, <2>2, <2>3
<1>21. AllSame
  <2> SUFFICES ASSUME NEW g \in Handles PROVE Val(g)' = Val(g)
    BY DEF AllSame
  <2>1. d'[g] = d[g] /\ d[g] \in Places
    BY <1>1, <1>3
  <2>2. g \in Strs => TextOf(data[d[g]], buf') = TextOf(data[d[g]], buf)
    BY <1>18, Alive
  <2>3. ASSUME g \notin Strs PROVE buf'[d[g]].s = buf[d[g]].s
    <3>1. m[d[g]] >= 1
      BY <1>1, <1>8, <2>1, <2>3, OwnedCounts DEF Handles
    <3> QED BY <1>13, <2>1, <3>1
  <2> QED BY <1>3, <2>1, <2>2, <2>3, SameVal
<1>22. ASSUME NEW x \in Blobs PROVE buf'[d[x]].s = buf[d[x]].s
  <2>1. d'[x] = d[x] /\ d[x] \in Places
    BY <1>1, <1>3 DEF Handles
  <2>2. m[d[x]] >= 1
    BY <1>1, <1>8, <2>1, OwnedCounts
  <2> QED BY <1>13, <2>1, <2>2
<1> QED BY <1>3, <1>12, <1>15, <1>16, <1>19, <1>20, <1>21, <1>22 DEF IInv

\* The two together.
LEMMA StoreStep ==
  ASSUME IInv, NEW h \in Strs, Store(h)
  PROVE  IInv' /\ AllSame
BY StoreFirst, StoreLate

-----------------------------------------------------------------------------
(* The operations on a blob.                                               *)

\* The buffers of the Strings, of pending conversions, of the other blobs and the
\* static ones are there, with the text they had.
OthersKept(x, cf) ==
    /\ \A i \in Static : cf[i] # Free /\ cf[i].s = buf[i].s
    /\ \A i \in Places : data[i] # Free =>
         /\ data[i].b # NoRep => cf[data[i].b] # Free /\ cf[data[i].b].s = buf[data[i].b].s
         /\ data[i].w # NoRep => cf[data[i].w] # Free /\ cf[data[i].w].s = buf[data[i].w].s
    /\ \A h \in Strs : pend[h] # Idle => cf[pend[h].new] # Free /\ cf[pend[h].new].s = buf[pend[h].new].s
    /\ \A y \in Blobs \ {x} : cf[d[y]] # Free /\ cf[d[y]].s = buf[d[y]].s

\* A second blob that owns a buffer is counted.
LEMMA OtherBlob ==
  ASSUME IInv, NEW x \in Blobs, NEW y \in Blobs \ {x}
  PROVE  BufCount(d, data, pend)[d[y]] - One(d[y], d[x]) >= 1
<1>1. d \in [Handles -> Places] /\ DOMAIN data = Places /\ x \in Handles /\ y \in Handles
  BY DEF IInv, CountInv, TypeOK, DataHeap, Handles
<1>2. PICK k \in Places : k # d[y]
  BY Constants
<1>3. PICK e : e = [d EXCEPT ![x] = k]
  OBVIOUS
<1>4. e[y] = d[y] /\ d[y] \in Places
  BY <1>1, <1>3
<1>5. BufCount(e, data, pend)[d[y]] = BufCount(d, data, pend)[d[y]] + One(d[y], k) - One(d[y], d[x])
  <2>1. MovesTo(d, x, k, e)
    BY <1>1, <1>3 DEF MovesTo
  <2>2. BlobMoved(d, x, k, e, data, pend)
    BY <1>1, <2>1, BlobMoves
  <2> QED BY <1>4, <2>2 DEF BlobMoved
<1>6. BufCount(e, data, pend)[d[y]] >= 1
  BY <1>1, <1>4, OwnedCounts
<1>7. BufCount(d, data, pend)[d[y]] \in Nat /\ One(d[y], k) = 0 /\ One(d[y], d[x]) \in {0, 1}
  BY <1>1, <1>2, <1>4, CountTypes DEF One
<1> QED BY <1>5, <1>6, <1>7

\* Who owns a buffer beside a blob keeps it when the blob gives it up.
LEMMA Shared ==
  ASSUME IInv, NEW x \in Blobs
  PROVE  LET n == BufCount(d, data, pend) IN
         /\ n \in [Places -> Nat] /\ n[d[x]] >= 1
         /\ \A i \in Static : n[i] - One(i, d[x]) >= 1
         /\ \A i \in Places : data[i] # Free =>
              /\ data[i].b # NoRep => n[data[i].b] - One(data[i].b, d[x]) >= 1
              /\ data[i].w # NoRep => n[data[i].w] - One(data[i].w, d[x]) >= 1
         /\ \A h \in Strs : pend[h] # Idle => n[pend[h].new] - One(pend[h].new, d[x]) >= 1
         /\ \A y \in Blobs \ {x} : n[d[y]] - One(d[y], d[x]) >= 1
<1>1. StaticsSound /\ DOMAIN data = Places
  BY DEF IInv, CountInv, TypeOK, DataHeap
<1>2. PICK n : n = BufCount(d, data, pend)
  OBVIOUS
<1>3. n \in [Places -> Nat]
  BY <1>1, <1>2, CountTypes
<1>4. d[x] \in Places /\ n[d[x]] >= 1
  BY <1>1, <1>2, Alive, OwnedCounts
<1>5. \A i \in Static : n[i] >= 2 /\ i \in Places
  BY <1>1, <1>2, OwnedCounts, Constants
<1>6. \A i \in Static : n[i] - One(i, d[x]) >= 1
  BY <1>3, <1>5 DEF One
<1>7. ASSUME NEW i \in Places, data[i] # Free, NEW j, j = data[i].b \/ j = data[i].w, j # NoRep
      PROVE  n[j] - One(j, d[x]) >= 1
  <2>1. j \in Places
    BY <1>7, Alive
  <2>2. CASE i \in Static
    BY <1>1, <1>6, <1>7, <2>2 DEF StaticsSound
  <2>3. CASE i \notin Static
    <3>1. n[j] >= 1
      BY <1>1, <1>2, <1>7, <2>1, <2>3, OwnedCounts
    <3>2. d[x] = j => n[j] >= 2
      BY <1>1, <1>2, <1>7, <2>1, <2>3, OwnedCounts
    <3> QED BY <1>3, <2>1, <3>1, <3>2 DEF One
  <2> QED BY <2>2, <2>3
<1>8. ASSUME NEW h \in Strs, pend[h] # Idle PROVE n[pend[h].new] - One(pend[h].new, d[x]) >= 1
  <2>1. pend[h].new \in Places
    BY <1>8, Alive
  <2>2. n[pend[h].new] >= 1
    BY <1>1, <1>2, <1>8, <2>1, OwnedCounts
  <2>3. d[x] = pend[h].new => n[pend[h].new] >= 2
    BY <1>1, <1>2, <1>8, <2>1, OwnedCounts
  <2> QED BY <1>3, <2>1, <2>2, <2>3 DEF One
<1>9. \A y \in Blobs \ {x} : n[d[y]] - One(d[y], d[x]) >= 1
  BY <1>2, OtherBlob
<1> QED BY <1>2, <1>3, <1>4, <1>6, <1>7, <1>8, <1>9

\* A heap that counts at least the other owners keeps their buffers.
LEMMA BlobRemains ==
  ASSUME IInv, NEW x \in Blobs, NEW m \in [Places -> Nat],
         \A k \in Places : m[k] >= BufCount(d, data, pend)[k] - One(k, d[x]),
         NEW ef, Exact(ef, m), \A k \in Places : ef[k] # Free => ef[k].s = buf[k].s
  PROVE  OthersKept(x, ef)
<1>1. PICK n : n = BufCount(d, data, pend)
  OBVIOUS
<1>2. /\ n \in [Places -> Nat]
      /\ \A i \in Static : n[i] - One(i, d[x]) >= 1
      /\ \A i \in Places : data[i] # Free =>
           /\ data[i].b # NoRep => n[data[i].b] - One(data[i].b, d[x]) >= 1
           /\ data[i].w # NoRep => n[data[i].w] - One(data[i].w, d[x]) >= 1
      /\ \A h \in Strs : pend[h] # Idle => n[pend[h].new] - One(pend[h].new, d[x]) >= 1
      /\ \A y \in Blobs \ {x} : n[d[y]] - One(d[y], d[x]) >= 1
  BY <1>1, Shared
<1>3. \A k \in Places : n[k] - One(k, d[x]) >= 1 => ef[k] # Free /\ ef[k].s = buf[k].s
  <2> SUFFICES ASSUME NEW k \in Places, n[k] - One(k, d[x]) >= 1 PROVE ef[k] # Free
    OBVIOUS
  <2>1. m[k] >= n[k] - One(k, d[x]) /\ m[k] \in Nat /\ n[k] \in Nat /\ One(k, d[x]) \in {0, 1}
    BY <1>1, <1>2 DEF One
  <2>2. m[k] >= 1
    BY <2>1
  <2> QED BY <2>2, CountedLive
<1>4. \A i \in Static : ef[i] # Free /\ ef[i].s = buf[i].s
  BY <1>2, <1>3, Constants
<1>5. ASSUME NEW i \in Places, data[i] # Free
      PROVE  /\ data[i].b # NoRep => ef[data[i].b] # Free /\ ef[data[i].b].s = buf[data[i].b].s
             /\ data[i].w # NoRep => ef[data[i].w] # Free /\ ef[data[i].w].s = buf[data[i].w].s
  <2>1. (data[i].b # NoRep => data[i].b \in Places) /\ (data[i].w # NoRep => data[i].w \in Places)
    BY <1>5, Alive
  <2> QED BY <1>2, <1>3, <1>5, <2>1
<1>6. ASSUME NEW h \in Strs, pend[h] # Idle
      PROVE  ef[pend[h].new] # Free /\ ef[pend[h].new].s = buf[pend[h].new].s
  <2>1. pend[h].new \in Places
    BY <1>6, Alive
  <2> QED BY <1>2, <1>3, <1>6, <2>1
<1>7. \A y \in Blobs \ {x} : ef[d[y]] # Free /\ ef[d[y]].s = buf[d[y]].s
  BY <1>2, <1>3, Alive
<1> QED BY <1>4, <1>5, <1>6, <1>7 DEF OthersKept

\* Then the texts of the Strings are what they were.
LEMMA BlobTexts ==
  ASSUME IInv, NEW x \in Blobs, data' = data, pend' = pend, \A g \in Handles \ {x} : d'[g] = d[g], OthersKept(x, buf')
  PROVE  StaticsSound' /\ TextsSound' /\ PendsSound' /\ OthersSame(x)
<1>1. /\ \A i \in Static : buf'[i] # Free /\ buf'[i].s = buf[i].s
      /\ \A i \in Places : data[i] # Free => SameText(buf, buf', data[i])
      /\ \A h \in Strs : pend[h] # Idle => buf'[pend[h].new].s = buf[pend[h].new].s
  BY DEF OthersKept, SameText
<1>2. \A h \in Strs : d'[h] = d[h]
  BY Constants DEF Handles
<1>3. ASSUME NEW g \in Handles \ {x} PROVE Val(g)' = Val(g)
  <2>1. CASE g \in Strs
    <3>1. d[g] \in Places /\ data[d[g]] # Free
      BY <2>1, Alive
    <3>2. DataSound(d[g], data[d[g]], buf) /\ SameText(buf, buf', data[d[g]])
      BY <1>1, <3>1 DEF IInv, TextsSound
    <3>3. TextOf(data[d[g]], buf') = TextOf(data[d[g]], buf)
      BY <3>2, KeptSound
    <3> QED BY <2>1, <3>3, SameVal
  <2>2. CASE g \notin Strs
    <3>1. g \in Blobs \ {x}
      BY <2>2 DEF Handles
    <3> QED BY <2>2, <3>1, SameVal DEF OthersKept
  <2> QED BY <2>1, <2>2
<1> QED BY <1>1, <1>2, <1>3, TextsKept DEF OthersSame

\* A blob shares a buffer.
LEMMA ShareBufStep ==
  ASSUME IInv, NEW x \in Blobs, NEW i \in Places, buf[i] # Free, ShareBuf(x, i)
  PROVE  IInv' /\ OthersSame(x) /\ OthersKept(x, buf') /\ d'[x] = i /\ buf'[i].s = buf[i].s
<1>1. /\ CountInv /\ TypeOK /\ Counted /\ DataHeap(data) /\ BufHeap(buf)
      /\ d \in [Handles -> Places] /\ pend \in [Handles -> Pendings] /\ DOMAIN data = Places
      /\ x \in Handles /\ d[x] \in Places /\ d[x] \in Reps
  BY DEF IInv, CountInv, TypeOK, DataHeap, Counted, Handles, Reps
<1>2. /\ buf' = UnrefBuf(RefBuf(buf, i), d[x]) /\ d' = [d EXCEPT ![x] = i]
      /\ prog' = prog /\ data' = data /\ pend' = pend
  BY DEF ShareBuf
<1>3. PICK n : n = BufCount(d, data, pend)
  OBVIOUS
<1>4. n \in [Places -> Nat] /\ n[d[x]] >= 1 /\ Exact(buf, n)
  BY <1>1, <1>3, Shared DEF Counted
<1>5. PICK m : m = [k \in Places |-> n[k] + One(k, i)]
  OBVIOUS
<1>6. PICK p : p = [k \in Places |-> m[k] - One(k, d[x])]
  OBVIOUS
<1>7. m \in [Places -> Nat] /\ \A k \in Places : m[k] = n[k] + One(k, i)
  BY <1>4, <1>5 DEF One
<1>8. p \in [Places -> Nat] /\ \A k \in Places : p[k] = m[k] - One(k, d[x])
  BY <1>4, <1>6, <1>7 DEF One
<1>9. PICK bf : bf = RefBuf(buf, i)
  OBVIOUS
<1>10. /\ BufHeap(bf) /\ Exact(bf, m)
       /\ \A k \in Places : buf[k] # Free => bf[k] # Free /\ bf[k].s = buf[k].s
  BY <1>1, <1>4, <1>7, <1>9, BufRef
<1>11. /\ BufHeap(buf') /\ Exact(buf', p)
       /\ \A k \in Places : buf'[k] # Free => bf[k] # Free /\ buf'[k].s = bf[k].s
  BY <1>1, <1>2, <1>7, <1>8, <1>9, <1>10, BufUnref
<1>12. \A k \in Places : bf[k] # Free => buf[k] # Free
  <2> SUFFICES ASSUME NEW k \in Places, buf[k] = Free PROVE bf[k] = Free
    OBVIOUS
  <2>1. n[k] = 0 /\ k # i
    BY <1>4 DEF Exact
  <2>2. m[k] = 0
    BY <1>7, <2>1 DEF One
  <2>3. bf[k] # Free => IsBuf(bf[k]) /\ bf[k].rc + 1 = m[k]
    BY <1>10 DEF BufHeap, Exact
  <2> QED BY <2>2, <2>3 DEF IsBuf
<1>13. BlobMoved(d, x, i, d', data, pend)
  <2>1. MovesTo(d, x, i, d')
    BY <1>1, <1>2 DEF MovesTo
  <2> QED BY <1>1, <2>1, BlobMoves
<1>14. Exact(buf', BufCount(d', data, pend))
  <2>1. PICK q : q = BufCount(d', data, pend)
    OBVIOUS
  <2>2. \A k \in Places : q[k] = p[k]
    BY <1>3, <1>4, <1>7, <1>8, <1>13, <2>1 DEF BlobMoved, One
  <2>3. Exact(buf', q)
    BY <1>11, <2>2 DEF Exact
  <2> QED BY <2>1, <2>3
<1>15. CountInv'
  BY <1>1, <1>2, <1>11, <1>13, <1>14 DEF CountInv, TypeOK, Counted, BlobMoved
<1>16. OthersKept(x, buf')
  <2>1. \A k \in Places : p[k] >= BufCount(d, data, pend)[k] - One(k, d[x])
    BY <1>3, <1>4, <1>7, <1>8 DEF One
  <2>2. \A k \in Places : buf'[k] # Free => buf'[k].s = buf[k].s
    BY <1>10, <1>11, <1>12
  <2> QED BY <1>8, <1>11, <2>1, <2>2, BlobRemains
<1>17. (\A g \in Handles \ {x} : d'[g] = d[g]) /\ d'[x] = i
  BY <1>1, <1>2, Constants DEF Handles
<1>18. IInv' /\ OthersSame(x)
  BY <1>2, <1>15, <1>16, <1>17, BlobTexts DEF IInv
<1>19. buf'[i].s = buf[i].s
  <2>1. p[i] >= 1
    <3>1. n[i] \in Nat /\ m[i] = n[i] + 1 /\ p[i] = m[i] - One(i, d[x])
      BY <1>4, <1>7, <1>8 DEF One
    <3>2. CASE i = d[x]
      BY <1>4, <3>1, <3>2 DEF One
    <3>3. CASE i # d[x]
      BY <3>1, <3>3 DEF One
    <3> QED BY <3>2, <3>3
  <2>2. buf'[i] # Free
    BY <1>8, <1>11, <2>1, CountedLive
  <2> QED BY <1>10, <1>11, <2>2
<1> QED BY <1>16, <1>17, <1>18, <1>19

\* A blob gets a buffer of its own.
LEMMA OwnBufStep ==
  ASSUME IInv, NEW x \in Blobs, NEW s, NEW al, OwnBuf(x, s, al)
  PROVE  IInv' /\ OthersSame(x) /\ OthersKept(x, buf') /\ buf'[d'[x]].s = s /\ d'[x] # Null
<1>1. /\ CountInv /\ TypeOK /\ Counted /\ DataHeap(data) /\ BufHeap(buf)
      /\ d \in [Handles -> Places] /\ pend \in [Handles -> Pendings] /\ DOMAIN data = Places
      /\ x \in Handles /\ d[x] \in Places /\ d[x] \in Reps
  BY DEF IInv, CountInv, TypeOK, DataHeap, Counted, Handles, Reps
<1>2. PICK ef : ef = UnrefBuf(buf, d[x])
  OBVIOUS
<1>3. PICK j : j = FreeId(ef)
  OBVIOUS
<1>4. /\ buf' = NewBuf(ef, s, al) /\ d' = [d EXCEPT ![x] = j]
      /\ prog' = prog /\ data' = data /\ pend' = pend
  BY <1>2, <1>3 DEF OwnBuf
<1>5. PICK n : n = BufCount(d, data, pend)
  OBVIOUS
<1>6. n \in [Places -> Nat] /\ n[d[x]] >= 1 /\ Exact(buf, n)
  BY <1>1, <1>5, Shared DEF Counted
<1>7. PICK m : m = [k \in Places |-> n[k] - One(k, d[x])]
  OBVIOUS
<1>8. m \in [Places -> Nat] /\ \A k \in Places : m[k] = n[k] - One(k, d[x])
  BY <1>6, <1>7 DEF One
<1>9. /\ BufHeap(ef) /\ Exact(ef, m)
      /\ \A k \in Places : ef[k] # Free => buf[k] # Free /\ ef[k].s = buf[k].s
  BY <1>1, <1>2, <1>6, <1>8, BufUnref
<1>10. OthersKept(x, ef)
  <2>1. \A k \in Places : m[k] >= BufCount(d, data, pend)[k] - One(k, d[x])
    BY <1>5, <1>6, <1>8 DEF One
  <2> QED BY <1>8, <1>9, <2>1, BlobRemains
<1>11. j \in Places \ Static /\ ef[j] = Free
  <2>1. DOMAIN ef = Places /\ \A i \in Static : ef[i] # Free
    BY <1>9, <1>10 DEF BufHeap, OthersKept
  <2> QED BY <1>1, <1>3, <1>9, <2>1, Room
<1>12. BlobMoved(d, x, j, d', data, pend)
  <2>1. MovesTo(d, x, j, d')
    BY <1>1, <1>4, <1>11 DEF MovesTo
  <2> QED BY <1>1, <2>1, BlobMoves
<1>13. PICK q : q = BufCount(d', data, pend)
  OBVIOUS
<1>14. CountAdds(m, q, FreeId(ef))
  <2>1. q \in [Places -> Nat]
    BY <1>1, <1>13, CountTypes
  <2>2. \A k \in Places : q[k] = m[k] + One(k, j)
    BY <1>5, <1>6, <1>8, <1>12, <1>13 DEF BlobMoved, One
  <2> QED BY <1>3, <2>1, <2>2 DEF CountAdds
<1>15. NewMade(ef, s, q, buf')
  <2>1. FreeId(ef) \in Places /\ ef[FreeId(ef)] = Free
    BY <1>3, <1>11
  <2> QED BY <1>4, <1>8, <1>9, <1>14, <2>1, BufNew
<1>16. CountInv'
  BY <1>1, <1>4, <1>12, <1>13, <1>15 DEF CountInv, TypeOK, Counted, BlobMoved, NewMade
<1>17. \A k \in Places : ef[k] # Free => buf'[k] = ef[k]
  BY <1>3, <1>11, <1>15 DEF NewMade
<1>18. OthersKept(x, buf')
  <2>1. \A i \in Static : buf'[i] # Free /\ buf'[i].s = buf[i].s
    BY <1>10, <1>17, Constants DEF OthersKept
  <2>2. ASSUME NEW i \in Places, data[i] # Free
        PROVE  /\ data[i].b # NoRep => buf'[data[i].b] # Free /\ buf'[data[i].b].s = buf[data[i].b].s
               /\ data[i].w # NoRep => buf'[data[i].w] # Free /\ buf'[data[i].w].s = buf[data[i].w].s
    <3>1. (data[i].b # NoRep => data[i].b \in Places) /\ (data[i].w # NoRep => data[i].w \in Places)
      BY <2>2, Alive
    <3> QED BY <1>10, <1>17, <2>2, <3>1 DEF OthersKept
  <2>3. \A h \in Strs : pend[h] # Idle => buf'[pend[h].new] # Free /\ buf'[pend[h].new].s = buf[pend[h].new].s
    BY <1>10, <1>17, Alive DEF OthersKept
  <2>4. \A y \in Blobs \ {x} : buf'[d[y]] # Free /\ buf'[d[y]].s = buf[d[y]].s
    BY <1>10, <1>17, Alive DEF OthersKept
  <2> QED BY <2>1, <2>2, <2>3, <2>4 DEF OthersKept
<1>19. (\A g \in Handles \ {x} : d'[g] = d[g]) /\ d'[x] = j
  BY <1>1, <1>4, Constants DEF Handles
<1>20. IInv' /\ OthersSame(x)
  BY <1>4, <1>16, <1>18, <1>19, BlobTexts DEF IInv
<1>21. buf'[j].s = s
  BY <1>3, <1>4, <1>9, <1>11 DEF NewBuf, BufHeap
<1> QED BY <1>11, <1>18, <1>19, <1>20, <1>21, Constants

\* A blob writes into its buffer: only if nobody shares it, or the text stays.
LEMMA InPlaceStep ==
  ASSUME IInv, NEW x \in Blobs, NEW s, NEW hash, InPlace(x, s, hash), s = buf[d[x]].s \/ buf[d[x]].rc = 0
  PROVE  IInv' /\ OthersSame(x) /\ OthersKept(x, buf') /\ d' = d /\ buf'[d[x]].s = s
<1>1. /\ CountInv /\ TypeOK /\ Counted /\ DataHeap(data) /\ BufHeap(buf)
      /\ d \in [Handles -> Places] /\ DOMAIN data = Places /\ DOMAIN buf = Places
      /\ Exact(buf, BufCount(d, data, pend))
  BY DEF IInv, CountInv, TypeOK, DataHeap, BufHeap, Counted
<1>2. PICK i : i = d[x]
  OBVIOUS
<1>3. /\ buf' = [buf EXCEPT ![i].s = s, ![i].hash = hash]
      /\ prog' = prog /\ d' = d /\ data' = data /\ pend' = pend
  BY <1>2 DEF InPlace
<1>4. i \in Places /\ buf[i] # Free
  BY <1>2, Alive
<1>5. IsBuf(buf[i])
  BY <1>1, <1>4 DEF BufHeap
<1>6. /\ DOMAIN buf' = Places /\ \A k \in Places \ {i} : buf'[k] = buf[k]
      /\ buf'[i] = [[buf[i] EXCEPT !.s = s] EXCEPT !.hash = hash]
  BY <1>1, <1>3, <1>4
<1>7. IsBuf(buf'[i]) /\ buf'[i].rc = buf[i].rc /\ buf'[i].s = s
  <2>1. PICK r : r = [buf[i] EXCEPT !.s = s]
    OBVIOUS
  <2>2. DOMAIN r = {"rc", "s", "al", "hash"} /\ r.rc = buf[i].rc /\ r.s = s
    BY <1>5, <2>1 DEF IsBuf
  <2>3. buf'[i] = [r EXCEPT !.hash = hash]
    BY <1>6, <2>1
  <2> QED BY <1>5, <2>2, <2>3 DEF IsBuf
<1>8. buf'[i] # Free
  BY <1>7 DEF IsBuf, Free
<1>9. BufHeap(buf')
  BY <1>1, <1>6, <1>7 DEF BufHeap
<1>10. Exact(buf', BufCount(d, data, pend))
  BY <1>1, <1>4, <1>6, <1>7, <1>8 DEF Exact
<1>11. CountInv'
  BY <1>1, <1>3, <1>9, <1>10 DEF CountInv, TypeOK, Counted
<1>12. \A k \in Places : buf[k] # Free => buf'[k] # Free
  BY <1>6, <1>8
<1>13. PICK n : n = BufCount(d, data, pend)
  OBVIOUS
<1>14. \A k \in Places : n[k] - One(k, d[x]) >= 1 => buf'[k].s = buf[k].s
  <2> SUFFICES ASSUME NEW k \in Places, n[k] - One(k, d[x]) >= 1 PROVE buf'[k].s = buf[k].s
    OBVIOUS
  <2>1. CASE k # i
    BY <1>6, <2>1
  <2>2. CASE k = i
    <3>1. n[i] = buf[i].rc + 1
      BY <1>1, <1>4, <1>13 DEF Exact
    <3>2. n[i] >= 2
      <4>1. n[i] \in Nat /\ One(k, d[x]) = 1
        BY <1>2, <1>4, <1>5, <2>2, <3>1 DEF One, IsBuf
      <4> QED BY <2>2, <4>1
    <3>3. buf[i].rc # 0
      BY <1>5, <3>1, <3>2 DEF IsBuf
    <3> QED BY <1>2, <1>7, <2>2, <3>3
  <2> QED BY <2>1, <2>2
<1>15. /\ \A k \in Static : n[k] - One(k, d[x]) >= 1
       /\ \A k \in Places : data[k] # Free =>
              /\ data[k].b # NoRep => n[data[k].b] - One(data[k].b, d[x]) >= 1
              /\ data[k].w # NoRep => n[data[k].w] - One(data[k].w, d[x]) >= 1
       /\ \A h \in Strs : pend[h] # Idle => n[pend[h].new] - One(pend[h].new, d[x]) >= 1
       /\ \A y \in Blobs \ {x} : n[d[y]] - One(d[y], d[x]) >= 1
  BY <1>13, Shared
<1>16. \A k \in Static : buf'[k] # Free /\ buf'[k].s = buf[k].s
  BY <1>12, <1>14, <1>15, Alive
<1>17. ASSUME NEW k \in Places, data[k] # Free
       PROVE  /\ data[k].b # NoRep => buf'[data[k].b] # Free /\ buf'[data[k].b].s = buf[data[k].b].s
              /\ data[k].w # NoRep => buf'[data[k].w] # Free /\ buf'[data[k].w].s = buf[data[k].w].s
  <2>1. /\ data[k].b # NoRep => data[k].b \in Places /\ buf[data[k].b] # Free
        /\ data[k].w # NoRep => data[k].w \in Places /\ buf[data[k].w] # Free
    BY <1>17, Alive
  <2> QED BY <1>12, <1>14, <1>15, <1>17, <2>1
<1>18. ASSUME NEW h \in Strs, pend[h] # Idle
       PROVE  buf'[pend[h].new] # Free /\ buf'[pend[h].new].s = buf[pend[h].new].s
  <2>1. pend[h].new \in Places /\ buf[pend[h].new] # Free
    BY <1>18, Alive
  <2> QED BY <1>12, <1>14, <1>15, <1>18, <2>1
<1>19. \A y \in Blobs \ {x} : buf'[d[y]] # Free /\ buf'[d[y]].s = buf[d[y]].s
  BY <1>12, <1>14, <1>15, Alive
<1>20. OthersKept(x, buf')
  BY <1>16, <1>17, <1>18, <1>19 DEF OthersKept
<1>21. IInv' /\ OthersSame(x)
  BY <1>3, <1>11, <1>20, BlobTexts DEF IInv
<1> QED BY <1>2, <1>3, <1>7, <1>20, <1>21

-----------------------------------------------------------------------------
(* The actions.                                                            *)

\* What a step that changes nothing does.
LEMMA StutterStep ==
  ASSUME IInv, UNCHANGED vars
  PROVE  IInv' /\ AllSame
<1>1. IInv'
  BY DEF IInv, CountInv, TypeOK, Counted, StaticsSound, TextsSound, PendsSound, vars
<1>2. AllSame
  BY SameVal DEF AllSame, vars
<1> QED BY <1>1, <1>2

\* What changes no text changes no other one.
LEMMA AllOthers ==
  ASSUME AllSame, NEW h
  PROVE  OthersSame(h)
BY DEF AllSame, OthersSame

\* The StrData of a String, the static ones, and the buffer of a blob can be shared.
LEMMA ShareString ==
  ASSUME IInv, NEW h \in Strs, Alone(h), NEW g \in Strs, ShareData(h, d[g])
  PROVE  IInv' /\ OthersSame(h)
BY Alive, ShareDataStep

\* The same for blobs.
LEMMA ShareBlob ==
  ASSUME IInv, NEW x \in Blobs, NEW y \in Blobs, ShareBuf(x, d[y])
  PROVE  IInv' /\ OthersSame(x)
BY Alive, ShareBufStep

\* Each operation of a String.
LEMMA StringSteps ==
  ASSUME IInv, NEW h \in Strs, StringStep(h)
  PROVE  IInv' /\ OthersSame(h)
<1>1. CASE SetAscii(h)
  <2>1. PICK l \in AsciiLits : Become(h, l, FALSE) /\ Alone(h)
    BY <1>1 DEF SetAscii
  <2> QED BY <2>1, BecomeStep
<1>2. CASE SetWide(h)
  <2>1. PICK l \in WideLits : Become(h, l, TRUE) /\ Alone(h)
    BY <1>2 DEF SetWide
  <2> QED BY <2>1, BecomeStep
<1>3. CASE SetStatic(h)
  <2>1. PICK i \in Static : ShareData(h, i) /\ Alone(h)
    BY <1>3 DEF SetStatic
  <2>2. i \in Places /\ data[i] # Free
    BY Alive
  <2> QED BY <2>1, <2>2, ShareDataStep
<1>4. CASE Assign(h)
  <2>1. PICK g \in Strs : ShareData(h, d[g]) /\ Alone(h)
    BY <1>4 DEF Assign
  <2> QED BY <2>1, ShareString
<1>5. CASE AppendStr(h)
  <2>1. PICK g \in Strs :
          LET t == d[h]  s == d[g] IN
          CASE Len(Chars(s)) = 0 -> UNCHANGED vars
            [] Len(Chars(s)) # 0 /\ Len(Chars(t)) = 0 -> ShareData(h, s)
            [] OTHER -> IF HasB(t) /\ HasB(s) THEN Become(h, Bytes(t) \o Bytes(s), FALSE)
                        ELSE HasW(t) /\ HasW(s) /\ Become(h, Wides(t) \o Wides(s), TRUE)
    BY <1>5 DEF AppendStr
  <2>2. Alone(h)
    BY <1>5 DEF AppendStr
  <2>3. \/ UNCHANGED vars
        \/ ShareData(h, d[g])
        \/ Become(h, Bytes(d[h]) \o Bytes(d[g]), FALSE)
        \/ Become(h, Wides(d[h]) \o Wides(d[g]), TRUE)
    BY <2>1
  <2>4. CASE UNCHANGED vars
    BY <2>4, StutterStep, AllOthers
  <2>5. CASE ShareData(h, d[g])
    BY <2>2, <2>5, ShareString
  <2>6. CASE Become(h, Bytes(d[h]) \o Bytes(d[g]), FALSE)
    BY <2>2, <2>6, BecomeStep
  <2>7. CASE Become(h, Wides(d[h]) \o Wides(d[g]), TRUE)
    BY <2>2, <2>7, BecomeStep
  <2> QED BY <2>3, <2>4, <2>5, <2>6, <2>7
<1>6. CASE AppendAscii(h)
  <2>1. PICK r : Alone(h) /\ (Become(h, Bytes(d[h]) \o r, FALSE) \/ Become(h, Wides(d[h]) \o r, TRUE))
    BY <1>6 DEF AppendAscii
  <2> QED BY <2>1, BecomeStep
<1>7. CASE AppendWide(h)
  <2>1. PICK l : Alone(h) /\ Become(h, Wides(d[h]) \o l, TRUE)
    BY <1>7 DEF AppendWide
  <2> QED BY <2>1, BecomeStep
<1>8. CASE EditBytes(h)
  <2>1. Alone(h) /\ \E r : Become(h, r, FALSE)
    BY <1>8 DEF EditBytes
  <2> QED BY <2>1, BecomeStep
<1>9. CASE LockString(h)
  <2>1. Alone(h) /\ \E r : Become(h, r, FALSE) \/ Become(h, r, TRUE)
    BY <1>9 DEF LockString
  <2> QED BY <2>1, BecomeStep
<1>10. CASE FromBlob(h)
  <2>1. PICK x : Alone(h) /\ Become(h, buf[d[x]].s, x \in WideBlobs)
    BY <1>10 DEF FromBlob
  <2>2. (x \in WideBlobs) \in BOOLEAN
    OBVIOUS
  <2> QED BY <2>1, <2>2, BecomeStep
<1> QED BY <1>1, <1>2, <1>3, <1>4, <1>5, <1>6, <1>7, <1>8, <1>9, <1>10,
           UpdateHashStep, ConvertStep, StoreStep, AllOthers DEF StringStep

\* A blob that takes over a text: it shares the empty buffer, or owns one.
LEMMA CreateStep ==
  ASSUME IInv, NEW x \in Blobs, NEW s, Create(x, s)
  PROVE  IInv' /\ OthersSame(x)
<1>1. ShareBuf(x, Zero) \/ OwnBuf(x, s, Len(s) + 1)
  BY DEF Create
<1>2. Zero \in Places /\ buf[Zero] # Free
  BY Alive, Constants
<1> QED BY <1>1, <1>2, ShareBufStep, OwnBufStep

\* A blob that may write in place has a buffer of its own.
LEMMA OwnOrAlone ==
  ASSUME IInv, NEW x \in Blobs, NEW n, ~MustCopy(buf[d[x]], n)
  PROVE  buf[d[x]].rc = 0
<1>1. buf[d[x]].rc \in Nat
  BY Alive DEF IInv, CountInv, TypeOK, BufHeap, IsBuf
<1>2. ~(buf[d[x]].rc > 0)
  BY DEF MustCopy
<1> QED BY <1>1, <1>2

\* lock(), the caller's writes, unlock().
LEMMA WriteStep ==
  ASSUME IInv, NEW x \in Blobs, NEW s, NEW room, NEW forget, Write(x, s, room, forget)
  PROVE  IInv' /\ OthersSame(x)
<1>1. CASE MustCopy(buf[d[x]], room)
  <2>1. OwnBuf(x, s, room + 1)
    BY <1>1 DEF Write
  <2> QED BY <2>1, OwnBufStep
<1>2. CASE ~MustCopy(buf[d[x]], room)
  <2>1. PICK hash : InPlace(x, s, hash)
    BY <1>2 DEF Write
  <2> QED BY <1>2, <2>1, OwnOrAlone, InPlaceStep
<1> QED BY <1>1, <1>2

\* append() of a blob.
LEMMA ExtendStep ==
  ASSUME IInv, NEW x \in Blobs, NEW t, Extend(x, t)
  PROVE  IInv' /\ OthersSame(x)
<1>1. PICK n : \/ MustCopy(buf[d[x]], n) /\ OwnBuf(x, buf[d[x]].s \o t, n + 1)
               \/ ~MustCopy(buf[d[x]], n) /\ InPlace(x, buf[d[x]].s \o t, buf[d[x]].hash)
  BY DEF Extend
<1> QED BY <1>1, OwnBufStep, OwnOrAlone, InPlaceStep

\* Each operation of a blob.
LEMMA BlobSteps ==
  ASSUME IInv, NEW x \in Blobs, BlobStep(x)
  PROVE  IInv' /\ OthersSame(x)
<1>1. CASE TakeRep(x)
  <2>1. PICK g \in Strs : LET rep == data[d[g]][IF x \in WideBlobs THEN "w" ELSE "b"]
                          IN  rep # NoRep /\ ShareBuf(x, rep)
    BY <1>1 DEF TakeRep
  <2>2. \/ data[d[g]].w # NoRep /\ ShareBuf(x, data[d[g]].w)
        \/ data[d[g]].b # NoRep /\ ShareBuf(x, data[d[g]].b)
    BY <2>1
  <2>3. /\ data[d[g]].b # NoRep => data[d[g]].b \in Places /\ buf[data[d[g]].b] # Free
        /\ data[d[g]].w # NoRep => data[d[g]].w \in Places /\ buf[data[d[g]].w] # Free
    BY Alive
  <2> QED BY <2>2, <2>3, ShareBufStep
<1>2. CASE CopyBlob(x)
  <2>1. PICK y \in Blobs : ShareBuf(x, d[y])
    BY <1>2 DEF CopyBlob, Like
  <2> QED BY <2>1, ShareBlob
<1>3. CASE SetBlob(x)
  <2>1. \E s : Create(x, s)
    BY <1>3 DEF SetBlob
  <2> QED BY <2>1, CreateStep
<1>4. CASE LockBlob(x)
  <2>1. \E s, room, forget : Write(x, s, room, forget)
    BY <1>4, Zenon DEF LockBlob
  <2> QED BY <2>1, WriteStep
<1>5. CASE AppendBlob(x)
  <2>1. \/ \E y \in Blobs : UNCHANGED vars \/ ShareBuf(x, d[y])
        \/ \E t : Extend(x, t)
        \/ \E s, al : OwnBuf(x, s, al)
    BY <1>5 DEF AppendBlob, Like
  <2> QED BY <2>1, StutterStep, AllOthers, ShareBlob, ExtendStep, OwnBufStep
<1>6. CASE EditBlob(x)
  <2> DEFINE s == buf[d[x]].s
             S == {RemoveLeft(s, n) : n \in 1..MaxLen} \cup {RemoveRight(s, n) : n \in 0..MaxLen}
                  \cup {Right(s, n) : n \in 0..(Len(s) - 1)} \cup {TrimSpaces(s)}
                  \cup {Mid(s, p, n) : p, n \in 0..MaxLen}
             T == {RemoveMid(s, p, n) : p, n \in 0..MaxLen}
  <2>1. (\E r \in S : Create(x, r)) \/ (\E r \in T : OwnBuf(x, r, Len(r) + 1))
    BY <1>6, SMT DEF EditBlob
  <2> HIDE DEF S, T
  <2>2. (\E r : Create(x, r)) \/ (\E r, al : OwnBuf(x, r, al))
    BY <2>1
  <2> QED BY <2>2, CreateStep, OwnBufStep
<1>7. CASE HashBlob(x)
  <2>1. \E hash : InPlace(x, buf[d[x]].s, hash)
    BY <1>7 DEF HashBlob
  <2> QED BY <2>1, InPlaceStep
<1> QED BY <1>1, <1>2, <1>3, <1>4, <1>5, <1>6, <1>7 DEF BlobStep

-----------------------------------------------------------------------------
\* Every Next step.
LEMMA NextSteps ==
  ASSUME IInv, [Next]_vars
  PROVE  IInv'
BY StutterStep, StringSteps, BlobSteps DEF Next

\* The owners of the static objects when the program starts: all handles are zero.
LEMMA InitCounts ==
  ASSUME Init
  PROVE  /\ \A i \in Places : DataCount(d)[i] = IF i = Zero THEN Cardinality(Strs) + 1 ELSE IF i = Null THEN 1 ELSE 0
         /\ \A j \in Places : BufCount(d, data, pend)[j] = IF j = Zero THEN Cardinality(Blobs) + 2
                                                           ELSE IF j = Null THEN 2 ELSE 0
<1>1. \A h \in Strs \cup Blobs : d[h] = Zero /\ pend[h] = Idle
  BY DEF Init
<1>2. Live(data) \ Static = {}
  <2>1. DOMAIN data = Places /\ \A i \in Places \ {Null, Zero} : data[i] = Free
    BY DEF Init
  <2> QED BY <2>1 DEF Live, Static
<1>3. /\ \A i \in Places : StrsAt(d, i) = IF i = Zero THEN Strs ELSE {}
      /\ \A j \in Places : BlobsAt(d, j) = IF j = Zero THEN Blobs ELSE {}
  BY <1>1 DEF StrsAt, BlobsAt
<1>4. \A j \in Places : BytesAt(data, j) = {} /\ WidesAt(data, j) = {} /\ PendsAt(pend, j) = {}
  BY <1>1, <1>2 DEF BytesAt, WidesAt, PendsAt
<1>5. Cardinality({}) = 0 /\ Cardinality(Strs) \in Nat /\ Cardinality(Blobs) \in Nat /\ Null # Zero
  BY FS_EmptySet, Constants
<1>6. \A i \in Places : i \in Static <=> i = Null \/ i = Zero
  BY DEF Static
<1>7. \A i \in Places : DataCount(d)[i] = Cardinality(StrsAt(d, i)) + (IF i \in Static THEN 1 ELSE 0)
  BY DEF DataCount
<1>8. \A j \in Places : BufCount(d, data, pend)[j] = Cardinality(BlobsAt(d, j)) + Cardinality(BytesAt(data, j))
                          + Cardinality(WidesAt(data, j)) + Cardinality(PendsAt(pend, j)) + (IF j \in Static THEN 2 ELSE 0)
  BY DEF BufCount
<1>9. \A i \in Places : DataCount(d)[i] = IF i = Zero THEN Cardinality(Strs) + 1 ELSE IF i = Null THEN 1 ELSE 0
  BY <1>3, <1>5, <1>6, <1>7
<1>10. \A j \in Places : BufCount(d, data, pend)[j] = IF j = Zero THEN Cardinality(Blobs) + 2
                                                     ELSE IF j = Null THEN 2 ELSE 0
  <2> SUFFICES ASSUME NEW j \in Places
               PROVE  BufCount(d, data, pend)[j] = IF j = Zero THEN Cardinality(Blobs) + 2
                                                   ELSE IF j = Null THEN 2 ELSE 0
    OBVIOUS
  <2>1. /\ Cardinality(BytesAt(data, j)) = 0 /\ Cardinality(WidesAt(data, j)) = 0 /\ Cardinality(PendsAt(pend, j)) = 0
        /\ Cardinality(BlobsAt(d, j)) = IF j = Zero THEN Cardinality(Blobs) ELSE 0
    BY <1>3, <1>4, <1>5
  <2> QED BY <1>5, <1>6, <1>8, <2>1
<1> QED BY <1>9, <1>10

\* The initial states.
LEMMA InitInv == Init => IInv
<1> SUFFICES ASSUME Init PROVE IInv
  OBVIOUS
<1>1. /\ Static \subseteq Places /\ Null \in Places /\ Zero \in Places /\ Null # Zero
      /\ Cardinality(Strs) \in Nat /\ Cardinality(Blobs) \in Nat
  BY Constants
<1>2. /\ DOMAIN data = Places /\ DOMAIN buf = Places
      /\ \A i \in Places \ {Null, Zero} : data[i] = Free /\ buf[i] = Free
  BY <1>1 DEF Init, Static
<1>3. data[Null] = [rc |-> 0, b |-> Null, w |-> Null, hash |-> NullHash]
  BY <1>1 DEF Init, StaticData
<1>4. data[Zero] = [rc |-> Cardinality(Strs), b |-> Zero, w |-> Zero, hash |-> None]
  BY <1>1 DEF Init, StaticData
<1>5. /\ buf[Null] = [rc |-> 1, s |-> <<>>, al |-> 0, hash |-> None]
      /\ buf[Zero] = [rc |-> 1 + Cardinality(Blobs), s |-> <<>>, al |-> 0, hash |-> None]
  BY <1>1 DEF Init, StaticBuf, Static
<1>6. IsData(data[Null]) /\ IsData(data[Zero]) /\ data[Null] # Free /\ data[Zero] # Free
  <2>1. \A r : IsData(r) => r # Free
    BY DEF IsData, Free
  <2> QED BY <1>1, <1>3, <1>4, <2>1 DEF IsData, Reps
<1>7. IsBuf(buf[Null]) /\ IsBuf(buf[Zero]) /\ buf[Null] # Free /\ buf[Zero] # Free
  <2>1. \A r : IsBuf(r) => r # Free
    BY DEF IsBuf, Free
  <2> QED BY <1>1, <1>5, <2>1 DEF IsBuf
<1>8. TypeOK
  <2>1. DataHeap(data) /\ BufHeap(buf)
    BY <1>2, <1>6, <1>7 DEF DataHeap, BufHeap
  <2>2. d \in [Handles -> Places] /\ pend \in [Handles -> Pendings] /\ prog \in Programs
    BY <1>1 DEF Init, Handles, Pendings
  <2> QED BY <2>1, <2>2 DEF TypeOK
<1>9. Exact(data, DataCount(d))
  BY <1>1, <1>2, <1>3, <1>4, <1>6, InitCounts DEF Exact
<1>10. Exact(buf, BufCount(d, data, pend))
  BY <1>1, <1>2, <1>5, <1>7, InitCounts DEF Exact
<1>11. StaticsSound
  BY <1>3, <1>4, <1>5, <1>6, <1>7 DEF StaticsSound, Static
<1>12. NoRep # Null /\ NoRep # Zero /\ None = -1
  BY DEF NoRep, Null, Zero, None
<1>13. TextsSound
  <2>1. DataSound(Null, data[Null], buf)
    BY <1>3, <1>12 DEF DataSound
  <2>2. DataSound(Zero, data[Zero], buf)
    BY <1>4, <1>12 DEF DataSound
  <2> QED BY <1>2, <2>1, <2>2 DEF TextsSound
<1>14. PendsSound
  BY DEF Init, PendsSound
<1> QED BY <1>8, <1>9, <1>10, <1>11, <1>13, <1>14 DEF IInv, CountInv, Counted

\* The heaps, the counters and the texts stay sound, in any program of any number
\* of handles and threads.
THEOREM StringInvariance == Spec => []IInv
BY InitInv, NextSteps, PTL DEF Spec

\* No StrData and no buffer is lost or freed early, whatever the handles share and
\* whatever the conversions of two threads interleave.
THEOREM CountersAreExact == Spec => []RefsExact
<1>1. ASSUME IInv PROVE RefsExact
  <2>1. DOMAIN data = Places /\ DOMAIN buf = Places /\ Exact(data, DataCount(d)) /\ Exact(buf, BufCount(d, data, pend))
    BY <1>1 DEF IInv, CountInv, TypeOK, DataHeap, BufHeap, Counted
  <2>2. \A i \in Places : DataCount(d)[i] = Owners(i) + (IF i \in Static THEN 1 ELSE 0)
    BY DEF DataCount, StrsAt, Owners
  <2>3. \A j \in Places : BufCount(d, data, pend)[j] = BufOwners(j) + (IF j \in Static THEN 2 ELSE 0)
    BY DEF BufCount, BlobsAt, BytesAt, WidesAt, PendsAt, BufOwners
  <2>4. (\A i \in Live(data) : i \in Places /\ data[i] # Free) /\ (\A j \in Live(buf) : j \in Places /\ buf[j] # Free)
    BY <2>1 DEF Live
  <2>5. \A i \in Live(data) : data[i].rc + 1 = DataCount(d)[i]
    BY <2>1, <2>4 DEF Exact
  <2>6. \A j \in Live(buf) : buf[j].rc + 1 = BufCount(d, data, pend)[j]
    BY <2>1, <2>4 DEF Exact
  <2> QED BY <2>2, <2>3, <2>4, <2>5, <2>6 DEF RefsExact
<1> QED BY <1>1, StringInvariance, PTL

\* The characters of an ASCII text fit both representations.
LEMMA AsciiText ==
  ASSUME NEW t, Fold(t) = t
  PROVE  ToWide(t) = t
<1>1. "?" \notin ByteOnly /\ "?" \notin WideOnly
  BY StringsAssumption
<1>2. PICK w : w = ToWide(t)
  OBVIOUS
<1>3. DOMAIN w = DOMAIN t /\ \A i \in DOMAIN t : w[i] = IF t[i] \in ByteOnly THEN "?" ELSE t[i]
  BY <1>2 DEF ToWide
<1>4. t = [i \in DOMAIN t |-> IF w[i] \in WideOnly THEN "?" ELSE w[i]]
  BY <1>2, <1>3 DEF Fold, ToByte
<1>5. \A i \in DOMAIN t : t[i] = IF w[i] \in WideOnly THEN "?" ELSE w[i]
  BY <1>4
<1>6. \A i \in DOMAIN t : t[i] \notin ByteOnly
  BY <1>1, <1>3, <1>5
<1>7. \A i \in DOMAIN t : (IF t[i] \in ByteOnly THEN "?" ELSE t[i]) = (IF w[i] \in WideOnly THEN "?" ELSE w[i])
  BY <1>3, <1>5, <1>6
<1> QED BY <1>4, <1>7 DEF ToWide

\* All representations of an ASCII StrData are its text, and its hash is the text's.
LEMMA AsciiData ==
  ASSUME IInv, NEW i \in Places, data[i] # Free, Ascii(i)
  PROVE  /\ Fold(Chars(i)) = Chars(i)
         /\ HasB(i) => Bytes(i) = Chars(i)
         /\ HasW(i) => Wides(i) = Chars(i)
         /\ HasB(i) \/ HasW(i)
         /\ HashOf(i) = IF i = Null THEN NullHash ELSE Hash(Chars(i))
<1>1. DataSound(i, data[i], buf) /\ StaticsSound
  BY DEF IInv, TextsSound
<1>2. /\ HasB(i) <=> data[i].b # NoRep
      /\ HasW(i) <=> data[i].w # NoRep
      /\ Bytes(i) = buf[data[i].b].s /\ Wides(i) = buf[data[i].w].s
  BY DEF HasB, HasW, Bytes, Wides
<1>3. /\ HasB(i) => Fold(Bytes(i)) = Bytes(i)
      /\ HasW(i) => Fold(Wides(i)) = Wides(i)
  BY <1>2 DEF Ascii
<1>4. HasB(i) \/ HasW(i)
  BY <1>1, <1>2 DEF DataSound
<1>5. HasB(i) /\ HasW(i) => Bytes(i) = Wides(i)
  BY <1>1, <1>2, <1>3 DEF DataSound
<1>6. /\ Fold(Chars(i)) = Chars(i)
      /\ HasB(i) => Bytes(i) = Chars(i)
      /\ HasW(i) => Wides(i) = Chars(i)
  BY <1>3, <1>4, <1>5 DEF Chars
<1>7. i # Null => HashOf(i) = Hash(Chars(i))
  <2> SUFFICES ASSUME i # Null, data[i].hash # None PROVE data[i].hash = Hash(Chars(i))
    BY DEF HashOf
  <2>1. \/ data[i].b # NoRep /\ data[i].hash = Hash(buf[data[i].b].s)
        \/ data[i].w # NoRep /\ data[i].hash = Hash(buf[data[i].w].s)
    BY <1>1 DEF DataSound
  <2>2. CASE data[i].b # NoRep /\ data[i].hash = Hash(buf[data[i].b].s)
    BY <1>2, <1>6, <2>2
  <2>3. CASE data[i].w # NoRep /\ data[i].hash = Hash(buf[data[i].w].s)
    BY <1>2, <1>6, <2>3
  <2> QED BY <2>1, <2>2, <2>3
<1>8. i = Null => HashOf(i) = NullHash
  BY <1>1 DEF HashOf, StaticsSound, NullHash, None
<1> QED BY <1>4, <1>6, <1>7, <1>8

\* beq() compares the texts when both are ASCII.
LEMMA AsciiCompared ==
  ASSUME IInv, NEW i \in Places, data[i] # Free, Ascii(i), NEW j \in Places, data[j] # Free, Ascii(j)
  PROVE  BeqText(i, j) <=> Chars(i) = Chars(j)
<1>1. /\ HasB(i) => Bytes(i) = Chars(i)
      /\ HasW(i) => Wides(i) = Chars(i)
      /\ HasB(i) \/ HasW(i)
      /\ Fold(Chars(i)) = Chars(i)
  BY AsciiData
<1>2. /\ HasB(j) => Bytes(j) = Chars(j)
      /\ HasW(j) => Wides(j) = Chars(j)
      /\ HasB(j) \/ HasW(j)
      /\ Fold(Chars(j)) = Chars(j)
  BY AsciiData
<1>3. ToWide(Chars(i)) = Chars(i) /\ ToWide(Chars(j)) = Chars(j)
  BY <1>1, <1>2, AsciiText
<1>4. (IF HasW(i) THEN Wides(i) ELSE ToWide(Bytes(i))) = Chars(i)
  BY <1>1, <1>3
<1>5. (IF HasW(j) THEN Wides(j) ELSE ToWide(Bytes(j))) = Chars(j)
  BY <1>2, <1>3
<1> QED BY <1>1, <1>2, <1>4, <1>5 DEF BeqText

\* Strings with ASCII texts are equal for beq() if their texts are and both are null
\* or neither is, whatever has been converted and whenever a hash was computed.
THEOREM EqualityIsExact == Spec => []EqExact
<1>1. ASSUME IInv PROVE EqExact
  <2> USE <1>1
  <2> SUFFICES ASSUME NEW h \in Strs, NEW g \in Strs, Ascii(d[h]), Ascii(d[g])
               PROVE  Beq(d[h], d[g]) <=> Val(h) = Val(g)
    BY DEF EqExact
  <2>1. PICK i, j : i = d[h] /\ j = d[g]
    OBVIOUS
  <2>2. i \in Places /\ data[i] # Free /\ j \in Places /\ data[j] # Free /\ Ascii(i) /\ Ascii(j)
    BY <2>1, Alive
  <2>3. /\ Fold(Chars(i)) = Chars(i)
        /\ HashOf(i) = IF i = Null THEN NullHash ELSE Hash(Chars(i))
    BY <2>2, AsciiData
  <2>4. /\ Fold(Chars(j)) = Chars(j)
        /\ HashOf(j) = IF j = Null THEN NullHash ELSE Hash(Chars(j))
    BY <2>2, AsciiData
  <2>5. BeqText(i, j) <=> Chars(i) = Chars(j)
    BY <2>2, AsciiCompared
  <2>6. Val(h) = [null |-> i = Null, s |-> Chars(i)] /\ Val(g) = [null |-> j = Null, s |-> Chars(j)]
    BY <2>1, <2>3, <2>4 DEF Val
  <2>7. Val(h) = Val(g) <=> (i = Null <=> j = Null) /\ Chars(i) = Chars(j)
    BY <2>6
  <2>8. Beq(i, j) <=> i = j \/ (HashOf(i) = HashOf(j) /\ Chars(i) = Chars(j))
    BY <2>5 DEF Beq
  <2>9. Chars(Null) = <<>> /\ Hash(<<>>) # NullHash
    <3>1. /\ data[Null].b = Null /\ buf[Null].s = <<>>
      BY Constants DEF IInv, StaticsSound
    <3> QED BY <3>1, StringsAssumption DEF Chars, HasB, Bytes, Null, NoRep
  <2>10. i = Null /\ j # Null => ~(HashOf(i) = HashOf(j) /\ Chars(i) = Chars(j))
    BY <2>3, <2>4, <2>9
  <2>11. i # Null /\ j = Null => ~(HashOf(i) = HashOf(j) /\ Chars(i) = Chars(j))
    BY <2>3, <2>4, <2>9
  <2>12. i # Null /\ j # Null => (Beq(i, j) <=> Val(h) = Val(g))
    BY <2>3, <2>4, <2>7, <2>8
  <2>13. (i = Null \/ j = Null) => (Beq(i, j) <=> Val(h) = Val(g))
    BY <2>7, <2>8, <2>10, <2>11
  <2> QED BY <2>1, <2>12, <2>13
<1> QED BY <1>1, StringInvariance, PTL

\* A hash is computed: the text of the blob stays too.
LEMMA HashBlobStep ==
  ASSUME IInv, NEW x \in Blobs, HashBlob(x), OthersSame(x)
  PROVE  AllSame
<1>1. PICK i : i = d[x]
  OBVIOUS
<1>2. PICK s, hash : s = buf[i].s /\ buf' = [buf EXCEPT ![i].s = s, ![i].hash = hash] /\ d' = d /\ data' = data
  BY <1>1 DEF HashBlob, InPlace
<1>3. i \in Places /\ buf[i] # Free /\ DOMAIN buf = Places /\ x \notin Strs
  BY <1>1, Alive, Constants DEF IInv, CountInv, TypeOK, BufHeap
<1>4. IsBuf(buf[i])
  BY <1>3 DEF IInv, CountInv, TypeOK, BufHeap
<1>5. buf'[i].s = s
  <2>1. PICK r : r = [buf[i] EXCEPT !.s = s]
    OBVIOUS
  <2>2. "s" \in DOMAIN r /\ r.s = s
    BY <1>4, <2>1 DEF IsBuf
  <2>3. buf'[i] = [r EXCEPT !.hash = hash]
    BY <1>2, <1>3, <2>1
  <2> QED BY <2>2, <2>3
<1>6. Val(x)' = Val(x)
  BY <1>1, <1>2, <1>3, <1>5, SameVal
<1> QED BY <1>6 DEF AllSame, OthersSame

\* Copy on write: an operation of one handle changes the text of no other handle, with
\* whatever data and buffers it shares; and the steps no caller asked for, a hash or a
\* representation that one thread computes and stores in what others share, change
\* the text of no handle at all.  (ImplementsValues says in addition which text the one
\* handle gets.)
Isolated ==
    /\ \A h \in use \cap Strs : /\ StringStep(h) => OthersSame(h)
                                /\ UpdateHash(h) \/ Convert(h) \/ Store(h) => AllSame
    /\ \A x \in use \cap Blobs : /\ BlobStep(x) => OthersSame(x)
                                 /\ HashBlob(x) => AllSame

\* The theorem of it: no interleaving of the threads' steps breaks the isolation of
\* their handles.
THEOREM TextsAreIsolated == Spec => [][Isolated]_vars
<1>1. ASSUME IInv PROVE Isolated
  <2>1. ASSUME NEW h \in Strs, StringStep(h) PROVE OthersSame(h)
    BY <1>1, <2>1, StringSteps
  <2>2. ASSUME NEW h \in Strs, UpdateHash(h) \/ Convert(h) \/ Store(h) PROVE AllSame
    BY <1>1, <2>2, UpdateHashStep, ConvertStep, StoreStep
  <2>3. ASSUME NEW x \in Blobs, BlobStep(x) PROVE OthersSame(x)
    BY <1>1, <2>3, BlobSteps
  <2>4. ASSUME NEW x \in Blobs, HashBlob(x) PROVE AllSame
    <3>1. OthersSame(x)
      BY <2>3, <2>4 DEF BlobStep
    <3> QED BY <1>1, <2>4, <3>1, HashBlobStep
  <2> QED BY <2>1, <2>2, <2>3, <2>4 DEF Isolated
<1>2. IInv => [Isolated]_vars
  BY <1>1
<1> QED BY <1>2, StringInvariance, PTL

-----------------------------------------------------------------------------
(* The refinement of TextValues.                                           *)

\* The characters of the texts that programs write, and of what a conversion makes of
\* them.
Literals == UNION {p.ascii \cup p.wide : p \in Programs}
Alphabet == {"?"} \cup UNION {Range(l) : l \in Literals}

\* What "ascii" and "wide" promise of a program: its byte texts have no character above
\* 127 and its wide texts have no byte that is not one; and the space is ASCII.  (replace()
\* of a needle with a '?' would find it in the text of a byte above 127, but not in the
\* bytes.)  One of the longest texts is the longest.
AsciiPrograms ==
    /\ \A p \in Programs : /\ p.ascii \subseteq Seq(Alphabet \ WideOnly) /\ p.wide \subseteq Seq(Alphabet)
                           /\ p.max \in Nat
    /\ Alphabet \cap ByteOnly = {} /\ " " \notin WideOnly
    /\ \E q \in Programs : \A p \in Programs : p.max <= q.max

\* A text of bytes and a text of wide characters.
ByteText(s) == s \in Seq(Alphabet \ WideOnly)
WideText(s) == s \in Seq(Alphabet)
IsText(s, isWide) == IF isWide THEN WideText(s) ELSE ByteText(s)

\* The texts of the abstract state are made of the same operators.
LEMMA SameOps ==
  /\ \A s, p, n : Values!Mid(s, p, n) = Mid(s, p, n)
  /\ \A s, p : Values!MidFrom(s, p) = MidFrom(s, p)
  /\ \A s, p, n : Values!RemoveMid(s, p, n) = RemoveMid(s, p, n)
  /\ \A s : Values!TrimSpaces(s) = TrimSpaces(s)
  /\ \A s, p, t : Values!Insert(s, p, t) = Insert(s, p, t)
  /\ \A s, p, t : Values!Replace(s, p, t) = Replace(s, p, t)
<1>1. /\ \A S : Values!Min(S) = Min(S)
      /\ \A S : Values!Max(S) = Max(S)
  BY DEF Min, Max, Values!Min, Values!Max
<1>2. /\ \A s, p, n : Values!Mid(s, p, n) = Mid(s, p, n)
      /\ \A s, p : Values!MidFrom(s, p) = MidFrom(s, p)
  BY <1>1 DEF Values!Mid, Mid, Values!MidFrom, MidFrom
<1>3. \A s, n : Values!Left(s, n) = Left(s, n)
  BY <1>2 DEF Values!Left, Left
<1>4. \A s, p, n : Values!RemoveMid(s, p, n) = RemoveMid(s, p, n)
  BY <1>1, <1>2, <1>3 DEF Values!RemoveMid, RemoveMid
<1>5. \A s : Values!TrimSpaces(s) = TrimSpaces(s)
  BY <1>1 DEF Values!TrimSpaces, TrimSpaces
<1>6. \A s, p, t : Values!Insert(s, p, t) = Insert(s, p, t)
  BY <1>1, <1>2, <1>3 DEF Values!Insert, Insert, Append2, Values!Append2
<1>7. \A s, p, t : Values!Replace(s, p, t) = Replace(s, p, t)
  BY DEF Values!Replace, Replace, Values!ReplaceFrom, ReplaceFrom, Values!Find, Find, Values!Starts, Starts,
         Values!At, At, Values!MatchAt, MatchAt, Values!Left, Left, Values!MidFrom, MidFrom, Values!Mid, Mid,
         Values!Min, Min, Values!None, None, Values!Nul, Nul
<1> QED BY <1>2, <1>4, <1>5, <1>6, <1>7

\* The smaller and the larger of two positions.
LEMMA MinMaxTwo ==
  ASSUME NEW a \in Int, NEW b \in Int
  PROVE  Min({a, b}) = (IF a <= b THEN a ELSE b) /\ Max({a, b}) = (IF a >= b THEN a ELSE b)
<1>1. Min({a, b}) = CHOOSE x \in {a, b} : \A y \in {a, b} : x <= y
  BY DEF Min
<1>2. Max({a, b}) = CHOOSE x \in {a, b} : \A y \in {a, b} : x >= y
  BY DEF Max
<1>3. \E x \in {a, b} : \A y \in {a, b} : x <= y
  BY SMT
<1>4. \E x \in {a, b} : \A y \in {a, b} : x >= y
  BY SMT
<1>5. Min({a, b}) \in {a, b} /\ \A y \in {a, b} : Min({a, b}) <= y
  BY <1>1, <1>3
<1>6. Max({a, b}) \in {a, b} /\ \A y \in {a, b} : Max({a, b}) >= y
  BY <1>2, <1>4
<1> QED BY <1>5, <1>6

\* A part of a text, by its positions.
LEMMA MidIs ==
  ASSUME NEW A, NEW s \in Seq(A), NEW p \in Nat, NEW n \in Nat
  PROVE  /\ Mid(s, p, n) \in Seq(A)
         /\ Len(Mid(s, p, n)) = IF p > Len(s) THEN 0 ELSE IF n <= Len(s) - p THEN n ELSE Len(s) - p
         /\ \A i \in 1..Len(Mid(s, p, n)) : i + p \in 1..Len(s) /\ Mid(s, p, n)[i] = s[p + i]
<1>1. Len(s) \in Nat
  OBVIOUS
<1>2. CASE p > Len(s)
  <2>1. Mid(s, p, n) = <<>>
    BY <1>2 DEF Mid
  <2> QED BY <1>2, <2>1
<1>3. CASE ~(p > Len(s))
  <2> DEFINE m == IF n <= Len(s) - p THEN n ELSE Len(s) - p
  <2>1. m \in Nat /\ p + m <= Len(s) /\ m = Min({n, Len(s) - p})
    BY <1>1, <1>3, MinMaxTwo
  <2>2. Mid(s, p, n) = SubSeq(s, p + 1, p + m)
    BY <1>3, <2>1 DEF Mid
  <2> HIDE DEF m
  <2>3. /\ SubSeq(s, p + 1, p + m) \in Seq(A) /\ Len(SubSeq(s, p + 1, p + m)) = m
        /\ \A i \in 1..m : i + p \in 1..Len(s) /\ SubSeq(s, p + 1, p + m)[i] = s[p + i]
    <3>1. PICK a \in Nat, b \in Nat : a = p + 1 /\ b = p + m
      BY <1>1, <2>1
    <3>2. a >= 1 /\ b <= Len(s) /\ b - a + 1 = m
      BY <1>1, <2>1, <3>1
    <3>3. SubSeq(s, a, b) \in Seq(A)
      BY <1>1, <2>1, <3>2
    <3>4. Len(SubSeq(s, a, b)) = m
      BY <1>1, <2>1, <3>2
    <3>5. \A i \in 1..m : SubSeq(s, a, b)[i] = s[a + i - 1]
      BY <1>1, <2>1, <3>2
    <3>6. \A i \in 1..m : i + p \in 1..Len(s) /\ a + i - 1 = p + i
      BY <1>1, <2>1, <3>1
    <3> QED BY <3>1, <3>3, <3>4, <3>5, <3>6
  <2> QED BY <1>3, <2>2, <2>3 DEF m
<1> QED BY <1>2, <1>3

\* Two texts with the same characters are the same.
LEMMA SameChars ==
  ASSUME NEW A, NEW s \in Seq(A), NEW t \in Seq(A), Len(s) = Len(t), \A i \in 1..Len(s) : s[i] = t[i]
  PROVE  s = t
OBVIOUS

\* The end of a text, and a text before another one, by positions.
LEMMA MidFromIs ==
  ASSUME NEW A, NEW s \in Seq(A), NEW p \in Nat
  PROVE  /\ MidFrom(s, p) = Mid(s, p, Len(s)) /\ MidFrom(s, p) \in Seq(A)
         /\ Len(MidFrom(s, p)) = IF p > Len(s) THEN 0 ELSE Len(s) - p
         /\ \A i \in 1..Len(MidFrom(s, p)) : i + p \in 1..Len(s) /\ MidFrom(s, p)[i] = s[p + i]
<1>1. Len(s) \in Nat /\ MidFrom(s, p) = Mid(s, p, Len(s))
  BY DEF MidFrom
<1>2. /\ Mid(s, p, Len(s)) \in Seq(A)
      /\ Len(Mid(s, p, Len(s))) = IF p > Len(s) THEN 0 ELSE IF Len(s) <= Len(s) - p THEN Len(s) ELSE Len(s) - p
      /\ \A i \in 1..Len(Mid(s, p, Len(s))) : i + p \in 1..Len(s) /\ Mid(s, p, Len(s))[i] = s[p + i]
  BY <1>1, MidIs
<1> QED BY <1>1, <1>2

\* The start of a text.
LEMMA LeftIs ==
  ASSUME NEW A, NEW s \in Seq(A), NEW n \in Nat
  PROVE  /\ Left(s, n) = Mid(s, 0, n) /\ Left(s, n) \in Seq(A)
         /\ Len(Left(s, n)) = IF n <= Len(s) THEN n ELSE Len(s)
         /\ \A i \in 1..Len(Left(s, n)) : i \in 1..Len(s) /\ Left(s, n)[i] = s[i]
<1>1. Len(s) \in Nat /\ Left(s, n) = Mid(s, 0, n)
  BY DEF Left
<1>2. /\ Mid(s, 0, n) \in Seq(A)
      /\ Len(Mid(s, 0, n)) = IF 0 > Len(s) THEN 0 ELSE IF n <= Len(s) - 0 THEN n ELSE Len(s) - 0
      /\ \A i \in 1..Len(Mid(s, 0, n)) : i + 0 \in 1..Len(s) /\ Mid(s, 0, n)[i] = s[0 + i]
  <2>1. 0 \in Nat
    OBVIOUS
  <2> QED BY <2>1, MidIs
<1> QED BY <1>1, <1>2

\* What String shows of a character.
Mark(c) == IF c \in WideOnly \cup ByteOnly THEN "?" ELSE c

\* Fold() works on each character alone.
LEMMA FoldIs ==
  ASSUME NEW s
  PROVE  Fold(s) = [i \in DOMAIN s |-> Mark(s[i])]
<1>1. "?" \notin WideOnly
  BY StringsAssumption
<1>2. PICK w : w = ToWide(s)
  OBVIOUS
<1>3. DOMAIN w = DOMAIN s /\ \A i \in DOMAIN s : w[i] = IF s[i] \in ByteOnly THEN "?" ELSE s[i]
  BY <1>2 DEF ToWide
<1>4. ToByte(w) = [i \in DOMAIN s |-> IF w[i] \in WideOnly THEN "?" ELSE w[i]]
  BY <1>3 DEF ToByte
<1>5. \A i \in DOMAIN s : (IF w[i] \in WideOnly THEN "?" ELSE w[i]) = Mark(s[i])
  BY <1>1, <1>3 DEF Mark
<1> QED BY <1>2, <1>4, <1>5 DEF Fold

\* It keeps the length.
LEMMA FoldedText ==
  ASSUME NEW s, WideText(s)
  PROVE  /\ WideText(Fold(s)) /\ Len(Fold(s)) = Len(s)
         /\ \A i \in 1..Len(s) : Fold(s)[i] = Mark(s[i])
<1>1. s \in Seq(Alphabet) /\ DOMAIN s = 1..Len(s) /\ Len(s) \in Nat /\ \A i \in 1..Len(s) : s[i] \in Alphabet
  BY DEF WideText
<1>2. "?" \in Alphabet
  BY DEF Alphabet
<1>3. \A c \in Alphabet : Mark(c) \in Alphabet
  BY <1>2 DEF Mark
<1>4. Fold(s) = [i \in 1..Len(s) |-> Mark(s[i])]
  BY <1>1, FoldIs
<1>5. [i \in 1..Len(s) |-> Mark(s[i])] \in Seq(Alphabet)
  BY <1>1, <1>3
<1>6. Len([i \in 1..Len(s) |-> Mark(s[i])]) = Len(s)
  BY <1>1
<1> QED BY <1>1, <1>4, <1>5, <1>6 DEF WideText

\* Bytes that are ASCII are shown as they are; what is made of ASCII is ASCII.
LEMMA FoldBytes ==
  ASSUME AsciiPrograms, NEW s, ByteText(s)
  PROVE  Fold(s) = s /\ WideText(s)
<1>1. s \in Seq(Alphabet \ WideOnly) /\ Alphabet \cap ByteOnly = {}
  BY DEF ByteText, AsciiPrograms
<1>2. s \in Seq(Alphabet)
  BY <1>1
<1>3. DOMAIN s = 1..Len(s) /\ \A i \in 1..Len(s) : s[i] \in Alphabet \ WideOnly
  BY <1>1
<1>4. Fold(s) \in Seq(Alphabet) /\ Len(Fold(s)) = Len(s) /\ \A i \in 1..Len(s) : Fold(s)[i] = Mark(s[i])
  <2>1. WideText(s)
    BY <1>2 DEF WideText
  <2>2. /\ WideText(Fold(s)) /\ Len(Fold(s)) = Len(s)
        /\ \A i \in 1..Len(s) : Fold(s)[i] = Mark(s[i])
    BY <2>1, FoldedText
  <2> QED BY <2>2 DEF WideText
<1>5. \A i \in 1..Len(s) : Mark(s[i]) = s[i]
  BY <1>1, <1>3 DEF Mark
<1>6. Fold(s) = s
  BY <1>2, <1>4, <1>5, SameChars
<1> QED BY <1>2, <1>6 DEF WideText

\* The conversions make texts of the other kind.
LEMMA ConversionTypes ==
  ASSUME AsciiPrograms, NEW s, WideText(s)
  PROVE  /\ ByteText(ToByte(s)) /\ Len(ToByte(s)) = Len(s)
         /\ WideText(ToWide(s)) /\ Len(ToWide(s)) = Len(s)
<1>1. "?" \notin WideOnly /\ "?" \in Alphabet
  BY StringsAssumption DEF Alphabet
<1> HIDE DEF Alphabet
<1>2. s \in Seq(Alphabet) /\ DOMAIN s = 1..Len(s) /\ Len(s) \in Nat /\ \A i \in 1..Len(s) : s[i] \in Alphabet
  BY DEF WideText
<1>3. ToByte(s) = [i \in 1..Len(s) |-> IF s[i] \in WideOnly THEN "?" ELSE s[i]]
  BY <1>2 DEF ToByte
<1>4. ToWide(s) = [i \in 1..Len(s) |-> IF s[i] \in ByteOnly THEN "?" ELSE s[i]]
  BY <1>2 DEF ToWide
<1>5. \A i \in 1..Len(s) : (IF s[i] \in WideOnly THEN "?" ELSE s[i]) \in Alphabet \ WideOnly
  BY <1>1, <1>2
<1>6. \A i \in 1..Len(s) : (IF s[i] \in ByteOnly THEN "?" ELSE s[i]) \in Alphabet
  BY <1>1, <1>2
<1>7. ToByte(s) \in Seq(Alphabet \ WideOnly) /\ Len(ToByte(s)) = Len(s)
  BY <1>2, <1>3, <1>5
<1>8. ToWide(s) \in Seq(Alphabet) /\ Len(ToWide(s)) = Len(s)
  BY <1>2, <1>4, <1>6
<1> QED BY <1>7, <1>8 DEF ByteText, WideText

\* Parts of a text are shown as parts of what is shown.
LEMMA FoldMid ==
  ASSUME NEW s, WideText(s), NEW p \in Nat, NEW n \in Nat
  PROVE  WideText(Mid(s, p, n)) /\ Fold(Mid(s, p, n)) = Mid(Fold(s), p, n)
<1>1. s \in Seq(Alphabet) /\ Fold(s) \in Seq(Alphabet) /\ Len(Fold(s)) = Len(s)
      /\ \A i \in 1..Len(s) : Fold(s)[i] = Mark(s[i])
  BY FoldedText DEF WideText
<1>2. PICK t : t = Fold(s)
  OBVIOUS
<1>3. PICK u : u = Mid(s, p, n)
  OBVIOUS
<1>4. PICK v : v = Mid(t, p, n)
  OBVIOUS
<1>5. /\ u \in Seq(Alphabet)
      /\ Len(u) = IF p > Len(s) THEN 0 ELSE IF n <= Len(s) - p THEN n ELSE Len(s) - p
      /\ \A i \in 1..Len(u) : i + p \in 1..Len(s) /\ u[i] = s[p + i]
  BY <1>1, <1>3, MidIs
<1>6. /\ v \in Seq(Alphabet)
      /\ Len(v) = IF p > Len(t) THEN 0 ELSE IF n <= Len(t) - p THEN n ELSE Len(t) - p
      /\ \A i \in 1..Len(v) : i + p \in 1..Len(t) /\ v[i] = t[p + i]
  BY <1>1, <1>2, <1>4, MidIs
<1>7. WideText(u)
  BY <1>5 DEF WideText
<1>8. Fold(u) \in Seq(Alphabet) /\ Len(Fold(u)) = Len(u) /\ \A i \in 1..Len(u) : Fold(u)[i] = Mark(u[i])
  BY <1>7, FoldedText DEF WideText
<1>9. Len(u) = Len(v) /\ Len(u) \in Nat
  BY <1>1, <1>2, <1>5, <1>6
<1>10. \A i \in 1..Len(u) : Fold(u)[i] = v[i]
  <2> SUFFICES ASSUME NEW i \in 1..Len(u) PROVE Fold(u)[i] = v[i]
    OBVIOUS
  <2>1. Fold(u)[i] = Mark(u[i]) /\ u[i] = s[p + i] /\ i + p \in 1..Len(s) /\ i + p = p + i
    BY <1>5, <1>8, <1>9
  <2>2. v[i] = t[p + i]
    BY <1>6, <1>9
  <2>3. t[p + i] = Mark(s[p + i])
    BY <1>1, <1>2, <2>1
  <2> QED BY <2>1, <2>2, <2>3
<1>11. Fold(u) = v
  BY <1>6, <1>8, <1>9, <1>10, SameChars
<1> QED BY <1>2, <1>3, <1>4, <1>7, <1>11

\* The same for two texts joined.
LEMMA FoldJoin ==
  ASSUME NEW s, WideText(s), NEW t, WideText(t)
  PROVE  WideText(s \o t) /\ Fold(s \o t) = Fold(s) \o Fold(t) /\ Len(s \o t) = Len(s) + Len(t)
<1>1. s \in Seq(Alphabet) /\ Fold(s) \in Seq(Alphabet) /\ Len(Fold(s)) = Len(s)
      /\ \A i \in 1..Len(s) : Fold(s)[i] = Mark(s[i])
  BY FoldedText DEF WideText
<1>2. t \in Seq(Alphabet) /\ Fold(t) \in Seq(Alphabet) /\ Len(Fold(t)) = Len(t)
      /\ \A i \in 1..Len(t) : Fold(t)[i] = Mark(t[i])
  BY FoldedText DEF WideText
<1>3. PICK a : a = Fold(s)
  OBVIOUS
<1>4. PICK b : b = Fold(t)
  OBVIOUS
<1>5. PICK u : u = s \o t
  OBVIOUS
<1>6. /\ u \in Seq(Alphabet) /\ Len(u) = Len(s) + Len(t)
      /\ \A i \in 1..Len(u) : u[i] = IF i <= Len(s) THEN s[i] ELSE t[i - Len(s)]
  BY <1>1, <1>2, <1>5
<1>7. /\ a \o b \in Seq(Alphabet) /\ Len(a \o b) = Len(u)
      /\ \A i \in 1..Len(u) : (a \o b)[i] = IF i <= Len(s) THEN a[i] ELSE b[i - Len(s)]
  <2>1. a \in Seq(Alphabet) /\ b \in Seq(Alphabet) /\ Len(a) = Len(s) /\ Len(b) = Len(t)
    BY <1>1, <1>2, <1>3, <1>4
  <2>2. /\ a \o b \in Seq(Alphabet) /\ Len(a \o b) = Len(a) + Len(b)
        /\ \A i \in 1..(Len(a) + Len(b)) : (a \o b)[i] = IF i <= Len(a) THEN a[i] ELSE b[i - Len(a)]
    BY <2>1
  <2> QED BY <1>6, <2>1, <2>2
<1>8. Fold(u) \in Seq(Alphabet) /\ Len(Fold(u)) = Len(u) /\ \A i \in 1..Len(u) : Fold(u)[i] = Mark(u[i])
  <2>1. WideText(u)
    BY <1>6 DEF WideText
  <2> QED BY <2>1, FoldedText DEF WideText
<1>9. \A i \in 1..Len(u) : Fold(u)[i] = (a \o b)[i]
  <2> SUFFICES ASSUME NEW i \in 1..Len(u) PROVE Fold(u)[i] = (a \o b)[i]
    OBVIOUS
  <2>1. Len(s) \in Nat /\ Len(t) \in Nat /\ Len(u) \in Nat
    BY <1>1, <1>2, <1>6
  <2>2. CASE i <= Len(s)
    <3>1. i \in 1..Len(s)
      BY <2>1, <2>2
    <3> QED BY <1>1, <1>3, <1>6, <1>7, <1>8, <2>2, <3>1
  <2>3. CASE ~(i <= Len(s))
    <3>1. i - Len(s) \in 1..Len(t)
      BY <1>6, <2>1, <2>3
    <3> QED BY <1>2, <1>4, <1>6, <1>7, <1>8, <2>3, <3>1
  <2> QED BY <2>2, <2>3
<1>10. Fold(u) = a \o b
  BY <1>7, <1>8, <1>9, SameChars
<1> QED BY <1>3, <1>4, <1>5, <1>6, <1>10 DEF WideText

\* A text backwards.
LEMMA FoldReverse ==
  ASSUME NEW s, WideText(s)
  PROVE  WideText(Reverse(s)) /\ Fold(Reverse(s)) = Reverse(Fold(s)) /\ Len(Reverse(s)) = Len(s)
<1>1. s \in Seq(Alphabet) /\ Fold(s) \in Seq(Alphabet) /\ Len(Fold(s)) = Len(s) /\ Len(s) \in Nat
      /\ \A i \in 1..Len(s) : Fold(s)[i] = Mark(s[i])
  BY FoldedText DEF WideText
<1>2. \A i \in 1..Len(s) : (Len(s) - i) + 1 \in 1..Len(s)
  BY <1>1
<1>3. Reverse(s) = [i \in 1..Len(s) |-> s[(Len(s) - i) + 1]]
  BY DEF Reverse
<1>4. Reverse(Fold(s)) = [i \in 1..Len(s) |-> Fold(s)[(Len(s) - i) + 1]]
  BY <1>1 DEF Reverse
<1>5. PICK u : u = Reverse(s)
  OBVIOUS
<1>6. u \in Seq(Alphabet) /\ Len(u) = Len(s) /\ DOMAIN u = 1..Len(s) /\ \A i \in 1..Len(s) : u[i] = s[(Len(s) - i) + 1]
  BY <1>1, <1>2, <1>3, <1>5
<1>7. Fold(u) = [i \in 1..Len(s) |-> Mark(u[i])]
  BY <1>6, FoldIs
<1>8. \A i \in 1..Len(s) : Mark(u[i]) = Fold(s)[(Len(s) - i) + 1]
  BY <1>1, <1>2, <1>6
<1>9. Fold(u) = Reverse(Fold(s))
  BY <1>4, <1>7, <1>8
<1> QED BY <1>5, <1>6, <1>9 DEF WideText

\* The first and the last of finitely many positions.
LEMMA MinIs ==
  ASSUME NEW S \in SUBSET Nat, S # {}
  PROVE  Min(S) \in S /\ \A x \in S : Min(S) <= x
<1>1. \E x \in S : \A y \in S : x <= y
  BY Smallest
<1> QED BY <1>1 DEF Min

\* The same for the last.
LEMMA MaxIs ==
  ASSUME NEW n \in Nat, NEW S \in SUBSET (0..n), S # {}
  PROVE  Max(S) \in S /\ \A x \in S : Max(S) >= x
<1> DEFINE F == {n - x : x \in S}
<1>1. F \in SUBSET Nat /\ F # {}
  <2>1. \A x \in S : n - x \in Nat
    OBVIOUS
  <2> QED BY <2>1
<1> HIDE DEF F
<1>2. PICK i \in F : \A j \in F : i <= j
  BY <1>1, Smallest
<1>3. PICK x \in S : i = n - x
  BY <1>2 DEF F
<1>4. \A y \in S : n - y \in F
  BY DEF F
<1>5. \A y \in S : x >= y
  <2> SUFFICES ASSUME NEW y \in S PROVE x >= y
    OBVIOUS
  <2>1. n - x <= n - y
    BY <1>2, <1>3, <1>4
  <2> QED BY <2>1
<1> QED BY <1>5 DEF Max

\* removeMid().
LEMMA FoldRemoveMid ==
  ASSUME NEW s, WideText(s), NEW p \in Nat, NEW n \in Nat
  PROVE  WideText(RemoveMid(s, p, n)) /\ Fold(RemoveMid(s, p, n)) = RemoveMid(Fold(s), p, n)
<1>1. Len(s) \in Nat /\ Len(Fold(s)) = Len(s) /\ WideText(Fold(s))
  BY FoldedText DEF WideText
<1>2. PICK q \in Nat : q = Min({p, Len(s)}) /\ q <= Len(s)
  <2>1. Min({p, Len(s)}) = IF p <= Len(s) THEN p ELSE Len(s)
    BY <1>1, MinMaxTwo
  <2> QED BY <1>1, <2>1
<1>3. PICK m \in Nat : m = q + Min({n, Len(s) - q})
  <2>1. Min({n, Len(s) - q}) = IF n <= Len(s) - q THEN n ELSE Len(s) - q
    BY <1>1, MinMaxTwo
  <2> QED BY <1>1, <1>2, <2>1
<1>4. RemoveMid(s, p, n) = Left(s, q) \o MidFrom(s, m) /\ RemoveMid(Fold(s), p, n) = Left(Fold(s), q) \o MidFrom(Fold(s), m)
  BY <1>1, <1>2, <1>3 DEF RemoveMid
<1>5. WideText(Left(s, q)) /\ Fold(Left(s, q)) = Left(Fold(s), q)
  <2>1. 0 \in Nat
    OBVIOUS
  <2> QED BY <2>1, FoldMid DEF Left
<1>6. WideText(MidFrom(s, m)) /\ Fold(MidFrom(s, m)) = MidFrom(Fold(s), m)
  BY <1>1, FoldMid DEF MidFrom
<1> QED BY <1>4, <1>5, <1>6, FoldJoin

\* trimSpaces(): a character that is no space is not shown as one.
LEMMA FoldTrim ==
  ASSUME AsciiPrograms, NEW s, WideText(s)
  PROVE  WideText(TrimSpaces(s)) /\ Fold(TrimSpaces(s)) = TrimSpaces(Fold(s))
<1>1. /\ s \in Seq(Alphabet) /\ Len(s) \in Nat /\ DOMAIN s = 1..Len(s)
      /\ \A i \in 1..Len(s) : s[i] \in Alphabet
  BY DEF WideText
<1>2. PICK t : t = Fold(s)
  OBVIOUS
<1>3. WideText(t) /\ Len(t) = Len(s) /\ \A i \in 1..Len(s) : t[i] = Mark(s[i])
  BY <1>2, FoldedText
<1>4. DOMAIN t = 1..Len(s)
  BY <1>3 DEF WideText
<1>5. Alphabet \cap ByteOnly = {} /\ " " \notin WideOnly /\ "?" # " "
  BY DEF AsciiPrograms
<1>6. \A i \in 1..Len(s) : s[i] # " " <=> t[i] # " "
  <2> SUFFICES ASSUME NEW i \in 1..Len(s) PROVE s[i] # " " <=> t[i] # " "
    OBVIOUS
  <2>1. PICK c : c = s[i]
    OBVIOUS
  <2>2. c \in Alphabet /\ t[i] = IF c \in WideOnly \cup ByteOnly THEN "?" ELSE c
    BY <1>1, <1>3, <2>1 DEF Mark
  <2>3. c \notin ByteOnly
    BY <1>5, <2>2
  <2>4. PICK space, mark : space = " " /\ mark = "?"
    OBVIOUS
  <2>5. space \notin WideOnly /\ mark # space
    BY <1>5, <2>4
  <2>6. t[i] = IF c \in WideOnly THEN mark ELSE c
    BY <2>2, <2>3, <2>4
  <2>7. c # space <=> t[i] # space
    BY <2>5, <2>6
  <2> QED BY <2>1, <2>4, <2>7
<1>7. PICK ink : ink = {i \in 1..Len(s) : s[i] # " "}
  OBVIOUS
<1>8. {i \in DOMAIN s : s[i] # " "} = ink /\ {i \in DOMAIN t : t[i] # " "} = ink
  BY <1>1, <1>4, <1>6, <1>7
<1>9. /\ TrimSpaces(s) = IF ink = {} THEN <<>> ELSE SubSeq(s, Min(ink), Max(ink))
      /\ TrimSpaces(t) = IF ink = {} THEN <<>> ELSE SubSeq(t, Min(ink), Max(ink))
  BY <1>8 DEF TrimSpaces
<1>10. CASE ink = {}
  <2>1. WideText(<<>>) /\ Fold(<<>>) = <<>>
    <3>1. Fold(<<>>) = [i \in DOMAIN <<>> |-> Mark(<<>>[i])]
      BY FoldIs
    <3> QED BY <3>1 DEF WideText
  <2> QED BY <1>2, <1>9, <1>10, <2>1
<1>11. CASE ink # {}
  <2>1. ink \in SUBSET Nat /\ ink \in SUBSET (0..Len(s)) /\ \A i \in ink : i \in 1..Len(s)
    <3>1. \A i \in ink : i \in 1..Len(s)
      BY <1>7
    <3>2. \A i \in ink : i \in Nat /\ i \in 0..Len(s)
      BY <1>1, <3>1
    <3> QED BY <3>1, <3>2
  <2>2. PICK a \in ink : a = Min(ink) /\ \A x \in ink : a <= x
    BY <1>11, <2>1, MinIs
  <2>3. PICK b \in ink : b = Max(ink) /\ \A x \in ink : b >= x
    BY <1>1, <1>11, <2>1, MaxIs
  <2>4. a \in 1..Len(s) /\ b \in 1..Len(s) /\ a <= b
    BY <2>1, <2>2, <2>3
  <2>5. PICK p \in Nat, n \in Nat : a = p + 1 /\ b = p + n /\ p + n <= Len(s)
    <3>1. a - 1 \in Nat /\ b - (a - 1) \in Nat
      BY <1>1, <2>4
    <3> QED BY <1>1, <2>4, <3>1
  <2>6. \A u : Len(u) = Len(s) => Mid(u, p, n) = SubSeq(u, a, b)
    <3> SUFFICES ASSUME NEW u, Len(u) = Len(s) PROVE Mid(u, p, n) = SubSeq(u, a, b)
      OBVIOUS
    <3>1. Min({n, Len(s) - p}) = n /\ ~(p > Len(s))
      BY <1>1, <2>5, MinMaxTwo
    <3> QED BY <2>5, <3>1 DEF Mid
  <2>7. TrimSpaces(s) = Mid(s, p, n) /\ TrimSpaces(t) = Mid(t, p, n)
    BY <1>3, <1>9, <1>11, <2>2, <2>3, <2>6
  <2> QED BY <1>2, <2>7, FoldMid
<1> QED BY <1>2, <1>10, <1>11

\* The literals and the longest text of the abstract specification.
AllLits == UNION {{Fold(l), Reverse(Fold(l))} : l \in Literals}
Longest == Max({p.max : p \in Programs})

\* A text that an operation can see: one a handle has, or a literal.
Seen(u) == (\E g \in Handles : u = Val(g).s) \/ u \in AllLits
ValText(s) == [null |-> FALSE, s |-> s]

\* What the abstract specification lets a step of h make.
LEMMA MadeBy ==
  ASSUME NEW h \in Handles
  PROVE  /\ \A g \in Handles : Values!Made(h, Val(g))
         /\ Values!Made(h, [null |-> TRUE, s |-> <<>>]) /\ Values!Made(h, ValText(<<>>))
         /\ \A u : Seen(u) => /\ Values!Made(h, ValText(u)) /\ Values!Made(h, ValText(Val(h).s \o u))
                              /\ Values!Made(h, ValText(u \o MidFrom(Val(h).s, Len(u))))
         /\ \A p, n \in 0..Longest : /\ Values!Made(h, ValText(Mid(Val(h).s, p, n)))
                                     /\ Values!Made(h, ValText(RemoveMid(Val(h).s, p, n)))
         /\ Values!Made(h, ValText(TrimSpaces(Val(h).s)))
         /\ \A p \in -Longest..Longest : \A u : Seen(u) => Values!Made(h, ValText(Insert(Val(h).s, p, u)))
         /\ \A l \in AllLits, m \in AllLits \cup {<<>>} : Values!Made(h, ValText(Replace(Val(h).s, l, m)))
<1> DEFINE lits == UNION {{Fold(l), Reverse(Fold(l))} : l \in UNION {p.ascii \cup p.wide : p \in Programs}}
           top == Max({p.max : p \in Programs})
           val == [g \in Strs \cup Blobs |-> Val(g)]
           all == {val[g] : g \in Strs \cup Blobs} \cup {Values!Text(l) : l \in lits}
           ends == {Values!Text(u.s) : u \in all} \cup {Values!NullText, Values!Text(<<>>)}
<1>1. ASSUME NEW w
      PROVE  Values!Made(h, w) <=>
               \/ w \in all \cup ends
               \/ \E u \in all : w \in {Values!Joined(val[h], u), Values!Text(val[h].s \o u.s),
                                         Values!Text(u.s \o Values!MidFrom(val[h].s, Len(u.s)))}
               \/ \E p, n \in 0..top : w \in {Values!Text(Values!Mid(val[h].s, p, n)),
                                              Values!Text(Values!RemoveMid(val[h].s, p, n))}
               \/ w = Values!Text(Values!TrimSpaces(val[h].s))
               \/ \E p \in -top..top, u \in all : w = Values!Text(Values!Insert(val[h].s, p, u.s))
               \/ \E l \in lits, m \in lits \cup {<<>>} : w = Values!Text(Values!Replace(val[h].s, l, m))
  BY DEF Values!Made
<1>2. lits = AllLits /\ top = Longest
  BY DEF AllLits, Longest, Literals
<1>3. (\A g \in Handles : g \in Strs \cup Blobs /\ val[g] = Val(g)) /\ val[h] = Val(h)
  BY DEF Handles
<1>4. Values!NullText = [null |-> TRUE, s |-> <<>>] /\ \A s : Values!Text(s) = ValText(s) /\ ValText(s).s = s
  BY DEF Values!Text, Values!NullText, ValText
<1> HIDE DEF lits, top, val
<1>5. /\ \A g \in Handles : Val(g) \in all
      /\ \A l \in AllLits : ValText(l) \in all
  BY <1>2, <1>3, <1>4
<1>6. ValText(<<>>) \in ends /\ [null |-> TRUE, s |-> <<>>] \in ends /\ \A u \in all : ValText(u.s) \in ends
  BY <1>4
<1> HIDE DEF all, ends
<1>7. \A u : Seen(u) => \E x \in all : x.s = u
  <2> SUFFICES ASSUME NEW u, Seen(u) PROVE \E x \in all : x.s = u
    OBVIOUS
  <2>1. CASE \E g \in Handles : u = Val(g).s
    BY <1>5, <2>1
  <2>2. CASE u \in AllLits
    BY <1>4, <1>5, <2>2
  <2> QED BY <2>1, <2>2 DEF Seen
<1>8. \A g \in Handles : Values!Made(h, Val(g))
  BY <1>1, <1>5
<1>9. Values!Made(h, [null |-> TRUE, s |-> <<>>]) /\ Values!Made(h, ValText(<<>>))
  BY <1>1, <1>6
<1>10. ASSUME NEW u, Seen(u)
       PROVE  /\ Values!Made(h, ValText(u)) /\ Values!Made(h, ValText(Val(h).s \o u))
              /\ Values!Made(h, ValText(u \o MidFrom(Val(h).s, Len(u))))
  <2>1. PICK x \in all : x.s = u
    BY <1>7, <1>10
  <2>2. ValText(u) \in ends
    BY <1>6, <2>1
  <2>3. Values!Text(val[h].s \o x.s) = ValText(Val(h).s \o u)
    BY <1>3, <1>4, <2>1
  <2>4. Values!Text(x.s \o Values!MidFrom(val[h].s, Len(x.s))) = ValText(u \o MidFrom(Val(h).s, Len(u)))
    BY <1>3, <1>4, <2>1, SameOps
  <2> QED BY <1>1, <2>1, <2>2, <2>3, <2>4
<1>11. ASSUME NEW p \in 0..Longest, NEW n \in 0..Longest
       PROVE  /\ Values!Made(h, ValText(Mid(Val(h).s, p, n)))
              /\ Values!Made(h, ValText(RemoveMid(Val(h).s, p, n)))
  <2>1. p \in 0..top /\ n \in 0..top
    BY <1>2
  <2>2. Values!Text(Values!Mid(val[h].s, p, n)) = ValText(Mid(Val(h).s, p, n))
    BY <1>3, <1>4, SameOps
  <2>3. Values!Text(Values!RemoveMid(val[h].s, p, n)) = ValText(RemoveMid(Val(h).s, p, n))
    BY <1>3, <1>4, SameOps
  <2> QED BY <1>1, <2>1, <2>2, <2>3
<1>12. Values!Made(h, ValText(TrimSpaces(Val(h).s)))
  BY <1>1, <1>3, <1>4, SameOps
<1>13. ASSUME NEW p \in -Longest..Longest, NEW u, Seen(u) PROVE Values!Made(h, ValText(Insert(Val(h).s, p, u)))
  <2>1. PICK x \in all : x.s = u
    BY <1>7, <1>13
  <2>2. Values!Text(Values!Insert(val[h].s, p, x.s)) = ValText(Insert(Val(h).s, p, u))
    BY <1>3, <1>4, <2>1, SameOps
  <2> QED BY <1>1, <1>2, <2>1, <2>2
<1>14. ASSUME NEW l \in AllLits, NEW m \in AllLits \cup {<<>>} PROVE Values!Made(h, ValText(Replace(Val(h).s, l, m)))
  <2>1. Values!Text(Values!Replace(val[h].s, l, m)) = ValText(Replace(Val(h).s, l, m))
    BY <1>3, <1>4, SameOps
  <2> QED BY <1>1, <1>2, <2>1
<1> QED BY <1>8, <1>9, <1>10, <1>11, <1>12, <1>13, <1>14

\* Every representation, every blob and every conversion under way holds a text of its
\* kind, no longer than the program's longest.
Fits(s, isWide, max) == IsText(s, isWide) /\ Len(s) <= max
RepsTyped(r, bf, max) == /\ r.b # NoRep => Fits(bf[r.b].s, FALSE, max)
                         /\ r.w # NoRep => Fits(bf[r.w].s, TRUE, max)
TextInv ==
    /\ \A i \in Places : data[i] # Free => RepsTyped(data[i], buf, MaxLen)
    /\ \A x \in Blobs : Fits(buf[d[x]].s, x \in WideBlobs, MaxLen)
    /\ \A h \in Strs : pend[h] # Idle => Fits(buf[pend[h].new].s, pend[h].k = "w", MaxLen)

\* What is kept stays a text of its kind.
LEMMA KeptTyped ==
  ASSUME TextInv, prog' = prog, NEW i \in Places, DataKept(i)
  PROVE  RepsTyped(data'[i], buf', MaxLen)
BY DEF TextInv, DataKept, RepsTyped, SameText, Fits

\* And what the other handles hold.
LEMMA OthersTyped ==
  ASSUME TextInv, prog' = prog, NEW h, OthersHold(h)
  PROVE  /\ \A x \in Blobs \ {h} : Fits(buf'[d'[x]].s, x \in WideBlobs, MaxLen)
         /\ \A g \in Strs \ {h} : pend'[g] # Idle => Fits(buf'[pend'[g].new].s, pend'[g].k = "w", MaxLen)
BY DEF TextInv, OthersHold, Fits

\* A handle with a new StrData has the new text.
LEMMA BecomeTexts ==
  ASSUME IInv, TextInv, NEW h \in Strs, Alone(h), NEW s, NEW isWide \in BOOLEAN, Become(h, s, isWide), IsText(s, isWide)
  PROVE  TextInv' /\ Val(h)' = ValText(Fold(s))
<1>1. Became(h, s, isWide)
  BY BecomeStep
<1>2. prog' = prog /\ Len(s) <= MaxLen /\ h \notin Blobs
  BY Constants DEF Become
<1>3. PICK i \in Places \ Static, j \in Places :
        /\ d'[h] = i /\ buf'[j].s = s
        /\ data'[i].b = (IF isWide THEN NoRep ELSE j) /\ data'[i].w = (IF isWide THEN j ELSE NoRep)
        /\ \A k \in Places \ {i} : data'[k] # Free => DataKept(k)
  BY <1>1 DEF Became
<1>4. j # NoRep /\ i # Null
  BY <1>3, Constants
<1>5. RepsTyped(data'[i], buf', MaxLen)
  <2>1. Fits(s, isWide, MaxLen)
    BY <1>2 DEF Fits
  <2>2. CASE isWide = TRUE
    BY <1>3, <2>1, <2>2 DEF RepsTyped
  <2>3. CASE isWide = FALSE
    BY <1>3, <2>1, <2>3 DEF RepsTyped
  <2> QED BY <2>2, <2>3
<1>6. \A k \in Places : data'[k] # Free => RepsTyped(data'[k], buf', MaxLen)
  BY <1>2, <1>3, <1>5, KeptTyped
<1>7. /\ \A x \in Blobs \ {h} : Fits(buf'[d'[x]].s, x \in WideBlobs, MaxLen)
      /\ \A g \in Strs \ {h} : pend'[g] # Idle => Fits(buf'[pend'[g].new].s, pend'[g].k = "w", MaxLen)
      /\ pend'[h] = Idle
  BY <1>1, <1>2, OthersTyped DEF Became
<1>8. TextInv'
  <2>1. MaxLen' = MaxLen
    BY <1>2 DEF MaxLen
  <2> QED BY <1>2, <1>6, <1>7, <2>1 DEF TextInv
<1>9. Chars(d[h])' = s
  BY <1>3, <1>4 DEF Chars, HasB, Bytes, Wides
<1>10. Val(h)' = ValText(Fold(s))
  BY <1>3, <1>4, <1>9 DEF Val, ValText
<1> QED BY <1>8, <1>10

\* A handle that shares a StrData has its text.
LEMMA ShareDataTexts ==
  ASSUME IInv, TextInv, NEW h \in Strs, Alone(h), NEW i \in Places, data[i] # Free, ShareData(h, i)
  PROVE  TextInv' /\ Val(h)' = [null |-> i = Null, s |-> Fold(Chars(i))]
<1>1. /\ IInv' /\ OthersHold(h) /\ pend' = pend /\ d'[h] = i
      /\ data'[i] # Free /\ \A k \in Places : data'[k] # Free => DataKept(k)
  BY ShareDataStep
<1>2. prog' = prog /\ h \notin Blobs /\ pend[h] = Idle
  BY Constants DEF ShareData, Alone
<1>3. \A k \in Places : data'[k] # Free => RepsTyped(data'[k], buf', MaxLen)
  BY <1>1, <1>2, KeptTyped
<1>4. TextInv'
  <2>1. /\ \A x \in Blobs \ {h} : Fits(buf'[d'[x]].s, x \in WideBlobs, MaxLen)
        /\ \A g \in Strs \ {h} : pend'[g] # Idle => Fits(buf'[pend'[g].new].s, pend'[g].k = "w", MaxLen)
    BY <1>1, <1>2, OthersTyped
  <2>2. MaxLen' = MaxLen /\ pend'[h] = Idle
    BY <1>1, <1>2 DEF MaxLen
  <2> QED BY <1>2, <1>3, <2>1, <2>2 DEF TextInv
<1>6. DataKept(i) /\ DataSound(i, data[i], buf)
  BY <1>1 DEF IInv, TextsSound
<1>7. TextOf(data'[i], buf') = TextOf(data[i], buf)
  BY <1>6 DEF DataKept, SameText, TextOf, DataSound
<1>8. Chars(i) = TextOf(data[i], buf) /\ Chars(d[h])' = TextOf(data'[i], buf')
  BY <1>1 DEF Chars, TextOf, HasB, Bytes, Wides
<1>9. Val(h)' = [null |-> i = Null, s |-> Fold(Chars(i))]
  BY <1>1, <1>7, <1>8 DEF Val
<1> QED BY <1>4, <1>9

\* A blob with a new text, or that shares one.
LEMMA BlobTyped ==
  ASSUME IInv, TextInv, NEW x \in Blobs, prog' = prog, data' = data, pend' = pend, \A y \in Blobs \ {x} : d'[y] = d[y],
         OthersKept(x, buf'), Fits(buf'[d'[x]].s, x \in WideBlobs, MaxLen)
  PROVE  TextInv' /\ Val(x)' = [null |-> d'[x] = Null, s |-> Fold(buf'[d'[x]].s)]
<1>1. x \notin Strs
  BY Constants
<1>2. \A k \in Places : data[k] # Free => RepsTyped(data[k], buf', MaxLen)
  BY DEF TextInv, OthersKept, RepsTyped, Fits
<1>3. \A h \in Strs : pend[h] # Idle => Fits(buf'[pend[h].new].s, pend[h].k = "w", MaxLen)
  BY DEF TextInv, OthersKept, Fits
<1>4. \A y \in Blobs : Fits(buf'[d'[y]].s, y \in WideBlobs, MaxLen)
  BY DEF TextInv, OthersKept, Fits
<1>5. TextInv'
  <2>1. MaxLen' = MaxLen
    BY DEF MaxLen
  <2> QED BY <1>2, <1>3, <1>4, <2>1 DEF TextInv
<1>6. Val(x)' = [null |-> d'[x] = Null, s |-> Fold(buf'[d'[x]].s)]
  BY <1>1 DEF Val
<1> QED BY <1>5, <1>6

\* What two heaps of buffers with the same texts hold.
LEMMA HeldTyped ==
  ASSUME NEW r, NEW bf, NEW cf, NEW max, RepsTyped(r, bf, max), SameText(bf, cf, r)
  PROVE  RepsTyped(r, cf, max)
BY DEF RepsTyped, SameText

\* The hash of a text.
LEMMA UpdateHashTexts ==
  ASSUME IInv, TextInv, NEW h \in Strs, UpdateHash(h)
  PROVE  TextInv'
<1>1. /\ prog' = prog /\ d' = d /\ buf' = buf /\ pend' = pend
      /\ data' = [data EXCEPT ![d[h]].hash = Hash(Chars(d[h]))]
  BY DEF UpdateHash
<1>2. DataHeap(data) /\ DOMAIN data = Places
  BY DEF IInv, CountInv, TypeOK, DataHeap
<1>3. \A k \in Places : data'[k] # Free => data[k] # Free /\ data'[k].b = data[k].b /\ data'[k].w = data[k].w
  <2> SUFFICES ASSUME NEW k \in Places, data'[k] # Free
               PROVE  data[k] # Free /\ data'[k].b = data[k].b /\ data'[k].w = data[k].w
    OBVIOUS
  <2>1. CASE k = d[h]
    <3>1. data[k] # Free
      BY <2>1, Alive
    <3>2. IsData(data[k])
      BY <1>2, <3>1 DEF DataHeap
    <3>3. data'[k] = [data[k] EXCEPT !.hash = Hash(Chars(d[h]))]
      BY <1>1, <1>2, <2>1
    <3> QED BY <3>1, <3>2, <3>3 DEF IsData
  <2>2. CASE k # d[h]
    BY <1>1, <1>2, <2>2
  <2> QED BY <2>1, <2>2
<1>4. \A k \in Places : data'[k] # Free => RepsTyped(data'[k], buf, MaxLen)
  BY <1>3 DEF TextInv, RepsTyped
<1>5. MaxLen' = MaxLen
  BY <1>1 DEF MaxLen
<1> QED BY <1>1, <1>4, <1>5 DEF TextInv

\* A conversion under way is one of a text of the other kind.
LEMMA ConvertTexts ==
  ASSUME AsciiPrograms, IInv, TextInv, NEW h \in Strs, Convert(h)
  PROVE  TextInv'
<1>1. /\ CountInv /\ DataHeap(data) /\ BufHeap(buf) /\ DOMAIN buf = Places /\ DOMAIN data = Places /\ Counted
      /\ d \in [Handles -> Places] /\ pend \in [Handles -> Pendings] /\ h \in Handles /\ pend[h] = Idle
  BY DEF IInv, CountInv, TypeOK, DataHeap, BufHeap, Handles, Convert, Alone
<1>2. PICK k \in {"b", "w"} :
         /\ data[d[h]][k] = NoRep
         /\ buf' = NewBuf(buf, Converted(d[h], k), Len(Converted(d[h], k)) + 1)
         /\ pend' = [pend EXCEPT ![h] = [k |-> k, new |-> FreeId(buf)]]
  BY DEF Convert
<1>3. prog' = prog /\ d' = d /\ data' = data
  BY DEF Convert
<1>4. PICK j : j = FreeId(buf)
  OBVIOUS
<1>5. PICK s : s = Converted(d[h], k)
  OBVIOUS
<1>6. j \in Places \ Static /\ buf[j] = Free
  BY <1>1, <1>4, Room, Alive
<1>7. buf'[j].s = s /\ \A i \in Places \ {j} : buf'[i] = buf[i]
  <2>1. PICK r : r = [rc |-> 0, s |-> s, al |-> Len(s) + 1, hash |-> None]
    OBVIOUS
  <2>2. buf' = [buf EXCEPT ![j] = r]
    BY <1>2, <1>4, <1>5, <2>1 DEF NewBuf
  <2> QED BY <1>1, <1>6, <2>1, <2>2
<1>8. \A i \in Places : buf[i] # Free => buf'[i] = buf[i]
  BY <1>6, <1>7
<1>9. Fits(s, k = "w", MaxLen)
  <2>1. d[h] \in Places /\ data[d[h]] # Free /\ RepsTyped(data[d[h]], buf, MaxLen)
    BY Alive DEF TextInv
  <2>2. data[d[h]].b # NoRep \/ data[d[h]].w # NoRep
    BY <2>1 DEF IInv, TextsSound, DataSound
  <2>3. CASE k = "b"
    <3>1. data[d[h]].b = NoRep
      BY <1>2, <2>3
    <3>2. WideText(Wides(d[h])) /\ Len(Wides(d[h])) <= MaxLen
      BY <2>1, <2>2, <3>1 DEF RepsTyped, Fits, IsText, Wides
    <3>3. s = ToByte(Wides(d[h]))
      BY <1>5, <2>3 DEF Converted
    <3>4. ByteText(s) /\ Len(s) <= MaxLen
      BY <3>2, <3>3, ConversionTypes
    <3> QED BY <2>3, <3>4 DEF Fits, IsText
  <2>4. CASE k = "w"
    <3>1. data[d[h]].w = NoRep
      BY <1>2, <2>4
    <3>2. ByteText(Bytes(d[h])) /\ Len(Bytes(d[h])) <= MaxLen
      BY <2>1, <2>2, <3>1 DEF RepsTyped, Fits, IsText, Bytes
    <3>3. s = ToWide(Bytes(d[h]))
      BY <1>5, <2>4 DEF Converted
    <3>4. WideText(s) /\ Len(s) <= MaxLen
      BY <3>2, <3>3, FoldBytes, ConversionTypes
    <3> QED BY <2>4, <3>4 DEF Fits, IsText
  <2> QED BY <2>3, <2>4
<1>10. MaxLen' = MaxLen
  BY <1>3 DEF MaxLen
<1>11. \A i \in Places : data'[i] # Free => RepsTyped(data'[i], buf', MaxLen)
  BY <1>3, <1>8, Alive DEF TextInv, RepsTyped
<1>12. \A x \in Blobs : Fits(buf'[d'[x]].s, x \in WideBlobs, MaxLen)
  BY <1>3, <1>8, Alive DEF TextInv
<1>13. ASSUME NEW g \in Strs, pend'[g] # Idle PROVE Fits(buf'[pend'[g].new].s, pend'[g].k = "w", MaxLen)
  <2>1. CASE g = h
    <3>1. PICK q : q = [k |-> k, new |-> j]
      OBVIOUS
    <3>2. pend'[g] = q
      BY <1>1, <1>2, <1>4, <2>1, <3>1
    <3>3. q.k = k /\ q.new = j
      BY <3>1
    <3> QED BY <1>7, <1>9, <3>2, <3>3
  <2>2. CASE g # h
    <3>1. pend'[g] = pend[g]
      BY <1>1, <1>2, <2>2 DEF Handles
    <3> QED BY <1>8, <1>13, <3>1, Alive DEF TextInv
  <2> QED BY <2>1, <2>2
<1> QED BY <1>10, <1>11, <1>12, <1>13 DEF TextInv

\* What a conversion stores is such a text.
LEMMA StoreTexts ==
  ASSUME IInv, TextInv, NEW h \in Strs, Store(h)
  PROVE  TextInv'
<1>1. /\ DataHeap(data) /\ BufHeap(buf) /\ DOMAIN data = Places /\ Exact(buf, BufCount(d, data, pend))
      /\ d \in [Handles -> Places] /\ pend \in [Handles -> Pendings]
      /\ h \in Handles /\ pend[h] # Idle
  BY DEF IInv, CountInv, TypeOK, DataHeap, Counted, Handles, Store
<1>2. PICK i : i = d[h]
  OBVIOUS
<1>3. PICK new : new = pend[h].new
  OBVIOUS
<1>4. PICK k \in {"b", "w"} : k = pend[h].k
  BY <1>1, Alive
<1>5. prog' = prog /\ d' = d /\ pend' = [pend EXCEPT ![h] = Idle]
  BY DEF Store
<1>6. i \in Places /\ data[i] # Free /\ new \in Places /\ buf[new] # Free /\ IsData(data[i])
  BY <1>1, <1>2, <1>3, Alive DEF DataHeap
<1>7. pend'[h] = Idle /\ \A g \in Handles \ {h} : pend'[g] = pend[g]
  BY <1>1, <1>5
<1>8. MaxLen' = MaxLen
  BY <1>5 DEF MaxLen
<1>9. CASE data[i][k] = NoRep
  <2>1. data' = [data EXCEPT ![i][k] = new] /\ buf' = buf
    BY <1>2, <1>3, <1>4, <1>9 DEF Store
  <2>2. \A g \in Places \ {i} : data'[g] = data[g]
    BY <1>1, <2>1
  <2>3. Fits(buf[new].s, k = "w", MaxLen)
    BY <1>1, <1>3, <1>4 DEF TextInv
  <2>4. RepsTyped(data'[i], buf, MaxLen)
    <3>1. CASE k = "b"
      <4>1. data'[i] = [data[i] EXCEPT !.b = new]
        BY <1>1, <1>6, <2>1, <3>1
      <4>2. data'[i].b = new /\ data'[i].w = data[i].w
        BY <1>6, <4>1 DEF IsData
      <4> QED BY <1>6, <2>3, <3>1, <4>2 DEF RepsTyped, TextInv
    <3>2. CASE k = "w"
      <4>1. data'[i] = [data[i] EXCEPT !.w = new]
        BY <1>1, <1>6, <2>1, <3>2
      <4>2. data'[i].w = new /\ data'[i].b = data[i].b
        BY <1>6, <4>1 DEF IsData
      <4> QED BY <1>6, <2>3, <3>2, <4>2 DEF RepsTyped, TextInv
    <3> QED BY <3>1, <3>2
  <2>5. \A g \in Places : data'[g] # Free => RepsTyped(data'[g], buf', MaxLen)
    BY <2>1, <2>2, <2>4 DEF TextInv
  <2>6. \A x \in Blobs : Fits(buf'[d'[x]].s, x \in WideBlobs, MaxLen)
    BY <1>5, <2>1 DEF TextInv
  <2>7. \A g \in Strs : pend'[g] # Idle => Fits(buf'[pend'[g].new].s, pend'[g].k = "w", MaxLen)
    BY <1>7, <2>1 DEF TextInv, Handles
  <2> QED BY <1>8, <2>5, <2>6, <2>7 DEF TextInv
<1>10. CASE data[i][k] # NoRep
  <2>1. /\ data' = data
        /\ \A g \in Places : data[g] # Free => SameText(buf, buf', data[g])
        /\ \A g \in Strs : pend'[g] # Idle => pend'[g] = pend[g] /\ buf'[pend[g].new].s = buf[pend[g].new].s
        /\ \A x \in Blobs : buf'[d[x]].s = buf[d[x]].s
    BY <1>2, <1>4, <1>10, StoreLate
  <2>2. \A g \in Places : data'[g] # Free => RepsTyped(data'[g], buf', MaxLen)
    BY <2>1, HeldTyped DEF TextInv
  <2>3. \A x \in Blobs : Fits(buf'[d'[x]].s, x \in WideBlobs, MaxLen)
    BY <1>5, <2>1 DEF TextInv
  <2>4. \A g \in Strs : pend'[g] # Idle => Fits(buf'[pend'[g].new].s, pend'[g].k = "w", MaxLen)
    BY <2>1 DEF TextInv
  <2> QED BY <1>8, <2>2, <2>3, <2>4 DEF TextInv
<1> QED BY <1>9, <1>10

-----------------------------------------------------------------------------
(* The loop of replace().                                                  *)

\* A round: the next needle behind the position is replaced.
Round(r, what, rep) ==
    LET p == IF r[2] = None THEN None ELSE Find(r[1], what, r[2])
    IN  IF p = None THEN <<r[1], None>>
        ELSE <<Left(r[1], p) \o rep \o MidFrom(r[1], p + Len(what)), p + Len(rep)>>
Rounds(st, s, what, rep, n) ==
    /\ st = [i \in 0..n |-> st[i]] /\ st[0] = <<s, 0>>
    /\ \A i \in 1..n : st[i] = Round(st[i - 1], what, rep)

\* There are as many rounds as one likes.
LEMMA RoundsExist ==
  ASSUME NEW s, NEW what, NEW rep, NEW n \in Nat
  PROVE  \E st : Rounds(st, s, what, rep, n)
<1> DEFINE F == {k \in Nat : ~\E st : Rounds(st, s, what, rep, k)}
<1> SUFFICES ASSUME F # {} PROVE FALSE
  OBVIOUS
<1>1. F \in SUBSET Nat
  OBVIOUS
<1>2. PICK k \in F : \A j \in F : k <= j
  BY <1>1, Smallest
<1>3. k \in Nat /\ ~\E st : Rounds(st, s, what, rep, k)
  BY <1>2
<1>4. CASE k = 0
  <2>1. PICK st : st = [i \in 0..0 |-> <<s, 0>>]
    OBVIOUS
  <2>2. 0 \in 0..0 /\ 1..0 = {}
    OBVIOUS
  <2>3. Rounds(st, s, what, rep, 0)
    BY <2>1, <2>2 DEF Rounds
  <2> QED BY <1>3, <1>4, <2>3
<1>5. CASE k # 0
  <2>1. PICK j \in Nat : k = j + 1
    <3>1. k - 1 \in Nat /\ k = (k - 1) + 1
      BY <1>3, <1>5
    <3> QED BY <3>1
  <2>2. j \notin F
    BY <1>2, <2>1
  <2>3. PICK st : Rounds(st, s, what, rep, j)
    BY <2>2
  <2>4. PICK et : et = [i \in 0..k |-> IF i = k THEN Round(st[j], what, rep) ELSE st[i]]
    OBVIOUS
  <2>5. et = [i \in 0..k |-> et[i]] /\ et[0] = <<s, 0>>
    BY <1>3, <1>5, <2>3, <2>4 DEF Rounds
  <2>6. ASSUME NEW i \in 1..k PROVE et[i] = Round(et[i - 1], what, rep)
    <3>1. i \in 0..k /\ i - 1 \in 0..k /\ i - 1 # k /\ et[i - 1] = st[i - 1]
      BY <1>3, <2>4
    <3>2. CASE i = k
      <4>1. i - 1 = j
        BY <2>1, <3>2
      <4> QED BY <2>4, <3>1, <3>2, <4>1
    <3>3. CASE i # k
      <4>1. i \in 1..j
        BY <2>1, <3>3
      <4> QED BY <2>3, <2>4, <3>1, <3>3, <4>1 DEF Rounds
    <3> QED BY <3>2, <3>3
  <2>7. Rounds(et, s, what, rep, k)
    BY <2>5, <2>6 DEF Rounds
  <2> QED BY <1>3, <2>7
<1> QED BY <1>4, <1>5

\* replace() is the text after as many rounds as the text has characters.
LEMMA ReplaceRounds ==
  ASSUME NEW s, Len(s) \in Nat, NEW what, NEW rep
  PROVE  \E st : Rounds(st, s, what, rep, Len(s)) /\ ReplaceFrom(s, what, rep) = st[Len(s)][1]
<1> DEFINE step[i \in 0..Len(s)] ==
             IF i = 0 THEN <<s, 0>>
             ELSE LET r == step[i - 1] IN
                  LET p == IF r[2] = None THEN None ELSE Find(r[1], what, r[2])
                  IN  IF p = None THEN <<r[1], None>>
                      ELSE <<Left(r[1], p) \o rep \o MidFrom(r[1], p + Len(what)), p + Len(rep)>>
<1>1. ReplaceFrom(s, what, rep) = step[Len(s)][1]
  BY DEF ReplaceFrom
<1> DEFINE Body(f) == [i \in 0..Len(s) |->
             IF i = 0 THEN <<s, 0>>
             ELSE LET r == f[i - 1] IN
                  LET p == IF r[2] = None THEN None ELSE Find(r[1], what, r[2])
                  IN  IF p = None THEN <<r[1], None>>
                      ELSE <<Left(r[1], p) \o rep \o MidFrom(r[1], p + Len(what)), p + Len(rep)>>]
<1>2. step = CHOOSE f : f = Body(f)
  OBVIOUS
<1> HIDE DEF step
<1>3. \A f : Body(f) = [i \in 0..Len(s) |-> IF i = 0 THEN <<s, 0>> ELSE Round(f[i - 1], what, rep)]
  BY DEF Round
<1> HIDE DEF Body
<1>4. PICK st : Rounds(st, s, what, rep, Len(s))
  BY RoundsExist
<1>5. st = Body(st)
  <2>1. /\ st = [i \in 0..Len(s) |-> st[i]] /\ st[0] = <<s, 0>>
        /\ \A i \in 1..Len(s) : st[i] = Round(st[i - 1], what, rep)
    BY <1>4 DEF Rounds
  <2>2. \A i \in 0..Len(s) : i = 0 \/ i \in 1..Len(s)
    OBVIOUS
  <2>3. \A i \in 0..Len(s) : st[i] = IF i = 0 THEN <<s, 0>> ELSE Round(st[i - 1], what, rep)
    BY <2>1, <2>2
  <2>4. st = [i \in 0..Len(s) |-> IF i = 0 THEN <<s, 0>> ELSE Round(st[i - 1], what, rep)]
    BY <2>1, <2>3
  <2> QED BY <1>3, <2>4
<1>6. step = Body(step)
  BY <1>2, <1>5
<1>7. step = [i \in 0..Len(s) |-> IF i = 0 THEN <<s, 0>> ELSE Round(step[i - 1], what, rep)]
  BY <1>3, <1>6
<1>8. Rounds(step, s, what, rep, Len(s))
  <2>1. step = [i \in 0..Len(s) |-> step[i]]
    BY <1>7
  <2>2. 0 \in 0..Len(s) /\ \A i \in 1..Len(s) : i \in 0..Len(s) /\ i # 0
    OBVIOUS
  <2>3. step[0] = <<s, 0>>
    BY <1>7, <2>2
  <2>4. \A i \in 1..Len(s) : step[i] = Round(step[i - 1], what, rep)
    BY <1>7, <2>2
  <2> QED BY <2>1, <2>3, <2>4 DEF Rounds
<1> QED BY <1>1, <1>8

\* find() returns a position, or none.
LEMMA FindType ==
  ASSUME NEW s, Len(s) \in Nat, NEW t, Len(t) \in Nat, NEW q \in Nat
  PROVE  Find(s, t, q) = None \/ Find(s, t, q) \in q..(Len(s) - Len(t))
<1> DEFINE hits == {p \in Starts(s, t, q) : At(s, p) = At(t, 0) /\ MatchAt(s, t, p)}
<1>1. Find(s, t, q) = IF hits = {} THEN None ELSE Min(hits)
  BY DEF Find
<1>2. Starts(s, t, q) \in SUBSET Nat
  BY DEF Starts
<1>3. hits \in SUBSET Nat /\ hits \in SUBSET (q..(Len(s) - Len(t)))
  BY <1>2 DEF Starts
<1> HIDE DEF hits
<1>4. hits # {} => Min(hits) \in hits
  BY <1>3, MinIs
<1> QED BY <1>1, <1>3, <1>4

\* What a round makes of a text is a text.
RoundOf(r, A) == \E t \in Seq(A), q \in Nat \cup {None} : r = <<t, q>>
LEMMA RoundTyped ==
  ASSUME NEW A, NEW r, RoundOf(r, A), NEW what \in Seq(A), NEW rep \in Seq(A)
  PROVE  RoundOf(Round(r, what, rep), A)
<1>1. PICK t \in Seq(A), q \in Nat \cup {None} : r = <<t, q>>
  BY DEF RoundOf
<1>2. r[1] = t /\ r[2] = q
  BY <1>1
<1>3. PICK p : p = IF q = None THEN None ELSE Find(t, what, q)
  OBVIOUS
<1>4. Round(r, what, rep) = IF p = None THEN <<t, None>>
                            ELSE <<Left(t, p) \o rep \o MidFrom(t, p + Len(what)), p + Len(rep)>>
  BY <1>2, <1>3 DEF Round
<1>5. CASE p = None
  BY <1>4, <1>5 DEF RoundOf
<1>6. CASE p # None
  <2>1. p \in Nat /\ Len(what) \in Nat /\ Len(rep) \in Nat
    <3>1. q \in Nat /\ p = Find(t, what, q) /\ Len(t) \in Nat /\ Len(what) \in Nat
      BY <1>3, <1>6
    <3> QED BY <1>6, <3>1, FindType
  <2>2. p + Len(what) \in Nat /\ p + Len(rep) \in Nat
    BY <2>1
  <2>3. Left(t, p) \in Seq(A) /\ MidFrom(t, p + Len(what)) \in Seq(A)
    BY <2>1, <2>2, LeftIs, MidFromIs
  <2>4. Left(t, p) \o rep \o MidFrom(t, p + Len(what)) \in Seq(A)
    BY <2>3
  <2> QED BY <1>4, <1>6, <2>2, <2>4 DEF RoundOf
<1> QED BY <1>5, <1>6

\* replace() makes a text of the characters of its arguments.
LEMMA ReplaceTyped ==
  ASSUME NEW A, NEW s \in Seq(A), NEW what \in Seq(A), NEW rep \in Seq(A)
  PROVE  Replace(s, what, rep) \in Seq(A)
<1>1. Len(s) \in Nat
  OBVIOUS
<1>2. PICK st : Rounds(st, s, what, rep, Len(s)) /\ ReplaceFrom(s, what, rep) = st[Len(s)][1]
  BY <1>1, ReplaceRounds
<1> DEFINE F == {k \in 0..Len(s) : ~RoundOf(st[k], A)}
<1>3. F = {}
  <2> SUFFICES ASSUME F # {} PROVE FALSE
    OBVIOUS
  <2>1. F \in SUBSET Nat
    OBVIOUS
  <2>2. PICK k \in F : \A j \in F : k <= j
    BY <2>1, Smallest
  <2>3. k \in 0..Len(s) /\ ~RoundOf(st[k], A)
    BY <2>2
  <2>4. k # 0
    <3>1. st[0] = <<s, 0>> /\ 0 \in Nat \cup {None}
      BY <1>2 DEF Rounds
    <3>2. RoundOf(st[0], A)
      BY <3>1 DEF RoundOf
    <3> QED BY <2>3, <3>2
  <2>5. k \in 1..Len(s) /\ k - 1 \in 0..Len(s) /\ k - 1 \notin F
    BY <1>1, <2>2, <2>3, <2>4
  <2>6. RoundOf(st[k - 1], A)
    BY <2>5
  <2>7. st[k] = Round(st[k - 1], what, rep)
    BY <1>2, <2>5 DEF Rounds
  <2>8. RoundOf(st[k], A)
    BY <2>6, <2>7, RoundTyped
  <2> QED BY <2>3, <2>8
<1>4. RoundOf(st[Len(s)], A)
  <2>1. Len(s) \in 0..Len(s)
    BY <1>1
  <2> QED BY <1>3, <2>1
<1>5. st[Len(s)][1] \in Seq(A)
  BY <1>4 DEF RoundOf
<1> QED BY <1>2, <1>5 DEF Replace

-----------------------------------------------------------------------------
(* The text each step makes.                                               *)

\* The literals of a program: what they are and what the abstract specification knows of
\* them.
LEMMA LitsKnown ==
  ASSUME AsciiPrograms, IInv
  PROVE  /\ \A l \in AsciiLits : /\ ByteText(l) /\ Fold(l) = l /\ l \in AllLits
                                 /\ ByteText(Reverse(l)) /\ Fold(Reverse(l)) = Reverse(l) /\ Reverse(l) \in AllLits
         /\ \A l \in WideLits : WideText(l) /\ Fold(l) \in AllLits
         /\ \A l \in AllLits : Seen(l)
<1>1. prog \in Programs
  BY DEF IInv, CountInv, TypeOK
<1> DEFINE T == Seq(Alphabet \ WideOnly)  U == Seq(Alphabet)
<1>6. prog.ascii \subseteq T /\ prog.wide \subseteq U
  BY <1>1 DEF AsciiPrograms
<1> HIDE DEF T, U
<1>7. \A l \in prog.ascii \cup prog.wide : l \in Literals
  BY <1>1 DEF Literals
<1>2. \A l \in AsciiLits : l \in Literals /\ ByteText(l)
  BY <1>6, <1>7 DEF AsciiLits, ByteText, T
<1>3. \A l \in WideLits : l \in Literals /\ WideText(l)
  BY <1>6, <1>7 DEF WideLits, WideText, U
<1>4. \A l \in Literals : Fold(l) \in AllLits /\ Reverse(Fold(l)) \in AllLits
  BY DEF AllLits
<1>5. ASSUME NEW l \in AsciiLits
      PROVE  /\ ByteText(l) /\ Fold(l) = l /\ l \in AllLits
             /\ ByteText(Reverse(l)) /\ Fold(Reverse(l)) = Reverse(l) /\ Reverse(l) \in AllLits
  <2>1. ByteText(l) /\ Fold(l) = l
    BY <1>2, FoldBytes
  <2>2. l \in AllLits /\ Reverse(l) \in AllLits
    BY <1>2, <1>4, <2>1
  <2>3. PICK A : A = Alphabet \ WideOnly
    OBVIOUS
  <2>4. l \in Seq(A) /\ Len(l) \in Nat
    BY <2>1, <2>3 DEF ByteText
  <2>5. \A i \in 1..Len(l) : (Len(l) - i) + 1 \in 1..Len(l)
    BY <2>4
  <2>6. Reverse(l) = [i \in 1..Len(l) |-> l[(Len(l) - i) + 1]]
    BY DEF Reverse
  <2>7. Reverse(l) \in Seq(A)
    BY <2>4, <2>5, <2>6
  <2>8. ByteText(Reverse(l))
    BY <2>3, <2>7 DEF ByteText
  <2> QED BY <2>1, <2>2, <2>8, FoldBytes
<1> QED BY <1>3, <1>4, <1>5 DEF Seen

\* The longest text of a program is not longer than the longest of all.
LEMMA Limits ==
  ASSUME AsciiPrograms, IInv
  PROVE  MaxLen \in Nat /\ Longest \in Nat /\ MaxLen <= Longest
<1>1. prog \in Programs
  BY DEF IInv, CountInv, TypeOK
<1>2. PICK M : M = {p.max : p \in Programs}
  OBVIOUS
<1>3. MaxLen \in M /\ M \subseteq Nat
  BY <1>1, <1>2 DEF MaxLen, AsciiPrograms
<1>4. \E m \in M : \A k \in M : m >= k
  <2>1. PICK q \in Programs : \A p \in Programs : p.max <= q.max
    BY DEF AsciiPrograms
  <2>2. q.max \in M /\ \A k \in M : k <= q.max
    BY <1>2, <2>1
  <2> QED BY <1>3, <2>2
<1>5. Longest = CHOOSE m \in M : \A k \in M : m >= k
  BY <1>2 DEF Longest, Max
<1>6. Longest \in M /\ \A k \in M : Longest >= k
  BY <1>4, <1>5
<1> QED BY <1>3, <1>6

\* The text of a String, in each representation it has.
LEMMA StrTexts ==
  ASSUME AsciiPrograms, IInv, TextInv, NEW h \in Strs
  PROVE  /\ Val(h) = [null |-> d[h] = Null, s |-> Fold(Chars(d[h]))]
         /\ HasB(d[h]) \/ HasW(d[h])
         /\ HasB(d[h]) => ByteText(Bytes(d[h])) /\ Len(Bytes(d[h])) <= MaxLen /\ Val(h).s = Fold(Bytes(d[h]))
         /\ HasW(d[h]) => WideText(Wides(d[h])) /\ Len(Wides(d[h])) <= MaxLen /\ Val(h).s = Fold(Wides(d[h]))
<1>1. Val(h) = [null |-> d[h] = Null, s |-> Fold(Chars(d[h]))]
  BY DEF Val
<1>2. d[h] \in Places /\ data[d[h]] # Free
  BY Alive
<1>3. RepsTyped(data[d[h]], buf, MaxLen) /\ DataSound(d[h], data[d[h]], buf)
  BY <1>2 DEF TextInv, IInv, TextsSound
<1>4. HasB(d[h]) \/ HasW(d[h])
  BY <1>3 DEF DataSound, HasB, HasW
<1>5. Val(h).s = Fold(Chars(d[h]))
  BY <1>1
<1>6. HasB(d[h]) => ByteText(Bytes(d[h])) /\ Len(Bytes(d[h])) <= MaxLen /\ Val(h).s = Fold(Bytes(d[h]))
  BY <1>3, <1>5 DEF RepsTyped, Fits, IsText, HasB, Bytes, Chars
<1>7. HasW(d[h]) => WideText(Wides(d[h])) /\ Len(Wides(d[h])) <= MaxLen /\ Val(h).s = Fold(Wides(d[h]))
  BY <1>3, <1>5 DEF RepsTyped, Fits, IsText, HasB, HasW, Wides, Bytes, Chars, DataSound
<1> QED BY <1>1, <1>4, <1>6, <1>7

\* The text of a blob.
LEMMA BlobText ==
  ASSUME AsciiPrograms, TextInv, NEW x \in Blobs
  PROVE  /\ Val(x) = [null |-> d[x] = Null, s |-> Fold(buf[d[x]].s)] /\ Val(x).s = Fold(buf[d[x]].s)
         /\ IsText(buf[d[x]].s, x \in WideBlobs) /\ Len(buf[d[x]].s) <= MaxLen /\ WideText(buf[d[x]].s)
<1>1. x \notin Strs
  BY Constants
<1>2. Val(x) = [null |-> d[x] = Null, s |-> Fold(buf[d[x]].s)]
  BY <1>1 DEF Val
<1>3. IsText(buf[d[x]].s, x \in WideBlobs) /\ Len(buf[d[x]].s) <= MaxLen
  BY DEF TextInv, Fits
<1>4. WideText(buf[d[x]].s)
  BY <1>3, FoldBytes DEF IsText
<1> QED BY <1>2, <1>3, <1>4

\* A blob with a buffer of its own has the text written into it.
LEMMA OwnTexts ==
  ASSUME IInv, TextInv, NEW x \in Blobs, NEW s, NEW al, OwnBuf(x, s, al), IsText(s, x \in WideBlobs)
  PROVE  TextInv' /\ Val(x)' = ValText(Fold(s))
<1>1. OthersKept(x, buf') /\ buf'[d'[x]].s = s /\ d'[x] # Null
  BY OwnBufStep
<1>2. /\ Len(s) <= MaxLen /\ prog' = prog /\ data' = data /\ pend' = pend
      /\ \E i : d' = [d EXCEPT ![x] = i]
  BY DEF OwnBuf
<1>3. \A y \in Blobs \ {x} : d'[y] = d[y]
  BY <1>2 DEF IInv, CountInv, TypeOK, Handles
<1>4. Fits(buf'[d'[x]].s, x \in WideBlobs, MaxLen)
  BY <1>1, <1>2 DEF Fits
<1>5. TextInv' /\ Val(x)' = [null |-> d'[x] = Null, s |-> Fold(buf'[d'[x]].s)]
  BY <1>1, <1>2, <1>3, <1>4, BlobTyped
<1> QED BY <1>1, <1>5 DEF ValText

\* The same for one that has nobody beside it to share its buffer.
LEMMA InPlaceTexts ==
  ASSUME IInv, TextInv, NEW x \in Blobs, NEW s, NEW hash, InPlace(x, s, hash), buf[d[x]].rc = 0,
         IsText(s, x \in WideBlobs)
  PROVE  TextInv' /\ Val(x)' = ValText(Fold(s))
<1>1. OthersKept(x, buf') /\ d' = d /\ buf'[d[x]].s = s
  BY InPlaceStep
<1>2. Len(s) <= MaxLen /\ prog' = prog /\ data' = data /\ pend' = pend
  BY DEF InPlace
<1>3. Fits(buf'[d'[x]].s, x \in WideBlobs, MaxLen)
  BY <1>1, <1>2 DEF Fits
<1>4. TextInv' /\ Val(x)' = [null |-> d'[x] = Null, s |-> Fold(buf'[d'[x]].s)]
  BY <1>1, <1>2, <1>3, BlobTyped
<1>5. d[x] # Null
  <2>1. PICK n : n = BufCount(d, data, pend)
    OBVIOUS
  <2>2. Exact(buf, n) /\ DOMAIN data = Places
    BY <2>1 DEF IInv, CountInv, Counted, TypeOK, DataHeap
  <2>3. Null \in Static /\ Null \in Places /\ n[Null] >= 2 /\ n \in [Places -> Nat]
    BY <2>1, <2>2, OwnedCounts, CountTypes, Constants DEF Static
  <2>4. buf[Null].rc + 1 = n[Null]
    BY <2>2, <2>3, CountedLive
  <2> QED BY <2>3, <2>4
<1> QED BY <1>1, <1>4, <1>5 DEF ValText

\* A blob that shares a buffer has its text.
LEMMA ShareBufTexts ==
  ASSUME IInv, TextInv, NEW x \in Blobs, NEW i \in Places, buf[i] # Free, ShareBuf(x, i),
         Fits(buf[i].s, x \in WideBlobs, MaxLen)
  PROVE  TextInv' /\ Val(x)' = [null |-> i = Null, s |-> Fold(buf[i].s)]
<1>1. OthersKept(x, buf') /\ d'[x] = i /\ buf'[i].s = buf[i].s
  BY ShareBufStep
<1>2. prog' = prog /\ data' = data /\ pend' = pend /\ d' = [d EXCEPT ![x] = i]
  BY DEF ShareBuf
<1>3. \A y \in Blobs \ {x} : d'[y] = d[y]
  BY <1>2 DEF IInv, CountInv, TypeOK, Handles
<1>4. Fits(buf'[d'[x]].s, x \in WideBlobs, MaxLen)
  BY <1>1
<1>5. TextInv' /\ Val(x)' = [null |-> d'[x] = Null, s |-> Fold(buf'[d'[x]].s)]
  BY <1>1, <1>2, <1>3, <1>4, BlobTyped
<1> QED BY <1>1, <1>5

\* The hash of a blob does not change its text.
LEMMA HashBlobTexts ==
  ASSUME IInv, TextInv, NEW x \in Blobs, HashBlob(x)
  PROVE  TextInv'
<1>1. PICK hash : InPlace(x, buf[d[x]].s, hash)
  BY DEF HashBlob
<1>2. OthersKept(x, buf') /\ d' = d /\ buf'[d[x]].s = buf[d[x]].s
  BY <1>1, InPlaceStep
<1>3. prog' = prog /\ data' = data /\ pend' = pend
  BY <1>1 DEF InPlace
<1>4. Fits(buf'[d'[x]].s, x \in WideBlobs, MaxLen)
  BY <1>2 DEF TextInv
<1> QED BY <1>2, <1>3, <1>4, BlobTyped

\* A blob with a new text: the empty buffer, or one of its own.
LEMMA CreateTexts ==
  ASSUME IInv, TextInv, NEW x \in Blobs, NEW s, Create(x, s), IsText(s, x \in WideBlobs), MaxLen \in Nat
  PROVE  TextInv' /\ Val(x)' = ValText(Fold(s))
<1>1. CASE s = <<>>
  <2>1. ShareBuf(x, Zero)
    BY <1>1 DEF Create
  <2>2. Zero \in Places /\ Zero # Null /\ buf[Zero] # Free /\ buf[Zero].s = <<>>
    BY Alive, Constants DEF IInv, StaticsSound, Static
  <2>3. Fits(buf[Zero].s, x \in WideBlobs, MaxLen)
    BY <1>1, <2>2 DEF Fits
  <2>4. TextInv' /\ Val(x)' = [null |-> Zero = Null, s |-> Fold(buf[Zero].s)]
    BY <2>1, <2>2, <2>3, ShareBufTexts
  <2> QED BY <1>1, <2>2, <2>4 DEF ValText
<1>2. CASE s # <<>>
  <2>1. OwnBuf(x, s, Len(s) + 1)
    BY <1>2 DEF Create
  <2> QED BY <2>1, OwnTexts
<1> QED BY <1>1, <1>2

\* lock(), the writes, unlock(); and append().
LEMMA WriteTexts ==
  ASSUME IInv, TextInv, NEW x \in Blobs, NEW s, NEW room, NEW forget, Write(x, s, room, forget),
         IsText(s, x \in WideBlobs)
  PROVE  TextInv' /\ Val(x)' = ValText(Fold(s))
<1>1. CASE MustCopy(buf[d[x]], room)
  <2>1. OwnBuf(x, s, room + 1)
    BY <1>1 DEF Write
  <2> QED BY <2>1, OwnTexts
<1>2. CASE ~MustCopy(buf[d[x]], room)
  <2>1. PICK hash : InPlace(x, s, hash)
    BY <1>2 DEF Write
  <2> QED BY <1>2, <2>1, OwnOrAlone, InPlaceTexts
<1> QED BY <1>1, <1>2

\* The same for append().
LEMMA ExtendTexts ==
  ASSUME IInv, TextInv, NEW x \in Blobs, NEW t, Extend(x, t), IsText(buf[d[x]].s \o t, x \in WideBlobs)
  PROVE  TextInv' /\ Val(x)' = ValText(Fold(buf[d[x]].s \o t))
<1>1. PICK n : \/ MustCopy(buf[d[x]], n) /\ OwnBuf(x, buf[d[x]].s \o t, n + 1)
               \/ ~MustCopy(buf[d[x]], n) /\ InPlace(x, buf[d[x]].s \o t, buf[d[x]].hash)
  BY DEF Extend
<1> QED BY <1>1, OwnTexts, OwnOrAlone, InPlaceTexts

\* The empty text, and texts put together.
LEMMA EmptyFold == Fold(<<>>) = <<>> /\ ByteText(<<>>) /\ WideText(<<>>)
<1>1. Fold(<<>>) = [i \in DOMAIN <<>> |-> Mark(<<>>[i])]
  BY FoldIs
<1> QED BY <1>1 DEF ByteText, WideText

\* Two byte texts.
LEMMA JoinTyped ==
  ASSUME NEW s, NEW t, NEW isWide \in BOOLEAN, IsText(s, isWide), IsText(t, isWide)
  PROVE  IsText(s \o t, isWide)
<1> DEFINE A == IF isWide THEN Alphabet ELSE Alphabet \ WideOnly
<1>1. \A u : IsText(u, isWide) <=> u \in Seq(A)
  BY DEF IsText, ByteText, WideText
<1> HIDE DEF A
<1>2. s \in Seq(A) /\ t \in Seq(A)
  BY <1>1
<1>3. s \o t \in Seq(A)
  BY <1>2
<1> QED BY <1>1, <1>3

\* insert().
LEMMA InsertTyped ==
  ASSUME NEW A, NEW s \in Seq(A), NEW pos \in Int, NEW t \in Seq(A)
  PROVE  Insert(s, pos, t) \in Seq(A)
<1>1. Len(s) \in Nat /\ Len(s) + pos \in Int /\ 0 \in Int
  OBVIOUS
<1>2. PICK p \in Nat : p = IF pos < 0 THEN Max({Len(s) + pos, 0}) ELSE pos
  <2>1. Max({Len(s) + pos, 0}) = IF Len(s) + pos >= 0 THEN Len(s) + pos ELSE 0
    BY <1>1, MinMaxTwo
  <2> QED BY <1>1, <2>1
<1>3. Insert(s, pos, t) = IF p > Len(s) THEN Append2(s, t) ELSE Append2(Append2(Left(s, p), t), MidFrom(s, p))
  BY <1>2 DEF Insert
<1>4. \A u, v \in Seq(A) : Append2(u, v) \in Seq(A)
  BY DEF Append2
<1>5. Left(s, p) \in Seq(A) /\ MidFrom(s, p) \in Seq(A)
  BY LeftIs, MidFromIs
<1> QED BY <1>3, <1>4, <1>5

\* A part, and a text written over the start of another one.
LEMMA PartTyped ==
  ASSUME NEW s, NEW isWide \in BOOLEAN, IsText(s, isWide), NEW p \in Nat, NEW n \in Nat
  PROVE  IsText(Mid(s, p, n), isWide) /\ IsText(MidFrom(s, p), isWide) /\ IsText(RemoveMid(s, p, n), isWide)
<1> DEFINE A == IF isWide THEN Alphabet ELSE Alphabet \ WideOnly
<1>1. \A u : IsText(u, isWide) <=> u \in Seq(A)
  BY DEF IsText, ByteText, WideText
<1> HIDE DEF A
<1>2. s \in Seq(A) /\ Len(s) \in Nat
  BY <1>1
<1>3. \A q, m \in Nat : Mid(s, q, m) \in Seq(A) /\ MidFrom(s, q) \in Seq(A) /\ Left(s, q) \in Seq(A)
  BY <1>2, MidIs, MidFromIs, LeftIs
<1>4. PICK q \in Nat : q = Min({p, Len(s)}) /\ q <= Len(s)
  <2>1. Min({p, Len(s)}) = IF p <= Len(s) THEN p ELSE Len(s)
    BY <1>2, MinMaxTwo
  <2> QED BY <1>2, <2>1
<1>5. PICK m \in Nat : m = q + Min({n, Len(s) - q})
  <2>1. Min({n, Len(s) - q}) = IF n <= Len(s) - q THEN n ELSE Len(s) - q
    BY <1>2, MinMaxTwo
  <2> QED BY <1>2, <1>4, <2>1
<1>6. RemoveMid(s, p, n) = Left(s, q) \o MidFrom(s, m)
  BY <1>4, <1>5 DEF RemoveMid
<1>7. Mid(s, p, n) \in Seq(A) /\ MidFrom(s, p) \in Seq(A) /\ RemoveMid(s, p, n) \in Seq(A)
  <2>1. Left(s, q) \in Seq(A) /\ MidFrom(s, m) \in Seq(A)
    BY <1>3
  <2> QED BY <1>3, <1>6, <2>1
<1> QED BY <1>1, <1>7

\* A step that changes nothing.
LEMMA StutterTexts ==
  ASSUME TextInv, UNCHANGED vars
  PROVE  TextInv'
<1>1. data' = data /\ buf' = buf /\ d' = d /\ pend' = pend /\ MaxLen' = MaxLen
  BY DEF vars, MaxLen
<1> QED BY <1>1 DEF TextInv

\* append() to a String: the text of the other String or a literal is behind its own.
LEMMA JoinMade ==
  ASSUME AsciiPrograms, IInv, TextInv, NEW h \in Strs, Alone(h), NEW t, NEW u, NEW isWide \in BOOLEAN,
         IsText(t, isWide), Val(h).s = Fold(t), IsText(u, isWide), Seen(Fold(u)), Become(h, t \o u, isWide)
  PROVE  TextInv' /\ Values!Made(h, Val(h)')
<1>1. IsText(t \o u, isWide)
  BY JoinTyped
<1>2. TextInv' /\ Val(h)' = ValText(Fold(t \o u))
  BY <1>1, BecomeTexts
<1>3. WideText(t) /\ WideText(u)
  BY FoldBytes DEF IsText
<1>4. Fold(t \o u) = Val(h).s \o Fold(u)
  BY <1>3, FoldJoin
<1>5. h \in Handles
  BY DEF Handles
<1>6. Values!Made(h, ValText(Val(h).s \o Fold(u)))
  BY <1>5, MadeBy
<1> QED BY <1>2, <1>4, <1>6

\* lock(), writes over the start, unlock().
LEMMA LockMade ==
  ASSUME AsciiPrograms, IInv, TextInv, NEW h \in Strs, Alone(h), NEW t, NEW l, NEW isWide \in BOOLEAN,
         IsText(t, isWide), Val(h).s = Fold(t), IsText(l, isWide), Seen(Fold(l)),
         Become(h, l \o MidFrom(t, Len(l)), isWide)
  PROVE  TextInv' /\ Values!Made(h, Val(h)')
<1>1. WideText(t) /\ WideText(l) /\ Len(l) \in Nat /\ Len(t) \in Nat
  BY FoldBytes DEF IsText, WideText
<1>2. IsText(MidFrom(t, Len(l)), isWide)
  BY <1>1, PartTyped
<1>3. TextInv' /\ Val(h)' = ValText(Fold(l \o MidFrom(t, Len(l))))
  BY <1>2, JoinTyped, BecomeTexts
<1>4. WideText(MidFrom(t, Len(l))) /\ Fold(MidFrom(t, Len(l))) = MidFrom(Fold(t), Len(l))
  <2>1. Len(Fold(t)) = Len(t)
    BY <1>1, FoldedText
  <2> QED BY <1>1, <2>1, FoldMid DEF MidFrom
<1>5. Len(Fold(l)) = Len(l)
  BY <1>1, FoldedText
<1>6. Fold(l \o MidFrom(t, Len(l))) = Fold(l) \o MidFrom(Val(h).s, Len(Fold(l)))
  <2>1. Fold(l \o MidFrom(t, Len(l))) = Fold(l) \o Fold(MidFrom(t, Len(l)))
    BY <1>1, <1>4, FoldJoin
  <2> QED BY <1>4, <1>5, <2>1
<1>7. h \in Handles
  BY DEF Handles
<1>8. Values!Made(h, ValText(Fold(l) \o MidFrom(Val(h).s, Len(Fold(l)))))
  BY <1>7, MadeBy
<1> QED BY <1>3, <1>6, <1>8

\* left(), right(), mid(), insert(), replace() of a String.
LEMMA EditMade ==
  ASSUME AsciiPrograms, IInv, TextInv, NEW h \in Strs, EditBytes(h)
  PROVE  TextInv' /\ Values!Made(h, Val(h)')
<1>1. Alone(h) /\ HasB(d[h]) /\ h \in Handles
  BY DEF EditBytes, Handles
<1>2. PICK s : s = Bytes(d[h])
  OBVIOUS
<1>3. ByteText(s) /\ Len(s) <= MaxLen /\ Val(h).s = s /\ WideText(s) /\ Len(s) \in Nat
  <2>1. ByteText(s) /\ Len(s) <= MaxLen /\ Val(h).s = Fold(s)
    BY <1>1, <1>2, StrTexts
  <2>2. Len(s) \in Nat
    BY <2>1 DEF ByteText
  <2> QED BY <2>1, <2>2, FoldBytes
<1>4. MaxLen \in Nat /\ Longest \in Nat /\ MaxLen <= Longest
  BY Limits
<1>5. PICK r \in ByteEdits(s) : Become(h, r, FALSE)
  BY <1>2 DEF EditBytes
<1>6. \/ \E p \in 0..Len(s), n \in 0..MaxLen : r = Mid(s, p, n)
      \/ \E p \in -1..MaxLen, l \in AsciiLits : r = Insert(s, p, l)
      \/ \E l \in AsciiLits, m \in AsciiLits \cup {<<>>} : r = Replace(s, l, m)
  BY <1>5 DEF ByteEdits
<1>7. ASSUME ByteText(r) PROVE TextInv' /\ Val(h)' = ValText(r)
  <2>1. IsText(r, FALSE) /\ Fold(r) = r
    BY <1>7, FoldBytes DEF IsText
  <2> QED BY <1>1, <1>5, <2>1, BecomeTexts
<1>8. CASE \E p \in 0..Len(s), n \in 0..MaxLen : r = Mid(s, p, n)
  <2>1. PICK p \in 0..Len(s), n \in 0..MaxLen : r = Mid(s, p, n)
    BY <1>8
  <2>2. p \in Nat /\ n \in Nat /\ p \in 0..Longest /\ n \in 0..Longest
    BY <1>3, <1>4
  <2>3. ByteText(r)
    BY <1>3, <2>1, <2>2, PartTyped DEF IsText
  <2>4. Values!Made(h, ValText(Mid(Val(h).s, p, n)))
    BY <1>1, <2>2, MadeBy
  <2> QED BY <1>3, <1>7, <2>1, <2>3, <2>4
<1>9. CASE \E p \in -1..MaxLen, l \in AsciiLits : r = Insert(s, p, l)
  <2>1. PICK p \in -1..MaxLen, l \in AsciiLits : r = Insert(s, p, l)
    BY <1>9
  <2>2. ByteText(l) /\ Seen(l)
    BY LitsKnown
  <2>3. p \in Int
    BY <1>4
  <2>4. ByteText(r)
    BY <1>3, <2>1, <2>2, <2>3, InsertTyped DEF ByteText
  <2>5. CASE p \in -Longest..Longest
    <3>1. Values!Made(h, ValText(Insert(Val(h).s, p, l)))
      BY <1>1, <2>2, <2>5, MadeBy
    <3> QED BY <1>3, <1>7, <2>1, <2>4, <3>1
  <2>6. CASE p \notin -Longest..Longest
    <3>1. MaxLen = 0
      BY <1>4, <2>6
    <3>2. Len(r) <= 0
      BY <1>5, <3>1 DEF Become
    <3>3. r = <<>>
      BY <2>4, <3>2 DEF ByteText
    <3>4. Values!Made(h, ValText(<<>>))
      BY <1>1, MadeBy
    <3> QED BY <1>7, <2>4, <3>3, <3>4
  <2> QED BY <2>5, <2>6
<1>10. CASE \E l \in AsciiLits, m \in AsciiLits \cup {<<>>} : r = Replace(s, l, m)
  <2>1. PICK l \in AsciiLits, m \in AsciiLits \cup {<<>>} : r = Replace(s, l, m)
    BY <1>10
  <2>2. ByteText(l) /\ l \in AllLits /\ ByteText(m) /\ m \in AllLits \cup {<<>>}
    BY LitsKnown, EmptyFold
  <2>3. ByteText(r)
    BY <1>3, <2>1, <2>2, ReplaceTyped DEF ByteText
  <2>4. Values!Made(h, ValText(Replace(Val(h).s, l, m)))
    BY <1>1, <2>2, MadeBy
  <2> QED BY <1>3, <1>7, <2>1, <2>3, <2>4
<1> QED BY <1>6, <1>8, <1>9, <1>10

\* The static Strings have the empty text.
LEMMA StaticMade ==
  ASSUME AsciiPrograms, IInv, TextInv, NEW h \in Strs, Alone(h), NEW i \in Static, ShareData(h, i)
  PROVE  TextInv' /\ Values!Made(h, Val(h)')
<1>1. i \in Places /\ data[i] # Free /\ i # NoRep
  BY Alive, Constants
<1>2. TextInv' /\ Val(h)' = [null |-> i = Null, s |-> Fold(Chars(i))]
  BY <1>1, ShareDataTexts
<1>3. Chars(i) = <<>>
  BY <1>1 DEF IInv, StaticsSound, Chars, HasB, Bytes
<1>4. h \in Handles
  BY DEF Handles
<1>5. Values!Made(h, [null |-> TRUE, s |-> <<>>]) /\ Values!Made(h, [null |-> FALSE, s |-> <<>>])
  <2>1. Values!Made(h, [null |-> TRUE, s |-> <<>>]) /\ Values!Made(h, ValText(<<>>))
    BY <1>4, MadeBy
  <2> QED BY <2>1 DEF ValText
<1>6. CASE i = Null
  <2>1. Val(h)' = [null |-> TRUE, s |-> <<>>]
    BY <1>2, <1>3, <1>6, EmptyFold
  <2> QED BY <1>2, <1>5, <2>1
<1>7. CASE i # Null
  <2>1. Val(h)' = [null |-> FALSE, s |-> <<>>]
    BY <1>2, <1>3, <1>7, EmptyFold
  <2> QED BY <1>2, <1>5, <2>1
<1> QED BY <1>6, <1>7

\* A String takes the text of another one.
LEMMA ShareMade ==
  ASSUME AsciiPrograms, IInv, TextInv, NEW h \in Strs, Alone(h), NEW g \in Strs, ShareData(h, d[g])
  PROVE  TextInv' /\ Values!Made(h, Val(h)')
<1>1. d[g] \in Places /\ data[d[g]] # Free
  BY Alive
<1>2. TextInv' /\ Val(h)' = [null |-> d[g] = Null, s |-> Fold(Chars(d[g]))]
  BY <1>1, ShareDataTexts
<1>3. Val(h)' = Val(g)
  BY <1>2, StrTexts
<1>4. h \in Handles /\ g \in Handles
  BY DEF Handles
<1>5. Values!Made(h, Val(g))
  BY <1>4, MadeBy
<1> QED BY <1>2, <1>3, <1>5

\* A String gets the text of a literal or of a blob.
LEMMA SetMade ==
  ASSUME AsciiPrograms, IInv, TextInv, NEW h \in Strs, Alone(h), NEW s, NEW isWide \in BOOLEAN,
         Become(h, s, isWide), IsText(s, isWide), Seen(Fold(s))
  PROVE  TextInv' /\ Values!Made(h, Val(h)')
<1>1. TextInv' /\ Val(h)' = ValText(Fold(s))
  BY BecomeTexts
<1>2. h \in Handles
  BY DEF Handles
<1>3. Values!Made(h, ValText(Fold(s)))
  BY <1>2, MadeBy
<1> QED BY <1>1, <1>3

\* What a handle shows has been seen.
LEMMA ValSeen ==
  ASSUME NEW g \in Handles
  PROVE  Seen(Val(g).s)
BY DEF Seen

\* Each operation of a String makes a text that it may make, or no new one.
LEMMA StringMakes ==
  ASSUME AsciiPrograms, IInv, TextInv, NEW h \in Strs, StringStep(h)
  PROVE  TextInv' /\ (AllSame \/ Values!Made(h, Val(h)'))
<1>1. CASE SetAscii(h)
  <2>1. PICK l \in AsciiLits : Become(h, l, FALSE) /\ Alone(h)
    BY <1>1 DEF SetAscii
  <2>2. IsText(l, FALSE) /\ Seen(Fold(l))
    BY LitsKnown DEF IsText
  <2> QED BY <2>1, <2>2, SetMade
<1>2. CASE SetWide(h)
  <2>1. PICK l \in WideLits : Become(h, l, TRUE) /\ Alone(h)
    BY <1>2 DEF SetWide
  <2>2. IsText(l, TRUE) /\ Seen(Fold(l))
    BY LitsKnown DEF IsText
  <2> QED BY <2>1, <2>2, SetMade
<1>3. CASE SetStatic(h)
  <2>1. PICK i \in Static : ShareData(h, i) /\ Alone(h)
    BY <1>3 DEF SetStatic
  <2> QED BY <2>1, StaticMade
<1>4. CASE Assign(h)
  <2>1. PICK g \in Strs : ShareData(h, d[g]) /\ Alone(h)
    BY <1>4 DEF Assign
  <2> QED BY <2>1, ShareMade
<1>5. CASE AppendStr(h)
  <2>1. PICK g \in Strs :
          LET t == d[h]  s == d[g] IN
          CASE Len(Chars(s)) = 0 -> UNCHANGED vars
            [] Len(Chars(s)) # 0 /\ Len(Chars(t)) = 0 -> ShareData(h, s)
            [] OTHER -> IF HasB(t) /\ HasB(s) THEN Become(h, Bytes(t) \o Bytes(s), FALSE)
                        ELSE HasW(t) /\ HasW(s) /\ Become(h, Wides(t) \o Wides(s), TRUE)
    BY <1>5 DEF AppendStr
  <2>2. Alone(h) /\ g \in Handles
    BY <1>5 DEF AppendStr, Handles
  <2>3. \/ UNCHANGED vars
        \/ ShareData(h, d[g])
        \/ HasB(d[h]) /\ HasB(d[g]) /\ Become(h, Bytes(d[h]) \o Bytes(d[g]), FALSE)
        \/ HasW(d[h]) /\ HasW(d[g]) /\ Become(h, Wides(d[h]) \o Wides(d[g]), TRUE)
    BY <2>1
  <2>4. CASE UNCHANGED vars
    BY <2>4, StutterStep, StutterTexts
  <2>5. CASE ShareData(h, d[g])
    BY <2>2, <2>5, ShareMade
  <2>6. CASE HasB(d[h]) /\ HasB(d[g]) /\ Become(h, Bytes(d[h]) \o Bytes(d[g]), FALSE)
    <3>1. IsText(Bytes(d[h]), FALSE) /\ Val(h).s = Fold(Bytes(d[h]))
      BY <2>6, StrTexts DEF IsText
    <3>2. IsText(Bytes(d[g]), FALSE) /\ Val(g).s = Fold(Bytes(d[g]))
      BY <2>6, StrTexts DEF IsText
    <3>3. Seen(Fold(Bytes(d[g])))
      BY <2>2, <3>2, ValSeen
    <3> QED BY <2>2, <2>6, <3>1, <3>2, <3>3, JoinMade
  <2>7. CASE HasW(d[h]) /\ HasW(d[g]) /\ Become(h, Wides(d[h]) \o Wides(d[g]), TRUE)
    <3>1. IsText(Wides(d[h]), TRUE) /\ Val(h).s = Fold(Wides(d[h]))
      BY <2>7, StrTexts DEF IsText
    <3>2. IsText(Wides(d[g]), TRUE) /\ Val(g).s = Fold(Wides(d[g]))
      BY <2>7, StrTexts DEF IsText
    <3>3. Seen(Fold(Wides(d[g])))
      BY <2>2, <3>2, ValSeen
    <3> QED BY <2>2, <2>7, <3>1, <3>2, <3>3, JoinMade
  <2> QED BY <2>3, <2>4, <2>5, <2>6, <2>7
<1>6. CASE AppendAscii(h)
  <2>1. PICK l \in AsciiLits : \E r \in {l, Reverse(l)} :
          IF HasB(d[h]) THEN Become(h, Bytes(d[h]) \o r, FALSE) ELSE Become(h, Wides(d[h]) \o r, TRUE)
    BY <1>6 DEF AppendAscii
  <2>2. PICK r \in {l, Reverse(l)} :
          IF HasB(d[h]) THEN Become(h, Bytes(d[h]) \o r, FALSE) ELSE Become(h, Wides(d[h]) \o r, TRUE)
    BY <2>1
  <2>3. Alone(h)
    BY <1>6 DEF AppendAscii
  <2>4. IsText(r, FALSE) /\ IsText(r, TRUE) /\ Seen(Fold(r))
    <3>1. ByteText(r) /\ Fold(r) = r /\ r \in AllLits
      BY <2>2, LitsKnown
    <3> QED BY <3>1, LitsKnown, FoldBytes DEF IsText
  <2>5. CASE HasB(d[h])
    <3>1. IsText(Bytes(d[h]), FALSE) /\ Val(h).s = Fold(Bytes(d[h]))
      BY <2>5, StrTexts DEF IsText
    <3> QED BY <2>2, <2>3, <2>4, <2>5, <3>1, JoinMade
  <2>6. CASE ~HasB(d[h])
    <3>1. IsText(Wides(d[h]), TRUE) /\ Val(h).s = Fold(Wides(d[h]))
      BY <2>6, StrTexts DEF IsText
    <3> QED BY <2>2, <2>3, <2>4, <2>6, <3>1, JoinMade
  <2> QED BY <2>5, <2>6
<1>7. CASE AppendWide(h)
  <2>1. PICK l \in WideLits : Alone(h) /\ HasW(d[h]) /\ Become(h, Wides(d[h]) \o l, TRUE)
    BY <1>7 DEF AppendWide
  <2>2. IsText(l, TRUE) /\ Seen(Fold(l))
    BY LitsKnown DEF IsText
  <2>3. IsText(Wides(d[h]), TRUE) /\ Val(h).s = Fold(Wides(d[h]))
    BY <2>1, StrTexts DEF IsText
  <2> QED BY <2>1, <2>2, <2>3, JoinMade
<1>8. CASE EditBytes(h)
  BY <1>8, EditMade
<1>9. CASE LockString(h)
  <2>1. Alone(h)
    BY <1>9 DEF LockString
  <2>2. \/ HasB(d[h]) /\ \E l \in AsciiLits : Become(h, l \o MidFrom(Bytes(d[h]), Len(l)), FALSE)
        \/ HasW(d[h]) /\ \E l \in WideLits : Become(h, l \o MidFrom(Wides(d[h]), Len(l)), TRUE)
    BY <1>9 DEF LockString
  <2>3. ASSUME HasB(d[h]), NEW l \in AsciiLits, Become(h, l \o MidFrom(Bytes(d[h]), Len(l)), FALSE)
        PROVE  TextInv' /\ Values!Made(h, Val(h)')
    <3>1. IsText(Bytes(d[h]), FALSE) /\ Val(h).s = Fold(Bytes(d[h]))
      BY <2>3, StrTexts DEF IsText
    <3>2. IsText(l, FALSE) /\ Seen(Fold(l))
      BY LitsKnown DEF IsText
    <3> QED BY <2>1, <2>3, <3>1, <3>2, LockMade
  <2>4. ASSUME HasW(d[h]), NEW l \in WideLits, Become(h, l \o MidFrom(Wides(d[h]), Len(l)), TRUE)
        PROVE  TextInv' /\ Values!Made(h, Val(h)')
    <3>1. IsText(Wides(d[h]), TRUE) /\ Val(h).s = Fold(Wides(d[h]))
      BY <2>4, StrTexts DEF IsText
    <3>2. IsText(l, TRUE) /\ Seen(Fold(l))
      BY LitsKnown DEF IsText
    <3> QED BY <2>1, <2>4, <3>1, <3>2, LockMade
  <2> QED BY <2>2, <2>3, <2>4
<1>10. CASE FromBlob(h)
  <2>1. PICK x \in Blobs : Alone(h) /\ Become(h, buf[d[x]].s, x \in WideBlobs)
    BY <1>10 DEF FromBlob
  <2>2. (x \in WideBlobs) \in BOOLEAN /\ x \in Handles
    BY DEF Handles
  <2>3. IsText(buf[d[x]].s, x \in WideBlobs) /\ Val(x).s = Fold(buf[d[x]].s)
    BY BlobText
  <2>4. Seen(Fold(buf[d[x]].s))
    BY <2>2, <2>3, ValSeen
  <2> QED BY <2>1, <2>2, <2>3, <2>4, SetMade
<1>11. CASE UpdateHash(h)
  BY <1>11, UpdateHashStep, UpdateHashTexts
<1>12. CASE Convert(h)
  BY <1>12, ConvertStep, ConvertTexts
<1>13. CASE Store(h)
  BY <1>13, StoreStep, StoreTexts
<1> QED BY <1>1, <1>2, <1>3, <1>4, <1>5, <1>6, <1>7, <1>8, <1>9, <1>10, <1>11, <1>12, <1>13 DEF StringStep

\* A blob shares the buffer of a blob of its kind.
LEMMA ShareBlobMade ==
  ASSUME AsciiPrograms, IInv, TextInv, NEW x \in Blobs, NEW y \in Blobs, y \in WideBlobs <=> x \in WideBlobs,
         ShareBuf(x, d[y])
  PROVE  TextInv' /\ Values!Made(x, Val(x)')
<1>1. d[y] \in Places /\ buf[d[y]] # Free
  BY Alive
<1>2. Fits(buf[d[y]].s, x \in WideBlobs, MaxLen)
  <2>1. Fits(buf[d[y]].s, y \in WideBlobs, MaxLen)
    BY DEF TextInv
  <2> QED BY <2>1 DEF Fits, IsText
<1>3. TextInv' /\ Val(x)' = [null |-> d[y] = Null, s |-> Fold(buf[d[y]].s)]
  BY <1>1, <1>2, ShareBufTexts
<1>4. Val(x)' = Val(y)
  BY <1>3, BlobText
<1>5. x \in Handles /\ y \in Handles
  BY DEF Handles
<1>6. Values!Made(x, Val(y))
  BY <1>5, MadeBy
<1> QED BY <1>3, <1>4, <1>6

\* ascii(), wide(): a representation of a String.
LEMMA TakeMade ==
  ASSUME AsciiPrograms, IInv, TextInv, NEW x \in Blobs, TakeRep(x)
  PROVE  TextInv' /\ Values!Made(x, Val(x)')
<1>1. PICK g \in Strs : LET rep == data[d[g]][IF x \in WideBlobs THEN "w" ELSE "b"]
                        IN  rep # NoRep /\ ShareBuf(x, rep)
  BY DEF TakeRep
<1>2. d[g] \in Places /\ data[d[g]] # Free /\ x \in Handles /\ g \in Handles
  BY Alive DEF Handles
<1>3. PICK j \in Places : /\ buf[j] # Free /\ ShareBuf(x, j) /\ Fits(buf[j].s, x \in WideBlobs, MaxLen)
                          /\ Val(g).s = Fold(buf[j].s)
  <2>1. RepsTyped(data[d[g]], buf, MaxLen)
    BY <1>2 DEF TextInv
  <2>2. CASE x \in WideBlobs
    <3>1. data[d[g]].w # NoRep /\ ShareBuf(x, data[d[g]].w)
      BY <1>1, <2>2
    <3>2. data[d[g]].w \in Places /\ buf[data[d[g]].w] # Free
      BY <1>2, <3>1, Alive
    <3>3. Val(g).s = Fold(buf[data[d[g]].w].s)
      BY <3>1, StrTexts DEF HasW, Wides
    <3> QED BY <2>1, <2>2, <3>1, <3>2, <3>3 DEF RepsTyped, Fits, IsText
  <2>3. CASE x \notin WideBlobs
    <3>1. data[d[g]].b # NoRep /\ ShareBuf(x, data[d[g]].b)
      BY <1>1, <2>3
    <3>2. data[d[g]].b \in Places /\ buf[data[d[g]].b] # Free
      BY <1>2, <3>1, Alive
    <3>3. Val(g).s = Fold(buf[data[d[g]].b].s)
      BY <3>1, StrTexts DEF HasB, Bytes
    <3> QED BY <2>1, <2>3, <3>1, <3>2, <3>3 DEF RepsTyped, Fits, IsText
  <2> QED BY <2>2, <2>3
<1>4. TextInv' /\ Val(x)' = [null |-> j = Null, s |-> Fold(buf[j].s)]
  BY <1>3, ShareBufTexts
<1>5. CASE j = Null
  <2>1. buf[j].s = <<>>
    BY <1>5, Constants DEF IInv, StaticsSound
  <2>2. Val(x)' = [null |-> TRUE, s |-> <<>>]
    BY <1>4, <1>5, <2>1, EmptyFold
  <2>3. Values!Made(x, [null |-> TRUE, s |-> <<>>])
    BY <1>2, MadeBy
  <2> QED BY <1>4, <2>2, <2>3
<1>6. CASE j # Null
  <2>1. Val(x)' = ValText(Val(g).s)
    BY <1>3, <1>4, <1>6 DEF ValText
  <2>2. Values!Made(x, ValText(Val(g).s))
    BY <1>2, ValSeen, MadeBy
  <2> QED BY <1>4, <2>1, <2>2
<1> QED BY <1>5, <1>6

\* The literals that a blob of either kind may get.
LEMMA BlobLits ==
  ASSUME AsciiPrograms, IInv, NEW x \in Blobs
  PROVE  \A l \in AsciiLits : /\ IsText(l, x \in WideBlobs) /\ Fold(l) = l /\ Seen(l) /\ WideText(l)
                              /\ IsText(Reverse(l), x \in WideBlobs) /\ Fold(Reverse(l)) = Reverse(l) /\ Seen(Reverse(l))
                              /\ WideText(Reverse(l))
<1> SUFFICES ASSUME NEW l \in AsciiLits
             PROVE  /\ IsText(l, x \in WideBlobs) /\ Fold(l) = l /\ Seen(l) /\ WideText(l)
                    /\ IsText(Reverse(l), x \in WideBlobs) /\ Fold(Reverse(l)) = Reverse(l) /\ Seen(Reverse(l))
                    /\ WideText(Reverse(l))
  OBVIOUS
<1>1. /\ ByteText(l) /\ Fold(l) = l /\ Seen(l)
      /\ ByteText(Reverse(l)) /\ Fold(Reverse(l)) = Reverse(l) /\ Seen(Reverse(l))
  BY LitsKnown
<1>2. WideText(l) /\ WideText(Reverse(l))
  BY <1>1, FoldBytes
<1> QED BY <1>1, <1>2 DEF IsText

\* What is written over or behind the text of a blob.
LEMMA BlobJoins ==
  ASSUME AsciiPrograms, TextInv, NEW x \in Blobs, NEW u, IsText(u, x \in WideBlobs), WideText(u), Seen(Fold(u))
  PROVE  LET s == buf[d[x]].s IN
         /\ IsText(s \o u, x \in WideBlobs) /\ Values!Made(x, ValText(Fold(s \o u)))
         /\ IsText(u \o MidFrom(s, Len(u)), x \in WideBlobs)
         /\ Values!Made(x, ValText(Fold(u \o MidFrom(s, Len(u)))))
         /\ Len(s \o u) = Len(s) + Len(u)
<1>1. PICK s : s = buf[d[x]].s
  OBVIOUS
<1>2. PICK wide \in BOOLEAN : wide = (x \in WideBlobs)
  <2>1. (x \in WideBlobs) \in BOOLEAN
    OBVIOUS
  <2> QED BY <2>1, Zenon
<1>3. IsText(s, wide) /\ WideText(s) /\ Val(x).s = Fold(s)
  BY <1>1, <1>2, BlobText
<1>4. IsText(u, wide)
  BY <1>2
<1>5. Len(u) \in Nat /\ Len(s) \in Nat
  BY <1>3 DEF WideText
<1>6. IsText(s \o u, wide)
  BY <1>3, <1>4, JoinTyped
<1>7. IsText(MidFrom(s, Len(u)), wide)
  BY <1>3, <1>5, PartTyped
<1>8. IsText(u \o MidFrom(s, Len(u)), wide)
  BY <1>4, <1>7, JoinTyped
<1>9. Fold(s \o u) = Val(x).s \o Fold(u) /\ Len(s \o u) = Len(s) + Len(u)
  BY <1>3, FoldJoin
<1>10. Len(Fold(u)) = Len(u) /\ Len(Fold(s)) = Len(s)
  BY <1>3, FoldedText
<1>11. WideText(MidFrom(s, Len(u))) /\ Fold(MidFrom(s, Len(u))) = MidFrom(Fold(s), Len(u))
  BY <1>3, <1>5, <1>10, FoldMid DEF MidFrom
<1>12. Fold(u \o MidFrom(s, Len(u))) = Fold(u) \o MidFrom(Val(x).s, Len(Fold(u)))
  <2>1. Fold(u \o MidFrom(s, Len(u))) = Fold(u) \o Fold(MidFrom(s, Len(u)))
    BY <1>11, FoldJoin
  <2> QED BY <1>3, <1>10, <1>11, <2>1
<1>13. x \in Handles
  BY DEF Handles
<1>14. /\ Values!Made(x, ValText(Val(x).s \o Fold(u)))
       /\ Values!Made(x, ValText(Fold(u) \o MidFrom(Val(x).s, Len(Fold(u)))))
  BY <1>13, MadeBy
<1> QED BY <1>1, <1>2, <1>6, <1>8, <1>9, <1>12, <1>14

\* lock(), lockKeep() and the writes.
LEMMA LockBlobMade ==
  ASSUME AsciiPrograms, IInv, TextInv, NEW x \in Blobs, LockBlob(x)
  PROVE  TextInv' /\ Values!Made(x, Val(x)')
<1>1. PICK s : s = buf[d[x]].s
  OBVIOUS
<1>2. PICK l \in AsciiLits :
        \/ \E room : Write(x, l, room, room # Len(l))
        \/ Write(x, l \o MidFrom(s, Len(l)), Max({Len(s), Len(l)}), FALSE)
        \/ Write(x, s \o l, Len(s) + Len(l), TRUE)
  BY <1>1 DEF LockBlob
<1>3. PICK u : /\ \E room, forget : Write(x, u, room, forget)
               /\ u \in {l, l \o MidFrom(s, Len(l)), s \o l}
  BY <1>2
<1>4. IsText(l, x \in WideBlobs) /\ Fold(l) = l /\ Seen(l) /\ WideText(l) /\ x \in Handles
  BY BlobLits DEF Handles
<1>5. Values!Made(x, ValText(Fold(l)))
  BY <1>4, MadeBy
<1>6. IsText(u, x \in WideBlobs) /\ Values!Made(x, ValText(Fold(u)))
  <2>1. /\ IsText(s \o l, x \in WideBlobs) /\ Values!Made(x, ValText(Fold(s \o l)))
        /\ IsText(l \o MidFrom(s, Len(l)), x \in WideBlobs)
        /\ Values!Made(x, ValText(Fold(l \o MidFrom(s, Len(l)))))
    BY <1>1, <1>4, BlobJoins
  <2> QED BY <1>3, <1>4, <1>5, <2>1
<1>7. TextInv' /\ Val(x)' = ValText(Fold(u))
  BY <1>3, <1>6, WriteTexts
<1> QED BY <1>6, <1>7

\* append() of a blob.
LEMMA AppendBlobMade ==
  ASSUME AsciiPrograms, IInv, TextInv, NEW x \in Blobs, AppendBlob(x)
  PROVE  TextInv' /\ (AllSame \/ Values!Made(x, Val(x)'))
<1>1. PICK b : b = buf[d[x]]
  OBVIOUS
<1>2. \/ \E y \in Like(x) :
           LET t == buf[d[y]].s IN
           CASE t = <<>> -> UNCHANGED vars
             [] t # <<>> /\ b.s = <<>> -> ShareBuf(x, d[y])
             [] OTHER -> /\ y # x \/ ~MustCopy(b, Len(b.s) + Len(t))
                         /\ Extend(x, t)
      \/ \E l \in AsciiLits : Extend(x, l)
      \/ \E l \in AsciiLits : OwnBuf(x, b.s \o Reverse(l), Len(b.s) + Len(l) + 1)
  BY <1>1 DEF AppendBlob
<1>3. ASSUME NEW u, IsText(u, x \in WideBlobs), WideText(u), Seen(Fold(u)), Extend(x, u)
      PROVE  TextInv' /\ Values!Made(x, Val(x)')
  <2>1. IsText(b.s \o u, x \in WideBlobs) /\ Values!Made(x, ValText(Fold(b.s \o u)))
    BY <1>1, <1>3, BlobJoins
  <2>2. TextInv' /\ Val(x)' = ValText(Fold(b.s \o u))
    BY <1>1, <1>3, <2>1, ExtendTexts
  <2> QED BY <2>1, <2>2
<1>4. ASSUME NEW y \in Like(x),
             LET t == buf[d[y]].s IN
             CASE t = <<>> -> UNCHANGED vars
               [] t # <<>> /\ b.s = <<>> -> ShareBuf(x, d[y])
               [] OTHER -> /\ y # x \/ ~MustCopy(b, Len(b.s) + Len(t))
                           /\ Extend(x, t)
      PROVE  TextInv' /\ (AllSame \/ Values!Made(x, Val(x)'))
  <2>1. UNCHANGED vars \/ ShareBuf(x, d[y]) \/ Extend(x, buf[d[y]].s)
    BY <1>4
  <2>2. y \in Blobs /\ (y \in WideBlobs <=> x \in WideBlobs) /\ y \in Handles
    BY DEF Like, Handles
  <2>3. CASE UNCHANGED vars
    BY <2>3, StutterStep, StutterTexts
  <2>4. CASE ShareBuf(x, d[y])
    BY <2>2, <2>4, ShareBlobMade
  <2>5. CASE Extend(x, buf[d[y]].s)
    <3>1. /\ IsText(buf[d[y]].s, y \in WideBlobs) /\ WideText(buf[d[y]].s)
          /\ Val(y).s = Fold(buf[d[y]].s)
      BY <2>2, BlobText
    <3>2. IsText(buf[d[y]].s, x \in WideBlobs)
      BY <2>2, <3>1 DEF IsText
    <3>3. Seen(Fold(buf[d[y]].s))
      BY <2>2, <3>1, ValSeen
    <3> QED BY <1>3, <2>5, <3>1, <3>2, <3>3
  <2> QED BY <2>1, <2>3, <2>4, <2>5
<1>5. ASSUME NEW l \in AsciiLits, Extend(x, l) PROVE TextInv' /\ Values!Made(x, Val(x)')
  <2>1. IsText(l, x \in WideBlobs) /\ WideText(l) /\ Seen(Fold(l))
    BY BlobLits
  <2> QED BY <1>3, <1>5, <2>1
<1>6. ASSUME NEW l \in AsciiLits, OwnBuf(x, b.s \o Reverse(l), Len(b.s) + Len(l) + 1)
      PROVE  TextInv' /\ Values!Made(x, Val(x)')
  <2>1. PICK u : u = Reverse(l)
    OBVIOUS
  <2>2. IsText(u, x \in WideBlobs) /\ WideText(u) /\ Seen(Fold(u))
    BY <2>1, BlobLits
  <2>3. IsText(b.s \o u, x \in WideBlobs) /\ Values!Made(x, ValText(Fold(b.s \o u)))
    BY <1>1, <2>2, BlobJoins
  <2>4. TextInv' /\ Val(x)' = ValText(Fold(b.s \o u))
    BY <1>6, <2>1, <2>3, OwnTexts
  <2> QED BY <2>3, <2>4
<1> QED BY <1>2, <1>4, <1>5, <1>6

\* trimSpaces() makes a text of its kind.
LEMMA TrimTyped ==
  ASSUME NEW s, NEW isWide \in BOOLEAN, IsText(s, isWide)
  PROVE  IsText(TrimSpaces(s), isWide)
<1> DEFINE A == IF isWide THEN Alphabet ELSE Alphabet \ WideOnly
<1>1. \A u : IsText(u, isWide) <=> u \in Seq(A)
  BY DEF IsText, ByteText, WideText
<1> HIDE DEF A
<1>2. s \in Seq(A) /\ Len(s) \in Nat /\ DOMAIN s = 1..Len(s)
  BY <1>1
<1>3. PICK ink : ink = {i \in DOMAIN s : s[i] # " "}
  OBVIOUS
<1>4. TrimSpaces(s) = IF ink = {} THEN <<>> ELSE SubSeq(s, Min(ink), Max(ink))
  BY <1>3 DEF TrimSpaces
<1>5. CASE ink = {}
  <2>1. <<>> \in Seq(A)
    OBVIOUS
  <2> QED BY <1>1, <1>4, <1>5, <2>1
<1>6. CASE ink # {}
  <2>1. \A i \in ink : i \in 1..Len(s) /\ i \in Nat /\ i \in 0..Len(s)
    <3>1. \A i \in ink : i \in 1..Len(s)
      BY <1>2, <1>3
    <3> QED BY <1>2, <3>1
  <2>2. ink \in SUBSET Nat /\ ink \in SUBSET (0..Len(s))
    BY <2>1
  <2>3. PICK a \in 1..Len(s) : a = Min(ink)
    BY <1>6, <2>1, <2>2, MinIs
  <2>4. PICK b \in 1..Len(s) : b = Max(ink)
    BY <1>2, <1>6, <2>1, <2>2, MaxIs
  <2>5. SubSeq(s, a, b) \in Seq(A)
    BY <1>2, <2>3, <2>4
  <2> QED BY <1>1, <1>4, <1>6, <2>3, <2>4, <2>5
<1> QED BY <1>5, <1>6

\* left(), mid(), right(), removeLeft(), removeMid(), removeRight(), trimSpaces() of a blob:
\* the text is cut to a part of it, or a part is taken out.
LEMMA EditBlobMade ==
  ASSUME AsciiPrograms, IInv, TextInv, NEW x \in Blobs, EditBlob(x)
  PROVE  TextInv' /\ Values!Made(x, Val(x)')
<1>1. PICK s : s = buf[d[x]].s
  OBVIOUS
<1>2. PICK wide \in BOOLEAN : wide = (x \in WideBlobs)
  <2>1. (x \in WideBlobs) \in BOOLEAN
    OBVIOUS
  <2> QED BY <2>1, Zenon
<1>3. IsText(s, wide) /\ WideText(s) /\ Len(s) <= MaxLen /\ Val(x).s = Fold(s) /\ x \in Handles
  BY <1>1, <1>2, BlobText DEF Handles
<1>4. Len(s) \in Nat /\ MaxLen \in Nat /\ Longest \in Nat /\ MaxLen <= Longest
  BY <1>3, Limits DEF WideText
<1> DEFINE Good(r) == IsText(r, wide) /\ Values!Made(x, ValText(Fold(r)))
<1>5. ASSUME NEW p \in 0..Longest, NEW n \in 0..Longest PROVE Good(Mid(s, p, n)) /\ Good(RemoveMid(s, p, n))
  <2>1. p \in Nat /\ n \in Nat
    BY <1>4
  <2>2. IsText(Mid(s, p, n), wide) /\ IsText(RemoveMid(s, p, n), wide)
    BY <1>3, <2>1, PartTyped
  <2>3. Fold(Mid(s, p, n)) = Mid(Val(x).s, p, n)
    BY <1>3, <2>1, FoldMid
  <2>4. Fold(RemoveMid(s, p, n)) = RemoveMid(Val(x).s, p, n)
    BY <1>3, <2>1, FoldRemoveMid
  <2>5. Values!Made(x, ValText(Mid(Val(x).s, p, n))) /\ Values!Made(x, ValText(RemoveMid(Val(x).s, p, n)))
    BY <1>3, MadeBy
  <2> QED BY <2>2, <2>3, <2>4, <2>5
<1>6. Good(<<>>)
  <2>1. Values!Made(x, ValText(<<>>))
    BY <1>3, MadeBy
  <2> QED BY <2>1, EmptyFold DEF IsText
<1>7. Good(TrimSpaces(s))
  <2>1. Fold(TrimSpaces(s)) = TrimSpaces(Val(x).s)
    BY <1>3, FoldTrim
  <2>2. Values!Made(x, ValText(TrimSpaces(Val(x).s)))
    BY <1>3, MadeBy
  <2> QED BY <1>3, <2>1, <2>2, TrimTyped
<1> HIDE DEF Good
<1>8. ASSUME NEW n \in 1..MaxLen PROVE Good(RemoveLeft(s, n))
  <2>1. n \in Nat
    BY <1>4
  <2>2. Min({n, Len(s)}) = IF n <= Len(s) THEN n ELSE Len(s)
    BY <1>4, <2>1, MinMaxTwo
  <2>3. PICK q \in 0..Longest : q = Min({n, Len(s)})
    BY <1>3, <1>4, <2>1, <2>2
  <2>4. RemoveLeft(s, n) = Mid(s, q, Len(s)) /\ Len(s) \in 0..Longest
    BY <1>3, <1>4, <2>3 DEF RemoveLeft, MidFrom
  <2> QED BY <1>5, <2>4
<1>9. ASSUME NEW n \in 0..MaxLen PROVE Good(RemoveRight(s, n))
  <2>1. CASE n >= Len(s)
    BY <1>6, <2>1 DEF RemoveRight
  <2>2. CASE ~(n >= Len(s))
    <3>1. PICK m \in 0..Longest : m = Len(s) - n
      <4>1. n \in Nat /\ n < Len(s) /\ Len(s) <= Longest
        BY <1>3, <1>4, <2>2
      <4>2. Len(s) - n \in 0..Longest
        BY <1>4, <4>1
      <4> QED BY <4>2
    <3>2. RemoveRight(s, n) = Mid(s, 0, m) /\ 0 \in 0..Longest
      BY <1>4, <2>2, <3>1 DEF RemoveRight, Left
    <3> QED BY <1>5, <3>2
  <2> QED BY <2>1, <2>2
<1>10. ASSUME NEW n \in 0..(Len(s) - 1) PROVE Good(Right(s, n))
  <2>1. PICK q \in 0..Longest : q = Len(s) - n
    BY <1>3, <1>4
  <2>2. Right(s, n) = Mid(s, q, n) /\ n \in 0..Longest
    BY <1>3, <1>4, <2>1 DEF Right
  <2> QED BY <1>5, <2>2
<1>11. \A p \in 0..MaxLen : p \in 0..Longest
  BY <1>4
<1> DEFINE S == {RemoveLeft(s, n) : n \in 1..MaxLen} \cup {RemoveRight(s, n) : n \in 0..MaxLen}
                \cup {Right(s, n) : n \in 0..(Len(s) - 1)} \cup {TrimSpaces(s)}
                \cup {Mid(s, p, n) : p, n \in 0..MaxLen}
           T == {RemoveMid(s, p, n) : p, n \in 0..MaxLen}
<1>12. (\E r \in S : Create(x, r)) \/ (\E r \in T : OwnBuf(x, r, Len(r) + 1))
  BY <1>1, SMT DEF EditBlob
<1>13. \A r \in S : Good(r)
  <2> SUFFICES ASSUME NEW r \in S PROVE Good(r)
    OBVIOUS
  <2>1. \/ \E n \in 1..MaxLen : r = RemoveLeft(s, n)
        \/ \E n \in 0..MaxLen : r = RemoveRight(s, n)
        \/ \E n \in 0..(Len(s) - 1) : r = Right(s, n)
        \/ r = TrimSpaces(s)
        \/ \E p \in 0..MaxLen, n \in 0..MaxLen : r = Mid(s, p, n)
    OBVIOUS
  <2> QED BY <1>5, <1>7, <1>8, <1>9, <1>10, <1>11, <2>1
<1>14. \A r \in T : Good(r)
  <2> SUFFICES ASSUME NEW r \in T PROVE Good(r)
    OBVIOUS
  <2>1. \E p \in 0..MaxLen, n \in 0..MaxLen : r = RemoveMid(s, p, n)
    OBVIOUS
  <2> QED BY <1>5, <1>11, <2>1
<1> HIDE DEF S, T
<1>15. PICK r : Good(r) /\ (Create(x, r) \/ OwnBuf(x, r, Len(r) + 1))
  BY <1>12, <1>13, <1>14
<1>16. IsText(r, x \in WideBlobs) /\ Values!Made(x, ValText(Fold(r)))
  BY <1>2, <1>15 DEF Good
<1>17. TextInv' /\ Val(x)' = ValText(Fold(r))
  BY <1>4, <1>15, <1>16, CreateTexts, OwnTexts
<1> QED BY <1>16, <1>17

\* Each operation of a blob makes a text that it may make, or no new one.
LEMMA BlobMakes ==
  ASSUME AsciiPrograms, IInv, TextInv, NEW x \in Blobs, BlobStep(x)
  PROVE  TextInv' /\ (AllSame \/ Values!Made(x, Val(x)'))
<1>1. CASE TakeRep(x)
  BY <1>1, TakeMade
<1>2. CASE CopyBlob(x)
  <2>1. PICK y \in Blobs : (y \in WideBlobs <=> x \in WideBlobs) /\ ShareBuf(x, d[y])
    BY <1>2 DEF CopyBlob, Like
  <2> QED BY <2>1, ShareBlobMade
<1>3. CASE SetBlob(x)
  <2>1. PICK l \in AsciiLits \cup {<<>>} : Create(x, l)
    BY <1>3 DEF SetBlob
  <2>2. IsText(l, x \in WideBlobs) /\ Values!Made(x, ValText(Fold(l)))
    <3>1. x \in Handles
      BY DEF Handles
    <3>2. CASE l = <<>>
      BY <3>1, <3>2, EmptyFold, MadeBy DEF IsText
    <3>3. CASE l # <<>>
      BY <3>1, <3>3, BlobLits, MadeBy
    <3> QED BY <3>2, <3>3
  <2>3. TextInv' /\ Val(x)' = ValText(Fold(l))
    BY <2>1, <2>2, Limits, CreateTexts
  <2> QED BY <2>2, <2>3
<1>4. CASE LockBlob(x)
  BY <1>4, LockBlobMade
<1>5. CASE AppendBlob(x)
  BY <1>5, AppendBlobMade
<1>6. CASE EditBlob(x)
  BY <1>6, EditBlobMade
<1>7. CASE HashBlob(x)
  <2>1. OthersSame(x)
    BY <1>7, BlobSteps DEF BlobStep
  <2> QED BY <1>7, <2>1, HashBlobStep, HashBlobTexts
<1> QED BY <1>1, <1>2, <1>3, <1>4, <1>5, <1>6, <1>7 DEF BlobStep

\* Every text is empty when the program starts.
LEMMA InitTexts ==
  ASSUME AsciiPrograms, Init
  PROVE  TextInv /\ Values!Init
<1>1. IInv
  BY InitInv
<1>2. /\ d = [h \in Strs \cup Blobs |-> Zero] /\ pend = [h \in Strs \cup Blobs |-> Idle]
      /\ DOMAIN data = Places
      /\ \A i \in Places \ Static : data[i] = Free
  <2>1. data = [i \in Places |->
                 IF i = Null THEN StaticData(Null)
                 ELSE IF i = Zero THEN [StaticData(Zero) EXCEPT !.rc = Cardinality(Strs)] ELSE Free]
    BY DEF Init
  <2>2. \A i \in Places \ Static : i # Null /\ i # Zero
    BY DEF Static
  <2> QED BY <2>1, <2>2 DEF Init
<1>3. /\ \A i \in Static : data[i].b = i /\ data[i].w = i /\ buf[i].s = <<>>
      /\ Zero \in Static /\ Zero # Null /\ Zero # NoRep /\ Zero \in Places
  BY <1>1, Constants DEF IInv, StaticsSound
<1>4. \A wide \in BOOLEAN : Fits(<<>>, wide, MaxLen)
  <2>1. MaxLen \in Nat
    BY <1>1, Limits
  <2>2. Len(<<>>) <= MaxLen
    BY <2>1
  <2> QED BY <2>2, EmptyFold DEF Fits, IsText
<1>5. TRUE \in BOOLEAN /\ FALSE \in BOOLEAN
  OBVIOUS
<1>6. \A i \in Places : data[i] # Free => RepsTyped(data[i], buf, MaxLen)
  <2> SUFFICES ASSUME NEW i \in Places, data[i] # Free PROVE RepsTyped(data[i], buf, MaxLen)
    OBVIOUS
  <2>1. i \in Static
    BY <1>2
  <2>2. buf[data[i].b].s = <<>> /\ buf[data[i].w].s = <<>>
    BY <1>3, <2>1
  <2> QED BY <1>4, <2>2 DEF RepsTyped
<1>7. \A x \in Blobs : Fits(buf[d[x]].s, x \in WideBlobs, MaxLen)
  <2> SUFFICES ASSUME NEW x \in Blobs PROVE Fits(buf[d[x]].s, x \in WideBlobs, MaxLen)
    OBVIOUS
  <2>1. buf[d[x]].s = <<>>
    BY <1>2, <1>3
  <2>2. Fits(<<>>, TRUE, MaxLen) /\ Fits(<<>>, FALSE, MaxLen)
    BY <1>4
  <2> QED BY <2>1, <2>2 DEF Fits, IsText
<1>8. \A h \in Strs : pend[h] = Idle
  BY <1>2
<1>9. TextInv
  BY <1>6, <1>7, <1>8 DEF TextInv
<1>10. ASSUME NEW h \in Handles PROVE Val(h) = ValText(<<>>)
  <2>1. d[h] = Zero
    BY <1>2, <1>10 DEF Handles
  <2>2. Chars(d[h]) = <<>> /\ buf[d[h]].s = <<>>
    BY <1>3, <2>1 DEF Chars, HasB, Bytes
  <2> QED BY <1>3, <2>1, <2>2, EmptyFold DEF Val, ValText
<1>11. Values!Init
  <2>1. [h \in Strs \cup Blobs |-> Val(h)] = [h \in Strs \cup Blobs |-> ValText(<<>>)]
    BY <1>10 DEF Handles
  <2> QED BY <2>1 DEF Values!Init, Values!Text, ValText
<1> QED BY <1>9, <1>11

\* Every step of a program is one that the abstract specification allows, or changes no
\* text.
LEMMA StepValues ==
  ASSUME AsciiPrograms, IInv, TextInv, [Next]_vars
  PROVE  TextInv' /\ [Values!Next]_([h \in Strs \cup Blobs |-> Val(h)])
<1> DEFINE val == [h \in Strs \cup Blobs |-> Val(h)]
<1>1. ASSUME AllSame PROVE val' = val
  BY <1>1 DEF AllSame, Handles
<1>2. ASSUME NEW h \in Handles, OthersSame(h), Values!Made(h, Val(h)') PROVE Values!Next
  <2>1. \A g \in Strs \cup Blobs : val[g] = Val(g) /\ val'[g] = Val(g)'
    OBVIOUS
  <2> HIDE DEF val
  <2>2. \A g \in (Strs \cup Blobs) \ {h} : val'[g] = val[g]
    BY <1>2, <2>1 DEF OthersSame, Handles
  <2>3. Values!Made(h, val'[h])
    BY <1>2, <2>1 DEF Handles
  <2> QED BY <2>2, <2>3 DEF Values!Next, val, Handles
<1>3. CASE UNCHANGED vars
  BY <1>1, <1>3, StutterStep, StutterTexts
<1>4. ASSUME NEW h \in Strs, StringStep(h) PROVE TextInv' /\ [Values!Next]_val
  <2>1. h \in Handles /\ OthersSame(h) /\ TextInv' /\ (AllSame \/ Values!Made(h, Val(h)'))
    BY <1>4, StringSteps, StringMakes DEF Handles
  <2> QED BY <1>1, <1>2, <2>1
<1>5. ASSUME NEW x \in Blobs, BlobStep(x) PROVE TextInv' /\ [Values!Next]_val
  <2>1. x \in Handles /\ OthersSame(x) /\ TextInv' /\ (AllSame \/ Values!Made(x, Val(x)'))
    BY <1>5, BlobSteps, BlobMakes DEF Handles
  <2> QED BY <1>1, <1>2, <2>1
<1> QED BY <1>3, <1>4, <1>5 DEF Next

\* String and String_c behave as values: whatever representation an operation finds, and
\* whatever is shared with other handles and threads, it gives one handle the text that
\* the operation promises and changes no other one.  Excepted are two calls of String_c
\* that are undefined in C++ and no steps of the model: lock() of a shared buffer with
\* room below its size, and append() of a sole owner to itself without room.
THEOREM StringsImplementValues == AsciiPrograms => (Spec => ImplementsValues)
<1> SUFFICES ASSUME AsciiPrograms PROVE Spec => ImplementsValues
  OBVIOUS
<1>1. Init => TextInv /\ Values!Init
  BY InitTexts
<1>2. IInv /\ TextInv /\ [Next]_vars => TextInv' /\ [Values!Next]_([h \in Strs \cup Blobs |-> Val(h)])
  BY StepValues
<1> QED BY <1>1, <1>2, StringInvariance, PTL DEF Spec, ImplementsValues, Values!Spec

-----------------------------------------------------------------------------
(* Searching, for texts of any characters and of any length.               *)

\* The text t is found in s at position p.
Occ(s, t, p) ==
    /\ p \in Nat /\ p + Len(t) <= Len(s)
    /\ \A i \in 1..Len(t) : s[p + i] = t[i]

\* What is compared at a position.
LEMMA MatchIs ==
  ASSUME NEW A, NEW s \in Seq(A), NEW t \in Seq(A), NEW p \in Nat, p + Len(t) <= Len(s)
  PROVE  MatchAt(s, t, p) <=> Occ(s, t, p)
<1>1. PICK m \in Nat : m = Len(t)
  OBVIOUS
<1>2. PICK a \in Nat, b \in Nat : a = p + 1 /\ b = p + m
  BY <1>1
<1>3. Len(s) \in Nat /\ a >= 1 /\ b <= Len(s) /\ b - a + 1 = m
  BY <1>1, <1>2
<1>4. SubSeq(s, a, b) \in Seq(A)
  BY <1>3
<1>5. Len(SubSeq(s, a, b)) = m
  BY <1>3
<1>6. \A i \in 1..m : SubSeq(s, a, b)[i] = s[a + i - 1]
  BY <1>3
<1>7. \A i \in 1..m : a + i - 1 = p + i
  BY <1>2
<1>8. \A i \in 1..m : SubSeq(s, a, b)[i] = s[p + i]
  BY <1>6, <1>7
<1> DEFINE u == SubSeq(s, a, b)
<1> HIDE DEF u
<1>9. u = t <=> \A i \in 1..m : s[p + i] = t[i]
  <2>1. u \in Seq(A) /\ Len(u) = m /\ \A i \in 1..m : u[i] = s[p + i]
    BY <1>4, <1>5, <1>8 DEF u
  <2>2. ASSUME \A i \in 1..m : s[p + i] = t[i] PROVE u = t
    BY <1>1, <2>1, <2>2, SameChars
  <2> QED BY <2>1, <2>2
<1> QED BY <1>1, <1>2, <1>9 DEF MatchAt, Occ, u

\* find() returns the first position from the start on.
LEMMA FindIs ==
  ASSUME NEW A, NEW s \in Seq(A), NEW t \in Seq(A), t # <<>>, NEW q \in Nat
  PROVE  \/ Find(s, t, q) = None /\ \A p \in Nat : p >= q => ~Occ(s, t, p)
         \/ /\ Find(s, t, q) \in Nat /\ Find(s, t, q) >= q /\ Occ(s, t, Find(s, t, q))
            /\ \A p \in Nat : p >= q /\ p < Find(s, t, q) => ~Occ(s, t, p)
<1>1. Len(s) \in Nat /\ Len(t) \in Nat /\ Len(t) >= 1
  OBVIOUS
<1> DEFINE hits == {p \in Starts(s, t, q) : At(s, p) = At(t, 0) /\ MatchAt(s, t, p)}
<1>2. \A p : p \in hits <=> p \in Nat /\ p >= q /\ Occ(s, t, p)
  <2>1. ASSUME NEW p, p \in Starts(s, t, q)
        PROVE  (At(s, p) = At(t, 0) /\ MatchAt(s, t, p)) <=> Occ(s, t, p)
    <3>1. p \in Nat /\ p >= q /\ p + Len(t) <= Len(s) /\ p < Len(s) /\ 0 < Len(t)
      BY <1>1, <2>1 DEF Starts
    <3>2. At(s, p) = s[p + 1] /\ At(t, 0) = t[0 + 1]
      BY <3>1 DEF At
    <3>3. 1 \in 1..Len(t) /\ 0 + 1 = 1
      BY <1>1
    <3>4. Occ(s, t, p) => At(s, p) = At(t, 0)
      BY <3>2, <3>3 DEF Occ
    <3> QED BY <3>1, <3>4, MatchIs
  <2>2. ASSUME NEW p, p \in Nat, p >= q, Occ(s, t, p) PROVE p \in Starts(s, t, q)
    BY <1>1, <2>2 DEF Starts, Occ
  <2>3. \A p \in Starts(s, t, q) : p \in Nat /\ p >= q
    BY <1>1 DEF Starts
  <2> QED BY <2>1, <2>2, <2>3
<1>3. Find(s, t, q) = IF hits = {} THEN None ELSE Min(hits)
  BY DEF Find
<1> HIDE DEF hits
<1>4. hits \in SUBSET Nat
  <2>1. \A p \in hits : p \in Nat
    BY <1>2
  <2> QED BY <2>1
<1>5. CASE hits = {}
  BY <1>2, <1>3, <1>5
<1>6. CASE hits # {}
  <2>1. PICK f : f = Min(hits) /\ f \in hits /\ \A x \in hits : f <= x
    BY <1>4, <1>6, MinIs
  <2>2. f \in Nat /\ f >= q /\ Occ(s, t, f)
    BY <1>2, <2>1
  <2>3. \A p \in Nat : p >= q /\ p < f => ~Occ(s, t, p)
    BY <1>2, <2>1, <2>2
  <2> QED BY <1>3, <1>6, <2>1, <2>2, <2>3
<1> QED BY <1>5, <1>6

\* rfind() returns the last position before the given one.
LEMMA RFindIs ==
  ASSUME NEW A, NEW s \in Seq(A), NEW t \in Seq(A), t # <<>>, NEW b \in Nat
  PROVE  \/ RFind(s, t, b) = None /\ \A p \in Nat : p < b => ~Occ(s, t, p)
         \/ /\ RFind(s, t, b) \in Nat /\ RFind(s, t, b) < b /\ Occ(s, t, RFind(s, t, b))
            /\ \A p \in Nat : p > RFind(s, t, b) /\ p < b => ~Occ(s, t, p)
<1>1. Len(s) \in Nat /\ Len(t) \in Nat /\ Len(t) >= 1
  OBVIOUS
<1>2. PICK last \in Int : last = Len(s) - Len(t)
  BY <1>1
<1>3. PICK from \in Int : from = IF b > last THEN last ELSE b - 1
  <2>1. (IF b > last THEN last ELSE b - 1) \in Int
    BY <1>2
  <2> QED BY <2>1
<1>4. PICK hits : hits = {p \in 0..from : MatchAt(s, t, p)}
  OBVIOUS
<1>5. RFind(s, t, b) = IF last < 0 \/ hits = {} THEN None ELSE Max(hits)
  BY <1>2, <1>3, <1>4 DEF RFind
<1>6. \A p \in 0..from : p \in Nat /\ p < b /\ p + Len(t) <= Len(s) /\ p \in 0..Len(s)
  BY <1>1, <1>2, <1>3
<1>7. \A p : p \in hits <=> p \in Nat /\ p < b /\ Occ(s, t, p)
  <2>1. ASSUME NEW p, p \in Nat, p < b, Occ(s, t, p) PROVE p \in 0..from
    BY <1>1, <1>2, <1>3, <2>1 DEF Occ
  <2>2. \A p \in 0..from : MatchAt(s, t, p) <=> Occ(s, t, p)
    BY <1>6, MatchIs
  <2> QED BY <1>4, <1>6, <2>1, <2>2
<1>8. hits \in SUBSET (0..Len(s))
  BY <1>4, <1>6
<1>9. CASE hits = {}
  BY <1>5, <1>7, <1>9
<1>10. CASE hits # {}
  <2>1. PICK r : r = Max(hits) /\ r \in hits /\ \A x \in hits : r >= x
    BY <1>1, <1>8, <1>10, MaxIs
  <2>2. r \in Nat /\ r < b /\ Occ(s, t, r)
    BY <1>7, <2>1
  <2>3. \A p \in Nat : p > r /\ p < b => ~Occ(s, t, p)
    BY <1>7, <2>1, <2>2
  <2>4. ~(last < 0)
    BY <1>1, <1>2, <2>2 DEF Occ
  <2> QED BY <1>5, <1>10, <2>1, <2>2, <2>3, <2>4
<1> QED BY <1>9, <1>10

\* A text behind another one, by positions.
Joined(u, s, t, A) == s \in Seq(A) /\ t \in Seq(A) /\ u = s \o t
LEMMA JoinIs ==
  ASSUME NEW A, NEW s, NEW t, NEW u, Joined(u, s, t, A)
  PROVE  /\ u \in Seq(A) /\ Len(u) = Len(s) + Len(t)
         /\ \A i \in 1..Len(s) : u[i] = s[i]
         /\ \A i \in 1..Len(t) : u[Len(s) + i] = t[i]
<1> USE DEF Joined
<1>1. PICK m \in Nat, n \in Nat : m = Len(s) /\ n = Len(t)
  OBVIOUS
<1>2. u \in Seq(A) /\ Len(u) = m + n
  BY <1>1
<1>3. \A i \in 1..(m + n) : u[i] = IF i <= m THEN s[i] ELSE t[i - m]
  BY <1>1
<1>4. \A i \in 1..m : i \in 1..(m + n) /\ i <= m
  BY <1>1
<1>5. \A i \in 1..n : m + i \in 1..(m + n) /\ ~(m + i <= m) /\ (m + i) - m = i
  BY <1>1
<1> QED BY <1>1, <1>2, <1>3, <1>4, <1>5

\* startsWith() and endsWith() look for the text at the ends.
LEMMA EndsAre ==
  ASSUME NEW A, NEW s \in Seq(A), NEW t \in Seq(A)
  PROVE  /\ StartsWith(s, t) <=> Occ(s, t, 0)
         /\ EndsWith(s, t) <=> (Len(t) <= Len(s) /\ Occ(s, t, Len(s) - Len(t)))
<1>1. Len(s) \in Nat /\ Len(t) \in Nat /\ 0 \in Nat
  OBVIOUS
<1>2. StartsWith(s, t) <=> Occ(s, t, 0)
  <2>1. PICK u : u = Left(s, Len(t))
    OBVIOUS
  <2>2. u \in Seq(A) /\ Len(u) = (IF Len(t) <= Len(s) THEN Len(t) ELSE Len(s))
        /\ \A i \in 1..Len(u) : u[i] = s[i]
    BY <1>1, <2>1, LeftIs
  <2>3. CASE Len(t) <= Len(s)
    <3>1. \A i \in 1..Len(t) : u[i] = s[0 + i]
      BY <1>1, <2>2, <2>3
    <3>2. u = t <=> \A i \in 1..Len(t) : s[0 + i] = t[i]
      BY <2>2, <2>3, <3>1, SameChars
    <3> QED BY <1>1, <2>1, <2>3, <3>2 DEF StartsWith, Occ
  <2>4. CASE ~(Len(t) <= Len(s))
    BY <1>1, <2>1, <2>2, <2>4 DEF StartsWith, Occ
  <2> QED BY <2>3, <2>4
<1>3. CASE Len(t) > Len(s)
  <2>1. EndsWith(s, t) <=> s = t
    BY <1>3 DEF EndsWith, Right
  <2> QED BY <1>1, <1>2, <1>3, <2>1
<1>4. CASE ~(Len(t) > Len(s))
  <2>1. PICK p \in Nat : p = Len(s) - Len(t)
    BY <1>1, <1>4
  <2>2. PICK u : u = Mid(s, p, Len(t))
    OBVIOUS
  <2>3. EndsWith(s, t) <=> u = t
    BY <1>4, <2>1, <2>2 DEF EndsWith, Right
  <2>4. u \in Seq(A) /\ Len(u) = Len(t) /\ \A i \in 1..Len(t) : u[i] = s[p + i]
    <3>1. PICK n \in Nat : n = Len(t)
      BY <1>1
    <3>2. u = Mid(s, p, n)
      BY <2>2, <3>1
    <3>3. /\ u \in Seq(A)
          /\ Len(u) = IF p > Len(s) THEN 0 ELSE IF n <= Len(s) - p THEN n ELSE Len(s) - p
          /\ \A i \in 1..Len(u) : u[i] = s[p + i]
      BY <3>2, MidIs
    <3>4. Len(u) = n
      BY <1>1, <2>1, <3>1, <3>3
    <3> QED BY <3>1, <3>3, <3>4
  <2>5. u = t <=> \A i \in 1..Len(t) : s[p + i] = t[i]
    BY <2>4, SameChars
  <2>6. p + Len(t) <= Len(s) /\ Len(t) <= Len(s)
    BY <1>1, <1>4, <2>1
  <2> QED BY <1>2, <2>1, <2>3, <2>5, <2>6 DEF Occ
<1> QED BY <1>1, <1>3, <1>4

\* find() from the beginning and rfind() from the end.
LEMMA FindLaws ==
  ASSUME NEW A, NEW s \in Seq(A), NEW t \in Seq(A), t # <<>>
  PROVE  LET f == Find(s, t, 0)  r == RFind(s, t, Len(s)) IN
         /\ StartsWith(s, t) <=> f = 0
         /\ EndsWith(s, t) <=> (r # None /\ r = Len(s) - Len(t))
         /\ (f = None) <=> (r = None)
         /\ f # None => /\ f \in Nat /\ Occ(s, t, f)
                        /\ f <= r /\ Find(s, t, f) = f /\ RFind(s, t, f) = None
<1>1. Len(s) \in Nat /\ Len(t) \in Nat /\ Len(t) >= 1 /\ 0 \in Nat /\ None \notin Nat
  BY DEF None
<1>2. PICK f, r : f = Find(s, t, 0) /\ r = RFind(s, t, Len(s))
  OBVIOUS
<1>3. \/ f = None /\ \A p \in Nat : ~Occ(s, t, p)
      \/ f \in Nat /\ Occ(s, t, f) /\ \A p \in Nat : p < f => ~Occ(s, t, p)
  <2>1. \/ f = None /\ \A p \in Nat : p >= 0 => ~Occ(s, t, p)
        \/ f \in Nat /\ f >= 0 /\ Occ(s, t, f) /\ \A p \in Nat : p >= 0 /\ p < f => ~Occ(s, t, p)
    BY <1>1, <1>2, FindIs
  <2> QED BY <2>1
<1>4. \A p \in Nat : Occ(s, t, p) => p < Len(s) /\ p <= Len(s) - Len(t)
  BY <1>1 DEF Occ
<1>5. \/ r = None /\ \A p \in Nat : ~Occ(s, t, p)
      \/ r \in Nat /\ Occ(s, t, r) /\ \A p \in Nat : p > r => ~Occ(s, t, p)
  <2>1. \/ r = None /\ \A p \in Nat : p < Len(s) => ~Occ(s, t, p)
        \/ r \in Nat /\ r < Len(s) /\ Occ(s, t, r) /\ \A p \in Nat : p > r /\ p < Len(s) => ~Occ(s, t, p)
    BY <1>1, <1>2, RFindIs
  <2> QED BY <1>4, <2>1
<1>6. StartsWith(s, t) <=> f = 0
  <2>1. StartsWith(s, t) <=> Occ(s, t, 0)
    BY EndsAre
  <2>2. f \in Nat => (Occ(s, t, 0) <=> f = 0)
    <3>1. ASSUME f \in Nat, f # 0 PROVE 0 < f
      BY <3>1
    <3> QED BY <1>1, <1>3, <3>1
  <2> QED BY <1>1, <1>3, <2>1, <2>2
<1>7. EndsWith(s, t) <=> (r # None /\ r = Len(s) - Len(t))
  <2>1. EndsWith(s, t) <=> (Len(t) <= Len(s) /\ Occ(s, t, Len(s) - Len(t)))
    BY EndsAre
  <2>2. ASSUME EndsWith(s, t) PROVE r # None /\ r = Len(s) - Len(t)
    <3>1. PICK p \in Nat : p = Len(s) - Len(t) /\ Occ(s, t, p)
      BY <1>1, <2>1, <2>2
    <3>2. r \in Nat /\ ~(p > r) /\ r <= p
      BY <1>4, <1>5, <3>1
    <3> QED BY <1>1, <3>1, <3>2
  <2>3. ASSUME r # None, r = Len(s) - Len(t) PROVE EndsWith(s, t)
    BY <1>1, <1>5, <2>1, <2>3
  <2> QED BY <2>2, <2>3
<1>8. (f = None) <=> (r = None)
  BY <1>1, <1>3, <1>5
<1>9. ASSUME f # None
      PROVE  f \in Nat /\ Occ(s, t, f) /\ f <= r /\ Find(s, t, f) = f /\ RFind(s, t, f) = None
  <2>1. f \in Nat /\ Occ(s, t, f) /\ \A p \in Nat : p < f => ~Occ(s, t, p)
    BY <1>3, <1>9
  <2>2. r \in Nat /\ ~(f > r)
    BY <1>5, <2>1
  <2>3. Find(s, t, f) = f
    <3>1. PICK g : g = Find(s, t, f)
      OBVIOUS
    <3>2. \/ g = None /\ \A p \in Nat : p >= f => ~Occ(s, t, p)
          \/ g \in Nat /\ g >= f /\ Occ(s, t, g) /\ \A p \in Nat : p >= f /\ p < g => ~Occ(s, t, p)
      BY <2>1, <3>1, FindIs
    <3> QED BY <2>1, <3>1, <3>2
  <2>4. RFind(s, t, f) = None
    BY <2>1, RFindIs
  <2> QED BY <2>1, <2>2, <2>3, <2>4
<1> QED BY <1>2, <1>6, <1>7, <1>8, <1>9

\* What is cut out where it was found and put in again gives the same text.
LEMMA CutAndPut ==
  ASSUME NEW A, NEW s \in Seq(A), NEW t \in Seq(A), t # <<>>, NEW f, Occ(s, t, f)
  PROVE  Insert(RemoveMid(s, f, Len(t)), f, t) = s
<1>1. Len(s) \in Nat /\ f \in Nat /\ f + Len(t) <= Len(s) /\ \A i \in 1..Len(t) : s[f + i] = t[i]
  BY DEF Occ
<1>2. PICK n \in Nat : n = Len(t)
  OBVIOUS
<1>3. PICK l, r : l = Left(s, f) /\ r = MidFrom(s, f + n)
  OBVIOUS
<1>4. RemoveMid(s, f, n) = l \o r
  <2>1. Min({f, Len(s)}) = f /\ Min({n, Len(s) - f}) = n
    <3>1. f <= Len(s) /\ n <= Len(s) - f /\ Len(s) - f \in Int
      BY <1>1, <1>2
    <3>2. Min({f, Len(s)}) = IF f <= Len(s) THEN f ELSE Len(s)
      BY <1>1, MinMaxTwo
    <3>3. Min({n, Len(s) - f}) = IF n <= Len(s) - f THEN n ELSE Len(s) - f
      BY <1>2, <3>1, MinMaxTwo
    <3> QED BY <3>1, <3>2, <3>3
  <2> QED BY <1>3, <2>1 DEF RemoveMid
<1>5. l \in Seq(A) /\ Len(l) = f /\ \A i \in 1..f : l[i] = s[i]
  <2>1. l \in Seq(A) /\ Len(l) = (IF f <= Len(s) THEN f ELSE Len(s)) /\ \A i \in 1..Len(l) : l[i] = s[i]
    BY <1>1, <1>3, LeftIs
  <2> QED BY <1>1, <1>2, <2>1
<1>6. r \in Seq(A) /\ Len(r) = Len(s) - (f + n) /\ \A i \in 1..Len(r) : r[i] = s[(f + n) + i]
  <2>1. f + n \in Nat /\ ~(f + n > Len(s))
    BY <1>1, <1>2
  <2>2. r \in Seq(A) /\ Len(r) = (IF f + n > Len(s) THEN 0 ELSE Len(s) - (f + n))
        /\ \A i \in 1..Len(r) : r[i] = s[(f + n) + i]
    BY <1>3, <2>1, MidFromIs
  <2> QED BY <2>1, <2>2
<1>7. PICK u : u = l \o r
  OBVIOUS
<1>8. u \in Seq(A) /\ Len(u) = f + Len(r) /\ Len(r) \in Nat
      /\ (\A i \in 1..f : u[i] = l[i]) /\ \A i \in 1..Len(r) : u[f + i] = r[i]
  <2>1. /\ u \in Seq(A) /\ Len(u) = Len(l) + Len(r)
        /\ (\A i \in 1..Len(l) : u[i] = l[i]) /\ \A i \in 1..Len(r) : u[Len(l) + i] = r[i]
    <3>1. Joined(u, l, r, A)
      BY <1>5, <1>6, <1>7 DEF Joined
    <3> QED BY <3>1, JoinIs
  <2> QED BY <1>5, <1>6, <2>1
<1>9. Left(u, f) = l
  <2>1. PICK v : v = Left(u, f)
    OBVIOUS
  <2>2. v \in Seq(A) /\ Len(v) = (IF f <= Len(u) THEN f ELSE Len(u)) /\ \A i \in 1..Len(v) : v[i] = u[i]
    BY <1>1, <1>8, <2>1, LeftIs
  <2>3. Len(v) = f /\ \A i \in 1..f : v[i] = l[i]
    BY <1>1, <1>8, <2>2
  <2> QED BY <1>5, <2>1, <2>2, <2>3, SameChars
<1>10. MidFrom(u, f) = r
  <2>1. PICK v : v = MidFrom(u, f)
    OBVIOUS
  <2>2. v \in Seq(A) /\ Len(v) = (IF f > Len(u) THEN 0 ELSE Len(u) - f) /\ \A i \in 1..Len(v) : v[i] = u[f + i]
    BY <1>1, <1>8, <2>1, MidFromIs
  <2>3. Len(v) = Len(r) /\ \A i \in 1..Len(r) : v[i] = r[i]
    BY <1>1, <1>8, <2>2
  <2> QED BY <1>6, <2>1, <2>2, <2>3, SameChars
<1>11. ASSUME NEW a \in Seq(A), NEW b \in Seq(A) PROVE Append2(a, b) = a \o b
  <2>1. CASE b = <<>>
    BY <2>1 DEF Append2
  <2>2. CASE b # <<>> /\ a = <<>>
    BY <2>2 DEF Append2
  <2>3. CASE b # <<>> /\ a # <<>>
    BY <2>3 DEF Append2
  <2> QED BY <2>1, <2>2, <2>3
<1>12. Insert(u, f, t) = (l \o t) \o r
  <2>1. ~(f < 0) /\ ~(f > Len(u))
    BY <1>1, <1>8
  <2>2. Insert(u, f, t) = Append2(Append2(l, t), r)
    BY <1>9, <1>10, <2>1 DEF Insert
  <2>3. l \o t \in Seq(A)
    BY <1>5
  <2> QED BY <1>5, <1>6, <1>11, <2>2, <2>3
<1>13. PICK w : w = (l \o t) \o r
  OBVIOUS
<1>14. PICK x : x = l \o t
  OBVIOUS
<1>15. /\ x \in Seq(A) /\ Len(x) = f + n
       /\ (\A i \in 1..f : x[i] = l[i]) /\ \A i \in 1..n : x[f + i] = t[i]
  <2>1. /\ x \in Seq(A) /\ Len(x) = Len(l) + Len(t)
        /\ (\A i \in 1..Len(l) : x[i] = l[i]) /\ \A i \in 1..Len(t) : x[Len(l) + i] = t[i]
    <3>1. Joined(x, l, t, A)
      BY <1>5, <1>14 DEF Joined
    <3> QED BY <3>1, JoinIs
  <2> QED BY <1>2, <1>5, <2>1
<1>16. /\ w \in Seq(A) /\ Len(w) = Len(s)
       /\ (\A i \in 1..(f + n) : w[i] = x[i]) /\ \A i \in 1..Len(r) : w[(f + n) + i] = r[i]
  <2>1. /\ w \in Seq(A) /\ Len(w) = Len(x) + Len(r)
        /\ (\A i \in 1..Len(x) : w[i] = x[i]) /\ \A i \in 1..Len(r) : w[Len(x) + i] = r[i]
    <3>1. Joined(w, x, r, A)
      BY <1>6, <1>13, <1>14, <1>15 DEF Joined
    <3> QED BY <3>1, JoinIs
  <2>2. Len(x) + Len(r) = Len(s)
    BY <1>1, <1>2, <1>6, <1>15
  <2> QED BY <1>15, <2>1, <2>2
<1>17. \A i \in 1..Len(s) : w[i] = s[i]
  <2> SUFFICES ASSUME NEW i \in 1..Len(s) PROVE w[i] = s[i]
    OBVIOUS
  <2>1. CASE i <= f
    BY <1>1, <1>2, <1>5, <1>15, <1>16, <2>1
  <2>2. CASE ~(i <= f) /\ i <= f + n
    <3>1. i - f \in 1..n /\ f + (i - f) = i
      BY <1>1, <1>2, <2>2
    <3>2. PICK j \in 1..n : i = f + j
      BY <3>1
    <3>3. w[i] = x[i] /\ x[f + j] = t[j] /\ s[f + j] = t[j]
      BY <1>1, <1>2, <1>15, <1>16, <2>2, <3>2
    <3> QED BY <3>2, <3>3
  <2>3. CASE ~(i <= f + n)
    <3>1. i - (f + n) \in 1..Len(r) /\ (f + n) + (i - (f + n)) = i
      BY <1>1, <1>2, <1>6, <2>3
    <3> QED BY <1>6, <1>16, <2>3, <3>1
  <2> QED BY <2>1, <2>2, <2>3
<1>18. w = s
  BY <1>16, <1>17, SameChars
<1> QED BY <1>2, <1>4, <1>7, <1>12, <1>13, <1>18

\* What is put in at the beginning is found there.
LEMMA PutAtFront ==
  ASSUME NEW A, NEW s \in Seq(A), NEW t \in Seq(A), t # <<>>
  PROVE  Find(Insert(s, -Len(s), t), t, 0) = 0
<1>1. Len(s) \in Nat /\ Len(t) \in Nat /\ 0 \in Nat
  OBVIOUS
<1>2. Insert(s, -Len(s), t) = Append2(Append2(Left(s, 0), t), MidFrom(s, 0))
  <2>1. PICK p : p = IF -Len(s) < 0 THEN Max({Len(s) + (-Len(s)), 0}) ELSE -Len(s)
    OBVIOUS
  <2>2. PICK a \in Int, b \in Int : a = Len(s) + (-Len(s)) /\ b = 0 /\ a = 0
    BY <1>1
  <2>3. Max({a, b}) = IF a >= b THEN a ELSE b
    BY MinMaxTwo
  <2>4. p = 0
    <3>1. p = IF -Len(s) < 0 THEN Max({a, b}) ELSE -Len(s)
      BY <2>1, <2>2
    <3>2. Len(s) = 0 \/ -Len(s) < 0
      BY <1>1
    <3>3. Max({a, b}) = 0
      <4>1. a >= b
        BY <2>2
      <4> QED BY <2>2, <2>3, <4>1
    <3> QED BY <3>1, <3>2, <3>3
  <2>5. ~(0 > Len(s))
    BY <1>1
  <2> QED BY <2>1, <2>4, <2>5 DEF Insert
<1>3. PICK l, r : l = Left(s, 0) /\ r = MidFrom(s, 0)
  OBVIOUS
<1>4. l \in Seq(A) /\ Len(l) = 0 /\ r \in Seq(A)
  <2>1. Len(l) = (IF 0 <= Len(s) THEN 0 ELSE Len(s))
    BY <1>1, <1>3, LeftIs
  <2> QED BY <1>1, <1>3, <2>1, LeftIs, MidFromIs
<1>5. l = <<>>
  BY <1>4
<1>6. Append2(Append2(l, t), r) = t \o r
  BY <1>4, <1>5 DEF Append2
<1>7. PICK u : u = t \o r
  OBVIOUS
<1>8. u \in Seq(A) /\ Occ(u, t, 0)
  <2>1. u \in Seq(A) /\ Len(u) = Len(t) + Len(r) /\ Len(r) \in Nat
    BY <1>4, <1>7
  <2>2. \A i \in 1..Len(t) : u[0 + i] = t[i]
    BY <1>1, <1>4, <1>7
  <2> QED BY <1>1, <2>1, <2>2 DEF Occ
<1>9. PICK f : f = Find(u, t, 0)
  OBVIOUS
<1>10. \/ f = None /\ \A p \in Nat : p >= 0 => ~Occ(u, t, p)
       \/ f \in Nat /\ f >= 0 /\ Occ(u, t, f) /\ \A p \in Nat : p >= 0 /\ p < f => ~Occ(u, t, p)
  BY <1>1, <1>8, <1>9, FindIs
<1>11. f = 0
  BY <1>1, <1>8, <1>10
<1> QED BY <1>2, <1>3, <1>6, <1>7, <1>9, <1>11

\* StringIndex finds a key under its last index, whatever the hashes are.
LEMMA IndexLaws ==
  ASSUME NEW s, NEW t
  PROVE  /\ \A k \in {s, t} : IndexFind(<<t, s, t>>, k) = (IF k = t THEN 2 ELSE 1)
         /\ IndexFind(<<t>>, s) = (IF s = t THEN 0 ELSE None)
<1>1. ASSUME NEW i \in Nat PROVE Min({i}) = i
  BY <1>1, MinIs
<1>2. ASSUME NEW k \in {s, t} PROVE IndexFind(<<t, s, t>>, k) = (IF k = t THEN 2 ELSE 1)
  <2>1. PICK keys : keys = <<t, s, t>>
    OBVIOUS
  <2>2. DOMAIN keys = {1, 2, 3} /\ keys[1] = t /\ keys[2] = s /\ keys[3] = t
    BY <2>1
  <2>3. PICK hits : hits = {i \in Chain(keys, k) : keys[i] = k}
    OBVIOUS
  <2>4. \A i : i \in hits <=> /\ i \in DOMAIN keys /\ keys[i] = k
                              /\ \A j \in DOMAIN keys : j > i => keys[j] # keys[i]
    BY <2>3 DEF Chain
  <2>5. CASE k = t
    <3>1. hits = {3}
      BY <2>2, <2>4, <2>5
    <3>2. Min(hits) = 3
      BY <1>1, <3>1
    <3> QED BY <2>1, <2>3, <2>5, <3>1, <3>2 DEF IndexFind
  <2>6. CASE k # t
    <3>1. k = s
      BY <2>6
    <3>2. hits = {2}
      BY <2>2, <2>4, <2>6, <3>1
    <3>3. Min(hits) = 2
      BY <1>1, <3>2
    <3> QED BY <2>1, <2>3, <2>6, <3>2, <3>3 DEF IndexFind
  <2> QED BY <2>5, <2>6
<1>3. IndexFind(<<t>>, s) = (IF s = t THEN 0 ELSE None)
  <2>1. PICK keys : keys = <<t>>
    OBVIOUS
  <2>2. DOMAIN keys = {1} /\ keys[1] = t
    BY <2>1
  <2>3. PICK hits : hits = {i \in Chain(keys, s) : keys[i] = s}
    OBVIOUS
  <2>4. \A i : i \in hits <=> /\ i \in DOMAIN keys /\ keys[i] = s
                              /\ \A j \in DOMAIN keys : j > i => keys[j] # keys[i]
    BY <2>3 DEF Chain
  <2>5. CASE s = t
    <3>1. hits = {1}
      BY <2>2, <2>4, <2>5
    <3>2. Min(hits) = 1
      BY <1>1, <3>1
    <3> QED BY <2>1, <2>3, <2>5, <3>1, <3>2 DEF IndexFind
  <2>6. CASE s # t
    <3>1. hits = {}
      BY <2>2, <2>4, <2>6
    <3> QED BY <2>1, <2>3, <2>6, <3>1 DEF IndexFind
  <2> QED BY <2>5, <2>6
<1> QED BY <1>2, <1>3

-----------------------------------------------------------------------------
(* replace() and back.                                                     *)

\* The text z is y with rep in the place of the n characters from position p on.
Spliced(z, y, p, n, rep) ==
    /\ Len(z) = Len(y) - n + Len(rep)
    /\ \A i \in 1..p : z[i] = y[i]
    /\ \A i \in 1..Len(rep) : z[p + i] = rep[i]
    /\ \A i \in 1..(Len(y) - p - n) : z[p + Len(rep) + i] = y[p + n + i]

\* One round: nothing is found behind the position, or the first needle there is
\* replaced and the search goes on behind what is put in.
FoundNone(r, new, what) ==
    new = <<r[1], None>> /\ \A p \in Nat : p >= r[2] => ~Occ(r[1], what, p)
FoundAt(r, new, what, rep, p) ==
    /\ p \in Nat /\ p >= r[2] /\ Occ(r[1], what, p)
    /\ \A o \in Nat : o >= r[2] /\ o < p => ~Occ(r[1], what, o)
    /\ new = <<new[1], p + Len(rep)>> /\ Spliced(new[1], r[1], p, Len(what), rep)
Searched(r, what, rep, A) ==
    /\ \E y \in Seq(A), q \in Nat : r = <<y, q>>
    /\ what \in Seq(A) /\ what # <<>> /\ rep \in Seq(A)

\* Round() does that.
LEMMA RoundIs ==
  ASSUME NEW r, NEW what, NEW rep, NEW A, Searched(r, what, rep, A), NEW new, new = Round(r, what, rep)
  PROVE  FoundNone(r, new, what) \/ (new[1] \in Seq(A) /\ \E p : FoundAt(r, new, what, rep, p))
<1>1. PICK y \in Seq(A), q \in Nat : r = <<y, q>>
  BY DEF Searched
<1>2. r[1] = y /\ r[2] = q /\ q # None /\ what \in Seq(A) /\ what # <<>> /\ rep \in Seq(A)
  BY <1>1 DEF Searched, None
<1>3. PICK f : f = Find(y, what, q)
  OBVIOUS
<1>4. new = IF f = None THEN <<y, None>>
            ELSE <<Left(y, f) \o rep \o MidFrom(y, f + Len(what)), f + Len(rep)>>
  BY <1>2, <1>3 DEF Round
<1>5. \/ f = None /\ \A p \in Nat : p >= q => ~Occ(y, what, p)
      \/ f \in Nat /\ f >= q /\ Occ(y, what, f) /\ \A p \in Nat : p >= q /\ p < f => ~Occ(y, what, p)
  BY <1>2, <1>3, FindIs
<1>6. CASE f = None
  <2>1. \A p \in Nat : p >= q => ~Occ(y, what, p)
    BY <1>5, <1>6 DEF None
  <2> QED BY <1>2, <1>4, <1>6, <2>1 DEF FoundNone
<1>7. CASE f # None
  <2>1. f \in Nat /\ f >= q /\ Occ(y, what, f) /\ \A p \in Nat : p >= q /\ p < f => ~Occ(y, what, p)
    BY <1>5, <1>7
  <2>2. PICK n \in Nat, k \in Nat, m \in Nat : n = Len(what) /\ k = Len(rep) /\ m = Len(y)
    BY <1>2
  <2>3. f + n <= m
    BY <2>1, <2>2 DEF Occ
  <2>4. PICK l, e : l = Left(y, f) /\ e = MidFrom(y, f + n)
    OBVIOUS
  <2>5. l \in Seq(A) /\ Len(l) = f /\ \A i \in 1..f : l[i] = y[i]
    <3>1. l \in Seq(A) /\ Len(l) = (IF f <= Len(y) THEN f ELSE Len(y)) /\ \A i \in 1..Len(l) : l[i] = y[i]
      BY <2>1, <2>4, LeftIs
    <3> QED BY <2>1, <2>2, <2>3, <3>1
  <2>6. e \in Seq(A) /\ Len(e) = m - f - n /\ \A i \in 1..Len(e) : e[i] = y[f + n + i]
    <3>1. f + n \in Nat /\ ~(f + n > m)
      BY <2>1, <2>2, <2>3
    <3>2. e \in Seq(A) /\ Len(e) = (IF f + n > Len(y) THEN 0 ELSE Len(y) - (f + n))
          /\ \A i \in 1..Len(e) : e[i] = y[(f + n) + i]
      BY <2>4, <3>1, MidFromIs
    <3> QED BY <2>1, <2>2, <3>1, <3>2
  <2>7. PICK a, z : a = l \o rep /\ z = a \o e
    OBVIOUS
  <2>8. /\ a \in Seq(A) /\ Len(a) = f + k
        /\ (\A i \in 1..f : a[i] = l[i]) /\ \A i \in 1..k : a[f + i] = rep[i]
    <3>1. Joined(a, l, rep, A)
      BY <1>2, <2>5, <2>7 DEF Joined
    <3>2. /\ a \in Seq(A) /\ Len(a) = Len(l) + Len(rep)
          /\ (\A i \in 1..Len(l) : a[i] = l[i]) /\ \A i \in 1..Len(rep) : a[Len(l) + i] = rep[i]
      BY <3>1, JoinIs
    <3> QED BY <2>2, <2>5, <3>2
  <2>9. /\ z \in Seq(A) /\ Len(z) = (f + k) + (m - f - n)
        /\ (\A i \in 1..(f + k) : z[i] = a[i]) /\ \A i \in 1..(m - f - n) : z[f + k + i] = e[i]
    <3>1. Joined(z, a, e, A)
      BY <2>6, <2>7, <2>8 DEF Joined
    <3>2. /\ z \in Seq(A) /\ Len(z) = Len(a) + Len(e)
          /\ (\A i \in 1..Len(a) : z[i] = a[i]) /\ \A i \in 1..Len(e) : z[Len(a) + i] = e[i]
      BY <3>1, JoinIs
    <3> QED BY <2>6, <2>8, <3>2
  <2>10. new = <<z, f + k>> /\ new[1] = z
    <3>1. new = <<Left(y, f) \o rep \o MidFrom(y, f + Len(what)), f + Len(rep)>>
      BY <1>4, <1>7
    <3>2. Left(y, f) \o rep \o MidFrom(y, f + Len(what)) = z
      BY <2>2, <2>4, <2>7
    <3>3. new = <<z, f + k>>
      BY <2>2, <3>1, <3>2
    <3> QED BY <3>3
  <2>11. Spliced(z, y, f, n, rep)
    <3>1. Len(z) = m - n + k
      <4>1. (f + k) + (m - f - n) = m - n + k
        BY <2>1, <2>2
      <4> QED BY <2>9, <4>1
    <3>2. \A i \in 1..f : i \in 1..(f + k)
      BY <2>1, <2>2
    <3>3. \A i \in 1..k : f + i \in 1..(f + k)
      BY <2>1, <2>2
    <3>4. \A i \in 1..f : z[i] = y[i]
      BY <2>5, <2>8, <2>9, <3>2
    <3>5. \A i \in 1..k : z[f + i] = rep[i]
      BY <2>8, <2>9, <3>3
    <3>6. \A i \in 1..(m - f - n) : z[f + k + i] = y[f + n + i]
      BY <2>6, <2>9
    <3> QED BY <2>2, <3>1, <3>4, <3>5, <3>6 DEF Spliced
  <2>12. FoundAt(r, new, what, rep, f)
    BY <1>2, <2>1, <2>2, <2>10, <2>11 DEF FoundAt
  <2> QED BY <2>9, <2>10, <2>12
<1> QED BY <1>6, <1>7

\* A loop that has ended does nothing more.
LEMMA RoundEnded ==
  ASSUME NEW y, NEW what, NEW rep
  PROVE  Round(<<y, None>>, what, rep) = <<y, None>>
BY DEF Round

\* The text s and the needle t do not contain the character c.
Setting(s, t, c, A) ==
    /\ s \in Seq(A) /\ t \in Seq(A) /\ t # <<>> /\ c \in A
    /\ \A i \in 1..Len(s) : s[i] # c
    /\ \A i \in 1..Len(t) : t[i] # c

\* After j rounds of replacing t by c: what is behind the position is the end of s,
\* and no needle is before it.
Reached(r, j, s, t, A) ==
    \E y \in Seq(A), q \in Nat \cup {None} :
      /\ r = <<y, q>> /\ Len(y) <= Len(s)
      /\ q # None =>
           /\ j <= q /\ q <= Len(y) /\ Len(y) - q + j <= Len(s)
           /\ \A i \in 1..(Len(y) - q) : y[q + i] = s[Len(s) - (Len(y) - q) + i]
           /\ \A p \in Nat : p < q => ~Occ(y, t, p)
      /\ q = None => \A p \in Nat : ~Occ(y, t, p)

\* A round leaves no needle before the new position: it would contain the new
\* character.
LEMMA NoNeedleBefore ==
  ASSUME NEW s, NEW t, NEW c, NEW A, Setting(s, t, c, A), NEW y \in Seq(A), NEW z \in Seq(A), NEW p \in Nat,
         Spliced(z, y, p, Len(t), <<c>>), p + Len(t) <= Len(y),
         \A o \in Nat : o < p => ~Occ(y, t, o)
  PROVE  \A o \in Nat : o < p + 1 => ~Occ(z, t, o)
<1> SUFFICES ASSUME NEW o \in Nat, o < p + 1, Occ(z, t, o) PROVE FALSE
  OBVIOUS
<1>1. PICK m \in Nat : m = Len(t) /\ m >= 1
  BY DEF Setting
<1>2. (\A i \in 1..p : z[i] = y[i]) /\ z[p + 1] = c
  <2>1. Len(<<c>>) = 1 /\ <<c>>[1] = c /\ 1 \in 1..Len(<<c>>)
    OBVIOUS
  <2> QED BY <2>1 DEF Spliced
<1>3. \A i \in 1..m : z[o + i] = t[i] /\ t[i] # c
  BY <1>1 DEF Occ, Setting
<1>4. CASE o + m > p
  <2>1. p + 1 - o \in 1..m /\ o + (p + 1 - o) = p + 1
    BY <1>1, <1>4
  <2> QED BY <1>2, <1>3, <2>1
<1>5. CASE ~(o + m > p)
  <2>1. \A i \in 1..m : o + i \in 1..p
    BY <1>1, <1>5
  <2>2. \A i \in 1..m : y[o + i] = t[i]
    BY <1>2, <1>3, <2>1
  <2>3. Len(y) \in Nat /\ o + m <= Len(y) /\ o < p
    BY <1>1, <1>5
  <2>4. Occ(y, t, o)
    BY <1>1, <2>2, <2>3 DEF Occ
  <2> QED BY <2>3, <2>4
<1> QED BY <1>4, <1>5

\* One round more.
LEMMA ReachedStep ==
  ASSUME NEW s, NEW t, NEW c, NEW A, Setting(s, t, c, A), NEW j \in Nat, NEW r, Reached(r, j, s, t, A),
         NEW new, new = Round(r, t, <<c>>)
  PROVE  Reached(new, j + 1, s, t, A)
<1>1. PICK y \in Seq(A), q \in Nat \cup {None} :
        /\ r = <<y, q>> /\ Len(y) <= Len(s)
        /\ q # None =>
             /\ j <= q /\ q <= Len(y) /\ Len(y) - q + j <= Len(s)
             /\ \A i \in 1..(Len(y) - q) : y[q + i] = s[Len(s) - (Len(y) - q) + i]
             /\ \A p \in Nat : p < q => ~Occ(y, t, p)
        /\ q = None => \A p \in Nat : ~Occ(y, t, p)
  BY DEF Reached
<1>2. r[1] = y /\ r[2] = q
  BY <1>1
<1>3. CASE q = None
  <2>1. new = <<y, None>>
    BY <1>1, <1>3, RoundEnded
  <2> QED BY <1>1, <1>3, <2>1 DEF Reached
<1>4. CASE q # None
  <2>1. q \in Nat
    BY <1>4
  <2>2. <<c>> \in Seq(A) /\ Len(<<c>>) = 1 /\ <<c>>[1] = c
    BY DEF Setting
  <2>3. Searched(r, t, <<c>>, A)
    BY <1>1, <2>1, <2>2 DEF Searched, Setting
  <2>4. CASE FoundNone(r, new, t)
    <3>1. new = <<y, None>> /\ \A p \in Nat : p >= q => ~Occ(y, t, p)
      BY <1>2, <2>4 DEF FoundNone
    <3>2. \A p \in Nat : ~Occ(y, t, p)
      BY <1>1, <1>4, <2>1, <3>1
    <3>3. None \in Nat \cup {None}
      OBVIOUS
    <3> QED BY <1>1, <3>1, <3>2, <3>3 DEF Reached
  <2>5. ASSUME NEW p, FoundAt(r, new, t, <<c>>, p), new[1] \in Seq(A) PROVE Reached(new, j + 1, s, t, A)
    <3>1. PICK z : z = new[1]
      OBVIOUS
    <3>2. /\ p \in Nat /\ p >= q /\ Occ(y, t, p) /\ z \in Seq(A)
          /\ \A o \in Nat : o >= q /\ o < p => ~Occ(y, t, o)
          /\ new = <<z, p + 1>> /\ Spliced(z, y, p, Len(t), <<c>>)
      BY <1>2, <2>2, <2>5, <3>1 DEF FoundAt
    <3>3. PICK m \in Nat, L \in Nat, n \in Nat : m = Len(t) /\ L = Len(y) /\ n = Len(s) /\ m >= 1
      BY DEF Setting
    <3>4. p + m <= L
      BY <3>2, <3>3 DEF Occ
    <3>5. Len(z) = L - m + 1 /\ \A i \in 1..(L - p - m) : z[p + 1 + i] = y[p + m + i]
      BY <2>2, <3>2, <3>3 DEF Spliced
    <3>6. \A o \in Nat : o < p + 1 => ~Occ(z, t, o)
      <4>1. \A o \in Nat : o < p => ~Occ(y, t, o)
        BY <1>1, <1>4, <2>1, <3>2
      <4> QED BY <3>2, <3>3, <3>4, <4>1, NoNeedleBefore
    <3>7. /\ j + 1 <= p + 1 /\ p + 1 <= Len(z) /\ Len(z) - (p + 1) = L - p - m
          /\ Len(z) - (p + 1) + (j + 1) <= n /\ Len(z) <= n /\ p + 1 \in Nat /\ p + 1 # None
      BY <1>1, <1>4, <2>1, <3>2, <3>3, <3>4, <3>5 DEF None
    <3>8. ASSUME NEW i \in 1..(L - p - m) PROVE z[(p + 1) + i] = s[n - (L - p - m) + i]
      <4>1. PICK k \in 1..(L - q) : k = p - q + m + i
        <5>1. p - q + m + i \in 1..(L - q)
          <6>1. i \in Nat /\ i >= 1 /\ i <= L - p - m /\ p - q >= 0
            BY <2>1, <3>2, <3>3, <3>4
          <6>2. p - q + m + i \in Int /\ p - q + m + i >= 1 /\ p - q + m + i <= L - q
            BY <2>1, <3>2, <3>3, <6>1
          <6> QED BY <2>1, <3>3, <6>2
        <5> QED BY <5>1
      <4>2. q + k = p + m + i /\ n - (L - q) + k = n - (L - p - m) + i
        BY <2>1, <3>2, <3>3, <4>1
      <4>3. y[q + k] = s[n - (L - q) + k]
        BY <1>1, <1>4, <3>3, <4>1
      <4> QED BY <3>5, <4>2, <4>3
    <3>9. PICK q1 \in Nat : q1 = p + 1
      BY <3>7
    <3>10. /\ new = <<z, q1>> /\ Len(z) <= Len(s) /\ q1 # None
           /\ j + 1 <= q1 /\ q1 <= Len(z) /\ Len(z) - q1 + (j + 1) <= Len(s)
      BY <3>2, <3>3, <3>7, <3>9
    <3>11. \A i \in 1..(Len(z) - q1) : z[q1 + i] = s[Len(s) - (Len(z) - q1) + i]
      BY <3>3, <3>7, <3>8, <3>9
    <3>12. \A o \in Nat : o < q1 => ~Occ(z, t, o)
      BY <3>6, <3>9
    <3>13. /\ q1 \in Nat \cup {None}
           /\ q1 # None =>
                /\ j + 1 <= q1 /\ q1 <= Len(z) /\ Len(z) - q1 + (j + 1) <= Len(s)
                /\ \A i \in 1..(Len(z) - q1) : z[q1 + i] = s[Len(s) - (Len(z) - q1) + i]
                /\ \A o \in Nat : o < q1 => ~Occ(z, t, o)
           /\ q1 = None => \A o \in Nat : ~Occ(z, t, o)
      BY <3>10, <3>11, <3>12
    <3> HIDE DEF Occ
    <3> QED BY <3>2, <3>10, <3>13, Zenon DEF Reached
  <2> QED BY <2>3, <2>4, <2>5, RoundIs
<1> QED BY <1>3, <1>4

\* The rounds of replacing t by c.
LEMMA AllReached ==
  ASSUME NEW s, NEW t, NEW c, NEW A, Setting(s, t, c, A), NEW n \in Nat, NEW st, Rounds(st, s, t, <<c>>, n)
  PROVE  \A j \in 0..n : Reached(st[j], j, s, t, A)
<1> DEFINE F == {j \in 0..n : ~Reached(st[j], j, s, t, A)}
<1> SUFFICES ASSUME F # {} PROVE FALSE
  OBVIOUS
<1>1. F \in SUBSET Nat
  OBVIOUS
<1>2. PICK k \in F : \A j \in F : k <= j
  BY <1>1, Smallest
<1>3. k \in 0..n /\ ~Reached(st[k], k, s, t, A)
  BY <1>2
<1>4. k # 0
  <2>1. st[0] = <<s, 0>> /\ 0 \in Nat \cup {None} /\ 0 # None
    BY DEF Rounds, None
  <2>2. s \in Seq(A) /\ Len(s) \in Nat
    BY DEF Setting
  <2>3. \A i \in 1..(Len(s) - 0) : s[0 + i] = s[Len(s) - (Len(s) - 0) + i]
    BY <2>2
  <2>4. 0 <= 0 /\ 0 <= Len(s) /\ Len(s) - 0 + 0 <= Len(s) /\ Len(s) <= Len(s)
    BY <2>2
  <2>5. \A p \in Nat : ~(p < 0)
    OBVIOUS
  <2>6. Reached(st[0], 0, s, t, A)
    BY <2>1, <2>2, <2>3, <2>4, <2>5 DEF Reached
  <2> QED BY <1>3, <2>6
<1>5. PICK j \in 0..n : k = j + 1 /\ j + 1 \in 1..n
  <2>1. k - 1 \in 0..n /\ k = (k - 1) + 1
    BY <1>3, <1>4
  <2> QED BY <1>3, <1>4, <2>1
<1>6. j \notin F
  BY <1>2, <1>5
<1>7. Reached(st[j], j, s, t, A) /\ j \in Nat
  BY <1>6
<1>8. st[j + 1] = Round(st[j], t, <<c>>)
  <2>1. (j + 1) - 1 = j
    BY <1>7
  <2> QED BY <1>5, <2>1 DEF Rounds
<1>9. Reached(st[j + 1], j + 1, s, t, A)
  BY <1>7, <1>8, ReachedStep
<1> QED BY <1>3, <1>5, <1>9

\* replace() by a character that neither has leaves none of the needles.
LEMMA ReplaceLeavesNone ==
  ASSUME NEW s, NEW t, NEW c, NEW A, Setting(s, t, c, A)
  PROVE  Find(Replace(s, t, <<c>>), t, 0) = None
<1>1. s \in Seq(A) /\ t \in Seq(A) /\ t # <<>> /\ Len(s) \in Nat /\ 0 \in Nat
  BY DEF Setting
<1>2. PICK st : Rounds(st, s, t, <<c>>, Len(s)) /\ ReplaceFrom(s, t, <<c>>) = st[Len(s)][1]
  BY <1>1, ReplaceRounds
<1>3. Len(s) \in 0..Len(s)
  BY <1>1
<1>4. Reached(st[Len(s)], Len(s), s, t, A)
  BY <1>1, <1>2, <1>3, AllReached
<1>5. PICK y \in Seq(A), q \in Nat \cup {None} :
        /\ st[Len(s)] = <<y, q>>
        /\ q # None => q <= Len(y) /\ Len(y) - q + Len(s) <= Len(s) /\ \A p \in Nat : p < q => ~Occ(y, t, p)
        /\ q = None => \A p \in Nat : ~Occ(y, t, p)
  BY <1>4 DEF Reached
<1>6. \A p \in Nat : ~Occ(y, t, p)
  <2>1. CASE q = None
    BY <1>5, <2>1
  <2>2. CASE q # None
    <3>1. q \in Nat /\ Len(y) \in Nat /\ Len(t) \in Nat /\ Len(t) >= 1 /\ q = Len(y)
      BY <1>1, <1>5, <2>2
    <3>2. ASSUME NEW p \in Nat, Occ(y, t, p) PROVE FALSE
      <4>1. p < q
        BY <3>1, <3>2 DEF Occ
      <4> QED BY <1>5, <2>2, <3>2, <4>1
    <3> QED BY <3>2
  <2> QED BY <2>1, <2>2
<1>7. Replace(s, t, <<c>>) = y
  BY <1>1, <1>2, <1>5 DEF Replace
<1>8. Find(y, t, 0) = None
  BY <1>1, <1>6, FindIs
<1> QED BY <1>7, <1>8

\* What is before the position stays as it is, and a loop that has ended stays.
Keeps(r, new) ==
    /\ r[2] # None => /\ r[2] <= Len(new[1]) /\ \A i \in 1..r[2] : new[1][i] = r[1][i]
                      /\ new[2] # None => r[2] <= new[2]
    /\ r[2] = None => new = r

\* What a round puts in is behind the position.
LEMMA RoundKeeps ==
  ASSUME NEW s, NEW t, NEW c, NEW A, Setting(s, t, c, A), NEW j \in Nat, NEW r, Reached(r, j, s, t, A),
         NEW new, new = Round(r, t, <<c>>)
  PROVE  Keeps(r, new)
<1>1. PICK y \in Seq(A), q \in Nat \cup {None} : r = <<y, q>> /\ (q # None => q <= Len(y))
  BY DEF Reached
<1>2. r[1] = y /\ r[2] = q
  BY <1>1
<1>3. CASE q = None
  <2>1. new = <<y, None>>
    BY <1>1, <1>3, RoundEnded
  <2> QED BY <1>1, <1>2, <1>3, <2>1 DEF Keeps
<1>4. CASE q # None
  <2>1. q \in Nat /\ Len(y) \in Nat /\ q <= Len(y)
    BY <1>1, <1>4
  <2>2. <<c>> \in Seq(A) /\ Len(<<c>>) = 1
    BY DEF Setting
  <2>3. Searched(r, t, <<c>>, A)
    BY <1>1, <2>1, <2>2 DEF Searched, Setting
  <2>4. CASE FoundNone(r, new, t)
    <3>1. new[1] = y /\ new[2] = None
      BY <1>2, <2>4 DEF FoundNone
    <3> QED BY <1>2, <1>4, <2>1, <3>1 DEF Keeps
  <2>5. ASSUME NEW p, FoundAt(r, new, t, <<c>>, p) PROVE Keeps(r, new)
    <3>1. PICK z : z = new[1]
      OBVIOUS
    <3>2. /\ p \in Nat /\ p >= q /\ new[2] = p + 1 /\ (\A i \in 1..p : z[i] = y[i])
          /\ Len(z) = Len(y) - Len(t) + 1 /\ p + Len(t) <= Len(y)
      <4>1. /\ p \in Nat /\ p >= q /\ Occ(y, t, p) /\ new = <<z, p + 1>>
            /\ Spliced(z, y, p, Len(t), <<c>>)
        BY <1>2, <2>2, <2>5, <3>1 DEF FoundAt
      <4>2. p + Len(t) <= Len(y)
        BY <4>1 DEF Occ
      <4>3. (\A i \in 1..p : z[i] = y[i]) /\ Len(z) = Len(y) - Len(t) + 1
        BY <2>2, <4>1 DEF Spliced
      <4> QED BY <4>1, <4>2, <4>3
    <3>3. q <= p + 1 /\ q <= Len(z) /\ \A i \in 1..q : i \in 1..p
      <4>1. Len(t) \in Nat
        BY DEF Setting
      <4> QED BY <2>1, <3>2, <4>1
    <3>4. \A i \in 1..q : z[i] = y[i]
      BY <3>2, <3>3
    <3> QED BY <1>2, <1>4, <3>1, <3>2, <3>3, <3>4 DEF Keeps
  <2> QED BY <2>3, <2>4, <2>5, RoundIs
<1> QED BY <1>3, <1>4

\* It is kept to the end.
LEMMA AllKept ==
  ASSUME NEW s, NEW t, NEW c, NEW A, Setting(s, t, c, A), NEW n \in Nat, NEW st, Rounds(st, s, t, <<c>>, n),
         NEW j \in 0..n
  PROVE  \A k \in j..n : Keeps(st[j], st[k])
<1> DEFINE F == {k \in j..n : ~Keeps(st[j], st[k])}
<1> SUFFICES ASSUME F # {} PROVE FALSE
  OBVIOUS
<1>1. F \in SUBSET Nat
  OBVIOUS
<1>2. PICK k \in F : \A i \in F : k <= i
  BY <1>1, Smallest
<1>3. k \in j..n /\ ~Keeps(st[j], st[k])
  BY <1>2
<1>4. \A i \in 0..n : Reached(st[i], i, s, t, A)
  BY AllReached
<1>5. PICK y \in Seq(A), q \in Nat \cup {None} : st[j] = <<y, q>> /\ (q # None => q <= Len(y))
  BY <1>4 DEF Reached
<1>6. k # j
  <2>1. Keeps(st[j], st[j])
    <3>1. st[j][1] = y /\ st[j][2] = q /\ (q # None => q \in Nat)
      BY <1>5
    <3> QED BY <1>5, <3>1 DEF Keeps
  <2> QED BY <1>3, <2>1
<1>7. PICK i \in j..n : k = i + 1 /\ i + 1 \in 1..n /\ i \in 0..n
  <2>1. k - 1 \in j..n /\ k = (k - 1) + 1
    BY <1>3, <1>6
  <2> QED BY <1>3, <1>6, <2>1
<1>8. i \notin F
  BY <1>2, <1>7
<1>9. Keeps(st[j], st[i])
  BY <1>8
<1>10. Keeps(st[i], st[k])
  <2>1. st[i + 1] = Round(st[i], t, <<c>>)
    <3>1. (i + 1) - 1 = i
      BY <1>7
    <3> QED BY <1>7, <3>1 DEF Rounds
  <2>2. Reached(st[i], i, s, t, A) /\ i \in Nat
    BY <1>4, <1>7
  <2> QED BY <1>7, <2>1, <2>2, RoundKeeps
<1>11. PICK z \in Seq(A), o \in Nat \cup {None} : st[i] = <<z, o>>
  BY <1>4, <1>7 DEF Reached
<1>12. CASE q = None
  <2>1. st[i] = st[j]
    BY <1>5, <1>9, <1>12 DEF Keeps
  <2>2. st[k] = st[j]
    BY <1>5, <1>10, <1>12, <2>1 DEF Keeps
  <2> QED BY <1>3, <1>5, <1>12, <2>2 DEF Keeps
<1>13. CASE q # None
  <2>1. q \in Nat /\ st[j][1] = y /\ st[j][2] = q /\ st[i][1] = z /\ st[i][2] = o
    BY <1>5, <1>11, <1>13
  <2>2. q <= Len(z) /\ (\A a \in 1..q : z[a] = y[a]) /\ (o # None => q <= o)
    BY <1>9, <1>13, <2>1 DEF Keeps
  <2>3. CASE o = None
    <3>1. st[k] = st[i]
      BY <1>10, <2>1, <2>3 DEF Keeps
    <3> QED BY <1>3, <1>9, <3>1
  <2>4. CASE o # None
    <3>1. PICK x, e : x = st[k][1] /\ e = st[k][2]
      OBVIOUS
    <3>2. o \in Nat /\ o <= Len(x) /\ (\A a \in 1..o : x[a] = z[a]) /\ (e # None => o <= e)
      BY <1>10, <1>11, <2>1, <2>4, <3>1 DEF Keeps
    <3>3. \A a \in 1..q : a \in 1..o
      BY <2>1, <2>2, <2>4, <3>2
    <3>4. \A a \in 1..q : x[a] = y[a]
      BY <2>2, <3>2, <3>3
    <3>5. Reached(st[k], k, s, t, A)
      BY <1>3, <1>4
    <3>6. Len(x) \in Nat /\ (e # None => e \in Nat)
      BY <3>1, <3>5 DEF Reached
    <3>7. q <= Len(x) /\ (e # None => q <= e)
      BY <2>1, <2>2, <2>4, <3>2, <3>6
    <3>8. Keeps(st[j], st[k])
      BY <1>13, <2>1, <3>1, <3>4, <3>7 DEF Keeps
    <3> QED BY <1>3, <3>8
  <2> QED BY <2>3, <2>4
<1> QED BY <1>12, <1>13

\* The loop that replaces c by t in the result x has come as far: before its
\* position is the beginning of s, behind it what follows in x.
Undone(r, e, x, s, A) ==
    /\ r[2] # None =>
         \E z \in Seq(A), b \in Nat :
           /\ e = <<z, b>> /\ b = Len(s) - (Len(r[1]) - r[2]) /\ Len(z) = b + (Len(x) - r[2])
           /\ \A i \in 1..b : z[i] = s[i]
           /\ \A i \in 1..(Len(x) - r[2]) : z[b + i] = x[r[2] + i]
    /\ r[2] = None => e = <<s, None>>

\* The next c is where the next needle was.
LEMMA NextPlace ==
  ASSUME NEW z, NEW c, NEW b \in Nat, NEW g \in Nat, b + g + 1 <= Len(z), Len(z) \in Nat,
         \A i \in 1..g : z[b + i] # c, z[b + g + 1] = c
  PROVE  Occ(z, <<c>>, b + g) /\ \A o \in Nat : o >= b /\ o < b + g => ~Occ(z, <<c>>, o)
<1>1. Len(<<c>>) = 1 /\ <<c>>[1] = c /\ \A i \in 1..Len(<<c>>) : i = 1
  OBVIOUS
<1>2. Occ(z, <<c>>, b + g)
  <2>1. b + g \in Nat /\ (b + g) + 1 <= Len(z) /\ z[(b + g) + 1] = c
    OBVIOUS
  <2> QED BY <1>1, <2>1 DEF Occ
<1>3. ASSUME NEW o \in Nat, o >= b, o < b + g, Occ(z, <<c>>, o) PROVE FALSE
  <2>1. z[o + 1] = c
    <3>1. 1 \in 1..Len(<<c>>)
      BY <1>1
    <3> QED BY <1>1, <1>3, <3>1 DEF Occ
  <2>2. PICK i \in 1..g : b + i = o + 1
    <3>1. o + 1 - b \in 1..g /\ b + (o + 1 - b) = o + 1
      BY <1>3
    <3> QED BY <3>1
  <2> QED BY <2>1, <2>2
<1> QED BY <1>2, <1>3

\* No c is left to be found behind a position.
LEMMA NoPlace ==
  ASSUME NEW s, NEW c, Len(s) \in Nat, \A i \in 1..Len(s) : s[i] # c
  PROVE  \A o \in Nat : ~Occ(s, <<c>>, o)
<1> SUFFICES ASSUME NEW o \in Nat, Occ(s, <<c>>, o) PROVE FALSE
  OBVIOUS
<1>1. Len(<<c>>) = 1 /\ <<c>>[1] = c /\ 1 \in 1..Len(<<c>>)
  OBVIOUS
<1>2. o + 1 <= Len(s) /\ s[o + 1] = c
  BY <1>1 DEF Occ
<1>3. o + 1 \in 1..Len(s)
  BY <1>2
<1> QED BY <1>2, <1>3

\* A round that goes on: what is behind the position is the end of s.
Behind(r, j, s, y, q) ==
    /\ r = <<y, q>> /\ Len(y) <= Len(s) /\ j <= q /\ q <= Len(y) /\ Len(y) - q + j <= Len(s)
    /\ \A i \in 1..(Len(y) - q) : y[q + i] = s[Len(s) - (Len(y) - q) + i]

\* While the first loop goes on.
LEMMA ReachedGoing ==
  ASSUME NEW s, NEW t, NEW A, NEW j, NEW r, Reached(r, j, s, t, A), r[2] # None
  PROVE  \E y \in Seq(A), q \in Nat : Behind(r, j, s, y, q)
<1>1. PICK y \in Seq(A), q \in Nat \cup {None} :
        /\ r = <<y, q>> /\ Len(y) <= Len(s)
        /\ q # None => /\ j <= q /\ q <= Len(y) /\ Len(y) - q + j <= Len(s)
                       /\ \A i \in 1..(Len(y) - q) : y[q + i] = s[Len(s) - (Len(y) - q) + i]
  BY DEF Reached
<1>2. q # None /\ q \in Nat
  BY <1>1
<1> QED BY <1>1, <1>2 DEF Behind

\* Round by round the two loops go together: where the first one ends.
LEMMA UndoneEnd ==
  ASSUME NEW s, NEW t, NEW c, NEW A, Setting(s, t, c, A), NEW j \in Nat, NEW r, Reached(r, j, s, t, A),
         r[2] # None, NEW new, FoundNone(r, new, t),
         NEW x, x = r[1], NEW e, Undone(r, e, x, s, A), NEW next, next = Round(e, <<c>>, t)
  PROVE  Undone(new, next, x, s, A)
<1>0. PICK y \in Seq(A), q \in Nat : Behind(r, j, s, y, q)
  BY ReachedGoing
<1>1. /\ r = <<y, q>> /\ q <= Len(y) /\ Len(y) - q + j <= Len(s)
      /\ \A i \in 1..(Len(y) - q) : y[q + i] = s[Len(s) - (Len(y) - q) + i]
  BY <1>0 DEF Behind
<1>2. r[1] = y /\ r[2] = q /\ x = y
  BY <1>1
<1>3. PICK z \in Seq(A), b \in Nat :
        /\ e = <<z, b>> /\ b = Len(s) - (Len(y) - q) /\ Len(z) = b + (Len(y) - q)
        /\ \A i \in 1..b : z[i] = s[i]
        /\ \A i \in 1..(Len(y) - q) : z[b + i] = y[q + i]
  BY <1>2 DEF Undone
<1>4. s \in Seq(A) /\ Len(s) \in Nat /\ Len(y) \in Nat
  BY DEF Setting
<1>5. z = s
  <2>1. Len(z) = Len(s)
    BY <1>3, <1>4
  <2>2. ASSUME NEW i \in 1..Len(s) PROVE z[i] = s[i]
    <3>1. CASE i <= b
      BY <1>3, <3>1
    <3>2. CASE ~(i <= b)
      <4>1. PICK k \in 1..(Len(y) - q) : i = b + k
        <5>1. i - b \in 1..(Len(y) - q) /\ i = b + (i - b)
          BY <1>3, <1>4, <3>2
        <5> QED BY <5>1
      <4> QED BY <1>1, <1>3, <4>1
    <3> QED BY <3>1, <3>2
  <2> QED BY <1>4, <2>1, <2>2, SameChars
<1>6. next = <<s, None>>
  <2>1. \A o \in Nat : ~Occ(s, <<c>>, o)
    BY <1>4, NoPlace DEF Setting
  <2>2. <<c>> \in Seq(A) /\ <<c>> # <<>>
    BY DEF Setting
  <2>3. Find(s, <<c>>, b) = None
    BY <1>4, <2>1, <2>2, FindIs
  <2>4. next = Round(<<s, b>>, <<c>>, t)
    BY <1>3, <1>5
  <2>5. b # None
    BY DEF None
  <2> QED BY <2>3, <2>4, <2>5 DEF Round
<1>7. new[2] = None
  BY DEF FoundNone
<1> QED BY <1>6, <1>7 DEF Undone

\* Where the first loop goes on, the second one finds what it put in.
LEMMA UndoneGo ==
  ASSUME NEW s, NEW t, NEW c, NEW A, Setting(s, t, c, A), NEW j \in Nat, NEW r, Reached(r, j, s, t, A),
         r[2] # None, NEW new, NEW p, FoundAt(r, new, t, <<c>>, p),
         NEW x \in Seq(A), p + 1 <= Len(x), \A i \in 1..(p + 1) : x[i] = new[1][i],
         NEW e, Undone(r, e, x, s, A), NEW next, next = Round(e, <<c>>, t)
  PROVE  Undone(new, next, x, s, A)
<1>0. PICK y \in Seq(A), q \in Nat : Behind(r, j, s, y, q)
  BY ReachedGoing
<1>1. /\ r = <<y, q>> /\ Len(y) <= Len(s) /\ j <= q /\ q <= Len(y) /\ Len(y) - q + j <= Len(s)
      /\ \A i \in 1..(Len(y) - q) : y[q + i] = s[Len(s) - (Len(y) - q) + i]
  BY <1>0 DEF Behind
<1>2. r[1] = y /\ r[2] = q
  BY <1>1
<1>3. PICK w : w = new[1]
  OBVIOUS
<1>4. Len(<<c>>) = 1 /\ <<c>>[1] = c /\ 1 \in 1..Len(<<c>>) /\ <<c>> \in Seq(A) /\ <<c>> # <<>>
  BY DEF Setting
<1>5. p \in Nat /\ p >= q /\ Occ(y, t, p) /\ new = <<w, p + 1>> /\ Spliced(w, y, p, Len(t), <<c>>)
  BY <1>2, <1>3, <1>4 DEF FoundAt
<1>6. PICK m \in Nat, L \in Nat, n \in Nat, X \in Nat :
        m = Len(t) /\ L = Len(y) /\ n = Len(s) /\ X = Len(x) /\ m >= 1
  <2>1. s \in Seq(A) /\ t \in Seq(A) /\ t # <<>>
    BY DEF Setting
  <2>2. Len(t) \in Nat /\ Len(y) \in Nat /\ Len(s) \in Nat /\ Len(x) \in Nat /\ Len(t) >= 1
    BY <2>1
  <2> QED BY <2>2
<1>7. p + m <= L /\ \A i \in 1..m : y[p + i] = t[i]
  BY <1>5, <1>6 DEF Occ
<1>8. Len(w) = L - m + 1 /\ (\A i \in 1..p : w[i] = y[i]) /\ w[p + 1] = c
  BY <1>4, <1>5, <1>6 DEF Spliced
<1>9. PICK z \in Seq(A), b \in Nat :
        /\ e = <<z, b>> /\ b = n - (L - q) /\ Len(z) = b + (X - q)
        /\ \A i \in 1..b : z[i] = s[i]
        /\ \A i \in 1..(X - q) : z[b + i] = x[q + i]
  BY <1>2, <1>6 DEF Undone
<1>10. PICK g \in Nat : g = p - q
  BY <1>1, <1>5
<1>11. p + 1 <= X /\ \A i \in 1..(p + 1) : x[i] = w[i]
  BY <1>3, <1>6
<1>12. x[p + 1] = c /\ \A i \in 1..p : x[i] = y[i]
  <2>1. p + 1 \in 1..(p + 1) /\ \A i \in 1..p : i \in 1..(p + 1)
    BY <1>5
  <2> QED BY <1>8, <1>11, <2>1
<1>13. \A i \in 1..g : z[b + i] = s[b + i] /\ z[b + i] # c
  <2> SUFFICES ASSUME NEW i \in 1..g PROVE z[b + i] = s[b + i] /\ z[b + i] # c
    OBVIOUS
  <2>1. i \in 1..(X - q) /\ q + i \in 1..p /\ i \in 1..(L - q) /\ b + i \in 1..n /\ n - (L - q) + i = b + i
    BY <1>1, <1>5, <1>6, <1>7, <1>9, <1>10, <1>11
  <2>2. z[b + i] = y[q + i]
    BY <1>9, <1>12, <2>1
  <2>3. y[q + i] = s[b + i]
    BY <1>1, <1>6, <2>1
  <2> QED BY <1>6, <2>1, <2>2, <2>3 DEF Setting
<1>14. z[b + g + 1] = c /\ b + g + 1 <= Len(z) /\ Len(z) \in Nat
  <2>1. g + 1 \in 1..(X - q) /\ q + (g + 1) = p + 1 /\ b + (g + 1) = b + g + 1
    BY <1>1, <1>5, <1>6, <1>9, <1>10, <1>11
  <2>2. z[b + (g + 1)] = x[q + (g + 1)]
    BY <1>9, <2>1
  <2> QED BY <1>9, <1>12, <2>1, <2>2
<1>15. Occ(z, <<c>>, b + g) /\ \A o \in Nat : o >= b /\ o < b + g => ~Occ(z, <<c>>, o)
  BY <1>13, <1>14, NextPlace
<1>16. PICK f : FoundAt(e, next, <<c>>, t, f) /\ next[1] \in Seq(A)
  <2>1. e[1] = z /\ e[2] = b
    BY <1>9
  <2>2. Searched(e, <<c>>, t, A)
    BY <1>4, <1>9 DEF Searched, Setting
  <2>3. ~FoundNone(e, next, <<c>>)
    <3>1. b + g \in Nat /\ b + g >= b
      BY <1>9
    <3> QED BY <1>15, <2>1, <3>1 DEF FoundNone
  <2> QED BY <2>2, <2>3, RoundIs
<1>17. f = b + g
  <2>1. e[1] = z /\ e[2] = b
    BY <1>9
  <2>2. f \in Nat /\ f >= b /\ Occ(z, <<c>>, f) /\ \A o \in Nat : o >= b /\ o < f => ~Occ(z, <<c>>, o)
    BY <1>16, <2>1 DEF FoundAt
  <2>3. b + g \in Nat /\ b + g >= b
    BY <1>9
  <2>4. ~(f < b + g) /\ ~(b + g < f)
    BY <1>15, <2>2, <2>3
  <2> QED BY <2>2, <2>3, <2>4
<1>18. PICK v \in Seq(A) : v = next[1]
  BY <1>16
<1>19. next = <<v, b + g + m>> /\ Spliced(v, z, b + g, 1, t)
  BY <1>4, <1>6, <1>9, <1>16, <1>17, <1>18 DEF FoundAt
<1>20. /\ Len(v) = Len(z) - 1 + m
       /\ (\A i \in 1..(b + g) : v[i] = z[i]) /\ (\A i \in 1..m : v[b + g + i] = t[i])
       /\ \A i \in 1..(Len(z) - (b + g) - 1) : v[b + g + m + i] = z[b + g + 1 + i]
  BY <1>6, <1>19 DEF Spliced
<1>21. PICK at \in Nat : at = b + g + m
  BY <1>9
<1>22. at = n - (Len(w) - (p + 1)) /\ Len(v) = at + (X - (p + 1)) /\ at <= n
  BY <1>1, <1>5, <1>6, <1>7, <1>8, <1>9, <1>10, <1>20, <1>21
<1>23. ASSUME NEW i \in 1..at PROVE v[i] = s[i]
  <2>1. CASE i <= b
    <3>1. i \in 1..b /\ i \in 1..(b + g)
      BY <1>9, <2>1
    <3> QED BY <1>9, <1>20, <3>1
  <2>2. CASE ~(i <= b) /\ i <= b + g
    <3>1. PICK k \in 1..g : i = b + k
      <4>1. i - b \in 1..g /\ i = b + (i - b)
        BY <1>9, <2>2
      <4> QED BY <4>1
    <3>2. i \in 1..(b + g)
      BY <1>9, <2>2
    <3> QED BY <1>13, <1>20, <3>1, <3>2
  <2>3. CASE ~(i <= b + g)
    <3>1. PICK k \in 1..m : i = b + g + k
      <4>1. i - (b + g) \in 1..m /\ i = b + g + (i - (b + g))
        BY <1>9, <1>21, <2>3
      <4> QED BY <4>1
    <3>2. v[i] = t[k] /\ y[p + k] = t[k]
      BY <1>7, <1>20, <3>1
    <3>3. g + k \in 1..(L - q) /\ q + (g + k) = p + k /\ n - (L - q) + (g + k) = i
      <4>1. /\ q <= L /\ L - q <= n /\ p >= q /\ p \in Nat /\ p + m <= L /\ b = n - (L - q)
            /\ g = p - q /\ k >= 1 /\ k <= m /\ k \in Nat /\ i = b + g + k
        BY <1>1, <1>5, <1>6, <1>7, <1>9, <1>10, <3>1
      <4>2. g + k = (p + k) - q /\ p + k <= L
        BY <4>1
      <4>5. g + k \in 1..(L - q)
        BY <4>1, <4>2
      <4>3. q + (g + k) = p + k
        BY <4>1
      <4>4. n - (L - q) + (g + k) = i
        BY <4>1
      <4> QED BY <4>3, <4>4, <4>5
    <3>4. y[q + (g + k)] = s[n - (L - q) + (g + k)]
      BY <1>1, <1>6, <3>3
    <3> QED BY <3>2, <3>3, <3>4
  <2> QED BY <2>1, <2>2, <2>3
<1>24. ASSUME NEW i \in 1..(X - (p + 1)) PROVE v[at + i] = x[(p + 1) + i]
  <2>1. /\ i \in 1..(Len(z) - (b + g) - 1) /\ b + g + m + i = at + i
        /\ g + 1 + i \in 1..(X - q) /\ b + (g + 1 + i) = b + g + 1 + i /\ q + (g + 1 + i) = (p + 1) + i
    BY <1>1, <1>5, <1>6, <1>9, <1>10, <1>11, <1>21
  <2>2. z[b + (g + 1 + i)] = x[q + (g + 1 + i)]
    BY <1>9, <2>1
  <2> QED BY <1>20, <2>1, <2>2
<1>25. new[1] = w /\ new[2] = p + 1 /\ p + 1 # None
  BY <1>5 DEF None
<1>26. next = <<v, at>> /\ at = Len(s) - (Len(new[1]) - new[2]) /\ Len(v) = at + (Len(x) - new[2])
  <2>1. next = <<v, at>>
    BY <1>19, <1>21
  <2> QED BY <1>6, <1>22, <1>25, <2>1
<1>27. \A i \in 1..(Len(x) - new[2]) : v[at + i] = x[new[2] + i]
  BY <1>6, <1>24, <1>25
<1> QED BY <1>23, <1>25, <1>26, <1>27 DEF Undone

\* The two loops, round by round.
LEMMA AllUndone ==
  ASSUME NEW s, NEW t, NEW c, NEW A, Setting(s, t, c, A),
         NEW st, Rounds(st, s, t, <<c>>, Len(s)), NEW x, x = st[Len(s)][1],
         NEW n \in 0..Len(s), NEW et, Rounds(et, x, <<c>>, t, n)
  PROVE  \A j \in 0..n : Undone(st[j], et[j], x, s, A)
<1> DEFINE F == {j \in 0..n : ~Undone(st[j], et[j], x, s, A)}
<1> SUFFICES ASSUME F # {} PROVE FALSE
  OBVIOUS
<1>1. F \in SUBSET Nat
  OBVIOUS
<1>2. PICK k \in F : \A i \in F : k <= i
  BY <1>1, Smallest
<1>3. k \in 0..n /\ ~Undone(st[k], et[k], x, s, A)
  BY <1>2
<1>4. s \in Seq(A) /\ Len(s) \in Nat /\ n \in Nat /\ n <= Len(s)
  BY DEF Setting
<1>5. \A i \in 0..Len(s) : Reached(st[i], i, s, t, A)
  BY <1>4, AllReached
<1>6. Len(s) \in 0..Len(s)
  BY <1>4
<1>7. x \in Seq(A)
  <2>1. Reached(st[Len(s)], Len(s), s, t, A)
    BY <1>5, <1>6
  <2> QED BY <2>1 DEF Reached
<1>8. k # 0
  <2>1. st[0] = <<s, 0>> /\ et[0] = <<x, 0>> /\ 0 # None /\ 0 \in Nat
    <3>1. st[0] = <<s, 0>>
      BY DEF Rounds
    <3>2. et[0] = <<x, 0>>
      BY DEF Rounds
    <3> QED BY <3>1, <3>2 DEF None
  <2>2. Len(x) \in Nat /\ 0 = Len(s) - (Len(s) - 0) /\ Len(x) = 0 + (Len(x) - 0)
    BY <1>4, <1>7
  <2>3. \A i \in 1..(Len(x) - 0) : x[0 + i] = x[0 + i]
    OBVIOUS
  <2>4. \A i \in 1..0 : x[i] = s[i]
    OBVIOUS
  <2>5. Undone(st[0], et[0], x, s, A)
    BY <1>7, <2>1, <2>2, <2>3, <2>4 DEF Undone
  <2> QED BY <1>3, <2>5
<1>9. PICK j \in 0..n : k = j + 1 /\ j + 1 \in 1..n /\ j + 1 \in 1..Len(s) /\ j \in 0..Len(s) /\ j + 1 \in 0..Len(s)
  <2>1. k - 1 \in 0..n /\ k = (k - 1) + 1
    BY <1>3, <1>8
  <2> QED BY <1>3, <1>4, <1>8, <2>1
<1>10. j \notin F
  BY <1>2, <1>9
<1>11. PICK r, new, e, next : r = st[j] /\ new = st[j + 1] /\ e = et[j] /\ next = et[j + 1]
  OBVIOUS
<1>12. Undone(r, e, x, s, A) /\ Reached(r, j, s, t, A) /\ j \in Nat
  BY <1>5, <1>9, <1>10, <1>11
<1>13. new = Round(r, t, <<c>>) /\ next = Round(e, <<c>>, t)
  <2>1. (j + 1) - 1 = j
    BY <1>9
  <2> QED BY <1>9, <1>11, <2>1 DEF Rounds
<1>14. Keeps(new, st[Len(s)])
  <2>1. Len(s) \in (j + 1)..Len(s)
    BY <1>4, <1>9
  <2> QED BY <1>4, <1>9, <1>11, <2>1, AllKept
<1>15. CASE r[2] = None
  <2>1. e = <<s, None>>
    BY <1>12, <1>15 DEF Undone
  <2>2. \E y : r = <<y, None>>
    BY <1>12, <1>15 DEF Reached
  <2>3. new = r /\ next = e
    BY <1>13, <2>1, <2>2, RoundEnded
  <2> QED BY <1>3, <1>9, <1>11, <1>12, <2>3
<1>16. CASE r[2] # None
  <2>1. PICK y \in Seq(A), q \in Nat : r = <<y, q>>
    <3>1. PICK y \in Seq(A), q \in Nat : Behind(r, j, s, y, q)
      BY <1>12, <1>16, ReachedGoing
    <3> QED BY <3>1 DEF Behind
  <2>2. <<c>> \in Seq(A) /\ Len(<<c>>) = 1 /\ t \in Seq(A) /\ t # <<>>
    BY DEF Setting
  <2>3. Searched(r, t, <<c>>, A)
    BY <2>1, <2>2 DEF Searched
  <2>4. CASE FoundNone(r, new, t)
    <3>1. new[2] = None /\ new[1] = r[1]
      BY <2>4 DEF FoundNone
    <3>2. x = r[1]
      BY <1>14, <3>1 DEF Keeps
    <3>3. Undone(new, next, x, s, A)
      BY <1>12, <1>13, <1>16, <2>4, <3>2, UndoneEnd
    <3> QED BY <1>3, <1>9, <1>11, <3>3
  <2>5. ASSUME NEW p, FoundAt(r, new, t, <<c>>, p) PROVE FALSE
    <3>1. p \in Nat /\ new[2] = p + 1 /\ p + 1 # None
      BY <2>2, <2>5 DEF FoundAt, None
    <3>2. p + 1 <= Len(x) /\ \A i \in 1..(p + 1) : x[i] = new[1][i]
      BY <1>14, <3>1 DEF Keeps
    <3>3. Undone(new, next, x, s, A)
      BY <1>7, <1>12, <1>13, <1>16, <2>5, <3>2, UndoneGo
    <3> QED BY <1>3, <1>9, <1>11, <3>3
  <2> QED BY <1>13, <2>3, <2>4, <2>5, RoundIs
<1> QED BY <1>15, <1>16

\* Replacing t by a new character and that character by t gives the text back.
LEMMA ReplaceBack ==
  ASSUME NEW s, NEW t, NEW c, NEW A, Setting(s, t, c, A)
  PROVE  Replace(Replace(s, t, <<c>>), <<c>>, t) = s
<1>1. s \in Seq(A) /\ t \in Seq(A) /\ t # <<>> /\ Len(s) \in Nat /\ <<c>> # <<>> /\ Len(<<c>>) = 1 /\ <<c>> \in Seq(A)
  BY DEF Setting
<1>2. PICK st : Rounds(st, s, t, <<c>>, Len(s)) /\ ReplaceFrom(s, t, <<c>>) = st[Len(s)][1]
  BY <1>1, ReplaceRounds
<1>3. PICK x : x = st[Len(s)][1]
  OBVIOUS
<1>4. \A i \in 0..Len(s) : Reached(st[i], i, s, t, A)
  BY <1>1, <1>2, AllReached
<1>5. Len(s) \in 0..Len(s)
  BY <1>1
<1>6. PICK y \in Seq(A), q \in Nat \cup {None} :
        /\ st[Len(s)] = <<y, q>> /\ Len(y) <= Len(s)
        /\ q # None => Len(s) <= q /\ q <= Len(y) /\ Len(y) - q + Len(s) <= Len(s)
  BY <1>4, <1>5 DEF Reached
<1>7. x = y /\ Len(x) \in Nat /\ Len(x) \in 0..Len(s)
  BY <1>1, <1>3, <1>6
<1>8. PICK et : Rounds(et, x, <<c>>, t, Len(x)) /\ ReplaceFrom(x, <<c>>, t) = et[Len(x)][1]
  BY <1>7, ReplaceRounds
<1>9. PICK n \in 0..Len(s) : n = Len(x)
  BY <1>7
<1>10. PICK r, e : r = st[n] /\ e = et[n]
  OBVIOUS
<1>11. Undone(r, e, x, s, A)
  <2>1. n \in 0..n
    BY <1>9
  <2>2. \A j \in 0..n : Undone(st[j], et[j], x, s, A)
    BY <1>2, <1>3, <1>8, <1>9, AllUndone
  <2> QED BY <1>10, <2>1, <2>2
<1>12. Reached(r, n, s, t, A) /\ n \in Nat
  BY <1>4, <1>9, <1>10
<1>13. e[1] = s
  <2>1. CASE r[2] = None
    BY <1>11, <2>1 DEF Undone
  <2>2. CASE r[2] # None
    <3>0. PICK w \in Seq(A), o \in Nat : Behind(r, n, s, w, o)
      BY <1>12, <2>2, ReachedGoing
    <3>1. r = <<w, o>> /\ Len(w) <= Len(s) /\ n <= o /\ o <= Len(w) /\ Len(w) - o + n <= Len(s)
      BY <3>0 DEF Behind
    <3>2. r[1] = w /\ r[2] = o /\ o # None /\ Len(w) \in Nat
      BY <2>2, <3>1
    <3>3. Keeps(r, st[Len(s)])
      <4>1. Len(s) \in n..Len(s)
        BY <1>1, <1>9
      <4> QED BY <1>1, <1>2, <1>9, <1>10, <4>1, AllKept
    <3>4. o = n
      <4>1. o <= Len(x)
        BY <1>3, <3>2, <3>3 DEF Keeps
      <4> QED BY <1>9, <3>1, <4>1
    <3>5. Len(w) = o
      <4>1. CASE n = Len(s)
        BY <1>1, <3>1, <3>2, <3>4, <4>1
      <4>2. CASE n # Len(s)
        <5>1. n + 1 \in 1..Len(s) /\ n + 1 \in 0..Len(s) /\ Len(s) \in (n + 1)..Len(s) /\ (n + 1) - 1 = n
          BY <1>1, <1>9, <4>2
        <5>2. PICK new : new = st[n + 1]
          OBVIOUS
        <5>3. new = Round(r, t, <<c>>)
          BY <1>2, <1>10, <5>1, <5>2 DEF Rounds
        <5>4. Keeps(new, st[Len(s)])
          BY <1>1, <1>2, <5>1, <5>2, AllKept
        <5>5. Searched(r, t, <<c>>, A)
          BY <1>1, <3>1 DEF Searched
        <5>6. ASSUME NEW p, FoundAt(r, new, t, <<c>>, p) PROVE FALSE
          <6>1. p \in Nat /\ p >= o /\ new[2] = p + 1 /\ p + 1 # None
            BY <1>1, <3>2, <5>6 DEF FoundAt, None
          <6>2. p + 1 <= Len(x)
            BY <1>3, <5>4, <6>1 DEF Keeps
          <6> QED BY <1>9, <3>4, <6>1, <6>2
        <5>7. FoundNone(r, new, t)
          BY <5>3, <5>5, <5>6, RoundIs
        <5>8. new[2] = None /\ new[1] = w
          BY <3>2, <5>7 DEF FoundNone
        <5>9. x = w
          BY <1>3, <5>4, <5>8 DEF Keeps
        <5> QED BY <1>9, <3>4, <5>9
      <4> QED BY <4>1, <4>2
    <3>6. PICK z \in Seq(A), b \in Nat :
            /\ e = <<z, b>> /\ b = Len(s) - (Len(w) - o) /\ Len(z) = b + (Len(x) - o)
            /\ \A i \in 1..b : z[i] = s[i]
      BY <1>11, <3>2 DEF Undone
    <3>7. Len(z) = Len(s) /\ b = Len(s)
      BY <1>1, <1>9, <3>1, <3>2, <3>4, <3>5, <3>6
    <3>8. z = s
      BY <1>1, <3>6, <3>7, SameChars
    <3> QED BY <3>6, <3>8
  <2> QED BY <2>1, <2>2
<1>14. Replace(s, t, <<c>>) = x
  BY <1>1, <1>2, <1>3 DEF Replace
<1>15. Replace(x, <<c>>, t) = et[Len(x)][1]
  BY <1>1, <1>8 DEF Replace
<1> QED BY <1>9, <1>10, <1>13, <1>14, <1>15

-----------------------------------------------------------------------------
(* The laws of searching.                                                  *)

\* For texts of any characters and of any length, any needle and any character c
\* that neither has: what SearchLaws says of the short ones.
THEOREM SearchesAgree ==
  ASSUME NEW A, NEW s \in Seq(A), NEW t \in Seq(A), t # <<>>, NEW c, c \notin A
  PROVE  LET f == Find(s, t, 0)  r == RFind(s, t, Len(s)) IN
         /\ StartsWith(s, t) <=> f = 0
         /\ EndsWith(s, t) <=> (r # None /\ r = Len(s) - Len(t))
         /\ (f = None) <=> (r = None)
         /\ f # None => /\ Insert(RemoveMid(s, f, Len(t)), f, t) = s
                        /\ f <= r /\ Find(s, t, f) = f /\ RFind(s, t, f) = None
         /\ Find(Insert(s, -Len(s), t), t, 0) = 0
         /\ Find(Replace(s, t, <<c>>), t, 0) = None
         /\ Replace(Replace(s, t, <<c>>), <<c>>, t) = s
         /\ \A k \in {s, t} : IndexFind(<<t, s, t>>, k) = (IF k = t THEN 2 ELSE 1)
         /\ IndexFind(<<t>>, s) = (IF s = t THEN 0 ELSE None)
<1>1. PICK B : B = A \cup {c}
  OBVIOUS
<1>2. Setting(s, t, c, B)
  <2>1. s \in Seq(B) /\ t \in Seq(B) /\ c \in B
    BY <1>1
  <2>2. (\A i \in 1..Len(s) : s[i] \in A) /\ \A i \in 1..Len(t) : t[i] \in A
    OBVIOUS
  <2> QED BY <2>1, <2>2 DEF Setting
<1>3. Find(Replace(s, t, <<c>>), t, 0) = None /\ Replace(Replace(s, t, <<c>>), <<c>>, t) = s
  BY <1>2, ReplaceLeavesNone, ReplaceBack
<1>4. PICK f, r : f = Find(s, t, 0) /\ r = RFind(s, t, Len(s))
  OBVIOUS
<1>5. /\ StartsWith(s, t) <=> f = 0
      /\ EndsWith(s, t) <=> (r # None /\ r = Len(s) - Len(t))
      /\ (f = None) <=> (r = None)
      /\ f # None => f \in Nat /\ Occ(s, t, f) /\ f <= r /\ Find(s, t, f) = f /\ RFind(s, t, f) = None
  BY <1>4, FindLaws
<1>6. f # None => Insert(RemoveMid(s, f, Len(t)), f, t) = s
  BY <1>5, CutAndPut
<1>7. Find(Insert(s, -Len(s), t), t, 0) = 0
  BY PutAtFront
<1> QED BY <1>3, <1>4, <1>5, <1>6, <1>7, IndexLaws

\* find(), rfind(), startsWith(), endsWith(), insert(), removeMid(), replace() and
\* StringIndex agree with each other, with "c" no letter of the programs.
THEOREM SearchLawsHold == "c" \notin Letters => (Spec => []SearchLaws)
<1> SUFFICES ASSUME "c" \notin Letters PROVE Spec => []SearchLaws
  OBVIOUS
<1>1. ASSUME NEW s \in Texts, NEW t \in Texts \ {<<>>}
      PROVE  LET f == Find(s, t, 0)  r == RFind(s, t, Len(s)) IN
             /\ StartsWith(s, t) <=> f = 0
             /\ EndsWith(s, t) <=> (r # None /\ r = Len(s) - Len(t))
             /\ (f = None) <=> (r = None)
             /\ f # None => /\ Insert(RemoveMid(s, f, Len(t)), f, t) = s
                            /\ f <= r /\ Find(s, t, f) = f /\ RFind(s, t, f) = None
             /\ Find(Insert(s, -Len(s), t), t, 0) = 0
             /\ Find(Replace(s, t, <<"c">>), t, 0) = None
             /\ Replace(Replace(s, t, <<"c">>), <<"c">>, t) = s
             /\ \A k \in {s, t} : IndexFind(<<t, s, t>>, k) = (IF k = t THEN 2 ELSE 1)
             /\ IndexFind(<<t>>, s) = (IF s = t THEN 0 ELSE None)
  <2>1. PICK c : c = "c"
    OBVIOUS
  <2>2. s \in Seq(Letters) /\ t \in Seq(Letters) /\ t # <<>> /\ c \notin Letters
    <3>1. \A n \in 0..3 : \A u \in [1..n -> Letters] : u \in Seq(Letters)
      OBVIOUS
    <3> QED BY <2>1, <3>1 DEF Texts
  <2> QED BY <2>1, <2>2, SearchesAgree
<1>2. SearchLaws
  BY <1>1 DEF SearchLaws
<1> QED BY <1>2, PTL

-----------------------------------------------------------------------------
(* Formatting of integers.                                                 *)

Fmt == INSTANCE NumFormat WITH FormatValues <- {}, FormatWidths <- {}, FormatPrecs <- {}

\* The padding of some character.
LEMMA PadIs ==
  ASSUME NEW c \in Int, NEW n \in Int
  PROVE  /\ Fmt!Pad(c, n) \in Seq(Int)
         /\ n <= 0 => Fmt!Pad(c, n) = <<>>
         /\ n > 0 => Len(Fmt!Pad(c, n)) = n /\ \A i \in 1..n : Fmt!Pad(c, n)[i] = c
<1>1. CASE n <= 0
  BY <1>1 DEF Fmt!Pad
<1>2. CASE n > 0
  <2>1. PICK s : s = Fmt!Pad(c, n)
    OBVIOUS
  <2>2. s = [i \in 1..n |-> c] /\ n \in Nat
    BY <1>2, <2>1 DEF Fmt!Pad
  <2>3. s \in Seq(Int) /\ Len(s) = n
    BY <2>2
  <2> QED BY <1>2, <2>1, <2>2, <2>3
<1> QED BY <1>1, <1>2

\* One more character in front of some padding or behind it is the same.
LEMMA PadTurned ==
  ASSUME NEW c \in Int, NEW n \in Int
  PROVE  Fmt!Pad(c, n) \o <<c>> = <<c>> \o Fmt!Pad(c, n)
<1>1. CASE n <= 0
  <2>1. Fmt!Pad(c, n) = <<>>
    BY <1>1, PadIs
  <2>2. <<c>> \in Seq(Int)
    OBVIOUS
  <2> QED BY <2>1, <2>2
<1>2. CASE n > 0
  <2>1. PICK p \in Seq(Int) : p = Fmt!Pad(c, n)
    BY PadIs
  <2>2. Len(p) = n /\ \A i \in 1..n : p[i] = c
    BY <1>2, <2>1, PadIs
  <2>3. PICK u, v : u = p \o <<c>> /\ v = <<c>> \o p
    OBVIOUS
  <2>4. u \in Seq(Int) /\ v \in Seq(Int) /\ Len(u) = n + 1 /\ Len(v) = n + 1
    BY <1>2, <2>2, <2>3
  <2>5. ASSUME NEW i \in 1..(n + 1) PROVE u[i] = c /\ v[i] = c
    <3>1. u[i] = (IF i <= Len(p) THEN p[i] ELSE <<c>>[i - Len(p)])
      BY <2>2, <2>3
    <3>2. v[i] = (IF i <= 1 THEN <<c>>[i] ELSE p[i - 1])
      BY <2>2, <2>3
    <3>3. <<c>>[1] = c
      OBVIOUS
    <3> QED BY <1>2, <2>2, <3>1, <3>2, <3>3
  <2>6. u = v
    BY <1>2, <2>4, <2>5
  <2> QED BY <2>1, <2>3, <2>6
<1> QED BY <1>1, <1>2

\* Joining texts in whichever order, and the empty one.
LEMMA JoinedEither ==
  ASSUME NEW p \in Seq(Int), NEW q \in Seq(Int), NEW r \in Seq(Int)
  PROVE  (p \o q) \o r = p \o (q \o r)
OBVIOUS

\* Joining the empty text.
LEMMA NothingJoined ==
  ASSUME NEW p \in Seq(Int)
  PROVE  <<>> \o p = p /\ p \o <<>> = p
OBVIOUS

\* Sign and digits with the padding the flags ask for.
Padded(pre, body, fl, fill) ==
    IF "-" \in fl THEN pre \o body \o Fmt!Pad(Fmt!Space, fill)
    ELSE IF "0" \in fl THEN pre \o Fmt!Pad(0, fill) \o body
    ELSE Fmt!Pad(Fmt!Space, fill) \o pre \o body

\* The padding that is missing, not more than the code has room for.
FillIs(pre, body, width, fill) == fill = width - (Len(body) + Len(pre)) /\ fill <= Fmt!Direct

LaidOut(pre, body, fl, width, fill) ==
    /\ Fmt!Layout(pre, body, 0, fl, width, TRUE) = Padded(pre, body, fl, fill)
    /\ Fmt!Layout(pre, body, 0, fl, width, FALSE) = Padded(pre, body, fl, fill)

\* The layout of a number whose padding is not appended at once.
LEMMA LayoutIs ==
  ASSUME NEW pre \in Seq(Int), NEW body \in Seq(Int), NEW fl, NEW width \in Int,
         NEW fill \in Int, FillIs(pre, body, width, fill)
  PROVE  LaidOut(pre, body, fl, width, fill)
<1>1. PICK lay : lay = Fmt!Layout(pre, body, 0, fl, width, TRUE)
  OBVIOUS
<1>2. PICK front \in BOOLEAN : front = (fill > 0 /\ "-" \notin fl)
  BY Zenon
<1>3. PICK done \in BOOLEAN : done = (front /\ "0" \notin fl)
  BY Zenon
<1>4. PICK zs, ss : zs = Fmt!Pad(0, fill) /\ ss = Fmt!Pad(Fmt!Space, fill)
  OBVIOUS
<1>0. Fmt!Space \in Int /\ 0 \in Int /\ zs \in Seq(Int) /\ ss \in Seq(Int)
  <2>1. Fmt!Space \in Int /\ 0 \in Int
    BY DEF Fmt!Space
  <2> QED BY <1>4, <2>1, PadIs
<1>5. PICK mid : mid = (IF ~front THEN body ELSE IF "0" \in fl THEN zs \o body ELSE ss \o pre \o body)
  OBVIOUS
<1>6. Fmt!Pad(0, 0) = <<>>
  BY DEF Fmt!Pad
<1>7. lay = <<>> \o (IF done \/ pre = <<>> THEN <<>> ELSE pre) \o mid \o (IF front THEN <<>> ELSE ss)
  <2>1. width - (Len(body) + 0 + Len(pre)) = fill
    BY DEF FillIs
  <2>2. ~(fill > Fmt!Direct) /\ ~(0 > 0)
    BY DEF FillIs, Fmt!Direct
  <2> QED BY <1>1, <1>2, <1>3, <1>4, <1>5, <1>6, <2>1, <2>2 DEF Fmt!Layout
<1>8. lay = Fmt!Layout(pre, body, 0, fl, width, FALSE)
  <2>1. width - (Len(body) + 0 + Len(pre)) = fill
    BY DEF FillIs
  <2>2. ~(fill > Fmt!Direct) /\ ~(0 > 0)
    BY DEF FillIs, Fmt!Direct
  <2> QED BY <1>2, <1>3, <1>4, <1>5, <1>6, <1>7, <2>1, <2>2 DEF Fmt!Layout
<1>9. fill <= 0 => zs = <<>> /\ ss = <<>>
  BY <1>0, <1>4, PadIs
<1>10. lay = (IF done THEN <<>> ELSE pre) \o mid \o (IF front THEN <<>> ELSE ss)
  <2>1. PICK h : h = (IF done THEN <<>> ELSE pre)
    OBVIOUS
  <2>2. h \in Seq(Int) /\ h = (IF done \/ pre = <<>> THEN <<>> ELSE pre)
    BY <2>1
  <2>3. <<>> \o h = h
    BY <2>2, NothingJoined
  <2> QED BY <1>7, <2>1, <2>2, <2>3
<1>11. CASE "-" \in fl
  <2>1. lay = pre \o body \o ss
    BY <1>2, <1>3, <1>5, <1>10, <1>11
  <2> QED BY <1>1, <1>8, <1>4, <1>11, <2>1 DEF LaidOut, Padded
<1>12. CASE "-" \notin fl /\ ~(fill > 0)
  <2>1. lay = pre \o body \o ss /\ zs = <<>> /\ ss = <<>>
    <3>1. lay = pre \o body \o ss
      BY <1>2, <1>3, <1>5, <1>10, <1>12
    <3>2. fill <= 0
      BY <1>12
    <3> QED BY <1>9, <3>1, <3>2
  <2>2. pre \o body \in Seq(Int)
    OBVIOUS
  <2>3. lay = pre \o body
    BY <2>1, <2>2, NothingJoined
  <2>4. pre \o zs = pre /\ ss \o pre = pre
    BY <2>1, NothingJoined
  <2> QED BY <1>1, <1>8, <1>4, <1>12, <2>3, <2>4 DEF LaidOut, Padded
<1>13. CASE "-" \notin fl /\ "0" \in fl /\ fill > 0
  <2>1. lay = pre \o (zs \o body) \o <<>>
    BY <1>2, <1>3, <1>5, <1>10, <1>13
  <2>2. pre \o (zs \o body) \in Seq(Int)
    BY <1>0
  <2>3. lay = pre \o (zs \o body)
    BY <2>1, <2>2, NothingJoined
  <2>4. (pre \o zs) \o body = pre \o (zs \o body)
    BY <1>0, JoinedEither
  <2> QED BY <1>1, <1>8, <1>4, <1>13, <2>3, <2>4 DEF LaidOut, Padded
<1>14. CASE "-" \notin fl /\ "0" \notin fl /\ fill > 0
  <2>1. lay = <<>> \o (ss \o pre \o body) \o <<>>
    BY <1>2, <1>3, <1>5, <1>10, <1>14
  <2>2. ss \o pre \in Seq(Int)
    BY <1>0
  <2>3. ss \o pre \o body \in Seq(Int)
    BY <2>2
  <2>4. lay = ss \o pre \o body
    BY <2>1, <2>3, NothingJoined
  <2> QED BY <1>1, <1>8, <1>4, <1>14, <2>4 DEF LaidOut, Padded
<1> QED BY <1>11, <1>12, <1>13, <1>14

\* The digits with the zeros the precision asks for.
Zeros(prec, digs) == Fmt!Pad(0, prec - Len(digs)) \o digs

\* The code puts them there, unless it appends them at once.
LEMMA PrecPutIs ==
  ASSUME NEW digs \in Seq(Int), NEW prec \in Int, prec - Len(digs) < Fmt!Direct,
         NEW zeros, zeros = Zeros(prec, digs)
  PROVE  /\ zeros \in Seq(Int) /\ Len(zeros) >= Len(digs) /\ Fmt!PrecPut(prec, digs) = zeros
         /\ digs # <<>> => zeros[1] = (IF prec <= Len(digs) THEN digs[1] ELSE 0)
<1>1. PICK k \in Int : k = prec - Len(digs)
  <2>1. prec - Len(digs) \in Int
    OBVIOUS
  <2> QED BY <2>1
<1>2. PICK p \in Seq(Int) : p = Fmt!Pad(0, k)
  <2>1. 0 \in Int
    OBVIOUS
  <2>2. Fmt!Pad(0, k) \in Seq(Int)
    BY <2>1, PadIs
  <2> QED BY <2>2
<1>3. k <= 0 => p = <<>>
  <2>1. 0 \in Int
    OBVIOUS
  <2> QED BY <1>2, <2>1, PadIs
<1>4. k > 0 => Len(p) = k /\ \A i \in 1..k : p[i] = 0
  <2>1. 0 \in Int
    OBVIOUS
  <2> QED BY <1>2, <2>1, PadIs
<1>5. zeros = p \o digs
  BY <1>1, <1>2 DEF Zeros
<1>6. zeros \in Seq(Int) /\ Len(zeros) >= Len(digs)
  <2>1. Len(p) \in Nat /\ Len(digs) \in Nat /\ Len(p \o digs) = Len(p) + Len(digs) /\ p \o digs \in Seq(Int)
    OBVIOUS
  <2>2. zeros \in Seq(Int) /\ Len(zeros) = Len(p) + Len(digs)
    BY <1>5, <2>1
  <2> QED BY <2>1, <2>2
<1>7. CASE k <= 0
  <2>1. zeros = digs
    BY <1>3, <1>5, <1>7
  <2>2. k \notin 1..(Fmt!Direct - 1) /\ prec <= Len(digs)
    BY <1>1, <1>7
  <2> QED BY <1>1, <1>6, <2>1, <2>2 DEF Fmt!PrecPut
<1>8. CASE k > 0
  <2>1. k \in 1..(Fmt!Direct - 1) /\ ~(prec <= Len(digs))
    <3>1. k < 16 /\ Fmt!Direct = 16
      BY <1>1 DEF Fmt!Direct
    <3>2. k \in 1..(Fmt!Direct - 1)
      BY <1>8, <3>1
    <3>3. Len(digs) \in Nat
      OBVIOUS
    <3> QED BY <1>1, <1>8, <3>2, <3>3
  <2>2. Fmt!PrecPut(prec, digs) = zeros
    BY <1>1, <1>2, <1>5, <2>1 DEF Fmt!PrecPut
  <2>3. zeros[1] = 0
    BY <1>4, <1>5, <1>8
  <2> QED BY <1>6, <2>1, <2>2, <2>3
<1> QED BY <1>7, <1>8

\* A zero as prefix is the same as one more digit.
LEMMA ZeroInFront ==
  ASSUME NEW digs \in Seq(Int), NEW fl, NEW fill \in Int
  PROVE  Padded(<<0>>, digs, fl, fill) = Padded(<<>>, <<0>> \o digs, fl, fill)
<1>1. PICK z, ss, zs, body :
        z = <<0>> /\ ss = Fmt!Pad(Fmt!Space, fill) /\ zs = Fmt!Pad(0, fill) /\ body = z \o digs
  OBVIOUS
<1>2. z \in Seq(Int) /\ ss \in Seq(Int) /\ zs \in Seq(Int) /\ zs \o z = z \o zs
  <2>1. Fmt!Space \in Int /\ 0 \in Int
    BY DEF Fmt!Space
  <2>2. z \in Seq(Int)
    BY <1>1
  <2>3. ss \in Seq(Int) /\ zs \in Seq(Int)
    BY <1>1, <2>1, PadIs
  <2>4. zs \o z = z \o zs
    BY <1>1, <2>1, PadTurned
  <2> QED BY <2>2, <2>3, <2>4
<1>3. body \in Seq(Int) /\ <<>> \o body = body
  <2>1. body \in Seq(Int)
    BY <1>1, <1>2
  <2> QED BY <2>1, NothingJoined
<1>4. z \o digs \o ss = <<>> \o body \o ss
  BY <1>1, <1>3
<1>5. z \o zs \o digs = <<>> \o zs \o body
  <2>1. <<>> \o zs = zs
    BY <1>2, NothingJoined
  <2>2. (zs \o z) \o digs = zs \o (z \o digs)
    BY <1>2, JoinedEither
  <2> QED BY <1>1, <1>2, <2>1, <2>2
<1>6. ss \o z \o digs = ss \o <<>> \o body
  <2>1. ss \o <<>> = ss
    BY <1>2, NothingJoined
  <2>2. (ss \o z) \o digs = ss \o (z \o digs)
    BY <1>2, JoinedEither
  <2> QED BY <1>1, <2>1, <2>2
<1> QED BY <1>1, <1>4, <1>5, <1>6 DEF Padded

\* The code's %d and sprintf()'s: the same text, for every value, flags, width and
\* precision of the plain cases, whatever text of digits the magnitude has.  Left
\* out is the space flag on a number without a sign, which the code forgets.
THEOREM IntegersAsPrintf ==
  ASSUME NEW v \in Int, NEW fl \in SUBSET (Fmt!Flags \cup {"0"}), NEW width \in Int, NEW prec \in Int,
         NEW mag, mag = (IF v < 0 THEN -v ELSE v), NEW digs \in Seq(Int), digs = Fmt!Digits(mag, 10),
         Fmt!Plain(Len(digs), fl, 10, mag, width, prec), ~Fmt!SpaceLost(v < 0, fl)
  PROVE  Fmt!FormatInt(v, fl, width, prec) = Fmt!Printf(v < 0, mag, 10, fl, width, prec)
<1>1. PICK sign : sign = (IF v < 0 THEN <<Fmt!Minus>> ELSE IF "+" \in fl THEN <<Fmt!Plus>> ELSE <<>>)
  OBVIOUS
<1>2. sign \in Seq(Int)
  BY <1>1 DEF Fmt!Minus, Fmt!Plus
<1>3. Fmt!PrecLeft(prec, digs) = 0 /\ prec - Len(digs) < Fmt!Direct /\ width - Len(digs) <= Fmt!Direct
  <2>1. prec - Len(digs) < Fmt!Direct /\ width - Len(digs) <= Fmt!Direct
    BY DEF Fmt!Plain
  <2>2. ~(prec - Len(digs) >= Fmt!Direct)
    BY <2>1 DEF Fmt!Direct
  <2> QED BY <2>1, <2>2 DEF Fmt!PrecLeft
<1>4. PICK zeros : zeros = Zeros(prec, digs)
  OBVIOUS
<1>5. zeros \in Seq(Int) /\ Len(zeros) >= Len(digs) /\ Fmt!PrecPut(prec, digs) = zeros
  BY <1>3, <1>4, PrecPutIs
<1>6. PICK fill \in Int : fill = width - (Len(zeros) + Len(sign))
  <2>1. width - (Len(zeros) + Len(sign)) \in Int
    BY <1>2, <1>5
  <2> QED BY <2>1
<1>7. fill <= Fmt!Direct
  <2>1. Len(zeros) \in Nat /\ Len(sign) \in Nat /\ Len(digs) \in Nat
    BY <1>2, <1>5
  <2> QED BY <1>3, <1>5, <1>6, <2>1 DEF Fmt!Direct
<1>8. Fmt!FormatInt(v, fl, width, prec) = Fmt!Layout(sign, zeros, 0, fl, width, TRUE)
  BY <1>1, <1>3, <1>5 DEF Fmt!FormatInt
<1>9. Fmt!Printf(v < 0, mag, 10, fl, width, prec) = Padded(sign, zeros, fl, fill)
  <2>1. PICK base : base = 10
    OBVIOUS
  <2>2. sign = (IF v < 0 THEN <<Fmt!Minus>> ELSE IF "+" \in fl /\ base = 10 THEN <<Fmt!Plus>>
                ELSE IF "sp" \in fl /\ base = 10 THEN <<Fmt!Space>> ELSE <<>>)
               \o (IF "#" \in fl /\ base = 16 /\ mag # 0 THEN <<0, Fmt!Hex>> ELSE <<>>)
    <3>1. "sp" \in fl => v < 0 \/ "+" \in fl
      BY DEF Fmt!SpaceLost
    <3>2. sign \o <<>> = sign
      BY <1>2, NothingJoined
    <3>3. sign = (IF v < 0 THEN <<Fmt!Minus>> ELSE IF "+" \in fl /\ base = 10 THEN <<Fmt!Plus>>
                  ELSE IF "sp" \in fl /\ base = 10 THEN <<Fmt!Space>> ELSE <<>>)
      BY <1>1, <2>1, <3>1
    <3>4. <<>> = (IF "#" \in fl /\ base = 16 /\ mag # 0 THEN <<0, Fmt!Hex>> ELSE <<>>)
      BY <2>1
    <3> QED BY <3>2, <3>3, <3>4
  <2>3. zeros = (IF "#" \in fl /\ base = 8 /\ zeros[1] # 0 THEN <<0>> \o zeros ELSE zeros)
    BY <2>1
  <2>4. fill = width - (Len(sign) + Len(zeros))
    BY <1>2, <1>5, <1>6
  <2>5. zeros = Fmt!Pad(0, prec - Len(Fmt!Digits(mag, base))) \o Fmt!Digits(mag, base)
    BY <1>4, <2>1 DEF Zeros
  <2>6. Fmt!Printf(v < 0, mag, base, fl, width, prec) = Padded(sign, zeros, fl, fill)
    BY <2>2, <2>3, <2>4, <2>5 DEF Fmt!Printf, Padded
  <2> QED BY <2>1, <2>6
<1>10. Fmt!Layout(sign, zeros, 0, fl, width, TRUE) = Padded(sign, zeros, fl, fill)
  <2>1. zeros \in Seq(Int)
    BY <1>5
  <2>2. FillIs(sign, zeros, width, fill)
    BY <1>6, <1>7 DEF FillIs
  <2>3. LaidOut(sign, zeros, fl, width, fill)
    BY <1>2, <2>1, <2>2, LayoutIs
  <2> QED BY <2>3 DEF LaidOut
<1> QED BY <1>8, <1>9, <1>10

\* %u, %b, %o and %x: likewise, for a number whose first digit is zero only when it is
\* zero itself.
THEOREM NaturalsAsPrintf ==
  ASSUME NEW n \in Nat, NEW base \in {2, 8, 10, 16}, NEW fl \in SUBSET (Fmt!Flags \cup {"0"}),
         NEW width \in Int, NEW prec \in Int,
         NEW digs \in Seq(Int), digs = Fmt!Digits(n, base), digs # <<>>, digs[1] = 0 <=> n = 0,
         Fmt!Plain(Len(digs), fl, base, n, width, prec)
  PROVE  Fmt!FormatUint(n, base, fl, width, prec) = Fmt!Printf(FALSE, n, base, fl \ {"+", "sp"}, width, prec)
<1>1. PICK zeros : zeros = Zeros(prec, digs)
  OBVIOUS
<1>2. Fmt!PrecLeft(prec, digs) = 0 /\ prec - Len(digs) < Fmt!Direct /\ width - Len(digs) <= Fmt!Direct
  <2>1. prec - Len(digs) < Fmt!Direct /\ width - Len(digs) <= Fmt!Direct
    BY DEF Fmt!Plain
  <2>2. ~(prec - Len(digs) >= Fmt!Direct)
    BY <2>1 DEF Fmt!Direct
  <2> QED BY <2>1, <2>2 DEF Fmt!PrecLeft
<1>3. /\ zeros \in Seq(Int) /\ Len(zeros) >= Len(digs) /\ Fmt!PrecPut(prec, digs) = zeros
      /\ zeros[1] = (IF prec <= Len(digs) THEN digs[1] ELSE 0)
  BY <1>1, <1>2, PrecPutIs
<1> DEFINE oct == "#" \in fl /\ base = 8 /\ n # 0 /\ prec <= Len(digs)
<1>5. PICK sign : sign = (IF "#" \in fl /\ base = 16 THEN <<0, Fmt!Hex>> ELSE <<>>)
  OBVIOUS
<1>6. PICK pre : pre = (IF oct THEN <<0>> ELSE sign)
  OBVIOUS
<1>7. PICK body : body = (IF oct THEN <<0>> \o zeros ELSE zeros)
  OBVIOUS
<1>8. /\ sign \in Seq(Int) /\ pre \in Seq(Int) /\ body \in Seq(Int) /\ (oct => sign = <<>>)
      /\ Len(zeros) + Len(pre) = Len(body) + Len(sign)
  <2>1. sign \in Seq(Int) /\ <<0>> \in Seq(Int) /\ Len(<<0>>) = 1 /\ Len(<<>>) = 0
    BY <1>5 DEF Fmt!Hex
  <2>2. oct => sign = <<>>
    BY <1>5
  <2>3. <<0>> \o zeros \in Seq(Int) /\ Len(<<0>> \o zeros) = 1 + Len(zeros)
    BY <1>3, <2>1
  <2> QED BY <1>3, <1>6, <1>7, <2>1, <2>2, <2>3
<1>9. PICK fill \in Int : fill = width - (Len(zeros) + Len(pre))
  <2>1. width - (Len(zeros) + Len(pre)) \in Int
    BY <1>3, <1>8
  <2> QED BY <2>1
<1>10. fill <= Fmt!Direct
  <2>1. Len(zeros) \in Nat /\ Len(pre) \in Nat /\ Len(digs) \in Nat
    <3>1. zeros \in Seq(Int) /\ pre \in Seq(Int)
      BY <1>3, <1>8
    <3> QED BY <3>1
  <2> QED BY <1>2, <1>3, <1>9, <2>1 DEF Fmt!Direct
<1>11. Fmt!FormatUint(n, base, fl, width, prec) = Fmt!Layout(pre, zeros, 0, fl, width, FALSE)
  <2>1. pre = (IF "#" \notin fl THEN <<>> ELSE IF base = 8 /\ n # 0 /\ prec <= Len(digs) THEN <<0>>
               ELSE IF base = 16 THEN <<0, Fmt!Hex>> ELSE <<>>)
    BY <1>5, <1>6
  <2> QED BY <1>2, <1>3, <2>1 DEF Fmt!FormatUint
<1>12. Fmt!FormatUint(n, base, fl, width, prec) = Padded(pre, zeros, fl, fill)
  <2>1. Fmt!Layout(pre, zeros, 0, fl, width, FALSE) = Padded(pre, zeros, fl, fill)
    <3>1. pre \in Seq(Int) /\ zeros \in Seq(Int)
      BY <1>3, <1>8
    <3>2. FillIs(pre, zeros, width, fill)
      BY <1>9, <1>10 DEF FillIs
    <3>3. LaidOut(pre, zeros, fl, width, fill)
      BY <3>1, <3>2, LayoutIs
    <3> QED BY <3>3 DEF LaidOut
  <2> QED BY <1>11, <2>1
<1>13. Fmt!Printf(FALSE, n, base, fl \ {"+", "sp"}, width, prec) = Padded(sign, body, fl, fill)
  <2>1. PICK gl : gl = fl \ {"+", "sp"}
    OBVIOUS
  <2>2. ("-" \in gl <=> "-" \in fl) /\ ("0" \in gl <=> "0" \in fl) /\ ("#" \in gl <=> "#" \in fl)
        /\ "+" \notin gl /\ "sp" \notin gl
    BY <2>1
  <2>3. ~("#" \in fl /\ base = 16 /\ n = 0)
    BY DEF Fmt!Plain
  <2>4. sign = (IF FALSE THEN <<Fmt!Minus>> ELSE IF "+" \in gl /\ base = 10 THEN <<Fmt!Plus>>
                ELSE IF "sp" \in gl /\ base = 10 THEN <<Fmt!Space>> ELSE <<>>)
               \o (IF "#" \in gl /\ base = 16 /\ n # 0 THEN <<0, Fmt!Hex>> ELSE <<>>)
    <3>1. <<>> \o sign = sign
      BY <1>8, NothingJoined
    <3>2. sign = (IF "#" \in gl /\ base = 16 /\ n # 0 THEN <<0, Fmt!Hex>> ELSE <<>>)
      BY <1>5, <2>2, <2>3
    <3>3. <<>> = (IF FALSE THEN <<Fmt!Minus>> ELSE IF "+" \in gl /\ base = 10 THEN <<Fmt!Plus>>
                  ELSE IF "sp" \in gl /\ base = 10 THEN <<Fmt!Space>> ELSE <<>>)
      BY <2>2
    <3> QED BY <3>1, <3>2, <3>3
  <2>5. body = (IF "#" \in gl /\ base = 8 /\ zeros[1] # 0 THEN <<0>> \o zeros ELSE zeros)
    <3>1. zeros[1] # 0 <=> (n # 0 /\ prec <= Len(digs))
      BY <1>3
    <3> QED BY <1>7, <2>2, <3>1
  <2>6. width - (Len(sign) + Len(body)) = fill
    <3>1. sign \in Seq(Int) /\ body \in Seq(Int) /\ zeros \in Seq(Int) /\ pre \in Seq(Int)
      BY <1>3, <1>8
    <3>2. Len(sign) \in Nat /\ Len(body) \in Nat /\ Len(zeros) \in Nat /\ Len(pre) \in Nat
      BY <3>1
    <3>3. Len(zeros) + Len(pre) = Len(body) + Len(sign)
      BY <1>8
    <3> QED BY <1>9, <3>2, <3>3
  <2>7. Fmt!Printf(FALSE, n, base, gl, width, prec) = Padded(sign, body, gl, fill)
    BY <1>1, <2>4, <2>5, <2>6 DEF Fmt!Printf, Padded, Zeros
  <2>8. Padded(sign, body, gl, fill) = Padded(sign, body, fl, fill)
    BY <2>2 DEF Padded
  <2> QED BY <2>1, <2>7, <2>8
<1>14. Padded(pre, zeros, fl, fill) = Padded(sign, body, fl, fill)
  <2>1. CASE ~oct
    BY <1>6, <1>7, <2>1
  <2>2. CASE oct
    <3>1. pre = <<0>> /\ sign = <<>> /\ body = <<0>> \o zeros /\ <<0>> \in Seq(Int) /\ zeros \in Seq(Int)
      BY <1>3, <1>6, <1>7, <1>8, <2>2
    <3> QED BY <3>1, ZeroInFront
  <2> QED BY <2>1, <2>2
<1> QED BY <1>12, <1>13, <1>14
=============================================================================
