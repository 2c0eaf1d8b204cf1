------------------------------ MODULE Strings ------------------------------
(***************************************************************************)
(* The representation of String (StrData: bytes and wide characters, each  *)
(* converted from the other on demand) and of String_c (BString, WString,  *)
(* Blob: a counted buffer copied on write).  A String handle and the       *)
(* BString its ascii() returned share a buffer.  Every handle belongs to   *)
(* one thread; the threads meet in the data and the buffers they share.    *)
(*                                                                         *)
(* A counter is 0 for one owner, as in the code.                           *)
(***************************************************************************)
EXTENDS TextOps

CONSTANTS Strs, Blobs,          \* handles of type String and of type String_c
          WideBlobs,            \* the blobs that are WStrings
          Programs,             \* [handles, ascii, wide, max]: the handles a behaviour
                                \* uses, the texts it writes, the longest text
          MaxPlace              \* the places of each heap are 1..MaxPlace

VARIABLES prog,  \* the program of this behaviour
          d,     \* d[h], h in Strs: the StrData; h in Blobs: the buffer
          data,  \* data[i] = [rc, b, w, hash]: b, w are buffers or NoRep
          buf,   \* buf[i] = [rc, s, al, hash]
          pend   \* pend[h]: a conversion whose result h has not stored yet

use == prog.handles
AsciiLits == prog.ascii
WideLits == prog.wide
MaxLen == prog.max
vars == <<prog, d, data, buf, pend>>

\* The static objects, of both heaps.
Null == -1
Zero == 0
NoRep == -2                     \* an invalid representation
NullHash == -3
Free == [rc |-> -9]
Idle == [k |-> "none"]

\* Every thing that can be allocated at once has a place; '?' is ASCII; the empty
\* text, whose hash is 0 in the code, does not have the hash of the null String.
ASSUME StringsAssumption ==
    /\ IsFiniteSet(Strs) /\ IsFiniteSet(Blobs) /\ Strs \cap Blobs = {}
    /\ MaxPlace \in Nat /\ MaxPlace > 3 * Cardinality(Strs) + Cardinality(Blobs)
    /\ "?" \notin WideOnly \cup ByteOnly
    /\ Hash(<<>>) # NullHash

Static == {Null, Zero}
Live(heap) == {i \in DOMAIN heap : heap[i] # Free}
Places == Static \cup 1..MaxPlace
FreeId(heap) == Min(Places \ Live(heap))

-----------------------------------------------------------------------------
(* Buffers: String_c's allocDg(), ref(), unrefDg().                        *)
NewBuf(bf, s, al) == [bf EXCEPT ![FreeId(bf)] = [rc |-> 0, s |-> s, al |-> al, hash |-> None]]
RefBuf(bf, i) == IF i = NoRep THEN bf ELSE [bf EXCEPT ![i].rc = @ + 1]
UnrefBuf(bf, i) ==
    IF i = NoRep THEN bf
    ELSE IF bf[i].rc = 0 THEN [bf EXCEPT ![i] = Free] ELSE [bf EXCEPT ![i].rc = @ - 1]

\* StrData::unref() and destroy(): <<data, buffers>> afterwards.
UnrefData(dt, bf, i) ==
    IF dt[i].rc # 0 THEN <<[dt EXCEPT ![i].rc = @ - 1], bf>>
    ELSE <<[dt EXCEPT ![i] = Free], UnrefBuf(UnrefBuf(bf, dt[i].b), dt[i].w)>>

Bytes(i) == buf[data[i].b].s
Wides(i) == buf[data[i].w].s
HasB(i) == data[i].b # NoRep
HasW(i) == data[i].w # NoRep
Chars(i) == IF HasB(i) THEN Bytes(i) ELSE Wides(i)

\* The thread of h is not inside a conversion.
Alone(h) == h \in use /\ pend[h] = Idle

-----------------------------------------------------------------------------
(* String: h gets a fresh StrData with one representation.  The code frees *)
(* the old one after it copied from it; only the place of the new one      *)
(* depends on that.                                                        *)
Become(h, s, isWide) ==
    LET r == UnrefData(data, buf, d[h])
        i == FreeId(r[1])
        j == FreeId(r[2])
    IN  /\ Len(s) <= MaxLen
        /\ d' = [d EXCEPT ![h] = i]
        /\ data' = [r[1] EXCEPT ![i] = [rc |-> 0, hash |-> None,
                                       b |-> IF isWide THEN NoRep ELSE j,
                                       w |-> IF isWide THEN j ELSE NoRep]]
        /\ buf' = NewBuf(r[2], s, Len(s) + 1)
        /\ UNCHANGED <<prog, pend>>

\* h shares the StrData i: i_setDoref().
ShareData(h, i) ==
    LET r == UnrefData([data EXCEPT ![i].rc = @ + 1], buf, d[h])
    IN  /\ d' = [d EXCEPT ![h] = i] /\ data' = r[1] /\ buf' = r[2]
        /\ UNCHANGED <<prog, pend>>

SetAscii(h) == Alone(h) /\ \E l \in AsciiLits : Become(h, l, FALSE)
SetWide(h) == Alone(h) /\ \E l \in WideLits : Become(h, l, TRUE)
SetStatic(h) == Alone(h) /\ \E i \in Static : ShareData(h, i)
Assign(h) == Alone(h) /\ \E g \in use \cap Strs : ShareData(h, d[g])

\* append(): bytes when both have them, else wide when both have it; else the
\* call converts first (Convert) and tries again.
AppendStr(h) ==
    /\ Alone(h)
    /\ \E g \in use \cap Strs :
        LET t == d[h]  s == d[g] IN
        CASE Len(Chars(s)) = 0 -> UNCHANGED vars
          [] Len(Chars(s)) # 0 /\ Len(Chars(t)) = 0 -> ShareData(h, s)
          [] OTHER -> IF HasB(t) /\ HasB(s) THEN Become(h, Bytes(t) \o Bytes(s), FALSE)
                      ELSE HasW(t) /\ HasW(s) /\ Become(h, Wides(t) \o Wides(s), TRUE)

\* appendAscii(), appendAsciiChars(), appendAsciiReverse(), appendWideChars():
\* the representation of the StrData is kept, bytes first.
AppendAscii(h) ==
    /\ Alone(h)
    /\ \E l \in AsciiLits : \E r \in {l, Reverse(l)} :
        IF HasB(d[h]) THEN Become(h, Bytes(d[h]) \o r, FALSE)
        ELSE Become(h, Wides(d[h]) \o r, TRUE)
AppendWide(h) ==
    /\ Alone(h) /\ HasW(d[h])
    /\ \E l \in WideLits : Become(h, Wides(d[h]) \o l, TRUE)

\* left(), right(), mid(), insert(), replace(): all work on ascii().
ByteEdits(s) ==
    {Mid(s, p, n) : p \in 0..Len(s), n \in 0..MaxLen}
    \cup {Insert(s, p, l) : p \in -1..MaxLen, l \in AsciiLits}
    \cup {Replace(s, l, m) : l \in {k \in AsciiLits : Find(s, k, 0) # None}, m \in AsciiLits \cup {<<>>}}
EditBytes(h) ==
    /\ Alone(h) /\ HasB(d[h])
    /\ \E r \in ByteEdits(Bytes(d[h])) : Become(h, r, FALSE)

\* lockAscii() / lockWide(), the caller's writes, unlock(): a fresh StrData.
LockString(h) ==
    /\ Alone(h)
    /\ \/ HasB(d[h]) /\ \E l \in AsciiLits : Become(h, l \o MidFrom(Bytes(d[h]), Len(l)), FALSE)
       \/ HasW(d[h]) /\ \E l \in WideLits : Become(h, l \o MidFrom(Wides(d[h]), Len(l)), TRUE)

\* getHash(), and what beq() computes on its way: updateHash().
HashOf(i) == IF data[i].hash # None THEN data[i].hash ELSE Hash(Chars(i))
UpdateHash(h) ==
    /\ Alone(h) /\ data[d[h]].hash = None
    /\ data' = [data EXCEPT ![d[h]].hash = Hash(Chars(d[h]))]
    /\ UNCHANGED <<prog, d, buf, pend>>

-----------------------------------------------------------------------------
(* updateByte(), updateWide(), refByte(): the thread of h converts into a  *)
(* new buffer and stores it with one cmpxchg.  Another thread that shares  *)
(* the StrData may have been faster.                                       *)
Converted(i, k) == IF k = "b" THEN ToByte(Wides(i)) ELSE ToWide(Bytes(i))
Convert(h) ==
    /\ Alone(h)
    /\ \E k \in {"b", "w"} :
        /\ data[d[h]][k] = NoRep
        /\ buf' = NewBuf(buf, Converted(d[h], k), Len(Converted(d[h], k)) + 1)
        /\ pend' = [pend EXCEPT ![h] = [k |-> k, new |-> FreeId(buf)]]
    /\ UNCHANGED <<prog, d, data>>

\* The loser of the race frees its buffer and finds the representation valid.
LoseKeeping(bf, new) == bf
Lose(bf, new) == UnrefBuf(bf, new)
Store(h) ==
    /\ pend[h] # Idle
    /\ LET p == pend[h]  i == d[h] IN
       IF data[i][p.k] = NoRep
       THEN data' = [data EXCEPT ![i][p.k] = p.new] /\ buf' = buf
       ELSE data' = data /\ buf' = Lose(buf, p.new)
    /\ pend' = [pend EXCEPT ![h] = Idle]
    /\ UNCHANGED <<prog, d>>

-----------------------------------------------------------------------------
(* String_c.                                                               *)

\* x shares the buffer i; x gets a buffer of its own with the text s.
ShareBuf(x, i) ==
    /\ buf' = UnrefBuf(RefBuf(buf, i), d[x])
    /\ d' = [d EXCEPT ![x] = i]
    /\ UNCHANGED <<prog, data, pend>>
OwnBuf(x, s, al) ==
    /\ Len(s) <= MaxLen
    /\ LET bf == UnrefBuf(buf, d[x])
       IN  buf' = NewBuf(bf, s, al) /\ d' = [d EXCEPT ![x] = FreeId(bf)]
    /\ UNCHANGED <<prog, data, pend>>
InPlace(x, s, hash) ==
    /\ Len(s) <= MaxLen
    /\ buf' = [buf EXCEPT ![d[x]].s = s, ![d[x]].hash = hash]
    /\ UNCHANGED <<prog, d, data, pend>>

\* createDgLen(): no buffer for an empty text.
Create(x, s) == IF s = <<>> THEN ShareBuf(x, Zero) ELSE OwnBuf(x, s, Len(s) + 1)

\* ascii(), utf8(), wide() of a String, and a String made from a BString.
TakeRep(x) ==
    /\ x \in use
    /\ \E g \in use \cap Strs :
        LET rep == data[d[g]][IF x \in WideBlobs THEN "w" ELSE "b"]
        IN  Alone(g) /\ rep # NoRep /\ ShareBuf(x, rep)
FromBlob(h) ==
    /\ Alone(h)
    /\ \E x \in use \cap Blobs : Become(h, buf[d[x]].s, x \in WideBlobs)

Like(x) == {y \in use \cap Blobs : y \in WideBlobs <=> x \in WideBlobs}
CopyBlob(x) == x \in use /\ \E y \in Like(x) : ShareBuf(x, d[y])
SetBlob(x) == x \in use /\ \E l \in AsciiLits \cup {<<>>} : Create(x, l)

\* lock(), lockKeep(), reallocSelf(): a buffer of one's own with room for n.
MustCopyIfSmall(b, n) == n >= b.al
MustCopy(b, n) == b.rc > 0 \/ n >= b.al

\* lock(room), writes, unlock(Len(s)), or lockKeep(room), writes, unlockAppend().
\* unlock() with the size lock() was given does not forget the hash.
Write(x, s, room, forget) ==
    LET b == buf[d[x]] IN
    IF MustCopy(b, room) THEN OwnBuf(x, s, room + 1)
    ELSE InPlace(x, s, IF forget THEN None ELSE b.hash)
\* lock() of a shared buffer with less room than its text is left out: it copies
\* the whole text into a buffer of the smaller size, and what follows is undefined.
LockBlob(x) ==
    /\ x \in use
    /\ \E l \in AsciiLits : LET b == buf[d[x]]  s == b.s IN
        \/ \E room \in Len(l)..MaxLen :
             /\ b.rc = 0 \/ room >= Len(s)
             /\ Write(x, l, room, room # Len(l))
        \/ Write(x, l \o MidFrom(s, Len(l)), Max({Len(s), Len(l)}), FALSE)
        \/ Write(x, s \o l, Len(s) + Len(l), TRUE)

Extend(x, t) ==
    LET b == buf[d[x]]  n == Len(b.s) + Len(t) IN
    IF MustCopy(b, n) THEN OwnBuf(x, b.s \o t, n + 1) ELSE InPlace(x, b.s \o t, b.hash)

\* append(): in place when there is room, and then the hash stays as it was.
\* x.append(x) is left out where x has to move: the buffer may be freed before the
\* text is read from it, and what follows is undefined.
AppendBlob(x) ==
    /\ x \in use
    /\ LET b == buf[d[x]] IN
       \/ \E y \in Like(x) :
            LET t == buf[d[y]].s IN
            CASE t = <<>> -> UNCHANGED vars
              [] t # <<>> /\ b.s = <<>> -> ShareBuf(x, d[y])
              [] OTHER -> /\ y # x \/ ~MustCopy(b, Len(b.s) + Len(t))
                          /\ Extend(x, t)
       \/ \E l \in AsciiLits : Extend(x, l)
       \/ \E l \in AsciiLits : OwnBuf(x, b.s \o Reverse(l), Len(b.s) + Len(l) + 1)

\* left(), mid(), right(), removeLeft(), removeMid(), removeRight(), trimSpaces().
EditBlob(x) ==
    /\ x \in use
    /\ LET s == buf[d[x]].s IN
       \/ \E r \in {RemoveLeft(s, n) : n \in 1..MaxLen} \cup {RemoveRight(s, n) : n \in 0..MaxLen}
                    \cup {Right(s, n) : n \in 0..(Len(s) - 1)} \cup {TrimSpaces(s)}
                    \cup {Mid(s, p, n) : p, n \in 0..MaxLen} : Create(x, r)
       \/ \E r \in {RemoveMid(s, p, n) : p, n \in 0..MaxLen} : OwnBuf(x, r, Len(r) + 1)
HashBlob(x) ==
    /\ x \in use /\ buf[d[x]].hash = None
    /\ InPlace(x, buf[d[x]].s, Hash(buf[d[x]].s))

-----------------------------------------------------------------------------
StaticData(i) == [rc |-> 0, b |-> i, w |-> i, hash |-> IF i = Null THEN NullHash ELSE None]
StaticBuf == [rc |-> 1, s |-> <<>>, al |-> 0, hash |-> None]

Init ==
    /\ prog \in Programs
    /\ d = [h \in Strs \cup Blobs |-> Zero]
    /\ data = [i \in Places |->
                 IF i = Null THEN StaticData(Null)
                 ELSE IF i = Zero THEN [StaticData(Zero) EXCEPT !.rc = Cardinality(Strs)] ELSE Free]
    /\ buf = [i \in Places |->
                IF i \in Static THEN [StaticBuf EXCEPT !.rc = IF i = Zero THEN 1 + Cardinality(Blobs) ELSE 1]
                ELSE Free]
    /\ pend = [h \in Strs \cup Blobs |-> Idle]

StringStep(h) ==
    \/ SetAscii(h) \/ SetWide(h) \/ SetStatic(h) \/ Assign(h) \/ AppendStr(h)
    \/ AppendAscii(h) \/ AppendWide(h) \/ EditBytes(h) \/ LockString(h)
    \/ UpdateHash(h) \/ Convert(h) \/ Store(h) \/ FromBlob(h)
BlobStep(x) ==
    \/ TakeRep(x) \/ CopyBlob(x) \/ SetBlob(x) \/ LockBlob(x) \/ AppendBlob(x)
    \/ EditBlob(x) \/ HashBlob(x)
Next == (\E h \in use \cap Strs : StringStep(h)) \/ (\E x \in use \cap Blobs : BlobStep(x))
Spec == Init /\ [][Next]_vars

-----------------------------------------------------------------------------
\* The text of a handle, with '?' for what only one representation can hold.
Fold(s) == ToByte(ToWide(s))
Val(h) == [null |-> d[h] = Null,
           s |-> Fold(IF h \in Strs THEN Chars(d[h]) ELSE buf[d[h]].s)]

\* String and String_c behave as values: whatever representation an operation
\* finds and whatever is shared with other handles and threads, it gives one
\* handle the text it promises and changes no other one.  Two calls of String_c
\* are excepted, because they are undefined: lock() of a shared buffer with less
\* room than its text (LockBlob) and appending a String_c to itself where it has
\* to move (AppendBlob).
Values == INSTANCE TextValues WITH
            Handles <- Strs \cup Blobs,
            Lits <- UNION {{Fold(l), Reverse(Fold(l))} : l \in UNION {p.ascii \cup p.wide : p \in Programs}},
            MaxLen <- Max({p.max : p \in Programs}),
            val <- [h \in Strs \cup Blobs |-> Val(h)]
ImplementsValues == Values!Spec

\* Every counter is the number of owners less one: no StrData and no buffer is
\* lost or freed early, also not when two threads convert the same StrData and
\* one of them has to give its buffer up.
Owners(i) == Cardinality({h \in Strs : d[h] = i})
BufOwners(j) == Cardinality({x \in Blobs : d[x] = j})
                + Cardinality({i \in Live(data) \ Static : data[i].b = j})
                + Cardinality({i \in Live(data) \ Static : data[i].w = j})
                + Cardinality({h \in Strs : pend[h] # Idle /\ pend[h].new = j})
RefsExact ==
    /\ \A i \in Live(data) : data[i].rc + 1 = Owners(i) + (IF i \in Static THEN 1 ELSE 0)
    /\ \A j \in Live(buf) : buf[j].rc + 1 = BufOwners(j) + (IF j \in Static THEN 2 ELSE 0)

\* beq(): the hashes first, then the lengths, then the representation both have.
BeqHashed(i, j) == i = j \/ HashOf(i) = HashOf(j)
BeqText(i, j) ==
    IF HasB(i) /\ HasB(j) THEN Bytes(i) = Bytes(j)
    ELSE (IF HasW(i) THEN Wides(i) ELSE ToWide(Bytes(i)))
         = (IF HasW(j) THEN Wides(j) ELSE ToWide(Bytes(j)))
Beq(i, j) == i = j \/ (HashOf(i) = HashOf(j) /\ BeqText(i, j))

\* Equality of Strings is equality of texts, whatever each side has been converted
\* to and whenever its hash was computed, as long as the text is ASCII.
Ascii(i) == \A k \in {"b", "w"} : data[i][k] # NoRep => Fold(buf[data[i][k]].s) = buf[data[i][k]].s
EqExact == \A h, g \in Strs : Ascii(d[h]) /\ Ascii(d[g]) => (Beq(d[h], d[g]) <=> Val(h) = Val(g))

-----------------------------------------------------------------------------
\* What does not depend on the state is evaluated where no handle has a text yet.
Blank == d = [h \in Strs \cup Blobs |-> Zero] /\ data[Zero].hash = None
Letters == {l[1] : l \in UNION {p.ascii \cup p.wide : p \in Programs}}
Texts == UNION {[1..n -> Letters] : n \in 0..3}

\* The searches agree with each other and with the edits: find() is where the
\* needle is cut out and put back, startsWith() and endsWith() are find() at the
\* beginning and rfind() at the end, replace() leaves no needle that its
\* replacement could not bring, StringIndex finds every key under its last index.
SearchLaws ==
  Blank =>
    \A s \in Texts, t \in Texts \ {<<>>} :
      LET f == Find(s, t, 0)  r == RFind(s, t, Len(s)) IN
      /\ StartsWith(s, t) <=> f = 0
      /\ EndsWith(s, t) <=> (r # None /\ r = Len(s) - Len(t))
      /\ (f = None) <=> (r = None)
      /\ f # None => /\ Insert(RemoveMid(s, f, Len(t)), f, t) = s
                     /\ f <= r /\ Find(s, t, f) = f /\ RFind(s, t, f) = None
      /\ Find(Insert(s, -Len(s), t), t, 0) = 0
      /\ Find(Replace(s, t, <<"c">>), t, 0) = None
      /\ Replace(Replace(s, t, <<"c">>), <<"c">>, t) = s
      /\ \A k \in {s, t} : LET keys == <<t, s, t>> IN
           IndexFind(keys, k) = (IF k = t THEN 2 ELSE 1)
      /\ IndexFind(<<t>>, s) = (IF s = t THEN 0 ELSE None)
=============================================================================
