------------------------------ MODULE TextOps ------------------------------
(***************************************************************************)
(* What the operations of String and of String_c (BString, WString, Blob)  *)
(* do to a text, without its representation: a text is a sequence of       *)
(* characters, positions count from zero.  The formatting of integers by   *)
(* vformatAscii() and the table of StringIndex are here too.               *)
(***************************************************************************)
EXTENDS Integers, Sequences, SequencesExt, FiniteSetsExt

CONSTANTS WideOnly,     \* characters above 127 that only a wide string holds
          ByteOnly,     \* bytes above 127
          Hash(_)       \* the hash of a sequence of characters, collisions allowed

None == -1              \* "not found", and a hash that is not computed yet
Nul == "nul"            \* the character behind the end of every buffer
At(s, i) == IF i < Len(s) THEN s[i + 1] ELSE Nul
MatchAt(s, t, p) == SubSeq(s, p + 1, p + Len(t)) = t
Rep(c, n) == [i \in 1..n |-> c]

\* The conversions between the representations: what does not fit is '?'.
ToByte(s) == [i \in DOMAIN s |-> IF s[i] \in WideOnly THEN "?" ELSE s[i]]
ToWide(s) == [i \in DOMAIN s |-> IF s[i] \in ByteOnly THEN "?" ELSE s[i]]

-----------------------------------------------------------------------------
(* Parts of a text.  mid() of String and of String_c cut the same part.    *)
Mid(s, p, n) == IF p > Len(s) THEN <<>>
                ELSE SubSeq(s, p + 1, p + Min({n, Len(s) - p}))
MidFrom(s, p) == Mid(s, p, Len(s))
Left(s, n) == Mid(s, 0, n)
Right(s, n) == IF n > Len(s) THEN s ELSE Mid(s, Len(s) - n, n)

Append2(s, t) == IF t = <<>> THEN s ELSE IF s = <<>> THEN t ELSE s \o t

Insert(s, pos, t) ==
    LET p == IF pos < 0 THEN Max({Len(s) + pos, 0}) ELSE pos
    IN  IF p > Len(s) THEN Append2(s, t)
        ELSE Append2(Append2(Left(s, p), t), MidFrom(s, p))

RemoveLeft(s, n) == MidFrom(s, Min({n, Len(s)}))
RemoveMid(s, p, n) ==
    LET q == Min({p, Len(s)}) IN Left(s, q) \o MidFrom(s, q + Min({n, Len(s) - q}))
RemoveRight(s, n) == IF n >= Len(s) THEN <<>> ELSE Left(s, Len(s) - n)

TrimSpaces(s) ==
    LET ink == {i \in DOMAIN s : s[i] # " "}
    IN  IF ink = {} THEN <<>> ELSE SubSeq(s, Min(ink), Max(ink))

-----------------------------------------------------------------------------
(* Searching.                                                              *)

\* String::find(): the first character is compared with the first one of the
\* needle before the rest is, so an empty needle only matches behind the end.
StartsShort(s, t, start) == start..(Len(s) - Len(t) - 1)
Starts(s, t, start) == start..(Len(s) - Len(t))
Find(s, t, start) ==
    LET hits == {p \in Starts(s, t, start) : At(s, p) = At(t, 0) /\ MatchAt(s, t, p)}
    IN  IF hits = {} THEN None ELSE Min(hits)
RFind(s, t, before) ==
    LET last == Len(s) - Len(t)
        from == IF before > last THEN last ELSE before - 1
        hits == {p \in 0..from : MatchAt(s, t, p)}
    IN  IF last < 0 \/ hits = {} THEN None ELSE Max(hits)
StartsWith(s, t) == Left(s, Len(t)) = t
EndsWith(s, t) == Right(s, Len(t)) = t

\* replace(): the search goes on behind the text put in.
ReplaceFrom(s, what, rep) ==
    LET step[i \in 0..Len(s)] ==        \* i rounds of the loop: <<text, position>>
          IF i = 0 THEN <<s, 0>>
          ELSE LET r == step[i - 1] IN
               LET p == IF r[2] = None THEN None ELSE Find(r[1], what, r[2])
               IN  IF p = None THEN <<r[1], None>>
                   ELSE <<Left(r[1], p) \o rep \o MidFrom(r[1], p + Len(what)), p + Len(rep)>>
    IN  step[Len(s)][1]
Replace(s, what, rep) == IF what = <<>> THEN s ELSE ReplaceFrom(s, what, rep)

\* StringIndex: the keys are put in from the last one to the first one; the
\* head of the chain of a slot is the key put in last.
Slots(n) == Max({k \in {1, 2, 4, 8, 16} : k <= 3 * n})
Chain(keys, k) ==
    {i \in DOMAIN keys : /\ Hash(keys[i]) % Slots(Len(keys)) = Hash(k) % Slots(Len(keys))
                         /\ \A j \in DOMAIN keys : j > i => keys[j] # keys[i]}
IndexFind(keys, k) ==
    LET hits == {i \in Chain(keys, k) : keys[i] = k} IN IF hits = {} THEN None ELSE Min(hits) - 1

=============================================================================
