------------------------------ MODULE FastRpc ------------------------------
(***************************************************************************)
(* The binary RPC format: what FastRpcEncoder appends to its content and   *)
(* what FastRpcDecoder makes of it.  A content is a sequence of octets.    *)
(* The octets of integers and lengths are digits of base Base, 256 in the  *)
(* code: a Sint32 has Base^4 values, a Sint64 Base^8.  Type octets hold    *)
(* their true codes.  Texts are sequences of character codes.              *)
(*                                                                         *)
(* A reader takes the content c and its position p and returns the         *)
(* position behind what it read and the value; position 0 is an exception. *)
(***************************************************************************)
EXTENDS Integers, Sequences, FiniteSetsExt

CONSTANT Base

Min32 == -((Base^4) \div 2)
Min64 == -((Base^8) \div 2)

\* Negation in a signed type: the least value stays what it is.
Negate(v, least) == IF v = least THEN v ELSE -v

copyLe(v, n) == [i \in 1..n |-> ((v % Base^8) \div Base^(i - 1)) % Base]
FromLe(c, p, n) == SumFunction([i \in 0..(n - 1) |-> c[p + i] * Base^i])

Fail == [p |-> 0, v |-> 0]
Bytes(c, p, n) == SubSeq(c, p, p + n - 1)

-----------------------------------------------------------------------------
(* FastRpcEncoder.  length_add is 1 from its constructor on: version 2.    *)

Header == <<202, 17, 2, 0>>

\* The low bits of the type: one octet less than the length or value takes.
\* The eighth octet depends on bit 32 alone.
Octets(length) ==
    IF length < Base THEN 0
    ELSE IF length % Base^4 < Base^2 THEN 1
    ELSE IF (length \div Base^4) % 2 = 1 THEN 7 ELSE 3

GenLength(type, length) ==
    <<type + Octets(length)>> \o copyLe(length, Octets(length) + 1)

\* Variant: the limits of the widths are off by one.
IntOctetsLate(v) == IF v <= Base THEN 0 ELSE IF v <= Base^2 THEN 1
                    ELSE IF v <= Base^4 THEN 3 ELSE 7

\* The comparisons are signed: the least value has the octets of a small one.
IntOctets(v) == IF v < Base THEN 0 ELSE IF v < Base^2 THEN 1
                ELSE IF v < Base^4 THEN 3 ELSE 7

WriteInt(v, least) ==
    LET a == IF v < 0 THEN Negate(v, least) ELSE v
    IN  <<(IF v < 0 THEN 64 ELSE 56) + IntOctets(a)>> \o copyLe(a, IntOctets(a) + 1)

WriteBool(b) == <<16 + b>>
WriteDouble(d) == <<24>> \o d          \* the eight octets of the number
WriteString(t) == GenLength(32, Len(t)) \o t
WriteBinary(t) == GenLength(48, Len(t)) \o t

\* A time is its seconds and its calendar <<year, mon, day, hour, min, sec>>,
\* with months and days from 0: four octets of seconds, five of calendar.
WriteTime(t) ==
    LET y == t.cal[1] - 1600  mon == t.cal[2] + 1  day == t.cal[3] + 1
        hour == t.cal[4]  min == t.cal[5]  sec == t.cal[6]
    IN  <<40, 0>> \o copyLe(t.sec, 4) \o
        <<7 + (sec % 32) * 8,
          ((sec \div 32) % 2) + (min % 64) * 2 + (hour % 2) * 128,
          ((hour \div 2) % 16) + (day % 16) * 16,
          ((day % 32) \div 16) + (mon % 16) * 2 + (y % 8) * 32,
          (y % 2048) \div 8>>

\* A name has one octet of length; a member name that is longer is refused.
WriteName(t) == <<Len(t) % Base>> \o t
NameFits(t) == Len(t) < Base
WriteMethodName(t) == <<104>> \o WriteName(t)
WriteMethodResponse == <<112>>
WriteFault(code, t) == <<120>> \o WriteInt(code, Min64) \o WriteString(t)

-----------------------------------------------------------------------------
(* FastRpcDecoder.  length_add is 1 for the version of the header above.   *)

ReadHeader(c) ==
    IF SubSeq(c, 1, 2) # <<202, 17>> THEN Fail
    ELSE CASE c[5] \div 8 = 13 -> [p |-> 5, v |-> 0]
           [] c[5] \div 8 = 14 -> [p |-> 5, v |-> 1]
           [] c[5] \div 8 = 15 -> [p |-> 5, v |-> 2]
           [] OTHER -> Fail

TypeAt(c, p) ==
    IF p > Len(c) THEN "end"
    ELSE LET k == c[p] \div 8 IN
         CASE k \in {1, 7, 8} -> "int" [] k = 2 -> "bool" [] k = 3 -> "double"
           [] k = 4 -> "string" [] k = 5 -> "time" [] k = 6 -> "binary"
           [] k = 10 -> "struct" [] k = 11 -> "array" [] OTHER -> "other"

\* readInt32() and readInt64() of version 2: a width and a sign.
ReadInt(c, p, width) ==
    LET k == c[p] \div 8
        n == (c[p] % 8) + 1
    IN  IF p > Len(c) \/ k \notin {7, 8} \/ n > width \/ p + n > Len(c) THEN Fail
        ELSE LET u == FromLe(c, p + 1, n)
                 half == (Base^width) \div 2
                 v == IF u >= half THEN u - 2 * half ELSE u
             IN  [p |-> p + n + 1, v |-> IF k = 8 THEN Negate(v, -half) ELSE v]

ReadBool(c, p) ==
    IF p > Len(c) \/ c[p] \notin {16, 17} THEN Fail ELSE [p |-> p + 1, v |-> c[p] % 2]
ReadDouble(c, p) == IF c[p] # 24 THEN Fail ELSE [p |-> p + 9, v |-> Bytes(c, p + 1, 8)]

\* readGenLength() behind a type octet.
ReadLength(c, p, k) ==
    IF p > Len(c) \/ c[p] \div 8 # k THEN Fail
    ELSE LET n == (c[p] % 8) + 1 IN [p |-> p + n + 1, v |-> FromLe(c, p + 1, n)]
ReadText(c, p, k) ==
    LET r == ReadLength(c, p, k)
    IN  IF r.p = 0 THEN Fail ELSE [p |-> r.p + r.v, v |-> Bytes(c, r.p, r.v)]

\* Seconds of zero send the reader to the calendar.
ReadTime(c, p) ==
    IF p > Len(c) \/ c[p] # 40 THEN Fail
    ELSE LET s == FromLe(c, p + 2, 4)
             b(i) == c[p + 1 + i]
         IN  [p |-> p + 11,
              v |-> IF s # 0 THEN [sec |-> s]
                    ELSE [cal |-> <<1600 + b(9) * 8 + b(8) \div 32,
                                    ((b(8) % 32) \div 2) - 1,
                                    (b(8) % 2) * 16 + (b(7) \div 16) - 1,
                                    (b(7) % 16) * 2 + b(6) \div 128,
                                    (b(6) % 128) \div 2,
                                    (b(6) % 2) * 32 + b(5) \div 8>>]]

ReadName(c, p) ==
    IF p > Len(c) THEN Fail ELSE [p |-> p + 1 + c[p], v |-> Bytes(c, p + 1, c[p])]
ReadMethodName(c, p) == IF c[p] # 104 THEN Fail ELSE ReadName(c, p + 1)
ReadMethodResponse(c, p) == IF c[p] # 112 THEN Fail ELSE [p |-> p + 1, v |-> 0]
ReadFault(c, p) ==
    LET n == ReadInt(c, p + 1, 8)
        t == IF n.p = 0 THEN Fail ELSE ReadText(c, n.p, 4)
    IN  IF c[p] # 120 \/ t.p = 0 THEN Fail ELSE [p |-> t.p, v |-> <<n.v, t.v>>]

-----------------------------------------------------------------------------
\* readSkip(): the position behind the value at p.  A container is gone
\* through by the number of its members.
RECURSIVE Skip(_, _)
RECURSIVE SkipMany(_, _, _, _)
SkipMany(c, p, n, named) ==
    IF n = 0 \/ p = 0 THEN p
    ELSE SkipMany(c, Skip(c, IF named THEN ReadName(c, p).p ELSE p), n - 1, named)
Skip(c, p) ==
    CASE TypeAt(c, p) = "int" -> ReadInt(c, p, 8).p
      [] TypeAt(c, p) = "bool" -> ReadBool(c, p).p
      [] TypeAt(c, p) = "double" -> ReadDouble(c, p).p
      [] TypeAt(c, p) = "string" -> ReadText(c, p, 4).p
      [] TypeAt(c, p) = "time" -> ReadTime(c, p).p
      [] TypeAt(c, p) = "binary" -> ReadText(c, p, 6).p
      [] TypeAt(c, p) = "struct" -> LET r == ReadLength(c, p, 10) IN SkipMany(c, r.p, r.v, TRUE)
      [] TypeAt(c, p) = "array" -> LET r == ReadLength(c, p, 11) IN SkipMany(c, r.p, r.v, FALSE)
      [] OTHER -> 0
=============================================================================
