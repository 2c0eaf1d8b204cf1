------------------------------- MODULE XmlRpc -------------------------------
(***************************************************************************)
(* The XML RPC format: what XmlRpcEncoder appends to its content and what  *)
(* XmlRpcDecoder makes of it.  A content is a sequence of tokens: opening, *)
(* closing and empty-element tags, and texts, which are sequences of ASCII *)
(* codes.  White space between tags and comments, which                    *)
(* moveToNextElement() passes over, are left out.                          *)
(*                                                                         *)
(* The state of the decoder is [p, e]: pos, and empty_el as the index of   *)
(* the empty-element tag whose end is still to be reported, 0 for NULL.    *)
(* Position 0 is an exception, and stays one.                              *)
(***************************************************************************)
EXTENDS Integers, Sequences, SequencesExt

Open(n)  == [k |-> "open", n |-> n, t |-> <<>>]
Close(n) == [k |-> "close", n |-> n, t |-> <<>>]
Empty(n) == [k |-> "empty", n |-> n, t |-> <<>>]
Chars(t) == IF t = <<>> THEN <<>> ELSE <<[k |-> "text", n |-> "", t |-> t]>>

-----------------------------------------------------------------------------
(* Texts.                                                                  *)

amp   == 38
semi  == 59
lt    == 60
gt    == 62
quot  == 34
minus == 45
zero  == 48

RECURSIVE Decimal(_)
Decimal(n) == IF n < 10 THEN <<zero + n>> ELSE Append(Decimal(n \div 10), zero + (n % 10))
Number(v) == IF v < 0 THEN <<minus>> \o Decimal(-v) ELSE Decimal(v)

\* %0nd
Padded(v, n) == LET d == Decimal(v) IN [i \in 1..(n - Len(d)) |-> zero] \o d

Entity(c) == CASE c = lt -> <<108, 116, semi>> [] c = gt -> <<103, 116, semi>>
               [] c = quot -> <<113, 117, 111, 116, semi>> [] c = amp -> <<97, 109, 112, semi>>
ReplaceChar(t, c) == FlattenSeq([i \in DOMAIN t |->
                                   IF t[i] = c THEN <<amp>> \o Entity(c) ELSE <<t[i]>>])

\* Variant: the ampersand is replaced last.
EscapeAmpLast(t) == ReplaceChar(ReplaceChar(ReplaceChar(t, lt), gt), amp)
Escape(t) == ReplaceChar(ReplaceChar(ReplaceChar(t, amp), lt), gt)

\* convertToString(): three characters tell the entities apart.
RECURSIVE Unescape(_)
Unescape(t) ==
    IF t = <<>> THEN <<>>
    ELSE IF Head(t) # amp THEN <<Head(t)>> \o Unescape(Tail(t))
    ELSE LET is(c) == SubSeq(t, 2, 4) = SubSeq(Entity(c), 1, 3)
             c == CHOOSE c \in {lt, gt, quot, amp} : is(c)
         IN  <<c>> \o Unescape(SubSeq(t, Len(Entity(c)) + 2, Len(t)))

\* MemBase64: a character of base64 is stood for by its value, '=' by 64.
EncodeBase64(b) ==
    LET at(i) == IF i <= Len(b) THEN b[i] ELSE 0
        block(i) == <<at(i) \div 4, (at(i) % 4) * 16 + at(i + 1) \div 16,
                      IF i + 1 <= Len(b) THEN (at(i + 1) % 16) * 4 + at(i + 2) \div 64 ELSE 64,
                      IF i + 2 <= Len(b) THEN at(i + 2) % 64 ELSE 64>>
    IN  FlattenSeq([k \in 1..((Len(b) + 2) \div 3) |-> block(3 * k - 2)])
DecodeBase64(t) ==
    LET v(i) == IF t[i] = 64 THEN 0 ELSE t[i]
        block(i) == SubSeq(<<(v(i) * 4 + v(i + 1) \div 16) % 256,
                             (v(i + 1) * 16 + v(i + 2) \div 4) % 256,
                             ((v(i + 2) * 64) % 256) + v(i + 3)>>,
                           1, Cardinality({j \in i..(i + 3) : t[j] # 64}) - 1)
    IN  FlattenSeq([k \in 1..(Len(t) \div 4) |-> block(4 * k - 3)])

-----------------------------------------------------------------------------
(* XmlRpcEncoder: value_level is the number of open containers.            *)

Param(level, toks) == IF level = 0 THEN <<Open("param")>> \o toks \o <<Close("param")>> ELSE toks
Scalar(level, tag, t) ==
    Param(level, <<Open("value"), Open(tag)>> \o Chars(t) \o <<Close(tag), Close("value")>>)

WriteInt32(level, v) == Scalar(level, "int", Number(v))
WriteInt64(level, v, least32) ==
    Scalar(level, IF v \in least32..(-least32 - 1) THEN "int" ELSE "i8", Number(v))
WriteBool(level, b) ==
    Scalar(level, "boolean", IF b = 1 THEN <<116, 114, 117, 101>> ELSE <<102, 97, 108, 115, 101>>)
WriteDouble(level) == Scalar(level, "double", <<zero>>)     \* some text: %g keeps six digits
WriteString(level, t) == Scalar(level, "string", Escape(t))
WriteBinary(level, b) == Scalar(level, "base64", EncodeBase64(b))
Colon == <<58>>
WriteTime(level, cal) ==
    Scalar(level, "dateTime.iso8601",
           Padded(cal[1], 4) \o Padded(cal[2] + 1, 2) \o Padded(cal[3] + 1, 2) \o <<84>> \o
           Padded(cal[4], 2) \o Colon \o Padded(cal[5], 2) \o Colon \o Padded(cal[6], 2) \o
           <<43, zero, zero, zero, zero>>)

BeforeContainer(level) == IF level = 0 THEN <<Open("param")>> ELSE <<>>
AfterContainer(level) == IF level = 1 THEN <<Close("param")>> ELSE <<>>
WriteArrayLength(level) == BeforeContainer(level) \o <<Open("value"), Open("array"), Open("data")>>
WriteArrayEnd(level) == <<Close("data"), Close("array"), Close("value")>> \o AfterContainer(level)
WriteStructLength(level) == BeforeContainer(level) \o <<Open("value"), Open("struct")>>

\* struct_clean: no member has been written to the innermost struct yet.
CloseMember(clean) == IF clean THEN <<>> ELSE <<Close("member")>>
WriteMemberName(clean, t) ==
    CloseMember(clean) \o <<Open("member"), Open("name")>> \o Chars(t) \o <<Close("name")>>
WriteStructEnd(clean, level) ==
    CloseMember(clean) \o <<Close("struct"), Close("value")>> \o AfterContainer(level)

WriteMethodName(t) ==
    <<Open("methodCall"), Open("methodName")>> \o Chars(t) \o <<Close("methodName"), Open("params")>>
WriteMethodEnd == <<Close("params"), Close("methodCall")>>
WriteMethodResponse == <<Open("methodResponse"), Open("params")>>
WriteResponseEnd == <<Close("params"), Close("methodResponse")>>
Member(name, value) == <<Open("member"), Open("name")>> \o Chars(name) \o <<Close("name")>>
                       \o value \o <<Close("member")>>
faultCode == <<102, 67>>        \* abbreviated
faultString == <<102, 83>>
WriteFault(code, t) ==      \* the message is not escaped
    <<Open("methodResponse"), Open("fault"), Open("value"), Open("struct")>>
    \o Member(faultCode, <<Open("value"), Open("int")>> \o Chars(Number(code))
                         \o <<Close("int"), Close("value")>>)
    \o Member(faultString, <<Open("value"), Open("string")>> \o Chars(t)
                           \o <<Close("string"), Close("value")>>)
    \o <<Close("struct"), Close("value"), Close("fault"), Close("methodResponse")>>

-----------------------------------------------------------------------------
(* XmlRpcDecoder: moving over the tags.                                    *)

Bad == [p |-> 0, e |-> 0]
At(p) == [p |-> p, e |-> 0]

\* moveToNextElement(): k is 0 for a start, 1 for an end, 2 for an exception.
Element(d, s) ==
    IF s.e # 0 THEN [k |-> 1, n |-> d[s.e].n, s |-> At(s.e + 1)]
    ELSE IF s.p = 0 \/ s.p > Len(d) \/ d[s.p].k = "text" THEN [k |-> 2, n |-> "", s |-> Bad]
    ELSE [k |-> IF d[s.p].k = "close" THEN 1 ELSE 0, n |-> d[s.p].n,
          s |-> [p |-> s.p + 1, e |-> IF d[s.p].k = "empty" THEN s.p ELSE 0]]

Require(d, s, k, n) ==
    LET r == Element(d, s) IN IF r.k = k /\ r.n = n THEN r.s ELSE Bad
Start(d, s, n) == Require(d, s, 0, n)
End(d, s, n) == Require(d, s, 1, n)

\* moveToNextValue(): the tag of the value.
RECURSIVE NextValue(_, _)
NextValue(d, s) ==
    LET r == Element(d, s)
        v == Element(d, r.s)
    IN  IF r.k = 0 /\ r.n = "param" THEN NextValue(d, r.s)
        ELSE IF r.k = 0 /\ r.n = "value" /\ v.k = 0 THEN v
        ELSE [k |-> 2, n |-> "", s |-> Bad]

\* readContent()
HasText(d, s) == s.e = 0 /\ s.p \in 1..Len(d) /\ d[s.p].k = "text"
Text(d, s) == IF HasText(d, s) THEN d[s.p].t ELSE <<>>
AfterText(d, s) == IF HasText(d, s) THEN At(s.p + 1) ELSE s

\* skipValueEnd(): looks for the end of a parameter behind the end of the
\* value.  Looking ahead gives back pos only, not empty_el.
SkipValueEnd(d, s) ==
    LET a == Element(d, s)
        b == IF a.k = 1 THEN End(d, a.s, "value") ELSE Bad
        c == Element(d, b)
    IN  IF c.k = 2 THEN Bad
        ELSE IF c.k = 1 /\ c.n = "param" THEN c.s
        ELSE [p |-> b.p, e |-> c.s.e]

-----------------------------------------------------------------------------
(* XmlRpcDecoder: the values.                                              *)

Fail == [s |-> Bad, v |-> <<>>]
ReadScalar(d, s, tags) ==
    LET r == NextValue(d, s)
    IN  IF r.n \in tags THEN [s |-> SkipValueEnd(d, AfterText(d, r.s)), v |-> Text(d, r.s)] ELSE Fail

\* readBinary(): the blob has room for two thirds of the text and two octets,
\* where decodeBase64() stores whole blocks of three.  Without the room memory
\* is overwritten, or the assertion in unlock() fails: taken for an exception.
BinaryFits(t) ==
    LET al == (2 * Len(t)) \div 3 + 3
    IN  3 * (Len(t) \div 4) <= al /\ Len(DecodeBase64(t)) < al
ReadBinary(d, s) ==
    LET r == ReadScalar(d, s, {"base64"})
    IN  IF r.s # Bad /\ BinaryFits(r.v) THEN [r EXCEPT !.v = DecodeBase64(@)] ELSE Fail

IntTags == {"i4", "i8", "int"}
RECURSIVE Minus(_, _)
Minus(t, n) == IF n = 0 THEN 0 ELSE Minus(t, n - 1) * 10 - (t[n] - zero)
Plus(t) == -Minus(t, Len(t))
ParseInt32(t) == IF t # <<>> /\ t[1] = minus THEN Minus(Tail(t), Len(t) - 1) ELSE Plus(t)
\* The sign is counted, and taken for a digit.
ParseInt64(t) == IF t # <<>> /\ t[1] = minus THEN Minus(t, Len(t) - 1) ELSE Plus(t)
ParseBool(t) == CASE Len(t) = 4 -> 1 [] Len(t) = 5 -> 0 [] OTHER -> t[1] - zero

\* readTime(): numbers of at most n digits, each with a separator it may have.
Digits(t, i, n) ==
    LET last == CHOOSE j \in (i - 1)..(i + n - 1) :
                  /\ \A k \in i..j : k <= Len(t) /\ t[k] \in 48..57
                  /\ j = i + n - 1 \/ j = Len(t) \/ t[j + 1] \notin 48..57
    IN  [v |-> Plus(SubSeq(t, i, last)), i |-> last + 1]
Separated(t, r, seps) ==
    [r EXCEPT !.i = IF r.i <= Len(t) /\ t[r.i] \in seps THEN r.i + 1 ELSE r.i]
ParseTime(t) ==
    LET y  == Separated(t, Digits(t, 1, 4), {45})
        mo == Separated(t, Digits(t, y.i, 2), {45})
        d  == Separated(t, Digits(t, mo.i, 2), {84, 116, 32})
        h  == Separated(t, Digits(t, d.i, 2), {58})
        mi == Separated(t, Digits(t, h.i, 2), {58})
        s  == Digits(t, mi.i, 2)
    IN  <<y.v, mo.v - 1, d.v - 1, h.v, mi.v, s.v>>

ReadStructLength(d, s) == LET r == NextValue(d, s) IN IF r.n = "struct" THEN r.s ELSE Bad
ReadArrayLength(d, s) ==
    LET r == NextValue(d, s) IN IF r.n = "array" THEN Start(d, r.s, "data") ELSE Bad
ReadMemberName(d, s) ==
    LET n == Start(d, Start(d, s, "member"), "name")
    IN  [s |-> End(d, AfterText(d, n), "name"), v |-> Text(d, n)]

\* checkArrayNext() and checkStructNext(): v tells whether there is another.
CheckArrayNext(d, s) ==
    LET r == Element(d, s)
    IN  IF r.k = 1 /\ r.n = "data" THEN [s |-> SkipValueEnd(d, r.s), v |-> FALSE]
        ELSE IF r.k = 2 THEN [s |-> Bad, v |-> FALSE]
        ELSE [s |-> [p |-> s.p, e |-> r.s.e], v |-> TRUE]
SixLetters == {"params", "struct", "string", "double", "base64"}    \* and "member"
RECURSIVE CheckStructNext(_, _)
CheckStructNext(d, s) ==
    LET r == Element(d, s)
        m == Element(d, r.s)
    IN  CASE r.k = 1 /\ r.n = "member" -> CheckStructNext(d, r.s)
          [] r.k = 1 /\ r.n = "struct" -> [s |-> SkipValueEnd(d, At(s.p)), v |-> FALSE]
          [] r.k = 0 /\ r.n \notin SixLetters -> [s |-> [p |-> s.p, e |-> r.s.e], v |-> TRUE]
          [] r.k = 0 /\ r.n \in SixLetters /\ m.k # 2 /\ <<m.k, m.n>> # <<1, "struct">> ->
               [s |-> [p |-> r.s.p, e |-> m.s.e], v |-> TRUE]
          [] OTHER -> [s |-> Bad, v |-> FALSE]

ReadHeader(d) ==
    LET r == Element(d, At(1))
        i == Element(d, r.s)
    IN  CASE r.n = "methodCall" -> 0
          [] r.n = "methodResponse" /\ i.k = 0 /\ i.n = "params" -> 1
          [] r.n = "methodResponse" /\ i.k = 0 /\ i.n = "fault" -> 2
          [] OTHER -> -1
ReadMethodName(d, s) ==
    LET n == Start(d, Start(d, s, "methodCall"), "methodName")
    IN  [s |-> Start(d, End(d, AfterText(d, n), "methodName"), "params"), v |-> Unescape(Text(d, n))]
ReadMethodResponse(d, s) == Start(d, Start(d, s, "methodResponse"), "params")

\* readFaultResponse(): RpcHelper::readStruct() with the two members.
RECURSIVE ReadFaultMembers(_, _, _)
ReadFaultMembers(d, s, v) ==
    LET next == CheckStructNext(d, s)
        name == ReadMemberName(d, next.s)
        code == ReadScalar(d, name.s, IntTags)
        text == ReadScalar(d, name.s, {"string"})
    IN  IF ~next.v THEN [s |-> next.s, v |-> v]
        ELSE CASE name.v = faultCode -> ReadFaultMembers(d, code.s, <<ParseInt32(code.v), v[2]>>)
               [] name.v = faultString -> ReadFaultMembers(d, text.s, <<v[1], Unescape(text.v)>>)
               [] OTHER -> Fail
ReadFault(d, s) ==
    LET f == Start(d, Start(d, s, "methodResponse"), "fault")
        m == ReadFaultMembers(d, ReadStructLength(d, f), <<0, <<>> >>)
    IN  [m EXCEPT !.s = End(d, End(d, m.s, "fault"), "methodResponse")]

\* readCheckType(): what it returns, and where it leaves the decoder.
RECURSIVE CheckType(_, _)
CheckType(d, s) ==
    LET r == Element(d, s)
        v == Element(d, r.s)
        type == CASE v.n \in IntTags -> "int" [] v.n = "boolean" -> "bool"
                  [] v.n = "dateTime.iso8601" -> "time" [] v.n = "base64" -> "binary"
                  [] OTHER -> v.n
    IN  CASE r.k = 0 /\ r.n = "param" -> CheckType(d, r.s)
          [] r.k = 0 /\ r.n = "value" /\ v.k = 0 -> [s |-> At(s.p), v |-> type]
          [] r.k = 1 /\ r.n \in {"params", "fault"} -> [s |-> r.s, v |-> "end"]
          [] OTHER -> [s |-> Bad, v |-> "error"]

\* readSkip(): an array is entered as a struct, which throws.
RECURSIVE Skip(_, _)
RECURSIVE SkipMembers(_, _)
SkipMembers(d, s) ==
    LET next == CheckStructNext(d, s)
    IN  IF next.s.p = 0 \/ ~next.v THEN next.s
        ELSE SkipMembers(d, Skip(d, ReadMemberName(d, next.s).s))
Skip(d, s) ==
    LET t == CheckType(d, s) IN
    CASE t.v = "int" -> ReadScalar(d, t.s, IntTags).s
      [] t.v = "bool" -> ReadScalar(d, t.s, {"boolean"}).s
      [] t.v \in {"double", "string"} -> ReadScalar(d, t.s, {t.v}).s
      [] t.v = "time" -> ReadScalar(d, t.s, {"dateTime.iso8601"}).s
      [] t.v = "binary" -> ReadBinary(d, t.s).s
      [] t.v = "struct" -> SkipMembers(d, ReadStructLength(d, t.s))
      [] t.v = "array" -> ReadStructLength(d, t.s)
      [] OTHER -> Bad
=============================================================================
