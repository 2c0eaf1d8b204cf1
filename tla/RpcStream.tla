----------------------------- MODULE RpcStream -----------------------------
(***************************************************************************)
(* A message written through RpcEncoder and read through RpcDecoder, in    *)
(* both formats side by side: every write goes to a FastRpcEncoder and to  *)
(* an XmlRpcEncoder, every read to the decoders of what they wrote.  The   *)
(* writer nests arrays and structs as it likes; the reader knows the shape *)
(* of the message, as the wrappers of RpcServer do, and may skip values.   *)
(* On the way a peer may have put empty-element tags into the XML.         *)
(***************************************************************************)
EXTENDS Integers, Sequences, SequencesExt

CONSTANTS
  Base,        \* values of an octet, see FastRpc
  Messages,    \* the messages: [kind, name, code]
  Scalars,     \* the scalars a message starts with, [t |-> type, v |-> value]
  Nested,      \* those that come later or inside a container
  Names,       \* names of members
  Lengths,     \* lengths of containers
  Abbreviated, \* tags a peer writes as empty elements
  MaxItems,    \* bound: items of a message
  MaxFlat      \* bound: items of a message that starts with a scalar

F == INSTANCE FastRpc
X == INSTANCE XmlRpc

VARIABLES
  message, log,   \* what is written: its kind, and the items in their order
  open,           \* containers not yet finished by the writer, innermost last
  fast, xml,      \* the contents
  struct_clean,
  phase,          \* "write", "read", "done"
  next,           \* index in log of the next item to be read
  fpos, xpos,     \* the decoders
  inside,         \* containers the reader is in: type and count
  got             \* the last item read: by FastRpcDecoder, by XmlRpcDecoder

vars == <<message, log, open, fast, xml, struct_clean, phase, next, fpos, xpos, inside, got>>
writing == <<message, log, open, fast, xml, struct_clean>>
reading == <<phase, next, fpos, xpos, inside, got>>

-----------------------------------------------------------------------------
(* Writing.                                                                *)

value_level == Len(open)
Top == open[Len(open)]
WithTop(s, c) == [s EXCEPT ![Len(s)] = c]

\* A place where a value may be written: a parameter, an element, the value
\* of a member.
ValueDue == open # <<>> => Top.left > 0 /\ (Top.t = "array" \/ Top.named)
AfterValue == IF open = <<>> THEN open
              ELSE WithTop(open, [Top EXCEPT !.left = @ - 1, !.named = FALSE])

Init ==
  /\ message \in Messages
  /\ fast = F!Header \o (CASE message.kind = "call" -> F!WriteMethodName(message.name)
                           [] message.kind = "response" -> F!WriteMethodResponse
                           [] message.kind = "fault" -> F!WriteFault(message.code, message.name))
  /\ xml = CASE message.kind = "call" -> X!WriteMethodName(message.name)
             [] message.kind = "response" -> X!WriteMethodResponse
             [] message.kind = "fault" -> X!WriteFault(message.code, message.name)
  /\ log = <<>> /\ open = <<>> /\ struct_clean = FALSE
  /\ phase = "write" /\ next = 1 /\ fpos = 0 /\ xpos = X!Bad /\ inside = <<>> /\ got = <<>>

\* writeValue() of an unsigned type goes through the signed one of its size.
Signed32(v) == IF v >= -F!Min32 THEN v + 2 * F!Min32 ELSE v

FastScalar(it) ==
  CASE it.t = "int32"  -> F!WriteInt(it.v, F!Min32)
    [] it.t = "uint32" -> F!WriteInt(Signed32(it.v), F!Min32)
    [] it.t = "int64"  -> F!WriteInt(it.v, F!Min64)
    [] it.t = "bool"   -> F!WriteBool(it.v)
    [] it.t = "double" -> F!WriteDouble(it.v)
    [] it.t = "string" -> F!WriteString(it.v)
    [] it.t = "binary" -> F!WriteBinary(it.v)
    [] it.t = "time"   -> F!WriteTime(it.v)

XmlScalar(it) ==
  CASE it.t = "int32"  -> X!WriteInt32(value_level, it.v)
    [] it.t = "uint32" -> X!WriteInt32(value_level, Signed32(it.v))
    [] it.t = "int64"  -> X!WriteInt64(value_level, it.v, F!Min32)
    [] it.t = "bool"   -> X!WriteBool(value_level, it.v)
    [] it.t = "double" -> X!WriteDouble(value_level)
    [] it.t = "string" -> X!WriteString(value_level, it.v)
    [] it.t = "binary" -> X!WriteBinary(value_level, it.v)
    [] it.t = "time"   -> X!WriteTime(value_level, it.v.cal)

Put(it, f, x) == log' = Append(log, it) /\ fast' = fast \o f /\ xml' = xml \o x
Writing == phase = "write" /\ message.kind # "fault" /\ UNCHANGED <<message, reading>>

\* Bounds: the items that have to follow fit.
Room(stack) ==
  Len(log) + 1 + SumFunction([i \in DOMAIN stack |->
                                IF stack[i].t = "array" THEN stack[i].left + 1
                                ELSE 2 * stack[i].left + (IF stack[i].named THEN 0 ELSE 1)])
    <= (IF log # <<>> /\ log[1] \in Scalars THEN MaxFlat ELSE MaxItems)

WriteScalar(it) ==
  /\ Writing /\ ValueDue /\ Room(AfterValue)
  /\ Put(it, FastScalar(it), XmlScalar(it))
  /\ open' = AfterValue
  /\ UNCHANGED struct_clean

WriteContainer(type, n) ==
  /\ Writing /\ ValueDue
  /\ Room(Append(AfterValue, [t |-> type, left |-> n, named |-> FALSE]))
  /\ Put([t |-> type, v |-> n], F!GenLength(IF type = "array" THEN 88 ELSE 80, n),
         IF type = "array" THEN X!WriteArrayLength(value_level) ELSE X!WriteStructLength(value_level))
  /\ open' = Append(AfterValue, [t |-> type, left |-> n, named |-> FALSE])
  /\ struct_clean' = (type = "struct" \/ struct_clean)

WriteMemberName(name) ==
  /\ Writing /\ open # <<>> /\ Top.t = "struct" /\ Top.left > 0 /\ ~Top.named
  /\ F!NameFits(name)
  /\ Put([t |-> "member", v |-> name], F!WriteName(name), X!WriteMemberName(struct_clean, name))
  /\ open' = WithTop(open, [Top EXCEPT !.named = TRUE])
  /\ struct_clean' = FALSE

\* The end of a struct clears the flag, also for the struct around it.
CleanAfterEnd == struct_clean /\ Top.t = "array"

WriteEnd ==
  /\ Writing /\ open # <<>> /\ Top.left = 0
  /\ Put([t |-> "end", v |-> Top.t], <<>>,
         IF Top.t = "array" THEN X!WriteArrayEnd(value_level)
                            ELSE X!WriteStructEnd(struct_clean, value_level))
  /\ open' = SubSeq(open, 1, Len(open) - 1)
  /\ struct_clean' = CleanAfterEnd

\* The peer abbreviates elements without content.
RECURSIVE Abbreviate(_)
Abbreviate(d) ==
  IF Len(d) < 2 THEN d
  ELSE IF d[1].k = "open" /\ d[2].k = "close" /\ d[1].n \in Abbreviated
    THEN <<X!Empty(d[1].n)>> \o Abbreviate(SubSeq(d, 3, Len(d)))
    ELSE <<d[1]>> \o Abbreviate(Tail(d))

\* writeMethodEnd() or writeResponseEnd(); the content is sent, and
\* readHeader() and the reader for the kind it tells are called.
Finish(abbreviate) ==
  /\ phase = "write" /\ open = <<>>
  /\ LET all == xml \o (CASE message.kind = "call" -> X!WriteMethodEnd
                          [] message.kind = "response" -> X!WriteResponseEnd
                          [] message.kind = "fault" -> <<>>)
         d == IF abbreviate THEN Abbreviate(all) ELSE all
         h == F!ReadHeader(fast)
         f == CASE h.v = 0 -> F!ReadMethodName(fast, h.p)
                [] h.v = 1 -> F!ReadMethodResponse(fast, h.p)
                [] h.v = 2 -> F!ReadFault(fast, h.p)
         k == X!ReadHeader(d)
         x == CASE k = 0 -> X!ReadMethodName(d, X!At(1))
                [] k = 1 -> [s |-> X!ReadMethodResponse(d, X!At(1)), v |-> 0]
                [] k = 2 -> X!ReadFault(d, X!At(1))
     IN  /\ xml' = d
         /\ fpos' = f.p /\ xpos' = x.s
         /\ got' = <<<<h.v, f.v>>, <<k, x.v>> >>
  /\ phase' = "read"
  /\ UNCHANGED <<message, log, open, fast, struct_clean, next, inside>>

-----------------------------------------------------------------------------
(* Reading: the item log[next].                                            *)

Due == log[next]
Reading == phase = "read" /\ next <= Len(log) /\ fpos # 0 /\ xpos # X!Bad
In == inside[Len(inside)]

\* checkArrayNext() or checkStructNext(), called before every element, before
\* every member name and at the end: the decoders afterwards, and the answers.
Asks == inside # <<>> /\ (In.t = "array" \/ Due.t \in {"member", "end"})
XmlNext == IF In.t = "array" THEN X!CheckArrayNext(xml, xpos) ELSE X!CheckStructNext(xml, xpos)
XmlAt == IF Asks THEN XmlNext.s ELSE xpos
Answers == IF Asks THEN <<In.count - 1 >= 0, XmlNext.v>> ELSE <<>>
Counted == IF Asks THEN WithTop(inside, [In EXCEPT !.count = @ - 1]) ELSE inside

FastRead(it, p) ==
  CASE it.t \in {"int32", "uint32"} -> F!ReadInt(fast, p, 4)
    [] it.t = "int64"  -> F!ReadInt(fast, p, 8)
    [] it.t = "bool"   -> F!ReadBool(fast, p)
    [] it.t = "double" -> F!ReadDouble(fast, p)
    [] it.t = "string" -> F!ReadText(fast, p, 4)
    [] it.t = "binary" -> F!ReadText(fast, p, 6)
    [] it.t = "time"   -> F!ReadTime(fast, p)
    [] it.t = "array"  -> F!ReadLength(fast, p, 11)
    [] it.t = "struct" -> F!ReadLength(fast, p, 10)
    [] it.t = "member" -> F!ReadName(fast, p)
    [] it.t = "end"    -> [p |-> p, v |-> 0]

\* Most values are converted from the text of a scalar, if there was one.
XmlRead(it, s) ==
  LET Parsed(r, Conv(_)) == IF r.s = X!Bad THEN r ELSE [s |-> r.s, v |-> Conv(r.v)] IN
  CASE it.t \in {"int32", "uint32"} -> Parsed(X!ReadScalar(xml, s, X!IntTags), X!ParseInt32)
    [] it.t = "int64"  -> Parsed(X!ReadScalar(xml, s, X!IntTags), X!ParseInt64)
    [] it.t = "bool"   -> Parsed(X!ReadScalar(xml, s, {"boolean"}), X!ParseBool)
    [] it.t = "double" -> X!ReadScalar(xml, s, {"double"})
    [] it.t = "string" -> Parsed(X!ReadScalar(xml, s, {"string"}), X!Unescape)
    [] it.t = "binary" -> X!ReadBinary(xml, s)
    [] it.t = "time"   -> Parsed(X!ReadScalar(xml, s, {"dateTime.iso8601"}), X!ParseTime)
    [] it.t = "array"  -> [s |-> X!ReadArrayLength(xml, s), v |-> -1]
    [] it.t = "struct" -> [s |-> X!ReadStructLength(xml, s), v |-> -1]
    [] it.t = "member" -> X!ReadMemberName(xml, s)
    [] it.t = "end"    -> [s |-> s, v |-> 0]

Read ==
  LET f == FastRead(Due, fpos)
      x == XmlRead(Due, XmlAt)
  IN
  /\ Reading
  /\ fpos' = f.p /\ xpos' = x.s
  /\ got' = <<f.v, x.v, Answers>>
  /\ inside' = CASE Due.t \in {"array", "struct"} -> Append(Counted, [t |-> Due.t, count |-> f.v])
                 [] Due.t = "end" -> SubSeq(Counted, 1, Len(Counted) - 1)
                 [] OTHER -> Counted
  /\ next' = next + 1
  /\ UNCHANGED <<writing, phase>>

\* The index of the last item of the value that starts at i.
RECURSIVE LastItem(_, _)
LastItem(i, depth) ==
  LET d == CASE log[i].t \in {"array", "struct"} -> depth + 1
             [] log[i].t = "end" -> depth - 1
             [] OTHER -> depth
  IN  IF d = 0 THEN i ELSE LastItem(i + 1, IF log[i].t = "member" THEN depth ELSE d)

\* readSkip() of a value, as long as no array is in it.
ReadSkip ==
  /\ Reading /\ Due.t \notin {"member", "end"}
  /\ LET last == LastItem(next, 0) IN
     /\ \A i \in next..last : log[i].t # "array"
     /\ next' = last + 1
  /\ fpos' = F!Skip(fast, fpos)
  /\ xpos' = X!Skip(xml, XmlAt)
  /\ inside' = Counted
  /\ got' = <<>>
  /\ UNCHANGED <<writing, phase>>

\* readCheckType() tells that there are no more parameters.
ReadDone ==
  /\ phase = "read" /\ next > Len(log) /\ fpos # 0 /\ xpos # X!Bad
  /\ phase' = "done"
  /\ got' = IF message.kind = "fault" THEN <<"end", "end">>
            ELSE <<F!TypeAt(fast, fpos), X!CheckType(xml, xpos).v>>
  /\ UNCHANGED <<writing, next, fpos, xpos, inside>>

\* The end, or an exception.
Done == (phase = "done" \/ (phase = "read" /\ xpos = X!Bad)) /\ UNCHANGED vars

Next ==
  \/ \E it \in (IF log = <<>> THEN Scalars ELSE Nested) : WriteScalar(it)
  \/ \E type \in {"array", "struct"}, n \in Lengths : WriteContainer(type, n)
  \/ \E name \in Names : WriteMemberName(name)
  \/ WriteEnd
  \/ \E abbreviate \in BOOLEAN : Finish(abbreviate)
  \/ Read \/ ReadSkip \/ ReadDone \/ Done

Spec == Init /\ [][Next]_vars

-----------------------------------------------------------------------------
(* Properties.                                                             *)

\* The type readCheckType() has to tell before a value is read.
ValueType == IF Due.t \in {"int32", "uint32", "int64"} THEN "int" ELSE Due.t
BeforeValue == Reading /\ Due.t \notin {"member", "end"}

\* What came back for an item: a time as the seconds or as the calendar.
SameTime(v, t) == IF "sec" \in DOMAIN v THEN v.sec = t.sec ELSE v.cal = t.cal

\* FastRpcDecoder never throws on what FastRpcEncoder wrote, and every read
\* returns what was written, however arrays and structs are nested and
\* whatever was skipped.  The answers of checkArrayNext() and
\* checkStructNext() are right, and so are the header and the types that
\* readCheckType() tells.
\* The least number of a type is the exception: FastRpcEncoder writes it as 0.
FastReadsBack ==
  /\ phase # "write" => fpos # 0
  /\ phase = "read" /\ next = 1 =>
       got[1] = CASE message.kind = "call" -> <<0, message.name>>
                  [] message.kind = "response" -> <<1, 0>>
                  [] message.kind = "fault" -> <<2, <<message.code, message.name>> >>
  /\ phase = "read" /\ next > 1 /\ got # <<>> =>
       LET it == log[next - 1] IN
       /\ got[3] # <<>> => got[3][1] = (it.t # "end")
       /\ CASE it.t \in {"int32", "int64"} -> it.v \notin {F!Min32, F!Min64} => got[1] = it.v
            [] it.t = "uint32" -> it.v # -F!Min32 => got[1] % (-2 * F!Min32) = it.v
            [] it.t = "time" -> SameTime(got[1], it.v)
            [] it.t = "end" -> TRUE
            [] OTHER -> got[1] = it.v
  /\ BeforeValue => F!TypeAt(fast, fpos) = ValueType
  /\ phase = "done" => got[1] = "end"

\* What XmlRpcDecoder cannot read: binary data of 21, of 24 and of 27 octets or
\* more, for which readBinary() has no room, and a struct without members that
\* was abbreviated, whose end checkStructNext() passes over.
Unreadable(it) ==
  \/ it.t = "binary" /\ ~X!BinaryFits(X!EncodeBase64(it.v))
  \/ it = [t |-> "struct", v |-> 0] /\ \E i \in DOMAIN xml : xml[i] = X!Empty("struct")

\* The same of XML, whichever of the Abbreviated tags without content were
\* written as empty elements.  XmlRpcDecoder fails on nothing but what is
\* Unreadable.  Other exceptions: readInt64() of a negative number, doubles,
\* and the lengths of containers, which are not written.
XmlReadsBack ==
  /\ phase # "write" /\ xpos = X!Bad => \E i \in 1..(next - 1) : Unreadable(log[i])
  /\ phase = "read" /\ next = 1 =>
       got[2] = CASE message.kind = "call" -> <<0, message.name>>
                  [] message.kind = "response" -> <<1, 0>>
                  [] message.kind = "fault" -> <<2, <<message.code, message.name>> >>
  /\ phase = "read" /\ next > 1 /\ got # <<>> =>
       LET it == log[next - 1] IN
       xpos # X!Bad =>
       /\ got[3] # <<>> => got[3][2] = (it.t # "end")
       /\ CASE it.t = "int64" -> it.v >= 0 => got[2] = it.v
            [] it.t = "uint32" -> got[2] % (-2 * F!Min32) = it.v
            [] it.t = "time" -> got[2] = it.v.cal
            [] it.t \in {"array", "struct"} -> got[2] = -1
            [] it.t \in {"end", "double"} -> TRUE
            [] OTHER -> got[2] = it.v
  /\ BeforeValue => X!CheckType(xml, xpos).v = ValueType
  /\ phase = "done" => got[2] = "end"
=============================================================================
