-------------------------------- MODULE MCNet --------------------------------
(***************************************************************************)
(* RpcServer on small instances: either a connection of a kind a client    *)
(* can make, with bodies that are just bytes, or one message that is       *)
(* written and read.  The other of the two is at its end from the start.   *)
(***************************************************************************)
EXTENDS Http

VARIABLES message, log, open, fast, xml, struct_clean, phase, next, fpos, xpos, inside, got
rpc == <<message, log, open, fast, xml, struct_clean, phase, next, fpos, xpos, inside, got>>

-----------------------------------------------------------------------------
Session(writes, shut, bodies, framed) ==
  [writes |-> writes, shut |-> shut, bodies |-> bodies, framed |-> framed, kinds |-> <<>>]
Kept(kinds, writes, shut, bodies) ==
  [Session(writes, shut, bodies, TRUE) EXCEPT !.kinds = kinds]
GetAlive == partialRequest("get 1.1") \o partialNoBody
PostAlive(content) == partialRequest("post 1.1") \o partialSendBody(content)
ChunkedAlive(data) ==
  partialRequest("post 1.1") \o partialStartBodyChunked \o partialBodyChunked(data)
    \o partialFinishBodyChunked

AllSessions == {
  \* HttpClient: a whole request, with and without a content
  Session(sendRequest("get 1.0", FALSE, <<>>), TRUE, << <<>> >>, TRUE),
  Session(sendRequest("post 1.0", TRUE, <<"x", "nl", "y">>), TRUE, << <<"x", "nl", "y">> >>, TRUE),
  Session(sendRequest("post 1.0", FALSE, <<>>), TRUE, << <<>> >>, FALSE),
  \* ... and one in parts
  Session(partialRequest("get 1.0") \o partialNoBody, TRUE, << <<>> >>, TRUE),
  Session(partialRequest("post 1.0") \o partialHeader("host: ") \o partialSendBody(<<"nl", "x">>),
          FALSE, << <<"nl", "x">> >>, TRUE),
  Session(partialRequest("post 1.0") \o partialStartBodyChunked \o partialBodyChunked(<<"x", "nl">>)
            \o partialBodyChunked(<<"y">>) \o partialFinishBodyChunked,
          FALSE, << <<"x", "nl", "y">> >>, TRUE),
  Session(partialRequest("post 1.0") \o partialStartBodyChunked \o partialFinishBodyChunked,
          FALSE, << <<>> >>, TRUE),
  \* other clients: an old one, one with headers after its chunks
  Session(<<Line("post"), <<"x", "y">> >>, TRUE, << <<"x", "y">> >>, FALSE),
  Session(partialRequest("post 1.1") \o partialStartBodyChunked \o partialBodyChunked(<<"x">>)
            \o <<Line("0"), Line("host: "), <<nl>> >>, FALSE, << <<"x">> >>, TRUE),
  Session(partialRequest("post 1.1") \o partialStartBodyChunked
            \o <<Line("0"), Line("host: "), <<nl>> >>, FALSE, << <<>> >>, TRUE),
  \* ... that keep the connection, and do not wait for a response
  Kept(<<"sized", "sized">>, PostAlive(<<"x", "nl">>) \o PostAlive(<<>>), FALSE,
       << <<"x", "nl">>, <<>> >>),
  Kept(<<"chunked", "chunked">>, ChunkedAlive(<<"x">>) \o ChunkedAlive(<<"nl">>), FALSE,
       << <<"x">>, <<"nl">> >>),
  Kept(<<"sized", "chunked">>, PostAlive(<<"x">>) \o ChunkedAlive(<<"y">>), TRUE,
       << <<"x">>, <<"y">> >>),
  Kept(<<"none", "sized">>, GetAlive \o PostAlive(<<"x">>), FALSE, << <<>>, <<"x">> >>),
  \* ... also in an order where a request inherits a header
  Kept(<<"sized", "none", "sized">>, PostAlive(<<"x">>) \o GetAlive \o PostAlive(<<>>), FALSE,
       << <<"x">>, <<>>, <<>> >>),
  Kept(<<"chunked", "sized">>, ChunkedAlive(<<"x">>) \o PostAlive(<<"y">>), FALSE,
       << <<"x">>, <<"y">> >>),
  Kept(<<"chunked", "none">>, ChunkedAlive(<<"x">>) \o GetAlive, FALSE, << <<"x">>, <<>> >>),
  \* ... and requests that are refused
  Session(<<Line("brew 1.1"), <<nl>> >>, FALSE, <<>>, TRUE),
  Session(<<Line("post 1.1"), Line("colonless"), <<nl>> >>, FALSE, <<>>, TRUE),
  Session(partialRequest("post 1.1") \o partialStartBodyChunked
            \o <<Line("0"), Line("colonless"), <<nl>> >>, FALSE, <<>>, TRUE) }

-----------------------------------------------------------------------------
Of(t, values) == {[t |-> t, v |-> v] : v \in values}
Rep(c, n) == [i \in 1..n |-> c]
Time(sec, cal) == [sec |-> sec, cal |-> cal]

mcMessages ==
  {[kind |-> "call", name |-> <<109>>, code |-> 0],
   [kind |-> "response", name |-> <<>>, code |-> 0],
   [kind |-> "fault", name |-> <<109, 115, 103>>, code |-> -2],
   [kind |-> "fault", name |-> <<>>, code |-> 400]}

\* Numbers at the limits of the widths; texts at those of the lengths, and with
\* characters that are escaped; data of every length modulo 3, and of the lengths
\* where the room of readBinary() ends; times by seconds and by calendar.
mcScalars ==
  Of("int32", {-128, -127, -17, -16, -4, -1, 0, 3, 4, 15, 16, 127})
  \cup Of("uint32", {127, 128, 129, 255})
  \cup Of("int64", {-32768, -32767, -256, -1, 0, 127, 128, 255, 256, 32767})
  \cup Of("bool", {0, 1})
  \cup Of("double", {<<1, 2, 3, 0, 0, 0, 2, 1>>})
  \cup Of("string", {<<>>, <<38>>, <<60, 38, 62>>, <<38, 97, 109, 112, 59>>, Rep(97, 16)})
  \cup Of("binary", {<<>>, <<255>>, <<1, 254>>, <<128, 77, 3>>,
                     Rep(200, 4), Rep(77, 20), Rep(200, 21)})
  \cup Of("time", {Time(0, <<1970, 0, 0, 0, 0, 0>>), Time(255, <<1999, 11, 30, 23, 59, 59>>),
                   Time(256, <<2106, 1, 6, 6, 28, 16>>)})

mcNames == {<<110>>}

mcNested == Of("int32", {-5}) \cup Of("string", {<<>>})

R == INSTANCE RpcStream WITH
       Base <- 4, Messages <- mcMessages, Scalars <- mcScalars, Nested <- mcNested,
       Names <- mcNames, Lengths <- {0, 1, 2},
       Abbreviated <- {"string", "base64", "data", "params", "struct"},
       MaxItems <- 8, MaxFlat <- 3

-----------------------------------------------------------------------------
NoMessage ==
  /\ message = [kind |-> "response", name |-> <<>>, code |-> 0]
  /\ log = <<>> /\ open = <<>> /\ fast = <<>> /\ xml = <<>> /\ struct_clean = FALSE
  /\ phase = "done" /\ next = 1 /\ fpos = 1 /\ xpos = R!X!At(1) /\ inside = <<>>
  /\ got = <<"end", "end", <<>> >>

NoConnection ==
  /\ session = CHOOSE s \in Sessions : TRUE
  /\ up = <<>> /\ upEof = TRUE /\ down = <<>> /\ downEof = TRUE
  /\ srv = [pc |-> "ended"] /\ handled = <<>>
  /\ cli = [pc |-> "done", results |-> <<>>] /\ died = FALSE /\ late = FALSE

NetInit == (Init /\ NoMessage) \/ (R!Init /\ NoConnection)
NetNext == \/ Next /\ UNCHANGED rpc
           \/ R!Next /\ UNCHANGED vars
NetSpec == NetInit /\ [][NetNext]_<<vars, rpc>> /\ WF_vars(ServerStep) /\ WF_vars(ClientReads)

\* What the encoders of both formats write their decoders read back.
ReadsBack == R!FastReadsBack /\ R!XmlReadsBack

\* Bodies and responses arrive whole and in order, or not at all.
ExchangeExact == BodiesExact /\ ResponseExact
=============================================================================
