-------------------------------- MODULE Http --------------------------------
(***************************************************************************)
(* An HTTP connection.  On one side a client, HttpClient or another one    *)
(* that keeps the connection alive; on the other HttpServer, with          *)
(* RpcServer::run() that takes request after request from it.  Both read   *)
(* through a StreamBuffer, which gets whatever part of the data has come.  *)
(*                                                                         *)
(* What is on the wire is a sequence of units.  A line is one unit and     *)
(* "nl", an empty line just "nl"; each octet of a body is a unit and may   *)
(* be "nl" too.  White space, paths and most headers are left out, and a   *)
(* size is at most 4.                                                      *)
(***************************************************************************)
EXTENDS Integers, Sequences, SequencesExt

CONSTANTS
  Sessions,     \* what a client does: [writes, shut, bodies, framed, kinds]
  Outcomes      \* how a call ends: "ok", "fault", or "bad" when it cannot be read

ASSUME OutcomesAssumption == Outcomes \subseteq {"ok", "fault", "bad"}

VARIABLES
  session,      \* what the client of this connection does
  up, upEof,    \* what is under way to the server, and that no more will come
  down, downEof,\* the same to the client
  srv,          \* the HttpServer, and where it and RpcServer::run() are
  handled,      \* the bodies run() has given to a decoder
  cli,          \* the client
  died,         \* the client was cut off
  late          \* the server gave up on a client that was still sending

vars == <<session, up, upEof, down, downEof, srv, handled, cli, died, late>>

nl == "nl"
Sizes == <<"0", "1", "2", "3", "4">>
Lengths == <<"content-length: 0", "content-length: 1", "content-length: 2",
             "content-length: 3", "content-length: 4">>
Requests == "get 1.0"  :> [type |-> "get",  version |-> 256] @@
            "get 1.1"  :> [type |-> "get",  version |-> 257] @@
            "post 1.0" :> [type |-> "post", version |-> 256] @@
            "post 1.1" :> [type |-> "post", version |-> 257] @@
            "post"     :> [type |-> "post", version |-> 0]       \* no version
NoLength == -1

\* Where a text starts, white space before it is skipped; no digits are 0.
strtol(units) ==
  LET text == SelectSeq(units, LAMBDA u : u # nl)
      at == IF text = <<>> THEN 0 ELSE SelectInSeq(Sizes, LAMBDA s : s = text[1])
  IN IF at = 0 THEN 0 ELSE at - 1

Line(u) == <<u, nl>>
ContentLength(n) == Line(Lengths[n + 1])

------------------------------------------------------------------------------
(* What the operations of HttpClient write: a sequence of writes. *)

sendRequest(line, given, content) ==
  <<Line(line) \o Line("host: ") \o (IF given THEN ContentLength(Len(content)) ELSE <<>>)
      \o <<nl>>, content>>
partialRequest(line) == <<Line(line) \o Line("host: ")>>
partialHeader(header) == <<Line(header)>>
partialNoBody == << <<nl>> >>
partialSendBody(content) == <<ContentLength(Len(content)) \o <<nl>>, content>>
partialStartBodyChunked == <<Line("transfer-encoding: chunked") \o <<nl>> >>
partialBodyChunked(data) == <<Line(Sizes[Len(data) + 1]), data, <<nl>> >>
partialFinishBodyChunked == <<Line("0") \o <<nl>> >>

------------------------------------------------------------------------------
Init ==
  /\ session \in Sessions
  /\ up = <<>> /\ upEof = FALSE /\ down = <<>> /\ downEof = FALSE
  /\ srv = [pc |-> "start", cache |-> <<>>, connection_state |-> 0,
            method_type |-> "", req_version |-> 0, length |-> NoLength,
            chunked |-> FALSE, req_body_size |-> 0, transfer_encoding |-> "basic",
            body |-> <<>>]
  /\ handled = <<>>
  /\ cli = [pc |-> "send", next |-> 1, cache |-> <<>>, code |-> "",
            response_size |-> 0, data |-> <<>>, results |-> <<>>]
  /\ died = FALSE /\ late = FALSE

\* Where the first line of a cache ends, 0 while none has come; what follows it.
LineEnd(cache) == SelectInSeq(cache, LAMBDA u : u = nl)
RemoveLine(cache) == SubSeq(cache, LineEnd(cache) + 1, Len(cache))
RemoveLeft(s, n) == SubSeq(s, n + 1, Len(s))

Least(a, b) == IF a < b THEN a ELSE b

------------------------------------------------------------------------------
(* The server. *)

LineStates == {"method", "headers", "size0", "trailer0", "skip", "size", "trailer"}
AtLine(pc) == srv.pc = pc /\ LineEnd(srv.cache) > 0
OnlyServer == UNCHANGED <<session, up, upEof, down, handled, cli, died, late>>
Step(next) == srv' = next /\ UNCHANGED downEof /\ OnlyServer

\* The run is over and the connection is released, after an exception too.
Ends == srv' = [srv EXCEPT !.pc = "ended", !.connection_state = 2] /\ downEof' = TRUE

\* A request is only read while the connection is not to be closed.
ReadRequest ==
  /\ srv.pc = "start"
  /\ IF srv.connection_state >= 2
     THEN Ends /\ OnlyServer
     ELSE Step([srv EXCEPT !.pc = "method", !.connection_state = 0,
                           !.transfer_encoding = "basic"])

ReadMethod ==
  /\ AtLine("method")
  /\ LET line == srv.cache[1]
     IN IF line \notin DOMAIN Requests
        THEN Ends /\ OnlyServer
        ELSE LET next == [srv EXCEPT !.method_type = Requests[line].type,
                                     !.cache = RemoveLine(@)]
             IN IF Requests[line].version = 0
                THEN Step([next EXCEPT !.req_body_size = -1, !.req_version = 256,
                                       !.connection_state = 2, !.pc = "content"])
                ELSE Step([next EXCEPT !.req_version = Requests[line].version,
                                       !.pc = "headers"])

\* What becomes of the connection, once the request is read.  No header has
\* changed it: processHeaderConnection() is registered for "close".
SettleConnection(next) ==
  [next EXCEPT !.pc = "content",
     !.connection_state = IF @ # 0 THEN @ ELSE IF next.req_version <= 256 THEN 2 ELSE 1]

\* The headers are kept from one request to the next.
BodySize ==
  IF srv.length # NoLength THEN srv.length
  ELSE IF srv.method_type = "get" THEN 0 ELSE -1

ReadHeader ==
  /\ AtLine("headers")
  /\ LET line == srv.cache[1]
         next == [srv EXCEPT !.cache = RemoveLine(@)]
     IN CASE line = nl /\ srv.chunked ->
               Step([next EXCEPT !.req_body_size = BodySize, !.pc = "size0"])
          [] line = nl /\ ~srv.chunked ->
               Step(SettleConnection([next EXCEPT !.req_body_size = BodySize]))
          [] line \in ToSet(Lengths) ->
               Step([next EXCEPT !.length = SelectInSeq(Lengths, LAMBDA l : l = line) - 1])
          [] line = "transfer-encoding: chunked" -> Step([next EXCEPT !.chunked = TRUE])
          [] line = "host: " -> Step(next)
          [] OTHER -> Ends /\ OnlyServer                      \* no colon

FirstChunkSize ==
  /\ AtLine("size0")
  /\ LET n == strtol(srv.cache)
         next == [srv EXCEPT !.req_body_size = n, !.cache = RemoveLine(@)]
     IN Step(IF n = 0 THEN [next EXCEPT !.pc = "trailer0"]
             ELSE SettleConnection([next EXCEPT !.transfer_encoding = "chunked"]))

\* The headers after the last chunk.
ReadTrailer ==
  \E pc \in {"trailer0", "trailer"} :
    /\ AtLine(pc)
    /\ LET next == [srv EXCEPT !.cache = RemoveLine(@)]
       IN CASE srv.cache[1] = "host: " -> Step(next)
            [] srv.cache[1] = nl /\ pc = "trailer0" -> Step(SettleConnection(next))
            [] srv.cache[1] = nl /\ pc = "trailer" ->
                 Step([next EXCEPT !.transfer_encoding = "basic", !.pc = "handle"])
            [] OTHER -> Ends /\ OnlyServer

\* readFullContent(): up to the end of the data, or chunk by chunk.
ReadFullContent ==
  /\ srv.pc = "content"
  /\ srv.req_body_size <= 0
  /\ Step([srv EXCEPT !.pc = IF srv.req_body_size < 0 THEN "rest"
                             ELSE IF srv.transfer_encoding = "chunked" THEN "skip"
                             ELSE "handle"])

\* readExtendAdd() takes what it is to take from the cache,
ReadCached ==
  /\ srv.pc = "content" /\ srv.req_body_size > 0 /\ srv.cache # <<>>
  /\ LET n == Least(srv.req_body_size, Len(srv.cache))
     IN Step([srv EXCEPT !.body = @ \o SubSeq(srv.cache, 1, n),
                         !.cache = RemoveLeft(@, n), !.req_body_size = @ - n])

\* ... or, when that is empty, what has come of it from the socket.
ReadDirect ==
  /\ srv.pc = "content" /\ srv.req_body_size > 0 /\ srv.cache = <<>>
  /\ \E n \in 1..Least(srv.req_body_size, Len(up)) :
       /\ srv' = [srv EXCEPT !.body = @ \o SubSeq(up, 1, n), !.req_body_size = @ - n]
       /\ up' = RemoveLeft(up, n)
  /\ UNCHANGED <<session, upEof, down, downEof, handled, cli, died, late>>

\* updateNextChunk(): the end of line after the data of a chunk, ...
SkipChunkEnd ==
  AtLine("skip") /\ Step([srv EXCEPT !.cache = RemoveLine(@), !.pc = "size"])

\* ... and the size of the next.
NextChunkSizeLast ==        \* Variant: the last chunk is taken for another one
  /\ AtLine("size")
  /\ LET n == strtol(srv.cache)
     IN Step([srv EXCEPT !.req_body_size = n, !.cache = RemoveLine(@), !.pc = "content"])
NextChunkSize ==
  /\ AtLine("size")
  /\ LET n == strtol(srv.cache)
     IN Step([srv EXCEPT !.req_body_size = n, !.cache = RemoveLine(@),
                         !.pc = IF n = 0 THEN "trailer" ELSE "content"])

\* The server waits for data.
Waits == \/ srv.pc \in LineStates /\ LineEnd(srv.cache) = 0
         \/ srv.pc = "rest"
         \/ srv.pc = "content" /\ srv.req_body_size > 0 /\ srv.cache = <<>>

\* tryExtendCacheAdd(), extendCacheAdd(): any part of what is under way comes.
ExtendCache ==
  /\ Waits /\ srv.pc # "content"
  /\ \E n \in 1..Len(up) : /\ srv' = [srv EXCEPT !.cache = @ \o SubSeq(up, 1, n)]
                           /\ up' = RemoveLeft(up, n)
  /\ UNCHANGED <<session, upEof, down, downEof, handled, cli, died, late>>

\* The end of the data ends a body that has no size; elsewhere it is an
\* exception, or the end of the connection where a request would start.
EndOfDataShort ==           \* Variant: the end of the data ends any body
  /\ Waits /\ up = <<>> /\ upEof
  /\ IF srv.pc \in {"rest", "content"}
     THEN Step([srv EXCEPT !.body = @ \o srv.cache, !.cache = <<>>, !.pc = "handle"])
     ELSE Ends /\ OnlyServer
EndOfData ==
  /\ Waits /\ up = <<>> /\ upEof
  /\ IF srv.pc = "rest"
     THEN Step([srv EXCEPT !.body = srv.cache, !.cache = <<>>, !.pc = "handle"])
     ELSE Ends /\ OnlyServer

\* waitData() sees nothing until the time of the request is over.
TimedOutBetween ==          \* Variant: only the wait for a request is limited
  /\ Waits /\ up = <<>> /\ ~upEof /\ srv.pc = "method"
  /\ Ends /\ late' = (late \/ cli.pc = "send")
  /\ UNCHANGED <<session, up, upEof, down, handled, cli, died>>
TimedOut ==
  /\ Waits /\ up = <<>> /\ ~upEof
  /\ Ends /\ late' = (late \/ cli.pc = "send")
  /\ UNCHANGED <<session, up, upEof, down, handled, cli, died>>

\* The call of a body, and what is sent as its response: sendResponse(),
\* sendHeader(), sendContent().
Answer(o, body) == [code |-> IF o = "bad" THEN "400" ELSE "200", data |-> <<o>> \o body]
Response(answer) ==
  Line(answer.code)
    \o (IF srv.connection_state >= 2 THEN Line("connection: close")
        ELSE IF srv.req_version < 257 THEN Line("connection: keep-alive") ELSE <<>>)
    \o Line("content-type: ") \o ContentLength(Len(answer.data)) \o <<nl>> \o answer.data

Handle ==
  /\ srv.pc = "handle"
  /\ handled' = Append(handled, srv.body)
  /\ \/ \E o \in Outcomes :
          /\ down' = down \o Response(Answer(o, srv.body))
          /\ downEof' = (srv.connection_state >= 2)
          /\ srv' = [srv EXCEPT !.body = <<>>, !.pc = "start"]
     \/ died /\ Ends /\ UNCHANGED down                      \* the write fails
  /\ UNCHANGED <<session, up, upEof, cli, died, late>>

------------------------------------------------------------------------------
(* The client. *)

ClientLine(pc) == cli.pc = pc /\ LineEnd(cli.cache) > 0
OnlyClient == UNCHANGED <<session, downEof, srv, handled, died, late>>

\* writeFull() of the next part of the request.
ClientWrite ==
  /\ cli.pc = "send" /\ cli.next <= Len(session.writes)
  /\ up' = up \o session.writes[cli.next]
  /\ cli' = [cli EXCEPT !.next = @ + 1]
  /\ UNCHANGED <<upEof, down>> /\ OnlyClient

\* shutdown(2), where the operation has it, and on to the response.
ClientSent ==
  /\ cli.pc = "send" /\ cli.next > Len(session.writes)
  /\ upEof' = session.shut
  /\ cli' = [cli EXCEPT !.pc = IF session.bodies = <<>> THEN "done" ELSE "status"]
  /\ UNCHANGED <<up, down>> /\ OnlyClient

\* readHeaders()
ReadStatus ==
  /\ ClientLine("status")
  /\ cli' = [cli EXCEPT !.code = cli.cache[1], !.cache = RemoveLine(@), !.pc = "rheaders"]
  /\ UNCHANGED <<up, upEof, down>> /\ OnlyClient

ReadResponseHeader ==
  /\ ClientLine("rheaders")
  /\ LET line == cli.cache[1]
         next == [cli EXCEPT !.cache = RemoveLine(@)]
     IN cli' = CASE line = nl -> [next EXCEPT !.pc = "rbody", !.data = <<>>]
                 [] line \in ToSet(Lengths) ->
                      [next EXCEPT !.response_size =
                                     SelectInSeq(Lengths, LAMBDA l : l = line) - 1]
                 [] OTHER -> next
  /\ UNCHANGED <<up, upEof, down>> /\ OnlyClient

\* readFull(): from the cache, then from the socket, until the size is reached.
Missing == cli.response_size - Len(cli.data)
ClientReadCachedAll ==      \* Variant: all of the cache is taken for this response
  /\ cli.pc = "rbody" /\ Missing > 0 /\ cli.cache # <<>>
  /\ cli' = [cli EXCEPT !.data = @ \o cli.cache, !.cache = <<>>]
  /\ UNCHANGED <<up, upEof, down>> /\ OnlyClient
ClientReadCached ==
  /\ cli.pc = "rbody" /\ Missing > 0 /\ cli.cache # <<>>
  /\ LET n == Least(Missing, Len(cli.cache))
     IN cli' = [cli EXCEPT !.data = @ \o SubSeq(cli.cache, 1, n), !.cache = RemoveLeft(@, n)]
  /\ UNCHANGED <<up, upEof, down>> /\ OnlyClient

ClientReadDirect ==
  /\ cli.pc = "rbody" /\ Missing > 0 /\ cli.cache = <<>>
  /\ \E n \in 1..Least(Missing, Len(down)) :
       cli' = [cli EXCEPT !.data = @ \o SubSeq(down, 1, n)] /\ down' = RemoveLeft(down, n)
  /\ UNCHANGED <<up, upEof>> /\ OnlyClient

ResponseRead ==
  /\ cli.pc = "rbody" /\ Missing <= 0
  /\ LET results == Append(cli.results, [code |-> cli.code, data |-> cli.data])
     IN cli' = [cli EXCEPT !.results = results,
                  !.pc = IF Len(results) = Len(session.bodies) THEN "done" ELSE "status"]
  /\ UNCHANGED <<up, upEof, down>> /\ OnlyClient

ClientWaits == \/ cli.pc \in {"status", "rheaders"} /\ LineEnd(cli.cache) = 0
               \/ cli.pc = "rbody" /\ Missing > 0 /\ cli.cache = <<>>

ClientExtendCache ==
  /\ ClientWaits /\ cli.pc # "rbody"
  /\ \E n \in 1..Len(down) :
       cli' = [cli EXCEPT !.cache = @ \o SubSeq(down, 1, n)] /\ down' = RemoveLeft(down, n)
  /\ UNCHANGED <<up, upEof>> /\ OnlyClient

\* EndOfDataException
ClientFails ==
  /\ ClientWaits /\ down = <<>> /\ downEof
  /\ cli' = [cli EXCEPT !.pc = "failed"] /\ upEof' = TRUE
  /\ UNCHANGED <<up, down>> /\ OnlyClient

\* A client that has all it wants leaves, if not at once.
ClientCloses ==
  /\ cli.pc = "done" /\ ~upEof
  /\ upEof' = TRUE
  /\ UNCHANGED <<up, down, cli>> /\ OnlyClient

\* The client, or the network to it, goes away at any time.
ClientDies ==
  /\ cli.pc \notin {"done", "failed"}
  /\ died' = TRUE /\ upEof' = TRUE /\ cli' = [cli EXCEPT !.pc = "failed"]
  /\ UNCHANGED <<session, up, down, downEof, srv, handled, late>>

------------------------------------------------------------------------------
ServerStep ==
  \/ ReadRequest \/ ReadMethod \/ ReadHeader \/ FirstChunkSize \/ ReadTrailer
  \/ ReadFullContent \/ ReadCached \/ ReadDirect \/ SkipChunkEnd \/ NextChunkSize
  \/ ExtendCache \/ EndOfData \/ TimedOut \/ Handle
ClientReads ==
  \/ ReadStatus \/ ReadResponseHeader \/ ClientReadCached \/ ClientReadDirect
  \/ ResponseRead \/ ClientExtendCache \/ ClientFails
ClientSends == ClientWrite \/ ClientSent \/ ClientCloses \/ ClientDies

Next == ServerStep \/ ClientReads \/ ClientSends

\* Both sides go on when they can, and time passes for the server; what the
\* client sends, and that it leaves, is up to it.
Spec == Init /\ [][Next]_vars /\ WF_vars(ServerStep) /\ WF_vars(ClientReads)

------------------------------------------------------------------------------
\* The j-th request of a connection that is kept alive is read with a header
\* of an earlier one, as req_headers is never cleared: a request without a size
\* after one of some size, or one that is not chunked after one that is.
Inherits(j) ==
  LET sized == {i \in 1..(j - 1) : session.kinds[i] = "sized"}
  IN \/ session.kinds[j] = "none"
        /\ \E i \in sized : session.bodies[i] # <<>> /\ \A k \in sized : k <= i
     \/ session.kinds[j] # "chunked" /\ \E i \in 1..(j - 1) : session.kinds[i] = "chunked"

\* The requests before the first such one.
Sound(i) == \A j \in DOMAIN session.kinds : j <= i => ~Inherits(j)
AllSound == Sound(Len(session.kinds))

\* However the data is cut, the server hands on the bodies the client sent,
\* in their order, and no other: a body that was cut off reaches the decoder
\* only if nothing but the end of the data marks its end.  Bodies of a request
\* that inherits a header, and of those that follow it, are excepted.
BodiesExact ==
  /\ AllSound => Len(handled) <= Len(session.bodies)
  /\ \A i \in DOMAIN handled :
       \/ ~Sound(i)
       \/ handled[i] = session.bodies[i]
       \/ ~session.framed /\ died /\ IsPrefix(handled[i], session.bodies[i])

\* What the client reads as its i-th response is the whole answer to the body
\* of its i-th request, and nothing of the one after it; with the same exception.
ResponseExact ==
  \A i \in DOMAIN cli.results :
    Sound(i) => \E o \in Outcomes : cli.results[i] = Answer(o, session.bodies[i])

\* No connection holds its thread for ever, whatever the client stops sending
\* and whenever it goes; and a client that has sent all is not left waiting.
AllEnd == <>(srv.pc = "ended" /\ cli.pc \in {"send", "done", "failed"})

\* A client that sends its requests, without being cut off or too slow, gets all
\* of its responses: neither side waits for what the other will not send.  The
\* exception is a connection with a request that inherits a header: for such a
\* request the server may wait for a body that the client never meant to send.
Answered == AllSound => (<>(cli.pc # "send") => <>(cli.pc = "done" \/ died \/ late))
=============================================================================
