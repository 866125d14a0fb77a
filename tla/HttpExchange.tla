---------------------------- MODULE HttpExchange ----------------------------
(***************************************************************************)
(* One request of ayr::http::Session (net/http/Session.hpp) over           *)
(* ayr::net::Socket to a server that accepts it with ayr::net::Acceptor    *)
(* (net/Socket.hpp, net/utils.hpp), reads it whole and writes one answer.  *)
(*                                                                         *)
(* Both ends are coroutines that run one call of the system after another; *)
(* an action is one such call with what follows it up to the next one.     *)
(* The network carries bytes in order.  send takes any part that fits, or, *)
(* under TLS, all; recv gives any part of what is there.  That a suspended *)
(* coroutine is resumed when its socket is ready is the subject of         *)
(* EventLoop.  An exception that leaves an awaited Task ends the process,  *)
(* because Task::await_resume is noexcept.                                 *)
(***************************************************************************)
EXTENDS ResponseParser

CONSTANTS
    Request,    \* the bytes of the request
    Settings,   \* tls, how the server writes, and its answer: the wire, the
                \* headers, the body, and what WellFormed says they are made of
    Room,       \* the bytes that the network takes before it is read
    ReadSize    \* read_size of Socket::read

ASSUME ExchangeAssumption ==
    /\ Request \in Seq(Range(Request))
    /\ \A s \in Settings : s.response.wire \in Seq(Range(s.response.wire))
    /\ Room \in Nat /\ ReadSize \in Nat \ {0}

VARIABLES
    setting,    \* which of Settings
    client,     \* where Session::request is
    server,     \* where the server is
    backlog,    \* pending: our connection is queued; event: the listening
                \* socket is reported; visited: another one came and went
    link,       \* "none", "open", "shut" by the server, "reset", "left"
    wire,       \* the bytes under way
    arrived,    \* what either end has read, from the beginning
    req,        \* req_buffer
    resp,       \* res, res_parser and resp_buffer
    out,        \* the answer: a Buffer, or the count of a CString's bytes
    resent,     \* a CString was sent again after a short write
    compacted   \* adjust_util has moved resp_buffer in place

bytes == <<wire, arrived>>
serverVars == <<server, backlog, out, resent>>
vars == <<setting, client, server, backlog, link, wire, arrived, req, resp,
          out, resent, compacted>>

Answer == setting.response.wire

Init ==
    /\ setting \in Settings
    /\ client = "connect" /\ server = "accept" /\ link = "none"
    /\ backlog = [pending |-> FALSE, event |-> FALSE, visited |-> FALSE]
    /\ wire = [up |-> <<>>, down |-> <<>>]
    /\ arrived = [up |-> <<>>, down |-> <<>>]
    /\ req = AppendBytes(NewBuffer(InitialCapacity), Request)
    /\ resp = NewParser
    /\ out = IF setting.writes = "CString" THEN 0
             ELSE AppendBytes(NewBuffer(InitialCapacity), Answer)
    /\ resent = FALSE /\ compacted = FALSE

Ended == {"done", "terminated", "undefined", "spinning"}

(* The parts of data that send may take: k bytes of them.                  *)
Takes(w, n) == IF setting.tls THEN IF w = <<>> THEN {n} ELSE {}
               ELSE 1 .. Min({n, Room - Len(w)})

(* A client that ends destroys its socket.                                 *)
ClientGoes(to) ==
    /\ client' = to
    /\ link' = IF to \in {"done", "terminated"} /\ link = "open" THEN "left" ELSE link

-----------------------------------------------------------------------------
(* The client.                                                             *)

(* co_connect: the socket is still blocking, so connect succeeds or fails  *)
(* at once, and a failure throws.                                          *)
CoConnect == IF server = "terminated" THEN {"throw"} ELSE {"connected", "throw"}

(* open_connect: the exception leaves it before the next address is tried. *)
Connect ==
    /\ client = "connect"
    /\ \/ /\ "connected" \in CoConnect
          /\ client' = "handshake" /\ link' = "open"
          /\ backlog' = [backlog EXCEPT !.pending = TRUE, !.event = TRUE]
       \/ client' = "terminated" /\ UNCHANGED <<link, backlog>>
    /\ UNCHANGED <<setting, server, bytes, req, resp, out, resent, compacted>>

(* Socket::handshake.  The SSLError of a handshake that failed stays in    *)
(* the Task<void> of ssl_eagain_wait: the loop calls SSL_connect again and *)
(* never suspends.                                                         *)
ClientHandshake ==
    /\ client = "handshake"
    /\ \/ ~setting.tls /\ client' = "write"
       \/ setting.tls /\ server = "handshake" /\ link = "open" /\ client' = "write"
       \/ setting.tls /\ (server = "handshake" \/ link # "open") /\ client' = "spinning"
    /\ UNCHANGED <<setting, link, serverVars, bytes, req, resp, compacted>>

(* Socket::write(Buffer).                                                  *)
ClientWrite ==
    /\ client = "write"
    /\ \E k \in IF link = "open" THEN Takes(wire.up, Readable(req)) ELSE {} :
          /\ wire' = [wire EXCEPT !.up = @ \o Bytes(req, k)]
          /\ req' = Retrieve(req, k)
          /\ client' = IF Readable(req') = 0 THEN "read" ELSE "write"
    /\ UNCHANGED <<setting, link, serverVars, arrived, resp, compacted>>

(* send or recv on a connection that the peer has reset.                   *)
ClientError ==
    /\ \/ client = "write" /\ link \in {"shut", "reset"}
       \/ client = "read" /\ link = "reset"
    /\ ClientGoes("terminated")
    /\ UNCHANGED <<setting, serverVars, bytes, req, resp, compacted>>

(* What a read of those bytes makes of the response.  Socket::read makes   *)
(* room before it calls recv; more bytes than fit are written behind the   *)
(* allocation.                                                             *)
ReadInto(q, got) ==
    LET b == Adjust(q.buf, ReadSize)
    IN  IF Len(got) > Writeable(b) THEN [q EXCEPT !.verdict = "undefined"]
        ELSE Parse([q EXCEPT !.buf = Receive(b, got)])

ClientRecv ==
    /\ client = "read"
    /\ \E k \in 1 .. Min({ReadSize, Len(wire.down)}) :
          /\ wire' = [wire EXCEPT !.down = SubSeq(@, k + 1, Len(@))]
          /\ arrived' = [arrived EXCEPT !.down = @ \o SubSeq(wire.down, 1, k)]
          /\ resp' = ReadInto(resp, SubSeq(wire.down, 1, k))
    /\ compacted' = (compacted \/ Compacts(resp.buf, ReadSize))
    /\ ClientGoes(CASE resp'.verdict = "more" -> "read"
                    [] resp'.verdict = "throw" -> "terminated"
                    [] OTHER -> resp'.verdict)
    /\ UNCHANGED <<setting, serverVars, req>>

(* recv would block: the coroutine waits for read_awaiter_.                *)
ClientSuspend ==
    /\ client = "read" /\ wire.down = <<>> /\ link = "open"
    /\ compacted' = (compacted \/ Compacts(resp.buf, ReadSize))
    /\ resp' = [resp EXCEPT !.buf = Adjust(resp.buf, ReadSize)]
    /\ client' = "suspended"
    /\ UNCHANGED <<setting, serverVars, link, bytes, req>>

ClientResume ==
    /\ client = "suspended" /\ (wire.down # <<>> \/ link # "open")
    /\ client' = "read"
    /\ UNCHANGED <<setting, serverVars, link, bytes, req, resp, compacted>>

(* Mutated form: the end of the stream is waited for like data.            *)
ClientEofWaits ==
    /\ client = "read" /\ wire.down = <<>> /\ link = "shut"
    /\ ClientGoes("suspended")
    /\ UNCHANGED <<setting, serverVars, bytes, req, resp, compacted>>

(* read returns 0: request() leaves its loop with what it has.             *)
ClientEof ==
    /\ client = "read" /\ wire.down = <<>> /\ link = "shut"
    /\ ClientGoes("done")
    /\ UNCHANGED <<setting, serverVars, bytes, req, resp, compacted>>

ClientStep == \/ Connect \/ ClientHandshake \/ ClientWrite \/ ClientError
              \/ ClientRecv \/ ClientSuspend \/ ClientResume \/ ClientEof

-----------------------------------------------------------------------------
(* The server.                                                             *)

(* Another process that shares the listening socket takes a connection.    *)
Visit ==
    /\ ~backlog.visited /\ server \in {"accept", "await"}
    /\ backlog' = [backlog EXCEPT !.visited = TRUE, !.event = TRUE]
    /\ UNCHANGED <<setting, client, server, link, bytes, req, resp, out, resent,
                   compacted>>

(* Acceptor::accept: one call, and one more after the wait.                *)
Accept ==
    /\ \/ server = "accept"
       \/ server = "await" /\ backlog.event
    /\ server' = IF backlog.pending THEN "handshake"
                 ELSE IF server = "accept" THEN "await" ELSE "terminated"
    /\ backlog' = [backlog EXCEPT !.pending = FALSE, !.event = FALSE]
    /\ UNCHANGED <<setting, client, link, bytes, req, resp, out, resent, compacted>>

ServerHandshake ==
    /\ server = "handshake"
    /\ \/ (~setting.tls \/ client \in {"write", "read", "suspended"}) /\ server' = "read"
       \/ setting.tls /\ client = "spinning" /\ server' = "spinning"
    /\ UNCHANGED <<setting, client, link, backlog, bytes, req, resp, out, resent,
                   compacted>>

ServerRead ==
    /\ server = "read"
    /\ wire.up # <<>>
    /\ wire' = [wire EXCEPT !.up = <<>>]
    /\ arrived' = [arrived EXCEPT !.up = @ \o wire.up]
    /\ server' = IF Len(arrived'.up) = Len(Request) THEN "write" ELSE "read"
    /\ UNCHANGED <<setting, client, link, backlog, req, resp, out, resent, compacted>>

ServerSends(part) == wire' = [wire EXCEPT !.down = @ \o part]

ServerWriteBuffer ==
    /\ server = "write" /\ setting.writes = "Buffer" /\ link = "open"
    /\ \E k \in Takes(wire.down, Readable(out)) :
          /\ ServerSends(Bytes(out, k))
          /\ out' = Retrieve(out, k)
    /\ server' = IF Readable(out') = 0 THEN "sent" ELSE "write"
    /\ UNCHANGED <<setting, client, link, backlog, arrived, req, resp, resent,
                   compacted>>

(* Socket::write(CString): every call is given the whole of data, what was *)
(* taken before is only counted.                                           *)
ServerWriteCString ==
    /\ server = "write" /\ setting.writes = "CString" /\ link = "open"
    /\ \E k \in Takes(wire.down, Len(Answer)) :
          /\ ServerSends(SubSeq(Answer, 1, k))
          /\ out' = out + k
    /\ resent' = (resent \/ out > 0)
    /\ server' = IF out' >= Len(Answer) THEN "sent" ELSE "write"
    /\ UNCHANGED <<setting, client, link, backlog, arrived, req, resp, compacted>>

(* The client is gone: send raises SIGPIPE or fails.                       *)
ServerError ==
    /\ server = "write" /\ link = "left"
    /\ server' = "terminated"
    /\ UNCHANGED <<setting, client, link, backlog, bytes, req, resp, out, resent,
                   compacted>>

(* The server may close at any time; bytes it has not read reset the       *)
(* connection.                                                             *)
ServerClose ==
    /\ server \in {"read", "write", "sent"}
    /\ server' = "closed"
    /\ link' = IF link # "open" THEN link
               ELSE IF wire.up = <<>> THEN "shut" ELSE "reset"
    /\ UNCHANGED <<setting, client, backlog, bytes, req, resp, out, resent, compacted>>

ServerStep == \/ Visit \/ Accept \/ ServerHandshake \/ ServerRead \/ ServerWriteBuffer
              \/ ServerWriteCString \/ ServerError \/ ServerClose

Next == ClientStep \/ ServerStep

Spec == Init /\ [][Next]_vars

(* Where ClientStep can be taken.                                          *)
ClientReady ==
    \/ client \in {"connect", "read"}
    \/ client = "handshake" /\ (~setting.tls \/ server = "handshake" \/ link # "open")
    \/ client = "write" /\ (link # "open" \/ Takes(wire.up, Readable(req)) # {})
    \/ client = "suspended" /\ (wire.down # <<>> \/ link # "open")

(* The loop of the client resumes it when it can go on: weak fairness of   *)
(* ClientStep, with ENABLED written out, which TLC evaluates slowly here.  *)
FairSpec == Spec /\ ([]<>~ClientReady \/ []<><<ClientStep>>_vars)

-----------------------------------------------------------------------------
(* An answer with the header lines names and, as Content-Length says, a    *)
(* body, or one that ends with the connection; or, in chunks, the parts    *)
(* with their sizes in lines, of which the last only is 0.                 *)
WellFormed(r) ==
    /\ r.names \in Seq(Headers) /\ r.headers = ToSet(r.names)
    /\ IF r.lines = <<>>
       THEN /\ r.body \in Seq(Range(r.body))
            /\ r.wire = Serialise(r.names, r.body)
            /\ \A h \in r.headers \cap DOMAIN LengthOf : LengthOf[h] = Len(r.body)
            /\ "T" \in r.headers => r.headers \cap DOMAIN LengthOf # {}
       ELSE /\ r.lines \in Seq(DOMAIN ChunkSize)
            /\ r.parts \in Seq(Range(r.parts)) /\ Len(r.parts) = Len(r.lines)
            /\ \A i \in DOMAIN r.parts :
                  /\ r.parts[i] \in Seq(Range(r.parts[i]))
                  /\ Len(r.parts[i]) = ChunkSize[r.lines[i]]
                  /\ r.parts[i] = <<>> <=> i = Len(r.parts)
            /\ r.wire = Serialise(r.names, Chunked(r.lines, r.parts))
            /\ r.body = FlattenSeq(r.parts)
            /\ "T" \in r.headers /\ r.headers \cap DOMAIN LengthOf = {}

(* Lines differ from what ends them, and every answer is well formed.      *)
AnswersWellFormed ==
    /\ {"CR", "LF"} \cap (Headers \cup DOMAIN ChunkSize) = {}
    /\ \A s \in Settings : WellFormed(s.response)

(* What the client sends arrives in order and once, whole when write has   *)
(* returned; the same of the server's answer, except a CString that a      *)
(* short write cut.                                                        *)
StreamsAreExact ==
    LET up == arrived.up \o wire.up
        down == arrived.down \o wire.down
    IN  /\ IsPrefix(up, Request)
        /\ client \in {"read", "suspended"} => up = Request
        /\ ~resent => IsPrefix(down, Answer)
        /\ ~resent /\ server = "sent" => down = Answer

(* The response buffer holds the bytes that were read last, the parser has *)
(* taken those before: no byte is lost, invented or moved when the buffer  *)
(* grows.  Compaction in place breaks this (Buffer.hpp line 209).          *)
BufferHoldsUnread ==
    ~compacted => IsSuffix(Unread(resp.buf), arrived.down)

(* However the answer is cut into reads, the parser's result is what the   *)
(* server sent.  Excepted are a chunk taken before all of it was there     *)
(* (Response.hpp line 208), a moved buffer, and a resent CString.          *)
ResponseAsSent ==
    client = "done" /\ resp.verdict = "done"
    /\ ~resp.cut /\ ~compacted /\ ~resent
    => /\ resp.body = setting.response.body
           /\ resp.headers = setting.response.headers

(* A client that has read the whole of an answer with a Content-Length     *)
(* above zero does not wait for more.  Without a body the last CRLF ends   *)
(* at the write position and is not found (Buffer.hpp line 162); of        *)
(* chunks, one is taken for each read (Response.hpp line 211).             *)
CompleteIsAnswered ==
    client = "suspended" /\ arrived.down = Answer /\ ~compacted /\ ~resent
        => "T" \in setting.response.headers \/ setting.response.body = <<>>

(* Once the server has closed or reset the connection, the request ends,   *)
(* or a TLS handshake that failed spins.                                   *)
RequestReturns == link \in {"shut", "reset"} ~> client \in Ended
=============================================================================
