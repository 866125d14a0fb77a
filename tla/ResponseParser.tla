--------------------------- MODULE ResponseParser ---------------------------
(***************************************************************************)
(* ayr::http::ResponseParser and HttpResponse                              *)
(* (include/ayr/net/http/Response.hpp).                                    *)
(*                                                                         *)
(* A byte here is a symbol that the parser can tell from others: "S" is a  *)
(* status line, "CR" and "LF", the members of Headers are header lines,    *)
(* the domain of ChunkSize are the lines that give the size of a chunk,    *)
(* anything else is a byte of a body.  None is cut: every cut that         *)
(* matters is one between two symbols.                                     *)
(***************************************************************************)
EXTENDS ByteBuffer, SequencesExt

CONSTANTS
    Headers,    \* the header lines, "T" is Transfer-Encoding: chunked
    LengthOf,   \* the value of those that are Content-Length
    ChunkSize   \* the value of the lines that are sizes of chunks

ASSUME ParserAssumption ==
    /\ LengthOf \in [DOMAIN LengthOf -> Nat]
    /\ ChunkSize \in [DOMAIN ChunkSize -> Nat]

CrLf == <<"CR", "LF">>

(* HttpResponse::__repr__.                                                 *)
Serialise(headers, body) ==
    <<"S">> \o CrLf \o FlattenSeq([i \in DOMAIN headers |-> <<headers[i]>> \o CrLf])
    \o CrLf \o body

(* What a server writes for a body in chunks, the last of size zero.       *)
Chunked(lines, bodies) ==
    FlattenSeq([i \in DOMAIN lines |-> <<lines[i]>> \o CrLf \o bodies[i] \o CrLf])

(* A parser with the response it fills and the buffer it reads from.       *)
(* verdict is what operator() returns: "more" is false, "done" is true,    *)
(* "throw" a ValueError, "undefined" the end of parse_body without a       *)
(* return.  cut says that a chunk was taken before all of it was there.    *)
NewParser ==
    [expect |-> "status", chunks |-> <<>>, headers |-> {}, body |-> <<>>,
     buf |-> NewBuffer(InitialCapacity), verdict |-> "more", cut |-> FALSE]

Occurs(set, line) == \E i \in DOMAIN line : line[i] \in set

(* Take one line from the buffer; Then says what the line does.            *)
TakeLine(q, Then(_, _)) ==
    LET i == Find(q.buf, CrLf, 0)
    IN  IF i = -1 THEN [q EXCEPT !.verdict = "more"]
        ELSE Then([q EXCEPT !.buf = Retrieve(q.buf, i + 2)], Bytes(q.buf, i))

StatusLine(q, line) ==
    IF Occurs({"S"}, line) THEN [q EXCEPT !.expect = "header"]
    ELSE [q EXCEPT !.verdict = "throw"]

ParseStatusLine(q) == IF q.expect = "status" THEN TakeLine(q, StatusLine) ELSE q

(* parse_header: line after line until one is empty or none is complete.   *)
(* A line without a colon is refused.                                      *)
ParseHeader(q) ==
    LET u == Unread(q.buf)
        ends == {i \in 0 .. Len(u) - 3 : SubSeq(u, i + 1, i + 2) = CrLf}
        empty == {i \in ends : i = 0 \/ i - 2 \in ends}
        taken == IF empty = {} THEN ends ELSE {i \in ends : i < Min(empty)}
        start(i) == Max({0} \cup {j + 2 : j \in {e \in ends : e < i}})
        lines == {SubSeq(u, start(i) + 1, i) : i \in taken}
        size == IF empty # {} THEN Min(empty) + 2
                ELSE IF ends # {} THEN Max(ends) + 2 ELSE 0
    IN  IF q.expect # "header" THEN q
        ELSE IF \E l \in lines : ~Occurs(Headers, l) THEN [q EXCEPT !.verdict = "throw"]
        ELSE [q EXCEPT !.buf = Retrieve(q.buf, size),
                       !.headers = @ \cup {h \in Headers : \E l \in lines : Occurs({h}, l)},
                       !.expect = IF empty = {} THEN "header" ELSE "body"]

ContentLengthBody(q) ==
    LET n == LengthOf[CHOOSE h \in q.headers : h \in DOMAIN LengthOf]
    IN  IF Readable(q.buf) < n THEN q
        ELSE [q EXCEPT !.body = Bytes(q.buf, n), !.buf = Retrieve(q.buf, n),
                       !.verdict = "done"]

(* toint(16) of a line that does not begin with a size is 0.               *)
SizeOf(line) ==
    IF line # <<>> /\ Head(line) \in DOMAIN ChunkSize THEN ChunkSize[Head(line)] ELSE 0

(* Mutated form: the line end behind the chunk is left in the buffer.      *)
ChunkBodyBare(q, line) ==
    LET n == SizeOf(line)
        chunks == Append(q.chunks, Bytes(q.buf, n))
    IN  [q EXCEPT !.buf = Retrieve(q.buf, n), !.chunks = chunks,
                  !.verdict = IF n = 0 THEN "done" ELSE "more",
                  !.body = IF n = 0 THEN FlattenSeq(chunks) ELSE @]

ChunkBody(q, line) ==
    LET n == SizeOf(line)
        chunks == Append(q.chunks, Bytes(q.buf, n))
    IN  [q EXCEPT !.buf = Retrieve(q.buf, n + 2), !.chunks = chunks,
                  !.cut = @ \/ (n > 0 /\ Readable(q.buf) < n + 2),
                  !.verdict = IF n = 0 THEN "done" ELSE "more",
                  !.body = IF n = 0 THEN FlattenSeq(chunks) ELSE @]

ParseBody(q) ==
    IF q.expect # "body" THEN q
    ELSE IF q.headers \cap DOMAIN LengthOf # {} THEN ContentLengthBody(q)
    ELSE IF "T" \in q.headers THEN TakeLine(q, ChunkBody)
    ELSE [q EXCEPT !.verdict = "undefined"]

(* Mutated form: the end of the headers is not remembered.                 *)
ParseForgets(q) ==
    LET out == ParseBody(ParseHeader(ParseStatusLine([q EXCEPT !.verdict = "more"])))
    IN  IF out.verdict = "more" /\ out.expect = "body"
        THEN [out EXCEPT !.expect = "header"] ELSE out

(* operator(), the reset of a parser that is done included.                *)
Parse(q) ==
    LET out == ParseBody(ParseHeader(ParseStatusLine([q EXCEPT !.verdict = "more"])))
    IN  IF out.verdict = "done" THEN [out EXCEPT !.expect = "status", !.chunks = <<>>]
        ELSE out
=============================================================================
