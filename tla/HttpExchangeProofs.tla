------------------------- MODULE HttpExchangeProofs -------------------------
(***************************************************************************)
(* Streams and buffers of an exchange, for every request, every answer,    *)
(* any room in the network and any size of the reads.                      *)
(*                                                                         *)
(* What is said of a buffer and of the least members of sets of numbers is *)
(* in BufferProofs.  The parts here:                                       *)
(* 1. StreamsExact: at either end, what has been read, what is under way   *)
(*    and what is still in the buffer make up what was to be sent.         *)
(* 2. ResponseParser takes bytes from the front of its buffer only.        *)
(* 3. BufferHolds: what was read is what the parser has taken and what the *)
(*    buffer holds.                                                        *)
(* 4. Where the lines, the chunks and the body of a well-formed answer lie *)
(*    on the wire.                                                         *)
(* 5. What each part of the parser makes of the bytes of such an answer    *)
(*    that have come.                                                      *)
(* 6. AnswersAsSent, CompleteAnswered: the parser has made of what was     *)
(*    read what the server meant, or nothing of what is there can be taken *)
(*    yet.                                                                 *)
(***************************************************************************)
EXTENDS HttpExchange, BufferProofs

(* What travels, and what the memory of a buffer may hold.                 *)
Byte == {Junk} \cup Range(Request)
        \cup UNION {Range(s.response.wire) : s \in Settings}

LEMMA Given ==
    /\ Junk \in Byte
    /\ Request \in Seq(Byte)
    /\ \A s \in Settings : s.response.wire \in Seq(Byte)
<1>1. Request \in Seq(Byte)
  <2>1. Range(Request) \subseteq Byte
    BY DEF Byte
  <2>2. QED BY <2>1, ExchangeAssumption, SeqMonotonic
<1>2. ASSUME NEW s \in Settings PROVE s.response.wire \in Seq(Byte)
  <2>1. Range(s.response.wire) \subseteq Byte
    BY DEF Byte
  <2>2. QED BY <2>1, ExchangeAssumption, SeqMonotonic
<1>3. QED BY <1>1, <1>2 DEF Byte

-----------------------------------------------------------------------------
(* Beginnings and ends.                                                    *)

LEMMA Regroup ==
    ASSUME NEW s \in Seq(Byte), NEW t \in Seq(Byte), NEW u \in Seq(Byte)
    PROVE  (s \o t) \o u = s \o (t \o u)
  BY ConcatAssociative

LEMMA BeginningOf ==
    ASSUME NEW s \in Seq(Byte), NEW t \in Seq(Byte)
    PROVE  IsPrefix(s, s \o t)
<1>1. /\ Len(s) \in Nat /\ Len(t) \in Nat /\ s \o t \in Seq(Byte)
      /\ Len(s \o t) = Len(s) + Len(t)
  BY LenProperties, ConcatProperties
<1>2. SubSeq(s, 1, Len(s)) = s
  BY SubSeqFull
<1>3. CASE Len(s) = 0
  <2>1. SubSeq(s, 1, 0) = <<>> /\ SubSeq(s \o t, 1, 0) = <<>>
    BY SubSeqEmpty
  <2>2. QED BY <1>1, <1>3, <2>1 DEF IsPrefix
<1>4. CASE Len(s) > 0
  <2>1. SubSeq(s \o t, 1, Len(s)) = SubSeq(s, 1, Len(s))
    <3>1. 1 \in 1 .. Len(s) /\ Len(s) \in 1 .. Len(s)
      BY <1>1, <1>4
    <3>2. QED BY <3>1, SubSeqOfConcat1
  <2>2. QED BY <1>1, <2>1 DEF IsPrefix
<1>5. QED BY <1>1, <1>3, <1>4

LEMMA ReverseIs ==
    ASSUME NEW s \in Seq(Byte)
    PROVE  /\ Reverse(s) \in Seq(Byte) /\ Len(Reverse(s)) = Len(s)
           /\ \A i \in 1 .. Len(s) : Reverse(s)[i] = s[Len(s) - i + 1]
<1>1. Len(s) \in Nat
  BY LenProperties
<1>2. \A i \in 1 .. Len(s) : s[Len(s) - i + 1] \in Byte
  <2>1. \A i \in 1 .. Len(s) : Len(s) - i + 1 \in 1 .. Len(s)
    BY <1>1
  <2>2. QED BY <2>1, ElementOfSeq
<1>3. QED BY <1>1, <1>2 DEF Reverse

LEMMA EndOf ==
    ASSUME NEW s \in Seq(Byte), NEW t \in Seq(Byte)
    PROVE  IsSuffix(t, s \o t)
<1> DEFINE st == s \o t
           m == Len(s)
           n == Len(t)
<1>1. /\ m \in Nat /\ n \in Nat /\ st \in Seq(Byte) /\ Len(st) = m + n
      /\ \A i \in 1 .. m + n : st[i] = IF i <= m THEN s[i] ELSE t[i - m]
  BY LenProperties, ConcatProperties
<1> HIDE DEF st
<1>2. /\ Reverse(t) \in Seq(Byte) /\ Len(Reverse(t)) = n
      /\ \A i \in 1 .. n : Reverse(t)[i] = t[n - i + 1]
  BY ReverseIs
<1>3. /\ Reverse(st) \in Seq(Byte) /\ Len(Reverse(st)) = m + n
      /\ \A i \in 1 .. m + n : Reverse(st)[i] = st[(m + n) - i + 1]
  <2>1. /\ Reverse(st) \in Seq(Byte) /\ Len(Reverse(st)) = Len(st)
        /\ \A i \in 1 .. Len(st) : Reverse(st)[i] = st[Len(st) - i + 1]
    BY <1>1, ReverseIs
  <2>2. Len(st) = m + n
    BY <1>1
  <2> HIDE DEF m, n
  <2>3. QED BY <2>1, <2>2
<1> DEFINE front == SubSeq(Reverse(st), 1, n)
<1>4. /\ front \in Seq(Byte) /\ Len(front) = n
      /\ \A i \in 1 .. n : front[i] = Reverse(st)[i]
  <2> DEFINE r == Reverse(st)
  <2>1. r \in Seq(Byte) /\ Len(r) = m + n
    BY <1>3
  <2> HIDE DEF r, m, n
  <2>2. \A i \in 1 .. n : r[i] \in Byte
    BY <1>1, <2>1, ElementOfSeq
  <2>3. QED
    <3>1. /\ SubSeq(r, 1, n) \in Seq(Byte)
          /\ Len(SubSeq(r, 1, n)) = IF 1 <= n THEN n - 1 + 1 ELSE 0
          /\ \A i \in 1 .. n - 1 + 1 : SubSeq(r, 1, n)[i] = r[1 + i - 1]
      BY <1>1, <2>2, SubSeqProperties
    <3>2. QED BY <1>1, <3>1 DEF r
<1>5. ASSUME NEW i \in 1 .. n PROVE front[i] = Reverse(t)[i]
  <2> HIDE DEF front, m, n
  <2>1. /\ i \in 1 .. m + n /\ (m + n) - i + 1 \in 1 .. m + n
        /\ ~((m + n) - i + 1 <= m) /\ ((m + n) - i + 1) - m = n - i + 1
    <3>1. m \in Nat /\ n \in Nat /\ i \in Nat /\ 1 <= i /\ i <= n
      BY <1>1
    <3>2. QED BY <3>1
  <2>2. front[i] = st[(m + n) - i + 1]
    BY <1>3, <1>4, <2>1
  <2>3. st[(m + n) - i + 1] = t[n - i + 1]
    BY <1>1, <2>1
  <2>4. QED BY <1>2, <2>2, <2>3
<1>6. front = Reverse(t)
  BY <1>2, <1>4, <1>5, SeqEqual
<1>7. SubSeq(Reverse(t), 1, n) = Reverse(t)
  BY <1>2, SubSeqFull
<1>8. Len(Reverse(t)) <= Len(Reverse(st))
  BY <1>1, <1>2, <1>3
<1>9. IsPrefix(Reverse(t), Reverse(st))
  BY <1>2, <1>6, <1>7, <1>8 DEF IsPrefix
<1>10. QED BY <1>9 DEF IsSuffix, st

-----------------------------------------------------------------------------
(* The streams.                                                            *)

(* What the client has not sent is what is missing of the request.         *)
UpOK ==
    /\ BufferOK(req, Byte)
    /\ arrived.up \o wire.up \o Unread(req) = Request
    /\ client \in {"read", "suspended"} => Readable(req) = 0

(* What the server has not sent is what is missing of its answer.  Of a    *)
(* CString out bytes are sent, unless some were sent again.                *)
DownOK ==
    IF setting.writes = "CString"
    THEN /\ out \in Nat
         /\ ~resent => /\ out <= Len(Answer)
                       /\ arrived.down \o wire.down = SubSeq(Answer, 1, out)
         /\ server = "sent" => out >= Len(Answer)
    ELSE /\ BufferOK(out, Byte)
         /\ arrived.down \o wire.down \o Unread(out) = Answer
         /\ server = "sent" => Readable(out) = 0

BytesOK ==
    /\ setting \in Settings
    /\ DOMAIN wire = {"up", "down"} /\ DOMAIN arrived = {"up", "down"}
    /\ wire.up \in Seq(Byte) /\ wire.down \in Seq(Byte)
    /\ arrived.up \in Seq(Byte) /\ arrived.down \in Seq(Byte)

StreamsOK == BytesOK /\ UpOK /\ DownOK

(* send takes no more than it is given.                                    *)
LEMMA TakesSome ==
    ASSUME NEW w \in Seq(Byte), NEW n \in Nat, NEW k \in Takes(w, n)
    PROVE  k \in 0 .. n
<1>1. Room \in Int /\ Len(w) \in Int
  BY ExchangeAssumption, LenProperties
<1>2. CASE setting.tls
  BY <1>2 DEF Takes
<1>3. CASE ~setting.tls
  <2>1. k \in 1 .. Min({n, Room - Len(w)})
    BY <1>3 DEF Takes
  <2>2. Min({n, Room - Len(w)}) = IF n <= Room - Len(w) THEN n ELSE Room - Len(w)
    BY <1>1, MinOfTwo
  <2>3. QED BY <1>1, <2>1, <2>2
<1>4. QED BY <1>2, <1>3

LEMMA StreamsInit == Init => StreamsOK
<1> SUFFICES ASSUME Init PROVE StreamsOK
  OBVIOUS
<1>1. /\ setting \in Settings /\ wire = [up |-> <<>>, down |-> <<>>]
      /\ arrived = [up |-> <<>>, down |-> <<>>] /\ client = "connect"
      /\ server = "accept" /\ resent = FALSE
  BY DEF Init
<1>2. <<>> \in Seq(Byte) /\ Request \in Seq(Byte) /\ Answer \in Seq(Byte)
  BY <1>1, Given, EmptySeq DEF Answer
<1>3. BytesOK
  BY <1>1, <1>2 DEF BytesOK
<1>4. <<>> \o <<>> = <<>> /\ <<>> \o Request = Request /\ <<>> \o Answer = Answer
  BY <1>2, ConcatEmptySeq
<1>5. UpOK
  <2>1. req = AppendBytes(NewBuffer(InitialCapacity), Request)
    BY DEF Init
  <2>2. BufferOK(req, Byte) /\ Unread(req) = Request
    BY <1>2, <2>1, NewHolds, Given, BufferAssumption
  <2>3. QED BY <1>1, <1>4, <2>2 DEF UpOK
<1>6. DownOK
  <2>1. CASE setting.writes = "CString"
    <3>1. out = 0
      BY <2>1 DEF Init
    <3>2. SubSeq(Answer, 1, 0) = <<>>
      BY SubSeqEmpty
    <3>3. 0 <= Len(Answer)
      BY <1>2, LenProperties
    <3>4. QED BY <1>1, <1>4, <2>1, <3>1, <3>2, <3>3 DEF DownOK
  <2>2. CASE setting.writes # "CString"
    <3>1. out = AppendBytes(NewBuffer(InitialCapacity), Answer)
      BY <2>2 DEF Init
    <3>2. BufferOK(out, Byte) /\ Unread(out) = Answer
      BY <1>2, <3>1, NewHolds, Given, BufferAssumption
    <3>3. QED BY <1>1, <1>4, <2>2, <3>2 DEF DownOK
  <2>3. QED BY <2>1, <2>2
<1>7. QED BY <1>3, <1>5, <1>6 DEF StreamsOK

(* A step that moves no byte.                                              *)
LEMMA StillStreams ==
    ASSUME StreamsOK, UNCHANGED <<setting, bytes, req, out, resent>>,
           client' \in {"read", "suspended"} => client \in {"read", "suspended"},
           server' = "sent" => server = "sent"
    PROVE  StreamsOK'
<1>1. UNCHANGED <<setting, wire, arrived, req, out, resent>>
  BY DEF bytes
<1>2. BytesOK'
  BY <1>1 DEF StreamsOK, BytesOK
<1>3. UpOK'
  BY <1>1 DEF StreamsOK, UpOK
<1>4. DownOK'
  <2>1. DownOK /\ Answer' = Answer
    BY <1>1 DEF StreamsOK, Answer
  <2>2. CASE setting.writes = "CString"
    <3>1. /\ out \in Nat
          /\ ~resent => /\ out <= Len(Answer)
                        /\ arrived.down \o wire.down = SubSeq(Answer, 1, out)
          /\ server' = "sent" => out >= Len(Answer)
      BY <2>1, <2>2 DEF DownOK
    <3>2. ~resent' => ~resent
      BY <1>1
    <3>3. QED BY <1>1, <2>1, <2>2, <3>1, <3>2 DEF DownOK
  <2>3. CASE setting.writes # "CString"
    BY <1>1, <2>1, <2>3 DEF DownOK
  <2>4. QED BY <2>2, <2>3
<1>5. QED BY <1>2, <1>3, <1>4 DEF StreamsOK

LEMMA StreamsWrite == StreamsOK /\ ClientWrite => StreamsOK'
<1> SUFFICES ASSUME StreamsOK, ClientWrite PROVE StreamsOK'
  OBVIOUS
<1> USE DEF StreamsOK
<1>1. PICK k : /\ k \in Takes(wire.up, Readable(req))
               /\ wire' = [wire EXCEPT !.up = @ \o Bytes(req, k)]
               /\ req' = Retrieve(req, k)
               /\ client' = IF Readable(req') = 0 THEN "read" ELSE "write"
  BY DEF ClientWrite
<1>2. UNCHANGED <<setting, arrived, server, out, resent>>
  BY DEF ClientWrite, serverVars
<1>3. Readable(req) \in Nat
  BY UnreadIs DEF UpOK
<1>4. k \in 0 .. Readable(req)
  BY <1>1, <1>3, TakesSome DEF BytesOK
<1>5. /\ BufferOK(req', Byte)
      /\ Bytes(req, k) \o Unread(req') = Unread(req)
  BY <1>1, <1>4, RetrieveSplits DEF UpOK
<1>6. Bytes(req, k) \in Seq(Byte)
  BY <1>4, BytesAre DEF UpOK
<1>7. wire'.up = wire.up \o Bytes(req, k) /\ wire'.down = wire.down
      /\ DOMAIN wire' = {"up", "down"}
  BY <1>1 DEF BytesOK
<1>8. wire'.up \in Seq(Byte)
  BY <1>6, <1>7, ConcatProperties DEF BytesOK
<1>9. BytesOK'
  BY <1>2, <1>7, <1>8 DEF BytesOK
<1>10. UpOK'
  <2> DEFINE a == arrived.up
             w == wire.up
             s == Bytes(req, k)
             u == Unread(req')
  <2>1. a \in Seq(Byte) /\ w \in Seq(Byte) /\ s \in Seq(Byte) /\ u \in Seq(Byte)
    BY <1>5, <1>6, UnreadIs DEF BytesOK
  <2>2. a \o w \o (s \o u) = Request
    BY <1>5 DEF UpOK
  <2> HIDE DEF a, w, s, u
  <2>3. a \o w \in Seq(Byte)
    BY <2>1, ConcatProperties
  <2>4. (a \o w \o s) \o u = a \o w \o (s \o u)
    BY <2>1, <2>3, Regroup
  <2>5. a \o (w \o s) = a \o w \o s
    BY <2>1, Regroup
  <2>6. a \o (w \o s) \o u = Request
    BY <2>2, <2>4, <2>5
  <2>7. arrived'.up \o wire'.up \o Unread(req') = Request
    BY <1>2, <1>7, <2>6 DEF a, w, s, u
  <2>8. QED BY <1>1, <1>5, <2>7 DEF UpOK
<1>11. DownOK'
  BY <1>2, <1>7 DEF DownOK, Answer
<1>12. QED BY <1>9, <1>10, <1>11

LEMMA StreamsRecv == StreamsOK /\ ClientRecv => StreamsOK'
<1> SUFFICES ASSUME StreamsOK, ClientRecv PROVE StreamsOK'
  OBVIOUS
<1> USE DEF StreamsOK
<1>1. PICK k \in 1 .. Min({ReadSize, Len(wire.down)}) :
          /\ wire' = [wire EXCEPT !.down = SubSeq(@, k + 1, Len(@))]
          /\ arrived' = [arrived EXCEPT !.down = @ \o SubSeq(wire.down, 1, k)]
  BY DEF ClientRecv
<1>2. UNCHANGED <<setting, server, req, out, resent>> /\ client = "read"
  BY DEF ClientRecv, serverVars
<1> DEFINE w == wire.down
           got == SubSeq(w, 1, k)
           rest == SubSeq(w, k + 1, Len(w))
<1>3. k \in 1 .. Len(w)
  <2>1. ReadSize \in Int /\ Len(w) \in Int
    BY ExchangeAssumption, LenProperties DEF BytesOK
  <2>2. Min({ReadSize, Len(w)}) = IF ReadSize <= Len(w) THEN ReadSize ELSE Len(w)
    BY <2>1, MinOfTwo
  <2>3. QED BY <2>1, <2>2
<1>4. /\ got \in Seq(Byte) /\ rest \in Seq(Byte) /\ w \in Seq(Byte)
      /\ arrived.down \in Seq(Byte) /\ got \o rest = w
  <2>1. w \in Seq(Byte) /\ Len(w) \in Nat
    BY LenProperties DEF BytesOK
  <2>2. (\A i \in 1 .. k : w[i] \in Byte) /\ (\A i \in k + 1 .. Len(w) : w[i] \in Byte)
    BY <1>3, <2>1, ElementOfSeq
  <2>3. got \in Seq(Byte) /\ rest \in Seq(Byte)
    BY <1>3, <2>1, <2>2, SubSeqProperties
  <2>4. got \o rest = SubSeq(w, 1, Len(w))
    <3>1. 1 \in 1 .. Len(w) + 1 /\ k \in 1 - 1 .. Len(w) /\ Len(w) \in k .. Len(w)
      BY <1>3, <2>1
    <3>2. QED BY <2>1, <3>1, ConcatAdjacentSubSeq
  <2>5. SubSeq(w, 1, Len(w)) = w
    BY <2>1, SubSeqFull
  <2>6. QED BY <2>1, <2>3, <2>4, <2>5 DEF BytesOK
<1>5. /\ wire'.down = rest /\ wire'.up = wire.up /\ DOMAIN wire' = {"up", "down"}
      /\ arrived'.down = arrived.down \o got /\ arrived'.up = arrived.up
      /\ DOMAIN arrived' = {"up", "down"}
  BY <1>1 DEF BytesOK
<1>6. BytesOK'
  BY <1>2, <1>4, <1>5, ConcatProperties DEF BytesOK
<1>7. UpOK'
  BY <1>2, <1>5 DEF UpOK
<1>8. arrived'.down \o wire'.down = arrived.down \o wire.down
  <2> DEFINE a == arrived.down
  <2>1. a \in Seq(Byte)
    BY <1>4
  <2>2. got \in Seq(Byte) /\ rest \in Seq(Byte)
    BY <1>4
  <2> HIDE DEF got, rest, w, a
  <2>3. (a \o got) \o rest = a \o (got \o rest)
    BY <2>1, <2>2, Regroup
  <2>4. QED BY <1>4, <1>5, <2>3 DEF a, w
<1>9. DownOK'
  <2>1. Answer' = Answer
    BY <1>2 DEF Answer
  <2>2. CASE setting.writes = "CString"
    BY <1>2, <1>8, <2>1, <2>2 DEF DownOK
  <2>3. CASE setting.writes # "CString"
    BY <1>2, <1>8, <2>1, <2>3 DEF DownOK
  <2>4. QED BY <2>2, <2>3
<1>10. QED BY <1>6, <1>7, <1>9

LEMMA StreamsServerRead == StreamsOK /\ ServerRead => StreamsOK'
<1> SUFFICES ASSUME StreamsOK, ServerRead PROVE StreamsOK'
  OBVIOUS
<1> USE DEF StreamsOK
<1>1. /\ wire' = [wire EXCEPT !.up = <<>>]
      /\ arrived' = [arrived EXCEPT !.up = @ \o wire.up]
      /\ UNCHANGED <<setting, client, req, out, resent>>
      /\ server' # "sent"
  BY DEF ServerRead
<1>2. /\ wire'.down = wire.down /\ wire'.up = <<>> /\ DOMAIN wire' = {"up", "down"}
      /\ arrived'.down = arrived.down /\ arrived'.up = arrived.up \o wire.up
      /\ DOMAIN arrived' = {"up", "down"}
  BY <1>1 DEF BytesOK
<1>3. <<>> \in Seq(Byte) /\ arrived.up \o wire.up \in Seq(Byte)
      /\ arrived'.up \o <<>> = arrived'.up
  BY <1>2, EmptySeq, ConcatProperties, ConcatEmptySeq DEF BytesOK
<1>4. BytesOK'
  BY <1>1, <1>2, <1>3 DEF BytesOK
<1>5. UpOK'
  BY <1>1, <1>2, <1>3 DEF UpOK
<1>6. DownOK'
  <2>1. Answer' = Answer
    BY <1>1 DEF Answer
  <2>2. CASE setting.writes = "CString"
    BY <1>1, <1>2, <2>1, <2>2 DEF DownOK
  <2>3. CASE setting.writes # "CString"
    BY <1>1, <1>2, <2>1, <2>3 DEF DownOK
  <2>4. QED BY <2>2, <2>3
<1>7. QED BY <1>4, <1>5, <1>6

LEMMA StreamsWriteBuffer == StreamsOK /\ ServerWriteBuffer => StreamsOK'
<1> SUFFICES ASSUME StreamsOK, ServerWriteBuffer PROVE StreamsOK'
  OBVIOUS
<1> USE DEF StreamsOK
<1>1. PICK k : /\ k \in Takes(wire.down, Readable(out))
               /\ wire' = [wire EXCEPT !.down = @ \o Bytes(out, k)]
               /\ out' = Retrieve(out, k)
  BY DEF ServerWriteBuffer, ServerSends
<1>2. /\ UNCHANGED <<setting, client, arrived, req, resent>>
      /\ setting.writes # "CString"
      /\ server' = IF Readable(out') = 0 THEN "sent" ELSE "write"
  BY DEF ServerWriteBuffer
<1>3. BufferOK(out, Byte) /\ arrived.down \o wire.down \o Unread(out) = Answer
  BY <1>2 DEF DownOK
<1>4. k \in 0 .. Readable(out)
  <2>1. Readable(out) \in Nat
    BY <1>3, UnreadIs
  <2>2. QED BY <1>1, <2>1, TakesSome DEF BytesOK
<1>5. /\ BufferOK(out', Byte) /\ Bytes(out, k) \o Unread(out') = Unread(out)
      /\ Bytes(out, k) \in Seq(Byte)
  BY <1>1, <1>3, <1>4, RetrieveSplits, BytesAre
<1>6. wire'.down = wire.down \o Bytes(out, k) /\ wire'.up = wire.up
      /\ DOMAIN wire' = {"up", "down"}
  BY <1>1 DEF BytesOK
<1>7. BytesOK'
  <2>1. wire'.down \in Seq(Byte)
    BY <1>5, <1>6, ConcatProperties DEF BytesOK
  <2>2. QED BY <1>2, <1>6, <2>1 DEF BytesOK
<1>8. UpOK'
  BY <1>2, <1>6 DEF UpOK
<1>9. DownOK'
  <2> DEFINE a == arrived.down
             w == wire.down
             s == Bytes(out, k)
             u == Unread(out')
  <2>1. a \in Seq(Byte) /\ w \in Seq(Byte) /\ s \in Seq(Byte) /\ u \in Seq(Byte)
    BY <1>5, UnreadIs DEF BytesOK
  <2>2. a \o w \o (s \o u) = Answer
    BY <1>3, <1>5
  <2> HIDE DEF a, w, s, u
  <2>3. a \o w \in Seq(Byte)
    BY <2>1, ConcatProperties
  <2>4. (a \o w \o s) \o u = a \o w \o (s \o u)
    BY <2>1, <2>3, Regroup
  <2>5. a \o (w \o s) = a \o w \o s
    BY <2>1, Regroup
  <2>6. a \o (w \o s) \o u = Answer
    BY <2>2, <2>4, <2>5
  <2>7. arrived'.down \o wire'.down \o Unread(out') = Answer'
    BY <1>2, <1>6, <2>6 DEF a, w, s, u, Answer
  <2>8. QED BY <1>2, <1>5, <2>7 DEF DownOK
<1>10. QED BY <1>7, <1>8, <1>9

LEMMA StreamsWriteCString == StreamsOK /\ ServerWriteCString => StreamsOK'
<1> SUFFICES ASSUME StreamsOK, ServerWriteCString PROVE StreamsOK'
  OBVIOUS
<1> USE DEF StreamsOK
<1>1. PICK k : /\ k \in Takes(wire.down, Len(Answer))
               /\ wire' = [wire EXCEPT !.down = @ \o SubSeq(Answer, 1, k)]
               /\ out' = out + k
  BY DEF ServerWriteCString, ServerSends
<1>2. /\ UNCHANGED <<setting, client, arrived, req>>
      /\ setting.writes = "CString"
      /\ resent' = (resent \/ out > 0)
      /\ server' = IF out' >= Len(Answer) THEN "sent" ELSE "write"
  BY DEF ServerWriteCString
<1>3. Answer \in Seq(Byte) /\ Len(Answer) \in Nat /\ Answer' = Answer
  BY <1>2, Given, LenProperties DEF Answer, BytesOK
<1>4. k \in 0 .. Len(Answer)
  BY <1>1, <1>3, TakesSome DEF BytesOK
<1>5. SubSeq(Answer, 1, k) \in Seq(Byte)
  <2>1. \A i \in 1 .. k : Answer[i] \in Byte
    BY <1>3, <1>4, ElementOfSeq
  <2>2. QED BY <1>4, <2>1, SubSeqProperties
<1>6. wire'.down = wire.down \o SubSeq(Answer, 1, k) /\ wire'.up = wire.up
      /\ DOMAIN wire' = {"up", "down"}
  BY <1>1 DEF BytesOK
<1>7. BytesOK'
  <2>1. wire'.down \in Seq(Byte)
    BY <1>5, <1>6, ConcatProperties DEF BytesOK
  <2>2. QED BY <1>2, <1>6, <2>1 DEF BytesOK
<1>8. UpOK'
  BY <1>2, <1>6 DEF UpOK
<1>9. out \in Nat /\ out' \in Nat
  BY <1>1, <1>2, <1>4 DEF DownOK
<1>10. ASSUME ~resent'
       PROVE  out' <= Len(Answer)
              /\ arrived'.down \o wire'.down = SubSeq(Answer, 1, out')
  <2>1. ~resent /\ out = 0 /\ out' = k
    <3>1. ~resent /\ ~(out > 0)
      <4>1. ~(resent \/ out > 0)
        BY <1>2, <1>10
      <4>2. QED BY <4>1
    <3>2. QED BY <1>1, <1>4, <1>9, <3>1
  <2>2. arrived.down \o wire.down = <<>>
    <3>1. SubSeq(Answer, 1, 0) = <<>>
      BY SubSeqEmpty
    <3>2. QED BY <1>2, <2>1, <3>1 DEF DownOK
  <2>3. arrived.down \o (wire.down \o SubSeq(Answer, 1, k))
            = (arrived.down \o wire.down) \o SubSeq(Answer, 1, k)
    <3> DEFINE a == arrived.down
               w == wire.down
               part == SubSeq(Answer, 1, k)
    <3>1. a \in Seq(Byte) /\ w \in Seq(Byte) /\ part \in Seq(Byte)
      BY <1>5 DEF BytesOK
    <3> HIDE DEF a, w, part
    <3>2. (a \o w) \o part = a \o (w \o part)
      BY <3>1, Regroup
    <3>3. QED BY <3>2 DEF a, w, part
  <2>4. <<>> \o SubSeq(Answer, 1, k) = SubSeq(Answer, 1, k)
    BY <1>5, ConcatEmptySeq
  <2>5. out' <= Len(Answer)
    BY <1>3, <1>4, <2>1
  <2>6. arrived'.down \o wire'.down = arrived.down \o (wire.down \o SubSeq(Answer, 1, k))
    BY <1>2, <1>6
  <2>7. SubSeq(Answer, 1, out') = SubSeq(Answer, 1, k)
    BY <2>1
  <2>8. arrived'.down \o wire'.down = SubSeq(Answer, 1, out')
    BY <2>2, <2>3, <2>4, <2>6, <2>7, Zenon
  <2>9. QED BY <2>5, <2>8
<1>11. DownOK'
  BY <1>2, <1>3, <1>9, <1>10 DEF DownOK
<1>12. QED BY <1>7, <1>8, <1>11

LEMMA StreamsNext == StreamsOK /\ [Next]_vars => StreamsOK'
<1> SUFFICES ASSUME StreamsOK, [Next]_vars PROVE StreamsOK'
  OBVIOUS
<1>1. CASE UNCHANGED vars
  BY <1>1, StillStreams DEF vars, bytes
<1>2. CASE Connect
  BY <1>2, StillStreams DEF Connect, bytes
<1>3. CASE ClientHandshake
  BY <1>3, StillStreams DEF ClientHandshake, serverVars
<1>4. CASE ClientWrite
  BY <1>4, StreamsWrite
<1>5. CASE ClientError
  BY <1>5, StillStreams DEF ClientError, ClientGoes, serverVars
<1>6. CASE ClientRecv
  BY <1>6, StreamsRecv
<1>7. CASE ClientSuspend
  BY <1>7, StillStreams DEF ClientSuspend, serverVars
<1>8. CASE ClientResume
  BY <1>8, StillStreams DEF ClientResume, serverVars
<1>9. CASE ClientEof
  BY <1>9, StillStreams DEF ClientEof, ClientGoes, serverVars
<1>10. CASE Visit
  BY <1>10, StillStreams DEF Visit
<1>11. CASE Accept
  BY <1>11, StillStreams DEF Accept
<1>12. CASE ServerHandshake
  BY <1>12, StillStreams DEF ServerHandshake
<1>13. CASE ServerRead
  BY <1>13, StreamsServerRead
<1>14. CASE ServerWriteBuffer
  BY <1>14, StreamsWriteBuffer
<1>15. CASE ServerWriteCString
  BY <1>15, StreamsWriteCString
<1>16. CASE ServerError
  BY <1>16, StillStreams DEF ServerError
<1>17. CASE ServerClose
  BY <1>17, StillStreams DEF ServerClose
<1>18. QED
  BY <1>1, <1>2, <1>3, <1>4, <1>5, <1>6, <1>7, <1>8, <1>9, <1>10, <1>11, <1>12,
     <1>13, <1>14, <1>15, <1>16, <1>17 DEF Next, ClientStep, ServerStep

LEMMA StreamsImply == StreamsOK => StreamsAreExact
<1> SUFFICES ASSUME StreamsOK PROVE StreamsAreExact
  OBVIOUS
<1> USE DEF StreamsOK
<1> DEFINE up == arrived.up \o wire.up
           down == arrived.down \o wire.down
<1>1. /\ up \in Seq(Byte) /\ down \in Seq(Byte)
      /\ Answer \in Seq(Byte) /\ Len(Answer) \in Nat
  BY Given, ConcatProperties, LenProperties DEF BytesOK, Answer
<1> HIDE DEF up, down
<1>2. BufferOK(req, Byte) /\ up \o Unread(req) = Request /\ Unread(req) \in Seq(Byte)
  BY UnreadIs DEF UpOK, up
<1>3. IsPrefix(up, Request)
  BY <1>1, <1>2, BeginningOf
<1>4. client \in {"read", "suspended"} => up = Request
  <2>1. SUFFICES ASSUME client \in {"read", "suspended"} PROVE up = Request
    OBVIOUS
  <2>2. Unread(req) = <<>>
    BY <1>2, <2>1, UnreadIs, EmptySeq DEF UpOK
  <2>3. QED BY <1>1, <1>2, <2>2, ConcatEmptySeq
<1>5. /\ ~resent => IsPrefix(down, Answer)
      /\ ~resent /\ server = "sent" => down = Answer
  <2>1. CASE setting.writes = "CString" /\ ~resent
    <3>1. /\ out \in Nat /\ out <= Len(Answer) /\ down = SubSeq(Answer, 1, out)
          /\ server = "sent" => out >= Len(Answer)
      BY <2>1 DEF DownOK, down
    <3> DEFINE rest == SubSeq(Answer, out + 1, Len(Answer))
    <3>2. rest \in Seq(Byte)
      <4>1. \A i \in out + 1 .. Len(Answer) : Answer[i] \in Byte
        BY <1>1, <3>1, ElementOfSeq
      <4>2. QED BY <1>1, <3>1, <4>1, SubSeqProperties
    <3>3. SubSeq(Answer, 1, Len(Answer)) = Answer
      BY <1>1, SubSeqFull
    <3>4. down \o rest = Answer
      <4>1. /\ 1 \in 1 .. Len(Answer) + 1 /\ out \in 1 - 1 .. Len(Answer)
            /\ Len(Answer) \in out .. Len(Answer)
        BY <1>1, <3>1
      <4>2. SubSeq(Answer, 1, out) \o SubSeq(Answer, out + 1, Len(Answer))
                = SubSeq(Answer, 1, Len(Answer))
        BY <1>1, <4>1, ConcatAdjacentSubSeq
      <4>3. QED BY <3>1, <3>3, <4>2
    <3>5. IsPrefix(down, Answer)
      <4> HIDE DEF rest
      <4>1. QED BY <1>1, <3>2, <3>4, BeginningOf
    <3>6. server = "sent" => out = Len(Answer)
      BY <1>1, <3>1
    <3>7. QED BY <3>1, <3>3, <3>5, <3>6
  <2>2. CASE setting.writes # "CString"
    <3>1. /\ BufferOK(out, Byte) /\ down \o Unread(out) = Answer
          /\ server = "sent" => Readable(out) = 0
      BY <2>2 DEF DownOK, down
    <3>2. Unread(out) \in Seq(Byte)
      BY <3>1, UnreadIs
    <3>3. IsPrefix(down, Answer)
      BY <1>1, <3>1, <3>2, BeginningOf
    <3>4. ASSUME server = "sent" PROVE down = Answer
      <4>1. Unread(out) = <<>>
        BY <3>1, <3>4, UnreadIs, EmptySeq
      <4>2. QED BY <1>1, <3>1, <4>1, ConcatEmptySeq
    <3>5. QED BY <3>3, <3>4
  <2>3. QED BY <2>1, <2>2
<1>6. QED BY <1>3, <1>4, <1>5 DEF StreamsAreExact, up, down

(* For every request, every answer and any cut of them: what arrives is    *)
(* what was written, in order, once, and whole when write has returned.    *)
THEOREM StreamsExact == Spec => []StreamsAreExact
<1>1. Init => StreamsOK
  BY StreamsInit
<1>2. StreamsOK /\ [Next]_vars => StreamsOK'
  BY StreamsNext
<1>3. StreamsOK => StreamsAreExact
  BY StreamsImply
<1>4. QED BY <1>1, <1>2, <1>3, PTL DEF Spec

-----------------------------------------------------------------------------
(* The parser takes bytes from the front of its buffer and nowhere else.   *)

ParserOK(q) ==
    /\ DOMAIN q = {"expect", "chunks", "headers", "body", "buf", "verdict", "cut"}
    /\ BufferOK(q.buf, Byte)

Leaves(b, c) ==
    BufferOK(c, Byte) /\ \E u \in Seq(Byte) : Unread(b) = u \o Unread(c)

(* One part of the parser: what it makes of the parser p.                  *)
TakesFront(p, q) == ParserOK(q) /\ Leaves(p.buf, q.buf)

LEMMA LeavesAll ==
    ASSUME NEW b, BufferOK(b, Byte)
    PROVE  Leaves(b, b)
<1>1. <<>> \in Seq(Byte) /\ Unread(b) = <<>> \o Unread(b)
  BY UnreadIs, EmptySeq, ConcatEmptySeq
<1>2. QED BY <1>1 DEF Leaves

LEMMA LeavesRetrieved ==
    ASSUME NEW b, BufferOK(b, Byte), NEW n \in Int
    PROVE  Leaves(b, Retrieve(b, n))
  BY RetrieveLeaves DEF Leaves

LEMMA LeavesTwice ==
    ASSUME NEW b, NEW c, NEW d, Leaves(b, c), Leaves(c, d)
    PROVE  Leaves(b, d)
<1>1. PICK u \in Seq(Byte) : Unread(b) = u \o Unread(c)
  BY DEF Leaves
<1>2. PICK v \in Seq(Byte) : Unread(c) = v \o Unread(d)
  BY DEF Leaves
<1>3. BufferOK(d, Byte) /\ Unread(d) \in Seq(Byte)
  BY UnreadIs DEF Leaves
<1>4. u \o v \in Seq(Byte)
  BY <1>1, <1>2, ConcatProperties
<1>5. (u \o v) \o Unread(d) = u \o (v \o Unread(d))
  BY <1>1, <1>2, <1>3, Regroup
<1>6. Unread(b) = (u \o v) \o Unread(d)
  BY <1>1, <1>2, <1>5
<1>7. QED BY <1>3, <1>4, <1>6 DEF Leaves

LEMMA FindIs ==
    ASSUME NEW b, BufferOK(b, Byte)
    PROVE  Find(b, CrLf, 0) \in Int
<1> DEFINE n == Len(CrLf)
           places == {i \in 0 .. Readable(b) - n - 1 :
                        \A j \in 1 .. n : b.mem[b.r + i + j] = CrLf[j]}
<1>1. Readable(b) \in Nat /\ n \in Nat
  BY UnreadIs DEF CrLf
<1>2. Find(b, CrLf, 0) = IF places = {} THEN -1 ELSE Min(places)
  BY DEF Find
<1>3. places \subseteq Nat
  BY <1>1
<1> HIDE DEF places
<1>4. CASE places = {}
  BY <1>2, <1>4
<1>5. CASE places # {}
  <2>1. Min(places) \in places
    BY <1>3, <1>5, MinIs
  <2>2. Min(places) \in Int
    <3>1. Min(places) \in Nat
      BY <1>3, <2>1, Zenon
    <3>2. QED BY <3>1
  <2>3. QED BY <1>2, <1>5, <2>2
<1>6. QED BY <1>4, <1>5

LEMMA StatusTakesFront ==
    ASSUME NEW q, ParserOK(q)
    PROVE  TakesFront(q, ParseStatusLine(q))
<1> DEFINE i == Find(q.buf, CrLf, 0)
           line == Bytes(q.buf, i)
           p == [q EXCEPT !.buf = Retrieve(q.buf, i + 2)]
           result == ParseStatusLine(q)
<1>1. BufferOK(q.buf, Byte) /\ i + 2 \in Int
  BY FindIs DEF ParserOK
<1>2. Leaves(q.buf, q.buf) /\ Leaves(q.buf, Retrieve(q.buf, i + 2))
  BY <1>1, LeavesAll, LeavesRetrieved
<1>3. \/ result = q
      \/ result = [q EXCEPT !.verdict = "more"]
      \/ result = [p EXCEPT !.expect = "header"]
      \/ result = [p EXCEPT !.verdict = "throw"]
  BY DEF ParseStatusLine, TakeLine, StatusLine
<1>4. p.buf = Retrieve(q.buf, i + 2) /\ DOMAIN p = DOMAIN q
  BY DEF ParserOK
<1> HIDE DEF result, p, i
<1>5. result.buf \in {q.buf, Retrieve(q.buf, i + 2)} /\ DOMAIN result = DOMAIN q
  BY <1>3, <1>4 DEF ParserOK
<1>6. Leaves(q.buf, result.buf)
  BY <1>2, <1>5
<1>7. QED BY <1>5, <1>6 DEF TakesFront, ParserOK, Leaves, result

LEMMA HeaderTakesFront ==
    ASSUME NEW q, ParserOK(q)
    PROVE  TakesFront(q, ParseHeader(q))
<1> DEFINE u == Unread(q.buf)
           ends == {i \in 0 .. Len(u) - 3 : SubSeq(u, i + 1, i + 2) = CrLf}
           empty == {i \in ends : i = 0 \/ i - 2 \in ends}
           size == IF empty # {} THEN Min(empty) + 2
                   ELSE IF ends # {} THEN Max(ends) + 2 ELSE 0
           result == ParseHeader(q)
<1>1. BufferOK(q.buf, Byte) /\ Len(u) \in Nat
  BY UnreadIs DEF ParserOK
<1>2. size \in Int
  <2>1. ends \subseteq 0 .. Len(u) /\ empty \subseteq ends
    BY <1>1
  <2> HIDE DEF ends, empty, u
  <2>2. ASSUME empty # {} PROVE Min(empty) \in Int
    <3>1. empty \subseteq Nat
      BY <2>1
    <3>2. Min(empty) \in empty
      BY <2>2, <3>1, MinIs
    <3>3. Min(empty) \in Nat
      BY <3>1, <3>2, Zenon
    <3>4. QED BY <3>3
  <2>3. ASSUME ends # {} PROVE Max(ends) \in Int
    <3>1. Max(ends) \in ends
      BY <1>1, <2>1, <2>3, MaxIs
    <3>2. Max(ends) \in 0 .. Len(u)
      BY <2>1, <3>1, Zenon
    <3>3. QED BY <3>2
  <2>4. QED BY <2>2, <2>3
<1>3. \/ result = q
      \/ result = [q EXCEPT !.verdict = "throw"]
      \/ \E h, e : result = [q EXCEPT !.buf = Retrieve(q.buf, size),
                                   !.headers = h, !.expect = e]
  <2> HIDE DEF size, ends, empty, u
  <2>1. QED BY DEF ParseHeader, size, ends, empty, u
<1> HIDE DEF size, result
<1>4. Leaves(q.buf, q.buf) /\ Leaves(q.buf, Retrieve(q.buf, size))
  BY <1>1, <1>2, LeavesAll, LeavesRetrieved
<1>5. result.buf \in {q.buf, Retrieve(q.buf, size)} /\ DOMAIN result = DOMAIN q
  BY <1>3 DEF ParserOK
<1>6. Leaves(q.buf, result.buf)
  BY <1>4, <1>5
<1>7. QED BY <1>5, <1>6 DEF TakesFront, ParserOK, Leaves, result

LEMMA BodyTakesFront ==
    ASSUME NEW q, ParserOK(q)
    PROVE  TakesFront(q, ParseBody(q))
<1> DEFINE result == ParseBody(q)
<1>1. BufferOK(q.buf, Byte)
  BY DEF ParserOK
<1>2. CASE q.expect # "body"
  <2>1. result = q
    BY <1>2 DEF ParseBody
  <2>2. QED BY <1>1, <2>1, LeavesAll DEF TakesFront
<1>3. CASE q.expect = "body" /\ q.headers \cap DOMAIN LengthOf # {}
  <2> DEFINE h == CHOOSE x \in q.headers : x \in DOMAIN LengthOf
             n == LengthOf[h]
  <2>1. n \in Int
    <3>1. h \in DOMAIN LengthOf
      BY <1>3
    <3> HIDE DEF h
    <3>2. QED BY <3>1, ParserAssumption
  <2>2. \/ result = q
        \/ result = [q EXCEPT !.body = Bytes(q.buf, n), !.buf = Retrieve(q.buf, n),
                           !.verdict = "done"]
    <3> HIDE DEF n, h
    <3>1. QED BY <1>3 DEF ParseBody, ContentLengthBody, n, h
  <2> HIDE DEF n, result
  <2>3. Leaves(q.buf, q.buf) /\ Leaves(q.buf, Retrieve(q.buf, n))
    BY <1>1, <2>1, LeavesAll, LeavesRetrieved
  <2>4. result.buf \in {q.buf, Retrieve(q.buf, n)} /\ DOMAIN result = DOMAIN q
    BY <2>2 DEF ParserOK
  <2>5. Leaves(q.buf, result.buf)
    BY <2>3, <2>4
  <2>6. QED BY <2>4, <2>5 DEF TakesFront, ParserOK, Leaves, result
<1>4. CASE /\ q.expect = "body" /\ q.headers \cap DOMAIN LengthOf = {}
           /\ "T" \in q.headers
  <2> DEFINE i == Find(q.buf, CrLf, 0)
             line == Bytes(q.buf, i)
             p == [q EXCEPT !.buf = Retrieve(q.buf, i + 2)]
  <2>1. i + 2 \in Int
    BY <1>1, FindIs
  <2>2. \/ result = [q EXCEPT !.verdict = "more"]
        \/ result = ChunkBody(p, line)
    BY <1>4 DEF ParseBody, TakeLine
  <2>3. p.buf = Retrieve(q.buf, i + 2) /\ DOMAIN p = DOMAIN q
    BY DEF ParserOK
  <2>4. Leaves(q.buf, p.buf)
    BY <1>1, <2>1, <2>3, LeavesRetrieved
  <2>5. BufferOK(p.buf, Byte)
    BY <2>4 DEF Leaves
  <2> HIDE DEF i, line, p, result
  <2>6. CASE result = [q EXCEPT !.verdict = "more"]
    <3>1. result.buf = q.buf /\ DOMAIN result = DOMAIN q
      BY <2>6 DEF ParserOK
    <3>2. QED BY <1>1, <3>1, LeavesAll DEF TakesFront, ParserOK, result
  <2>7. CASE result = ChunkBody(p, line)
    <3> DEFINE n == SizeOf(line)
    <3>1. n + 2 \in Int
      <4>1. \A l \in DOMAIN ChunkSize : ChunkSize[l] \in Int
        BY ParserAssumption
      <4>2. QED BY <4>1 DEF SizeOf
    <3> HIDE DEF n
    <3>2. \E c, t, v, y : result = [p EXCEPT !.buf = Retrieve(p.buf, n + 2), !.chunks = c,
                                          !.cut = t, !.verdict = v, !.body = y]
      BY <2>7 DEF ChunkBody, n
    <3>3. result.buf = Retrieve(p.buf, n + 2) /\ DOMAIN result = DOMAIN q
      BY <2>3, <3>2 DEF ParserOK
    <3>4. Leaves(p.buf, result.buf)
      BY <2>5, <3>1, <3>3, LeavesRetrieved
    <3>5. Leaves(q.buf, result.buf)
      BY <2>4, <3>4, LeavesTwice
    <3>6. QED BY <3>3, <3>5 DEF TakesFront, ParserOK, Leaves, result
  <2>8. QED BY <2>2, <2>6, <2>7
<1>5. CASE /\ q.expect = "body" /\ q.headers \cap DOMAIN LengthOf = {}
           /\ "T" \notin q.headers
  <2>1. result = [q EXCEPT !.verdict = "undefined"]
    BY <1>5 DEF ParseBody
  <2>2. result.buf = q.buf /\ DOMAIN result = DOMAIN q
    BY <2>1 DEF ParserOK
  <2> HIDE DEF result
  <2>3. QED BY <1>1, <2>2, LeavesAll DEF TakesFront, ParserOK, result
<1>6. QED BY <1>2, <1>3, <1>4, <1>5

(* Whatever the bytes are, operator() takes some of them from the front.   *)
LEMMA ParseTakesFront ==
    ASSUME NEW q, ParserOK(q)
    PROVE  TakesFront(q, Parse(q))
<1> DEFINE p == [q EXCEPT !.verdict = "more"]
           s == ParseStatusLine(p)
           h == ParseHeader(s)
           y == ParseBody(h)
<1>1. ParserOK(p) /\ p.buf = q.buf
  BY DEF ParserOK
<1> HIDE DEF p
<1>2. TakesFront(p, s)
  BY <1>1, StatusTakesFront
<1> HIDE DEF s
<1>3. ParserOK(s) /\ TakesFront(s, h)
  BY <1>2, HeaderTakesFront DEF TakesFront
<1> HIDE DEF h
<1>4. ParserOK(h) /\ TakesFront(h, y)
  BY <1>3, BodyTakesFront DEF TakesFront
<1> HIDE DEF y
<1>5. ParserOK(y) /\ Leaves(q.buf, y.buf)
  <2>1. Leaves(p.buf, s.buf) /\ Leaves(s.buf, h.buf) /\ Leaves(h.buf, y.buf)
    BY <1>2, <1>3, <1>4 DEF TakesFront
  <2>2. Leaves(p.buf, h.buf)
    BY <2>1, LeavesTwice
  <2>3. Leaves(p.buf, y.buf)
    BY <2>1, <2>2, LeavesTwice
  <2>4. QED BY <1>1, <1>4, <2>3 DEF TakesFront
<1>6. Parse(q) = IF y.verdict = "done"
                 THEN [y EXCEPT !.expect = "status", !.chunks = <<>>] ELSE y
  BY DEF Parse, p, s, h, y
<1>7. Parse(q).buf = y.buf /\ DOMAIN Parse(q) = DOMAIN y
  BY <1>5, <1>6 DEF ParserOK
<1>8. QED BY <1>5, <1>7 DEF TakesFront, ParserOK

-----------------------------------------------------------------------------
(* The response buffer.                                                    *)

(* Unless bytes were moved in place, what was read is what the parser has  *)
(* taken and what the buffer holds.                                        *)
HeldOK ==
    /\ ParserOK(resp)
    /\ ~compacted => \E u \in Seq(Byte) : arrived.down = u \o Unread(resp.buf)

BufferIInv == StreamsOK /\ HeldOK

LEMMA HeldInit == Init => BufferIInv
<1> SUFFICES ASSUME Init PROVE BufferIInv
  OBVIOUS
<1>1. StreamsOK
  BY StreamsInit
<1>2. resp = NewParser /\ arrived.down = <<>>
  BY DEF Init
<1>3. /\ DOMAIN NewParser = {"expect", "chunks", "headers", "body", "buf", "verdict",
                            "cut"}
      /\ NewParser.buf = NewBuffer(InitialCapacity)
  BY DEF NewParser
<1>4. ParserOK(resp) /\ Unread(resp.buf) = <<>>
  BY <1>2, <1>3, NewIs, Given, BufferAssumption DEF ParserOK
<1>5. <<>> \in Seq(Byte) /\ <<>> \o <<>> = <<>>
  BY EmptySeq, ConcatEmptySeq
<1>6. HeldOK
  BY <1>2, <1>4, <1>5 DEF HeldOK
<1>7. QED BY <1>1, <1>6 DEF BufferIInv

LEMMA HeldRecv ==
    ASSUME StreamsOK, HeldOK, ClientRecv
    PROVE  HeldOK'
<1>1. PICK k \in 1 .. Min({ReadSize, Len(wire.down)}) :
          /\ arrived' = [arrived EXCEPT !.down = @ \o SubSeq(wire.down, 1, k)]
          /\ resp' = ReadInto(resp, SubSeq(wire.down, 1, k))
  BY DEF ClientRecv
<1>2. compacted' = (compacted \/ Compacts(resp.buf, ReadSize))
  BY DEF ClientRecv
<1> DEFINE got == SubSeq(wire.down, 1, k)
           b == Adjust(resp.buf, ReadSize)
           q == [resp EXCEPT !.buf = Receive(b, got)]
<1>3. /\ ReadSize \in Nat /\ wire.down \in Seq(Byte) /\ arrived.down \in Seq(Byte)
      /\ Len(wire.down) \in Nat /\ DOMAIN arrived = {"up", "down"}
  BY ExchangeAssumption, LenProperties DEF StreamsOK, BytesOK
<1>4. k \in 1 .. Len(wire.down) /\ k <= ReadSize
  <2>1. Min({ReadSize, Len(wire.down)}) = IF ReadSize <= Len(wire.down) THEN ReadSize
                                          ELSE Len(wire.down)
    BY <1>3, MinOfTwo
  <2>2. QED BY <1>3, <2>1
<1>5. got \in Seq(Byte) /\ Len(got) = k
  <2>1. \A i \in 1 .. k : wire.down[i] \in Byte
    BY <1>3, <1>4, ElementOfSeq
  <2>2. QED BY <1>4, <2>1, SubSeqProperties
<1>6. BufferOK(resp.buf, Byte)
  BY DEF HeldOK, ParserOK
<1>7. BufferOK(b, Byte)
  BY <1>3, <1>6, Adjusts, CompactionStays
<1>8. resp' = IF Len(got) > Writeable(b) THEN [resp EXCEPT !.verdict = "undefined"]
              ELSE Parse(q)
  BY <1>1 DEF ReadInto
<1>9. arrived'.down = arrived.down \o got
  BY <1>1, <1>3
<1> HIDE DEF got, b
<1>10. q.buf = Receive(b, got) /\ DOMAIN q = DOMAIN resp
  BY DEF HeldOK, ParserOK
<1> HIDE DEF q
<1>11. CASE Len(got) <= Writeable(b)
  <2>1. BufferOK(q.buf, Byte) /\ Unread(q.buf) = Unread(b) \o got
    BY <1>5, <1>7, <1>10, <1>11, Receives
  <2>2. ParserOK(q)
    BY <1>10, <2>1 DEF HeldOK, ParserOK
  <2>3. resp' = Parse(q)
    <3>1. Writeable(b) \in Int
      BY <1>7, WriteableIs
    <3>2. ~(Len(got) > Writeable(b))
      BY <1>4, <1>5, <1>11, <3>1
    <3>3. QED BY <1>8, <3>2
  <2>4. ParserOK(resp') /\ Leaves(q.buf, resp'.buf)
    BY <2>2, <2>3, ParseTakesFront DEF TakesFront
  <2>5. ASSUME ~compacted'
        PROVE  \E u \in Seq(Byte) : arrived'.down = u \o Unread(resp'.buf)
    <3>1. ~compacted /\ ~Compacts(resp.buf, ReadSize)
      BY <1>2, <2>5
    <3>2. Unread(b) = Unread(resp.buf)
      BY <1>3, <1>6, <3>1, Adjusts DEF b
    <3>3. PICK u \in Seq(Byte) : arrived.down = u \o Unread(resp.buf)
      BY <3>1 DEF HeldOK
    <3>4. PICK v \in Seq(Byte) : Unread(q.buf) = v \o Unread(resp'.buf)
      BY <2>4 DEF Leaves
    <3>5. Unread(b) \in Seq(Byte) /\ Unread(resp'.buf) \in Seq(Byte)
      BY <1>7, <2>4, UnreadIs DEF ParserOK
    <3>6. (u \o Unread(b)) \o got = u \o (Unread(b) \o got)
      <4> DEFINE t == Unread(b)
      <4>1. t \in Seq(Byte) /\ got \in Seq(Byte)
        BY <1>5, <3>5
      <4> HIDE DEF t
      <4>2. QED BY <4>1, Regroup DEF t
    <3>7. (u \o v) \o Unread(resp'.buf) = u \o (v \o Unread(resp'.buf))
      <4> DEFINE t == Unread(resp'.buf)
      <4>1. t \in Seq(Byte)
        BY <3>5
      <4> HIDE DEF t
      <4>2. QED BY <4>1, Regroup DEF t
    <3>8. arrived'.down = (u \o v) \o Unread(resp'.buf)
      BY <1>9, <2>1, <3>2, <3>3, <3>4, <3>6, <3>7
    <3>9. u \o v \in Seq(Byte)
      BY ConcatProperties
    <3>10. QED BY <3>8, <3>9
  <2>6. QED BY <2>4, <2>5 DEF HeldOK
<1>12. CASE ~(Len(got) <= Writeable(b))
  <2>1. Writeable(b) \in Int
    BY <1>7, WriteableIs
  <2>2. Len(got) > Writeable(b)
    BY <1>4, <1>5, <1>12, <2>1
  <2>3. resp' = [resp EXCEPT !.verdict = "undefined"]
    BY <1>8, <2>2
  <2>4. resp'.buf = resp.buf /\ DOMAIN resp' = DOMAIN resp
    BY <2>3 DEF HeldOK, ParserOK
  <2>5. ParserOK(resp')
    BY <2>4 DEF HeldOK, ParserOK
  <2>6. Compacts(resp.buf, ReadSize)
    <3>1. SUFFICES ASSUME ~Compacts(resp.buf, ReadSize) PROVE FALSE
      OBVIOUS
    <3>2. ReadSize <= Writeable(b)
      BY <1>3, <1>6, <3>1, Adjusts DEF b
    <3>3. QED BY <1>3, <1>4, <1>5, <2>1, <2>2, <3>2
  <2>7. compacted'
    BY <1>2, <2>6
  <2>8. QED BY <2>5, <2>7 DEF HeldOK
<1>13. QED BY <1>11, <1>12

LEMMA HeldSuspend ==
    ASSUME StreamsOK, HeldOK, ClientSuspend
    PROVE  HeldOK'
<1>1. /\ compacted' = (compacted \/ Compacts(resp.buf, ReadSize))
      /\ resp' = [resp EXCEPT !.buf = Adjust(resp.buf, ReadSize)]
      /\ arrived' = arrived
  BY DEF ClientSuspend, bytes
<1>2. BufferOK(resp.buf, Byte) /\ ReadSize \in Nat
  BY ExchangeAssumption DEF HeldOK, ParserOK
<1>3. resp'.buf = Adjust(resp.buf, ReadSize) /\ DOMAIN resp' = DOMAIN resp
  BY <1>1 DEF HeldOK, ParserOK
<1>4. BufferOK(resp'.buf, Byte)
  BY <1>2, <1>3, Adjusts, CompactionStays
<1>5. ParserOK(resp')
  BY <1>3, <1>4 DEF HeldOK, ParserOK
<1>6. ASSUME ~compacted'
      PROVE  \E u \in Seq(Byte) : arrived'.down = u \o Unread(resp'.buf)
  <2>1. ~compacted /\ ~Compacts(resp.buf, ReadSize)
    BY <1>1, <1>6
  <2>2. Unread(resp'.buf) = Unread(resp.buf)
    BY <1>2, <1>3, <2>1, Adjusts
  <2>3. QED BY <1>1, <2>1, <2>2 DEF HeldOK
<1>7. QED BY <1>5, <1>6 DEF HeldOK

(* A step that neither reads nor makes room.                               *)
LEMMA HeldStill ==
    ASSUME HeldOK, resp' = resp, compacted' = compacted,
           arrived'.down = arrived.down
    PROVE  HeldOK'
  BY DEF HeldOK

LEMMA HeldNext == BufferIInv /\ [Next]_vars => BufferIInv'
<1> SUFFICES ASSUME StreamsOK, HeldOK, [Next]_vars PROVE BufferIInv'
  BY DEF BufferIInv
<1>1. StreamsOK'
  BY StreamsNext
<1>2. HeldOK'
  <2>1. CASE UNCHANGED vars
    BY <2>1, HeldStill DEF vars
  <2>2. CASE Connect
    BY <2>2, HeldStill DEF Connect, bytes
  <2>3. CASE ClientHandshake
    BY <2>3, HeldStill DEF ClientHandshake, bytes
  <2>4. CASE ClientWrite
    BY <2>4, HeldStill DEF ClientWrite
  <2>5. CASE ClientError
    BY <2>5, HeldStill DEF ClientError, bytes
  <2>6. CASE ClientRecv
    BY <2>6, HeldRecv
  <2>7. CASE ClientSuspend
    BY <2>7, HeldSuspend
  <2>8. CASE ClientResume
    BY <2>8, HeldStill DEF ClientResume, bytes
  <2>9. CASE ClientEof
    BY <2>9, HeldStill DEF ClientEof, bytes
  <2>10. CASE Visit
    BY <2>10, HeldStill DEF Visit, bytes
  <2>11. CASE Accept
    BY <2>11, HeldStill DEF Accept, bytes
  <2>12. CASE ServerHandshake
    BY <2>12, HeldStill DEF ServerHandshake, bytes
  <2>13. CASE ServerRead
    <3>1. /\ arrived' = [arrived EXCEPT !.up = @ \o wire.up]
          /\ resp' = resp /\ compacted' = compacted
      BY <2>13 DEF ServerRead
    <3>2. arrived'.down = arrived.down
      BY <3>1 DEF StreamsOK, BytesOK
    <3>3. QED BY <3>1, <3>2, HeldStill
  <2>14. CASE ServerWriteBuffer
    BY <2>14, HeldStill DEF ServerWriteBuffer
  <2>15. CASE ServerWriteCString
    BY <2>15, HeldStill DEF ServerWriteCString
  <2>16. CASE ServerError
    BY <2>16, HeldStill DEF ServerError, bytes
  <2>17. CASE ServerClose
    BY <2>17, HeldStill DEF ServerClose, bytes
  <2>18. QED
    BY <2>1, <2>2, <2>3, <2>4, <2>5, <2>6, <2>7, <2>8, <2>9, <2>10, <2>11, <2>12,
       <2>13, <2>14, <2>15, <2>16, <2>17 DEF Next, ClientStep, ServerStep
<1>3. QED BY <1>1, <1>2 DEF BufferIInv

LEMMA HeldImply == BufferIInv => BufferHoldsUnread
<1> SUFFICES ASSUME StreamsOK, HeldOK, ~compacted
             PROVE  IsSuffix(Unread(resp.buf), arrived.down)
  BY DEF BufferIInv, BufferHoldsUnread
<1>1. PICK u \in Seq(Byte) : arrived.down = u \o Unread(resp.buf)
  BY DEF HeldOK
<1>2. Unread(resp.buf) \in Seq(Byte)
  BY UnreadIs DEF HeldOK, ParserOK
<1>3. QED BY <1>1, <1>2, EndOf

(* However the answer is cut into reads, and whatever it is made of, the   *)
(* response buffer holds the end of what was read and its positions are    *)
(* those of its bytes, unless bytes were moved in place.                   *)
THEOREM BufferHolds == Spec => []BufferHoldsUnread
<1>1. Init => BufferIInv
  BY HeldInit
<1>2. BufferIInv /\ [Next]_vars => BufferIInv'
  BY HeldNext
<1>3. BufferIInv => BufferHoldsUnread
  BY HeldImply
<1>4. QED BY <1>1, <1>2, <1>3, PTL DEF Spec

-----------------------------------------------------------------------------
(* How an answer lies on the wire.  What FlattenSeq makes of pieces: each  *)
(* begins where those before it end.                                       *)

(* A line with its end.                                                    *)
LEMMA LineIs ==
    ASSUME NEW L, {"CR", "LF"} \subseteq L, NEW x \in L
    PROVE  LET s == <<x>> \o CrLf
           IN  /\ s \in Seq(L) /\ Len(s) = 3 /\ CrLf \in Seq(L) /\ Len(CrLf) = 2
               /\ s[1] = x /\ s[2] = "CR" /\ s[3] = "LF"
<1>1. /\ <<x>> \in Seq(L) /\ Len(<<x>>) = 1 /\ <<x>>[1] = x
      /\ CrLf \in Seq(L) /\ Len(CrLf) = 2 /\ CrLf[1] = "CR" /\ CrLf[2] = "LF"
  BY DEF CrLf
<1> DEFINE a == <<x>>
           b == CrLf
<1> HIDE DEF a, b
<1>2. /\ a \o b \in Seq(L) /\ Len(a \o b) = Len(a) + Len(b)
      /\ \A i \in 1 .. Len(a) : (a \o b)[i] = a[i]
      /\ \A i \in 1 .. Len(b) : (a \o b)[Len(a) + i] = b[i]
  <2>1. a \in Seq(L) /\ b \in Seq(L)
    BY <1>1 DEF a, b
  <2>2. QED BY <2>1, Joins
<1>3. Len(a) = 1 /\ Len(b) = 2 /\ 1 \in 1 .. 1 /\ 1 \in 1 .. 2 /\ 2 \in 1 .. 2
  BY <1>1 DEF a, b
<1>4. (a \o b)[1] = a[1] /\ (a \o b)[2] = b[1] /\ (a \o b)[3] = b[2]
  BY <1>2, <1>3
<1>5. QED BY <1>1, <1>2, <1>3, <1>4 DEF a, b

(* Where the bytes of an answer lie.                                       *)
Layout(w, names, load) ==
    LET m == Len(names)
    IN  /\ Len(w) = 3 * m + 5 + Len(load)
        /\ w[1] = "S"
        /\ \A t \in 1 .. m : w[3 * t + 1] = names[t]
        /\ \A t \in 0 .. m : w[3 * t + 2] = "CR" /\ w[3 * t + 3] = "LF"
        /\ w[3 * m + 4] = "CR" /\ w[3 * m + 5] = "LF"
        /\ \A i \in 1 .. Len(load) : w[(3 * m + 5) + i] = load[i]

LEMMA SerialiseIs ==
    ASSUME NEW L, {"S", "CR", "LF"} \subseteq L, Headers \subseteq L,
           NEW names \in Seq(Headers), NEW load \in Seq(L)
    PROVE  Layout(Serialise(names, load), names, load)
<1> DEFINE m == Len(names)
           ss == [i \in DOMAIN names |-> <<names[i]>> \o CrLf]
           F == FlattenSeq(ss)
           a == <<"S">> \o CrLf
           b == a \o F
           c == b \o CrLf
           w == c \o load
<1>1. m \in Nat /\ DOMAIN names = 1 .. m /\ Len(load) \in Nat
      /\ \A t \in 1 .. m : names[t] \in L
  BY LenProperties, ElementOfSeq
<1>2. \A t \in 1 .. m : LET s == <<names[t]>> \o CrLf
                        IN  /\ s \in Seq(L) /\ Len(s) = 3
                            /\ s[1] = names[t] /\ s[2] = "CR" /\ s[3] = "LF"
  BY <1>1, LineIs
<1>3. /\ a \in Seq(L) /\ Len(a) = 3 /\ CrLf \in Seq(L) /\ Len(CrLf) = 2
      /\ a[1] = "S" /\ a[2] = "CR" /\ a[3] = "LF"
  BY LineIs
<1>4. /\ ss \in Seq(Seq(L)) /\ Len(ss) = m
      /\ \A t \in 1 .. m : /\ Len(ss[t]) = 3 /\ ss[t][1] = names[t]
                           /\ ss[t][2] = "CR" /\ ss[t][3] = "LF"
  BY <1>1, <1>2
<1> HIDE DEF ss
<1>5. F \in Seq(L) /\ \E off : Places(off, ss, F)
  BY <1>4, FlattenPlaces
<1>6. PICK off : Places(off, ss, F)
  BY <1>5
<1> HIDE DEF F
<1>7. \A j \in 0 .. m : off[j] = 3 * j
  <2> DEFINE T == {j \in Nat : j <= m => off[j] = 3 * j}
  <2>1. 0 \in T
    BY <1>6 DEF Places
  <2>2. ASSUME NEW j \in Nat, j \in T PROVE j + 1 \in T
    <3>1. SUFFICES ASSUME j + 1 <= m PROVE off[j + 1] = 3 * (j + 1)
      OBVIOUS
    <3>2. j + 1 \in 1 .. m /\ (j + 1) - 1 = j /\ off[j] = 3 * j
      BY <1>1, <2>2, <3>1
    <3>3. off[j + 1] = off[j] + 3
      <4>1. off[j + 1] = off[(j + 1) - 1] + Len(ss[j + 1])
        BY <1>4, <1>6, <3>2 DEF Places
      <4>2. Len(ss[j + 1]) = 3
        BY <1>4, <3>2
      <4>3. QED BY <3>2, <4>1, <4>2
    <3>4. QED BY <3>2, <3>3
  <2>3. \A j \in Nat : j \in T
    <3> HIDE DEF T
    <3>1. QED BY <2>1, <2>2, SetInduction
  <2>4. QED BY <1>1, <2>3
<1>8. Len(F) = 3 * m
  <2>1. off[m] = Len(F)
    BY <1>4, <1>6 DEF Places
  <2>2. m \in 0 .. m
    BY <1>1
  <2>3. QED BY <1>7, <2>1, <2>2
<1>9. ASSUME NEW t \in 1 .. m
      PROVE  /\ F[3 * t - 2] = names[t]
             /\ F[3 * t - 1] = "CR" /\ F[3 * t] = "LF"
  <2>1. off[t - 1] = 3 * t - 3
    BY <1>1, <1>7
  <2>2. \A i \in 1 .. 3 : F[(3 * t - 3) + i] = ss[t][i]
    <3>1. \A i \in 1 .. Len(ss[t]) : F[off[t - 1] + i] = ss[t][i]
      BY <1>4, <1>6 DEF Places
    <3>2. Len(ss[t]) = 3
      BY <1>4
    <3>3. QED BY <2>1, <3>1, <3>2
  <2>3. /\ (3 * t - 3) + 1 = 3 * t - 2 /\ (3 * t - 3) + 2 = 3 * t - 1
        /\ (3 * t - 3) + 3 = 3 * t /\ 1 \in 1 .. 3 /\ 2 \in 1 .. 3 /\ 3 \in 1 .. 3
    BY <1>1
  <2>4. QED BY <1>4, <2>2, <2>3
<1>10. /\ b \in Seq(L) /\ Len(b) = 3 + 3 * m
       /\ \A i \in 1 .. 3 : b[i] = a[i]
       /\ \A i \in 1 .. 3 * m : b[3 + i] = F[i]
  <2> HIDE DEF a
  <2>1. /\ b \in Seq(L) /\ Len(b) = Len(a) + Len(F)
        /\ \A i \in 1 .. Len(a) : b[i] = a[i]
        /\ \A i \in 1 .. Len(F) : b[Len(a) + i] = F[i]
    <3>1. a \in Seq(L) /\ F \in Seq(L)
      BY <1>3, <1>5
    <3>2. QED BY <3>1, Joins
  <2>2. Len(a) = 3 /\ Len(F) = 3 * m
    BY <1>3, <1>8
  <2> HIDE DEF b
  <2>3. QED BY <2>1, <2>2
<1> HIDE DEF a, b
<1>11. /\ c \in Seq(L) /\ Len(c) = 3 * m + 5
       /\ \A i \in 1 .. 3 + 3 * m : c[i] = b[i]
       /\ \A i \in 1 .. 2 : c[(3 + 3 * m) + i] = CrLf[i]
  <2> DEFINE e == CrLf
  <2>0. e \in Seq(L) /\ Len(e) = 2
    BY <1>3
  <2> HIDE DEF e
  <2>1. /\ b \o e \in Seq(L) /\ Len(b \o e) = Len(b) + Len(e)
        /\ \A i \in 1 .. Len(b) : (b \o e)[i] = b[i]
        /\ \A i \in 1 .. Len(e) : (b \o e)[Len(b) + i] = e[i]
    <3>1. b \in Seq(L) /\ e \in Seq(L)
      BY <1>10, <2>0
    <3>2. QED BY <3>1, Joins
  <2>2. Len(b) = 3 + 3 * m /\ Len(b) + Len(e) = 3 * m + 5
    BY <1>1, <1>10, <2>0
  <2>3. c = b \o e
    BY DEF c, e
  <2> HIDE DEF c
  <2>4. QED BY <2>0, <2>1, <2>2, <2>3 DEF e
<1> HIDE DEF c
<1>12. /\ Len(w) = 3 * m + 5 + Len(load)
       /\ \A i \in 1 .. 3 * m + 5 : w[i] = c[i]
       /\ \A i \in 1 .. Len(load) : w[(3 * m + 5) + i] = load[i]
  <2>1. /\ Len(w) = Len(c) + Len(load)
        /\ \A i \in 1 .. Len(c) : w[i] = c[i]
        /\ \A i \in 1 .. Len(load) : w[Len(c) + i] = load[i]
    <3>1. c \in Seq(L) /\ load \in Seq(L)
      BY <1>11
    <3>2. QED BY <3>1, Joins
  <2> HIDE DEF w
  <2>2. QED BY <1>11, <2>1
<1>13. Serialise(names, load) = w
  BY DEF Serialise, w, c, b, a, F, ss
<1> HIDE DEF w
<1>14. \A i \in 1 .. 3 : w[i] = a[i]
  <2> SUFFICES ASSUME NEW i \in 1 .. 3 PROVE w[i] = a[i]
    OBVIOUS
  <2>1. i \in 1 .. 3 + 3 * m /\ i \in 1 .. 3 * m + 5
    BY <1>1
  <2>2. QED BY <1>10, <1>11, <1>12, <2>1
<1>15. \A i \in 1 .. 3 * m : w[3 + i] = F[i]
  <2> SUFFICES ASSUME NEW i \in 1 .. 3 * m PROVE w[3 + i] = F[i]
    OBVIOUS
  <2>1. 3 + i \in 1 .. 3 + 3 * m /\ 3 + i \in 1 .. 3 * m + 5
    BY <1>1
  <2>2. QED BY <1>10, <1>11, <1>12, <2>1
<1>16. w[3 * m + 4] = "CR" /\ w[3 * m + 5] = "LF"
  <2>1. CrLf[1] = "CR" /\ CrLf[2] = "LF"
    BY DEF CrLf
  <2>2. /\ (3 + 3 * m) + 1 = 3 * m + 4 /\ (3 + 3 * m) + 2 = 3 * m + 5
        /\ 1 \in 1 .. 2 /\ 2 \in 1 .. 2
        /\ 3 * m + 4 \in 1 .. 3 * m + 5 /\ 3 * m + 5 \in 1 .. 3 * m + 5
    BY <1>1
  <2>3. c[3 * m + 4] = "CR" /\ c[3 * m + 5] = "LF"
    BY <1>11, <2>1, <2>2
  <2>4. QED BY <1>12, <2>2, <2>3
<1>17. ASSUME NEW t \in 1 .. m
       PROVE  /\ w[3 * t + 1] = names[t]
              /\ w[3 * t + 2] = "CR" /\ w[3 * t + 3] = "LF"
  <2>1. /\ 3 * t - 2 \in 1 .. 3 * m /\ 3 * t - 1 \in 1 .. 3 * m /\ 3 * t \in 1 .. 3 * m
        /\ 3 + (3 * t - 2) = 3 * t + 1 /\ 3 + (3 * t - 1) = 3 * t + 2
        /\ 3 + 3 * t = 3 * t + 3
    BY <1>1
  <2>2. w[3 * t + 1] = F[3 * t - 2] /\ w[3 * t + 2] = F[3 * t - 1] /\ w[3 * t + 3] = F[3 * t]
    <3> DEFINE i == 3 * t - 2
               j == 3 * t - 1
               k == 3 * t
    <3>1. i \in 1 .. 3 * m /\ j \in 1 .. 3 * m /\ k \in 1 .. 3 * m
      BY <2>1
    <3>2. 3 + i = 3 * t + 1 /\ 3 + j = 3 * t + 2 /\ 3 + k = 3 * t + 3
      BY <2>1
    <3> HIDE DEF i, j, k
    <3>3. w[3 + i] = F[i] /\ w[3 + j] = F[j] /\ w[3 + k] = F[k]
      BY <1>15, <3>1
    <3>4. QED BY <3>2, <3>3 DEF i, j, k
  <2>3. QED BY <1>9, <2>2
<1>18. ASSUME NEW t \in 0 .. m PROVE w[3 * t + 2] = "CR" /\ w[3 * t + 3] = "LF"
  <2>1. CASE t = 0
    BY <1>3, <1>14, <2>1
  <2>2. CASE t # 0
    <3>1. t \in 1 .. m
      BY <1>1, <2>2
    <3>2. QED BY <1>17, <3>1
  <2>3. QED BY <2>1, <2>2
<1>19. w[1] = "S"
  BY <1>3, <1>14
<1>20. QED
  BY <1>12, <1>13, <1>16, <1>17, <1>18, <1>19 DEF Layout

(* Where the bytes of a body in chunks lie: the first j take off[j].       *)
ChunksLie(off, load, lines, parts) ==
    /\ off \in [0 .. Len(lines) -> Nat] /\ off[0] = 0 /\ off[Len(lines)] = Len(load)
    /\ \A j \in 1 .. Len(lines) :
          /\ off[j] = off[j - 1] + Len(parts[j]) + 5 /\ off[j] <= Len(load)
          /\ load[off[j - 1] + 1] = lines[j]
          /\ load[off[j - 1] + 2] = "CR" /\ load[off[j - 1] + 3] = "LF"
          /\ \A i \in 1 .. Len(parts[j]) : load[(off[j - 1] + 3) + i] = parts[j][i]

(* s is a chunk p with its size x.                                         *)
IsChunk(s, L, x, p) ==
    /\ s \in Seq(L) /\ Len(s) = Len(p) + 5
    /\ s[1] = x /\ s[2] = "CR" /\ s[3] = "LF"
    /\ \A i \in 1 .. Len(p) : s[3 + i] = p[i]

LEMMA ChunkIs ==
    ASSUME NEW L, {"CR", "LF"} \subseteq L, NEW x \in L, NEW p \in Seq(L)
    PROVE  IsChunk(<<x>> \o CrLf \o p \o CrLf, L, x, p)
<1> DEFINE a == <<x>> \o CrLf
           b == a \o p
           e == CrLf
           n == Len(p)
<1>1. /\ a \in Seq(L) /\ Len(a) = 3 /\ a[1] = x /\ a[2] = "CR" /\ a[3] = "LF"
      /\ e \in Seq(L) /\ Len(e) = 2
  BY LineIs
<1> HIDE DEF a, e
<1>2. n \in Nat
  BY LenProperties
<1>3. /\ b \in Seq(L) /\ Len(b) = Len(a) + n
      /\ \A i \in 1 .. Len(a) : b[i] = a[i]
      /\ \A i \in 1 .. n : b[Len(a) + i] = p[i]
  <2>1. a \in Seq(L) /\ p \in Seq(L)
    BY <1>1
  <2>2. QED BY <2>1, Joins
<1> HIDE DEF b, n
<1>4. /\ b \o e \in Seq(L) /\ Len(b \o e) = Len(b) + Len(e)
      /\ \A i \in 1 .. Len(b) : (b \o e)[i] = b[i]
  <2>1. b \in Seq(L) /\ e \in Seq(L)
    BY <1>1, <1>3
  <2>2. QED BY <2>1, Joins
<1> DEFINE s == b \o e
<1> HIDE DEF s
<1>5. s \in Seq(L) /\ Len(s) = n + 5 /\ \A i \in 1 .. n + 3 : s[i] = b[i]
  BY <1>1, <1>2, <1>3, <1>4 DEF s
<1>6. 1 \in 1 .. n + 3 /\ 2 \in 1 .. n + 3 /\ 3 \in 1 .. n + 3
  BY <1>2
<1>7. s[1] = x /\ s[2] = "CR" /\ s[3] = "LF"
  BY <1>1, <1>3, <1>5, <1>6
<1>8. ASSUME NEW i \in 1 .. n PROVE s[3 + i] = p[i]
  <2>1. 3 + i \in 1 .. n + 3
    BY <1>2
  <2>2. QED BY <1>1, <1>3, <1>5, <2>1
<1>9. QED BY <1>5, <1>7, <1>8 DEF IsChunk, s, b, a, e, n

LEMMA ChunkedIs ==
    ASSUME NEW L, {"CR", "LF"} \subseteq L,
           NEW lines \in Seq(L), NEW parts \in Seq(Seq(L)), Len(parts) = Len(lines)
    PROVE  /\ Chunked(lines, parts) \in Seq(L)
           /\ \E off : ChunksLie(off, Chunked(lines, parts), lines, parts)
<1> DEFINE n == Len(lines)
           ss == [i \in DOMAIN lines |-> <<lines[i]>> \o CrLf \o parts[i] \o CrLf]
           load == FlattenSeq(ss)
<1>1. /\ n \in Nat /\ DOMAIN lines = 1 .. n
      /\ \A j \in 1 .. n : lines[j] \in L /\ parts[j] \in Seq(L)
  BY LenProperties, ElementOfSeq
<1>2. ASSUME NEW j \in 1 .. n PROVE IsChunk(ss[j], L, lines[j], parts[j])
  <2> DEFINE x == lines[j]
             p == parts[j]
  <2>1. x \in L /\ p \in Seq(L)
    BY <1>1
  <2>2. ss[j] = <<x>> \o CrLf \o p \o CrLf
    BY <1>1
  <2> HIDE DEF x, p, ss
  <2>3. IsChunk(<<x>> \o CrLf \o p \o CrLf, L, x, p)
    BY <2>1, ChunkIs
  <2>4. QED BY <2>2, <2>3 DEF x, p
<1>3. DOMAIN ss = 1 .. n /\ ss = [j \in 1 .. n |-> ss[j]]
  BY <1>1
<1>4. ss \in Seq(Seq(L)) /\ Len(ss) = n
  <2> HIDE DEF ss, n
  <2>1. \A j \in 1 .. n : ss[j] \in Seq(L)
    BY <1>2 DEF IsChunk
  <2>2. ss \in [1 .. n -> Seq(L)]
    <3> DEFINE Q == Seq(L)
    <3>1. \A j \in 1 .. n : ss[j] \in Q
      BY <2>1
    <3> HIDE DEF Q
    <3>2. ss \in [1 .. n -> Q]
      BY <1>3, <3>1, Zenon
    <3>3. QED BY <3>2 DEF Q
  <2>3. ss \in Seq(Seq(L))
    BY <1>1, <2>2, SeqDef
  <2>4. QED
    <3>1. DOMAIN ss = 1 .. Len(ss) /\ Len(ss) \in Nat
      BY <2>3, LenProperties
    <3> DEFINE k == Len(ss)
    <3>2. n \in Nat /\ k \in Nat /\ 1 .. n = 1 .. k
      BY <1>1, <1>3, <3>1
    <3> HIDE DEF k
    <3>3. n = k
      <4>1. n > 0 => n \in 1 .. k
        BY <3>2
      <4>2. k > 0 => k \in 1 .. n
        BY <3>2
      <4>3. QED BY <3>2, <4>1, <4>2
    <3>4. QED BY <2>3, <3>3 DEF k
<1>5. Chunked(lines, parts) = load
  BY DEF Chunked
<1> HIDE DEF ss
<1>6. load \in Seq(L) /\ \E off : Places(off, ss, load)
  BY <1>4, FlattenPlaces
<1> HIDE DEF load, n
<1>7. PICK off : Places(off, ss, load)
  BY <1>6
<1>8. /\ off \in [0 .. n -> Nat] /\ off[0] = 0 /\ off[n] = Len(load)
      /\ \A j \in 1 .. n : off[j] = off[j - 1] + Len(ss[j]) /\ off[j] <= Len(load)
      /\ \A j \in 1 .. n : \A i \in 1 .. Len(ss[j]) : load[off[j - 1] + i] = ss[j][i]
  BY <1>4, <1>7 DEF Places
<1>9. ASSUME NEW j \in 1 .. n
      PROVE  /\ off[j] = off[j - 1] + Len(parts[j]) + 5 /\ off[j] <= Len(load)
             /\ load[off[j - 1] + 1] = lines[j]
             /\ load[off[j - 1] + 2] = "CR" /\ load[off[j - 1] + 3] = "LF"
             /\ \A i \in 1 .. Len(parts[j]) : load[(off[j - 1] + 3) + i] = parts[j][i]
  <2> DEFINE s == ss[j]
             p == parts[j]
             a == off[j - 1]
             k == Len(p)
  <2>1. /\ s \in Seq(L) /\ Len(s) = k + 5 /\ s[1] = lines[j] /\ s[2] = "CR"
        /\ s[3] = "LF" /\ \A i \in 1 .. k : s[3 + i] = p[i]
    BY <1>2 DEF IsChunk
  <2>2. p \in Seq(L) /\ k \in Nat
    BY <1>1, LenProperties
  <2>3. a \in Nat
    <3>1. j - 1 \in 0 .. n
      BY <1>1
    <3>2. QED BY <1>8, <3>1
  <2>4. off[j] = a + Len(s) /\ \A i \in 1 .. Len(s) : load[a + i] = s[i]
    BY <1>8
  <2> HIDE DEF s, p, a, k
  <2>5. off[j] = a + k + 5
    BY <2>1, <2>2, <2>3, <2>4
  <2>6. load[a + 1] = lines[j] /\ load[a + 2] = "CR" /\ load[a + 3] = "LF"
    <3>1. 1 \in 1 .. k + 5 /\ 2 \in 1 .. k + 5 /\ 3 \in 1 .. k + 5
      BY <2>2
    <3>2. QED BY <2>1, <2>4, <3>1
  <2>7. ASSUME NEW i \in 1 .. k PROVE load[(a + 3) + i] = p[i]
    <3>1. 3 + i \in 1 .. k + 5 /\ a + (3 + i) = (a + 3) + i
      BY <2>2, <2>3
    <3>2. load[a + (3 + i)] = s[3 + i]
      BY <2>1, <2>4, <3>1
    <3>3. QED BY <2>1, <3>1, <3>2
  <2>8. off[j] <= Len(load)
    BY <1>8
  <2>9. QED BY <2>5, <2>6, <2>7, <2>8 DEF a, k, p
<1>10. ChunksLie(off, load, lines, parts)
  BY <1>8, <1>9 DEF ChunksLie, n
<1>11. QED BY <1>5, <1>6, <1>10

-----------------------------------------------------------------------------
(* What the parts of the parser find in a buffer that holds the next bytes *)
(* of an answer.                                                           *)

(* The unread bytes are those of w behind the first c.                     *)
Holds(b, w, c) ==
    /\ BufferOK(b, Byte) /\ c \in Nat
    /\ \A i \in 1 .. Readable(b) : Unread(b)[i] = w[c + i]

LEMMA HoldsMemory ==
    ASSUME NEW b, NEW w, NEW c, Holds(b, w, c)
    PROVE  /\ BufferOK(b, Byte) /\ Readable(b) \in Nat /\ c \in Nat
           /\ \A i \in 1 .. Readable(b) : b.mem[b.r + i] = w[c + i]
<1>1. BufferOK(b, Byte) /\ c \in Nat /\ Readable(b) \in Nat
  BY UnreadIs DEF Holds
<1>2. \A i \in 1 .. Readable(b) : Unread(b)[i] = b.mem[b.r + i]
  BY <1>1, UnreadAt
<1>3. QED BY <1>1, <1>2 DEF Holds

LEMMA RetrieveHolds ==
    ASSUME NEW b, NEW w, NEW c, Holds(b, w, c), NEW k \in 0 .. Readable(b)
    PROVE  /\ Holds(Retrieve(b, k), w, c + k)
           /\ Readable(Retrieve(b, k)) = Readable(b) - k
           /\ Len(Bytes(b, k)) = k /\ Bytes(b, k) \in Seq(Byte)
           /\ \A i \in 1 .. k : Bytes(b, k)[i] = w[c + i]
<1> DEFINE u == Unread(b)
           d == Retrieve(b, k)
           v == Unread(d)
           p == Bytes(b, k)
           n == Readable(b)
<1>1. BufferOK(b, Byte) /\ c \in Nat /\ n \in Nat /\ \A i \in 1 .. n : u[i] = w[c + i]
  BY UnreadIs DEF Holds
<1>2. BufferOK(d, Byte) /\ p \o v = u /\ Readable(d) = n - k
  BY <1>1, RetrieveSplits
<1>3. p \in Seq(Byte) /\ Len(p) = k /\ v \in Seq(Byte) /\ Len(v) = n - k /\ k \in Nat
  BY <1>1, <1>2, BytesAre, UnreadIs
<1> HIDE DEF p, v, u
<1>4. /\ \A i \in 1 .. Len(p) : (p \o v)[i] = p[i]
      /\ \A i \in 1 .. Len(v) : (p \o v)[Len(p) + i] = v[i]
  <2>1. p \in Seq(Byte) /\ v \in Seq(Byte)
    BY <1>3
  <2>2. QED BY <2>1, Joins
<1> HIDE DEF n, d
<1>5. k <= n
  BY <1>1 DEF n
<1>6. \A i \in 1 .. k : p[i] = w[c + i]
  <2> SUFFICES ASSUME NEW i \in 1 .. k PROVE p[i] = w[c + i]
    OBVIOUS
  <2>1. i \in 1 .. n
    BY <1>1, <1>5
  <2>2. QED BY <1>1, <1>2, <1>3, <1>4, <2>1
<1>7. ASSUME NEW i \in 1 .. n - k PROVE v[i] = w[(c + k) + i]
  <2>1. k + i \in 1 .. n /\ c + (k + i) = (c + k) + i
    BY <1>1, <1>3, <1>5
  <2>2. u[k + i] = v[i]
    BY <1>2, <1>3, <1>4
  <2>3. QED BY <1>1, <2>1, <2>2
<1>8. Holds(d, w, c + k)
  <2>1. c + k \in Nat
    BY <1>1, <1>3
  <2>2. \A i \in 1 .. Readable(d) : Unread(d)[i] = w[(c + k) + i]
    BY <1>2, <1>7 DEF v
  <2>3. QED BY <1>2, <2>1, <2>2 DEF Holds
<1>9. QED BY <1>2, <1>3, <1>6, <1>8 DEF d, p, n

(* A line of one symbol is found when a byte follows its end.              *)
LEMMA LineFound ==
    ASSUME NEW b, NEW w, NEW c, Holds(b, w, c),
           w[c + 1] # "CR", w[c + 2] = "CR", w[c + 3] = "LF"
    PROVE  Find(b, CrLf, 0) = IF Readable(b) < 4 THEN -1 ELSE 1
<1> DEFINE n == Readable(b)
           places == {i \in 0 .. n - Len(CrLf) - 1 :
                        \A j \in 1 .. Len(CrLf) : b.mem[b.r + i + j] = CrLf[j]}
<1>1. /\ BufferOK(b, Byte) /\ n \in Nat /\ c \in Nat /\ b.r \in Nat
      /\ \A i \in 1 .. n : b.mem[b.r + i] = w[c + i]
  <2>1. /\ BufferOK(b, Byte) /\ n \in Nat /\ c \in Nat
        /\ \A i \in 1 .. n : b.mem[b.r + i] = w[c + i]
    BY HoldsMemory
  <2>2. b.r \in Nat
    BY <2>1, Parts
  <2>3. QED BY <2>1, <2>2
<1>2. Len(CrLf) = 2 /\ CrLf[1] = "CR" /\ CrLf[2] = "LF"
  BY DEF CrLf
<1>3. Find(b, CrLf, 0) = IF places = {} THEN -1 ELSE Min(places)
  BY DEF Find
<1>4. \A i \in places : i \in 0 .. n - 3 /\ b.mem[b.r + i + 1] = "CR"
  <2>1. 1 \in 1 .. 2
    OBVIOUS
  <2>2. QED BY <1>1, <1>2, <2>1
<1>5. 0 \notin places
  <2>1. ASSUME 0 \in places PROVE FALSE
    <3>1. 0 \in 0 .. n - 3 /\ b.mem[b.r + 0 + 1] = "CR"
      BY <1>4, <2>1
    <3>2. 1 \in 1 .. n /\ b.r + 0 + 1 = b.r + 1
      BY <1>1, <3>1
    <3>3. b.mem[b.r + 1] = w[c + 1]
      BY <1>1, <3>2
    <3>4. QED BY <3>1, <3>2, <3>3
  <2>2. QED BY <2>1
<1>6. CASE n < 4
  <2> HIDE DEF places
  <2>1. \A i \in places : i = 0
    BY <1>1, <1>4, <1>6
  <2>2. places = {}
    BY <1>5, <2>1
  <2>3. QED BY <1>3, <1>6, <2>2
<1>7. CASE n >= 4
  <2>1. b.mem[b.r + 2] = "CR" /\ b.mem[b.r + 3] = "LF"
    <3>1. 2 \in 1 .. n /\ 3 \in 1 .. n
      BY <1>1, <1>7
    <3>2. QED BY <1>1, <3>1
  <2>2. \A j \in 1 .. Len(CrLf) : b.mem[b.r + 1 + j] = CrLf[j]
    <3>1. ASSUME NEW j \in 1 .. 2 PROVE b.mem[b.r + 1 + j] = CrLf[j]
      <4>1. b.r + 1 + 1 = b.r + 2 /\ b.r + 1 + 2 = b.r + 3
        BY <1>1
      <4>2. j = 1 \/ j = 2
        OBVIOUS
      <4>3. QED BY <1>2, <2>1, <4>1, <4>2
    <3>2. QED BY <1>2, <3>1
  <2>3. 1 \in 0 .. n - Len(CrLf) - 1
    BY <1>1, <1>2, <1>7
  <2>4. 1 \in places
    BY <2>2, <2>3
  <2> HIDE DEF places
  <2>5. places \subseteq Nat
    BY <1>4
  <2>6. Min(places) \in places /\ \A y \in places : Min(places) <= y
    BY <2>4, <2>5, MinIs
  <2>7. Min(places) \in Nat /\ Min(places) # 0 /\ Min(places) <= 1
    BY <1>5, <2>4, <2>5, <2>6, Zenon
  <2>8. Min(places) = 1
    BY <2>7
  <2>9. QED BY <1>1, <1>3, <1>7, <2>4, <2>8
<1>8. QED BY <1>1, <1>6, <1>7

(* The header lines before the t-th.                                       *)
Before(r, t) == {r.names[i] : i \in 1 .. t - 1}

(* The parser q has taken the first c bytes of the answer r, of which the  *)
(* client has read e.                                                      *)
Taken(q, r, c, e) ==
    /\ ParserOK(q) /\ Holds(q.buf, r.wire, c) /\ c + Readable(q.buf) = e
    /\ q.verdict = "more"

InStatus(q, r, e) ==
    q.expect = "status" /\ Taken(q, r, 0, e) /\ q.headers = {} /\ q.chunks = <<>>

(* t is the line that comes next, the empty one when all are taken.        *)
AtHeader(q, r, e, t) ==
    /\ q.expect = "header" /\ Taken(q, r, 3 * t, e)
    /\ q.headers = Before(r, t) /\ q.chunks = <<>>

InHeader(q, r, e) == \E t \in 1 .. Len(r.names) + 1 : AtHeader(q, r, e, t)

Top(r) == 3 * Len(r.names) + 5

InBody(q, r, e) ==
    /\ q.expect = "body" /\ q.headers = r.headers
    /\ IF r.lines = <<>> THEN Taken(q, r, Top(r), e)
       ELSE \E off : /\ ChunksLie(off, Chunked(r.lines, r.parts), r.lines, r.parts)
                     /\ \E j \in 0 .. Len(r.lines) - 1 :
                          /\ Taken(q, r, Top(r) + off[j], e)
                          /\ q.chunks = SubSeq(r.parts, 1, j)

Load(r) == IF r.lines = <<>> THEN r.body ELSE Chunked(r.lines, r.parts)

(* What the proofs use of a well-formed answer.                            *)
Formed(r) ==
    /\ r.names \in Seq(Headers) /\ r.headers = Before(r, Len(r.names) + 1)
    /\ Layout(r.wire, r.names, Load(r)) /\ Len(Load(r)) \in Nat
    /\ IF r.lines = <<>>
       THEN \A h \in r.headers \cap DOMAIN LengthOf : LengthOf[h] = Len(r.body)
       ELSE /\ r.lines \in Seq(DOMAIN ChunkSize)
            /\ r.parts \in Seq(Range(r.parts)) /\ Len(r.parts) = Len(r.lines)
            /\ \E off : ChunksLie(off, Chunked(r.lines, r.parts), r.lines, r.parts)

LEMMA StatusStep ==
    ASSUME NEW q, NEW r, NEW e, Layout(r.wire, r.names, Load(r)), Len(r.names) \in Nat,
           InStatus(q, r, e)
    PROVE  \/ InStatus(ParseStatusLine(q), r, e) /\ Readable(ParseStatusLine(q).buf) < 4
           \/ InHeader(ParseStatusLine(q), r, e)
<1> DEFINE i == Find(q.buf, CrLf, 0)
           n == Readable(q.buf)
           line == Bytes(q.buf, i)
           p == ParseStatusLine(q)
<1>1. /\ ParserOK(q) /\ Holds(q.buf, r.wire, 0) /\ 0 + n = e /\ q.verdict = "more"
      /\ q.expect = "status" /\ q.headers = {} /\ q.chunks = <<>>
  BY DEF InStatus, Taken
<1>2. n \in Nat
  BY <1>1, HoldsMemory
<1>3. r.wire[1] = "S" /\ r.wire[2] = "CR" /\ r.wire[3] = "LF"
  <2>1. 0 \in 0 .. Len(r.names) /\ 3 * 0 + 2 = 2 /\ 3 * 0 + 3 = 3
    OBVIOUS
  <2>2. QED BY <2>1 DEF Layout
<1>4. i = IF n < 4 THEN -1 ELSE 1
  <2>1. 0 + 1 = 1 /\ 0 + 2 = 2 /\ 0 + 3 = 3
    OBVIOUS
  <2>2. r.wire[0 + 1] # "CR" /\ r.wire[0 + 2] = "CR" /\ r.wire[0 + 3] = "LF"
    BY <1>3, <2>1
  <2>3. QED BY <1>1, <2>2, LineFound
<1>5. CASE n < 4
  <2>1. p = [q EXCEPT !.verdict = "more"]
    BY <1>1, <1>4, <1>5 DEF ParseStatusLine, TakeLine
  <2>2. /\ p.buf = q.buf /\ p.expect = "status" /\ p.headers = {} /\ p.chunks = <<>>
        /\ p.verdict = "more" /\ DOMAIN p = DOMAIN q
    BY <1>1, <2>1 DEF ParserOK
  <2> HIDE DEF p
  <2>3. QED BY <1>1, <1>5, <2>2 DEF InStatus, Taken, ParserOK, p
<1>6. CASE ~(n < 4)
  <2>1. i = 1
    BY <1>4, <1>6
  <2>2. line[1] = "S" /\ Len(line) = 1 /\ line \in Seq(Byte)
    <3>1. i \in 0 .. Readable(q.buf)
      BY <1>2, <1>6, <2>1
    <3> HIDE DEF i
    <3>2. /\ Len(line) = i /\ line \in Seq(Byte)
          /\ \A j \in 1 .. i : line[j] = r.wire[0 + j]
      BY <1>1, <3>1, RetrieveHolds
    <3>3. 1 \in 1 .. 1 /\ 0 + 1 = 1
      OBVIOUS
    <3>4. QED BY <1>3, <2>1, <3>2, <3>3
  <2>3. Occurs({"S"}, line)
    <3>1. 1 \in DOMAIN line
      BY <2>2
    <3>2. QED BY <2>2, <3>1 DEF Occurs
  <2>4. p = [[q EXCEPT !.buf = Retrieve(q.buf, i + 2)] EXCEPT !.expect = "header"]
    <3> HIDE DEF line, i
    <3>1. i # -1
      BY <2>1
    <3>2. QED BY <1>1, <2>3, <3>1 DEF ParseStatusLine, TakeLine, StatusLine, line, i
  <2>5. p = [[q EXCEPT !.buf = Retrieve(q.buf, 3)] EXCEPT !.expect = "header"]
    <3>1. i + 2 = 3
      BY <2>1
    <3> HIDE DEF i, p
    <3>2. QED BY <2>4, <3>1
  <2>6. /\ p.buf = Retrieve(q.buf, 3) /\ p.expect = "header" /\ p.headers = {}
        /\ p.chunks = <<>> /\ p.verdict = "more" /\ DOMAIN p = DOMAIN q
    BY <1>1, <2>5 DEF ParserOK
  <2> HIDE DEF p
  <2>7. Holds(p.buf, r.wire, 3) /\ 3 + Readable(p.buf) = e
    <3>1. 3 \in 0 .. n
      BY <1>2, <1>6
    <3>2. Holds(Retrieve(q.buf, 3), r.wire, 0 + 3) /\ Readable(Retrieve(q.buf, 3)) = n - 3
      BY <1>1, <3>1, RetrieveHolds
    <3>3. QED BY <1>1, <1>2, <2>6, <3>2
  <2>8. ParserOK(p)
    BY <1>1, <2>6, <2>7 DEF ParserOK, Holds
  <2>9. AtHeader(p, r, e, 1)
    <3>1. 3 * 1 = 3 /\ Before(r, 1) = {}
      BY DEF Before
    <3>2. QED BY <2>6, <2>7, <2>8, <3>1 DEF AtHeader, Taken
  <2>10. QED BY <2>9 DEF InHeader, p
<1>7. QED BY <1>5, <1>6

(* Every position in a header is in the first, second or third byte of a   *)
(* line.                                                                   *)
LEMMA Thirds ==
    \A i \in Nat : \E j \in Nat : i = 3 * j \/ i = 3 * j + 1 \/ i = 3 * j + 2
<1> DEFINE T == {i \in Nat : \E j \in Nat : i = 3 * j \/ i = 3 * j + 1 \/ i = 3 * j + 2}
<1>1. 0 \in T
  <2>1. 0 = 3 * 0 /\ 0 \in Nat
    OBVIOUS
  <2>2. QED BY <2>1
<1>2. ASSUME NEW i \in Nat, i \in T PROVE i + 1 \in T
  <2>1. PICK j \in Nat : i = 3 * j \/ i = 3 * j + 1 \/ i = 3 * j + 2
    BY <1>2
  <2>2. j + 1 \in Nat /\ (i = 3 * j + 2 => i + 1 = 3 * (j + 1))
    BY <2>1
  <2>3. i + 1 = 3 * j + 1 \/ i + 1 = 3 * j + 2 \/ i + 1 = 3 * (j + 1)
    BY <2>1, <2>2
  <2>4. QED BY <2>2, <2>3
<1>3. QED
  <2> HIDE DEF T
  <2>1. \A i \in Nat : i \in T
    BY <1>1, <1>2, SetInduction
  <2>2. QED BY <2>1 DEF T

LEMMA MaxIsThis ==
    ASSUME NEW T, T \subseteq Int, NEW x \in T, \A y \in T : y <= x
    PROVE  Max(T) = x
<1>1. \A y \in T : x >= y
  OBVIOUS
<1>2. Max(T) \in T /\ \A y \in T : Max(T) >= y
  BY <1>1 DEF Max
<1>3. Max(T) \in Int /\ x \in Int /\ Max(T) >= x /\ Max(T) <= x
  BY <1>2
<1>4. QED BY <1>3

LEMMA MinIsThis ==
    ASSUME NEW T, T \subseteq Int, NEW x \in T, \A y \in T : x <= y
    PROVE  Min(T) = x
<1>1. Min(T) \in T /\ \A y \in T : Min(T) <= y
  BY DEF Min
<1>2. Min(T) \in Int /\ x \in Int /\ Min(T) >= x /\ Min(T) <= x
  BY <1>1
<1>3. QED BY <1>2

LEMMA PairIs ==
    ASSUME NEW u \in Seq(Byte), NEW i \in 0 .. Len(u) - 3
    PROVE  SubSeq(u, i + 1, i + 2) = CrLf <=> u[i + 1] = "CR" /\ u[i + 2] = "LF"
<1> DEFINE s == SubSeq(u, i + 1, i + 2)
<1>1. Len(u) \in Nat
  BY LenProperties
<1>2. /\ s \in Seq(Byte) /\ Len(s) = 2 /\ s[1] = u[i + 1] /\ s[2] = u[i + 2]
  <2> DEFINE m == i + 1
             n == i + 2
  <2>1. m \in Int /\ n \in Int /\ m <= n /\ n - m + 1 = 2 /\ m + 1 - 1 = i + 1
        /\ m + 2 - 1 = i + 2
    BY <1>1
  <2>2. \A k \in m .. n : u[k] \in Byte
    <3>1. \A k \in m .. n : k \in 1 .. Len(u)
      BY <1>1
    <3>2. QED BY <3>1, ElementOfSeq
  <2> HIDE DEF m, n
  <2>3. /\ SubSeq(u, m, n) \in Seq(Byte)
        /\ Len(SubSeq(u, m, n)) = IF m <= n THEN n - m + 1 ELSE 0
        /\ \A k \in 1 .. n - m + 1 : SubSeq(u, m, n)[k] = u[m + k - 1]
    <3>1. m \in Int /\ n \in Int /\ \A k \in m .. n : u[k] \in Byte
      BY <2>1, <2>2
    <3>2. QED BY <3>1, SubSeqProperties
  <2>4. 1 \in 1 .. 2 /\ 2 \in 1 .. 2
    OBVIOUS
  <2>5. QED BY <2>1, <2>3, <2>4 DEF m, n
<1>3. CrLf[1] = "CR" /\ CrLf[2] = "LF" /\ Len(CrLf) = 2 /\ CrLf \in Seq({"CR", "LF"})
  BY DEF CrLf
<1>4. s = CrLf => u[i + 1] = "CR" /\ u[i + 2] = "LF"
  BY <1>2, <1>3
<1>5. ASSUME u[i + 1] = "CR" /\ u[i + 2] = "LF" PROVE s = CrLf
  <2> DEFINE L == Byte \cup {"CR", "LF"}
             c == CrLf
  <2>1. s \in Seq(L) /\ c \in Seq(L)
    <3>1. Byte \subseteq L /\ {"CR", "LF"} \subseteq L
      OBVIOUS
    <3> HIDE DEF L, s
    <3>2. QED BY <1>2, <1>3, <3>1, SeqMonotonic
  <2>2. Len(s) = Len(c) /\ \A k \in 1 .. Len(s) : s[k] = c[k]
    <3>1. \A k \in 1 .. 2 : k = 1 \/ k = 2
      OBVIOUS
    <3> HIDE DEF s
    <3>2. QED BY <1>2, <1>3, <1>5, <3>1
  <2> HIDE DEF s, c, L
  <2>3. s = c
    BY <2>1, <2>2, SeqEqual
  <2>4. QED BY <2>3 DEF c
<1>6. QED BY <1>4, <1>5

(* u begins with the ends of header lines, rem of them, and the empty one. *)
Headed(u, x, rem) ==
    /\ \A j \in 0 .. rem - 1 :
          /\ x[j] # "CR"
          /\ 3 * j + 1 <= Len(u) => u[3 * j + 1] = x[j]
          /\ 3 * j + 2 <= Len(u) => u[3 * j + 2] = "CR"
          /\ 3 * j + 3 <= Len(u) => u[3 * j + 3] = "LF"
    /\ 3 * rem + 1 <= Len(u) => u[3 * rem + 1] = "CR"
    /\ 3 * rem + 2 <= Len(u) => u[3 * rem + 2] = "LF"

Ends(u) == {i \in 0 .. Len(u) - 3 : SubSeq(u, i + 1, i + 2) = CrLf}

LEMMA EndsAre ==
    ASSUME NEW u \in Seq(Byte), NEW x, NEW rem \in Nat, Headed(u, x, rem)
    PROVE  /\ \A i \in Ends(u) : i < 3 * rem => \E j \in 0 .. rem - 1 : i = 3 * j + 1
           /\ \A j \in 0 .. rem - 1 : 3 * j + 1 <= Len(u) - 3 => 3 * j + 1 \in Ends(u)
           /\ 3 * rem <= Len(u) - 3 => 3 * rem \in Ends(u)
<1> DEFINE n == Len(u)
<1>1. n \in Nat
  BY LenProperties
<1>2. \A i \in 0 .. n - 3 : i \in Ends(u) <=> u[i + 1] = "CR" /\ u[i + 2] = "LF"
  BY PairIs DEF Ends
<1>3. Ends(u) \subseteq 0 .. n - 3
  BY DEF Ends
<1>4. ASSUME NEW i \in Ends(u), i < 3 * rem
      PROVE  \E j \in 0 .. rem - 1 : i = 3 * j + 1
  <2>1. i \in Nat /\ i <= n - 3 /\ u[i + 1] = "CR" /\ u[i + 2] = "LF"
    BY <1>1, <1>2, <1>3
  <2>2. PICK j \in Nat : i = 3 * j \/ i = 3 * j + 1 \/ i = 3 * j + 2
    BY <2>1, Thirds
  <2>3. j \in 0 .. rem - 1
    BY <1>4, <2>1, <2>2
  <2>4. i # 3 * j
    <3>1. SUFFICES ASSUME i = 3 * j PROVE FALSE
      OBVIOUS
    <3>2. 3 * j + 1 <= n
      BY <1>1, <2>1, <3>1
    <3>3. u[3 * j + 1] # "CR"
      BY <2>3, <3>2 DEF Headed
    <3>4. QED BY <2>1, <3>1, <3>3
  <2>5. i # 3 * j + 2
    <3>1. SUFFICES ASSUME i = 3 * j + 2 PROVE FALSE
      OBVIOUS
    <3>2. 3 * j + 3 <= n /\ i + 1 = 3 * j + 3
      BY <1>1, <2>1, <3>1
    <3>3. u[3 * j + 3] = "LF"
      BY <2>3, <3>2 DEF Headed
    <3>4. QED BY <2>1, <3>2, <3>3
  <2>6. QED BY <2>2, <2>3, <2>4, <2>5
<1>5. ASSUME NEW j \in 0 .. rem - 1, 3 * j + 1 <= n - 3 PROVE 3 * j + 1 \in Ends(u)
  <2>1. /\ 3 * j + 1 \in 0 .. n - 3 /\ (3 * j + 1) + 1 = 3 * j + 2
        /\ (3 * j + 1) + 2 = 3 * j + 3 /\ 3 * j + 2 <= n /\ 3 * j + 3 <= n
    BY <1>1, <1>5
  <2>2. u[3 * j + 2] = "CR" /\ u[3 * j + 3] = "LF"
    BY <2>1 DEF Headed
  <2>3. QED
    <3> DEFINE i == 3 * j + 1
    <3>1. i \in 0 .. n - 3 /\ u[i + 1] = "CR" /\ u[i + 2] = "LF"
      BY <2>1, <2>2
    <3> HIDE DEF i
    <3>2. i \in Ends(u)
      BY <1>2, <3>1
    <3>3. QED BY <3>2 DEF i
<1>6. ASSUME 3 * rem <= n - 3 PROVE 3 * rem \in Ends(u)
  <2>1. 3 * rem \in 0 .. n - 3 /\ 3 * rem + 1 <= n /\ 3 * rem + 2 <= n
    BY <1>1, <1>6
  <2>2. u[3 * rem + 1] = "CR" /\ u[3 * rem + 2] = "LF"
    BY <2>1 DEF Headed
  <2>3. QED BY <1>2, <2>1, <2>2
<1>7. QED BY <1>4, <1>5, <1>6

(* The local definitions of ParseHeader.                                   *)
EmptyEnds(u) == {i \in Ends(u) : i = 0 \/ i - 2 \in Ends(u)}
LineEnds(u) == IF EmptyEnds(u) = {} THEN Ends(u)
               ELSE {i \in Ends(u) : i < Min(EmptyEnds(u))}
LineStart(u, i) == Max({0} \cup {j + 2 : j \in {e \in Ends(u) : e < i}})
LinesIn(u) == {SubSeq(u, LineStart(u, i) + 1, i) : i \in LineEnds(u)}
HeaderSize(u) == IF EmptyEnds(u) # {} THEN Min(EmptyEnds(u)) + 2
                 ELSE IF Ends(u) # {} THEN Max(Ends(u)) + 2 ELSE 0

(* How many of rem lines are there, and whether the empty one is.          *)
LEMMA HeaderTakes ==
    ASSUME NEW u \in Seq(Byte), NEW x, NEW rem \in Nat, Headed(u, x, rem)
    PROVE  \E k \in 0 .. rem :
              /\ LineEnds(u) = {3 * j + 1 : j \in 0 .. k - 1} /\ 3 * k <= Len(u)
              /\ \/ /\ EmptyEnds(u) # {} /\ k = rem
                    /\ HeaderSize(u) = 3 * rem + 2 /\ 3 * rem + 3 <= Len(u)
                 \/ /\ EmptyEnds(u) = {} /\ HeaderSize(u) = 3 * k
                    /\ Len(u) <= 3 * rem + 2
<1> DEFINE n == Len(u)
           ends == Ends(u)
           empty == EmptyEnds(u)
<1>1. n \in Nat
  BY LenProperties
<1>2. /\ \A i \in ends : i < 3 * rem => \E j \in 0 .. rem - 1 : i = 3 * j + 1
      /\ \A j \in 0 .. rem - 1 : 3 * j + 1 <= n - 3 => 3 * j + 1 \in ends
      /\ 3 * rem <= n - 3 => 3 * rem \in ends
  BY EndsAre
<1>3. ends \subseteq 0 .. n - 3 /\ empty = {i \in ends : i = 0 \/ i - 2 \in ends}
  BY DEF Ends, EmptyEnds
<1> HIDE DEF n, ends, empty
<1>4. ASSUME NEW i \in empty PROVE i >= 3 * rem
  <2>1. SUFFICES ASSUME i < 3 * rem PROVE FALSE
    BY <1>1, <1>3
  <2>2. PICK j \in 0 .. rem - 1 : i = 3 * j + 1
    BY <1>2, <1>3, <2>1
  <2>3. i - 2 \in ends /\ i - 2 < 3 * rem
    BY <1>3, <2>2, <2>1
  <2>4. PICK l \in 0 .. rem - 1 : i - 2 = 3 * l + 1
    BY <1>2, <2>3
  <2>5. QED BY <2>2, <2>4
<1>5. CASE 3 * rem <= n - 3
  <2>1. 3 * rem \in empty
    <3>1. CASE rem = 0
      BY <1>2, <1>3, <1>5, <3>1
    <3>2. CASE rem # 0
      <4>1. rem - 1 \in 0 .. rem - 1 /\ 3 * (rem - 1) + 1 = 3 * rem - 2
            /\ 3 * (rem - 1) + 1 <= n - 3
        BY <1>1, <1>5, <3>2
      <4>2. 3 * rem - 2 \in ends
        BY <1>2, <4>1
      <4>3. QED BY <1>2, <1>3, <1>5, <4>2
    <3>3. QED BY <3>1, <3>2
  <2>2. Min(empty) = 3 * rem
    <3>1. empty \subseteq Int /\ \A y \in empty : 3 * rem <= y
      <4>1. \A y \in empty : y \in Int
        BY <1>3
      <4>2. \A y \in empty : y >= 3 * rem
        BY <1>4
      <4> HIDE DEF empty
      <4>3. QED BY <4>1, <4>2
    <3>2. QED BY <2>1, <3>1, MinIsThis
  <2>3. LineEnds(u) = {i \in ends : i < 3 * rem}
    BY <2>1, <2>2 DEF LineEnds, ends, empty
  <2>4. LineEnds(u) = {3 * j + 1 : j \in 0 .. rem - 1}
    <3>1. ASSUME NEW i \in LineEnds(u) PROVE i \in {3 * j + 1 : j \in 0 .. rem - 1}
      BY <1>2, <2>3
    <3>2. ASSUME NEW j \in 0 .. rem - 1 PROVE 3 * j + 1 \in LineEnds(u)
      <4>1. 3 * j + 1 <= n - 3 /\ 3 * j + 1 < 3 * rem
        BY <1>1, <1>5
      <4>2. QED BY <1>2, <2>3, <4>1
    <3>3. QED BY <3>1, <3>2
  <2>5. HeaderSize(u) = 3 * rem + 2 /\ EmptyEnds(u) # {}
    BY <2>1, <2>2 DEF HeaderSize, empty
  <2>6. rem \in 0 .. rem /\ 3 * rem <= n /\ 3 * rem + 3 <= n
    BY <1>1, <1>5
  <2>7. QED BY <2>4, <2>5, <2>6 DEF n
<1>6. CASE ~(3 * rem <= n - 3)
  <2>1. \A i \in ends : i < 3 * rem
    BY <1>1, <1>3, <1>6
  <2>2. empty = {}
    <3>1. \A i \in empty : FALSE
      BY <1>3, <1>4, <2>1
    <3>2. QED BY <3>1
  <2>3. \E k \in 0 .. rem : /\ 3 * k <= n
                            /\ \A j \in 0 .. rem - 1 : 3 * j + 1 <= n - 3 <=> j <= k - 1
    <3>1. CASE n = 0
      <4>1. 0 \in 0 .. rem /\ 3 * 0 <= n
        BY <3>1
      <4>2. \A j \in 0 .. rem - 1 : ~(3 * j + 1 <= n - 3) /\ ~(j <= 0 - 1)
        BY <3>1
      <4>3. QED BY <4>1, <4>2
    <3>2. CASE n # 0
      <4>1. n - 1 \in Nat
        BY <1>1, <3>2
      <4>2. PICK k \in Nat : n - 1 = 3 * k \/ n - 1 = 3 * k + 1 \/ n - 1 = 3 * k + 2
        BY <4>1, Thirds
      <4>3. k \in 0 .. rem /\ 3 * k <= n
        BY <1>1, <1>6, <4>2
      <4>4. \A j \in 0 .. rem - 1 : 3 * j + 1 <= n - 3 <=> j <= k - 1
        BY <1>1, <4>2
      <4>5. QED BY <4>3, <4>4
    <3>3. QED BY <3>1, <3>2
  <2>4. PICK k \in 0 .. rem : /\ 3 * k <= n
                              /\ \A j \in 0 .. rem - 1 : 3 * j + 1 <= n - 3 <=> j <= k - 1
    BY <2>3
  <2>5. ends = {3 * j + 1 : j \in 0 .. k - 1}
    <3>1. ASSUME NEW i \in ends PROVE i \in {3 * j + 1 : j \in 0 .. k - 1}
      <4>1. PICK j \in 0 .. rem - 1 : i = 3 * j + 1
        BY <1>2, <2>1
      <4>2. 3 * j + 1 <= n - 3
        BY <1>1, <1>3, <4>1
      <4>3. j \in 0 .. k - 1
        BY <2>4, <4>2
      <4>4. QED BY <4>1, <4>3
    <3>2. ASSUME NEW j \in 0 .. k - 1 PROVE 3 * j + 1 \in ends
      <4>1. j \in 0 .. rem - 1 /\ j <= k - 1
        BY <2>4
      <4>2. QED BY <1>2, <2>4, <4>1
    <3>3. QED BY <3>1, <3>2
  <2>6. LineEnds(u) = ends
    BY <2>2 DEF LineEnds, ends, empty
  <2>7. HeaderSize(u) = 3 * k
    <3>1. CASE k = 0
      <4>1. ends = {}
        BY <2>5, <3>1
      <4>2. QED BY <2>2, <3>1, <4>1 DEF HeaderSize, empty, ends
    <3>2. CASE k # 0
      <4>1. k - 1 \in 0 .. k - 1 /\ 3 * (k - 1) + 1 = 3 * k - 2
        BY <3>2
      <4>2. 3 * k - 2 \in ends
        BY <2>5, <4>1
      <4>3. ends \subseteq Int /\ \A y \in ends : y <= 3 * k - 2
        BY <2>5
      <4>4. Max(ends) = 3 * k - 2
        BY <4>2, <4>3, MaxIsThis
      <4>5. HeaderSize(u) = Max(ends) + 2
        BY <2>2, <4>2 DEF HeaderSize, empty, ends
      <4>6. QED BY <4>4, <4>5
    <3>3. QED BY <3>1, <3>2
  <2>8. n <= 3 * rem + 2
    BY <1>1, <1>6
  <2>9. QED BY <2>2, <2>4, <2>5, <2>6, <2>7, <2>8 DEF n, empty
<1>7. QED BY <1>5, <1>6

(* Each line is one header.                                                *)
LEMMA LinesAre ==
    ASSUME NEW u \in Seq(Byte), NEW x, NEW rem \in Nat, Headed(u, x, rem),
           NEW k \in 0 .. rem, 3 * k <= Len(u),
           LineEnds(u) = {3 * j + 1 : j \in 0 .. k - 1}
    PROVE  /\ \A l \in LinesIn(u) : \E j \in 0 .. k - 1 :
                 \A S : Occurs(S, l) <=> x[j] \in S
           /\ \A j \in 0 .. k - 1 : \E l \in LinesIn(u) :
                 \A S : Occurs(S, l) <=> x[j] \in S
<1>1. Len(u) \in Nat
  BY LenProperties
<1>2. LineEnds(u) \subseteq Ends(u)
  BY DEF LineEnds
<1>3. \A i \in Ends(u) : i < 3 * rem => \E j \in 0 .. rem - 1 : i = 3 * j + 1
  BY EndsAre
<1>4. ASSUME NEW j \in 0 .. k - 1 PROVE LineStart(u, 3 * j + 1) = 3 * j
  <2> DEFINE T == {0} \cup {i + 2 : i \in {e \in Ends(u) : e < 3 * j + 1}}
  <2>1. \A e \in Ends(u) : e < 3 * j + 1 => e \in Int /\ e + 2 <= 3 * j /\ e + 2 \in Int
    <3> SUFFICES ASSUME NEW e \in Ends(u), e < 3 * j + 1
                 PROVE  e \in Int /\ e + 2 <= 3 * j /\ e + 2 \in Int
      OBVIOUS
    <3>1. e \in Int
      BY DEF Ends
    <3>2. e < 3 * rem
      BY <3>1
    <3>3. PICK l \in 0 .. rem - 1 : e = 3 * l + 1
      BY <1>3, <3>2
    <3>4. QED BY <3>3
  <2>2. T \subseteq Int /\ \A y \in T : y <= 3 * j
    BY <2>1
  <2>3. 3 * j \in T
    <3>1. CASE j = 0
      BY <3>1
    <3>2. CASE j # 0
      <4>1. j - 1 \in 0 .. k - 1 /\ 3 * (j - 1) + 1 < 3 * j + 1 /\ (3 * (j - 1) + 1) + 2 = 3 * j
        BY <3>2
      <4>2. 3 * (j - 1) + 1 \in Ends(u)
        BY <1>2, <4>1
      <4> DEFINE e == 3 * (j - 1) + 1
      <4>3. e \in Ends(u) /\ e < 3 * j + 1 /\ e + 2 = 3 * j
        BY <4>1, <4>2
      <4> HIDE DEF e
      <4>4. QED BY <4>3
    <3>3. QED BY <3>1, <3>2
  <2> HIDE DEF T
  <2>4. Max(T) = 3 * j
    BY <2>2, <2>3, MaxIsThis
  <2>5. QED BY <2>4 DEF LineStart, T
<1>5. ASSUME NEW j \in 0 .. k - 1, NEW S
      PROVE  Occurs(S, SubSeq(u, LineStart(u, 3 * j + 1) + 1, 3 * j + 1)) <=> x[j] \in S
  <2> DEFINE i == 3 * j + 1
             l == SubSeq(u, i, i)
  <2>1. LineStart(u, 3 * j + 1) + 1 = i
    BY <1>4
  <2>2. i \in 1 .. Len(u) /\ i \in Int /\ i - i + 1 = 1 /\ i + 1 - 1 = i
    BY <1>1
  <2>3. u[i] = x[j]
    <3>1. j \in 0 .. rem - 1 /\ 3 * j + 1 <= Len(u)
      BY <1>1
    <3>2. QED BY <3>1 DEF Headed
  <2> HIDE DEF i
  <2>4. l \in Seq(Byte) /\ Len(l) = 1 /\ l[1] = u[i]
    <3>1. \A y \in i .. i : u[y] \in Byte
      <4>1. \A y \in i .. i : y \in 1 .. Len(u)
        BY <2>2
      <4>2. QED BY <4>1, ElementOfSeq
    <3>2. /\ SubSeq(u, i, i) \in Seq(Byte)
          /\ Len(SubSeq(u, i, i)) = IF i <= i THEN i - i + 1 ELSE 0
          /\ \A y \in 1 .. i - i + 1 : SubSeq(u, i, i)[y] = u[i + y - 1]
      BY <2>2, <3>1, SubSeqProperties
    <3>3. i <= i /\ 1 \in 1 .. 1
      BY <2>2
    <3>4. QED BY <2>2, <3>2, <3>3
  <2> HIDE DEF l
  <2>5. DOMAIN l = {1}
    <3>1. DOMAIN l = 1 .. 1
      BY <2>4, LenProperties
    <3>2. 1 .. 1 = {1}
      OBVIOUS
    <3>3. QED BY <3>1, <3>2
  <2>6. Occurs(S, l) <=> x[j] \in S
    BY <2>3, <2>4, <2>5 DEF Occurs
  <2>7. QED BY <2>1, <2>6 DEF l, i
<1>6. LinesIn(u) = {SubSeq(u, LineStart(u, 3 * j + 1) + 1, 3 * j + 1) : j \in 0 .. k - 1}
  BY DEF LinesIn
<1> DEFINE f(j) == SubSeq(u, LineStart(u, 3 * j + 1) + 1, 3 * j + 1)
<1>7. /\ LinesIn(u) = {f(j) : j \in 0 .. k - 1}
      /\ \A j \in 0 .. k - 1 : \A S : Occurs(S, f(j)) <=> x[j] \in S
  BY <1>5, <1>6
<1> HIDE DEF f
<1>8. QED BY <1>7

(* ParseHeader in the terms of these definitions.                          *)
LEMMA ParseHeaderIs ==
    ASSUME NEW q, q.expect = "header"
    PROVE  LET u == Unread(q.buf)
           IN  ParseHeader(q) =
                 IF \E l \in LinesIn(u) : ~Occurs(Headers, l)
                 THEN [q EXCEPT !.verdict = "throw"]
                 ELSE [q EXCEPT !.buf = Retrieve(q.buf, HeaderSize(u)),
                                !.headers = @ \cup {h \in Headers :
                                                      \E l \in LinesIn(u) : Occurs({h}, l)},
                                !.expect = IF EmptyEnds(u) = {} THEN "header" ELSE "body"]
  BY ZenonT(40) DEF ParseHeader, LinesIn, HeaderSize, EmptyEnds, LineEnds, LineStart, Ends

(* The lines and their ends, seen from the t-th line on.                   *)
LEMMA HeadedFrom ==
    ASSUME NEW b, NEW w, NEW names, NEW load, NEW m \in Nat, m = Len(names), NEW t \in 1 .. m + 1,
           Layout(w, names, load), Holds(b, w, 3 * t),
           \A i \in 1 .. m : names[i] # "CR"
    PROVE  Headed(Unread(b), [j \in 0 .. m - t |-> names[t + j]], (m + 1) - t)
<1> DEFINE u == Unread(b)
           n == Readable(b)
           x == [j \in 0 .. m - t |-> names[t + j]]
           rem == (m + 1) - t
<1>1. BufferOK(b, Byte) /\ \A i \in 1 .. n : u[i] = w[3 * t + i]
  BY DEF Holds
<1>2. Len(u) = n /\ n \in Nat
  BY <1>1, UnreadIs
<1> HIDE DEF u, n
<1>3. /\ \A i \in 1 .. m : w[3 * i + 1] = names[i]
      /\ \A i \in 0 .. m : w[3 * i + 2] = "CR" /\ w[3 * i + 3] = "LF"
      /\ w[3 * m + 4] = "CR" /\ w[3 * m + 5] = "LF"
  BY DEF Layout
<1>4. ASSUME NEW j \in 0 .. rem - 1
      PROVE  /\ x[j] # "CR"
             /\ 3 * j + 1 <= n => u[3 * j + 1] = x[j]
             /\ 3 * j + 2 <= n => u[3 * j + 2] = "CR"
             /\ 3 * j + 3 <= n => u[3 * j + 3] = "LF"
  <2>1. j \in 0 .. m - t /\ t + j \in 1 .. m /\ t + j \in 0 .. m
    OBVIOUS
  <2> DEFINE i == t + j
  <2>2. x[j] = names[i] /\ i \in 1 .. m /\ i \in 0 .. m
    BY <2>1
  <2>3. /\ 3 * t + (3 * j + 1) = 3 * i + 1 /\ 3 * t + (3 * j + 2) = 3 * i + 2
        /\ 3 * t + (3 * j + 3) = 3 * i + 3
    BY <2>1
  <2>4. /\ 3 * j + 1 <= n => 3 * j + 1 \in 1 .. n
        /\ 3 * j + 2 <= n => 3 * j + 2 \in 1 .. n
        /\ 3 * j + 3 <= n => 3 * j + 3 \in 1 .. n
    BY <1>2, <2>1
  <2> HIDE DEF i, x
  <2>5. /\ 3 * j + 1 <= n => u[3 * j + 1] = w[3 * i + 1]
        /\ 3 * j + 2 <= n => u[3 * j + 2] = w[3 * i + 2]
        /\ 3 * j + 3 <= n => u[3 * j + 3] = w[3 * i + 3]
    BY <1>1, <2>3, <2>4
  <2>6. QED BY <1>3, <2>2, <2>5
<1>5. /\ 3 * rem + 1 <= n => u[3 * rem + 1] = "CR"
      /\ 3 * rem + 2 <= n => u[3 * rem + 2] = "LF"
  <2>1. 3 * t + (3 * rem + 1) = 3 * m + 4 /\ 3 * t + (3 * rem + 2) = 3 * m + 5
    OBVIOUS
  <2>2. /\ 3 * rem + 1 <= n => 3 * rem + 1 \in 1 .. n
        /\ 3 * rem + 2 <= n => 3 * rem + 2 \in 1 .. n
    BY <1>2
  <2> HIDE DEF rem
  <2>3. QED BY <1>1, <1>3, <2>1, <2>2
<1>6. QED BY <1>2, <1>4, <1>5 DEF Headed, u

(* Where a parser stays that waits for more of the header.                 *)
HeaderShort(q, r, e) ==
    \E t \in 1 .. Len(r.names) + 1 :
        AtHeader(q, r, e, t) /\ Readable(q.buf) <= 3 * (Len(r.names) + 1 - t) + 2

LEMMA HeaderStep ==
    ASSUME NEW q, NEW r, NEW e, Formed(r), {"CR", "LF"} \cap Headers = {}, InHeader(q, r, e)
    PROVE  HeaderShort(ParseHeader(q), r, e) \/ InBody(ParseHeader(q), r, e)
<1> DEFINE m == Len(r.names)
           w == r.wire
           u == Unread(q.buf)
           n == Readable(q.buf)
           p == ParseHeader(q)
<1>1. /\ m \in Nat /\ \A i \in 1 .. m : r.names[i] \in Headers
      /\ Layout(w, r.names, Load(r))
  BY LenProperties, ElementOfSeq DEF Formed
<1>2. PICK t \in 1 .. m + 1 : AtHeader(q, r, e, t)
  BY DEF InHeader
<1>3. /\ q.expect = "header" /\ q.headers = Before(r, t) /\ q.chunks = <<>>
      /\ q.verdict = "more" /\ ParserOK(q) /\ Holds(q.buf, w, 3 * t) /\ 3 * t + n = e
  BY <1>2 DEF AtHeader, Taken
<1>4. BufferOK(q.buf, Byte) /\ u \in Seq(Byte) /\ Len(u) = n /\ n \in Nat
  BY <1>3, UnreadIs DEF ParserOK
<1> DEFINE rem == (m + 1) - t
           x == [j \in 0 .. m - t |-> r.names[t + j]]
<1>5. rem \in Nat /\ Headed(u, x, rem)
  <2>1. rem \in Nat
    BY <1>1
  <2>2. \A i \in 1 .. m : r.names[i] # "CR"
    BY <1>1
  <2>3. QED BY <1>1, <1>3, <2>1, <2>2, HeadedFrom
<1>6. \A j \in 0 .. rem - 1 : x[j] = r.names[t + j] /\ t + j \in 1 .. m
  BY <1>1
<1> HIDE DEF u, x, p, rem
<1>7. PICK k \in 0 .. rem :
         /\ LineEnds(u) = {3 * j + 1 : j \in 0 .. k - 1} /\ 3 * k <= Len(u)
         /\ \/ /\ EmptyEnds(u) # {} /\ k = rem
               /\ HeaderSize(u) = 3 * rem + 2 /\ 3 * rem + 3 <= Len(u)
            \/ /\ EmptyEnds(u) = {} /\ HeaderSize(u) = 3 * k
               /\ Len(u) <= 3 * rem + 2
  BY <1>4, <1>5, HeaderTakes
<1>8. /\ \A l \in LinesIn(u) : \E j \in 0 .. k - 1 : \A S : Occurs(S, l) <=> x[j] \in S
      /\ \A j \in 0 .. k - 1 : \E l \in LinesIn(u) : \A S : Occurs(S, l) <=> x[j] \in S
  BY <1>4, <1>5, <1>7, LinesAre
<1>9. \A j \in 0 .. k - 1 : x[j] = r.names[t + j] /\ t + j \in 1 .. m
  <2>1. \A j \in 0 .. k - 1 : j \in 0 .. rem - 1
    BY <1>5, <1>7
  <2>2. QED BY <1>6, <2>1
<1>10. \A l \in LinesIn(u) : Occurs(Headers, l)
  BY <1>1, <1>8, <1>9
<1>11. {h \in Headers : \E l \in LinesIn(u) : Occurs({h}, l)}
          = {r.names[t + j] : j \in 0 .. k - 1}
  <2>1. ASSUME NEW h \in Headers, NEW l \in LinesIn(u), Occurs({h}, l)
        PROVE  \E j \in 0 .. k - 1 : h = r.names[t + j]
    <3>1. PICK j \in 0 .. k - 1 : \A S : Occurs(S, l) <=> x[j] \in S
      BY <1>8
    <3>2. x[j] \in {h}
      BY <2>1, <3>1
    <3>3. QED BY <1>9, <3>2
  <2>2. ASSUME NEW j \in 0 .. k - 1
        PROVE  r.names[t + j] \in Headers /\ \E l \in LinesIn(u) : Occurs({r.names[t + j]}, l)
    <3>1. PICK l \in LinesIn(u) : \A S : Occurs(S, l) <=> x[j] \in S
      BY <1>8
    <3>2. x[j] = r.names[t + j] /\ r.names[t + j] \in Headers
      BY <1>1, <1>9
    <3>3. QED BY <3>1, <3>2
  <2> DEFINE A == {h \in Headers : \E l \in LinesIn(u) : Occurs({h}, l)}
             B == {r.names[t + j] : j \in 0 .. k - 1}
  <2>3. \A h \in A : h \in B
    BY <2>1
  <2>4. \A h \in B : h \in A
    BY <2>2
  <2> HIDE DEF A, B
  <2>5. A = B
    BY <2>3, <2>4
  <2>6. QED BY <2>5 DEF A, B
<1>12. Before(r, t) \cup {r.names[t + j] : j \in 0 .. k - 1} = Before(r, t + k)
  <2>1. ASSUME NEW i \in 1 .. (t + k) - 1
        PROVE  i \in 1 .. t - 1 \/ \E j \in 0 .. k - 1 : i = t + j
    <3>1. CASE i < t
      BY <3>1
    <3>2. CASE i >= t
      <4>1. i - t \in 0 .. k - 1 /\ i = t + (i - t)
        BY <3>2
      <4>2. QED BY <4>1
    <3>3. QED BY <3>1, <3>2
  <2>2. \A i \in 1 .. t - 1 : i \in 1 .. (t + k) - 1
    OBVIOUS
  <2>3. \A j \in 0 .. k - 1 : t + j \in 1 .. (t + k) - 1
    OBVIOUS
  <2>4. QED BY <2>1, <2>2, <2>3 DEF Before
<1>13. p = [q EXCEPT !.buf = Retrieve(q.buf, HeaderSize(u)),
                     !.headers = @ \cup {r.names[t + j] : j \in 0 .. k - 1},
                     !.expect = IF EmptyEnds(u) = {} THEN "header" ELSE "body"]
  <2>1. ~(\E l \in LinesIn(u) : ~Occurs(Headers, l))
    BY <1>10
  <2>2. QED BY <1>3, <1>11, <2>1, ParseHeaderIs DEF p, u
<1>14. /\ p.buf = Retrieve(q.buf, HeaderSize(u)) /\ p.headers = Before(r, t + k)
       /\ p.expect = (IF EmptyEnds(u) = {} THEN "header" ELSE "body")
       /\ p.chunks = <<>> /\ p.verdict = "more" /\ DOMAIN p = DOMAIN q
  BY <1>3, <1>12, <1>13 DEF ParserOK
<1>15. t + k \in 1 .. m + 1
  BY <1>1, <1>5 DEF rem
<1>16. ASSUME HeaderSize(u) \in 0 .. n
       PROVE  Taken(p, r, 3 * t + HeaderSize(u), e) /\ Readable(p.buf) = n - HeaderSize(u)
  <2> DEFINE z == HeaderSize(u)
  <2>1. z \in 0 .. Readable(q.buf)
    BY <1>16
  <2> HIDE DEF z
  <2>2. Holds(Retrieve(q.buf, z), w, 3 * t + z) /\ Readable(Retrieve(q.buf, z)) = n - z
    BY <1>3, <2>1, RetrieveHolds
  <2>3. (3 * t + z) + (n - z) = e
    BY <1>3, <1>4, <2>1
  <2>4. p.buf = Retrieve(q.buf, z)
    BY <1>14 DEF z
  <2>5. ParserOK(p)
    BY <1>3, <1>14, <2>2, <2>4 DEF ParserOK, Holds
  <2>6. Taken(p, r, 3 * t + z, e) /\ Readable(p.buf) = n - z
    BY <1>14, <2>2, <2>3, <2>4, <2>5 DEF Taken
  <2>7. QED BY <2>6 DEF z
<1>17. CASE EmptyEnds(u) = {}
  <2>1. HeaderSize(u) = 3 * k /\ n <= 3 * rem + 2 /\ HeaderSize(u) \in 0 .. n
    BY <1>4, <1>5, <1>7, <1>17
  <2>2. 3 * t + 3 * k = 3 * (t + k) /\ n - 3 * k <= 3 * (m + 1 - (t + k)) + 2
    BY <1>1, <1>4, <2>1 DEF rem
  <2>3. Taken(p, r, 3 * (t + k), e) /\ Readable(p.buf) <= 3 * (m + 1 - (t + k)) + 2
    BY <1>16, <2>1, <2>2
  <2>4. AtHeader(p, r, e, t + k)
    BY <1>14, <1>17, <2>3 DEF AtHeader
  <2>5. HeaderShort(p, r, e)
    BY <1>15, <2>3, <2>4 DEF HeaderShort
  <2>6. QED BY <2>5 DEF p
<1>18. CASE EmptyEnds(u) # {}
  <2>1. HeaderSize(u) = 3 * rem + 2 /\ k = rem /\ HeaderSize(u) \in 0 .. n
    BY <1>4, <1>5, <1>7, <1>18
  <2>2. 3 * t + HeaderSize(u) = Top(r) /\ t + k = m + 1
    <3> DEFINE size == HeaderSize(u)
    <3>1. size = 3 * k + 2 /\ k = (m + 1) - t /\ m \in Nat /\ t \in Nat /\ Top(r) = 3 * m + 5
      BY <1>1, <2>1 DEF rem, Top
    <3> HIDE DEF size, m
    <3>2. QED BY <3>1 DEF size
  <2>3. Taken(p, r, Top(r), e)
    BY <1>16, <2>1, <2>2
  <2>4. p.headers = r.headers /\ p.expect = "body"
    BY <1>14, <1>18, <2>2 DEF Formed
  <2>5. InBody(p, r, e)
    <3>1. CASE r.lines = <<>>
      BY <2>3, <2>4, <3>1 DEF InBody
    <3>2. CASE r.lines # <<>>
      <4>1. PICK off : ChunksLie(off, Chunked(r.lines, r.parts), r.lines, r.parts)
        BY <3>2 DEF Formed
      <4>2. off[0] = 0
        BY <4>1 DEF ChunksLie
      <4>3. 0 \in 0 .. Len(r.lines) - 1
        BY <3>2, LenProperties, EmptySeq DEF Formed
      <4>4. Top(r) + off[0] = Top(r)
        BY <1>1, <4>2 DEF Top
      <4>5. SubSeq(r.parts, 1, 0) = <<>>
        BY SubSeqEmpty
      <4>6. Taken(p, r, Top(r) + off[0], e) /\ p.chunks = SubSeq(r.parts, 1, 0)
        BY <1>14, <2>3, <4>4, <4>5
      <4>7. QED BY <2>4, <3>2, <4>1, <4>3, <4>6 DEF InBody
    <3>3. QED BY <3>1, <3>2
  <2>6. QED BY <2>5 DEF p
<1>19. QED BY <1>17, <1>18

(* The answer as it was sent.                                              *)
AsSent(q, r) == q.body = r.body /\ q.headers = r.headers

(* What waits in a body: of a body without chunks, less than all of it.    *)
BodyShort(q, r, e) ==
    InBody(q, r, e) /\ (r.lines = <<>> => Readable(q.buf) < Len(r.body))

BodyOutcome(p, r, e) ==
    \/ p.cut /\ "T" \in r.headers
    \/ p.verdict \in {"throw", "undefined"}
    \/ p.verdict = "done" /\ AsSent(p, r)
    \/ p.verdict = "more" /\ BodyShort(p, r, e)

LEMMA LengthStep ==
    ASSUME NEW q, NEW r, NEW e, Formed(r), InBody(q, r, e), r.lines = <<>>,
           r.body \in Seq(Range(r.body)), q.headers \cap DOMAIN LengthOf # {}
    PROVE  BodyOutcome(ParseBody(q), r, e)
<1> DEFINE h == CHOOSE x \in q.headers : x \in DOMAIN LengthOf
           n == Readable(q.buf)
           k == Len(r.body)
           p == ParseBody(q)
           c == Top(r)
<1>1. /\ q.expect = "body" /\ q.headers = r.headers /\ ParserOK(q)
      /\ Holds(q.buf, r.wire, c) /\ c + n = e /\ q.verdict = "more"
  BY DEF InBody, Taken
<1>2. h \in r.headers \cap DOMAIN LengthOf
  BY <1>1
<1>3. LengthOf[h] = k
  <2> HIDE DEF h
  <2>1. QED BY <1>2 DEF Formed
<1>4. p = IF n < k THEN q
          ELSE [q EXCEPT !.body = Bytes(q.buf, k), !.buf = Retrieve(q.buf, k),
                         !.verdict = "done"]
  <2>1. p = ContentLengthBody(q)
    BY <1>1 DEF ParseBody
  <2>2. ContentLengthBody(q) = IF Readable(q.buf) < LengthOf[h] THEN q
          ELSE [q EXCEPT !.body = Bytes(q.buf, LengthOf[h]),
                         !.buf = Retrieve(q.buf, LengthOf[h]), !.verdict = "done"]
    BY DEF ContentLengthBody
  <2> HIDE DEF h, p
  <2>3. QED BY <1>3, <2>1, <2>2
<1>5. k \in Nat /\ n \in Nat /\ k = Len(Load(r)) /\ Load(r) = r.body
  BY <1>1, HoldsMemory, LenProperties DEF Load
<1>6. CASE n < k
  <2>1. p = q
    BY <1>4, <1>6
  <2> HIDE DEF p, k, n
  <2>2. BodyShort(p, r, e)
    BY <1>6, <2>1 DEF BodyShort, k, n
  <2>3. QED BY <1>1, <2>1, <2>2 DEF BodyOutcome, p
<1>7. CASE ~(n < k)
  <2>1. k \in 0 .. Readable(q.buf)
    BY <1>5, <1>7
  <2> HIDE DEF k
  <2>2. /\ Len(Bytes(q.buf, k)) = k /\ Bytes(q.buf, k) \in Seq(Byte)
        /\ \A i \in 1 .. k : Bytes(q.buf, k)[i] = r.wire[c + i]
    BY <1>1, <2>1, RetrieveHolds
  <2>3. \A i \in 1 .. k : r.wire[c + i] = r.body[i]
    BY <1>5 DEF Formed, Layout, Top
  <2>4. Bytes(q.buf, k) = r.body
    <3> DEFINE s == Bytes(q.buf, k)
               B == Byte \cup Range(r.body)
    <3>1. s \in Seq(B) /\ r.body \in Seq(B)
      <4>1. Byte \subseteq B /\ Range(r.body) \subseteq B
        OBVIOUS
      <4> HIDE DEF B, s
      <4>2. QED BY <2>2, <4>1, SeqMonotonic DEF s
    <3>2. Len(s) = Len(r.body) /\ \A i \in 1 .. Len(s) : s[i] = r.body[i]
      BY <2>2, <2>3 DEF k
    <3> HIDE DEF s, B
    <3>3. s = r.body
      BY <3>1, <3>2, SeqEqual
    <3>4. QED BY <3>3 DEF s
  <2>5. p = [q EXCEPT !.body = r.body, !.buf = Retrieve(q.buf, k), !.verdict = "done"]
    BY <1>4, <1>7, <2>4
  <2>6. p.body = r.body /\ p.headers = r.headers /\ p.verdict = "done"
    BY <1>1, <2>5 DEF ParserOK
  <2> HIDE DEF p
  <2>7. QED BY <2>6 DEF BodyOutcome, AsSent, p
<1>8. QED BY <1>6, <1>7

LEMMA PartsTaken ==
    ASSUME NEW S, NEW s \in Seq(S), NEW j \in Nat, j + 1 \in 1 .. Len(s)
    PROVE  Append(SubSeq(s, 1, j), s[j + 1]) = SubSeq(s, 1, j + 1)
<1>1. Len(s) \in Nat /\ 1 \in 1 .. Len(s) /\ j + 1 \in 1 .. Len(s) /\ (j + 1) - 1 = j
  BY LenProperties
<1>2. SubSeq(s, 1, j + 1) = SubSeq(s, 1, j) \o <<s[j + 1]>>
  <2> DEFINE n == j + 1
  <2>1. n \in 1 .. Len(s) /\ n - 1 = j
    BY <1>1
  <2> HIDE DEF n
  <2>2. SubSeq(s, 1, n) = SubSeq(s, 1, n - 1) \o <<s[n]>>
    BY <1>1, <2>1, SubSeqRecursiveSecond
  <2>3. QED BY <2>1, <2>2 DEF n
<1>3. SubSeq(s, 1, j) \in Seq(S) /\ s[j + 1] \in S
  <2>1. \A i \in 1 .. j : s[i] \in S
    <3>1. \A i \in 1 .. j : i \in 1 .. Len(s)
      BY <1>1
    <3>2. QED BY <3>1, ElementOfSeq
  <2>2. 1 \in Int /\ j \in Int
    OBVIOUS
  <2>3. SubSeq(s, 1, j) \in Seq(S)
    BY <2>1, <2>2, SubSeqProperties
  <2>4. QED BY <1>1, <2>3, ElementOfSeq
<1>4. QED
  <2> DEFINE t == SubSeq(s, 1, j)
             x == s[j + 1]
  <2>1. t \in Seq(S) /\ x \in S
    BY <1>3
  <2> HIDE DEF t, x
  <2>2. Append(t, x) = t \o <<x>>
    BY <2>1, AppendIsConcat
  <2>3. QED BY <1>2, <2>2 DEF t, x

LEMMA ChunkStep ==
    ASSUME NEW q, NEW r, NEW e, Formed(r), WellFormed(r), InBody(q, r, e), r.lines # <<>>,
           {"CR", "LF"} \cap DOMAIN ChunkSize = {}
    PROVE  BodyOutcome(ParseBody(q), r, e)
<1> DEFINE p == ParseBody(q)
           n == Readable(q.buf)
           i == Find(q.buf, CrLf, 0)
           line == Bytes(q.buf, i)
           last == Len(r.lines)
           load == Chunked(r.lines, r.parts)
<1>1. /\ q.expect = "body" /\ q.headers = r.headers
      /\ q.headers \cap DOMAIN LengthOf = {} /\ "T" \in q.headers
  BY DEF InBody, WellFormed
<1>2. PICK off : /\ ChunksLie(off, load, r.lines, r.parts)
                 /\ \E j \in 0 .. last - 1 : /\ Taken(q, r, Top(r) + off[j], e)
                                             /\ q.chunks = SubSeq(r.parts, 1, j)
  BY DEF InBody
<1>3. PICK j \in 0 .. last - 1 : /\ Taken(q, r, Top(r) + off[j], e)
                                 /\ q.chunks = SubSeq(r.parts, 1, j)
  BY <1>2
<1> DEFINE c == Top(r) + off[j]
           part == r.parts[j + 1]
           size == Len(part)
           x == r.lines[j + 1]
<1>4. /\ ParserOK(q) /\ Holds(q.buf, r.wire, c) /\ c + n = e /\ q.verdict = "more"
      /\ n \in Nat /\ c \in Nat
  <2>1. /\ ParserOK(q) /\ Holds(q.buf, r.wire, c) /\ c + n = e /\ q.verdict = "more"
    BY <1>3 DEF Taken
  <2>2. QED BY <2>1, HoldsMemory
<1>5. /\ last \in Nat /\ j + 1 \in 1 .. last /\ j \in Nat /\ j \in 0 .. last
      /\ r.parts \in Seq(Range(r.parts)) /\ Len(r.parts) = last
      /\ part \in Seq(Range(part)) /\ size \in Nat /\ size = ChunkSize[x]
      /\ (part = <<>> <=> j + 1 = last) /\ x \in DOMAIN ChunkSize
      /\ r.body = FlattenSeq(r.parts)
  <2>1. /\ r.lines \in Seq(DOMAIN ChunkSize) /\ r.parts \in Seq(Range(r.parts))
        /\ Len(r.parts) = last /\ r.body = FlattenSeq(r.parts)
        /\ \A y \in DOMAIN r.parts :
                  /\ r.parts[y] \in Seq(Range(r.parts[y]))
                  /\ Len(r.parts[y]) = ChunkSize[r.lines[y]]
                  /\ r.parts[y] = <<>> <=> y = Len(r.parts)
    BY DEF WellFormed
  <2>2. last \in Nat /\ DOMAIN r.parts = 1 .. last
    BY <2>1, LenProperties
  <2>3. j + 1 \in 1 .. last /\ j \in Nat /\ j \in 0 .. last
    BY <2>2
  <2>4. x \in DOMAIN ChunkSize
    BY <2>1, <2>3, ElementOfSeq
  <2>5. part \in Seq(Range(part)) /\ size = ChunkSize[x] /\ (part = <<>> <=> j + 1 = last)
    BY <2>1, <2>2, <2>3
  <2>6. size \in Nat
    BY <2>5, LenProperties
  <2>7. QED BY <2>1, <2>2, <2>3, <2>4, <2>5, <2>6
<1>6. /\ off[j + 1] = off[j] + size + 5 /\ off[j] \in Nat
      /\ load[off[j] + 1] = x /\ load[off[j] + 2] = "CR" /\ load[off[j] + 3] = "LF"
      /\ \A y \in 1 .. size : load[(off[j] + 3) + y] = part[y]
      /\ off[j + 1] <= Len(load)
  <2>1. (j + 1) - 1 = j
    BY <1>5
  <2>2. off[j] \in Nat
    BY <1>2, <1>5 DEF ChunksLie
  <2>3. \A y \in 1 .. last :
          /\ off[y] = off[y - 1] + Len(r.parts[y]) + 5 /\ off[y] <= Len(load)
          /\ load[off[y - 1] + 1] = r.lines[y]
          /\ load[off[y - 1] + 2] = "CR" /\ load[off[y - 1] + 3] = "LF"
          /\ \A v \in 1 .. Len(r.parts[y]) : load[(off[y - 1] + 3) + v] = r.parts[y][v]
    <3> HIDE DEF load
    <3>1. QED BY <1>2 DEF ChunksLie
  <2> DEFINE y == j + 1
  <2>4. y \in 1 .. last /\ y - 1 = j
    BY <1>5, <2>1
  <2> HIDE DEF y, load, last
  <2>5. /\ off[y] = off[j] + Len(r.parts[y]) + 5 /\ off[y] <= Len(load)
        /\ load[off[j] + 1] = r.lines[y]
        /\ load[off[j] + 2] = "CR" /\ load[off[j] + 3] = "LF"
        /\ \A v \in 1 .. Len(r.parts[y]) : load[(off[j] + 3) + v] = r.parts[y][v]
    BY <2>3, <2>4
  <2>6. QED BY <2>2, <2>5 DEF y
<1>7. \A y \in 1 .. size + 5 : r.wire[c + y] = load[off[j] + y]
  <2> SUFFICES ASSUME NEW y \in 1 .. size + 5 PROVE r.wire[c + y] = load[off[j] + y]
    OBVIOUS
  <2>1. Layout(r.wire, r.names, load) /\ Len(load) \in Nat /\ Len(r.names) \in Nat
    BY LenProperties DEF Formed, Load
  <2>2. \A v \in 1 .. Len(load) : r.wire[Top(r) + v] = load[v]
    BY <2>1 DEF Layout, Top
  <2>3. Top(r) \in Nat
    BY <2>1 DEF Top
  <2> DEFINE v == off[j] + y
  <2>4. v \in 1 .. Len(load) /\ c + y = Top(r) + v
    <3> DEFINE o == off[j]
               z == Len(load)
               g == Top(r)
    <3>1. o \in Nat /\ z \in Nat /\ g \in Nat /\ size \in Nat /\ o + size + 5 <= z
      BY <1>5, <1>6, <2>1, <2>3
    <3>2. v = o + y /\ c = g + o
      OBVIOUS
    <3> HIDE DEF o, z, g, size, v, c
    <3>3. v \in 1 .. z /\ c + y = g + v
      BY <3>1, <3>2
    <3>4. QED BY <3>3 DEF z, g
  <2> HIDE DEF v, c
  <2>5. r.wire[c + y] = load[v]
    BY <2>2, <2>4
  <2>6. QED BY <2>5 DEF v
<1>8. /\ r.wire[c + 1] = x /\ r.wire[c + 2] = "CR" /\ r.wire[c + 3] = "LF" /\ x # "CR"
      /\ \A y \in 1 .. size : r.wire[(c + 3) + y] = part[y]
  <2>1. 1 \in 1 .. size + 5 /\ 2 \in 1 .. size + 5 /\ 3 \in 1 .. size + 5
    BY <1>5
  <2>2. x # "CR"
    BY <1>5
  <2>3. ASSUME NEW y \in 1 .. size PROVE r.wire[(c + 3) + y] = part[y]
    <3> DEFINE v == 3 + y
    <3>1. v \in 1 .. size + 5 /\ (c + 3) + y = c + v /\ (off[j] + 3) + y = off[j] + v
      <4> DEFINE o == off[j]
      <4>1. o \in Nat /\ c \in Nat /\ size \in Nat
        BY <1>4, <1>5, <1>6
      <4> HIDE DEF o, c, size
      <4>2. v \in 1 .. size + 5 /\ (c + 3) + y = c + v /\ (o + 3) + y = o + v
        BY <4>1
      <4>3. QED BY <4>2 DEF o
    <3> HIDE DEF v, c
    <3>2. r.wire[c + v] = load[off[j] + v]
      BY <1>7, <3>1
    <3>3. QED BY <1>6, <3>1, <3>2
  <2> HIDE DEF c
  <2>4. r.wire[c + 1] = x /\ r.wire[c + 2] = "CR" /\ r.wire[c + 3] = "LF"
    BY <1>6, <1>7, <2>1
  <2>5. QED BY <2>2, <2>3, <2>4
<1>9. i = IF n < 4 THEN -1 ELSE 1
  <2> HIDE DEF c
  <2>1. QED BY <1>4, <1>8, LineFound
<1>10. p = TakeLine(q, ChunkBody)
  BY <1>1 DEF ParseBody
<1> HIDE DEF c, part, size, x, load, last
<1>11. CASE n < 4
  <2>1. p = [q EXCEPT !.verdict = "more"]
    BY <1>9, <1>10, <1>11 DEF TakeLine
  <2>2. /\ p.buf = q.buf /\ p.expect = "body" /\ p.headers = r.headers
        /\ p.chunks = SubSeq(r.parts, 1, j) /\ p.verdict = "more" /\ DOMAIN p = DOMAIN q
    BY <1>1, <1>3, <2>1 DEF ParserOK
  <2> HIDE DEF p
  <2>3. Taken(p, r, Top(r) + off[j], e)
    BY <1>4, <2>2 DEF Taken, ParserOK, c
  <2>4. InBody(p, r, e)
    BY <1>2, <2>2, <2>3 DEF InBody, load, last
  <2>5. QED BY <2>2, <2>4 DEF BodyOutcome, BodyShort, p
<1>12. CASE ~(n < 4)
  <2>1. i = 1
    BY <1>9, <1>12
  <2> DEFINE d == Retrieve(q.buf, 3)
             a == [q EXCEPT !.buf = d]
             got == Bytes(d, size)
             chunks == Append(q.chunks, got)
  <2>2. line[1] = x /\ Len(line) = 1 /\ line \in Seq(Byte)
    <3>1. i \in 0 .. Readable(q.buf)
      BY <1>4, <1>12, <2>1
    <3> HIDE DEF i
    <3>2. /\ Len(line) = i /\ line \in Seq(Byte)
          /\ \A y \in 1 .. i : line[y] = r.wire[c + y]
      <4>1. Holds(q.buf, r.wire, c)
        BY <1>4
      <4> HIDE DEF n
      <4>2. QED BY <3>1, <4>1, RetrieveHolds
    <3>3. 1 \in 1 .. 1
      OBVIOUS
    <3>4. QED BY <1>8, <2>1, <3>2, <3>3
  <2>3. SizeOf(line) = size
    <3>1. line # <<>> /\ Head(line) = x
      BY <2>2
    <3>2. QED BY <1>5, <3>1 DEF SizeOf
  <2>4. p = ChunkBody([q EXCEPT !.buf = Retrieve(q.buf, i + 2)], line)
    <3> HIDE DEF line, i
    <3>1. i # -1
      BY <2>1
    <3>2. QED BY <1>10, <3>1 DEF TakeLine, line, i
  <2>5. i + 2 = 3
    BY <2>1
  <2> HIDE DEF line, i, p
  <2>6. p = ChunkBody(a, line)
    BY <2>4, <2>5
  <2>7. a.buf = d /\ a.chunks = q.chunks /\ DOMAIN a = DOMAIN q /\ a.expect = "body"
        /\ a.headers = r.headers
    BY <1>1, <1>4 DEF ParserOK
  <2> HIDE DEF a
  <2>8. p = [a EXCEPT !.buf = Retrieve(d, size + 2), !.chunks = chunks,
                  !.cut = @ \/ (size > 0 /\ Readable(d) < size + 2),
                  !.verdict = IF size = 0 THEN "done" ELSE "more",
                  !.body = IF size = 0 THEN FlattenSeq(chunks) ELSE @]
    BY <2>3, <2>6, <2>7 DEF ChunkBody
  <2> HIDE DEF chunks, d
  <2>9. /\ p.buf = Retrieve(d, size + 2) /\ p.chunks = chunks
        /\ p.cut = (a.cut \/ (size > 0 /\ Readable(d) < size + 2))
        /\ p.verdict = (IF size = 0 THEN "done" ELSE "more")
        /\ (size = 0 => p.body = FlattenSeq(chunks))
        /\ p.expect = "body" /\ p.headers = r.headers /\ DOMAIN p = DOMAIN q
    BY <1>4, <2>7, <2>8 DEF ParserOK
  <2>10. Holds(d, r.wire, c + 3) /\ Readable(d) = n - 3
    <3>1. 3 \in 0 .. Readable(q.buf)
      BY <1>4, <1>12
    <3>2. QED BY <1>4, <3>1, RetrieveHolds DEF d
  <2>11. ASSUME got = part PROVE chunks = SubSeq(r.parts, 1, j + 1)
    BY <1>3, <1>5, <2>11, PartsTaken DEF chunks, part
  <2>12. CASE size > 0 /\ Readable(d) < size + 2
    BY <1>1, <2>9, <2>12 DEF BodyOutcome, p
  <2>13. CASE size = 0
    <3>1. got = part
      <4>1. 0 \in 0 .. Readable(d)
        BY <1>4, <1>12, <2>10
      <4>2. Len(Bytes(d, 0)) = 0 /\ Bytes(d, 0) \in Seq(Byte)
        BY <2>10, <4>1, BytesAre DEF Holds
      <4>3. Bytes(d, 0) = <<>> /\ part = <<>>
        BY <1>5, <2>13, <4>2, EmptySeq DEF size
      <4>4. QED BY <2>13, <4>3
    <3>2. j + 1 = last
      BY <1>5, <2>13, EmptySeq DEF size
    <3>3. chunks = r.parts
      BY <1>5, <2>11, <3>1, <3>2, SubSeqFull
    <3>4. p.body = r.body /\ p.headers = r.headers /\ p.verdict = "done"
      BY <1>5, <2>9, <2>13, <3>3
    <3>5. QED BY <3>4 DEF BodyOutcome, AsSent, p
  <2>14. CASE size > 0 /\ ~(Readable(d) < size + 2)
    <3>1. size \in 0 .. Readable(d) /\ size + 2 \in 0 .. Readable(d) /\ size \in Nat
      BY <1>4, <1>5, <2>10, <2>14
    <3>2. got = part
      <4>1. /\ Len(got) = size /\ got \in Seq(Byte)
            /\ \A y \in 1 .. size : got[y] = r.wire[(c + 3) + y]
        BY <2>10, <3>1, RetrieveHolds
      <4> DEFINE B == Byte \cup Range(part)
      <4> HIDE DEF got
      <4>2. got \in Seq(B) /\ part \in Seq(B)
        <5>1. Byte \subseteq B /\ Range(part) \subseteq B
          OBVIOUS
        <5> HIDE DEF B
        <5>2. QED BY <1>5, <4>1, <5>1, SeqMonotonic
      <4>3. Len(got) = Len(part) /\ \A y \in 1 .. Len(got) : got[y] = part[y]
        BY <1>8, <4>1 DEF size
      <4> HIDE DEF B
      <4>4. QED BY <4>2, <4>3, SeqEqual
    <3>3. j + 1 \in 0 .. last - 1
      <4>1. part # <<>>
        BY <2>14, EmptySeq DEF size
      <4>2. QED BY <1>5, <4>1
    <3>4. Holds(p.buf, r.wire, (c + 3) + (size + 2)) /\ Readable(p.buf) = (n - 3) - (size + 2)
      <4> DEFINE k == size + 2
      <4>1. k \in 0 .. Readable(d)
        BY <3>1
      <4> HIDE DEF k
      <4>2. Holds(Retrieve(d, k), r.wire, (c + 3) + k) /\ Readable(Retrieve(d, k)) = (n - 3) - k
        BY <2>10, <4>1, RetrieveHolds
      <4>3. QED BY <2>9, <4>2 DEF k
    <3>5. (c + 3) + (size + 2) = Top(r) + off[j + 1]
      <4>1. Top(r) \in Nat
        BY LenProperties DEF Top, Formed
      <4> DEFINE o == off[j]
                 g == Top(r)
      <4>2. /\ o \in Nat /\ g \in Nat /\ size \in Nat /\ c = g + o
            /\ off[j + 1] = o + size + 5
        BY <1>6, <3>1, <4>1 DEF c
      <4> HIDE DEF o, g
      <4>3. (c + 3) + (size + 2) = g + off[j + 1]
        BY <4>2
      <4>4. QED BY <4>3 DEF g
    <3>6. (Top(r) + off[j + 1]) + Readable(p.buf) = e
      BY <1>4, <3>1, <3>4, <3>5
    <3>7. p.verdict = "more" /\ ParserOK(p)
      <4>1. BufferOK(p.buf, Byte)
        BY <3>4 DEF Holds
      <4>2. size # 0
        BY <2>14
      <4>3. QED BY <1>4, <2>9, <4>1, <4>2 DEF ParserOK
    <3>8. Taken(p, r, Top(r) + off[j + 1], e)
      BY <3>4, <3>5, <3>6, <3>7 DEF Taken
    <3>9. p.chunks = SubSeq(r.parts, 1, j + 1)
      BY <2>9, <2>11, <3>2
    <3>10. InBody(p, r, e)
      BY <1>2, <2>9, <3>3, <3>8, <3>9 DEF InBody, load, last
    <3>11. QED BY <3>7, <3>10 DEF BodyOutcome, BodyShort, p
  <2>15. size = 0 \/ size > 0
    BY <1>5
  <2>16. QED BY <2>12, <2>13, <2>14, <2>15
<1>13. QED BY <1>11, <1>12

(* A well-formed answer has what the proofs use of it.                     *)
LEMMA FormedIs ==
    ASSUME NEW r, WellFormed(r)
    PROVE  Formed(r)
<1> DEFINE L == {"S", "CR", "LF"} \cup Headers \cup DOMAIN ChunkSize \cup Range(r.body)
                \cup UNION {Range(r.parts[i]) : i \in DOMAIN r.parts}
           m == Len(r.names)
<1>1. /\ {"S", "CR", "LF"} \subseteq L /\ Headers \subseteq L /\ DOMAIN ChunkSize \subseteq L
      /\ Range(r.body) \subseteq L /\ {"CR", "LF"} \subseteq L
      /\ \A i \in DOMAIN r.parts : Range(r.parts[i]) \subseteq L
  OBVIOUS
<1> HIDE DEF L
<1>2. r.names \in Seq(Headers) /\ r.headers = ToSet(r.names)
  BY DEF WellFormed
<1>3. r.headers = Before(r, m + 1)
  <2>1. m \in Nat /\ DOMAIN r.names = 1 .. m /\ (m + 1) - 1 = m
    BY <1>2, LenProperties
  <2> HIDE DEF m
  <2>2. QED BY <1>2, <2>1 DEF ToSet, Before
<1>4. CASE r.lines = <<>>
  <2>1. /\ r.body \in Seq(Range(r.body)) /\ r.wire = Serialise(r.names, r.body)
        /\ \A h \in r.headers \cap DOMAIN LengthOf : LengthOf[h] = Len(r.body)
    BY <1>4 DEF WellFormed
  <2>2. r.body \in Seq(L) /\ Len(r.body) \in Nat
    BY <1>1, <2>1, SeqMonotonic, LenProperties
  <2>3. Layout(Serialise(r.names, r.body), r.names, r.body)
    BY <1>1, <1>2, <2>2, SerialiseIs
  <2>4. Load(r) = r.body
    BY <1>4 DEF Load
  <2>5. QED BY <1>2, <1>3, <1>4, <2>1, <2>2, <2>3, <2>4 DEF Formed
<1>5. CASE r.lines # <<>>
  <2> DEFINE load == Chunked(r.lines, r.parts)
  <2>1. /\ r.lines \in Seq(DOMAIN ChunkSize)
        /\ r.parts \in Seq(Range(r.parts)) /\ Len(r.parts) = Len(r.lines)
        /\ \A i \in DOMAIN r.parts : r.parts[i] \in Seq(Range(r.parts[i]))
        /\ r.wire = Serialise(r.names, load)
    BY <1>5 DEF WellFormed
  <2>2. r.lines \in Seq(L)
    BY <1>1, <2>1, SeqMonotonic
  <2>3. r.parts \in Seq(Seq(L))
    <3>1. \A i \in DOMAIN r.parts : r.parts[i] \in Seq(L)
      <4> SUFFICES ASSUME NEW i \in DOMAIN r.parts PROVE r.parts[i] \in Seq(L)
        OBVIOUS
      <4> DEFINE p == r.parts[i]
      <4>1. p \in Seq(Range(p)) /\ Range(p) \subseteq L
        BY <1>1, <2>1
      <4> HIDE DEF p
      <4>2. p \in Seq(L)
        BY <4>1, SeqMonotonic
      <4>3. QED BY <4>2 DEF p
    <3>2. Range(r.parts) \subseteq Seq(L)
      BY <3>1 DEF Range
    <3> DEFINE Q == Seq(L)
    <3>3. r.parts \in Seq(Range(r.parts)) /\ Range(r.parts) \subseteq Q
      BY <2>1, <3>2
    <3> HIDE DEF Q
    <3>4. r.parts \in Seq(Q)
      BY <3>3, SeqMonotonic
    <3>5. QED BY <3>4 DEF Q
  <2>4. load \in Seq(L) /\ \E off : ChunksLie(off, load, r.lines, r.parts)
    BY <1>1, <2>1, <2>2, <2>3, ChunkedIs
  <2>5. Load(r) = load
    BY <1>5 DEF Load
  <2> HIDE DEF load
  <2>6. Layout(Serialise(r.names, load), r.names, load) /\ Len(load) \in Nat
    BY <1>1, <1>2, <2>4, SerialiseIs, LenProperties
  <2>7. QED BY <1>2, <1>3, <1>5, <2>1, <2>4, <2>5, <2>6 DEF Formed, load
<1>6. QED BY <1>4, <1>5

LEMMA BodyStep ==
    ASSUME NEW q, NEW r, NEW e, WellFormed(r), {"CR", "LF"} \cap DOMAIN ChunkSize = {},
           InBody(q, r, e)
    PROVE  BodyOutcome(ParseBody(q), r, e)
<1>1. Formed(r)
  BY FormedIs
<1>2. CASE r.lines # <<>>
  BY <1>1, <1>2, ChunkStep
<1>3. CASE r.lines = <<>> /\ q.headers \cap DOMAIN LengthOf # {}
  <2>1. r.body \in Seq(Range(r.body))
    BY <1>3 DEF WellFormed
  <2>2. QED BY <1>1, <1>3, <2>1, LengthStep
<1>4. CASE r.lines = <<>> /\ q.headers \cap DOMAIN LengthOf = {}
  <2>1. q.expect = "body" /\ q.headers = r.headers /\ ParserOK(q)
    BY <1>4 DEF InBody, Taken
  <2>2. "T" \notin q.headers
    BY <1>4, <2>1 DEF WellFormed
  <2>3. ParseBody(q) = [q EXCEPT !.verdict = "undefined"]
    BY <1>4, <2>1, <2>2 DEF ParseBody
  <2>4. ParseBody(q).verdict = "undefined"
    BY <2>1, <2>3 DEF ParserOK
  <2>5. QED BY <2>4 DEF BodyOutcome
<1>5. QED BY <1>2, <1>3, <1>4

(* The parser waits for more, and nothing that is there can be taken.      *)
Waits(q, r, e) ==
    \/ InStatus(q, r, e) /\ Readable(q.buf) < 4
    \/ HeaderShort(q, r, e)
    \/ BodyShort(q, r, e)

Outcome(p, r, e) ==
    \/ p.cut /\ "T" \in r.headers
    \/ p.verdict \in {"throw", "undefined"}
    \/ p.verdict = "done" /\ AsSent(p, r)
    \/ p.verdict = "more" /\ Waits(p, r, e)

Where(q, r, e) == InStatus(q, r, e) \/ InHeader(q, r, e) \/ InBody(q, r, e)

LEMMA ParseStep ==
    ASSUME NEW q, NEW r, NEW e, WellFormed(r),
           {"CR", "LF"} \cap (Headers \cup DOMAIN ChunkSize) = {}, Where(q, r, e)
    PROVE  Outcome(Parse(q), r, e)
<1> DEFINE a == [q EXCEPT !.verdict = "more"]
           s == ParseStatusLine(a)
           h == ParseHeader(s)
           y == ParseBody(h)
<1>1. Formed(r) /\ Len(r.names) \in Nat
  BY FormedIs, LenProperties DEF Formed
<1>2. Where(a, r, e)
  <2>1. ParserOK(q)
    BY DEF Where, InStatus, InHeader, AtHeader, InBody, Taken
  <2>2. /\ a.buf = q.buf /\ a.expect = q.expect /\ a.headers = q.headers
        /\ a.chunks = q.chunks /\ a.verdict = "more" /\ DOMAIN a = DOMAIN q
    BY <2>1 DEF ParserOK
  <2> HIDE DEF a
  <2>3. QED
    BY <2>2 DEF Where, InStatus, InHeader, AtHeader, InBody, Taken, ParserOK
<1> HIDE DEF a
<1>3. \/ InStatus(s, r, e) /\ Readable(s.buf) < 4
      \/ InHeader(s, r, e) \/ InBody(s, r, e)
  <2>1. CASE InStatus(a, r, e)
    BY <1>1, <2>1, StatusStep DEF Formed
  <2>2. CASE InHeader(a, r, e) \/ InBody(a, r, e)
    <3>1. a.expect # "status"
      BY <2>2 DEF InHeader, AtHeader, InBody
    <3>2. s = a
      BY <3>1 DEF ParseStatusLine
    <3>3. QED BY <2>2, <3>2
  <2>3. QED BY <1>2, <2>1, <2>2 DEF Where
<1> HIDE DEF s
<1>4. \/ InStatus(h, r, e) /\ Readable(h.buf) < 4
      \/ HeaderShort(h, r, e) \/ InBody(h, r, e)
  <2>1. CASE InHeader(s, r, e)
    BY <1>1, <2>1, HeaderStep
  <2>2. CASE ~InHeader(s, r, e)
    <3>1. s.expect # "header"
      BY <1>3, <2>2 DEF InStatus, InBody
    <3>2. h = s
      BY <3>1, Zenon DEF ParseHeader
    <3>3. QED BY <1>3, <2>2, <3>2
  <2>3. QED BY <2>1, <2>2
<1> HIDE DEF h
<1>5. Outcome(y, r, e)
  <2>1. CASE InBody(h, r, e)
    <3>1. BodyOutcome(y, r, e)
      BY <2>1, BodyStep
    <3>2. QED BY <3>1 DEF BodyOutcome, Outcome, Waits
  <2>2. CASE ~InBody(h, r, e)
    <3>1. h.expect # "body" /\ h.verdict = "more"
      BY <1>4, <2>2 DEF InStatus, HeaderShort, AtHeader, Taken
    <3>2. y = h
      BY <3>1 DEF ParseBody
    <3>3. QED BY <1>4, <2>2, <3>1, <3>2 DEF Outcome, Waits
  <2>3. QED BY <2>1, <2>2
<1> HIDE DEF y
<1>6. Parse(q) = IF y.verdict = "done"
                 THEN [y EXCEPT !.expect = "status", !.chunks = <<>>] ELSE y
  BY DEF Parse, y, h, s, a
<1>7. CASE y.verdict = "done"
  <2>0. ParserOK(y)
    <3>1. ParserOK(a)
      BY <1>2 DEF Where, InStatus, InHeader, AtHeader, InBody, Taken
    <3>2. ParserOK(s)
      BY <3>1, StatusTakesFront DEF TakesFront, s
    <3>3. ParserOK(h)
      BY <3>2, HeaderTakesFront DEF TakesFront, h
    <3>4. QED BY <3>3, BodyTakesFront DEF TakesFront, y
  <2> DEFINE p == [y EXCEPT !.expect = "status", !.chunks = <<>>]
  <2>1. /\ p.verdict = "done" /\ p.body = y.body /\ p.headers = y.headers /\ p.cut = y.cut
    BY <1>7, <2>0 DEF ParserOK
  <2> HIDE DEF p
  <2>2. Outcome(p, r, e)
    BY <1>5, <1>7, <2>1 DEF Outcome, AsSent
  <2>3. QED BY <1>6, <1>7, <2>2 DEF p
<1>8. CASE y.verdict # "done"
  BY <1>5, <1>6, <1>8
<1>9. QED BY <1>7, <1>8

(* A chunk that was cut stays known.                                       *)
LEMMA ParseKeepsCut ==
    ASSUME NEW q, ParserOK(q), q.cut
    PROVE  Parse(q).cut
<1> DEFINE a == [q EXCEPT !.verdict = "more"]
           s == ParseStatusLine(a)
           h == ParseHeader(s)
           y == ParseBody(h)
<1>1. ParserOK(a) /\ a.cut
  BY DEF ParserOK
<1> HIDE DEF a
<1>2. ParserOK(s) /\ s.cut
  <2>1. ParserOK(s)
    BY <1>1, StatusTakesFront DEF TakesFront
  <2> DEFINE i == Find(a.buf, CrLf, 0)
             p == [a EXCEPT !.buf = Retrieve(a.buf, i + 2)]
  <2>2. \/ s = a
        \/ s = [a EXCEPT !.verdict = "more"]
        \/ s = [p EXCEPT !.expect = "header"]
        \/ s = [p EXCEPT !.verdict = "throw"]
    BY DEF ParseStatusLine, TakeLine, StatusLine
  <2>3. p.cut = a.cut /\ DOMAIN p = DOMAIN a
    BY <1>1 DEF ParserOK
  <2> HIDE DEF p, i, s
  <2>4. s.cut = a.cut
    BY <1>1, <2>2, <2>3 DEF ParserOK
  <2>5. QED BY <1>1, <2>1, <2>4 DEF s
<1> HIDE DEF s
<1>3. ParserOK(h) /\ h.cut
  <2>1. ParserOK(h)
    BY <1>2, HeaderTakesFront DEF TakesFront
  <2>2. \/ h = s
        \/ h = [s EXCEPT !.verdict = "throw"]
        \/ \E b, d, x : h = [s EXCEPT !.buf = b, !.headers = d, !.expect = x]
    BY DEF ParseHeader
  <2> HIDE DEF h
  <2>3. h.cut = s.cut
    BY <1>2, <2>2 DEF ParserOK
  <2>4. QED BY <1>2, <2>1, <2>3 DEF h
<1> HIDE DEF h
<1>4. ParserOK(y) /\ y.cut
  <2>1. ParserOK(y)
    BY <1>3, BodyTakesFront DEF TakesFront
  <2> DEFINE i == Find(h.buf, CrLf, 0)
             p == [h EXCEPT !.buf = Retrieve(h.buf, i + 2)]
             line == Bytes(h.buf, i)
  <2>2. \/ y = h
        \/ \E b, d, v : y = [h EXCEPT !.body = d, !.buf = b, !.verdict = v]
        \/ \E v : y = [h EXCEPT !.verdict = v]
        \/ y = ChunkBody(p, line)
    BY DEF ParseBody, TakeLine, ContentLengthBody
  <2>3. p.cut = h.cut /\ DOMAIN p = DOMAIN h
    BY <1>3 DEF ParserOK
  <2> HIDE DEF p, i, line, y
  <2>4. CASE y = ChunkBody(p, line)
    <3>1. \E b, c, v, d, z : y = [p EXCEPT !.buf = b, !.chunks = c, !.cut = @ \/ z,
                                           !.verdict = v, !.body = d]
      BY <2>4 DEF ChunkBody
    <3>2. y.cut
      BY <1>3, <2>3, <3>1 DEF ParserOK
    <3>3. QED BY <2>1, <3>2 DEF y
  <2>5. CASE y # ChunkBody(p, line)
    <3>1. y.cut = h.cut
      BY <1>3, <2>2, <2>5 DEF ParserOK
    <3>2. QED BY <1>3, <2>1, <3>1 DEF y
  <2>6. QED BY <2>4, <2>5
<1> HIDE DEF y
<1>5. Parse(q) = IF y.verdict = "done"
                 THEN [y EXCEPT !.expect = "status", !.chunks = <<>>] ELSE y
  BY DEF Parse, y, h, s, a
<1>6. Parse(q).cut = y.cut
  BY <1>4, <1>5 DEF ParserOK
<1>7. QED BY <1>4, <1>6

(* More bytes of the answer behind those that wait.                        *)
LEMMA MoreOfAnswer ==
    ASSUME NEW p, NEW q, NEW r, NEW e \in Nat, NEW s \in Seq(Byte), Where(p, r, e),
           DOMAIN q = DOMAIN p, BufferOK(q.buf, Byte), Unread(q.buf) = Unread(p.buf) \o s,
           q.expect = p.expect, q.headers = p.headers, q.chunks = p.chunks,
           q.verdict = p.verdict,
           \A i \in 1 .. Len(s) : s[i] = r.wire[e + i]
    PROVE  Where(q, r, e + Len(s))
<1>1. ASSUME NEW c, Taken(p, r, c, e) PROVE Taken(q, r, c, e + Len(s))
  <2> DEFINE u == Unread(p.buf)
             n == Readable(p.buf)
             k == Len(s)
  <2>1. /\ ParserOK(p) /\ BufferOK(p.buf, Byte) /\ c \in Nat /\ c + n = e /\ p.verdict = "more"
        /\ \A i \in 1 .. n : u[i] = r.wire[c + i]
    BY <1>1 DEF Taken, Holds
  <2>2. u \in Seq(Byte) /\ Len(u) = n /\ n \in Nat /\ k \in Nat
    BY <2>1, UnreadIs, LenProperties
  <2> HIDE DEF u, n, k
  <2>3. /\ Len(u \o s) = Len(u) + Len(s)
        /\ \A i \in 1 .. Len(u) : (u \o s)[i] = u[i]
        /\ \A i \in 1 .. Len(s) : (u \o s)[Len(u) + i] = s[i]
    <3>1. u \in Seq(Byte) /\ s \in Seq(Byte)
      BY <2>2
    <3>2. QED BY <3>1, Joins
  <2> DEFINE v == Unread(q.buf)
  <2>4. v = u \o s /\ Len(v) = n + k /\ Readable(q.buf) = n + k
    <3>1. v = u \o s /\ Len(v) = Readable(q.buf)
      BY UnreadIs DEF u
    <3>2. QED BY <2>2, <2>3, <3>1 DEF k
  <2> HIDE DEF v
  <2>5. ASSUME NEW i \in 1 .. n + k PROVE v[i] = r.wire[c + i]
    <3>1. CASE i <= n
      <4>1. i \in 1 .. n
        BY <2>2, <3>1
      <4>2. QED BY <2>1, <2>2, <2>3, <2>4, <4>1
    <3>2. CASE i > n
      <4> DEFINE j == i - n
      <4>1. j \in 1 .. k /\ i = n + j /\ c + i = e + j
        BY <2>1, <2>2, <3>2
      <4> HIDE DEF j
      <4>2. v[i] = s[j]
        BY <2>2, <2>3, <2>4, <4>1 DEF k
      <4>3. QED BY <4>1, <4>2 DEF k
    <3>3. QED BY <2>2, <3>1, <3>2
  <2>6. Holds(q.buf, r.wire, c)
    BY <2>1, <2>4, <2>5 DEF Holds, v
  <2>7. c + Readable(q.buf) = e + k
    <3> DEFINE z == Readable(q.buf)
    <3>1. c \in Nat /\ n \in Nat /\ k \in Nat /\ c + n = e /\ z = n + k
      BY <2>1, <2>2, <2>4
    <3> HIDE DEF z
    <3>2. c + z = e + k
      BY <3>1
    <3>3. QED BY <3>2 DEF z
  <2>8. ParserOK(q) /\ q.verdict = "more"
    BY <2>1 DEF ParserOK
  <2>9. QED BY <2>6, <2>7, <2>8 DEF Taken, k
<1>2. QED
  BY <1>1 DEF Where, InStatus, InHeader, AtHeader, InBody

-----------------------------------------------------------------------------
(* The results of the parser in the exchange.                              *)

(* What the client has read and what is under way is the beginning of the  *)
(* answer.                                                                 *)
LEMMA DownIsAnswer ==
    ASSUME StreamsOK, ~resent
    PROVE  LET s == arrived.down \o wire.down
           IN  Len(s) <= Len(Answer) /\ \A i \in 1 .. Len(s) : s[i] = Answer[i]
<1> DEFINE s == arrived.down \o wire.down
           w == Answer
<1>1. w \in Seq(Byte) /\ Len(w) \in Nat
  BY Given, LenProperties DEF StreamsOK, BytesOK, Answer
<1>2. s \in Seq(Byte) /\ Len(s) \in Nat
  BY ConcatProperties, LenProperties DEF StreamsOK, BytesOK
<1> HIDE DEF s, w
<1>3. CASE setting.writes = "CString"
  <2>1. out \in Nat /\ out <= Len(w) /\ s = SubSeq(w, 1, out)
    BY <1>3 DEF StreamsOK, DownOK, s, w
  <2>2. Len(s) = out /\ \A i \in 1 .. out : s[i] = w[i]
    <3>1. \A i \in 1 .. out : w[i] \in Byte
      <4>1. \A i \in 1 .. out : i \in 1 .. Len(w)
        BY <1>1, <2>1
      <4>2. QED BY <1>1, <4>1, ElementOfSeq
    <3>2. 1 \in Int /\ out \in Int
      BY <2>1
    <3>3. /\ Len(SubSeq(w, 1, out)) = IF 1 <= out THEN out - 1 + 1 ELSE 0
          /\ \A i \in 1 .. out - 1 + 1 : SubSeq(w, 1, out)[i] = w[1 + i - 1]
      BY <3>1, <3>2, SubSeqProperties
    <3>4. out - 1 + 1 = out /\ \A i \in 1 .. out : 1 + i - 1 = i
      BY <2>1
    <3>5. Len(s) = out
      BY <2>1, <3>3, <3>4
    <3>6. ASSUME NEW i \in 1 .. out PROVE s[i] = w[i]
      <4>1. 1 + i - 1 = i
        BY <3>4
      <4>2. SubSeq(w, 1, out)[i] = w[1 + i - 1]
        BY <3>3, <3>4
      <4>3. QED BY <2>1, <4>1, <4>2
    <3>7. QED BY <3>5, <3>6
  <2>3. QED BY <2>1, <2>2 DEF s, w
<1>4. CASE setting.writes # "CString"
  <2> DEFINE t == Unread(out)
  <2>1. s \o t = w /\ t \in Seq(Byte) /\ Len(t) \in Nat
    BY <1>4, UnreadIs, LenProperties DEF StreamsOK, DownOK, s, w
  <2> HIDE DEF t
  <2>2. Len(s \o t) = Len(s) + Len(t) /\ \A i \in 1 .. Len(s) : (s \o t)[i] = s[i]
    <3>1. s \in Seq(Byte) /\ t \in Seq(Byte)
      BY <1>2, <2>1
    <3>2. QED BY <3>1, Joins
  <2>3. Len(s) <= Len(w) /\ \A i \in 1 .. Len(s) : s[i] = w[i]
    BY <1>2, <2>1, <2>2
  <2>4. QED BY <2>3 DEF s, w
<1>5. QED BY <1>3, <1>4

(* Unless a CString was sent again, bytes were moved in place or a chunk   *)
(* was cut, the parser has made of what was read what the server meant, or *)
(* waits because nothing of what is there can be taken.                    *)
ParsedOK ==
    \/ resent \/ compacted
    \/ resp.cut /\ "T" \in setting.response.headers
    \/ /\ client \notin Ended => resp.verdict = "more"
       /\ resp.verdict = "more" => Waits(resp, setting.response, Len(arrived.down))
       /\ resp.verdict = "done" => AsSent(resp, setting.response)

ParserIInv == BufferIInv /\ ParsedOK

LEMMA ParsedInit == Init => ParserIInv
<1> SUFFICES ASSUME Init PROVE ParserIInv
  OBVIOUS
<1>1. BufferIInv
  BY HeldInit
<1>2. resp = NewParser /\ arrived.down = <<>>
  BY DEF Init
<1>3. /\ resp.expect = "status" /\ resp.chunks = <<>> /\ resp.headers = {}
      /\ resp.verdict = "more" /\ resp.buf = NewBuffer(InitialCapacity)
  BY <1>2 DEF NewParser
<1>4. BufferOK(resp.buf, Byte) /\ Unread(resp.buf) = <<>>
  BY <1>3, NewIs, Given, BufferAssumption
<1>5. Readable(resp.buf) = 0 /\ Len(arrived.down) = 0
  BY <1>2, <1>4, UnreadIs, EmptySeq
<1>6. Holds(resp.buf, setting.response.wire, 0)
  <2>1. \A i \in 1 .. Readable(resp.buf) : FALSE
    BY <1>5
  <2>2. QED BY <1>4, <2>1 DEF Holds
<1>7. InStatus(resp, setting.response, Len(arrived.down)) /\ Readable(resp.buf) < 4
  BY <1>1, <1>3, <1>5, <1>6 DEF InStatus, Taken, BufferIInv, HeldOK
<1>8. ParsedOK
  BY <1>3, <1>7 DEF ParsedOK, Waits
<1>9. QED BY <1>1, <1>8 DEF ParserIInv

LEMMA ParsedStill ==
    ASSUME ParsedOK, resp' = resp, compacted' = compacted, setting' = setting,
           arrived'.down = arrived.down, resent => resent',
           client' \notin Ended => client \notin Ended
    PROVE  ParsedOK'
  BY DEF ParsedOK

LEMMA ParsedSuspend ==
    ASSUME StreamsOK, HeldOK, ParsedOK, ClientSuspend
    PROVE  ParsedOK'
<1>1. /\ compacted' = (compacted \/ Compacts(resp.buf, ReadSize))
      /\ resp' = [resp EXCEPT !.buf = Adjust(resp.buf, ReadSize)]
      /\ arrived' = arrived /\ setting' = setting /\ resent' = resent
      /\ client = "read" /\ client' = "suspended"
  BY DEF ClientSuspend, bytes, serverVars
<1>2. ParserOK(resp) /\ BufferOK(resp.buf, Byte) /\ ReadSize \in Nat
  BY ExchangeAssumption DEF HeldOK, ParserOK
<1> DEFINE b == Adjust(resp.buf, ReadSize)
<1>3. /\ resp'.buf = b /\ resp'.expect = resp.expect /\ resp'.headers = resp.headers
      /\ resp'.chunks = resp.chunks /\ resp'.verdict = resp.verdict
      /\ resp'.cut = resp.cut /\ resp'.body = resp.body /\ DOMAIN resp' = DOMAIN resp
  BY <1>1, <1>2 DEF ParserOK
<1> DEFINE given == \/ resent \/ compacted'
                    \/ resp.cut /\ "T" \in setting.response.headers
<1>4. CASE given
  BY <1>1, <1>3, <1>4 DEF ParsedOK
<1>5. CASE ~given
  <2>1. ~compacted /\ ~Compacts(resp.buf, ReadSize)
    BY <1>1, <1>5
  <2>2. BufferOK(b, Byte) /\ Unread(b) = Unread(resp.buf) /\ Readable(b) = Readable(resp.buf)
    <3>1. BufferOK(b, Byte) /\ Unread(b) = Unread(resp.buf)
      BY <1>2, <2>1, Adjusts
    <3>2. QED BY <1>2, <3>1, UnreadIs
  <2> HIDE DEF b
  <2> DEFINE r == setting.response
             e == Len(arrived.down)
  <2>3. resp.verdict = "more" /\ Waits(resp, r, e)
    BY <1>1, <1>5, <2>1 DEF ParsedOK, Ended
  <2>4. \A c : Taken(resp, r, c, e) => Taken(resp, r, c, e)'
    <3>1. r' = r /\ e' = e
      BY <1>1
    <3> HIDE DEF r, e
    <3>2. QED BY <1>2, <1>3, <2>2, <3>1 DEF Taken, Holds, ParserOK
  <2>5. Waits(resp, r, e)'
    <3>1. r' = r /\ e' = e
      BY <1>1
    <3>2. /\ InStatus(resp, r, e) => InStatus(resp, r, e)'
          /\ \A t : AtHeader(resp, r, e, t) => AtHeader(resp, r, e, t)'
      <4> HIDE DEF r, e
      <4>1. QED BY <1>3, <2>4, <3>1 DEF InStatus, AtHeader
    <3>3. InBody(resp, r, e) => InBody(resp, r, e)'
      <4> HIDE DEF r, e
      <4>1. QED BY <1>3, <2>4, <3>1 DEF InBody
    <3> HIDE DEF r, e
    <3>4. QED BY <1>3, <2>2, <2>3, <3>1, <3>2, <3>3 DEF Waits, HeaderShort, BodyShort
  <2>6. QED BY <1>1, <1>3, <2>3, <2>5 DEF ParsedOK
<1> HIDE DEF given
<1>6. QED BY <1>4, <1>5

(* Whatever part of the answer a read gives, the parser goes on from where *)
(* it waits.                                                               *)
LEMMA ParsedRecv ==
    ASSUME AnswersWellFormed, StreamsOK, HeldOK, ParsedOK, ClientRecv
    PROVE  ParsedOK'
<1>1. PICK k \in 1 .. Min({ReadSize, Len(wire.down)}) :
          /\ arrived' = [arrived EXCEPT !.down = @ \o SubSeq(wire.down, 1, k)]
          /\ resp' = ReadInto(resp, SubSeq(wire.down, 1, k))
  BY DEF ClientRecv
<1>2. /\ compacted' = (compacted \/ Compacts(resp.buf, ReadSize))
      /\ client = "read" /\ setting' = setting /\ resent' = resent
      /\ client' = CASE resp'.verdict = "more" -> "read"
                     [] resp'.verdict = "throw" -> "terminated"
                     [] OTHER -> resp'.verdict
  BY DEF ClientRecv, ClientGoes, serverVars
<1> DEFINE got == SubSeq(wire.down, 1, k)
           b == Adjust(resp.buf, ReadSize)
           q == [resp EXCEPT !.buf = Receive(b, got)]
           r == setting.response
           e == Len(arrived.down)
<1>3. /\ ReadSize \in Nat /\ wire.down \in Seq(Byte) /\ arrived.down \in Seq(Byte)
      /\ Len(wire.down) \in Nat /\ e \in Nat /\ DOMAIN arrived = {"up", "down"}
  BY ExchangeAssumption, LenProperties DEF StreamsOK, BytesOK
<1>4. k \in 1 .. Len(wire.down) /\ k <= ReadSize
  <2>1. Min({ReadSize, Len(wire.down)}) = IF ReadSize <= Len(wire.down) THEN ReadSize
                                          ELSE Len(wire.down)
    BY <1>3, MinOfTwo
  <2>2. QED BY <1>3, <2>1
<1>5. got \in Seq(Byte) /\ Len(got) = k /\ \A i \in 1 .. k : got[i] = wire.down[i]
  <2>1. \A i \in 1 .. k : wire.down[i] \in Byte
    BY <1>3, <1>4, ElementOfSeq
  <2>2. QED BY <1>4, <2>1, SubSeqProperties
<1>6. ParserOK(resp) /\ BufferOK(resp.buf, Byte)
  BY DEF HeldOK, ParserOK
<1>7. BufferOK(b, Byte)
  BY <1>3, <1>6, Adjusts, CompactionStays
<1>8. resp' = IF Len(got) > Writeable(b) THEN [resp EXCEPT !.verdict = "undefined"]
              ELSE Parse(q)
  BY <1>1 DEF ReadInto
<1>9. arrived'.down = arrived.down \o got
  BY <1>1, <1>3
<1> HIDE DEF got, b
<1>10. /\ q.buf = Receive(b, got) /\ DOMAIN q = DOMAIN resp /\ q.expect = resp.expect
       /\ q.headers = resp.headers /\ q.chunks = resp.chunks
       /\ q.verdict = resp.verdict /\ q.cut = resp.cut
  BY <1>6 DEF ParserOK
<1> HIDE DEF q
<1> DEFINE given == resent \/ compacted'
<1>11. CASE given
  BY <1>2, <1>11 DEF ParsedOK
<1>12. CASE ~given
  <2>1. ~resent /\ ~compacted /\ ~Compacts(resp.buf, ReadSize)
    BY <1>2, <1>12
  <2>2. Unread(b) = Unread(resp.buf) /\ ReadSize <= Writeable(b)
    BY <1>3, <1>6, <2>1, Adjusts DEF b
  <2>3. Writeable(b) \in Int /\ k <= Writeable(b)
    <3>1. Writeable(b) \in Int
      BY <1>7, WriteableIs
    <3>2. QED BY <1>3, <1>4, <2>2, <3>1
  <2>4. resp' = Parse(q)
    BY <1>4, <1>5, <1>8, <2>3
  <2>5. BufferOK(q.buf, Byte) /\ Unread(q.buf) = Unread(resp.buf) \o got
    BY <1>5, <1>7, <1>10, <2>2, <2>3, Receives
  <2>6. ParserOK(q)
    BY <1>6, <1>10, <2>5 DEF ParserOK
  <2> DEFINE known == resp.cut /\ "T" \in setting.response.headers
  <2>7. CASE known
    <3>1. resp'.cut
      BY <1>10, <2>4, <2>6, <2>7, ParseKeepsCut
    <3>2. QED BY <1>2, <2>7, <3>1 DEF ParsedOK
  <2>8. CASE ~known
    <3>1. Waits(resp, r, e)
      BY <1>2, <2>1, <2>8 DEF ParsedOK, Ended
    <3>2. Where(resp, r, e)
      BY <3>1 DEF Waits, HeaderShort, BodyShort, InHeader, Where
    <3>3. \A i \in 1 .. k : got[i] = r.wire[e + i]
      <4> DEFINE s == arrived.down \o wire.down
      <4>1. \A i \in 1 .. Len(s) : s[i] = Answer[i]
        BY <2>1, DownIsAnswer
      <4>2. /\ Len(s) = e + Len(wire.down)
            /\ \A i \in 1 .. Len(wire.down) : s[e + i] = wire.down[i]
        <5> DEFINE a == arrived.down
                   d == wire.down
        <5>1. a \in Seq(Byte) /\ d \in Seq(Byte)
          BY <1>3
        <5> HIDE DEF a, d
        <5>2. Len(a \o d) = Len(a) + Len(d) /\ \A i \in 1 .. Len(d) : (a \o d)[Len(a) + i] = d[i]
          BY <5>1, Joins
        <5>3. QED BY <5>2 DEF a, d
      <4> HIDE DEF s, e
      <4>3. ASSUME NEW i \in 1 .. k PROVE got[i] = r.wire[e + i]
        <5>1. i \in 1 .. Len(wire.down) /\ e + i \in 1 .. Len(s)
          BY <1>3, <1>4, <4>2
        <5>2. got[i] = Answer[e + i]
          BY <1>5, <4>1, <4>2, <5>1
        <5>3. QED BY <5>2 DEF Answer
      <4>4. QED BY <4>3
    <3>4. Where(q, r, e + k)
      <4>1. \A i \in 1 .. Len(got) : got[i] = r.wire[e + i]
        BY <1>5, <3>3
      <4> HIDE DEF e, r
      <4>2. Where(q, r, e + Len(got))
        BY <1>3, <1>5, <1>10, <2>5, <3>2, <4>1, MoreOfAnswer
      <4>3. QED BY <1>5, <4>2
    <3>5. WellFormed(r) /\ {"CR", "LF"} \cap (Headers \cup DOMAIN ChunkSize) = {}
      BY DEF AnswersWellFormed, StreamsOK, BytesOK
    <3>6. Outcome(resp', r, e + k)
      <4> HIDE DEF r, e
      <4>1. QED BY <2>4, <3>4, <3>5, ParseStep
    <3>7. r' = r /\ e' = e + k
      <4>1. arrived.down \in Seq(Byte) /\ got \in Seq(Byte)
        BY <1>3, <1>5
      <4>2. Len(arrived.down \o got) = Len(arrived.down) + Len(got)
        BY <4>1, Joins
      <4>3. QED BY <1>2, <1>5, <1>9, <4>2
    <3> DEFINE p == resp'
    <3>8. \/ p.cut /\ "T" \in r.headers
          \/ p.verdict \in {"throw", "undefined"}
          \/ p.verdict = "done" /\ AsSent(p, r)
          \/ p.verdict = "more" /\ Waits(p, r, e + k)
      BY <3>6 DEF Outcome
    <3>9. /\ p.verdict = "throw" => client' = "terminated"
          /\ p.verdict \in {"done", "undefined"} => client' = p.verdict
      BY <1>2
    <3>10. CASE p.verdict \in {"throw", "undefined"}
      BY <3>9, <3>10 DEF ParsedOK, Ended
    <3>11. CASE p.verdict = "done" /\ AsSent(p, r)
      <4>1. AsSent(resp, r)'
        BY <3>7, <3>11 DEF AsSent
      <4>2. QED BY <3>9, <3>11, <4>1 DEF ParsedOK, Ended
    <3>12. CASE p.verdict = "more" /\ Waits(p, r, e + k)
      <4>1. Waits(resp, r, e)'
        <5> HIDE DEF r, e
        <5>1. QED BY <3>7, <3>12 DEF Waits, InStatus, HeaderShort, BodyShort, AtHeader,
                                     InBody, Taken
      <4>2. QED BY <3>12, <4>1 DEF ParsedOK
    <3>13. QED BY <1>2, <3>8, <3>10, <3>11, <3>12 DEF ParsedOK
  <2> HIDE DEF known
  <2>9. QED BY <2>7, <2>8
<1> HIDE DEF given
<1>13. QED BY <1>11, <1>12

LEMMA ParsedNext ==
    ASSUME AnswersWellFormed, ParserIInv, [Next]_vars
    PROVE  ParserIInv'
<1>0. StreamsOK /\ HeldOK /\ ParsedOK /\ BufferIInv
  BY DEF ParserIInv, BufferIInv
<1>1. BufferIInv'
  BY <1>0, HeldNext
<1>2. ParsedOK'
  <2>1. CASE UNCHANGED vars
    BY <1>0, <2>1, ParsedStill DEF vars
  <2>2. CASE Connect
    BY <1>0, <2>2, ParsedStill DEF Connect, bytes, Ended
  <2>3. CASE ClientHandshake
    BY <1>0, <2>3, ParsedStill DEF ClientHandshake, bytes, serverVars, Ended
  <2>4. CASE ClientWrite
    BY <1>0, <2>4, ParsedStill DEF ClientWrite, serverVars, Ended
  <2>5. CASE ClientError
    BY <1>0, <2>5, ParsedStill DEF ClientError, ClientGoes, bytes, serverVars, Ended
  <2>6. CASE ClientRecv
    BY <1>0, <2>6, ParsedRecv
  <2>7. CASE ClientSuspend
    BY <1>0, <2>7, ParsedSuspend
  <2>8. CASE ClientResume
    BY <1>0, <2>8, ParsedStill DEF ClientResume, bytes, serverVars, Ended
  <2>9. CASE ClientEof
    BY <1>0, <2>9, ParsedStill DEF ClientEof, ClientGoes, bytes, serverVars, Ended
  <2>10. CASE Visit
    BY <1>0, <2>10, ParsedStill DEF Visit, bytes
  <2>11. CASE Accept
    BY <1>0, <2>11, ParsedStill DEF Accept, bytes
  <2>12. CASE ServerHandshake
    BY <1>0, <2>12, ParsedStill DEF ServerHandshake, bytes
  <2>13. CASE ServerRead
    <3>1. /\ arrived' = [arrived EXCEPT !.up = @ \o wire.up]
          /\ resp' = resp /\ compacted' = compacted /\ setting' = setting
          /\ client' = client /\ resent' = resent
      BY <2>13 DEF ServerRead
    <3>2. arrived'.down = arrived.down
      BY <1>0, <3>1 DEF StreamsOK, BytesOK
    <3>3. QED BY <1>0, <3>1, <3>2, ParsedStill
  <2>14. CASE ServerWriteBuffer
    BY <1>0, <2>14, ParsedStill DEF ServerWriteBuffer
  <2>15. CASE ServerWriteCString
    BY <1>0, <2>15, ParsedStill DEF ServerWriteCString
  <2>16. CASE ServerError
    BY <1>0, <2>16, ParsedStill DEF ServerError, bytes
  <2>17. CASE ServerClose
    BY <1>0, <2>17, ParsedStill DEF ServerClose, bytes
  <2>18. QED
    BY <2>1, <2>2, <2>3, <2>4, <2>5, <2>6, <2>7, <2>8, <2>9, <2>10, <2>11, <2>12,
       <2>13, <2>14, <2>15, <2>16, <2>17 DEF Next, ClientStep, ServerStep
<1>3. QED BY <1>1, <1>2 DEF ParserIInv

LEMMA ParsedAsSent == ParserIInv => ResponseAsSent
<1> SUFFICES ASSUME ParsedOK, client = "done", resp.verdict = "done",
                    ~resp.cut, ~compacted, ~resent
             PROVE  AsSent(resp, setting.response)
  BY DEF ParserIInv, ResponseAsSent, AsSent
<1>1. QED BY DEF ParsedOK

(* When all of an answer is there, only a body of no bytes or chunks wait. *)
LEMMA NothingWaits ==
    ASSUME NEW q, NEW r, WellFormed(r), Waits(q, r, Len(r.wire))
    PROVE  "T" \in r.headers \/ r.body = <<>>
<1> DEFINE m == Len(r.names)
           n == Readable(q.buf)
           l == Len(r.body)
           e == Len(r.wire)
<1> SUFFICES ASSUME "T" \notin r.headers, r.body # <<>> PROVE FALSE
  OBVIOUS
<1>1. r.lines = <<>> /\ r.body \in Seq(Range(r.body)) /\ r.names \in Seq(Headers)
  BY DEF WellFormed
<1>2. l \in Nat /\ l > 0 /\ m \in Nat
  BY <1>1, EmptySeq, LenProperties
<1>3. e = 3 * m + 5 + l
  <2>1. Formed(r) /\ Load(r) = r.body
    BY <1>1, FormedIs DEF Load
  <2>2. QED BY <2>1 DEF Formed, Layout
<1>4. CASE InStatus(q, r, e) /\ n < 4
  <2>1. 0 + n = e /\ n \in Nat
    BY <1>4, UnreadIs DEF InStatus, Taken, ParserOK
  <2> HIDE DEF m, n, l, e
  <2>2. QED BY <1>2, <1>3, <1>4, <2>1
<1>5. CASE HeaderShort(q, r, e)
  <2>1. PICK t \in 1 .. m + 1 : AtHeader(q, r, e, t) /\ n <= 3 * (m + 1 - t) + 2
    BY <1>5 DEF HeaderShort
  <2>2. 3 * t + n = e /\ n \in Nat
    BY <2>1, UnreadIs DEF AtHeader, Taken, ParserOK
  <2> HIDE DEF m, n, l, e
  <2>3. t \in Nat /\ n <= 3 * (m + 1 - t) + 2
    BY <1>2, <2>1
  <2>4. QED BY <1>2, <1>3, <2>2, <2>3
<1>6. CASE BodyShort(q, r, e)
  <2>1. n < l /\ Top(r) + n = e /\ n \in Nat
    BY <1>1, <1>6, UnreadIs DEF BodyShort, InBody, Taken, ParserOK
  <2>2. Top(r) = 3 * m + 5
    BY DEF Top
  <2> HIDE DEF m, n, l, e
  <2>3. QED BY <1>2, <1>3, <2>1, <2>2
<1>7. QED BY <1>4, <1>5, <1>6 DEF Waits

LEMMA ParsedAnswers ==
    ASSUME AnswersWellFormed, ParserIInv
    PROVE  CompleteIsAnswered
<1> DEFINE r == setting.response
<1> SUFFICES ASSUME client = "suspended", arrived.down = Answer, ~compacted, ~resent,
                    "T" \notin r.headers
             PROVE  r.body = <<>>
  BY DEF CompleteIsAnswered
<1>1. ParsedOK /\ WellFormed(r)
  BY DEF ParserIInv, BufferIInv, StreamsOK, BytesOK, AnswersWellFormed
<1>2. Waits(resp, r, Len(r.wire))
  BY <1>1 DEF ParsedOK, Ended, Answer
<1> HIDE DEF r
<1>3. QED BY <1>1, <1>2, NothingWaits

(* Of any well-formed answer, however it is cut into reads and whatever    *)
(* else is going on, a response that request() gives back complete has the *)
(* body and the header lines that the server sent, unless a chunk was cut, *)
(* bytes were moved in place or a CString was sent again.                  *)
THEOREM AnswersAsSent == AnswersWellFormed => (Spec => []ResponseAsSent)
<1> SUFFICES ASSUME AnswersWellFormed PROVE Spec => []ResponseAsSent
  OBVIOUS
<1>1. Init => ParserIInv
  BY ParsedInit
<1>2. ParserIInv /\ [Next]_vars => ParserIInv'
  BY ParsedNext
<1>3. ParserIInv => ResponseAsSent
  BY ParsedAsSent
<1>4. QED BY <1>1, <1>2, <1>3, PTL DEF Spec

(* A client that has read the whole of a well-formed answer with a body    *)
(* and without chunks is not suspended to wait for more of it, with the    *)
(* same exceptions.                                                        *)
THEOREM CompleteAnswered == AnswersWellFormed => (Spec => []CompleteIsAnswered)
<1> SUFFICES ASSUME AnswersWellFormed PROVE Spec => []CompleteIsAnswered
  OBVIOUS
<1>1. Init => ParserIInv
  BY ParsedInit
<1>2. ParserIInv /\ [Next]_vars => ParserIInv'
  BY ParsedNext
<1>3. ParserIInv => CompleteIsAnswered
  BY ParsedAnswers
<1>4. QED BY <1>1, <1>2, <1>3, PTL DEF Spec
=============================================================================
