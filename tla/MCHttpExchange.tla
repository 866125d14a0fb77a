--------------------------- MODULE MCHttpExchange ---------------------------
(* Small instances of HttpExchange for TLC.  A response has a status line, *)
(* one or two headers and at most three bytes of body.                     *)
EXTENDS HttpExchange

HeaderLines == {"H", "L0", "L1", "L2", "T"}
Lengths == "L0" :> 0 @@ "L1" :> 1 @@ "L2" :> 2
Sizes == "c0" :> 0 @@ "c1" :> 1 @@ "c2" :> 2

TwoBytes == <<"q", "r">>

Plain(headers, body) ==
    [wire |-> Serialise(headers, body), headers |-> ToSet(headers), body |-> body,
     names |-> headers, lines |-> <<>>, parts |-> <<>>]

InChunks(lines, bodies) ==
    [wire |-> Serialise(<<"T">>, Chunked(lines, bodies)), headers |-> {"T"},
     body |-> FlattenSeq(bodies), names |-> <<"T">>, lines |-> lines, parts |-> bodies]

(* With a length, in chunks, and with neither.                             *)
Short == Plain(<<"L2">>, <<"x", "y">>)
Answers == {Short, Plain(<<"H", "L1">>, <<"x">>), Plain(<<"L0">>, <<>>),
            Plain(<<"H">>, <<>>), InChunks(<<"c1", "c0">>, <<<<"x">>, <<>>>>),
            InChunks(<<"c2", "c1", "c0">>, <<<<"x", "y">>, <<"x">>, <<>>>>)}

(* A CString that is sent again and again makes many streams: one answer.  *)
Exchanges == [tls : BOOLEAN, writes : {"Buffer"}, response : Answers]
             \cup [tls : BOOLEAN, writes : {"CString"}, response : {Short}]

ASSUME ExchangesWellFormed == AnswersWellFormed
=============================================================================
