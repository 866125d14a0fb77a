------------------------------- MODULE UriText ------------------------------
(***************************************************************************)
(* ayr::http::Uri and uri() (include/ayr/net/http/Uri.hpp), and what       *)
(* HttpRequest makes of a Uri (Request.hpp).  A character is a string of   *)
(* length one.  The query is the sequence of its pairs, in the order of    *)
(* the dictionary.                                                         *)
(***************************************************************************)
EXTENDS Text

EmptyUri == [scheme |-> <<>>, host |-> <<>>, port |-> <<>>, path |-> <<>>,
             queries |-> <<>>, fragment |-> <<>>, ok |-> TRUE]

SchemeEnd == <<":", "/", "/">>

Query(u) == Join(<<"&">>, [i \in DOMAIN u.queries |-> Join(<<"=">>, u.queries[i])])

(* A part that is there, between what stands before and behind it.         *)
Shown(before, part, behind) == IF part = <<>> THEN <<>> ELSE before \o part \o behind

UriRepr(u) ==
    Shown(<<>>, u.scheme, SchemeEnd) \o u.host \o Shown(<<":">>, u.port, <<>>) \o u.path
    \o Shown(<<"?">>, Query(u), <<>>) \o Shown(<<"#">>, u.fragment, <<>>)

-----------------------------------------------------------------------------
(* Parsing: each step takes its part from the front of rest.               *)

FindAny(s, separators) == Min({i \in 0 .. Len(s) - 1 : At(s, i) \in separators} \cup {Len(s)})

From(s, i) == VSlice(s, i, Len(s))

ParseScheme(p) ==
    LET i == Index(p.rest, SchemeEnd, 0)
    IN  IF i = -1 THEN p
        ELSE [uri |-> [p.uri EXCEPT !.scheme = VSlice(p.rest, 0, i)], rest |-> From(p.rest, i + 3)]

ParseHostPort(p) ==
    LET i == FindAny(p.rest, {"/", "#", "?"})
        hostPort == Split(VSlice(p.rest, 0, i), <<":">>, 1)
    IN  IF p.rest = <<>> THEN p
        ELSE [uri |-> [p.uri EXCEPT !.host = hostPort[1],
                                    !.port = IF Len(hostPort) = 2 THEN hostPort[2] ELSE <<>>],
              rest |-> From(p.rest, i)]

ParsePath(p) ==
    LET i == FindAny(p.rest, {"#", "?"})
    IN  [uri |-> [p.uri EXCEPT !.path = IF i = 0 THEN <<"/">> ELSE VSlice(p.rest, 0, i)],
         rest |-> From(p.rest, i)]

(* add_query: a pair with the key that is there gets the value.            *)
AddQuery(pairs, kv) ==
    LET known == {i \in DOMAIN pairs : pairs[i][1] = kv[1]}
    IN  IF known = {} THEN Append(pairs, kv) ELSE [pairs EXCEPT ![Min(known)] = kv]

(* Mutated form: a pair is cut at every '='.                               *)
ParseQueryAllCuts(p) ==
    LET i == FindAny(p.rest, {"#"})
        pairs == [j \in DOMAIN Split(VSlice(p.rest, 1, i), <<"&">>, -1) |->
                    Split(Split(VSlice(p.rest, 1, i), <<"&">>, -1)[j], <<"=">>, -1)]
    IN  IF p.rest = <<>> \/ Head(p.rest) # "?" THEN p
        ELSE [uri |-> [p.uri EXCEPT !.ok = \A j \in DOMAIN pairs : Len(pairs[j]) = 2,
                                    !.queries = FoldLeft(AddQuery, <<>>, pairs)],
              rest |-> From(p.rest, i + 1)]

(* The '#' is skipped here, and only where there is a query.               *)
ParseQuery(p) ==
    LET i == FindAny(p.rest, {"#"})
        texts == Split(VSlice(p.rest, 1, i), <<"&">>, -1)
        pairs == [j \in DOMAIN texts |-> Split(texts[j], <<"=">>, 1)]
    IN  IF p.rest = <<>> \/ Head(p.rest) # "?" THEN p
        ELSE [uri |-> [p.uri EXCEPT !.ok = \A j \in DOMAIN pairs : Len(pairs[j]) = 2,
                                    !.queries = FoldLeft(AddQuery, <<>>, pairs)],
              rest |-> From(p.rest, i + 1)]

(* ok is FALSE where uri() throws.                                         *)
ParseUri(s) ==
    LET p == ParseQuery(ParsePath(ParseHostPort(ParseScheme([uri |-> EmptyUri, rest |-> s]))))
    IN  [p.uri EXCEPT !.fragment = p.rest]

-----------------------------------------------------------------------------
(* The constructor of HttpRequest: defaults for the scheme and the port.   *)
DefaultPort(scheme) == CASE scheme = <<"http">> -> <<"80">> [] scheme = <<"https">> -> <<"443">>

(* ok is FALSE where the port of a scheme is not known: a ValueError.      *)
NewRequest(u, keepAlive) ==
    LET scheme == IF u.scheme = <<>> THEN <<"https">> ELSE u.scheme
        known == scheme \in {<<"http">>, <<"https">>}
    IN  [uri |-> [u EXCEPT !.scheme = scheme,
                           !.port = IF @ = <<>> /\ known THEN DefaultPort(scheme) ELSE @],
         headers |-> (IF u.host = <<>> THEN {} ELSE {<<"Host", u.host>>})
                     \cup {<<"Connection", IF keepAlive THEN "keep-alive" ELSE "close">>},
         ok |-> u.port # <<>> \/ known]

(* What follows the method in the first line.                              *)
RequestPath(u) ==
    IF u.queries = <<>> THEN u.path ELSE Join(<<"?">>, <<u.path, Query(u)>>)
=============================================================================
