------------------------------ MODULE JsonText ------------------------------
(***************************************************************************)
(* ayr::json: JsonDumper and JsonLoader (include/ayr/json/*.hpp).          *)
(*                                                                         *)
(* A value is a pair <<kind, what>>: a whole number, a float in            *)
(* millionths, TRUE or FALSE, a text, a sequence of values, a sequence of  *)
(* pairs <<key, value>> with different keys.  Texts are those of Text.     *)
(***************************************************************************)
EXTENDS Text

CONSTANTS
    MaxElementsInline,  \* MAX_ELEMENTS_INLINE, 10 in the code
    MaxDepth            \* MAX_DEPTH, 65535 in the code

Quote == 34      Backslash == 92     Comma == 44     Colon == 58
OpenArray == 91  CloseArray == 93    OpenDict == 123 CloseDict == 125

NullText == <<110, 117, 108, 108>>
TrueText == <<116, 114, 117, 101>>
FalseText == <<102, 97, 108, 115, 101>>

Null == <<"null", 0>>

RECURSIVE DigitsIn(_, _)
DigitsIn(n, base) ==
    LET d == n % base
        digit == IF d < 10 THEN 48 + d ELSE 87 + d
    IN  IF n < base THEN <<digit>> ELSE Append(DigitsIn(n \div base, base), digit)

Digits(n) == DigitsIn(n, 10)

Sign(n) == IF n < 0 THEN <<45>> ELSE <<>>
Abs(n) == IF n < 0 THEN -n ELSE n

-----------------------------------------------------------------------------
(* JsonDumper.                                                             *)

Simple(v) == v[1] \notin {"array", "dict"}

NeedsAutoLine(values) ==
    Len(values) > MaxElementsInline \/ \E i \in DOMAIN values : ~Simple(values[i])

Newline(depth) == <<10>> \o Repeat(<<32>>, depth * 4)

(* The elements, already as texts, between their brackets; the elements    *)
(* are one level below depth.                                              *)
Enclosed(open, elems, close, autoLine, depth) ==
    <<open>> \o Join(<<Comma, 32>>,
                     [i \in DOMAIN elems |-> IF autoLine THEN Newline(depth + 1) \o elems[i]
                                             ELSE elems[i]])
    \o (IF autoLine THEN Newline(depth) ELSE <<>>) \o <<close>>

DumpString(t) == <<Quote>> \o t \o <<Quote>>


(* %lf prints six places.                                                  *)
DumpFloat(m) ==
    Sign(m) \o Digits(Abs(m) \div 1000000) \o <<46>>
    \o Tail(Digits(1000000 + (Abs(m) % 1000000)))

RECURSIVE Dump(_, _)
Dump(v, depth) ==
    CASE v[1] = "null" -> NullText
      [] v[1] = "int" -> Sign(v[2]) \o Digits(Abs(v[2]))
      [] v[1] = "float" -> DumpFloat(v[2])
      [] v[1] = "bool" -> IF v[2] THEN TrueText ELSE FalseText
      [] v[1] = "str" -> DumpString(v[2])
      [] v[1] = "array" ->
           Enclosed(OpenArray, [i \in DOMAIN v[2] |-> Dump(v[2][i], depth + 1)], CloseArray,
                    NeedsAutoLine(v[2]), depth)
      [] v[1] = "dict" ->
           Enclosed(OpenDict,
                    [i \in DOMAIN v[2] |-> DumpString(v[2][i][1]) \o <<Colon, 32>>
                                           \o Dump(v[2][i][2], depth + 1)],
                    CloseDict, NeedsAutoLine([i \in DOMAIN v[2] |-> v[2][i][2]]), depth)

(* Values whose strings end where they were meant to end.                  *)
Ends(t) == Quote \notin ToSet(t) /\ (t # <<>> => Last(t) # Backslash)

RECURSIVE Legible(_), Depth(_)
Legible(v) ==
    CASE v[1] = "str" -> Ends(v[2])
      [] v[1] = "array" -> \A i \in DOMAIN v[2] : Legible(v[2][i])
      [] v[1] = "dict" -> \A i \in DOMAIN v[2] : Ends(v[2][i][1]) /\ Legible(v[2][i][2])
      [] OTHER -> TRUE

(* The calls of parse_obj that are under way inside of each other.         *)
Depth(v) ==
    CASE v[1] = "array" -> 1 + Max({0} \cup {Depth(v[2][i]) : i \in DOMAIN v[2]})
      [] v[1] = "dict" -> 1 + Max({0} \cup {Depth(v[2][i][2]) : i \in DOMAIN v[2]}
                                  \cup {1 : i \in DOMAIN v[2]})
      [] OTHER -> 1

-----------------------------------------------------------------------------
(* JsonLoader.  A parser has read s up to pos; got is a value, or an       *)
(* exception, or the read of a character behind the end.                   *)

Got(v, pos) == [got |-> v, pos |-> pos]
Throw(pos) == Got(<<"throw", 0>>, pos)
Past(pos) == Got(<<"past", 0>>, pos)
Failed(r) == r.got[1] \in {"throw", "past"}

FirstNonSpace(s, pos) == pos + LeftBlank(VSlice(s, pos, Len(s)))

(* The character at the next place that is not blank, if there is one.     *)
FirstChar(s, pos) == IF pos < Len(s) THEN At(s, pos) ELSE -1

ParseSimple(s, pos) ==
    LET rest == VSlice(s, pos, Len(s))
        start == SignSize(rest)
        whole == Min({i \in start .. Len(rest) - 1 : ~IsDigit(At(rest, i))} \cup {Len(rest)})
        number == start = 1 \/ IsDigit(At(rest, 0))
        float == ToFloat(rest)
        int == ToInt(rest, 10)
    IN  CASE StartsWith(rest, NullText) -> Got(Null, pos + 4)
          [] StartsWith(rest, TrueText) -> Got(<<"bool", TRUE>>, pos + 4)
          [] StartsWith(rest, FalseText) -> Got(<<"bool", FALSE>>, pos + 5)
          [] number /\ FirstChar(rest, whole) = 46 ->
               Got(<<"float", float.num * (1000000 \div float.div)>>, Len(s) - Len(float.rest))
          [] number /\ FirstChar(rest, whole) # 46 ->
               Got(<<"int", int.num>>, Len(s) - Len(int.rest))
          [] OTHER -> Throw(pos)

(* A quote behind a backslash is part of the text.                         *)
ParseStr(s, pos) ==
    LET ends == {i \in pos + 1 .. Len(s) - 1 : At(s, i) = Quote /\ At(s, i - 1) # Backslash}
    IN  IF ends = {} THEN Throw(Len(s))
        ELSE Got(<<"str", VSlice(s, pos + 1, Min(ends))>>, Min(ends) + 1)

(* Dict::insert: a key that is there keeps its place.                      *)
WithPair(pairs, key, v) ==
    LET known == {i \in DOMAIN pairs : pairs[i][1] = key}
    IN  IF known = {} THEN Append(pairs, <<key, v>>)
        ELSE [pairs EXCEPT ![Min(known)] = <<key, v>>]

RECURSIVE ParseObj(_, _, _), ParseArray(_, _, _, _), ParseDict(_, _, _, _)

(* What stands behind an element: the end of the array or the next one.    *)
ParseArray(s, pos, arr, depth) ==
    IF FirstChar(s, pos) = CloseArray THEN Got(<<"array", arr>>, pos + 1)
    ELSE LET elem == ParseObj(s, pos, depth)
             next == FirstNonSpace(s, elem.pos)
             grown == Append(arr, elem.got)
         IN  IF Failed(elem) THEN elem
             ELSE CASE FirstChar(s, next) = CloseArray -> Got(<<"array", grown>>, next + 1)
                    [] FirstChar(s, next) = Comma ->
                         ParseArray(s, FirstNonSpace(s, next + 1), grown, depth)
                    [] FirstChar(s, next) = -1 -> Past(next)
                    [] OTHER -> Throw(next)

ParseDict(s, pos, pairs, depth) ==
    IF FirstChar(s, pos) = CloseDict THEN Got(<<"dict", pairs>>, pos + 1)
    ELSE LET key == ParseObj(s, pos, depth)
             colon == FirstNonSpace(s, key.pos)
             v == ParseObj(s, FirstNonSpace(s, colon + 1), depth)
             next == FirstNonSpace(s, v.pos)
             with == WithPair(pairs, key.got[2], v.got)
         IN  IF Failed(key) THEN key
             ELSE IF key.got[1] # "str" THEN Throw(key.pos)
             ELSE IF FirstChar(s, colon) = -1 THEN Past(colon)
             ELSE IF FirstChar(s, colon) # Colon THEN Throw(colon)
             ELSE IF Failed(v) THEN v
             ELSE CASE FirstChar(s, next) = CloseDict -> Got(<<"dict", with>>, next + 1)
                    [] FirstChar(s, next) = Comma ->
                         ParseDict(s, FirstNonSpace(s, next + 1), with, depth)
                    [] FirstChar(s, next) = -1 -> Past(next)
                    [] OTHER -> Throw(next)

ParseObj(s, pos, depth) ==
    LET c == FirstChar(s, pos)
    IN  IF depth + 1 > MaxDepth THEN Throw(pos)
        ELSE CASE c = -1 -> Past(pos)
               [] c = OpenDict -> ParseDict(s, FirstNonSpace(s, pos + 1), <<>>, depth + 1)
               [] c = OpenArray -> ParseArray(s, FirstNonSpace(s, pos + 1), <<>>, depth + 1)
               [] c = Quote -> ParseStr(s, pos)
               [] OTHER -> ParseSimple(s, pos)

(* The place where parsing ended is one of the stripped text, the rest is  *)
(* cut from the text as it was given.                                      *)
Loads(text) ==
    LET r == ParseObj(Strip(text), 0, 0)
    IN  [got |-> r.got, rest |-> VSlice(text, r.pos, Len(text))]
=============================================================================
