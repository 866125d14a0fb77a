------------------------------- MODULE Library ------------------------------
(***************************************************************************)
(* A program that uses the parts of the library which need neither threads *)
(* nor the events of the kernel.  What it uses is chosen at the start: the *)
(* memory of its strings (StringStore), its lists (DynList), a file of     *)
(* lines (Lines), coroutines that await each other (CoTask), or the        *)
(* algorithms on texts, of which it calls one and keeps the result.        *)
(***************************************************************************)
EXTENDS Text, StringStore, DynList, Lines, CoTask

CONSTANTS
    MaxElementsInline, MaxDepth,    \* of JsonText
    Subjects,       \* what the program may be
    Texts,          \* the texts it works on: sequences of code points
    Patterns,       \* what it searches in them
    Letters,        \* the single characters it searches
    Limits,         \* maxsplit and maxreplace
    Numbers,        \* what it prints and reads again
    Points,         \* the code points it encodes
    Values,         \* the JSON values it dumps
    Leads, Tails,   \* what stands before and behind a JSON text
    Uris            \* the members of a Uri

J == INSTANCE JsonText
U == INSTANCE UriText
C == INSTANCE Codec

VARIABLES
    subject,    \* which of Subjects
    call        \* the operation that was called, its arguments and result

vars == <<storeVars, listVars, lineVars, taskVars, subject, call>>

Init ==
    /\ StoreInit /\ ListInit /\ LinesInit /\ TaskInit
    /\ subject \in Subjects
    /\ subject # "strings" => family = "CString"
    /\ subject # "lines" => document = CHOOSE d \in Documents : TRUE
    /\ call = [op |-> "none", in |-> <<>>, out |-> <<>>]

MayCall == subject = "calls" /\ call.op = "none"

Calls(op, args, result) ==
    /\ call' = [op |-> op, in |-> args, out |-> result]
    /\ UNCHANGED <<storeVars, listVars, lineVars, taskVars, subject>>

CallSplit == MayCall /\ \E s \in Texts, p \in Patterns, max \in Limits :
    Calls("split", <<s, p, max>>, Split(s, p, max))

CallWords == MayCall /\ \E s \in Texts, max \in Limits :
    Calls("words", <<s, max>>, SplitBlanks(s, max))

CallReplace == MayCall /\ \E s \in Texts, old, new \in Patterns, max \in Limits :
    Calls("replace", <<s, old, new, max>>, Replace(s, old, new, max))

CallStrip == MayCall /\ \E s \in Texts, p \in Patterns :
    Calls("strip", <<s, p>>, <<StripOf(s, p), Strip(s), LStrip(s), RStrip(s)>>)

CallFind == MayCall /\ \E s \in Texts, p \in Patterns :
    Calls("find", <<s, p>>, <<Index(s, p, 0), RIndex(s, p, -1), Count(s, p, 0)>>)

CallFindChar == MayCall /\ \E s \in Texts, c \in Letters :
    Calls("char", <<s, c>>, <<IndexChar(s, c, 0), RIndexChar(s, c, -1), CountChar(s, c, 0)>>)

CallCase == MayCall /\ \E s \in Texts :
    Calls("case", <<s>>, <<Lower(s), Upper(s)>>)

CallCompare == MayCall /\ \E s, t \in Texts :
    Calls("compare", <<s, t>>, Compare(s, t))

CallToInt == MayCall /\ \E n \in Numbers, base \in {2, 10, 16}, rest \in Patterns :
    Calls("toint", <<n, base, rest>>, ToInt(J!Sign(n) \o J!DigitsIn(J!Abs(n), base) \o rest, base))

CallEncode == MayCall /\ \E codec \in {"utf8", "utf16", "utf32"}, a, b \in Points :
    Calls("encode", <<codec, <<a, b>>>>, C!Encode(codec, <<a, b>>))

CallLoads == MayCall /\ \E v \in Values, lead \in Leads, tail \in Tails :
    Calls("loads", <<v, lead, tail>>, J!Loads(lead \o J!Dump(v, 0) \o tail))

CallLoadsCut == MayCall /\ \E v \in Values : \E k \in 0 .. Len(J!Dump(v, 0)) - 1 :
    Calls("cut", <<v, k>>, J!Loads(VSlice(J!Dump(v, 0), 0, k)))

CallUri == MayCall /\ \E u \in Uris :
    Calls("uri", <<u>>, U!ParseUri(U!UriRepr(u)))

CallRequest == MayCall /\ \E u \in Uris, keepAlive \in BOOLEAN :
    Calls("request", <<u>>, U!NewRequest(u, keepAlive))

UseStrings ==
    /\ subject = "strings" /\ StoreNext
    /\ UNCHANGED <<listVars, lineVars, taskVars, subject, call>>

UseLists ==
    /\ subject = "lists" /\ ListNext
    /\ UNCHANGED <<storeVars, lineVars, taskVars, subject, call>>

UseLines ==
    /\ subject = "lines" /\ LinesNext
    /\ UNCHANGED <<storeVars, listVars, taskVars, subject, call>>

UseTasks ==
    /\ subject = "tasks" /\ TaskNext
    /\ UNCHANGED <<storeVars, listVars, lineVars, subject, call>>

Next == \/ CallSplit \/ CallWords \/ CallReplace \/ CallStrip \/ CallFind \/ CallFindChar
        \/ CallCase \/ CallCompare \/ CallToInt \/ CallEncode \/ CallLoads \/ CallLoadsCut
        \/ CallUri \/ CallRequest \/ UseStrings \/ UseLists \/ UseLines \/ UseTasks

Spec == Init /\ [][Next]_vars

-----------------------------------------------------------------------------
(* The pieces of split() give the text again when the pattern joins them   *)
(* (Atring.hpp line 668), and there are as many as the limit allows; those *)
(* before the last do not contain the pattern.                             *)
SplitLaw(s, p, max, out) ==
    /\ Join(p, out) = s
    /\ max = -1 \/ Len(out) <= max + 1
    /\ \A i \in DOMAIN out : i < Len(out) \/ max = -1 => PlacesOf(out[i], p) = {}

(* The words have no blanks, nothing else is lost.                         *)
WordsLaw(s, max, out) ==
    /\ AJoin([i \in DOMAIN out |-> SelectSeq(out[i], LAMBDA c : ~IsSpace(c))])
           = SelectSeq(s, LAMBDA c : ~IsSpace(c))
    /\ \A i \in DOMAIN out : i < Len(out) \/ max = -1 => ~\E c \in ToSet(out[i]) : IsSpace(c)

(* replace() with a limit, or with none (-1), is split() and join().  A    *)
(* limit of 0 is left out: there the code replaces all, where              *)
(* Atring.hpp line 577 allows no replacement.                              *)
ReplaceLaw(s, old, new, max, out) ==
    max # 0 => out = Join(new, Split(s, old, max))

(* Only whole patterns, or blanks, go from the ends, and all of them.      *)
StripLaw(s, p, out) ==
    /\ \E i, j \in 0 .. Len(s) : s = Repeat(p, i) \o out[1] \o Repeat(p, j)
    /\ ~StartsWith(out[1], p) /\ ~EndsWith(out[1], p)
    /\ out[2] = RStrip(out[3]) /\ out[2] = LStrip(out[4])
    /\ out[2] # <<>> => ~IsSpace(Head(out[2])) /\ ~IsSpace(Last(out[2]))

(* Searching from either end agrees, and with count().                     *)
FindLaw(s, p, out) ==
    LET mirrored == Index(Reverse(s), Reverse(p), 0)
    IN  /\ out[2] = IF mirrored = -1 THEN -1 ELSE Len(s) - Len(p) - mirrored
        /\ out[1] <= out[2] /\ (out[1] = -1 <=> out[3] = 0)
        /\ out[3] >= 2 <=> out[1] # -1 /\ out[1] + Len(p) <= out[2]

(* The search for a character is that for the text of this character.      *)
FindCharLaw(s, c, out) == out = <<Index(s, <<c>>, 0), RIndex(s, <<c>>, -1), Count(s, <<c>>, 0)>>

(* upper() and lower() undo each other, letter by letter.                  *)
CaseLaw(s, out) ==
    /\ out[1] = Lower(out[2]) /\ out[2] = Upper(out[1])
    /\ \A i \in DOMAIN s : s[i] \in {out[1][i], out[2][i]} /\ (out[1][i] = out[2][i] => ~IsAlpha(s[i]))

(* operator<=> orders the texts, and == is its equality.                   *)
CompareLaw(s, t, out) ==
    /\ out = -Compare(t, s)
    /\ out = 0 <=> s = t
    /\ StartsWith(t, s) => out <= 0
    /\ \A u \in Patterns : out <= 0 /\ Compare(t, u) <= 0 => Compare(s, u) <= 0

(* A printed number is read again, and what follows it is left over.       *)
(* Nothing is said of a digit or letter that follows it: the code takes    *)
(* every letter for a digit, whatever the base (Atring.hpp lines 725-731). *)
ToIntLaw(n, rest, out) ==
    rest = <<>> \/ ~(IsDigit(Head(rest)) \/ IsAlpha(Head(rest))) =>
        out = [num |-> n, rest |-> rest]

(* A text is decoded from its encoding; UTF-16 and UTF-32 only if no byte  *)
(* has its highest bit set, because decode() takes bytes for signed        *)
(* (UniCodec.hpp lines 197, 258).                                          *)
CodecLaw(codec, text, out) ==
    codec = "utf8" \/ (\A b \in ToSet(out) : b < 128) => C!Decode(codec, out) = text

(* The algorithms on texts (Atring.hpp) keep to each other, and decoding   *)
(* to encoding (UniCodec.hpp).                                             *)
TextLaws ==
    LET in == call.in
        out == call.out
    IN  CASE call.op = "split" -> SplitLaw(in[1], in[2], in[3], out)
          [] call.op = "words" -> WordsLaw(in[1], in[2], out)
          [] call.op = "replace" -> ReplaceLaw(in[1], in[2], in[3], in[4], out)
          [] call.op = "strip" -> StripLaw(in[1], in[2], out)
          [] call.op = "find" -> FindLaw(in[1], in[2], out)
          [] call.op = "char" -> FindCharLaw(in[1], in[2], out)
          [] call.op = "case" -> CaseLaw(in[1], out)
          [] call.op = "compare" -> CompareLaw(in[1], in[2], out)
          [] call.op = "toint" -> ToIntLaw(in[1], in[3], out)
          [] call.op = "encode" -> CodecLaw(in[1], in[2], out)
          [] OTHER -> TRUE


(* A Uri is found again in its text: an empty path becomes "/".  With a    *)
(* fragment that follows no query the '#' may come along, as it does in    *)
(* the code (Uri.hpp line 214) and should not (line 10).                   *)
(* Without a scheme no other part may contain "://".  The request for a    *)
(* Uri names the host, has a port, and asks for the path and the query.    *)
UriRoundTrip ==
    LET u == call.in[1]
        text == U!UriRepr(u)
        req == call.out
    IN  /\ call.op = "uri" /\ (u.scheme # <<>> \/ Index(text, U!SchemeEnd, 0) = -1) =>
             /\ [call.out EXCEPT !.fragment = <<>>] =
                [u EXCEPT !.fragment = <<>>, !.path = IF @ = <<>> THEN <<"/">> ELSE @]
             /\ \/ call.out.fragment = u.fragment
                \/ u.queries = <<>> /\ call.out.fragment = <<"#">> \o u.fragment
        /\ call.op = "request" /\ req.ok =>
             /\ req.uri.port # <<>> /\ (<<"Host", u.host>> \in req.headers <=> u.host # <<>>)
             /\ U!UriRepr(req.uri) = req.uri.scheme \o U!SchemeEnd \o u.host \o <<":">>
                  \o req.uri.port \o U!RequestPath(req.uri) \o U!Shown(<<"#">>, u.fragment, <<>>)
=============================================================================
