-------------------------------- MODULE Text --------------------------------
(***************************************************************************)
(* The algorithms of ayr::Atring (include/ayr/base/Atring.hpp).  A text is *)
(* a sequence of code points.  Positions are counted from 0 and -1 stands  *)
(* for none, as in the code.  What memory a text is kept in is the subject *)
(* of StringStore.  A pattern that is searched for more than once is not   *)
(* empty: count, split, strip of an empty one never end.                   *)
(***************************************************************************)
EXTENDS Slices

At(s, i) == s[i + 1]

IsSpace(c) == c \in 9 .. 13 \cup {0, 32}
IsDigit(c) == c \in 48 .. 57
IsUpper(c) == c \in 65 .. 90
IsLower(c) == c \in 97 .. 122
IsAlpha(c) == IsUpper(c) \/ IsLower(c)

Upper(s) == [i \in DOMAIN s |-> IF IsLower(s[i]) THEN s[i] - 32 ELSE s[i]]
Lower(s) == [i \in DOMAIN s |-> IF IsUpper(s[i]) THEN s[i] + 32 ELSE s[i]]

StartsWith(s, p) == Len(p) <= Len(s) /\ VSlice(s, 0, Len(p)) = p
EndsWith(s, p) == Len(p) <= Len(s) /\ VSlice(s, Len(s) - Len(p), Len(s)) = p

PlacesOf(s, p) == {i \in 0 .. Len(s) - Len(p) : VSlice(s, i, i + Len(p)) = p}

LeastOrNone(places) == IF places = {} THEN -1 ELSE Min(places)
GreatestOrNone(places) == IF places = {} THEN -1 ELSE Max(places)

Index(s, p, pos) == LeastOrNone({i \in PlacesOf(s, p) : i >= pos})

IndexChar(s, c, pos) == LeastOrNone({i \in pos .. Len(s) - 1 : At(s, i) = c})

RIndex(s, p, pos) ==
    LET last == Len(s) - Len(p)
        from == IF pos < 0 \/ pos > last THEN last ELSE pos
    IN  GreatestOrNone({i \in PlacesOf(s, p) : i <= from})

RIndexChar(s, c, pos) ==
    LET from == IF pos < 0 \/ pos > Len(s) - 1 THEN Len(s) - 1 ELSE pos
    IN  GreatestOrNone({i \in 0 .. from : At(s, i) = c})

(* Occurrences that do not overlap, found from the left.                   *)
RECURSIVE Count(_, _, _)
Count(s, p, pos) ==
    LET i == Index(s, p, pos)
    IN  IF i = -1 THEN 0 ELSE 1 + Count(s, p, i + Len(p))

CountChar(s, c, pos) == Cardinality({i \in pos .. Len(s) - 1 : At(s, i) = c})

-----------------------------------------------------------------------------
(* Stripping: the first place that stays, then the last.                   *)

LeftBlank(s) == Min({i \in 0 .. Len(s) - 1 : ~IsSpace(At(s, i))} \cup {Len(s)})

RightBlank(s, l) ==
    Max({i + 1 : i \in {k \in l .. Len(s) - 1 : ~IsSpace(At(s, k))}} \cup {l})

LStrip(s) == VSlice(s, LeftBlank(s), Len(s))
RStrip(s) == VSlice(s, 0, RightBlank(s, 0))
Strip(s) == VSlice(s, LeftBlank(s), RightBlank(s, LeftBlank(s)))

RECURSIVE LStripOf(_, _)
LStripOf(s, p) == IF StartsWith(s, p) THEN LStripOf(VSlice(s, Len(p), Len(s)), p) ELSE s

RECURSIVE RStripOf(_, _)
RStripOf(s, p) == IF EndsWith(s, p) THEN RStripOf(VSlice(s, 0, Len(s) - Len(p)), p) ELSE s

StripOf(s, p) == RStripOf(LStripOf(s, p), p)

-----------------------------------------------------------------------------
(* Joining and splitting.                                                  *)

AJoin(elems) == FlattenSeq(elems)

Join(sep, elems) ==
    IF sep = <<>> THEN AJoin(elems)
    ELSE AJoin([i \in DOMAIN elems |-> IF i = 1 THEN elems[i] ELSE sep \o elems[i]])

(* A maxreplace of 0 is never reached by ++num_old: all are replaced.      *)
RECURSIVE Replaced(_, _, _, _)
Replaced(s, old, new, n) ==
    LET i == Index(s, old, 0)
    IN  IF n = 0 THEN s
        ELSE VSlice(s, 0, i) \o new \o Replaced(VSlice(s, i + Len(old), Len(s)), old, new, n - 1)

Replace(s, old, new, max) ==
    IF old = <<>> THEN s
    ELSE LET n == Count(s, old, 0)
         IN  Replaced(s, old, new, IF max \in 1 .. n THEN max ELSE n)

Pieces(n, max) == IF max # -1 /\ max < n THEN max ELSE n

RECURSIVE SplitOff(_, _, _)
SplitOff(s, p, n) ==
    LET i == Index(s, p, 0)
    IN  IF n = 0 THEN <<s>>
        ELSE <<VSlice(s, 0, i)>> \o SplitOff(VSlice(s, i + Len(p), Len(s)), p, n - 1)

(* Mutated form: the search goes on one place behind the start of a match. *)
SplitOverlapping(s, p, max) == SplitOff(s, <<Head(p)>>, Pieces(Count(s, p, 0), max))

Split(s, p, max) == SplitOff(s, p, Pieces(Count(s, p, 0), max))

(* split(): one cut for each run of blanks, those at the ends included.    *)
BlankRuns(s) == {i \in 0 .. Len(s) - 1 :
                   IsSpace(At(s, i)) /\ (i = 0 \/ ~IsSpace(At(s, i - 1)))}

RECURSIVE SplitOffBlanks(_, _)
SplitOffBlanks(s, n) ==
    LET i == Min(BlankRuns(s))
    IN  IF n = 0 THEN <<s>>
        ELSE <<VSlice(s, 0, i)>> \o SplitOffBlanks(LStrip(VSlice(s, i, Len(s))), n - 1)

SplitBlanks(s, max) == SplitOffBlanks(s, Pieces(Cardinality(BlankRuns(s)), max))

-----------------------------------------------------------------------------
(* Numbers: what was read and the rest of the text.                        *)

DigitOf(c) == CASE IsDigit(c) -> c - 48 [] IsUpper(c) -> c - 55 [] IsLower(c) -> c - 87

SignSize(s) == IF s # <<>> /\ At(s, 0) \in {43, 45} THEN 1 ELSE 0
Signed(s, n) == IF s # <<>> /\ At(s, 0) = 45 THEN -n ELSE n

Value(digits, base) == FoldLeft(LAMBDA n, c : n * base + DigitOf(c), 0, digits)

(* Every letter is a digit, whatever the base is.                          *)
ToInt(s, base) ==
    LET end == Min({i \in SignSize(s) .. Len(s) - 1 :
                      ~IsDigit(At(s, i)) /\ ~IsAlpha(At(s, i))} \cup {Len(s)})
    IN  [num |-> Signed(s, Value(VSlice(s, SignSize(s), end), base)),
         rest |-> VSlice(s, end, Len(s))]

(* The result is num / div.                                                *)
ToFloat(s) ==
    LET dot == Min({i \in SignSize(s) .. Len(s) - 1 : ~IsDigit(At(s, i))} \cup {Len(s)})
        frac == IF dot < Len(s) /\ At(s, dot) = 46 THEN dot + 1 ELSE dot
        end == IF frac = dot THEN dot
               ELSE Min({i \in frac .. Len(s) - 1 : ~IsDigit(At(s, i))} \cup {Len(s)})
    IN  [num |-> Signed(s, Value(VSlice(s, SignSize(s), dot) \o VSlice(s, frac, end), 10)),
         div |-> 10 ^ (end - frac), rest |-> VSlice(s, end, Len(s))]

(* operator<=>: -1, 0 or 1.                                                *)
Compare(s, t) ==
    LET differ == {i \in 1 .. Min({Len(s), Len(t)}) : s[i] # t[i]}
        sign(a, b) == IF a < b THEN -1 ELSE IF a = b THEN 0 ELSE 1
    IN  IF differ = {} THEN sign(Len(s), Len(t))
        ELSE sign(s[Min(differ)], t[Min(differ)])
=============================================================================
