---------------------------- MODULE StringStore -----------------------------
(***************************************************************************)
(* The memory of ayr::CString (include/ayr/base/meta/CString.hpp) and of   *)
(* ayr::Atring (base/Atring.hpp), which is kept in the same way.  A string *)
(* keeps a short text in itself (sso), owns a block of the heap, or views  *)
(* what another string keeps or owns.  The copy of a CString is always a   *)
(* view; the copy of an Atring is one unless its text is short.            *)
(***************************************************************************)
EXTENDS Slices

CONSTANTS
    Strings,    \* the variables of type CString, or Atring
    SsoSize,    \* SSO_SIZE: 16 bytes, or 6 characters
    Literals,   \* the texts that are put into the program
    MaxText,    \* bound on the length of a text
    MaxBlocks   \* bound on the allocations

ASSUME StoreAssumption ==
    /\ SsoSize \in Nat
    /\ \A t \in Literals : t \in Seq(Range(t))

VARIABLES
    family,     \* "CString" or "Atring": the class of the strings
    strings,    \* the members of each string
    blocks,     \* every block that was allocated: its text, and if it lives
    meant,      \* the text that each string was given (history)
    stale       \* the strings that view memory which was given back or
                \* overwritten since (history)

storeVars == <<family, strings, blocks, meant, stale>>

(* at: "block" or "inline" with which one; where is also what a view that  *)
(* was moved from points at: nothing.                                      *)
Handle(form, at, off, len, short) ==
    [form |-> form, at |-> at, off |-> off, len |-> len, short |-> short]

Nowhere == <<"none", 0>>
Gone == Handle("gone", Nowhere, 0, 0, <<>>)
MovedFrom == Handle("view", Nowhere, 0, 0, <<>>)
Sso(text) == Handle("sso", Nowhere, 0, Len(text), text)
Owner(b, n) == Handle("owner", <<"block", b>>, 0, n, <<>>)

StoreInit ==
    /\ family \in {"CString", "Atring"}
    /\ strings = [x \in Strings |-> Gone]
    /\ blocks = <<>>
    /\ meant = [x \in Strings |-> <<>>]
    /\ stale = {}

Alive == {x \in Strings : strings[x].form # "gone"}
Usable == Alive \ stale

(* data(): where the text of x begins.                                     *)
Data(x) == IF strings[x].form = "sso" THEN <<"inline", x>> ELSE strings[x].at

(* What x reads.  A text that is no longer there reads as Nowhere.         *)
TextOf(x) ==
    LET h == strings[x]
    IN  CASE h.form = "sso" -> h.short
          [] h.at[1] = "block" -> VSlice(blocks[h.at[2]].text, h.off, h.off + h.len)
          [] h.at[1] = "inline" -> VSlice(strings[h.at[2]].short, h.off, h.off + h.len)
          [] OTHER -> <<>>

ViewOf(y, start, end) ==
    Handle("view", Data(y), strings[y].off + start, end - start, <<>>)

(* assign_ptr, and the copy into what it returns.                          *)
Assigned(text) ==
    IF Len(text) <= SsoSize THEN Sso(text) ELSE Owner(Len(blocks) + 1, Len(text))

AllocatedFor(h, text) ==
    IF h.form = "owner" THEN Append(blocks, [text |-> text, live |-> TRUE]) ELSE blocks

(* The destructor of x gives back the block that it owns.                  *)
Freed(bs, x) ==
    IF strings[x].form = "owner"
    THEN [bs EXCEPT ![strings[x].at[2]] = [text |-> <<>>, live |-> FALSE]] ELSE bs

(* The memory that is lost with the strings xs, and the views of it.       *)
Lost(xs) == {<<"inline", x>> : x \in xs}
            \cup {strings[x].at : x \in {y \in xs : strings[y].form = "owner"}}
StaleAfter(x, xs, now) ==
    {v \in Strings : now[v].form = "view"
                     /\ (v \in stale \ {x} \/ now[v].at \in Lost(xs))}

Fits(text, h) == Len(text) <= MaxText /\ (h.form = "owner" => Len(blocks) < MaxBlocks)

(* A new string x is given a text in memory of its own.                    *)
Constructed(x, h, text) ==
    /\ x \notin Alive /\ Fits(text, h)
    /\ strings' = [strings EXCEPT ![x] = h]
    /\ blocks' = AllocatedFor(h, text)
    /\ meant' = [meant EXCEPT ![x] = text]
    /\ UNCHANGED stale

Dstr(x) == \E t \in Literals : Constructed(x, Assigned(t), t)

(* from_buffer takes the memory of the buffer, short as it may be.         *)
FromBuffer(x) ==
    family = "CString"
    /\ \E t \in Literals : Constructed(x, Owner(Len(blocks) + 1, Len(t)), t)

Plus(z, x, y) == LET t == TextOf(x) \o TextOf(y) IN Constructed(z, Assigned(t), t)

Times(z, x, n) == LET t == Repeat(TextOf(x), n) IN Constructed(z, Assigned(t), t)

Clone(z, x) == Constructed(z, Assigned(TextOf(x)), TextOf(x))

CStringVSlice(z, x, start, end) ==
    /\ z \notin Alive
    /\ LET t == VSlice(TextOf(x), start, end)
       IN  /\ strings' = [strings EXCEPT ![z] = IF Len(t) <= SsoSize THEN Sso(t)
                                                ELSE ViewOf(x, start, end)]
           /\ meant' = [meant EXCEPT ![z] = t]
    /\ UNCHANGED <<blocks, stale>>

(* A view that slice() got from vslice() is cloned.                        *)
CStringSlice(z, x, start, end) ==
    LET t == VSlice(TextOf(x), start, end) IN Constructed(z, Assigned(t), t)

(* What a copy of y holds.                                                 *)
CopyOf(y) == IF family = "Atring" /\ strings[y].form = "sso" THEN strings[y]
             ELSE ViewOf(y, 0, strings[y].len)

CopyString(x, y) ==
    /\ x \notin Alive
    /\ strings' = [strings EXCEPT ![x] = CopyOf(y)]
    /\ meant' = [meant EXCEPT ![x] = meant[y]]
    /\ UNCHANGED <<blocks, stale>>

(* Mutated form: the source keeps its flag.                                *)
MoveStringKeeps(x, y) ==
    /\ x \notin Alive
    /\ strings' = [strings EXCEPT ![x] = strings[y]]
    /\ meant' = [meant EXCEPT ![x] = meant[y]]
    /\ UNCHANGED <<blocks, stale>>

MoveString(x, y) ==
    /\ x \notin Alive
    /\ strings' = [strings EXCEPT ![x] = strings[y], ![y] = MovedFrom]
    /\ meant' = [meant EXCEPT ![x] = meant[y], ![y] = <<>>]
    /\ stale' = StaleAfter(x, IF strings[y].form = "sso" THEN {y} ELSE {}, strings')
    /\ UNCHANGED blocks

Destroy(x) ==
    /\ strings' = [strings EXCEPT ![x] = Gone]
    /\ blocks' = Freed(blocks, x)
    /\ meant' = [meant EXCEPT ![x] = <<>>]
    /\ stale' = StaleAfter(x, {x}, strings')

(* The target gives its memory back first, also if y views it.             *)
AssignString(x, y) ==
    /\ x # y
    /\ strings' = [strings EXCEPT ![x] = CopyOf(y)]
    /\ blocks' = Freed(blocks, x)
    /\ meant' = [meant EXCEPT ![x] = meant[y]]
    /\ stale' = StaleAfter(x, {x}, strings')

MoveAssignString(x, y) ==
    /\ x # y
    /\ strings' = [strings EXCEPT ![x] = strings[y], ![y] = MovedFrom]
    /\ blocks' = Freed(blocks, x)
    /\ meant' = [meant EXCEPT ![x] = meant[y], ![y] = <<>>]
    /\ stale' = StaleAfter(x, {x} \cup IF strings[y].form = "sso" THEN {y} ELSE {},
                           strings')

(* operator+=: in place, or through a temporary that is moved to x.        *)
AppendTo(x, y) ==
    LET t == TextOf(x) \o TextOf(y)
        inPlace == strings[x].form = "sso" /\ Len(t) <= SsoSize
        h == Assigned(t)
    IN  /\ Fits(t, h)
        /\ strings' = [strings EXCEPT ![x] = h]
        /\ blocks' = Freed(AllocatedFor(h, t), x)
        /\ meant' = [meant EXCEPT ![x] = meant[x] \o meant[y]]
        /\ stale' = IF inPlace THEN stale ELSE StaleAfter(x, {x}, strings')

StoreNext ==
    /\ UNCHANGED family
    /\ \/ \E x \in Strings : Dstr(x) \/ FromBuffer(x)
       \/ \E x \in Alive : Destroy(x)
       \/ \E x \in Strings, y \in Usable : CopyString(x, y) \/ MoveString(x, y) \/ Clone(x, y)
       \/ \E x \in Alive, y \in Usable : AssignString(x, y) \/ MoveAssignString(x, y)
       \/ \E x, y \in Usable : AppendTo(x, y)
       \/ \E z \in Strings, x, y \in Usable : Plus(z, x, y)
       \/ \E z \in Strings, x \in Usable, n \in 0 .. 2 : Times(z, x, n)
       \/ \E z \in Strings, x \in Usable : \E i, j \in 0 .. strings[x].len :
            CStringVSlice(z, x, i, j) \/ CStringSlice(z, x, i, j)

StoreSpec == StoreInit /\ [][StoreNext]_storeVars

-----------------------------------------------------------------------------
(* Every block that lives has one owner, and no owner's block is given     *)
(* back: none leaks, none is freed twice.                                  *)
BlocksOwnedOnce ==
    \A b \in DOMAIN blocks :
        Cardinality({x \in Alive : strings[x].form = "owner" /\ strings[x].at[2] = b})
            = IF blocks[b].live THEN 1 ELSE 0

(* A string reads the text that it was given: copies, slices and moves are *)
(* values as long as what they view is neither destroyed nor assigned to.  *)
TextsAreMeant ==
    \A x \in Usable : TextOf(x) = meant[x] /\ strings[x].len = Len(meant[x])

(* What a program relies on when it passes CStrings about.                 *)
StringsKeepTheirTexts == BlocksOwnedOnce /\ TextsAreMeant
=============================================================================
