----------------------------- MODULE OrderedMap -----------------------------
(***************************************************************************)
(* What ayr::Dict promises: a finite map that remembers the order in which *)
(* its keys were inserted.  A map is the list of its pairs; a map that was *)
(* moved from is Gone until it is assigned.                                *)
(***************************************************************************)
EXTENDS Integers, Sequences

CONSTANTS Maps, Keys, Values, Gone

VARIABLES pairs, call  \* call: the operation that was made last

KeysOf(s) == {s[i].key : i \in 1 .. Len(s)}

(* The pairs whose key is in K.                                            *)
Keep(s, K) ==
    LET kept[i \in 0 .. Len(s)] ==
            IF i = 0 THEN <<>>
            ELSE IF s[i].key \in K THEN Append(kept[i - 1], s[i]) ELSE kept[i - 1]
    IN  kept[Len(s)]

(* A key that is there keeps its place in the order.                       *)
Put(s, k, v) ==
    IF k \in KeysOf(s)
    THEN [s EXCEPT ![CHOOSE i \in 1 .. Len(s) : s[i].key = k].val = v]
    ELSE Append(s, [key |-> k, val |-> v])

Make(m, s) == pairs' = [pairs EXCEPT ![m] = s]

Usable(m) == pairs[m] # Gone

Init == pairs = [m \in Maps |-> <<>>] /\ call = <<>>

Insert(m, k, v) ==
    /\ call' = <<"insert", m, k, v>> /\ Usable(m)
    /\ Make(m, Put(pairs[m], k, v))

SetDefault(m, k, v) ==
    /\ call' = <<"setdefault", m, k, v>> /\ Usable(m)
    /\ Make(m, IF k \in KeysOf(pairs[m]) THEN pairs[m] ELSE Put(pairs[m], k, v))

Pop(m, k) ==
    /\ call' = <<"pop", m, k>> /\ Usable(m)
    /\ Make(m, Keep(pairs[m], Keys \ {k}))

Clear(m) ==
    /\ call' = <<"clear", m>> /\ Usable(m)
    /\ Make(m, <<>>)

Take(m, n) ==
    /\ call' = <<"take", m, n>> /\ m # n /\ Usable(n)
    /\ pairs' = [pairs EXCEPT ![m] = pairs[n], ![n] = Gone]

(* The pairs of both, and the pairs of either that are not in both.        *)
Meet(m, n) ==
    /\ call' = <<"meet", m, n>> /\ m # n /\ Usable(m) /\ Usable(n)
    /\ Make(m, Keep(pairs[m], KeysOf(pairs[n])))

Differ(m, n) ==
    /\ call' = <<"differ", m, n>> /\ m # n /\ Usable(m) /\ Usable(n)
    /\ Make(m, Keep(pairs[m], Keys \ KeysOf(pairs[n]))
                \o Keep(pairs[n], Keys \ KeysOf(pairs[m])))

Next ==
    \/ \E m \in Maps, k \in Keys, v \in Values : Insert(m, k, v) \/ SetDefault(m, k, v)
    \/ \E m \in Maps, k \in Keys : Pop(m, k)
    \/ \E m \in Maps : Clear(m)
    \/ \E m, n \in Maps : Take(m, n) \/ Meet(m, n) \/ Differ(m, n)

Spec == Init /\ [][Next]_<<pairs, call>>
=============================================================================
