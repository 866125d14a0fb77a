----------------------------- MODULE RobinTable -----------------------------
(***************************************************************************)
(* ayr::Table with Pow2Policy and RobinItem (include/ayr/air/Table.hpp): a *)
(* hash table with Robin-Hood probing, as pure operators on a table value. *)
(* items[j].dist is the distance of an item from the place its hash asks   *)
(* for, -1 when the place is not used.  The keys are not in the table: two *)
(* hashes are equal or are different keys.                                 *)
(***************************************************************************)
EXTENDS Integers, FiniteSets

CONSTANTS
    MinCapacity,  \* min_capacity(), 16 in the code
    Nil

(* 1 << n.                                                                 *)
Pow2[n \in Nat] == IF n = 0 THEN 1 ELSE 2 * Pow2[n - 1]

ASSUME TableAssumption == \E n \in 2 .. 30 : MinCapacity = Pow2[n]

Unused == [dist |-> -1, hash |-> 0, node |-> Nil]

Used(item) == item.dist # -1

-----------------------------------------------------------------------------
(* Pow2Policy.                                                             *)

Threshold(cap) == (cap \div 4) * 3

Home(cap, hash) == hash % cap

NextIndex(cap, j) == (j + 1) % cap

(* highbit_index: the position of the highest bit, -1 for zero.            *)
HighBit(n) == IF n = 0 THEN -1 ELSE CHOOSE l \in 0 .. n : Pow2[l] <= n /\ n < Pow2[l + 1]

(* adapt_at_least: the bit below the highest says whether three quarters   *)
(* of the next power of two are enough.                                    *)
AdaptAtLeast(n) ==
    LET h == HighBit(n)
        res == IF h <= 0 \/ (n \div Pow2[h - 1]) % 2 = 0 THEN Pow2[h + 1]
               ELSE Pow2[h + 2]
    IN  IF res < MinCapacity THEN MinCapacity ELSE res

-----------------------------------------------------------------------------
(* Table.                                                                  *)

NewTable(n) ==
    LET cap == AdaptAtLeast(n)
    IN  [cap |-> cap, items |-> [j \in 0 .. cap - 1 |-> Unused], size |-> 0]

(* try_get: along the probe sequence, the first place whose item is closer *)
(* to its home than hash would be there, or has that hash.                 *)
TryGet(t, hash) ==
    LET at(d) == (Home(t.cap, hash) + d) % t.cap
        stop(d) == d > t.items[at(d)].dist \/ t.items[at(d)].hash = hash
        dist == CHOOSE d \in 0 .. t.cap : stop(d) /\ \A e \in 0 .. d - 1 : ~stop(e)
    IN  [index |-> at(dist), dist |-> dist]

Holds(t, pos, hash) == Used(t.items[pos.index]) /\ t.items[pos.index].hash = hash

Contains(t, hash) == Holds(t, TryGet(t, hash), hash)

(* Mutated form: the item that is pushed on keeps its old distance.        *)
PlaceStale(items, cap, index, item) ==
    LET at(k) == (index + k) % cap
        free == CHOOSE n \in 0 .. cap - 1 :
                    ~Used(items[at(n)]) /\ \A m \in 0 .. n - 1 : Used(items[at(m)])
        walk[k \in 0 .. free] ==
            IF k = 0 THEN [items |-> items, carry |-> item]
            ELSE LET s == walk[k - 1]
                     j == at(k - 1)
                 IN  IF s.carry.dist > s.items[j].dist
                     THEN [items |-> [s.items EXCEPT ![j] = s.carry], carry |-> s.items[j]]
                     ELSE [s EXCEPT !.carry.dist = @ + 1]
    IN  [walk[free].items EXCEPT ![at(free)] = walk[free].carry]

(* The loop of insert_value_on_index and of insert_value_on_rehash: carry  *)
(* an item from index on; where it is farther from home than the item that *)
(* is there, the two change places; put it down at the first free place.   *)
Place(items, cap, index, item) ==
    LET at(k) == (index + k) % cap
        free == CHOOSE n \in 0 .. cap - 1 :
                    ~Used(items[at(n)]) /\ \A m \in 0 .. n - 1 : Used(items[at(m)])
        walk[k \in 0 .. free] ==
            IF k = 0 THEN [items |-> items, carry |-> item]
            ELSE LET s == walk[k - 1]
                     j == at(k - 1)
                 IN  IF s.carry.dist > s.items[j].dist
                     THEN [items |-> [s.items EXCEPT ![j] = s.carry],
                           carry |-> [s.items[j] EXCEPT !.dist = @ + 1]]
                     ELSE [s EXCEPT !.carry.dist = @ + 1]
    IN  [walk[free].items EXCEPT ![at(free)] = walk[free].carry]

(* Mutated form: the last place of the old table is forgotten.             *)
RehashShort(t, n) ==
    LET cap == AdaptAtLeast(n)
        fill[i \in 0 .. t.cap - 1] ==
            IF i = 0 THEN NewTable(n).items
            ELSE LET old == t.items[i - 1]
                 IN  IF Used(old)
                     THEN Place(fill[i - 1], cap, Home(cap, old.hash), [old EXCEPT !.dist = 0])
                     ELSE fill[i - 1]
    IN  [cap |-> cap, items |-> fill[t.cap - 1], size |-> t.size]

(* The items of t in a new table of another capacity, one by one.          *)
Rehash(t, n) ==
    LET cap == AdaptAtLeast(n)
        fill[i \in 0 .. t.cap] ==
            IF i = 0 THEN NewTable(n).items
            ELSE LET old == t.items[i - 1]
                 IN  IF Used(old)
                     THEN Place(fill[i - 1], cap, Home(cap, old.hash), [old EXCEPT !.dist = 0])
                     ELSE fill[i - 1]
    IN  [cap |-> cap, items |-> fill[t.cap], size |-> t.size]

TryExpand(t) == IF t.size < Threshold(t.cap) THEN t ELSE Rehash(t, t.cap)

InsertOnIndex(t, pos, hash, node) ==
    TryExpand([t EXCEPT
        !.items = Place(t.items, t.cap, pos.index,
                        [dist |-> pos.dist, hash |-> hash, node |-> node]),
        !.size = @ + 1])

(* Mutated form: the place is cleared and nothing moves up.                *)
PopOnIndexHole(t, pos) ==
    [t EXCEPT !.items[pos.index] = Unused, !.size = @ - 1]

(* pop_value_on_index: the items behind that are not at home move up.      *)
PopOnIndex(t, pos) ==
    LET at(k) == (pos.index + k) % t.cap
        n == CHOOSE m \in 0 .. t.cap - 1 :
                 t.items[at(m + 1)].dist <= 0 /\ \A k \in 1 .. m : t.items[at(k)].dist > 0
        back(j) == (j - pos.index + t.cap) % t.cap
    IN  [t EXCEPT
            !.items = [j \in 0 .. t.cap - 1 |->
                          IF back(j) < n THEN [t.items[at(back(j) + 1)] EXCEPT !.dist = @ - 1]
                          ELSE IF back(j) = n THEN Unused ELSE t.items[j]],
            !.size = @ - 1]

(* clear(): all items go, and the capacity is the smallest again.          *)
ClearTable == NewTable(0)
=============================================================================
