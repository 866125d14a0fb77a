-------------------------------- MODULE Dict --------------------------------
(***************************************************************************)
(* ayr::Dict (include/ayr/air/Dict.hpp): a dictionary that iterates in the *)
(* order of insertion.  The pairs live in the nodes of a Chain (a doubly   *)
(* linked list, air/Chain.hpp), a Table finds the node of a hash.          *)
(*                                                                         *)
(* Nodes are addresses of one heap, so that two dictionaries, or a         *)
(* dictionary and one that is gone, may refer to the same node.  A Dict    *)
(* never compares keys, only their hashes: a key is its hash here.         *)
(* The program is sequential: an action is a whole operation.              *)
(***************************************************************************)
EXTENDS RobinTable, Sequences

CONSTANTS
    Dicts,     \* the names of the dictionaries
    Keys,
    Values,
    NodeAddrs, \* the addresses of nodes: this bounds the number of pairs
    Missing    \* the RuntimeError of get()

ASSUME DictAssumption ==
    /\ Keys \subseteq Nat /\ NodeAddrs \subseteq Nat /\ IsFiniteSet(NodeAddrs)
    /\ Missing \notin Values /\ Nil \notin Values \cup NodeAddrs \cup {Missing}
    /\ Nil \notin [key : Keys, val : Values,
                   prev : NodeAddrs \cup {Nil}, next : NodeAddrs \cup {Nil}]
    /\ Nil \notin Seq([key : Keys, val : Values])

VARIABLES
    table,  \* htable_ of every dictionary
    chain,  \* kv_chain_: head_, tail_ and size_
    heap,   \* what is at every address: a node, or Nil
    call    \* the operation that was made last, for the refinement only

vars == <<table, chain, heap, call>>

NoChain == [head |-> Nil, tail |-> Nil, size |-> 0]

(* What is left of a table that was moved from: items_ is a null pointer.  *)
(* Its capacity, which nothing reads any more, is left out.                *)
NoTable == [cap |-> 0, items |-> <<>>, size |-> 0]

Free(h) == {a \in NodeAddrs : h[a] = Nil}

Fresh(h) == CHOOSE a \in Free(h) : \A b \in Free(h) : a <= b

-----------------------------------------------------------------------------
(* Chain.                                                                  *)

(* The nodes from head_ on.                                                *)
Nodes(c, h) ==
    LET node[i \in 1 .. c.size] == IF i = 1 THEN c.head ELSE h[node[i - 1]].next
    IN  [i \in 1 .. c.size |-> node[i]]

(* append_node, lines 129-138.                                             *)
ChainAppend(c, h, a, k, v) ==
    LET made == [h EXCEPT ![a] = [key |-> k, val |-> v, prev |-> Nil, next |-> Nil]]
    IN  [chain |-> [head |-> IF c.size = 0 THEN a ELSE c.head, tail |-> a,
                    size |-> c.size + 1],
         heap |-> IF c.size = 0 THEN made
                  ELSE [made EXCEPT ![c.tail].next = a, ![a].prev = c.tail]]

(* pop_range(a, a), lines 195-226.                                         *)
ChainPop(c, h, a) ==
    LET p == h[a].prev
        n == h[a].next
        before == IF a = c.head THEN h ELSE [h EXCEPT ![p].next = n]
        linked == IF n = Nil THEN before ELSE [before EXCEPT ![n].prev = p]
    IN  [chain |-> [head |-> IF a = c.head THEN n ELSE c.head,
                    tail |-> IF a = c.tail THEN p ELSE c.tail,
                    size |-> c.size - 1],
         heap |-> [linked EXCEPT ![a] = Nil]]

(* clear(): every node is freed.                                           *)
ChainClear(c, h) ==
    LET mine == {Nodes(c, h)[i] : i \in 1 .. c.size}
    IN  [a \in NodeAddrs |-> IF a \in mine THEN Nil ELSE h[a]]

-----------------------------------------------------------------------------
(* One dictionary with the heap: s has fields table, chain and heap.       *)

EmptyDict(n, h) == [table |-> NewTable(n), chain |-> NoChain, heap |-> h]

State(d) == [table |-> table[d], chain |-> chain[d], heap |-> heap]

Node(s, k) == s.table.items[TryGet(s.table, k).index].node

(* get: what is at the node that the table has for the hash.  Nil says     *)
(* that this node is freed.                                                *)
Get(s, k) ==
    IF ~Contains(s.table, k) THEN Missing
    ELSE IF s.heap[Node(s, k)] = Nil THEN Nil ELSE s.heap[Node(s, k)].val

(* A new pair: a node at the end of the chain, and its place in the table. *)
AddPair(s, k, v) ==
    LET a == Fresh(s.heap)
        linked == ChainAppend(s.chain, s.heap, a, k, v)
    IN  [table |-> InsertOnIndex(s.table, TryGet(s.table, k), k, a),
         chain |-> linked.chain, heap |-> linked.heap]

(* insert: an existing key keeps its node and gets the new value.          *)
InsertPair(s, k, v) ==
    IF Contains(s.table, k) THEN [s EXCEPT !.heap[Node(s, k)].val = v]
    ELSE AddPair(s, k, v)

(* insert(key, value) for every pair of a list, in its order.              *)
InsertAll(s, pairs) ==
    LET done[i \in 0 .. Len(pairs)] ==
            IF i = 0 THEN s ELSE InsertPair(done[i - 1], pairs[i].key, pairs[i].val)
    IN  done[Len(pairs)]

(* items(): the pairs in the order of the chain.                           *)
Items(d) ==
    LET nodes == Nodes(chain[d], heap)
    IN  [i \in 1 .. chain[d].size |-> [key |-> heap[nodes[i]].key,
                                       val |-> heap[nodes[i]].val]]

(* The pairs whose key is in K.                                            *)
Keep(pairs, K) ==
    LET kept[i \in 0 .. Len(pairs)] ==
            IF i = 0 THEN <<>>
            ELSE IF pairs[i].key \in K THEN Append(kept[i - 1], pairs[i]) ELSE kept[i - 1]
    IN  kept[Len(pairs)]

In(d) == {k \in Keys : Contains(table[d], k)}

Smaller(m, n) == IF m < n THEN m ELSE n

-----------------------------------------------------------------------------
(* The operations.  A dictionary that was moved from may only be assigned. *)

Usable(d) == table[d] # NoTable

Room(n) == Cardinality(Free(heap)) >= n

Become(d, s) ==
    /\ table' = [table EXCEPT ![d] = s.table]
    /\ chain' = [chain EXCEPT ![d] = s.chain]
    /\ heap' = s.heap

Insert(d, k, v) ==
    /\ Usable(d) /\ Room(1)
    /\ Become(d, InsertPair(State(d), k, v))
    /\ call' = <<"insert", d, k, v>>

(* setdefault, and operator[] with Value_t{}.                              *)
SetDefault(d, k, v) ==
    /\ Usable(d) /\ Room(1)
    /\ IF Contains(table[d], k) THEN UNCHANGED <<table, chain, heap>>
       ELSE Become(d, AddPair(State(d), k, v))
    /\ call' = <<"setdefault", d, k, v>>

Pop(d, k) ==
    /\ Usable(d)
    /\ IF Contains(table[d], k)
       THEN LET pos == TryGet(table[d], k)
                unlinked == ChainPop(chain[d], heap, table[d].items[pos.index].node)
            IN  Become(d, [table |-> PopOnIndex(table[d], pos),
                           chain |-> unlinked.chain, heap |-> unlinked.heap])
       ELSE UNCHANGED <<table, chain, heap>>
    /\ call' = <<"pop", d, k>>

Clear(d) ==
    /\ Usable(d)
    /\ Become(d, [table |-> ClearTable, chain |-> NoChain,
                  heap |-> ChainClear(chain[d], heap)])
    /\ call' = <<"clear", d>>

(* d = std::move(e): what d had is destroyed, e is left without a table.   *)
MoveAssign(d, e) ==
    /\ d # e /\ Usable(e)
    /\ table' = [table EXCEPT ![d] = table[e], ![e] = NoTable]
    /\ chain' = [chain EXCEPT ![d] = chain[e], ![e] = NoChain]
    /\ heap' = ChainClear(chain[d], heap)
    /\ call' = <<"take", d, e>>

(* *this = <a temporary that was built beside it>.                         *)
Replace(d, s) ==
    Become(d, [s EXCEPT !.heap = ChainClear(chain[d], s.heap)])

(* d &= e: the pairs of d whose key is in e, too.                          *)
Meet(d, e) ==
    LET both == Keep(Items(d), In(e))
        size == Smaller(table[d].size, table[e].size)
    IN  /\ d # e /\ Usable(d) /\ Usable(e) /\ Room(Len(both))
        /\ Replace(d, InsertAll(EmptyDict(size, heap), both))
        /\ call' = <<"meet", d, e>>

(* Mutated form: one loop, so that the pairs of e alone are left out.      *)
DifferOneSided(d, e) ==
    LET mine == Keep(Items(d), Keys \ In(e))
        size == table[d].size + table[e].size
    IN  /\ d # e /\ Usable(d) /\ Usable(e) /\ Room(Len(mine))
        /\ Replace(d, InsertAll(EmptyDict(size, heap), mine))
        /\ call' = <<"differ", d, e>>

(* d ^= e: the pairs of d without those of e, then the other way round.    *)
Differ(d, e) ==
    LET either == Keep(Items(d), Keys \ In(e))
                     \o Keep(Items(e), Keys \ In(d))
        size == table[d].size + table[e].size
    IN  /\ d # e /\ Usable(d) /\ Usable(e) /\ Room(Len(either))
        /\ Replace(d, InsertAll(EmptyDict(size, heap), either))
        /\ call' = <<"differ", d, e>>

(* The copy constructor, line 51: the chain makes nodes of its own, the    *)
(* table is copied with the pointers it has.                               *)
Copy(d) ==
    LET pairs == Items(d)
        made[i \in 0 .. Len(pairs)] ==
            IF i = 0 THEN [chain |-> NoChain, heap |-> heap]
            ELSE LET s == made[i - 1]
                 IN  ChainAppend(s.chain, s.heap, Fresh(s.heap), pairs[i].key, pairs[i].val)
    IN  [table |-> table[d], chain |-> made[Len(pairs)].chain,
         heap |-> made[Len(pairs)].heap]

(* d |= e: a copy of d and the pairs of e whose key it has not.            *)
Unite(d, e) ==
    LET new == Keep(Items(e), Keys \ In(d))
    IN  /\ d # e /\ Usable(d) /\ Usable(e) /\ Room(chain[d].size + Len(new))
        /\ Replace(d, InsertAll(Copy(d), new))
        /\ call' = <<"unite", d, e>>

Init ==
    /\ table = [d \in Dicts |-> NewTable(0)]
    /\ chain = [d \in Dicts |-> NoChain]
    /\ heap = [a \in NodeAddrs |-> Nil]
    /\ call = <<>>

Change(d) ==
    \/ \E k \in Keys, v \in Values : Insert(d, k, v) \/ SetDefault(d, k, v)
    \/ \E k \in Keys : Pop(d, k)
    \/ Clear(d)

Combine(d, e) == MoveAssign(d, e) \/ Meet(d, e) \/ Differ(d, e)

(* Everything but what copies a dictionary.                                *)
Next ==
    \/ \E d \in Dicts : Change(d)
    \/ \E d, e \in Dicts : Combine(d, e)

Spec == Init /\ [][Next]_vars

NextWithUnions == Next \/ \E d, e \in Dicts : Unite(d, e)

SpecWithUnions == Init /\ [][NextWithUnions]_vars

-----------------------------------------------------------------------------
(* Properties.                                                             *)

Live == {d \in Dicts : Usable(d)}

TypeOK ==
    /\ \A d \in Live :
          /\ \E n \in 2 .. table[d].cap : table[d].cap = Pow2[n]
          /\ table[d].cap >= MinCapacity
          /\ table[d].items \in [0 .. table[d].cap - 1 ->
                [dist : -1 .. table[d].cap, hash : Keys \cup {0}, node : NodeAddrs \cup {Nil}]]
    /\ chain \in [Dicts -> [head : NodeAddrs \cup {Nil}, tail : NodeAddrs \cup {Nil}, size : Nat]]
    /\ heap \in [NodeAddrs -> {Nil} \cup [key : Keys, val : Values,
                    prev : NodeAddrs \cup {Nil}, next : NodeAddrs \cup {Nil}]]

(* Every item is where its distance says, none is more than one farther    *)
(* from home than the one before it, and a place is left unused: with      *)
(* these a search that stops early misses nothing and every search stops.  *)
ProbesComplete ==
    \A d \in Live :
        LET t == table[d]
            used == {j \in 0 .. t.cap - 1 : Used(t.items[j])}
        IN  /\ \A j \in used : (Home(t.cap, t.items[j].hash) + t.items[j].dist) % t.cap = j
            /\ \A j \in 0 .. t.cap - 1 :
                  t.items[NextIndex(t.cap, j)].dist <= t.items[j].dist + 1
            /\ t.size = Cardinality(used)
            /\ t.size < Threshold(t.cap)

ListOf(d) == Nodes(chain[d], heap)

(* Forwards from head_ and backwards from tail_ the chain is the same list *)
(* of nodes that are allocated.                                            *)
ChainLinked ==
    \A d \in Dicts :
        LET c == chain[d]
        IN  /\ c.size = 0 => c = NoChain
            /\ c.size > 0 =>
                  /\ heap[c.head].prev = Nil /\ heap[c.tail].next = Nil
                  /\ ListOf(d)[c.size] = c.tail
                  /\ \A i \in 1 .. c.size - 1 : heap[ListOf(d)[i + 1]].prev = ListOf(d)[i]

(* The table of a dictionary refers to the nodes of its own chain, each    *)
(* under the hash of its key, the chain is linked both ways, and every     *)
(* node in the heap has one owner.                                         *)
TableMatchesChain ==
    /\ TypeOK /\ ChainLinked
    /\ \A d \in Live :
          LET used == {j \in DOMAIN table[d].items : Used(table[d].items[j])}
          IN  /\ table[d].size = chain[d].size
              /\ {<<table[d].items[j].hash, table[d].items[j].node>> : j \in used}
                   = {<<heap[ListOf(d)[i]].key, ListOf(d)[i]>> : i \in 1 .. chain[d].size}
    /\ \A a \in NodeAddrs : heap[a] # Nil =>
          Cardinality({p \in UNION {{d} \X (1 .. chain[d].size) : d \in Dicts} :
                          ListOf(p[1])[p[2]] = a}) = 1

(* get() finds every pair that iteration finds, with its value, and no     *)
(* other.  Line 293 says of a union that a key of both has the value of    *)
(* the current dictionary.                                                 *)
GetAgreesWithItems ==
    \A d \in Live, k \in Keys :
        LET mine == {i \in 1 .. chain[d].size : Items(d)[i].key = k}
        IN  Get(State(d), k) = IF mine = {} THEN Missing
                               ELSE Items(d)[CHOOSE i \in mine : TRUE].val

(* The dictionaries behave like OrderedMap, operation by operation: the    *)
(* pairs and the order of iteration after any sequence of operations,      *)
(* rehashes and moves are those of the map that each is named for.         *)
OM == INSTANCE OrderedMap WITH
        Maps <- Dicts, Gone <- Nil,
        pairs <- [d \in Dicts |-> IF Usable(d) THEN Items(d) ELSE Nil]

ImplementsOrderedMap == OM!Spec
=============================================================================
