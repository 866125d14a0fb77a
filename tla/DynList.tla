------------------------------- MODULE DynList ------------------------------
(***************************************************************************)
(* ayr::DynArray (include/ayr/air/DynArray.hpp) over ayr::Appender         *)
(* (air/Appender.hpp): blocks of doubling capacity.  The place of an       *)
(* element is computed from its index, an iterator follows the sizes of    *)
(* the blocks: both agree as long as every block but the last is full.     *)
(***************************************************************************)
EXTENDS Integers, SequencesExt

CONSTANTS
    Lists,      \* the variables of type DynArray
    Items,      \* the elements that are put into them
    BaseSize,   \* BASE_SIZE
    MaxLen      \* bound on the length of a list

VARIABLES
    lists,      \* blocks up to back_block_index_ (a block has the items and
                \* its capacity), size_; bare after a move took blocks_ away,
                \* copied if a block that is not the last may be too small
    held        \* the sequence that the program has put there (history)

listVars == <<lists, held>>

ASSUME ListAssumption == BaseSize \in Nat \ {0}

EmptyList == [blocks |-> <<>>, size |-> 0, bare |-> FALSE, copied |-> FALSE]

(* A list after an access outside its blocks: anything may follow.         *)
Undefined(l) == [l EXCEPT !.blocks = <<>>, !.size = -1]

ListInit ==
    /\ lists = [x \in Lists |-> EmptyList]
    /\ held = [x \in Lists |-> <<>>]

Sound == {x \in Lists : lists[x].size # -1}

-----------------------------------------------------------------------------
(* Indexing.  Blocks and places are counted from 0.                        *)
Block(l, b) == l.blocks[b + 1]
BackBlockIndex(l) == Len(l.blocks) - 1

SizeOfBlock(l, b) == IF b \in 0 .. BackBlockIndex(l) THEN Len(Block(l, b).items) ELSE 0

(* The sizes of the blocks in front of block b, added up.                  *)
Before(l, b) ==
    LET sum[k \in 0 .. b] == IF k = 0 THEN 0 ELSE sum[k - 1] + SizeOfBlock(l, k - 1)
    IN  sum[b]

Exp2(b) ==
    LET power[k \in 0 .. b] == IF k = 0 THEN 1 ELSE 2 * power[k - 1]
    IN  power[b]

GetBlockIndex(l, index) ==
    Min({b \in 0 .. BackBlockIndex(l) : index + 1 <= (Exp2(b + 1) - 1) * BaseSize}
        \cup {Max({BackBlockIndex(l), 0})})

GetInBlockIndex(index, b) == index - BaseSize * (Exp2(b) - 1)

Slot(l, index) ==
    LET b == GetBlockIndex(l, index) IN <<b + 1, GetInBlockIndex(index, b) + 1>>

Inside(l, index) ==
    LET s == Slot(l, index) IN s[1] <= Len(l.blocks) /\ s[2] \in DOMAIN l.blocks[s[1]].items

ItemAt(l, index) == LET s == Slot(l, index) IN l.blocks[s[1]].items[s[2]]

(* The elements at the indices from first on become those of f.            *)
WithItems(l, first, f) ==
    [l EXCEPT !.blocks = [b \in DOMAIN l.blocks |->
        [l.blocks[b] EXCEPT !.items = [k \in DOMAIN l.blocks[b].items |->
            LET there == {i \in first .. l.size - 1 : Slot(l, i) = <<b, k>>}
            IN  IF there = {} THEN l.blocks[b].items[k]
                ELSE f[CHOOSE i \in there : TRUE]]]]]

-----------------------------------------------------------------------------
(* The operations, as functions of a list.                                 *)
Full(block) == Len(block.items) = block.capacity

TryWakeup(l) ==
    IF l.blocks # <<>> /\ ~Full(Last(l.blocks)) THEN l
    ELSE [l EXCEPT !.blocks = Append(@,
             [items |-> <<>>, capacity |-> IF l.blocks = <<>> THEN BaseSize
                                           ELSE 2 * Len(Last(l.blocks).items)])]

(* A list whose blocks_ is empty has no block to wake up.                  *)
AppendItem(l, item) ==
    LET w == TryWakeup(l)
    IN  IF l.bare THEN Undefined(l)
        ELSE [w EXCEPT !.blocks[Len(w.blocks)].items = Append(@, item), !.size = l.size + 1]

AppendAll(l, items) ==
    LET after[k \in 0 .. Len(items)] == IF k = 0 THEN l ELSE AppendItem(after[k - 1], items[k])
    IN  after[Len(items)]

(* Appended at the end, then swapped down to its index.                    *)
InsertItem(l, index, item) ==
    LET a == AppendItem(l, item)
    IN  IF \E i \in index .. l.size : index < l.size /\ ~Inside(a, i) THEN Undefined(l)
        ELSE IF index >= l.size THEN a
        ELSE WithItems(a, index, [i \in index .. l.size |->
                 IF i = index THEN ItemAt(a, l.size) ELSE ItemAt(a, i - 1)])

(* _pop_back_block gives the memory of the block back.                     *)
DropBlock(l) == [l EXCEPT !.blocks = Front(@)]

DropItems(l, n) ==
    [l EXCEPT !.blocks[Len(l.blocks)].items = SubSeq(@, 1, Len(@) - n)]

(* Blocks are given back while the last has no more elements than are left *)
(* of n; from the first that has more these are dropped.                   *)
PopBackBlocks(l, n) ==
    LET left(b) == n - (Before(l, Len(l.blocks)) - Before(l, b))
        kept == Max({b \in 0 .. Len(l.blocks) : left(b) = 0 \/ SizeOfBlock(l, b - 1) > left(b)})
        rest == [l EXCEPT !.blocks = SubSeq(@, 1, kept)]
    IN  IF left(kept) = 0 THEN rest ELSE DropItems(rest, left(kept))

(* Mutated form: a block that becomes empty stays.                         *)
PopBackKeeps(l, n) == [DropItems(l, Min({n, Len(Last(l.blocks).items)})) EXCEPT !.size = @ - n]

PopBack(l, n) == [PopBackBlocks(l, n) EXCEPT !.size = @ - n]

PopItem(l, index) ==
    LET moved == WithItems(l, index, [i \in index .. l.size - 1 |->
                     IF i = l.size - 1 THEN ItemAt(l, i) ELSE ItemAt(l, i + 1)])
    IN  IF \E i \in index .. l.size - 1 : index < l.size - 1 /\ ~Inside(l, i) THEN Undefined(l)
        ELSE [(IF Len(Last(l.blocks).items) = 1 THEN DropBlock(moved) ELSE DropItems(moved, 1))
                 EXCEPT !.size = @ - 1]

ClearList(l) == [l EXCEPT !.blocks = <<>>, !.size = 0, !.copied = FALSE]

-----------------------------------------------------------------------------
(* Iterators: a block and a place in it.                                   *)
BeginIt == [block |-> 0, inblock |-> 0]
EndIt(l) == [block |-> BackBlockIndex(l) + 1, inblock |-> 0]

ItItem(l, it) == Block(l, it.block).items[it.inblock + 1]

NextIt(l, it) ==
    IF SizeOfBlock(l, it.block) = it.inblock + 1
    THEN [block |-> it.block + 1, inblock |-> 0] ELSE [it EXCEPT !.inblock = @ + 1]

PrevIt(l, it) ==
    IF it.inblock = 0
    THEN [block |-> it.block - 1, inblock |-> SizeOfBlock(l, it.block - 1) - 1]
    ELSE [it EXCEPT !.inblock = @ - 1]

(* The loop of +=: on to the next block until what is left of n ends in    *)
(* this one.                                                               *)
ItPlus(l, it, n) ==
    LET left(b) == it.inblock + n - (Before(l, b) - Before(l, it.block))
        stop == Min({b \in it.block .. BackBlockIndex(l) + 1 :
                        left(b) = 0 \/ SizeOfBlock(l, b) > left(b)})
    IN  [block |-> stop, inblock |-> left(stop)]

(* The loop of -=: back to the previous block until n ends in this one.    *)
ItMinus(l, it, n) ==
    LET place(b) == it.inblock - n + Before(l, it.block) - Before(l, b)
        stop == Max({b \in 0 .. it.block : place(b) >= 0})
    IN  [block |-> stop, inblock |-> place(stop)]

(* it - other, where it is not before other.                               *)
ItDifference(l, it, other) ==
    IF it.block = other.block THEN it.inblock - other.inblock
    ELSE SizeOfBlock(l, other.block) - other.inblock + it.inblock
         + Before(l, it.block) - Before(l, other.block + 1)

Iterated(l) == FlattenSeq([b \in DOMAIN l.blocks |-> l.blocks[b].items])

-----------------------------------------------------------------------------
(* The program.                                                            *)
Becomes(x, l, seq) ==
    /\ l.size <= MaxLen
    /\ lists' = [lists EXCEPT ![x] = l]
    /\ held' = [held EXCEPT ![x] = IF l.size = -1 THEN <<>> ELSE seq]

ListAppend(x) ==
    \E item \in Items : Becomes(x, AppendItem(lists[x], item), Append(held[x], item))

(* In a list with a copied block an index may find another element: what   *)
(* insert and pop make of it is taken for what the program has put there.  *)
ByIndex(l, seq) == IF l.copied THEN Iterated(l) ELSE seq

ListInsert(x) ==
    \E item \in Items, i \in 0 .. lists[x].size :
        LET l == InsertItem(lists[x], i, item)
        IN  Becomes(x, l, ByIndex(l, InsertAt(held[x], i + 1, item)))

ListPopBack(x) ==
    \E n \in 1 .. lists[x].size :
        Becomes(x, PopBack(lists[x], n), SubSeq(held[x], 1, lists[x].size - n))

ListPop(x) ==
    \E i \in 0 .. lists[x].size - 1 :
        LET l == PopItem(lists[x], i) IN Becomes(x, l, ByIndex(l, RemoveAt(held[x], i + 1)))

(* clear(), or move_array(), which returns the elements.                   *)
ListClear(x) == Becomes(x, ClearList(lists[x]), <<>>)

ListExtend(x, y) ==
    x # y /\ Becomes(x, AppendAll(lists[x], Iterated(lists[y])), held[x] \o held[y])

(* x.extend(x): the end is that of the last block at the start, so that    *)
(* what is appended to this block is read and appended again.  The result  *)
(* is taken for what the program has put there.                            *)
ExtendSelf(x) ==
    LET l == lists[x]
        room == l.size - Len(Last(l.blocks).items) + Last(l.blocks).capacity
        items == [k \in 1 .. room |-> held[x][((k - 1) % l.size) + 1]]
    IN  l.size > 0 /\ Becomes(x, AppendAll(l, items), held[x] \o items)

(* A copy is made by appending; what stood in x before is destroyed.       *)
CopyConstruct(x, y) == x # y /\ Becomes(x, AppendAll(EmptyList, Iterated(lists[y])), held[y])

Concatenate(x, y, z) ==
    Becomes(x, AppendAll(EmptyList, Iterated(lists[y]) \o Iterated(lists[z])),
            held[y] \o held[z])

(* The copy of a block has the capacity that its elements need.            *)
CopyAssign(x, y) ==
    /\ x # y
    /\ Becomes(x, [lists[y] EXCEPT
          !.blocks = [b \in DOMAIN @ |-> [@[b] EXCEPT !.capacity = Len(lists[y].blocks[b].items)]],
          !.copied = lists[y].copied \/ \E b \in DOMAIN lists[y].blocks : ~Full(lists[y].blocks[b])],
          held[y])

MoveList(x, y) ==
    /\ x # y
    /\ lists' = [lists EXCEPT ![x] = lists[y], ![y] = [EmptyList EXCEPT !.bare = TRUE]]
    /\ held' = [held EXCEPT ![x] = held[y], ![y] = <<>>]

ListNext ==
    \/ \E x \in Sound : ListAppend(x) \/ ListInsert(x) \/ ListPopBack(x) \/ ListPop(x)
                        \/ ListClear(x) \/ ExtendSelf(x)
    \/ \E x, y \in Sound : ListExtend(x, y) \/ CopyConstruct(x, y) \/ CopyAssign(x, y)
                           \/ MoveList(x, y)
    \/ \E x \in Lists, y, z \in Sound : Concatenate(x, y, z)

ListSpec == ListInit /\ [][ListNext]_listVars

-----------------------------------------------------------------------------
(* A list iterates as the sequence that was put into it, whatever the      *)
(* order of the operations, and iterators count its elements.              *)
IteratesInOrder(l, seq) ==
    LET at(i) == ItPlus(l, BeginIt, i)
    IN  /\ Iterated(l) = seq
        /\ \A i \in 0 .. l.size :
             /\ ItMinus(l, EndIt(l), l.size - i) = at(i)
             /\ ItDifference(l, at(i), BeginIt) = i
             /\ i < l.size => ItItem(l, at(i)) = seq[i + 1] /\ NextIt(l, at(i)) = at(i + 1)
                              /\ PrevIt(l, at(i + 1)) = at(i)

(* An index finds the element that was put there.  Excepted is a list that *)
(* was assigned from a copy with a block that was not full (DynArray.hpp   *)
(* line 59, Appender.hpp line 25): its next block begins too early.        *)
IndexesInOrder(l, seq) ==
    ~l.copied => \A i \in 0 .. l.size - 1 : Inside(l, i) /\ ItemAt(l, i) = seq[i + 1]

(* No access leaves the blocks of a list that was neither moved from nor   *)
(* assigned from such a copy, and a list is the sequence put into it.      *)
ListIsSequence ==
    \A x \in Lists :
        IF x \in Sound
        THEN /\ lists[x].size = Len(held[x])
             /\ IteratesInOrder(lists[x], held[x])
             /\ IndexesInOrder(lists[x], held[x])
        ELSE lists[x].bare \/ lists[x].copied
=============================================================================
