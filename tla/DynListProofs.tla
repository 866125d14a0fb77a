--------------------------- MODULE DynListProofs ---------------------------
(***************************************************************************)
(* Lists.  What a list iterates over is the concatenation of its blocks;   *)
(* B[b], the number of elements in the first b blocks, tells where a block *)
(* begins in it.  No block is empty and all but the last are full, so that *)
(* B grows, and follows the powers of two unless a block was copied.       *)
(***************************************************************************)
EXTENDS DynList, BufferProofs

BlockType == [items : Seq(Items), capacity : Nat]

Filled(s) ==
    /\ s \in Seq(BlockType)
    /\ \A k \in 1 .. Len(s) : /\ Len(s[k].items) \in 1 .. s[k].capacity
                              /\ k < Len(s) => Len(s[k].items) = s[k].capacity

Doubling(s) == \A k \in 1 .. Len(s) : s[k].capacity = BaseSize * Exp2(k - 1)

Contents(s) == [b \in DOMAIN s |-> s[b].items]

Flat(s) == FlattenSeq(Contents(s))

ListOK(l) ==
    /\ l \in [blocks : Seq(BlockType), size : Nat, bare : BOOLEAN, copied : BOOLEAN]
    /\ Filled(l.blocks)
    /\ l.copied \/ Doubling(l.blocks)
    /\ l.bare => l.blocks = <<>>
    /\ l.size = Len(Iterated(l))

Holds(l, seq) ==
    IF l.size = -1 THEN l.bare \/ l.copied ELSE ListOK(l) /\ seq = Iterated(l)

ListIInv ==
    /\ DOMAIN lists = Lists /\ DOMAIN held = Lists
    /\ \A x \in Lists : Holds(lists[x], held[x])

Layout(B, s) ==
    /\ B \in [0 .. Len(s) -> Nat] /\ B[0] = 0 /\ B[Len(s)] = Len(Flat(s))
    /\ \A k \in 1 .. Len(s) : B[k] = B[k - 1] + Len(s[k].items)
    /\ \A k \in 1 .. Len(s) : \A i \in 1 .. Len(s[k].items) :
         Flat(s)[B[k - 1] + i] = s[k].items[i]

LEMMA BlocksAre ==
    ASSUME NEW s, Filled(s)
    PROVE  /\ s \in Seq(BlockType) /\ Len(s) \in Nat /\ DOMAIN s = 1 .. Len(s)
           /\ \A k \in 1 .. Len(s) :
                /\ s[k] = [items |-> s[k].items, capacity |-> s[k].capacity]
                /\ s[k].items \in Seq(Items) /\ s[k].capacity \in Nat
                /\ Len(s[k].items) \in Nat /\ Len(s[k].items) > 0
                /\ Len(s[k].items) <= s[k].capacity
                /\ k < Len(s) => Len(s[k].items) = s[k].capacity
<1>1. s \in Seq(BlockType) /\ Len(s) \in Nat /\ DOMAIN s = 1 .. Len(s)
  BY LenProperties DEF Filled
<1>2. ASSUME NEW k \in 1 .. Len(s)
      PROVE  /\ s[k] = [items |-> s[k].items, capacity |-> s[k].capacity]
             /\ s[k].items \in Seq(Items) /\ s[k].capacity \in Nat
             /\ Len(s[k].items) \in Nat /\ Len(s[k].items) > 0
             /\ Len(s[k].items) <= s[k].capacity
             /\ k < Len(s) => Len(s[k].items) = s[k].capacity
  <2>1. s[k] \in BlockType
    BY <1>1, ElementOfSeq
  <2>2. /\ s[k] = [items |-> s[k].items, capacity |-> s[k].capacity]
        /\ s[k].items \in Seq(Items) /\ s[k].capacity \in Nat
    BY <2>1 DEF BlockType
  <2>3. Len(s[k].items) \in Nat
    BY <2>2, LenProperties
  <2>4. /\ Len(s[k].items) \in 1 .. s[k].capacity
        /\ k < Len(s) => Len(s[k].items) = s[k].capacity
    BY DEF Filled
  <2>5. QED BY <2>2, <2>3, <2>4
<1>3. QED BY <1>1, <1>2

LEMMA ContentsAre ==
    ASSUME NEW s \in Seq(BlockType)
    PROVE  /\ Contents(s) \in Seq(Seq(Items)) /\ Len(Contents(s)) = Len(s)
           /\ \A k \in 1 .. Len(s) : Contents(s)[k] = s[k].items
<1>1. Len(s) \in Nat /\ DOMAIN s = 1 .. Len(s)
  BY LenProperties
<1>2. \A k \in 1 .. Len(s) : s[k].items \in Seq(Items)
  <2>1. ASSUME NEW k \in 1 .. Len(s) PROVE s[k].items \in Seq(Items)
    <3>1. s[k] \in BlockType
      BY ElementOfSeq
    <3>2. QED BY <3>1 DEF BlockType
  <2>2. QED BY <2>1
<1>3. Contents(s) = [k \in 1 .. Len(s) |-> s[k].items]
  BY <1>1 DEF Contents
<1>4. Contents(s) \in [1 .. Len(s) -> Seq(Items)]
  BY <1>2, <1>3
<1>5. Contents(s) \in Seq(Seq(Items)) /\ Len(Contents(s)) = Len(s)
  BY <1>1, <1>2, <1>3
<1>6. QED BY <1>3, <1>5

LEMMA LaidOut ==
    ASSUME NEW s, Filled(s)
    PROVE  Flat(s) \in Seq(Items) /\ \E B : Layout(B, s)
<1>1. s \in Seq(BlockType)
  BY DEF Filled
<1> DEFINE c == Contents(s)
<1>2. /\ c \in Seq(Seq(Items)) /\ Len(c) = Len(s)
      /\ \A k \in 1 .. Len(s) : c[k] = s[k].items
  BY <1>1, ContentsAre
<1> HIDE DEF c
<1>3. FlattenSeq(c) \in Seq(Items) /\ \E off : Places(off, c, FlattenSeq(c))
  BY <1>2, FlattenPlaces
<1>4. PICK off : Places(off, c, FlattenSeq(c))
  BY <1>3
<1>5. Flat(s) = FlattenSeq(c)
  BY DEF Flat, c
<1>6. Layout(off, s)
  <2> DEFINE f == FlattenSeq(c)
             n == Len(s)
  <2>1. /\ off \in [0 .. n -> Nat] /\ off[0] = 0 /\ off[n] = Len(f)
        /\ \A k \in 1 .. n : off[k] = off[k - 1] + Len(c[k])
        /\ \A k \in 1 .. n : \A i \in 1 .. Len(c[k]) : f[off[k - 1] + i] = c[k][i]
    BY <1>2, <1>4 DEF Places
  <2> HIDE DEF f
  <2>2. /\ \A k \in 1 .. n : off[k] = off[k - 1] + Len(s[k].items)
        /\ \A k \in 1 .. n : \A i \in 1 .. Len(s[k].items) : f[off[k - 1] + i] = s[k].items[i]
    BY <1>2, <2>1
  <2>3. Flat(s) = f
    BY <1>5 DEF f
  <2>4. QED BY <2>1, <2>2, <2>3 DEF Layout
<1>7. QED BY <1>3, <1>5, <1>6

(* Where blocks begin: they follow one another.                            *)
LEMMA Grows ==
    ASSUME NEW s, Filled(s), NEW B, Layout(B, s)
    PROVE  /\ \A k \in 0 .. Len(s) : B[k] \in Nat
           /\ \A k \in 0 .. Len(s) : \A j \in 0 .. k : B[j] <= B[k]
           /\ \A k \in 0 .. Len(s) : \A j \in 0 .. k - 1 : B[j] < B[k]
<1> DEFINE n == Len(s)
           T == {k \in Nat : k <= n => \A j \in 0 .. k : j < k => B[j] < B[k]}
<1>1. /\ n \in Nat
      /\ \A k \in 1 .. n : Len(s[k].items) \in Nat /\ Len(s[k].items) > 0
  BY BlocksAre
<1>2. /\ \A k \in 0 .. n : B[k] \in Nat
      /\ \A k \in 1 .. n : B[k] = B[k - 1] + Len(s[k].items)
  BY DEF Layout
<1> HIDE DEF n
<1>3. 0 \in T
  OBVIOUS
<1>4. ASSUME NEW k \in Nat, k \in T PROVE k + 1 \in T
  <2>1. SUFFICES ASSUME k + 1 <= n, NEW j \in 0 .. k + 1, j < k + 1 PROVE B[j] < B[k + 1]
    OBVIOUS
  <2>2. k + 1 \in 1 .. n /\ (k + 1) - 1 = k /\ k \in 0 .. n /\ j \in 0 .. k
    BY <1>1, <2>1
  <2>3. B[k + 1] = B[k] + Len(s[k + 1].items) /\ Len(s[k + 1].items) > 0
        /\ Len(s[k + 1].items) \in Nat /\ B[k] \in Nat
    BY <1>1, <1>2, <2>2
  <2>4. j < k => B[j] < B[k]
    BY <1>4, <2>2
  <2>5. B[j] \in Nat
    <3>1. j \in 0 .. n
      BY <1>1, <2>2
    <3>2. QED BY <1>2, <3>1
  <2>6. CASE j = k
    BY <2>3, <2>6
  <2>7. CASE j < k
    BY <2>3, <2>4, <2>5, <2>7
  <2>8. QED BY <2>2, <2>6, <2>7
<1>5. \A k \in Nat : k \in T
  <2> HIDE DEF T
  <2>1. QED BY <1>3, <1>4, SetInduction
<1>6. \A k \in 0 .. n : \A j \in 0 .. k : j < k => B[j] < B[k]
  <2>1. \A k \in 0 .. n : k \in Nat /\ k <= n
    BY <1>1
  <2>2. QED BY <1>5, <2>1
<1>7. ASSUME NEW k \in 0 .. n, NEW j \in 0 .. k PROVE B[j] <= B[k]
  <2>1. j \in 0 .. n /\ (j = k \/ j < k)
    BY <1>1
  <2>2. QED BY <1>2, <1>6, <2>1
<1>8. ASSUME NEW k \in 0 .. n, NEW j \in 0 .. k - 1 PROVE B[j] < B[k]
  BY <1>1, <1>6
<1>9. QED BY <1>2, <1>7, <1>8 DEF n

(* Every place is in one block.                                            *)
LEMMA Located ==
    ASSUME NEW s, Filled(s), NEW B, Layout(B, s), NEW p \in Nat, p < Len(Flat(s))
    PROVE  \E k \in 1 .. Len(s) : B[k - 1] <= p /\ p < B[k]
<1> DEFINE n == Len(s)
           T == {k \in Nat : k <= n /\ p < B[k]}
<1>1. n \in Nat /\ B[0] = 0 /\ B[n] = Len(Flat(s)) /\ \A k \in 0 .. n : B[k] \in Nat
  BY BlocksAre, Grows DEF Layout
<1> HIDE DEF n
<1>2. T \subseteq Nat /\ T # {}
  BY <1>1
<1>3. PICK k \in T : \A j \in T : k <= j
  <2> HIDE DEF T
  <2>1. QED BY <1>2, LeastExists
<1>4. k \in Nat /\ k <= n /\ p < B[k] /\ k # 0
  BY <1>1, <1>3
<1>5. k - 1 \in Nat /\ k - 1 \notin T /\ k - 1 \in 0 .. n
  <2>1. k - 1 \in Nat /\ k - 1 \in 0 .. n /\ ~(k <= k - 1)
    BY <1>1, <1>4
  <2> HIDE DEF T
  <2>2. QED BY <1>3, <2>1
<1>6. B[k - 1] <= p
  BY <1>1, <1>4, <1>5
<1>7. QED BY <1>4, <1>6 DEF n

LEMMA OneBlock ==
    ASSUME NEW s, Filled(s), NEW B, Layout(B, s), NEW k \in 1 .. Len(s), NEW j \in 1 .. Len(s),
           NEW p \in Nat, B[k - 1] <= p, p < B[k], B[j - 1] <= p, p < B[j]
    PROVE  j = k
<1>1. Len(s) \in Nat
  BY BlocksAre
<1>2. /\ \A a \in 0 .. Len(s) : B[a] \in Nat
      /\ \A a \in 0 .. Len(s) : \A b \in 0 .. a : B[b] <= B[a]
  BY Grows
<1>3. CASE j < k
  <2>1. j \in 0 .. k - 1 /\ k - 1 \in 0 .. Len(s) /\ j \in 0 .. Len(s)
    BY <1>1, <1>3
  <2>2. B[j] <= B[k - 1] /\ B[j] \in Nat /\ B[k - 1] \in Nat
    BY <1>2, <2>1
  <2>3. QED BY <2>2
<1>4. CASE k < j
  <2>1. k \in 0 .. j - 1 /\ j - 1 \in 0 .. Len(s) /\ k \in 0 .. Len(s)
    BY <1>1, <1>4
  <2>2. B[k] <= B[j - 1] /\ B[k] \in Nat /\ B[j - 1] \in Nat
    BY <1>2, <2>1
  <2>3. QED BY <2>2
<1>5. QED BY <1>1, <1>3, <1>4

(* A sequence that reads as the blocks one after the other is Flat(s).     *)
LEMMA FlatIs ==
    ASSUME NEW s, Filled(s), NEW B, Layout(B, s), NEW t \in Seq(Items), Len(t) = B[Len(s)],
           \A k \in 1 .. Len(s) : \A i \in 1 .. Len(s[k].items) : t[B[k - 1] + i] = s[k].items[i]
    PROVE  Flat(s) = t
<1> DEFINE f == Flat(s)
<1>1. f \in Seq(Items) /\ Len(f) = Len(t) /\ Len(f) \in Nat
  <2>1. f \in Seq(Items)
    BY LaidOut
  <2>2. QED BY <2>1, LenProperties DEF Layout
<1>2. ASSUME NEW q \in 1 .. Len(f) PROVE f[q] = t[q]
  <2>1. q - 1 \in Nat /\ q - 1 < Len(f)
    BY <1>1
  <2>2. PICK k \in 1 .. Len(s) : B[k - 1] <= q - 1 /\ q - 1 < B[k]
    BY <2>1, Located
  <2> DEFINE i == q - B[k - 1]
  <2>3. Len(s) \in Nat /\ k - 1 \in 0 .. Len(s) /\ Len(s[k].items) \in Nat
    BY BlocksAre
  <2>4. B[k] = B[k - 1] + Len(s[k].items) /\ B[k - 1] \in Nat
    BY <2>3 DEF Layout
  <2>5. i \in 1 .. Len(s[k].items) /\ B[k - 1] + i = q
    <3> DEFINE a == B[k - 1]
               b == B[k]
               len == Len(s[k].items)
    <3>1. a \in Nat /\ len \in Nat /\ b = a + len /\ a <= q - 1 /\ q - 1 < b /\ i = q - a
          /\ q \in Nat
      BY <1>1, <2>2, <2>3, <2>4
    <3> HIDE DEF a, b, len, i
    <3>2. i \in 1 .. len /\ a + i = q
      BY <3>1
    <3>3. QED BY <3>2 DEF a, len
  <2> HIDE DEF i
  <2>6. f[B[k - 1] + i] = s[k].items[i]
    BY <2>5 DEF Layout
  <2>7. t[B[k - 1] + i] = s[k].items[i]
    BY <2>5
  <2>8. QED BY <2>5, <2>6, <2>7
<1>3. QED
  <2> HIDE DEF f
  <2>1. f = t
    BY <1>1, <1>2, SeqEqual
  <2>2. QED BY <2>1 DEF f

(* Blocks of the same sizes begin at the same places.                      *)
LEMMA SamePlaces ==
    ASSUME NEW s, Filled(s), NEW B, Layout(B, s), NEW r, Filled(r), NEW C, Layout(C, r),
           NEW n \in Nat, n <= Len(s), n <= Len(r),
           \A k \in 1 .. n : Len(r[k].items) = Len(s[k].items)
    PROVE  \A k \in 0 .. n : C[k] = B[k]
<1> DEFINE T == {k \in Nat : k <= n => C[k] = B[k]}
<1>1. Len(s) \in Nat /\ Len(r) \in Nat
  BY BlocksAre
<1>2. /\ B[0] = 0 /\ C[0] = 0
      /\ \A k \in 1 .. Len(s) : B[k] = B[k - 1] + Len(s[k].items)
      /\ \A k \in 1 .. Len(r) : C[k] = C[k - 1] + Len(r[k].items)
  BY DEF Layout
<1>3. 0 \in T
  BY <1>2
<1>4. ASSUME NEW k \in Nat, k \in T PROVE k + 1 \in T
  <2>1. SUFFICES ASSUME k + 1 <= n PROVE C[k + 1] = B[k + 1]
    OBVIOUS
  <2>2. /\ k + 1 \in 1 .. n /\ k + 1 \in 1 .. Len(s) /\ k + 1 \in 1 .. Len(r)
        /\ (k + 1) - 1 = k
    BY <1>1, <2>1
  <2>3. C[k] = B[k]
    BY <1>4, <2>1
  <2>4. B[k + 1] = B[k] + Len(s[k + 1].items) /\ C[k + 1] = C[k] + Len(r[k + 1].items)
    BY <1>2, <2>2
  <2>5. QED BY <2>2, <2>3, <2>4
<1>5. \A k \in Nat : k \in T
  <2> HIDE DEF T
  <2>1. QED BY <1>3, <1>4, SetInduction
<1>6. QED BY <1>5

-----------------------------------------------------------------------------
(* Iterators.                                                              *)

Sums(w, l, n) == w = [k \in 0 .. n |-> IF k = 0 THEN 0 ELSE w[k - 1] + SizeOfBlock(l, k - 1)]

LEMMA SizesOfBlocks ==
    ASSUME NEW l, Filled(l.blocks), NEW B, Layout(B, l.blocks)
    PROVE  /\ \A b \in 0 .. Len(l.blocks) - 1 : SizeOfBlock(l, b) = B[b + 1] - B[b]
           /\ SizeOfBlock(l, Len(l.blocks)) = 0 /\ SizeOfBlock(l, -1) = 0
<1> DEFINE s == l.blocks
           n == Len(s)
<1>1. n \in Nat
  BY BlocksAre
<1>2. ASSUME NEW b \in 0 .. n - 1 PROVE SizeOfBlock(l, b) = B[b + 1] - B[b]
  <2>1. b + 1 \in 1 .. n /\ (b + 1) - 1 = b /\ b \in 0 .. n
    BY <1>1
  <2>2. B[b + 1] = B[b] + Len(s[b + 1].items) /\ B[b] \in Nat
    BY <2>1 DEF Layout
  <2>3. Len(s[b + 1].items) \in Nat
    BY <2>1, BlocksAre
  <2>4. SizeOfBlock(l, b) = Len(s[b + 1].items)
    BY <1>2 DEF SizeOfBlock, Block, BackBlockIndex
  <2>5. QED BY <2>2, <2>3, <2>4
<1>3. SizeOfBlock(l, n) = 0 /\ SizeOfBlock(l, -1) = 0
  BY <1>1 DEF SizeOfBlock, BackBlockIndex
<1>4. QED BY <1>2, <1>3

(* Any function that begins with 0 and adds the sizes gives Before.        *)
LEMMA BeforeSums ==
    ASSUME NEW l, NEW n \in Nat, NEW f,
           f[0] = 0, \A k \in 1 .. n : f[k] = f[k - 1] + SizeOfBlock(l, k - 1)
    PROVE  Before(l, n) = f[n]
<1> DEFINE g == CHOOSE w : Sums(w, l, n)
<1>1. Before(l, n) = g[n]
  BY ZenonT(40) DEF Before, Sums
<1>2. \E w : Sums(w, l, n)
  <2> DEFINE h == [k \in 0 .. n |-> f[k]]
  <2>1. ASSUME NEW k \in 0 .. n
        PROVE  h[k] = IF k = 0 THEN 0 ELSE h[k - 1] + SizeOfBlock(l, k - 1)
    <3>1. CASE k = 0
      BY <3>1
    <3>2. CASE k # 0
      <4>1. k \in 1 .. n /\ k - 1 \in 0 .. n
        BY <3>2
      <4>2. QED BY <3>2, <4>1
    <3>3. QED BY <3>1, <3>2
  <2>2. h = [k \in 0 .. n |-> h[k]]
    OBVIOUS
  <2> HIDE DEF h
  <2>3. h = [k \in 0 .. n |-> IF k = 0 THEN 0 ELSE h[k - 1] + SizeOfBlock(l, k - 1)]
    BY <2>1, <2>2
  <2>4. Sums(h, l, n)
    BY <2>3 DEF Sums
  <2>5. QED BY <2>4
<1>3. Sums(g, l, n)
  BY <1>2
<1> HIDE DEF g
<1>4. \A k \in 0 .. n : g[k] = IF k = 0 THEN 0 ELSE g[k - 1] + SizeOfBlock(l, k - 1)
  BY <1>3 DEF Sums
<1> DEFINE T == {k \in Nat : k <= n => g[k] = f[k]}
<1>5. 0 \in T
  BY <1>4
<1>6. ASSUME NEW k \in Nat, k \in T PROVE k + 1 \in T
  <2>1. SUFFICES ASSUME k + 1 <= n PROVE g[k + 1] = f[k + 1]
    OBVIOUS
  <2>2. k + 1 \in 1 .. n /\ k + 1 \in 0 .. n /\ (k + 1) - 1 = k /\ k + 1 # 0
    BY <2>1
  <2>3. g[k] = f[k]
    BY <1>6, <2>1
  <2>4. f[k + 1] = f[k] + SizeOfBlock(l, k)
    BY <2>2
  <2>5. g[k + 1] = g[k] + SizeOfBlock(l, k)
    BY <1>4, <2>2
  <2>6. QED BY <2>3, <2>4, <2>5
<1>7. \A k \in Nat : k \in T
  <2> HIDE DEF T
  <2>1. QED BY <1>5, <1>6, SetInduction
<1>8. QED BY <1>1, <1>7

LEMMA BeforeIs ==
    ASSUME NEW l, Filled(l.blocks), NEW B, Layout(B, l.blocks)
    PROVE  \A b \in 0 .. Len(l.blocks) : Before(l, b) = B[b]
<1>1. Len(l.blocks) \in Nat /\ B[0] = 0
  BY BlocksAre DEF Layout
<1>2. ASSUME NEW b \in 0 .. Len(l.blocks) PROVE Before(l, b) = B[b]
  <2>1. b \in Nat
    BY <1>1
  <2>2. ASSUME NEW k \in 1 .. b PROVE B[k] = B[k - 1] + SizeOfBlock(l, k - 1)
    <3>1. k - 1 \in 0 .. Len(l.blocks) - 1 /\ (k - 1) + 1 = k /\ k \in 0 .. Len(l.blocks)
          /\ k - 1 \in 0 .. Len(l.blocks)
      BY <1>1
    <3>2. SizeOfBlock(l, k - 1) = B[k] - B[k - 1]
      BY <3>1, SizesOfBlocks
    <3>3. B[k] \in Nat /\ B[k - 1] \in Nat
      BY <3>1, Grows
    <3>4. QED BY <3>2, <3>3
  <2>3. QED BY <1>1, <2>1, <2>2, BeforeSums
<1>3. QED BY <1>2

(* The iterator of the element at index i, or the end.                     *)
IsAt(it, l, B, i) ==
    /\ it = [block |-> it.block, inblock |-> i - B[it.block]]
    /\ it.block \in 0 .. Len(l.blocks)
    /\ B[it.block] <= i
    /\ it.block < Len(l.blocks) => i < B[it.block + 1]

LEMMA AtExists ==
    ASSUME NEW l, Filled(l.blocks), NEW B, Layout(B, l.blocks), NEW i \in 0 .. Len(Iterated(l))
    PROVE  \E it : IsAt(it, l, B, i)
<1> DEFINE n == Len(l.blocks)
<1>1. n \in Nat /\ B[n] = Len(Iterated(l)) /\ B[n] \in Nat
  <2>1. Iterated(l) = Flat(l.blocks)
    BY DEF Iterated, Flat, Contents
  <2>2. n \in Nat
    BY BlocksAre
  <2>3. n \in 0 .. n
    BY <2>2
  <2>4. QED BY <2>1, <2>2, <2>3, Grows DEF Layout
<1>2. CASE i = B[n]
  <2> DEFINE it == [block |-> n, inblock |-> i - B[n]]
  <2>1. IsAt(it, l, B, i)
    BY <1>1, <1>2 DEF IsAt
  <2>2. QED BY <2>1
<1>3. CASE i # B[n]
  <2>1. i \in Nat /\ i < Len(Flat(l.blocks))
    <3>1. Iterated(l) = Flat(l.blocks)
      BY DEF Iterated, Flat, Contents
    <3>2. QED BY <1>1, <1>3, <3>1
  <2>2. PICK k \in 1 .. n : B[k - 1] <= i /\ i < B[k]
    BY <2>1, Located
  <2> DEFINE it == [block |-> k - 1, inblock |-> i - B[k - 1]]
  <2>3. k - 1 \in 0 .. n /\ (k - 1) + 1 = k
    BY <1>1
  <2>4. IsAt(it, l, B, i)
    BY <2>2, <2>3 DEF IsAt
  <2>5. QED BY <2>4
<1>4. QED BY <1>2, <1>3

LEMMA AtIs ==
    ASSUME NEW l, Filled(l.blocks), NEW B, Layout(B, l.blocks), NEW i \in 0 .. Len(Iterated(l)),
           NEW it, IsAt(it, l, B, i), NEW b \in 0 .. Len(l.blocks)
    PROVE  /\ i \in Nat /\ B[b] \in Nat /\ it.block \in Nat
           /\ b < it.block => B[b + 1] <= i /\ B[b] < i /\ B[b + 1] \in Nat
           /\ b > it.block => i < B[b]
           /\ Len(l.blocks) \in Nat /\ B[Len(l.blocks)] = Len(Iterated(l))
           /\ it.block = Len(l.blocks) => i = Len(Iterated(l))
<1> DEFINE n == Len(l.blocks)
           c == it.block
<1>1. /\ n \in Nat
      /\ \A k \in 0 .. n : B[k] \in Nat
      /\ \A k \in 0 .. n : \A j \in 0 .. k : B[j] <= B[k]
      /\ \A k \in 0 .. n : \A j \in 0 .. k - 1 : B[j] < B[k]
  BY BlocksAre, Grows
<1>2. /\ c \in 0 .. n /\ B[c] <= i /\ (c < n => i < B[c + 1])
  BY DEF IsAt
<1>3. Iterated(l) = Flat(l.blocks)
  BY DEF Iterated, Flat, Contents
<1>4. B[n] = Len(Iterated(l)) /\ B[n] \in Nat
  <2>1. n \in 0 .. n
    BY <1>1
  <2>2. QED BY <1>1, <1>3, <2>1 DEF Layout
<1> HIDE DEF n, c
<1>5. i \in Nat /\ i <= B[n]
  BY <1>4
<1>6. ASSUME b < c PROVE B[b + 1] <= i /\ B[b] < i /\ B[b + 1] \in Nat
  <2>1. b + 1 \in 0 .. c /\ b \in 0 .. c - 1 /\ b + 1 \in 0 .. n
    BY <1>1, <1>2, <1>6 DEF n
  <2>2. B[b + 1] <= B[c] /\ B[b] < B[c] /\ B[b + 1] \in Nat /\ B[b] \in Nat /\ B[c] \in Nat
    BY <1>1, <1>2, <2>1 DEF n
  <2>3. QED BY <1>2, <1>5, <2>2
<1>7. ASSUME b > c PROVE i < B[b]
  <2>1. c < n /\ c + 1 \in 0 .. b /\ c + 1 \in 0 .. n
    BY <1>1, <1>2, <1>7 DEF n
  <2>2. B[c + 1] <= B[b] /\ B[c + 1] \in Nat /\ B[b] \in Nat
    BY <1>1, <2>1 DEF n
  <2>3. QED BY <1>2, <1>5, <2>1, <2>2
<1>8. c = n => i = Len(Iterated(l))
  BY <1>2, <1>4, <1>5
<1>9. B[b] \in Nat /\ c \in Nat
  BY <1>1, <1>2 DEF n
<1>10. QED BY <1>1, <1>4, <1>5, <1>6, <1>7, <1>8, <1>9 DEF n, c

LEMMA PlusIs ==
    ASSUME NEW l, Filled(l.blocks), NEW B, Layout(B, l.blocks), NEW i \in 0 .. Len(Iterated(l)),
           NEW it, IsAt(it, l, B, i)
    PROVE  ItPlus(l, BeginIt, i) = it
<1> DEFINE n == Len(l.blocks)
           left(b) == BeginIt.inblock + i - (Before(l, b) - Before(l, BeginIt.block))
           T == {b \in BeginIt.block .. BackBlockIndex(l) + 1 :
                    left(b) = 0 \/ SizeOfBlock(l, b) > left(b)}
<1>1. ItPlus(l, BeginIt, i) = [block |-> Min(T), inblock |-> left(Min(T))]
  BY DEF ItPlus
<1>2. /\ n \in Nat /\ BackBlockIndex(l) + 1 = n /\ BeginIt.block = 0 /\ BeginIt.inblock = 0
      /\ i \in Nat
  <2>1. n \in Nat
    BY BlocksAre
  <2>2. 0 \in 0 .. n
    BY <2>1
  <2>3. QED BY <2>1, <2>2, AtIs DEF BackBlockIndex, BeginIt
<1>3. \A b \in 0 .. n : left(b) = i - B[b]
  <2>1. ASSUME NEW b \in 0 .. n PROVE left(b) = i - B[b]
    <3>1. 0 \in 0 .. n
      BY <1>2
    <3>2. Before(l, b) = B[b] /\ Before(l, 0) = B[0]
      BY <3>1, BeforeIs
    <3>3. B[0] = 0
      BY DEF Layout
    <3>4. B[b] \in Nat
      BY Grows
    <3>5. QED BY <1>2, <3>2, <3>3, <3>4
  <2>2. QED BY <2>1
<1>4. T = {b \in 0 .. n : left(b) = 0 \/ SizeOfBlock(l, b) > left(b)}
  BY <1>2
<1>5. it.block \in 0 .. n /\ it = [block |-> it.block, inblock |-> i - B[it.block]]
  BY DEF IsAt
<1>6. it.block \in T
  <2>1. left(it.block) = i - B[it.block]
    BY <1>3, <1>5
  <2>2. B[it.block] \in Nat
    BY <1>5, Grows
  <2>3. CASE it.block = n
    <3>1. i = B[n]
      BY <1>5, <2>3, AtIs
    <3>2. left(it.block) = 0
      BY <2>1, <2>2, <2>3, <3>1
    <3>3. QED BY <1>4, <1>5, <3>2
  <2>4. CASE it.block # n
    <3>1. it.block \in 0 .. n - 1 /\ it.block < n /\ it.block + 1 \in 0 .. n
      BY <1>2, <1>5, <2>4
    <3>2. SizeOfBlock(l, it.block) = B[it.block + 1] - B[it.block]
      BY <3>1, SizesOfBlocks
    <3>3. i < B[it.block + 1]
      BY <3>1 DEF IsAt
    <3>4. B[it.block + 1] \in Nat
      BY <3>1, Grows
    <3>5. SizeOfBlock(l, it.block) > left(it.block)
      BY <1>2, <2>1, <2>2, <3>2, <3>3, <3>4
    <3>6. QED BY <1>4, <1>5, <3>5
  <2>5. QED BY <2>3, <2>4
<1>7. ASSUME NEW b \in T PROVE it.block <= b
  <2>1. b \in 0 .. n /\ (left(b) = 0 \/ SizeOfBlock(l, b) > left(b)) /\ left(b) = i - B[b]
    BY <1>3, <1>4
  <2> HIDE DEF left, T
  <2>2. SUFFICES ASSUME b < it.block PROVE FALSE
    BY <1>2, <1>5, <2>1
  <2>3. B[b + 1] <= i /\ B[b] < i /\ B[b + 1] \in Nat /\ B[b] \in Nat
    BY <2>1, <2>2, AtIs
  <2>4. b \in 0 .. n - 1
    BY <1>2, <1>5, <2>1, <2>2
  <2>5. SizeOfBlock(l, b) = B[b + 1] - B[b]
    BY <2>4, SizesOfBlocks
  <2>6. QED BY <1>2, <2>1, <2>3, <2>5
<1>8. T \subseteq Nat /\ T # {}
  BY <1>2, <1>4, <1>6
<1>9. left(it.block) = i - B[it.block]
  BY <1>3, <1>5
<1> HIDE DEF left, T
<1>10. Min(T) \in T /\ \A b \in T : Min(T) <= b
  BY <1>8, MinIs
<1>11. Min(T) = it.block
  <2>1. Min(T) \in Nat /\ it.block \in Nat
    BY <1>6, <1>8, <1>10
  <2>2. Min(T) <= it.block /\ it.block <= Min(T)
    BY <1>6, <1>7, <1>10
  <2>3. QED BY <2>1, <2>2
<1>12. QED BY <1>1, <1>5, <1>9, <1>11

LEMMA MinusIs ==
    ASSUME NEW l, Filled(l.blocks), NEW B, Layout(B, l.blocks), NEW i \in 0 .. Len(Iterated(l)),
           NEW it, IsAt(it, l, B, i)
    PROVE  ItMinus(l, EndIt(l), Len(Iterated(l)) - i) = it
<1> DEFINE n == Len(l.blocks)
           e == EndIt(l)
           m == Len(Iterated(l)) - i
           place(b) == e.inblock - m + Before(l, e.block) - Before(l, b)
           T == {b \in 0 .. e.block : place(b) >= 0}
<1>1. ItMinus(l, e, m) = [block |-> Max(T), inblock |-> place(Max(T))]
  BY DEF ItMinus
<1>2. /\ n \in Nat /\ e.block = n /\ e.inblock = 0 /\ i \in Nat
      /\ B[n] = Len(Iterated(l)) /\ B[n] \in Nat
  <2>1. n \in Nat
    BY BlocksAre
  <2>2. n \in 0 .. n
    BY <2>1
  <2>3. QED BY <2>1, <2>2, AtIs DEF BackBlockIndex, EndIt
<1>3. \A b \in 0 .. n : place(b) = i - B[b]
  <2>1. ASSUME NEW b \in 0 .. n PROVE place(b) = i - B[b]
    <3>1. n \in 0 .. n
      BY <1>2
    <3>2. Before(l, b) = B[b] /\ Before(l, n) = B[n]
      BY <3>1, BeforeIs
    <3>3. B[b] \in Nat
      BY Grows
    <3>4. QED BY <1>2, <3>2, <3>3
  <2>2. QED BY <2>1
<1>4. it.block \in 0 .. n /\ B[it.block] <= i /\ B[it.block] \in Nat
      /\ it = [block |-> it.block, inblock |-> i - B[it.block]]
  BY Grows DEF IsAt
<1>5. T = {b \in 0 .. n : place(b) >= 0}
  BY <1>2
<1>6. it.block \in T
  BY <1>2, <1>3, <1>4, <1>5
<1>7. ASSUME NEW b \in T PROVE b <= it.block
  <2>1. b \in 0 .. n /\ i - B[b] >= 0
    BY <1>3, <1>5
  <2> HIDE DEF place, T
  <2>2. B[b] \in Nat
    BY <2>1, Grows
  <2>3. b > it.block => i < B[b]
    BY <2>1, AtIs
  <2>4. QED BY <1>2, <1>4, <2>1, <2>2, <2>3
<1>8. T \subseteq 0 .. n /\ T # {}
  BY <1>5, <1>6
<1>9. place(it.block) = i - B[it.block]
  BY <1>3, <1>4
<1> HIDE DEF place, T, e, m
<1>10. Max(T) \in T /\ \A b \in T : Max(T) >= b
  BY <1>2, <1>8, MaxIs
<1>11. Max(T) = it.block
  BY <1>2, <1>4, <1>6, <1>7, <1>8, <1>10
<1>12. ItMinus(l, e, m) = it
  BY <1>1, <1>4, <1>9, <1>11
<1>13. QED BY <1>12 DEF e, m

LEMMA DifferenceIs ==
    ASSUME NEW l, Filled(l.blocks), NEW B, Layout(B, l.blocks), NEW i \in 0 .. Len(Iterated(l)),
           NEW it, IsAt(it, l, B, i)
    PROVE  ItDifference(l, it, BeginIt) = i
<1> DEFINE n == Len(l.blocks)
<1>1. n \in Nat /\ i \in Nat /\ B[0] = 0 /\ Before(l, 0) = B[0]
  <2>1. n \in Nat
    BY BlocksAre
  <2>2. 0 \in 0 .. n
    BY <2>1
  <2>3. i \in Nat /\ Before(l, 0) = B[0]
    BY <2>2, AtIs, BeforeIs
  <2>4. B[0] = 0
    BY DEF Layout
  <2>5. QED BY <2>1, <2>3, <2>4
<1>2. /\ it.block \in 0 .. n /\ B[it.block] \in Nat /\ Before(l, it.block) = B[it.block]
      /\ it.inblock = i - B[it.block]
  BY Grows, BeforeIs DEF IsAt
<1>3. BeginIt.block = 0 /\ BeginIt.inblock = 0
  BY DEF BeginIt
<1>4. CASE it.block = 0
  BY <1>1, <1>2, <1>3, <1>4 DEF ItDifference
<1>5. CASE it.block # 0
  <2>1. 0 \in 0 .. n - 1 /\ 1 \in 0 .. n
    BY <1>1, <1>2, <1>5
  <2>2. SizeOfBlock(l, 0) = B[1] - B[0] /\ Before(l, 1) = B[1] /\ B[1] \in Nat
    <3>1. SizeOfBlock(l, 0) = B[0 + 1] - B[0]
      BY <2>1, SizesOfBlocks
    <3>2. Before(l, 1) = B[1] /\ B[1] \in Nat
      BY <2>1, BeforeIs, Grows
    <3>3. QED BY <3>1, <3>2
  <2>3. ItDifference(l, it, BeginIt)
            = SizeOfBlock(l, 0) - 0 + it.inblock + Before(l, it.block) - Before(l, 1)
    BY <1>3, <1>5 DEF ItDifference
  <2>4. QED BY <1>1, <1>2, <2>2, <2>3
<1>6. QED BY <1>4, <1>5

(* The iterator of the next element is one step on.                        *)
LEMMA NextIs ==
    ASSUME NEW l, Filled(l.blocks), NEW B, Layout(B, l.blocks), NEW i \in 0 .. Len(Iterated(l)) - 1,
           NEW it, IsAt(it, l, B, i), NEW next, IsAt(next, l, B, i + 1)
    PROVE  /\ ItItem(l, it) = Iterated(l)[i + 1]
           /\ NextIt(l, it) = next /\ PrevIt(l, next) = it
<1> DEFINE n == Len(l.blocks)
           c == it.block
           k == i - B[c]
<1>1. /\ n \in Nat /\ i \in Nat /\ i + 1 \in 0 .. Len(Iterated(l)) /\ i \in 0 .. Len(Iterated(l))
      /\ Iterated(l) = Flat(l.blocks) /\ B[n] = Len(Iterated(l)) /\ B[n] \in Nat
  <2>1. n \in Nat /\ Iterated(l) = Flat(l.blocks)
    BY BlocksAre DEF Iterated, Flat, Contents
  <2>2. n \in 0 .. n
    BY <2>1
  <2>3. B[n] = Len(Iterated(l)) /\ B[n] \in Nat
    BY <2>1, <2>2, Grows DEF Layout
  <2>4. QED BY <2>1, <2>3
<1>2. c \in 0 .. n /\ B[c] <= i /\ it = [block |-> c, inblock |-> k] /\ (c < n => i < B[c + 1])
  BY DEF IsAt
<1>3. /\ c \in 0 .. n - 1 /\ c + 1 \in 1 .. n /\ (c + 1) - 1 = c /\ c + 1 \in 0 .. n
      /\ i < B[c + 1] /\ B[c] \in Nat /\ B[c + 1] \in Nat
  <2>1. c # n
    <3>1. c = n => i = Len(Iterated(l))
      BY <1>1, <1>2, AtIs
    <3>2. QED BY <1>1, <3>1
  <2>2. c \in 0 .. n - 1 /\ c + 1 \in 1 .. n /\ (c + 1) - 1 = c /\ c + 1 \in 0 .. n /\ c < n
    BY <1>1, <1>2, <2>1
  <2>3. B[c] \in Nat /\ B[c + 1] \in Nat
    BY <1>2, <2>2, Grows
  <2>4. QED BY <1>2, <2>2, <2>3
<1>4. /\ B[c + 1] = B[c] + Len(l.blocks[c + 1].items)
      /\ \A j \in 1 .. Len(l.blocks[c + 1].items) :
           Iterated(l)[B[c] + j] = l.blocks[c + 1].items[j]
      /\ Len(l.blocks[c + 1].items) \in Nat
  BY <1>1, <1>3, BlocksAre DEF Layout
<1>5. SizeOfBlock(l, c) = B[c + 1] - B[c]
  BY <1>3, SizesOfBlocks
<1>6. k \in Nat /\ k + 1 \in 1 .. Len(l.blocks[c + 1].items) /\ B[c] + (k + 1) = i + 1
  <2> DEFINE len == Len(l.blocks[c + 1].items)
  <2>1. /\ i \in Nat /\ B[c] \in Nat /\ B[c] <= i /\ i < B[c + 1] /\ len \in Nat
        /\ B[c + 1] = B[c] + len
    BY <1>1, <1>2, <1>3, <1>4
  <2> HIDE DEF len, c
  <2>2. k \in Nat /\ k + 1 \in 1 .. len /\ B[c] + (k + 1) = i + 1
    BY <2>1
  <2>3. QED BY <2>2 DEF len
<1>7. ItItem(l, it) = Iterated(l)[i + 1]
  <2>1. Iterated(l)[B[c] + (k + 1)] = l.blocks[c + 1].items[k + 1]
    BY <1>4, <1>6
  <2>2. ItItem(l, it) = l.blocks[c + 1].items[k + 1]
    <3> HIDE DEF k, c
    <3>1. it.block = c /\ it.inblock = k
      BY <1>2
    <3>2. QED BY <3>1 DEF ItItem, Block
  <2>3. QED BY <1>6, <2>1, <2>2
<1>8. /\ next.block \in 0 .. n /\ next = [block |-> next.block, inblock |-> i + 1 - B[next.block]]
      /\ B[next.block] \in Nat
  <2>1. next.block \in 0 .. n
        /\ next = [block |-> next.block, inblock |-> (i + 1) - B[next.block]]
    BY DEF IsAt
  <2>2. B[next.block] \in Nat
    BY <2>1, Grows
  <2>3. QED BY <2>1, <2>2
<1>9. CASE i + 1 = B[c + 1]
  <2>1. next.block = c + 1
    <3>1. c + 1 < next.block => B[c + 1] < i + 1
      BY <1>1, <1>3, AtIs
    <3>2. c + 1 > next.block => i + 1 < B[c + 1]
      BY <1>1, <1>3, AtIs
    <3>3. QED BY <1>1, <1>3, <1>8, <1>9, <3>1, <3>2
  <2>2. next = [block |-> c + 1, inblock |-> 0]
    <3>1. (i + 1) - B[next.block] = 0
      BY <1>8, <1>9, <2>1
    <3>2. QED BY <1>8, <2>1, <3>1
  <2>3. SizeOfBlock(l, c) = k + 1
    <3> DEFINE a == B[c]
               b == B[c + 1]
    <3>1. SizeOfBlock(l, c) = b - a /\ a \in Nat /\ b \in Nat /\ i + 1 = b /\ i \in Nat /\ k = i - a
      BY <1>1, <1>3, <1>5, <1>9
    <3> HIDE DEF a, b, k, c
    <3>2. QED BY <3>1
  <2> HIDE DEF k, c
  <2>4. it.block = c /\ it.inblock = k
    BY <1>2
  <2>5. NextIt(l, it) = next
    BY <2>2, <2>3, <2>4 DEF NextIt
  <2>6. PrevIt(l, next) = it
    <3>1. next.inblock = 0 /\ next.block - 1 = c
      BY <1>3, <2>2
    <3>2. (k + 1) - 1 = k
      BY <1>6
    <3>3. PrevIt(l, next) = [block |-> c, inblock |-> SizeOfBlock(l, c) - 1]
      BY <3>1 DEF PrevIt
    <3>4. QED BY <1>2, <2>3, <3>2, <3>3
  <2>7. QED BY <1>7, <2>5, <2>6
<1>10. CASE i + 1 # B[c + 1]
  <2>1. i + 1 < B[c + 1]
    BY <1>1, <1>3, <1>10
  <2>2. next.block = c
    <3>1. c + 1 <= next.block => B[c + 1] <= i + 1
      <4>1. c < next.block => B[c + 1] <= i + 1
        BY <1>1, <1>2, AtIs
      <4>2. QED BY <1>1, <1>3, <1>8, <4>1
    <3>2. c > next.block => i + 1 < B[c]
      <4>1. c \in 0 .. Len(l.blocks) /\ i + 1 \in 0 .. Len(Iterated(l))
        BY <1>1, <1>2, <1>3
      <4> HIDE DEF c
      <4>2. QED BY <4>1, AtIs
    <3> DEFINE a == B[c]
               b == B[c + 1]
               q == next.block
    <3>3. /\ a \in Nat /\ b \in Nat /\ i \in Nat /\ c \in Nat /\ q \in Nat
          /\ a <= i /\ i + 1 < b
          /\ c + 1 <= q => b <= i + 1
          /\ c > q => i + 1 < a
      BY <1>1, <1>2, <1>3, <1>8, <2>1, <3>1, <3>2
    <3> HIDE DEF a, b, c, q
    <3>4. q = c
      BY <3>3
    <3>5. QED BY <3>4 DEF q
  <2>3. next = [block |-> c, inblock |-> k + 1]
    <3> DEFINE a == B[c]
    <3>1. next = [block |-> next.block, inblock |-> (i + 1) - B[next.block]]
      BY <1>8
    <3>2. a \in Nat /\ i \in Nat /\ k = i - a
      BY <1>1, <1>3
    <3> HIDE DEF c, k
    <3>3. next = [block |-> c, inblock |-> (i + 1) - a]
      BY <2>2, <3>1
    <3> HIDE DEF a
    <3>4. (i + 1) - a = k + 1
      BY <3>2
    <3>5. QED BY <3>3, <3>4
  <2>4. SizeOfBlock(l, c) # k + 1
    <3> DEFINE a == B[c]
               b == B[c + 1]
    <3>1. SizeOfBlock(l, c) = b - a /\ a \in Nat /\ b \in Nat /\ i + 1 # b /\ i \in Nat /\ k = i - a
      BY <1>1, <1>3, <1>5, <1>10
    <3> HIDE DEF a, b, k, c
    <3>2. QED BY <3>1
  <2> HIDE DEF k, c
  <2>5. it.block = c /\ it.inblock = k /\ k + 1 # 0 /\ (k + 1) - 1 = k
    BY <1>2, <1>6
  <2>6. NextIt(l, it) = next
    BY <1>2, <2>3, <2>4, <2>5 DEF NextIt
  <2>7. PrevIt(l, next) = it
    BY <1>2, <2>3, <2>5 DEF PrevIt
  <2>8. QED BY <1>7, <2>6, <2>7
<1>11. QED BY <1>9, <1>10

LEMMA Iterates ==
    ASSUME NEW l, ListOK(l)
    PROVE  IteratesInOrder(l, Iterated(l))
<1> DEFINE seq == Iterated(l)
           at(i) == ItPlus(l, BeginIt, i)
<1>1. Filled(l.blocks) /\ l.size = Len(seq) /\ l.size \in Nat
  BY DEF ListOK
<1>2. PICK B : Layout(B, l.blocks)
  BY <1>1, LaidOut
<1>3. ASSUME NEW i \in 0 .. l.size
      PROVE  /\ IsAt(at(i), l, B, i)
             /\ ItMinus(l, EndIt(l), l.size - i) = at(i)
             /\ ItDifference(l, at(i), BeginIt) = i
  <2>1. PICK it : IsAt(it, l, B, i)
    BY <1>1, <1>2, AtExists
  <2>2. ItPlus(l, BeginIt, i) = it
    BY <1>1, <1>2, <2>1, PlusIs
  <2>3. ItMinus(l, EndIt(l), l.size - i) = it
    BY <1>1, <1>2, <2>1, MinusIs
  <2>4. ItDifference(l, it, BeginIt) = i
    BY <1>1, <1>2, <2>1, DifferenceIs
  <2>5. QED BY <2>1, <2>2, <2>3, <2>4
<1>4. ASSUME NEW i \in 0 .. l.size, i < l.size
      PROVE  /\ ItItem(l, at(i)) = seq[i + 1]
             /\ NextIt(l, at(i)) = at(i + 1) /\ PrevIt(l, at(i + 1)) = at(i)
  <2>1. i \in 0 .. Len(seq) - 1 /\ i + 1 \in 0 .. l.size
    BY <1>1, <1>4
  <2>2. IsAt(at(i), l, B, i) /\ IsAt(at(i + 1), l, B, i + 1)
    BY <1>3, <2>1
  <2> HIDE DEF at
  <2>3. QED BY <1>1, <1>2, <2>1, <2>2, NextIs
<1>5. QED BY <1>3, <1>4 DEF IteratesInOrder

-----------------------------------------------------------------------------
(* Indexes.                                                                *)

Powers(w, n) == w = [k \in 0 .. n |-> IF k = 0 THEN 1 ELSE 2 * w[k - 1]]

LEMMA PowerIs ==
    ASSUME NEW n \in Nat, NEW f, f[0] = 1, \A k \in 1 .. n : f[k] = 2 * f[k - 1]
    PROVE  Exp2(n) = f[n]
<1> DEFINE g == CHOOSE w : Powers(w, n)
<1>1. Exp2(n) = g[n]
  BY ZenonT(40) DEF Exp2, Powers
<1>2. \E w : Powers(w, n)
  <2> DEFINE h == [k \in 0 .. n |-> f[k]]
  <2>1. ASSUME NEW k \in 0 .. n PROVE h[k] = IF k = 0 THEN 1 ELSE 2 * h[k - 1]
    <3>1. CASE k = 0
      BY <3>1
    <3>2. CASE k # 0
      <4>1. k \in 1 .. n /\ k - 1 \in 0 .. n
        BY <3>2
      <4>2. QED BY <3>2, <4>1
    <3>3. QED BY <3>1, <3>2
  <2>2. h = [k \in 0 .. n |-> h[k]]
    OBVIOUS
  <2> HIDE DEF h
  <2>3. h = [k \in 0 .. n |-> IF k = 0 THEN 1 ELSE 2 * h[k - 1]]
    BY <2>1, <2>2
  <2>4. Powers(h, n)
    BY <2>3 DEF Powers
  <2>5. QED BY <2>4
<1>3. Powers(g, n)
  BY <1>2
<1> HIDE DEF g
<1>4. \A k \in 0 .. n : g[k] = IF k = 0 THEN 1 ELSE 2 * g[k - 1]
  BY <1>3 DEF Powers
<1> DEFINE T == {k \in Nat : k <= n => g[k] = f[k]}
<1>5. 0 \in T
  BY <1>4
<1>6. ASSUME NEW k \in Nat, k \in T PROVE k + 1 \in T
  <2>1. SUFFICES ASSUME k + 1 <= n PROVE g[k + 1] = f[k + 1]
    OBVIOUS
  <2>2. k + 1 \in 1 .. n /\ k + 1 \in 0 .. n /\ (k + 1) - 1 = k /\ k + 1 # 0
    BY <2>1
  <2>3. g[k] = f[k]
    BY <1>6, <2>1
  <2>4. f[k + 1] = 2 * f[k] /\ g[k + 1] = 2 * g[k]
    BY <1>4, <2>2
  <2>5. QED BY <2>3, <2>4
<1>7. \A k \in Nat : k \in T
  <2> HIDE DEF T
  <2>1. QED BY <1>5, <1>6, SetInduction
<1>8. QED BY <1>1, <1>7

LEMMA Exp2Is ==
    ASSUME NEW n \in Nat
    PROVE  /\ Exp2(0) = 1 /\ Exp2(n) \in Nat /\ Exp2(n) > 0 /\ Exp2(n + 1) = 2 * Exp2(n)
<1>1. n + 1 \in Nat /\ 0 \in Nat
  OBVIOUS
<1>2. PICK w : Doubled(w, 1, n + 1)
  BY <1>1, DoubledExists
<1>3. \A k \in 0 .. n + 1 : w[k] = IF k = 0 THEN 1 ELSE 2 * w[k - 1]
  BY <1>2 DEF Doubled
<1>4. w[0] = 1 /\ \A k \in 1 .. n + 1 : w[k] = 2 * w[k - 1]
  BY <1>3
<1>5. Exp2(n + 1) = w[n + 1] /\ Exp2(n) = w[n] /\ Exp2(0) = w[0]
  <2>1. Exp2(n + 1) = w[n + 1]
    BY <1>1, <1>4, PowerIs
  <2>2. \A k \in 1 .. n : w[k] = 2 * w[k - 1]
    BY <1>4
  <2>3. Exp2(n) = w[n]
    BY <1>4, <2>2, PowerIs
  <2>4. \A k \in 1 .. 0 : w[k] = 2 * w[k - 1]
    OBVIOUS
  <2>5. Exp2(0) = w[0]
    BY <1>1, <1>4, <2>4, PowerIs
  <2>6. QED BY <2>1, <2>3, <2>5
<1>6. w[n] \in Nat /\ w[n] > 0
  <2>1. n \in 0 .. n + 1 /\ 1 \in Nat /\ 1 > 0
    OBVIOUS
  <2>2. w[n] \in Nat /\ w[n] > n
    BY <1>1, <1>2, <2>1, DoubledGrows
  <2>3. QED BY <2>2
<1>7. w[n + 1] = 2 * w[n]
  BY <1>4
<1>8. QED BY <1>4, <1>5, <1>6, <1>7

(* The blocks in front of a block are as long as the index expects.        *)
LEMMA ExpectedPlaces ==
    ASSUME NEW s, Filled(s), Doubling(s), NEW B, Layout(B, s)
    PROVE  \A b \in 0 .. Len(s) - 1 : B[b] = BaseSize * (Exp2(b) - 1)
<1> DEFINE n == Len(s)
           T == {b \in Nat : b <= n - 1 => B[b] = BaseSize * (Exp2(b) - 1)}
<1>1. n \in Nat /\ BaseSize \in Nat
  BY BlocksAre, ListAssumption
<1>2. 0 \in T
  <2>1. B[0] = 0 /\ Exp2(0) = 1
    BY Exp2Is DEF Layout
  <2>2. QED BY <1>1, <2>1
<1>3. ASSUME NEW b \in Nat, b \in T PROVE b + 1 \in T
  <2>1. SUFFICES ASSUME b + 1 <= n - 1 PROVE B[b + 1] = BaseSize * (Exp2(b + 1) - 1)
    OBVIOUS
  <2>2. b + 1 \in 1 .. n /\ b + 1 < n /\ (b + 1) - 1 = b
    BY <1>1, <2>1
  <2>3. B[b + 1] = B[b] + Len(s[b + 1].items)
    BY <2>2 DEF Layout
  <2>4. Len(s[b + 1].items) = BaseSize * Exp2(b)
    BY <2>2, BlocksAre DEF Doubling
  <2>5. B[b] = BaseSize * (Exp2(b) - 1)
    BY <1>1, <1>3, <2>1
  <2>6. Exp2(b) \in Nat /\ Exp2(b + 1) = 2 * Exp2(b)
    BY Exp2Is
  <2> DEFINE e == Exp2(b)
             p == BaseSize * e
  <2>7. e \in Nat /\ p \in Nat /\ BaseSize * (e - 1) = p - BaseSize
        /\ BaseSize * (2 * e - 1) = 2 * p - BaseSize
    <3> HIDE DEF e
    <3>1. e \in Nat
      BY <2>6 DEF e
    <3>2. QED BY <1>1, <3>1
  <2>8. B[b + 1] = (p - BaseSize) + p
    BY <2>3, <2>4, <2>5, <2>7
  <2> HIDE DEF p
  <2>9. B[b + 1] = 2 * p - BaseSize
    BY <1>1, <2>7, <2>8
  <2>10. QED BY <2>6, <2>7, <2>9
<1>4. \A b \in Nat : b \in T
  <2> HIDE DEF T
  <2>1. QED BY <1>2, <1>3, SetInduction
<1>5. QED BY <1>1, <1>4

LEMMA SlotIs ==
    ASSUME NEW l, Filled(l.blocks), Doubling(l.blocks), NEW B, Layout(B, l.blocks),
           NEW k \in 1 .. Len(l.blocks), NEW i \in Nat, B[k - 1] <= i, i < B[k]
    PROVE  Slot(l, i) = <<k, i - B[k - 1] + 1>>
<1> DEFINE n == Len(l.blocks)
           U == {b \in 0 .. BackBlockIndex(l) : i + 1 <= (Exp2(b + 1) - 1) * BaseSize}
                \cup {Max({BackBlockIndex(l), 0})}
<1>1. n \in Nat /\ BackBlockIndex(l) = n - 1 /\ n - 1 \in Nat /\ BaseSize \in Nat
  BY BlocksAre, ListAssumption DEF BackBlockIndex
<1>2. Max({BackBlockIndex(l), 0}) = n - 1
  <2> DEFINE m == n - 1
             T == {m, 0}
  <2>1. m \in Nat /\ T \subseteq 0 .. m /\ T # {}
    BY <1>1
  <2> HIDE DEF m
  <2>2. Max(T) \in T /\ Max(T) >= m
    BY <2>1, MaxIs
  <2>3. Max(T) = m
    BY <2>1, <2>2
  <2>4. QED BY <1>1, <2>3 DEF m
<1>3. U = {b \in 0 .. n - 1 : i + 1 <= (Exp2(b + 1) - 1) * BaseSize} \cup {n - 1}
  BY <1>1, <1>2
<1>3a. U \subseteq 0 .. n - 1 /\ n - 1 \in U
  <2> HIDE DEF U, n
  <2>1. n - 1 \in 0 .. n - 1
    BY <1>1
  <2>2. QED BY <1>3, <2>1
<1>4. \A b \in 0 .. n - 1 : b + 1 <= n - 1 => (Exp2(b + 1) - 1) * BaseSize = B[b + 1]
  <2>1. ASSUME NEW b \in 0 .. n - 1, b + 1 <= n - 1
        PROVE  (Exp2(b + 1) - 1) * BaseSize = B[b + 1]
    <3>1. b + 1 \in 0 .. n - 1 /\ b + 1 \in Nat
      BY <1>1, <2>1
    <3>2. B[b + 1] = BaseSize * (Exp2(b + 1) - 1) /\ Exp2(b + 1) \in Nat
      BY <3>1, ExpectedPlaces, Exp2Is
    <3>3. QED BY <1>1, <3>2
  <2>2. QED BY <2>1
<1>5. /\ \A b \in 0 .. n : B[b] \in Nat
      /\ \A b \in 0 .. n : \A j \in 0 .. b : B[j] <= B[b]
  BY Grows
<1>6. k - 1 \in U
  <2>1. CASE k = n
    BY <1>3, <2>1
  <2>2. CASE k # n
    <3>1. k - 1 \in 0 .. n - 1 /\ (k - 1) + 1 <= n - 1 /\ (k - 1) + 1 = k /\ k \in 0 .. n
      BY <1>1, <2>2
    <3>2. (Exp2((k - 1) + 1) - 1) * BaseSize = B[k]
      BY <1>4, <3>1
    <3>3. i + 1 <= B[k]
      BY <1>5, <3>1
    <3>4. QED BY <1>3, <3>1, <3>2, <3>3
  <2>3. QED BY <2>1, <2>2
<1>7. ASSUME NEW b \in U PROVE k - 1 <= b
  <2>1. b \in 0 .. n - 1
    BY <1>3a
  <2>2. SUFFICES ASSUME b < k - 1 PROVE FALSE
    BY <1>1, <2>1
  <2>3. b + 1 <= n - 1 /\ b # n - 1 /\ b + 1 \in 0 .. k - 1 /\ k - 1 \in 0 .. n /\ b + 1 \in 0 .. n
    BY <1>1, <2>1, <2>2
  <2>4. i + 1 <= B[b + 1]
    BY <1>3, <1>4, <2>1, <2>3
  <2>5. B[b + 1] <= B[k - 1] /\ B[b + 1] \in Nat /\ B[k - 1] \in Nat
    BY <1>5, <2>3
  <2>6. QED BY <2>4, <2>5
<1>8. U \subseteq Nat /\ U # {}
  <2> HIDE DEF U, n
  <2>1. QED BY <1>1, <1>3a
<1>9. GetBlockIndex(l, i) = Min(U)
  BY DEF GetBlockIndex
<1> HIDE DEF U
<1>10. Min(U) = k - 1
  <2>1. Min(U) \in U /\ \A b \in U : Min(U) <= b
    BY <1>8, MinIs
  <2>2. Min(U) \in Nat /\ k - 1 \in Nat /\ Min(U) <= k - 1 /\ k - 1 <= Min(U)
    BY <1>1, <1>6, <1>7, <1>8, <2>1
  <2>3. QED BY <2>2
<1>11. GetInBlockIndex(i, k - 1) = i - B[k - 1]
  <2>1. k - 1 \in 0 .. n - 1
    BY <1>1
  <2>2. QED BY <2>1, ExpectedPlaces DEF GetInBlockIndex
<1>12. QED BY <1>1, <1>9, <1>10, <1>11 DEF Slot

LEMMA ItemIs ==
    ASSUME NEW l, Filled(l.blocks), Doubling(l.blocks), NEW i \in Nat, i < Len(Iterated(l))
    PROVE  Inside(l, i) /\ ItemAt(l, i) = Iterated(l)[i + 1]
<1>1. PICK B : Layout(B, l.blocks)
  BY LaidOut
<1>2. Iterated(l) = Flat(l.blocks)
  BY DEF Iterated, Flat, Contents
<1>3. PICK k \in 1 .. Len(l.blocks) : B[k - 1] <= i /\ i < B[k]
  BY <1>1, <1>2, Located
<1> DEFINE j == i - B[k - 1] + 1
           items == l.blocks[k].items
<1>4. Slot(l, i) = <<k, j>>
  BY <1>1, <1>3, SlotIs
<1>5. /\ items \in Seq(Items) /\ Len(items) \in Nat /\ Len(l.blocks) \in Nat
      /\ B[k] = B[k - 1] + Len(items) /\ B[k - 1] \in Nat
      /\ \A a \in 1 .. Len(items) : Flat(l.blocks)[B[k - 1] + a] = items[a]
  <2>1. k - 1 \in 0 .. Len(l.blocks) /\ Len(l.blocks) \in Nat
    BY BlocksAre
  <2>2. B[k - 1] \in Nat
    BY <1>1, <2>1, Grows
  <2>3. QED BY <1>1, <2>1, <2>2, BlocksAre DEF Layout
<1>6. DOMAIN items = 1 .. Len(items)
  BY <1>5, LenProperties
<1>7. j \in 1 .. Len(items) /\ B[k - 1] + j = i + 1
  <2> HIDE DEF items
  <2>1. QED BY <1>3, <1>5
<1> HIDE DEF j
<1>8. Inside(l, i)
  BY <1>4, <1>5, <1>6, <1>7 DEF Inside
<1>9. ItemAt(l, i) = items[j]
  BY <1>4 DEF ItemAt
<1>10. items[j] = Iterated(l)[i + 1]
  BY <1>2, <1>5, <1>7
<1>11. QED BY <1>8, <1>9, <1>10

LEMMA Indexes ==
    ASSUME NEW l, ListOK(l)
    PROVE  IndexesInOrder(l, Iterated(l))
<1> SUFFICES ASSUME ~l.copied, NEW i \in 0 .. l.size - 1
             PROVE  Inside(l, i) /\ ItemAt(l, i) = Iterated(l)[i + 1]
  BY DEF IndexesInOrder
<1>1. /\ Filled(l.blocks) /\ Doubling(l.blocks)
      /\ l.size = Len(Iterated(l)) /\ l.size \in Nat
  BY DEF ListOK
<1>2. i \in Nat /\ i < Len(Iterated(l))
  BY <1>1
<1>3. QED BY <1>1, <1>2, ItemIs

LEMMA SequenceEnough == ListIInv => ListIsSequence
<1> SUFFICES ASSUME ListIInv, NEW x \in Lists
             PROVE  IF x \in Sound
                    THEN /\ lists[x].size = Len(held[x])
                         /\ IteratesInOrder(lists[x], held[x])
                         /\ IndexesInOrder(lists[x], held[x])
                    ELSE lists[x].bare \/ lists[x].copied
  BY DEF ListIsSequence
<1>1. Holds(lists[x], held[x])
  BY DEF ListIInv
<1>2. CASE lists[x].size = -1
  BY <1>1, <1>2 DEF Holds, Sound
<1>3. CASE lists[x].size # -1
  <2>1. x \in Sound /\ ListOK(lists[x]) /\ held[x] = Iterated(lists[x])
    BY <1>1, <1>3 DEF Holds, Sound
  <2>2. lists[x].size = Len(held[x])
    BY <2>1 DEF ListOK
  <2>3. QED BY <2>1, <2>2, Iterates, Indexes
<1>4. QED BY <1>2, <1>3

-----------------------------------------------------------------------------
(* What the operations make of the sequence of a list.                     *)

IsList(l, seq, bare, copied) ==
    ListOK(l) /\ Iterated(l) = seq /\ l.bare = bare /\ l.copied = copied

LEMMA ListIs ==
    ASSUME NEW l, ListOK(l)
    PROVE  /\ l = [blocks |-> l.blocks, size |-> l.size, bare |-> l.bare, copied |-> l.copied]
           /\ DOMAIN l = {"blocks", "size", "bare", "copied"}
           /\ Filled(l.blocks) /\ (l.copied \/ Doubling(l.blocks))
           /\ (l.bare => l.blocks = <<>>)
           /\ l.size \in Nat /\ l.bare \in BOOLEAN /\ l.copied \in BOOLEAN
           /\ l.size = Len(Iterated(l)) /\ Iterated(l) \in Seq(Items)
           /\ Iterated(l) = Flat(l.blocks)
<1>1. l \in [blocks : Seq(BlockType), size : Nat, bare : BOOLEAN, copied : BOOLEAN]
  BY DEF ListOK
<1>2. /\ l = [blocks |-> l.blocks, size |-> l.size, bare |-> l.bare, copied |-> l.copied]
      /\ DOMAIN l = {"blocks", "size", "bare", "copied"}
      /\ l.size \in Nat /\ l.bare \in BOOLEAN /\ l.copied \in BOOLEAN
  BY <1>1
<1>3. Iterated(l) = Flat(l.blocks)
  BY DEF Iterated, Flat, Contents
<1>4. /\ Filled(l.blocks) /\ (l.copied \/ Doubling(l.blocks))
      /\ (l.bare => l.blocks = <<>>) /\ l.size = Len(Iterated(l))
  BY DEF ListOK
<1>5. Iterated(l) \in Seq(Items)
  BY <1>3, <1>4, LaidOut
<1>6. QED BY <1>2, <1>3, <1>4, <1>5

LEMMA MadeOf ==
    ASSUME NEW s, Filled(s), NEW bare \in BOOLEAN, NEW copied \in BOOLEAN,
           copied \/ Doubling(s), bare => s = <<>>,
           NEW n, n = Len(Flat(s)),
           NEW l, l = [blocks |-> s, size |-> n, bare |-> bare, copied |-> copied]
    PROVE  IsList(l, Flat(s), bare, copied)
<1>1. l.blocks = s /\ l.size = n /\ l.bare = bare /\ l.copied = copied
  OBVIOUS
<1>2. Iterated(l) = Flat(s)
  BY <1>1 DEF Iterated, Flat, Contents
<1>3. n \in Nat /\ s \in Seq(BlockType)
  <2>1. Flat(s) \in Seq(Items)
    BY LaidOut
  <2>2. QED BY <2>1, LenProperties DEF Filled
<1>4. l \in [blocks : Seq(BlockType), size : Nat, bare : BOOLEAN, copied : BOOLEAN]
  BY <1>3
<1>5. QED BY <1>1, <1>2, <1>4 DEF IsList, ListOK

LEMMA NoBlocks ==
    /\ Filled(<<>>) /\ Doubling(<<>>) /\ Flat(<<>>) = <<>>
    /\ IsList(EmptyList, <<>>, FALSE, FALSE)
<1>1. <<>> \in Seq(BlockType) /\ Len(<<>>) = 0
  BY EmptySeq
<1>2. Filled(<<>>)
  BY <1>1 DEF Filled
<1>3. Doubling(<<>>)
  BY <1>1 DEF Doubling
<1>4. Flat(<<>>) = <<>>
  <2>1. Flat(<<>>) \in Seq(Items) /\ \E B : Layout(B, <<>>)
    BY <1>2, LaidOut
  <2>2. Len(Flat(<<>>)) = 0
    BY <1>1, <2>1 DEF Layout
  <2>3. QED BY <2>1, <2>2, EmptySeq
<1>5. IsList(EmptyList, <<>>, FALSE, FALSE)
  BY <1>1, <1>2, <1>3, <1>4, MadeOf DEF EmptyList
<1>6. QED BY <1>2, <1>3, <1>4, <1>5

(* An item more in the last block, or in a new one.                        *)
LEMMA FlatAppend ==
    ASSUME NEW s, Filled(s), NEW r, Filled(r), NEW m \in Nat, Len(r) = m,
           NEW old \in Seq(Items), NEW item \in Items,
           \/ m = Len(s) /\ m > 0 /\ old = s[m].items
           \/ m = Len(s) + 1 /\ old = <<>>,
           \A k \in 1 .. m - 1 : r[k].items = s[k].items,
           r[m].items = Append(old, item)
    PROVE  Flat(r) = Append(Flat(s), item)
<1>1. PICK B : Layout(B, s)
  BY LaidOut
<1>2. PICK C : Layout(C, r)
  BY LaidOut
<1> DEFINE f == Flat(s)
           t == Append(f, item)
           n == Len(s)
           o == Len(old)
<1>3. /\ n \in Nat /\ f \in Seq(Items) /\ o \in Nat /\ Len(f) \in Nat /\ B[n] = Len(f)
  BY <1>1, BlocksAre, LaidOut, LenProperties DEF Layout
<1>4. /\ t \in Seq(Items) /\ Len(t) = Len(f) + 1 /\ t[Len(f) + 1] = item
      /\ \A i \in 1 .. Len(f) : t[i] = f[i]
  BY <1>3, AppendProperties
<1>5. /\ Len(Append(old, item)) = o + 1 /\ Append(old, item)[o + 1] = item
      /\ \A i \in 1 .. o : Append(old, item)[i] = old[i]
  BY AppendProperties
<1> HIDE DEF f, t, o
<1>6. /\ m \in 1 .. m /\ m - 1 \in Nat /\ m - 1 <= n /\ m - 1 <= m /\ m - 1 \in 0 .. m - 1
      /\ m - 1 \in 0 .. n /\ n \in 0 .. n
  BY <1>3
<1>7. \A k \in 0 .. m - 1 : C[k] = B[k]
  <2>1. \A k \in 1 .. m - 1 : Len(r[k].items) = Len(s[k].items)
    OBVIOUS
  <2> DEFINE j == m - 1
  <2>2. /\ j \in Nat /\ j <= Len(s) /\ j <= Len(r)
        /\ \A k \in 1 .. j : Len(r[k].items) = Len(s[k].items)
    BY <1>6, <2>1
  <2> HIDE DEF j
  <2>3. \A k \in 0 .. j : C[k] = B[k]
    BY <1>1, <1>2, <2>2, SamePlaces
  <2>4. QED BY <2>3 DEF j
<1>8. C[m] = B[m - 1] + (o + 1) /\ B[m - 1] \in Nat
  <2>1. C[m] = C[m - 1] + Len(r[m].items)
    BY <1>2, <1>6 DEF Layout
  <2>2. C[m - 1] = B[m - 1]
    BY <1>6, <1>7
  <2>3. B[m - 1] \in Nat
    BY <1>1, <1>6, Grows
  <2>4. QED BY <1>5, <2>1, <2>2, <2>3
<1>9. /\ B[n] = B[m - 1] + o
      /\ \A i \in 1 .. o : f[B[m - 1] + i] = old[i]
  <2>1. CASE m = n /\ m > 0 /\ old = s[m].items
    <3>1. /\ B[m] = B[m - 1] + Len(s[m].items)
          /\ \A i \in 1 .. Len(s[m].items) : Flat(s)[B[m - 1] + i] = s[m].items[i]
      BY <1>1, <1>6, <2>1 DEF Layout
    <3>2. QED BY <2>1, <3>1 DEF f, o
  <2>2. CASE m = n + 1 /\ old = <<>>
    <3>1. m - 1 = n /\ o = 0
      BY <1>3, <2>2, EmptySeq DEF o
    <3>2. QED BY <1>8, <3>1
  <2>3. QED BY <2>1, <2>2
<1>10. Len(t) = C[Len(r)]
  <2> DEFINE z == Len(f)
             a == B[m - 1]
             b == B[n]
             c == C[m]
  <2>1. z \in Nat /\ a \in Nat /\ o \in Nat /\ b = z /\ c = a + (o + 1) /\ b = a + o
    BY <1>3, <1>8, <1>9
  <2> HIDE DEF z, a, b, c
  <2>2. z + 1 = c
    BY <2>1
  <2>3. Len(t) = z + 1
    BY <1>4 DEF z
  <2>4. QED BY <2>2, <2>3 DEF c
<1>11. ASSUME NEW k \in 1 .. Len(r), NEW i \in 1 .. Len(r[k].items)
       PROVE  t[C[k - 1] + i] = r[k].items[i]
  <2>1. CASE k # m
    <3>1. /\ k \in 1 .. m - 1 /\ k - 1 \in 0 .. m - 1 /\ k \in 1 .. n /\ k \in 0 .. n
          /\ k - 1 \in 0 .. n
      BY <1>3, <1>6, <2>1
    <3>2. C[k - 1] = B[k - 1] /\ r[k].items = s[k].items
      BY <1>7, <3>1
    <3>3. /\ B[k] = B[k - 1] + Len(s[k].items)
          /\ f[B[k - 1] + i] = s[k].items[i]
      BY <1>1, <3>1, <3>2 DEF Layout, f
    <3>4. B[k] <= B[n] /\ B[k] \in Nat /\ B[k - 1] \in Nat /\ Len(s[k].items) \in Nat
      BY <1>1, <1>6, <3>1, Grows, BlocksAre
    <3>5. i \in 1 .. Len(s[k].items)
      BY <3>2
    <3>6. B[k - 1] + i \in 1 .. Len(f)
      <4> DEFINE len == Len(s[k].items)
             a == B[k - 1]
             b == B[k]
             z == Len(f)
      <4>1. /\ i \in 1 .. len /\ len \in Nat /\ b = a + len /\ a \in Nat /\ b \in Nat
            /\ b <= z /\ z \in Nat
        BY <1>3, <3>3, <3>4, <3>5
      <4> HIDE DEF len, a, b, z
      <4>2. a + i \in 1 .. z
        BY <4>1
      <4>3. QED BY <4>2 DEF a, z
    <3>7. QED BY <1>4, <3>2, <3>3, <3>6
  <2>2. CASE k = m
    <3>1. C[k - 1] = B[m - 1]
      BY <1>6, <1>7, <2>2
    <3>2. i \in 1 .. o + 1
      BY <1>5, <2>2
    <3>3. CASE i = o + 1
      <4>1. B[m - 1] + i = Len(f) + 1
        <5> DEFINE a == B[m - 1]
                   z == Len(f)
        <5>1. a \in Nat /\ o \in Nat /\ z = a + o
          BY <1>3, <1>8, <1>9
        <5> HIDE DEF a, z
        <5>2. a + i = z + 1
          BY <3>3, <5>1
        <5>3. QED BY <5>2 DEF a, z
      <4>2. QED BY <1>4, <1>5, <2>2, <3>1, <3>3, <4>1
    <3>4. CASE i # o + 1
      <4>1. i \in 1 .. o
        BY <1>3, <3>2, <3>4
      <4>2. B[m - 1] + i \in 1 .. Len(f)
        <5> DEFINE a == B[m - 1]
                   z == Len(f)
        <5>1. a \in Nat /\ z = a + o /\ z \in Nat /\ i \in 1 .. o /\ o \in Nat
          BY <1>3, <1>8, <1>9, <4>1
        <5> HIDE DEF a, z
        <5>2. a + i \in 1 .. z
          BY <5>1
        <5>3. QED BY <5>2 DEF a, z
      <4>3. t[B[m - 1] + i] = f[B[m - 1] + i]
        BY <1>4, <4>2
      <4>4. r[k].items[i] = old[i]
        BY <1>5, <2>2, <4>1
      <4>5. QED BY <1>9, <3>1, <4>1, <4>3, <4>4
    <3>5. QED BY <3>3, <3>4
  <2>3. QED BY <2>1, <2>2
<1>12. QED
  <2>1. Flat(r) = t
    BY <1>2, <1>4, <1>10, <1>11, FlatIs
  <2>2. QED BY <2>1 DEF t, f

LEMMA AppendIs ==
    ASSUME NEW l, ListOK(l), ~l.bare, NEW item \in Items
    PROVE  IsList(AppendItem(l, item), Append(Iterated(l), item), FALSE, l.copied)
<1> DEFINE s == l.blocks
           n == Len(s)
           w == TryWakeup(l)
           u == w.blocks
           m == Len(u)
           r == [u EXCEPT ![m] = [u[m] EXCEPT !.items = Append(u[m].items, item)]]
<1>1. /\ l = [blocks |-> s, size |-> l.size, bare |-> l.bare, copied |-> l.copied]
      /\ Filled(s) /\ (l.copied \/ Doubling(s)) /\ l.size \in Nat
      /\ l.bare = FALSE /\ l.copied \in BOOLEAN /\ l.size = Len(Flat(s))
      /\ Flat(s) \in Seq(Items) /\ Iterated(l) = Flat(s)
  BY ListIs
<1>2. /\ s \in Seq(BlockType) /\ n \in Nat
      /\ \A k \in 1 .. n : /\ s[k] = [items |-> s[k].items, capacity |-> s[k].capacity]
                           /\ s[k].items \in Seq(Items) /\ s[k].capacity \in Nat
                           /\ Len(s[k].items) \in Nat /\ Len(s[k].items) > 0
                           /\ Len(s[k].items) <= s[k].capacity
                           /\ k < n => Len(s[k].items) = s[k].capacity
  BY <1>1, BlocksAre
<1>3. BaseSize \in Nat /\ BaseSize > 0
  BY ListAssumption
<1>4. AppendItem(l, item) = [blocks |-> r, size |-> l.size + 1, bare |-> FALSE, copied |-> l.copied]
  <2>1. w = [blocks |-> u, size |-> l.size, bare |-> FALSE, copied |-> l.copied]
    BY <1>1 DEF TryWakeup
  <2>2. AppendItem(l, item)
            = [w EXCEPT !.blocks[Len(w.blocks)].items = Append(@, item), !.size = l.size + 1]
    BY <1>1 DEF AppendItem
  <2> HIDE DEF w, u
  <2>3. w.blocks = u
    BY <2>1
  <2>4. QED BY <2>1, <2>2, <2>3
<1>5. \E old \in Seq(Items), c \in Nat :
         /\ \/ m = n /\ n > 0 /\ old = s[n].items /\ c = s[n].capacity
            \/ m = n + 1 /\ old = <<>> /\ (\A k \in 1 .. n : Len(s[k].items) = s[k].capacity)
               /\ c = IF n = 0 THEN BaseSize ELSE 2 * s[n].capacity
         /\ u \in Seq(BlockType) /\ Len(old) < c
         /\ \A k \in 1 .. m - 1 : k \in 1 .. n /\ u[k] = s[k]
         /\ u[m] = [items |-> old, capacity |-> c]
  <2>1. CASE s # <<>> /\ ~Full(Last(s))
    <3>1. n > 0
      BY <1>2, <2>1, EmptySeq
    <3>2. w = l /\ u = s
      BY <2>1 DEF TryWakeup
    <3>3. n \in 1 .. n /\ Len(s[n].items) # s[n].capacity
      BY <1>2, <2>1, <3>1 DEF Full, Last
    <3>4. s[n].items \in Seq(Items) /\ s[n].capacity \in Nat /\ Len(s[n].items) < s[n].capacity
          /\ s[n] = [items |-> s[n].items, capacity |-> s[n].capacity]
      BY <1>2, <3>3
    <3>5. \A k \in 1 .. n - 1 : k \in 1 .. n
      BY <1>2
    <3> HIDE DEF w, u
    <3>6. QED BY <1>2, <3>1, <3>2, <3>4, <3>5
  <2>2. CASE ~(s # <<>> /\ ~Full(Last(s)))
    <3> DEFINE c == IF n = 0 THEN BaseSize ELSE 2 * s[n].capacity
               b == [items |-> <<>>, capacity |-> c]
    <3>1. s = <<>> <=> n = 0
      BY <1>2, EmptySeq
    <3>2. n # 0 => n \in 1 .. n /\ Len(s[n].items) = s[n].capacity
      BY <1>2, <2>2, <3>1 DEF Full, Last
    <3>3. ASSUME NEW k \in 1 .. n PROVE Len(s[k].items) = s[k].capacity
      <4>1. k = n \/ k < n
        BY <1>2
      <4>2. CASE k = n
        <5>1. n # 0
          BY <1>2
        <5>2. QED BY <3>2, <4>2, <5>1
      <4>3. CASE k < n
        BY <1>2, <4>3
      <4>4. QED BY <4>1, <4>2, <4>3
    <3>4. c \in Nat /\ c > 0
      <4>1. CASE n = 0
        BY <1>3, <4>1
      <4>2. CASE n # 0
        <5>1. n \in 1 .. n /\ c = 2 * s[n].capacity
          BY <3>2, <4>2
        <5>2. s[n].capacity \in Nat /\ Len(s[n].items) > 0 /\ Len(s[n].items) <= s[n].capacity
              /\ Len(s[n].items) \in Nat
          BY <1>2, <5>1
        <5> HIDE DEF c, b
        <5>3. QED BY <5>1, <5>2
      <4>3. QED BY <4>1, <4>2
    <3>5. u = Append(s, b)
      <4>1. TryWakeup(l).blocks = Append(s, [items |-> <<>>,
                 capacity |-> IF s = <<>> THEN BaseSize ELSE 2 * Len(Last(s).items)])
        BY <1>1, <2>2 DEF TryWakeup
      <4>2. (IF s = <<>> THEN BaseSize ELSE 2 * Len(Last(s).items)) = c
        BY <3>1, <3>2 DEF Last
      <4>3. QED BY <4>1, <4>2
    <3>6. b \in BlockType /\ <<>> \in Seq(Items) /\ Len(<<>>) = 0
      BY <3>4, EmptySeq DEF BlockType
    <3> HIDE DEF b, c
    <3>7. /\ u \in Seq(BlockType) /\ m = n + 1 /\ u[n + 1] = b
          /\ \A k \in 1 .. n : u[k] = s[k]
      BY <1>2, <3>5, <3>6, AppendProperties
    <3>8. b = [items |-> <<>>, capacity |-> c]
      BY DEF b
    <3>9. c = IF n = 0 THEN BaseSize ELSE 2 * s[n].capacity
      BY DEF c
    <3> HIDE DEF w, u
    <3>10. /\ \A k \in 1 .. m - 1 : k \in 1 .. n /\ u[k] = s[k]
           /\ u[m] = [items |-> <<>>, capacity |-> c]
      BY <1>2, <3>7, <3>8
    <3>11. QED BY <3>3, <3>4, <3>6, <3>7, <3>9, <3>10
  <2>3. QED BY <2>1, <2>2
<1>6. PICK old \in Seq(Items), c \in Nat :
         /\ \/ m = n /\ n > 0 /\ old = s[n].items /\ c = s[n].capacity
            \/ m = n + 1 /\ old = <<>> /\ (\A k \in 1 .. n : Len(s[k].items) = s[k].capacity)
               /\ c = IF n = 0 THEN BaseSize ELSE 2 * s[n].capacity
         /\ u \in Seq(BlockType) /\ Len(old) < c
         /\ \A k \in 1 .. m - 1 : k \in 1 .. n /\ u[k] = s[k]
         /\ u[m] = [items |-> old, capacity |-> c]
  BY <1>5
<1> DEFINE e == [items |-> Append(old, item), capacity |-> c]
<1> HIDE DEF w, u
<1>7. /\ m \in Nat /\ m > 0 /\ m \in 1 .. m /\ Len(old) \in Nat
      /\ Append(old, item) \in Seq(Items) /\ Len(Append(old, item)) = Len(old) + 1
  BY <1>2, <1>6, AppendProperties, LenProperties
<1>8. r = [u EXCEPT ![m] = e] /\ e \in BlockType
  <2>1. u[m] = [items |-> old, capacity |-> c]
    BY <1>6
  <2> DEFINE v == u[m]
  <2> HIDE DEF v
  <2>2. v = [items |-> old, capacity |-> c]
    BY <2>1 DEF v
  <2> DEFINE x == Append(old, item)
  <2>3. [v EXCEPT !.items = Append(v.items, item)] = e
    <3>1. Append(v.items, item) = x /\ e = [items |-> x, capacity |-> c]
      BY <2>2
    <3> DEFINE y == Append(v.items, item)
    <3>2. y = x
      BY <3>1
    <3> HIDE DEF x, y
    <3>3. [v EXCEPT !.items = y] = [items |-> y, capacity |-> c]
      BY <2>2
    <3> HIDE DEF e
    <3>4. [v EXCEPT !.items = y] = e
      BY <3>1, <3>2, <3>3
    <3>5. QED BY <3>4 DEF y
  <2>4. r = [u EXCEPT ![m] = [v EXCEPT !.items = Append(v.items, item)]]
    BY DEF r, v
  <2>5. e \in BlockType
    BY <1>6, <1>7 DEF BlockType
  <2> HIDE DEF e, r
  <2>6. QED BY <2>3, <2>4, <2>5
<1> HIDE DEF r, e
<1>9. /\ r \in Seq(BlockType) /\ Len(r) = m
      /\ \A k \in 1 .. m : r[k] = IF k = m THEN e ELSE u[k]
  BY <1>6, <1>7, <1>8, ExceptSeq
<1>10. /\ r[m].items = Append(old, item) /\ r[m].capacity = c
       /\ \A k \in 1 .. m - 1 : k \in 1 .. n /\ r[k] = s[k]
  BY <1>6, <1>7, <1>9 DEF e
<1>11. Filled(r)
  <2>1. ASSUME NEW k \in 1 .. m
        PROVE  /\ Len(r[k].items) \in 1 .. r[k].capacity
               /\ k < m => Len(r[k].items) = r[k].capacity
    <3>1. CASE k = m
      <4>1. Len(r[k].items) = Len(old) + 1 /\ r[k].capacity = c
        BY <1>7, <1>10, <3>1
      <4>2. QED BY <1>6, <1>7, <3>1, <4>1
    <3>2. CASE k # m
      <4>1. k \in 1 .. m - 1
        BY <1>7, <3>2
      <4>2. k \in 1 .. n /\ r[k] = s[k]
        BY <1>10, <4>1
      <4>3. Len(s[k].items) = s[k].capacity
        <5>1. CASE m = n
          <6>1. k < n
            BY <1>7, <4>1, <5>1
          <6>2. QED BY <1>2, <4>2, <6>1
        <5>2. CASE \A j \in 1 .. n : Len(s[j].items) = s[j].capacity
          BY <4>2, <5>2
        <5>3. QED BY <1>6, <5>1, <5>2
      <4>4. Len(s[k].items) \in Nat /\ Len(s[k].items) > 0 /\ s[k].capacity \in Nat
        BY <1>2, <4>2
      <4>5. QED BY <4>2, <4>3, <4>4
    <3>3. QED BY <3>1, <3>2
  <2>2. QED BY <1>9, <2>1 DEF Filled
<1>12. l.copied \/ Doubling(r)
  <2>1. SUFFICES ASSUME Doubling(s), NEW k \in 1 .. Len(r)
                 PROVE  r[k].capacity = BaseSize * Exp2(k - 1)
    BY <1>1 DEF Doubling
  <2>2. CASE k # m
    <3>1. k \in 1 .. m - 1
      BY <1>7, <1>9, <2>2
    <3>2. QED BY <1>10, <2>1, <3>1 DEF Doubling
  <2>3. CASE k = m /\ m = n
    <3>1. m \in 1 .. n /\ c = s[n].capacity
      BY <1>6, <1>7, <2>3
    <3>2. QED BY <1>10, <2>1, <2>3, <3>1 DEF Doubling
  <2>4. CASE k = m /\ m = n + 1 /\ n = 0
    <3>1. c = BaseSize /\ k - 1 = 0
      BY <1>6, <2>4
    <3>2. Exp2(0) = 1
      BY Exp2Is
    <3>3. BaseSize * 1 = BaseSize
      BY <1>3
    <3>4. QED BY <1>10, <2>4, <3>1, <3>2, <3>3
  <2>5. CASE k = m /\ m = n + 1 /\ n # 0
    <3>1. c = 2 * s[n].capacity /\ n \in 1 .. n /\ n - 1 \in Nat /\ (n - 1) + 1 = n /\ k - 1 = n
      BY <1>2, <1>6, <2>5
    <3>2. s[n].capacity = BaseSize * Exp2(n - 1)
      BY <2>1, <3>1 DEF Doubling
    <3>3. Exp2(n) = 2 * Exp2(n - 1) /\ Exp2(n - 1) \in Nat
      BY <3>1, Exp2Is
    <3>4. 2 * (BaseSize * Exp2(n - 1)) = BaseSize * (2 * Exp2(n - 1))
      BY <1>3, <3>3
    <3>5. QED BY <1>10, <2>5, <3>1, <3>2, <3>3, <3>4
  <2>6. QED BY <1>6, <2>2, <2>3, <2>4, <2>5
<1>13. Flat(r) = Append(Flat(s), item)
  <2>1. \A k \in 1 .. m - 1 : r[k].items = s[k].items
    BY <1>10
  <2>2. \/ m = Len(s) /\ m > 0 /\ old = s[m].items
        \/ m = Len(s) + 1 /\ old = <<>>
    BY <1>6
  <2>3. m \in Nat /\ Len(r) = m /\ r[m].items = Append(old, item)
    BY <1>7, <1>9, <1>10
  <2>4. Filled(s) /\ old \in Seq(Items) /\ item \in Items
    BY <1>1, <1>6
  <2> HIDE DEF m, s
  <2>5. QED BY <1>11, <2>1, <2>2, <2>3, <2>4, FlatAppend
<1>14. Len(Flat(r)) = l.size + 1
  BY <1>1, <1>13, AppendProperties
<1>15. IsList(AppendItem(l, item), Flat(r), FALSE, l.copied)
  <2> DEFINE a == AppendItem(l, item)
             size == l.size + 1
             copied == l.copied
  <2>1. /\ a = [blocks |-> r, size |-> size, bare |-> FALSE, copied |-> copied]
        /\ size = Len(Flat(r)) /\ copied \in BOOLEAN /\ (copied \/ Doubling(r))
        /\ FALSE \in BOOLEAN /\ (FALSE => r = <<>>)
    BY <1>1, <1>4, <1>12, <1>14
  <2> HIDE DEF a, size, copied
  <2>2. IsList(a, Flat(r), FALSE, copied)
    BY <1>11, <2>1, MadeOf
  <2>3. QED BY <2>2 DEF a, copied
<1>16. QED BY <1>1, <1>13, <1>15


Added(w, l, items, n) ==
    w = [k \in 0 .. n |-> IF k = 0 THEN l ELSE AppendItem(w[k - 1], items[k])]

LEMMA AddedExists ==
    ASSUME NEW l, NEW items
    PROVE  \A n \in Nat : \E w : Added(w, l, items, n)
<1> DEFINE T == {n \in Nat : \E w : Added(w, l, items, n)}
<1>1. 0 \in T
  <2> DEFINE w == [k \in 0 .. 0 |-> l]
  <2>1. w = [k \in 0 .. 0 |-> IF k = 0 THEN l ELSE AppendItem(w[k - 1], items[k])]
    OBVIOUS
  <2> HIDE DEF w
  <2>2. Added(w, l, items, 0)
    BY <2>1 DEF Added
  <2>3. QED BY <2>2
<1>2. ASSUME NEW n \in Nat, n \in T PROVE n + 1 \in T
  <2>1. PICK w : Added(w, l, items, n)
    BY <1>2
  <2>2. \A k \in 0 .. n : w[k] = IF k = 0 THEN l ELSE AppendItem(w[k - 1], items[k])
    BY <2>1 DEF Added
  <2> DEFINE v == [k \in 0 .. n + 1 |-> IF k = n + 1 THEN AppendItem(w[n], items[n + 1]) ELSE w[k]]
  <2>3. ASSUME NEW k \in 0 .. n + 1
        PROVE  v[k] = IF k = 0 THEN l ELSE AppendItem(v[k - 1], items[k])
    <3>1. CASE k = n + 1
      <4>1. k - 1 = n /\ n \in 0 .. n + 1 /\ n # n + 1 /\ k # 0
        BY <3>1
      <4>2. v[n] = w[n]
        BY <4>1
      <4>3. v[k] = AppendItem(w[n], items[n + 1])
        BY <3>1
      <4> HIDE DEF v
      <4>4. QED BY <3>1, <4>1, <4>2, <4>3
    <3>2. CASE k # n + 1 /\ k = 0
      BY <2>2, <3>2
    <3>3. CASE k # n + 1 /\ k # 0
      <4>1. k \in 0 .. n /\ k - 1 \in 0 .. n + 1 /\ k - 1 # n + 1
        BY <3>3
      <4>2. v[k] = w[k] /\ v[k - 1] = w[k - 1]
        BY <3>3, <4>1
      <4>3. w[k] = AppendItem(w[k - 1], items[k])
        BY <2>2, <3>3, <4>1
      <4> HIDE DEF v
      <4>4. QED BY <3>3, <4>2, <4>3
    <3>4. QED BY <3>1, <3>2, <3>3
  <2>4. v = [k \in 0 .. n + 1 |-> v[k]]
    OBVIOUS
  <2> HIDE DEF v
  <2>5. v = [k \in 0 .. n + 1 |-> IF k = 0 THEN l ELSE AppendItem(v[k - 1], items[k])]
    BY <2>3, <2>4
  <2>6. Added(v, l, items, n + 1)
    BY <2>5 DEF Added
  <2>7. n + 1 \in Nat
    OBVIOUS
  <2>8. QED BY <2>6, <2>7
<1>3. \A n \in Nat : n \in T
  <2> HIDE DEF T
  <2>1. QED BY <1>1, <1>2, SetInduction
<1>4. QED BY <1>3

(* What is left of a list without blocks_ in which something was put.      *)
Lost(l) ==
    /\ DOMAIN l = {"blocks", "size", "bare", "copied"}
    /\ l.size = -1 /\ l.bare = TRUE

Gathered(l, r, k, seq) ==
    /\ ~l.bare => IsList(r, seq, FALSE, l.copied)
    /\ (l.bare /\ k > 0) => Lost(r)

LEMMA ConcatAppend ==
    ASSUME NEW S, NEW s \in Seq(S), NEW t \in Seq(S), NEW e \in S
    PROVE  s \o Append(t, e) = Append(s \o t, e)
  OBVIOUS

LEMMA LostStays ==
    ASSUME NEW l, DOMAIN l = {"blocks", "size", "bare", "copied"}, l.bare = TRUE, NEW item
    PROVE  Lost(AppendItem(l, item))
<1>1. AppendItem(l, item) = [l EXCEPT !.blocks = <<>>, !.size = -1]
  BY DEF AppendItem, Undefined
<1>2. QED BY <1>1 DEF Lost

LEMMA AppendAllIs ==
    ASSUME NEW l, ListOK(l), NEW items \in Seq(Items)
    PROVE  \/ Lost(AppendAll(l, items)) /\ l.bare
           \/ IsList(AppendAll(l, items), Iterated(l) \o items, l.bare, l.copied)
<1> DEFINE n == Len(items)
           g == CHOOSE w : Added(w, l, items, n)
           a == Iterated(l)
           part(k) == SubSeq(items, 1, k)
           T == {k \in Nat : k <= n => Gathered(l, g[k], k, a \o part(k))}
<1>1. AppendAll(l, items) = g[n]
  BY ZenonT(40) DEF AppendAll, Added
<1>2. n \in Nat /\ a \in Seq(Items) /\ l.bare \in BOOLEAN
      /\ DOMAIN l = {"blocks", "size", "bare", "copied"}
  BY ListIs, LenProperties
<1>3. Added(g, l, items, n)
  BY <1>2, AddedExists
<1> HIDE DEF g
<1>4. \A k \in 0 .. n : g[k] = IF k = 0 THEN l ELSE AppendItem(g[k - 1], items[k])
  BY <1>3 DEF Added
<1>5. part(n) = items
  BY SubSeqFull
<1>6. ASSUME NEW k \in Nat, k + 1 <= n
      PROVE  /\ part(k) \in Seq(Items) /\ items[k + 1] \in Items
             /\ part(k + 1) = Append(part(k), items[k + 1])
             /\ a \o part(k + 1) = Append(a \o part(k), items[k + 1])
  <2>1. k \in 0 .. n /\ k + 1 \in 1 .. n
    BY <1>2, <1>6
  <2>2. part(k) \in Seq(Items) /\ Len(part(k)) = k
    BY <1>2, <2>1, SubSeqProperties
  <2>3. items[k + 1] \in Items
    BY <2>1, ElementOfSeq
  <2>4. part(k + 1) = Append(part(k), items[k + 1])
    BY <1>2, <1>6
  <2> HIDE DEF part, a
  <2>5. a \o part(k + 1) = Append(a \o part(k), items[k + 1])
    <3> DEFINE p == part(k)
               e == items[k + 1]
    <3>1. p \in Seq(Items) /\ e \in Items /\ a \in Seq(Items)
      BY <1>2, <2>2, <2>3
    <3> HIDE DEF p, e
    <3>2. a \o Append(p, e) = Append(a \o p, e)
      BY <3>1, ConcatAppend
    <3>3. QED BY <2>4, <3>2 DEF p, e
  <2>6. QED BY <2>2, <2>3, <2>4, <2>5
<1>7. part(0) = <<>>
  BY <1>2
<1>8. a \o part(0) = a
  BY <1>2, <1>7, ConcatEmptySeq
<1> HIDE DEF part, a, n
<1>9. 0 \in T
  <2>1. g[0] = l
    BY <1>2, <1>4
  <2>2. ~l.bare => IsList(l, a, FALSE, l.copied)
    BY <1>2, ListIs DEF IsList, a
  <2>3. Gathered(l, l, 0, a)
    <3>1. ~(0 > 0)
      OBVIOUS
    <3>2. QED BY <2>2, <3>1, Zenon DEF Gathered
  <2>4. QED BY <1>8, <2>1, <2>3
<1>10. ASSUME NEW k \in Nat, k \in T PROVE k + 1 \in T
  <2>1. SUFFICES ASSUME k + 1 <= n
                 PROVE  Gathered(l, g[k + 1], k + 1, a \o part(k + 1))
    OBVIOUS
  <2>2. g[k + 1] = AppendItem(g[k], items[k + 1])
    <3>1. k + 1 \in 0 .. n /\ k + 1 # 0 /\ (k + 1) - 1 = k
      BY <1>2, <2>1
    <3>2. QED BY <1>4, <3>1
  <2>3. k <= n /\ items[k + 1] \in Items /\ a \o part(k + 1) = Append(a \o part(k), items[k + 1])
    BY <1>2, <1>6, <2>1
  <2>4. CASE ~l.bare
    <3>1. IsList(g[k], a \o part(k), FALSE, l.copied)
      BY <1>10, <2>3, <2>4 DEF Gathered
    <3>2. ListOK(g[k]) /\ ~g[k].bare /\ Iterated(g[k]) = a \o part(k) /\ g[k].copied = l.copied
      BY <3>1 DEF IsList
    <3>3. IsList(AppendItem(g[k], items[k + 1]), Append(Iterated(g[k]), items[k + 1]), FALSE,
                 g[k].copied)
      BY <2>3, <3>2, AppendIs
    <3>4. IsList(g[k + 1], a \o part(k + 1), FALSE, l.copied)
      BY <2>2, <2>3, <3>2, <3>3
    <3>5. QED BY <2>4, <3>4 DEF Gathered
  <2>5. CASE l.bare
    <3>1. DOMAIN g[k] = {"blocks", "size", "bare", "copied"} /\ g[k].bare = TRUE
      <4>1. CASE k = 0
        BY <1>2, <1>4, <2>5, <4>1
      <4>2. CASE k > 0
        BY <1>10, <2>3, <2>5, <4>2 DEF Lost, Gathered
      <4>3. k = 0 \/ k > 0
        OBVIOUS
      <4>4. QED BY <4>1, <4>2, <4>3
    <3>2. Lost(g[k + 1])
      BY <2>2, <3>1, LostStays
    <3>3. QED BY <2>5, <3>2 DEF Gathered
  <2>6. QED BY <2>4, <2>5
<1>11. n \in T
  <2> HIDE DEF T
  <2>1. QED BY <1>2, <1>9, <1>10, SetInduction
<1>12. Gathered(l, g[n], n, a \o part(n))
  BY <1>2, <1>11
<1>13. CASE ~l.bare
  <2>1. IsList(g[n], a \o part(n), FALSE, l.copied) /\ l.bare = FALSE
    BY <1>2, <1>13, <1>12 DEF Gathered
  <2>2. QED BY <1>1, <1>5, <2>1 DEF a
<1>14. CASE l.bare /\ n > 0
  BY <1>1, <1>2, <1>14, <1>12 DEF Gathered
<1>15. CASE l.bare /\ n = 0
  <2>1. g[n] = l
    BY <1>2, <1>4, <1>15
  <2>2. items = <<>> /\ a \o items = a
    BY <1>2, <1>5, <1>7, <1>8, <1>15
  <2>3. IsList(l, a, l.bare, l.copied)
    BY DEF IsList, a
  <2>4. QED BY <1>1, <2>1, <2>2, <2>3 DEF a
<1>16. QED BY <1>2, <1>13, <1>14, <1>15

(* A list of which only the first elements are left.                       *)
LEMMA Trims ==
    ASSUME NEW s, Filled(s), NEW B, Layout(B, s), NEW r, Filled(r),
           NEW k \in 1 .. Len(s), Len(r) = k, NEW m \in 1 .. Len(s[k].items),
           \A j \in 1 .. k - 1 : r[j].items = s[j].items,
           r[k].items = SubSeq(s[k].items, 1, m),
           NEW z, z = B[k - 1] + m
    PROVE  Flat(r) = SubSeq(Flat(s), 1, z) /\ Len(Flat(r)) = z /\ z \in 1 .. Len(Flat(s))
<1> DEFINE f == Flat(s)
           n == Len(s)
           t == SubSeq(f, 1, z)
<1>1. PICK C : Layout(C, r)
  BY LaidOut
<1>2. /\ n \in Nat /\ f \in Seq(Items) /\ Len(f) \in Nat /\ B[n] = Len(f)
      /\ k \in Nat /\ k >= 1 /\ k <= n /\ m \in Nat
      /\ k - 1 \in Nat /\ k - 1 \in 0 .. n /\ k \in 0 .. n /\ n \in 0 .. n
      /\ k \in 1 .. Len(r) /\ k \in 0 .. Len(r) /\ k - 1 \in 0 .. Len(r)
  BY BlocksAre, LaidOut, LenProperties DEF Layout
<1>3. /\ B[k] = B[k - 1] + Len(s[k].items) /\ B[k - 1] \in Nat /\ B[k] \in Nat
      /\ B[k] <= B[n] /\ m >= 1 /\ m <= Len(s[k].items) /\ Len(s[k].items) \in Nat
      /\ s[k].items \in Seq(Items)
  <2>1. B[k] = B[k - 1] + Len(s[k].items)
    BY DEF Layout
  <2>2. B[k - 1] \in Nat /\ B[k] \in Nat /\ B[k] <= B[n]
    BY <1>2, Grows
  <2>3. Len(s[k].items) \in Nat /\ s[k].items \in Seq(Items)
    BY BlocksAre
  <2>4. m >= 1 /\ m <= Len(s[k].items)
    BY <2>3
  <2>5. QED BY <2>1, <2>2, <2>3, <2>4
<1>4. z \in 1 .. Len(f) /\ z \in Nat
  <2> DEFINE a == B[k - 1]
             b == B[k]
             c == Len(f)
             len == Len(s[k].items)
  <2>1. /\ a \in Nat /\ b \in Nat /\ c \in Nat /\ len \in Nat /\ b = a + len /\ b <= c
        /\ z = a + m /\ m \in Nat /\ m >= 1 /\ m <= len
    BY <1>2, <1>3
  <2> HIDE DEF a, b, c, len
  <2>2. z \in 1 .. c /\ z \in Nat
    BY <2>1
  <2>3. QED BY <2>2 DEF c
<1>5. /\ Len(r[k].items) = m
      /\ \A i \in 1 .. m : r[k].items[i] = s[k].items[i]
  BY <1>3, SubSeqProperties
<1> HIDE DEF f, n
<1>6. /\ t \in Seq(Items) /\ Len(t) = z
      /\ \A i \in 1 .. z : t[i] = f[i]
  BY <1>2, <1>4, SubSeqProperties
<1>7. \A j \in 0 .. k - 1 : C[j] = B[j]
  <2> DEFINE j == k - 1
  <2>1. /\ j \in Nat /\ j <= Len(s) /\ j <= Len(r)
        /\ \A i \in 1 .. j : Len(r[i].items) = Len(s[i].items)
    BY <1>2 DEF n
  <2> HIDE DEF j
  <2>2. \A i \in 0 .. j : C[i] = B[i]
    BY <1>1, <2>1, SamePlaces
  <2>3. QED BY <2>2 DEF j
<1>8. C[k] = z /\ C[Len(r)] = z
  <2>1. C[k] = C[k - 1] + Len(r[k].items)
    BY <1>1, <1>2 DEF Layout
  <2>2. C[k - 1] = B[k - 1]
    BY <1>2, <1>7
  <2>3. QED BY <1>5, <2>1, <2>2
<1>9. ASSUME NEW j \in 1 .. Len(r), NEW i \in 1 .. Len(r[j].items)
      PROVE  t[C[j - 1] + i] = r[j].items[i]
  <2>1. C[j] = C[j - 1] + Len(r[j].items) /\ C[j - 1] \in Nat /\ C[j] \in Nat /\ C[j] <= C[k]
        /\ Len(r[j].items) \in Nat
    <3>1. j - 1 \in 0 .. Len(r) /\ j \in 0 .. Len(r) /\ k \in 0 .. Len(r) /\ j \in 0 .. k
      BY <1>2
    <3>2. QED BY <1>1, <3>1, BlocksAre, Grows DEF Layout
  <2>2. C[j - 1] + i \in 1 .. z
    <3> DEFINE len == Len(r[j].items)
               a == C[j - 1]
               b == C[j]
    <3>1. /\ i \in 1 .. len /\ len \in Nat /\ b = a + len /\ a \in Nat /\ b \in Nat
          /\ b <= z /\ z \in Nat
      BY <1>4, <1>8, <2>1
    <3> HIDE DEF len, a, b
    <3>2. a + i \in 1 .. z
      BY <3>1
    <3>3. QED BY <3>2 DEF a
  <2>3. t[C[j - 1] + i] = f[C[j - 1] + i]
    BY <1>6, <2>2
  <2>4. C[j - 1] = B[j - 1] /\ j \in 1 .. Len(s)
    <3>1. j - 1 \in 0 .. k - 1 /\ j \in 1 .. Len(s)
      BY <1>2 DEF n
    <3>2. QED BY <1>7, <3>1
  <2>5. i \in 1 .. Len(s[j].items) /\ s[j].items[i] = r[j].items[i]
    <3>1. CASE j = k
      <4>1. i \in 1 .. m
        BY <1>5, <3>1
      <4>2. i \in 1 .. Len(s[k].items)
        BY <1>2, <1>3, <4>1
      <4>3. QED BY <1>5, <3>1, <4>1, <4>2
    <3>2. CASE j # k
      <4>1. j \in 1 .. k - 1
        BY <1>2, <3>2
      <4>2. QED BY <4>1
    <3>3. QED BY <3>1, <3>2
  <2>6. f[B[j - 1] + i] = s[j].items[i]
    BY <2>4, <2>5 DEF Layout, f
  <2>7. QED BY <2>3, <2>4, <2>5, <2>6
<1>10. Flat(r) = t
  <2>1. Len(t) = C[Len(r)]
    BY <1>6, <1>8
  <2> HIDE DEF t
  <2>2. QED BY <1>1, <1>6, <1>9, <2>1, FlatIs
<1>11. QED BY <1>4, <1>6, <1>10 DEF f

(* The first k blocks of s with the last one cut to m items: r.             *)
IsTrim(r, s, B, k, m, z) ==
  /\ Filled(s) /\ Layout(B, s) /\ Filled(r)
  /\ k \in 1 .. Len(s) /\ Len(r) = k /\ m \in 1 .. Len(s[k].items)
  /\ \A j \in 1 .. k - 1 : r[j].items = s[j].items
  /\ r[k].items = SubSeq(s[k].items, 1, m)
  /\ z = B[k - 1] + m

(* A list cut to its first k blocks and m items iterates the first z items.  *)
LEMMA TrimsTo ==
    ASSUME NEW r, NEW s, NEW B, NEW k, NEW m, NEW z, IsTrim(r, s, B, k, m, z)
    PROVE  Flat(r) = SubSeq(Flat(s), 1, z) /\ Len(Flat(r)) = z
BY Trims DEF IsTrim

(* A list cut to its first k blocks and m items of the k-th is a list.      *)
LEMMA TrimmedIs ==
    ASSUME NEW l, ListOK(l), NEW B, Layout(B, l.blocks),
           NEW k \in 1 .. Len(l.blocks), NEW m \in 1 .. Len(l.blocks[k].items),
           NEW r \in Seq(BlockType), Len(r) = k, \A j \in 1 .. k - 1 : r[j] = l.blocks[j],
           r[k] = [items |-> SubSeq(l.blocks[k].items, 1, m), capacity |-> l.blocks[k].capacity],
           NEW z, z = B[k - 1] + m,
           NEW a, a = [blocks |-> r, size |-> z, bare |-> l.bare, copied |-> l.copied]
    PROVE  IsList(a, SubSeq(Iterated(l), 1, z), l.bare, l.copied)
<1> DEFINE s == l.blocks
           n == Len(s)
<1>1. /\ Filled(s) /\ (l.copied \/ Doubling(s)) /\ (l.bare => s = <<>>)
      /\ l.bare \in BOOLEAN /\ l.copied \in BOOLEAN /\ Iterated(l) = Flat(s)
  BY ListIs
<1>2. /\ n \in Nat /\ k \in Nat /\ k <= n
      /\ \A j \in 1 .. n : /\ s[j].items \in Seq(Items) /\ s[j].capacity \in Nat
                           /\ Len(s[j].items) \in Nat /\ Len(s[j].items) > 0
                           /\ Len(s[j].items) <= s[j].capacity
                           /\ j < n => Len(s[j].items) = s[j].capacity
  <2>1. /\ s \in Seq(BlockType) /\ n \in Nat
        /\ \A j \in 1 .. n : /\ s[j].items \in Seq(Items) /\ s[j].capacity \in Nat
                             /\ Len(s[j].items) \in Nat /\ Len(s[j].items) > 0
                             /\ Len(s[j].items) <= s[j].capacity
                             /\ j < n => Len(s[j].items) = s[j].capacity
    <3>1. Filled(s)
      BY <1>1
    <3> HIDE DEF s
    <3>2. QED BY <3>1, BlocksAre
  <2>2. k \in Nat /\ k <= n
    BY <2>1
  <2>3. QED BY <2>1, <2>2
<1>3. /\ r[k].items = SubSeq(s[k].items, 1, m) /\ r[k].capacity = s[k].capacity
      /\ Len(r[k].items) = m /\ k \in 1 .. n
  BY <1>2, SubSeqProperties
<1>4. Filled(r)
  <2>1. ASSUME NEW j \in 1 .. k
        PROVE  /\ Len(r[j].items) \in 1 .. r[j].capacity
               /\ j < k => Len(r[j].items) = r[j].capacity
    <3>1. CASE j = k
      <4>1. Len(s[k].items) <= s[k].capacity /\ Len(s[k].items) \in Nat /\ s[k].capacity \in Nat
        BY <1>2
      <4>2. m \in 1 .. s[k].capacity
        BY <4>1
      <4>3. QED BY <1>2, <1>3, <3>1, <4>2
    <3>2. CASE j # k
      <4>1. j \in 1 .. k - 1 /\ j \in 1 .. n /\ j < n
        BY <1>2, <3>2
      <4>2. r[j] = s[j]
        BY <4>1
      <4>3. Len(s[j].items) = s[j].capacity /\ Len(s[j].items) \in Nat /\ Len(s[j].items) > 0
        BY <1>2, <4>1
      <4>4. QED BY <4>2, <4>3
    <3>3. QED BY <3>1, <3>2
  <2>2. QED BY <2>1 DEF Filled
<1>5. l.copied \/ Doubling(r)
  <2>1. SUFFICES ASSUME Doubling(s), NEW j \in 1 .. k
                 PROVE  r[j].capacity = BaseSize * Exp2(j - 1)
    BY <1>1 DEF Doubling
  <2>2. j \in 1 .. n
    BY <1>2
  <2>3. r[j].capacity = s[j].capacity
    <3>1. CASE j = k
      BY <1>3, <3>1
    <3>2. CASE j # k
      <4>1. j \in 1 .. k - 1
        BY <1>2, <3>2
      <4>2. QED BY <4>1
    <3>3. QED BY <3>1, <3>2
  <2>4. QED BY <2>1, <2>2, <2>3 DEF Doubling
<1>6. Flat(r) = SubSeq(Flat(s), 1, z) /\ Len(Flat(r)) = z
  <2>1. \A j \in 1 .. k - 1 : r[j].items = s[j].items
    OBVIOUS
  <2> HIDE DEF s
  <2>2. Layout(B, s) /\ k \in 1 .. Len(s) /\ m \in 1 .. Len(s[k].items)
    BY DEF s
  <2>3. Filled(s) /\ Filled(r) /\ r[k].items = SubSeq(s[k].items, 1, m)
    BY <1>1, <1>3, <1>4
  <2>4. Len(r) = k /\ z = B[k - 1] + m
    OBVIOUS
  <2>5. IsTrim(r, s, B, k, m, z)
    BY <2>1, <2>2, <2>3, <2>4 DEF IsTrim
  <2>6. QED BY <2>5, TrimsTo
<1>7. l.bare => r = <<>>
  <2>1. s = <<>> => Len(s) = 0
    BY EmptySeq
  <2>2. Len(s) # 0
    BY <1>2
  <2>3. QED BY <1>1, <2>1, <2>2
<1>8. IsList(a, Flat(r), l.bare, l.copied)
  <2> DEFINE bare == l.bare
             copied == l.copied
  <2>1. /\ bare \in BOOLEAN /\ copied \in BOOLEAN /\ (copied \/ Doubling(r))
        /\ (bare => r = <<>>) /\ z = Len(Flat(r))
        /\ a = [blocks |-> r, size |-> z, bare |-> bare, copied |-> copied]
    BY <1>1, <1>5, <1>6, <1>7
  <2> HIDE DEF bare, copied
  <2>2. IsList(a, Flat(r), bare, copied)
    BY <1>4, <2>1, MadeOf
  <2>3. QED BY <2>2 DEF bare, copied
<1>9. QED BY <1>1, <1>6, <1>8

(* The first k blocks, and of the last of them all but d elements.         *)
Cut(l, k, d, z) ==
    [(IF d = 0 THEN [l EXCEPT !.blocks = SubSeq(@, 1, k)]
      ELSE DropItems([l EXCEPT !.blocks = SubSeq(@, 1, k)], d)) EXCEPT !.size = z]

LEMMA CutIs ==
    ASSUME NEW l, ListOK(l), NEW B, Layout(B, l.blocks), NEW k \in 1 .. Len(l.blocks),
           NEW d \in Nat, d < Len(l.blocks[k].items), NEW z, z = B[k] - d
    PROVE  IsList(Cut(l, k, d, z), SubSeq(Iterated(l), 1, z), l.bare, l.copied)
<1> DEFINE s == l.blocks
           n == Len(s)
           q == SubSeq(s, 1, k)
           c == [l EXCEPT !.blocks = q]
           items == s[k].items
           m == Len(items) - d
           e == [items |-> SubSeq(items, 1, m), capacity |-> s[k].capacity]
           r == IF d = 0 THEN q ELSE [q EXCEPT ![k] = e]
           a == Cut(l, k, d, z)
<1>1. /\ l = [blocks |-> s, size |-> l.size, bare |-> l.bare, copied |-> l.copied]
      /\ Filled(s)
  BY ListIs
<1>2. /\ s \in Seq(BlockType) /\ n \in Nat
      /\ s[k] = [items |-> items, capacity |-> s[k].capacity]
      /\ items \in Seq(Items) /\ s[k].capacity \in Nat /\ Len(items) \in Nat
  <2> HIDE DEF s
  <2>1. k \in 1 .. Len(s)
    BY DEF s
  <2>2. QED BY <1>1, <2>1, BlocksAre
<1>3. k \in Nat /\ k <= n /\ k \in 1 .. k /\ d < Len(items)
  BY <1>2
<1>4. /\ q \in Seq(BlockType) /\ Len(q) = k
      /\ \A j \in 1 .. k : q[j] = s[j]
  BY <1>2, <1>3, SubSeqProperties
<1>5. m \in 1 .. Len(items) /\ z = B[k - 1] + m
  <2>1. B[k] = B[k - 1] + Len(items)
    BY DEF Layout
  <2>2. B[k - 1] \in Nat
    <3>1. k - 1 \in 0 .. n
      BY <1>2, <1>3
    <3>2. QED BY <1>1, <3>1, Grows
  <2> DEFINE len == Len(items)
             x == B[k - 1]
             y == B[k]
  <2>3. y = x + len /\ x \in Nat /\ len \in Nat /\ d < len /\ z = y - d /\ m = len - d
    BY <1>2, <1>3, <2>1, <2>2
  <2> HIDE DEF len, x, y, m
  <2>4. m \in 1 .. len /\ z = x + m
    BY <2>3
  <2>5. QED BY <2>4 DEF len, x
<1>6. e \in BlockType
  <2>1. SubSeq(items, 1, m) \in Seq(Items)
    BY <1>2, <1>5, SubSeqProperties
  <2>2. QED BY <1>2, <2>1 DEF BlockType
<1>7. /\ r \in Seq(BlockType) /\ Len(r) = k /\ r[k] = e
      /\ \A j \in 1 .. k - 1 : r[j] = s[j]
  <2>1. CASE d = 0
    <3>1. m = Len(items)
      BY <1>2, <2>1
    <3>2. SubSeq(items, 1, m) = items
      BY <1>2, <3>1, SubSeqFull
    <3>3. s[k] = e /\ r = q
      BY <1>2, <2>1, <3>2
    <3> HIDE DEF e, r, q
    <3>4. \A j \in 1 .. k - 1 : j \in 1 .. k
      BY <1>3
    <3>5. QED BY <1>3, <1>4, <3>3, <3>4
  <2>2. CASE d # 0
    <3>1. r = [q EXCEPT ![k] = e]
      BY <2>2
    <3> HIDE DEF e, r, q
    <3>2. /\ r \in Seq(BlockType) /\ Len(r) = k
          /\ \A j \in 1 .. k : r[j] = IF j = k THEN e ELSE q[j]
      BY <1>3, <1>4, <1>6, <3>1, ExceptSeq
    <3>3. \A j \in 1 .. k - 1 : j \in 1 .. k /\ j # k
      BY <1>3
    <3>4. QED BY <1>3, <1>4, <3>2, <3>3
  <2>3. QED BY <2>1, <2>2
<1>8. a = [blocks |-> r, size |-> z, bare |-> l.bare, copied |-> l.copied]
  <2>1. c = [blocks |-> q, size |-> l.size, bare |-> l.bare, copied |-> l.copied]
    <3> HIDE DEF q, s
    <3>1. QED BY <1>1
  <2>2. a = [(IF d = 0 THEN c ELSE DropItems(c, d)) EXCEPT !.size = z]
    BY DEF Cut
  <2>3. CASE d = 0
    BY <2>1, <2>2, <2>3
  <2>4. CASE d # 0
    <3>1. a = [DropItems(c, d) EXCEPT !.size = z] /\ r = [q EXCEPT ![k] = e]
      BY <2>2, <2>4
    <3> HIDE DEF a, c, r
    <3>2. c.blocks = q
      BY <2>1
    <3>3. DropItems(c, d) = [c EXCEPT !.blocks[k].items = SubSeq(@, 1, Len(@) - d)]
      BY <1>4, <3>2 DEF DropItems
    <3>4. q[k] = [items |-> items, capacity |-> s[k].capacity]
      BY <1>2, <1>3, <1>4
    <3> DEFINE v == q[k]
               w == SubSeq(items, 1, m)
    <3>5. SubSeq(v.items, 1, Len(v.items) - d) = w
      BY <3>4
    <3>6. e = [items |-> w, capacity |-> s[k].capacity]
      OBVIOUS
    <3>7. v = [items |-> items, capacity |-> s[k].capacity]
      BY <3>4
    <3> HIDE DEF w, e, v, items, q
    <3>8. [v EXCEPT !.items = w] = e
      BY <3>6, <3>7
    <3>9. DropItems(c, d) = [c EXCEPT !.blocks = [q EXCEPT ![k] = [v EXCEPT !.items = w]]]
      <4>1. c.blocks[k].items = v.items
        BY <3>2 DEF v
      <4>2. SubSeq(c.blocks[k].items, 1, Len(c.blocks[k].items) - d) = w
        BY <3>5, <4>1
      <4>3. DropItems(c, d)
                = [c EXCEPT !.blocks[k].items
                        = SubSeq(c.blocks[k].items, 1, Len(c.blocks[k].items) - d)]
        BY <3>3
      <4>4. DropItems(c, d) = [c EXCEPT !.blocks[k].items = w]
        BY <4>2, <4>3
      <4>5. QED BY <3>2, <4>4 DEF v
    <3>10. DropItems(c, d) = [c EXCEPT !.blocks = r]
      BY <3>1, <3>8, <3>9
    <3>11. QED BY <2>1, <3>1, <3>10
  <2>5. QED BY <2>3, <2>4
<1>9. QED
  <2> HIDE DEF r, a, m, q
  <2>1. r[k] = [items |-> SubSeq(l.blocks[k].items, 1, m), capacity |-> l.blocks[k].capacity]
    BY <1>7
  <2>2. \A j \in 1 .. k - 1 : r[j] = l.blocks[j]
    BY <1>7
  <2>3. m \in 1 .. Len(l.blocks[k].items)
    BY <1>5
  <2>4. QED BY <1>5, <1>7, <1>8, <2>1, <2>2, <2>3, TrimmedIs DEF a

LEMMA NothingLeft ==
    ASSUME NEW l, ListOK(l)
    PROVE  IsList(Cut(l, 0, 0, 0), <<>>, l.bare, l.copied)
<1> DEFINE a == Cut(l, 0, 0, 0)
           bare == l.bare
           copied == l.copied
<1>1. /\ l = [blocks |-> l.blocks, size |-> l.size, bare |-> l.bare, copied |-> l.copied]
      /\ bare \in BOOLEAN /\ copied \in BOOLEAN
  BY ListIs
<1>2. SubSeq(l.blocks, 1, 0) = <<>>
  <2>1. l.blocks \in Seq(BlockType)
    BY ListIs, BlocksAre
  <2>2. QED BY <2>1
<1>3. a = [blocks |-> <<>>, size |-> 0, bare |-> bare, copied |-> copied]
  <2>1. a = [[l EXCEPT !.blocks = SubSeq(l.blocks, 1, 0)] EXCEPT !.size = 0]
    BY DEF Cut
  <2>2. QED BY <1>1, <1>2, <2>1
<1>4. Len(Flat(<<>>)) = 0
  BY NoBlocks, EmptySeq
<1> HIDE DEF a, bare, copied
<1>5. IsList(a, Flat(<<>>), bare, copied)
  BY <1>1, <1>3, <1>4, NoBlocks, MadeOf
<1>6. QED BY <1>5, NoBlocks DEF a, bare, copied

LEMMA PopBackIs ==
    ASSUME NEW l, ListOK(l), NEW n \in 1 .. l.size
    PROVE  IsList(PopBack(l, n), SubSeq(Iterated(l), 1, l.size - n), l.bare, l.copied)
<1> DEFINE s == l.blocks
           N == Len(s)
           z == l.size - n
           left(b) == n - (Before(l, N) - Before(l, b))
           T == {b \in 0 .. N : left(b) = 0 \/ SizeOfBlock(l, b - 1) > left(b)}
           kept == Max(T)
           rest == [l EXCEPT !.blocks = SubSeq(@, 1, kept)]
<1>1. /\ Filled(s) /\ l.size \in Nat /\ l.size = Len(Flat(s)) /\ Iterated(l) = Flat(s)
      /\ Flat(s) \in Seq(Items)
  BY ListIs
<1>2. PICK B : Layout(B, s)
  BY <1>1, LaidOut
<1>3. N \in Nat /\ B[N] = l.size /\ B[0] = 0 /\ n \in Nat /\ n >= 1 /\ z \in Nat /\ z < l.size
  <2>1. N \in Nat
    BY <1>1, BlocksAre
  <2>2. B[N] = l.size /\ B[0] = 0
    BY <1>1, <1>2 DEF Layout
  <2> DEFINE size == l.size
  <2>3. n \in 1 .. size /\ size \in Nat
    BY <1>1
  <2> HIDE DEF size
  <2>4. n \in Nat /\ n >= 1 /\ size - n \in Nat /\ size - n < size
    BY <2>3
  <2>5. QED BY <2>1, <2>2, <2>4 DEF size
<1>4. ASSUME NEW b \in 0 .. N
      PROVE  /\ B[b] \in Nat /\ left(b) = B[b] - z
             /\ b > 0 => B[b - 1] \in Nat /\ SizeOfBlock(l, b - 1) = B[b] - B[b - 1]
                         /\ B[b - 1] < B[b]
             /\ b = 0 => B[b] = 0 /\ SizeOfBlock(l, b - 1) = 0
  <2>1. Before(l, b) = B[b] /\ Before(l, N) = B[N]
    <3>1. N \in 0 .. N
      BY <1>3
    <3>2. QED BY <1>1, <1>2, <3>1, BeforeIs
  <2>2. B[b] \in Nat
    BY <1>1, <1>2, Grows
  <2>3. left(b) = B[b] - z
    BY <1>1, <1>3, <2>1, <2>2
  <2>4. ASSUME b > 0
        PROVE  B[b - 1] \in Nat /\ SizeOfBlock(l, b - 1) = B[b] - B[b - 1] /\ B[b - 1] < B[b]
    <3>1. b - 1 \in 0 .. N - 1 /\ b - 1 \in 0 .. N /\ b - 1 \in 0 .. b - 1 /\ (b - 1) + 1 = b
      BY <1>3, <2>4
    <3>2. B[b - 1] \in Nat /\ B[b - 1] < B[b]
      BY <1>1, <1>2, <3>1, Grows
    <3>3. SizeOfBlock(l, b - 1) = B[b] - B[b - 1]
      BY <1>1, <1>2, <3>1, SizesOfBlocks
    <3>4. QED BY <3>2, <3>3
  <2>5. ASSUME b = 0 PROVE B[b] = 0 /\ SizeOfBlock(l, b - 1) = 0
    <3>1. b - 1 = -1
      BY <2>5
    <3>2. QED BY <1>1, <1>2, <1>3, <2>5, <3>1, SizesOfBlocks
  <2>6. QED BY <2>2, <2>3, <2>4, <2>5
<1>5. \A b \in T : b \in 0 .. N /\ (b = 0 \/ B[b] = z \/ (b > 0 /\ B[b - 1] < z))
  <2> HIDE DEF left, z
  <2>1. SUFFICES ASSUME NEW b \in 0 .. N, left(b) = 0 \/ SizeOfBlock(l, b - 1) > left(b)
                 PROVE  b = 0 \/ B[b] = z \/ (b > 0 /\ B[b - 1] < z)
    OBVIOUS
  <2>2. CASE b > 0
    <3> DEFINE x == B[b - 1]
               y == B[b]
    <3>1. x \in Nat /\ y \in Nat /\ left(b) = y - z /\ SizeOfBlock(l, b - 1) = y - x
      BY <1>4, <2>2
    <3> HIDE DEF x, y
    <3>2. y = z \/ x < z
      BY <1>3, <2>1, <3>1
    <3>3. QED BY <2>2, <3>2 DEF x, y
  <2>3. QED BY <2>2
<1>6. T \subseteq 0 .. N
  OBVIOUS
<1>7. PopBack(l, n) = [(IF left(kept) = 0 THEN rest ELSE DropItems(rest, left(kept)))
                          EXCEPT !.size = @ - n]
  BY DEF PopBack, PopBackBlocks
<1>8. CASE z = 0
  <2>1. 0 \in T
    <3>1. 0 \in 0 .. N
      BY <1>3
    <3>2. left(0) = 0
      BY <1>3, <1>4, <1>8, <3>1
    <3> HIDE DEF left
    <3>3. QED BY <3>1, <3>2
  <2>2. \A b \in T : b = 0
    <3> SUFFICES ASSUME NEW b \in T, b # 0 PROVE FALSE
      OBVIOUS
    <3>1. b \in 0 .. N /\ b > 0 /\ (B[b] = 0 \/ B[b - 1] < 0)
      BY <1>5, <1>8
    <3>2. B[b] \in Nat /\ B[b - 1] \in Nat /\ B[b - 1] < B[b]
      BY <1>4, <3>1
    <3>3. QED BY <3>1, <3>2
  <2>3. kept = 0
    <3> HIDE DEF T
    <3>1. kept \in T
      BY <1>3, <1>6, <2>1, MaxIs
    <3>2. QED BY <2>2, <3>1
  <2>4. left(kept) = 0
    <3>1. 0 \in 0 .. N
      BY <1>3
    <3>2. left(0) = 0
      BY <1>3, <1>4, <1>8, <3>1
    <3> HIDE DEF left, kept
    <3>3. QED BY <2>3, <3>2
  <2> HIDE DEF left, kept
  <2>5. PopBack(l, n) = [[l EXCEPT !.blocks = SubSeq(l.blocks, 1, 0)] EXCEPT !.size = 0]
    <3>1. PopBack(l, n) = [rest EXCEPT !.size = @ - n]
      BY <1>7, <2>4
    <3>2. rest.size - n = 0
      <4>1. rest.size = l.size
        <5>1. DOMAIN l = {"blocks", "size", "bare", "copied"}
          BY ListIs
        <5>2. QED BY <5>1
      <4>2. QED BY <1>8, <4>1
    <3>3. QED BY <2>3, <3>1, <3>2
  <2>6. PopBack(l, n) = Cut(l, 0, 0, 0)
    BY <2>5 DEF Cut
  <2>7. SubSeq(Iterated(l), 1, z) = <<>>
    BY <1>1, <1>8
  <2>8. QED BY <2>6, <2>7, NothingLeft
<1>9. CASE z # 0
  <2>1. z - 1 \in Nat /\ z - 1 < Len(Flat(s))
    BY <1>1, <1>3, <1>9
  <2>2. PICK k \in 1 .. N : B[k - 1] <= z - 1 /\ z - 1 < B[k]
    BY <1>1, <1>2, <2>1, Located
  <2>3. /\ k \in 0 .. N /\ k > 0 /\ B[k - 1] \in Nat /\ B[k] \in Nat
        /\ B[k - 1] < z /\ z <= B[k] /\ left(k) = B[k] - z
        /\ SizeOfBlock(l, k - 1) = B[k] - B[k - 1]
    <3>1. k \in 0 .. N /\ k > 0
      BY <1>3
    <3>2. /\ B[k - 1] \in Nat /\ B[k] \in Nat /\ left(k) = B[k] - z
          /\ SizeOfBlock(l, k - 1) = B[k] - B[k - 1]
      BY <1>4, <3>1
    <3> HIDE DEF left, z
    <3>3. B[k - 1] < z /\ z <= B[k]
      BY <1>3, <2>2, <3>2
    <3>4. QED BY <3>1, <3>2, <3>3
  <2>4. k \in T
    <3> HIDE DEF left, z
    <3>1. SizeOfBlock(l, k - 1) > left(k)
      BY <1>3, <2>3
    <3>2. QED BY <2>3, <3>1
  <2>5. \A b \in T : b <= k
    <3> SUFFICES ASSUME NEW b \in T, ~(b <= k) PROVE FALSE
      OBVIOUS
    <3>1. b \in 0 .. N /\ b # 0 /\ (B[b] = z \/ B[b - 1] < z) /\ b > 0
      BY <1>5, <2>3
    <3>2. B[b] \in Nat /\ B[b - 1] \in Nat /\ B[b - 1] < B[b]
      BY <1>4, <3>1
    <3>3. k \in 0 .. b - 1 /\ b - 1 \in 0 .. N
      BY <1>3, <2>3, <3>1
    <3>4. B[k] <= B[b - 1]
      BY <1>1, <1>2, <3>3, Grows
    <3> HIDE DEF z
    <3>5. QED BY <1>3, <2>3, <3>1, <3>2, <3>4
  <2>6. kept = k
    <3> HIDE DEF T
    <3>1. kept \in T /\ \A b \in T : kept >= b
      BY <1>3, <1>6, <2>4, MaxIs
    <3>2. kept \in 0 .. N
      BY <1>6, <3>1
    <3> HIDE DEF kept
    <3>3. kept <= k /\ kept >= k
      BY <2>4, <2>5, <3>1
    <3>4. QED BY <2>3, <3>2, <3>3
  <2> DEFINE d == left(k)
  <2>7. d = B[k] - z /\ d \in Nat /\ z = B[k] - d /\ d < Len(s[k].items)
    <3>1. B[k] = B[k - 1] + Len(s[k].items)
      BY <1>2 DEF Layout
    <3>2. Len(s[k].items) \in Nat
      BY <1>1, BlocksAre
    <3> DEFINE x == B[k - 1]
               y == B[k]
               len == Len(s[k].items)
    <3>3. x \in Nat /\ y \in Nat /\ x < z /\ z <= y /\ d = y - z /\ y = x + len /\ len \in Nat
      BY <2>3, <3>1, <3>2
    <3> HIDE DEF x, y, len, d, z
    <3>4. d = y - z /\ d \in Nat /\ z = y - d /\ d < len
      BY <1>3, <3>3
    <3>5. QED BY <3>4 DEF y, len
  <2>8. PopBack(l, n) = Cut(l, k, d, z)
    <3> DEFINE c == [l EXCEPT !.blocks = SubSeq(@, 1, k)]
               p == IF d = 0 THEN c ELSE DropItems(c, d)
    <3>1. PopBack(l, n) = [p EXCEPT !.size = @ - n]
      <4> HIDE DEF left, kept
      <4>1. QED BY <1>7, <2>6
    <3>2. p.size = l.size
      <4>1. DOMAIN l = {"blocks", "size", "bare", "copied"}
        BY ListIs
      <4> HIDE DEF d
      <4>2. QED BY <4>1 DEF DropItems
    <3>3. Cut(l, k, d, z) = [p EXCEPT !.size = z]
      BY DEF Cut
    <3> HIDE DEF p
    <3>4. QED BY <3>1, <3>2, <3>3
  <2> HIDE DEF d, z
  <2>9. IsList(Cut(l, k, d, z), SubSeq(Iterated(l), 1, z), l.bare, l.copied)
    BY <1>2, <2>7, CutIs
  <2>10. QED BY <2>8, <2>9 DEF z
<1>10. QED BY <1>8, <1>9

(* The last step of pop: one element less.                                 *)
LastDropped(l) ==
    [(IF Len(Last(l.blocks).items) = 1 THEN DropBlock(l) ELSE DropItems(l, 1)) EXCEPT !.size = @ - 1]

LEMMA LastDroppedIs ==
    ASSUME NEW l, ListOK(l), l.size > 0
    PROVE  IsList(LastDropped(l), SubSeq(Iterated(l), 1, l.size - 1), l.bare, l.copied)
<1> DEFINE s == l.blocks
           n == Len(s)
           z == l.size - 1
<1>1. /\ Filled(s) /\ l.size \in Nat /\ l.size = Len(Flat(s)) /\ Iterated(l) = Flat(s)
      /\ Flat(s) \in Seq(Items) /\ s \in Seq(BlockType)
      /\ DOMAIN l = {"blocks", "size", "bare", "copied"}
      /\ l = [blocks |-> l.blocks, size |-> l.size, bare |-> l.bare, copied |-> l.copied]
  BY ListIs, BlocksAre
<1>2. PICK B : Layout(B, s)
  BY <1>1, LaidOut
<1>3. n \in Nat /\ B[n] = l.size /\ B[0] = 0 /\ n # 0 /\ z \in Nat
  <2>1. n \in Nat
    BY <1>1, BlocksAre
  <2>2. B[n] = l.size /\ B[0] = 0
    BY <1>1, <1>2 DEF Layout
  <2>3. n # 0
    BY <2>2
  <2>4. QED BY <1>1, <2>1, <2>2, <2>3
<1>4. /\ n \in 1 .. n /\ n - 1 \in 0 .. n /\ n \in 0 .. n /\ n - 1 \in 0 .. n - 1
      /\ (n - 1 = 0 \/ n - 1 \in 1 .. n)
  <2>1. n \in Nat /\ n # 0
    BY <1>3
  <2> HIDE DEF n
  <2>2. QED BY <2>1
<1>5. B[n] = B[n - 1] + Len(s[n].items) /\ Len(s[n].items) \in Nat /\ Len(s[n].items) > 0
      /\ B[n - 1] \in Nat
  <2>1. B[n] = B[n - 1] + Len(s[n].items)
    BY <1>2, <1>4 DEF Layout
  <2>2. Len(s[n].items) \in Nat /\ Len(s[n].items) > 0
    BY <1>1, <1>4, BlocksAre
  <2>3. B[n - 1] \in Nat
    BY <1>1, <1>2, <1>4, Grows
  <2>4. QED BY <2>1, <2>2, <2>3
<1>6. Last(s) = s[n]
  BY DEF Last
<1>7. CASE Len(s[n].items) = 1
  <2>1. LastDropped(l) = [[l EXCEPT !.blocks = SubSeq(l.blocks, 1, n - 1)] EXCEPT !.size = z]
    <3>1. LastDropped(l) = [DropBlock(l) EXCEPT !.size = @ - 1]
      BY <1>6, <1>7 DEF LastDropped
    <3>2. DropBlock(l) = [l EXCEPT !.blocks = SubSeq(l.blocks, 1, n - 1)]
      BY DEF DropBlock, Front
    <3>3. DropBlock(l).size = l.size
      BY <1>1 DEF DropBlock
    <3>4. QED BY <3>1, <3>2, <3>3
  <2>2. B[n - 1] = z
    BY <1>3, <1>5, <1>7
  <2>3. LastDropped(l) = Cut(l, n - 1, 0, z)
    BY <2>1 DEF Cut
  <2>4. CASE n - 1 = 0
    <3>1. z = 0
      BY <1>3, <2>2, <2>4
    <3>2. LastDropped(l) = Cut(l, 0, 0, 0)
      BY <2>3, <2>4, <3>1
    <3>3. SubSeq(Iterated(l), 1, z) = <<>>
      <4> DEFINE f == Iterated(l)
      <4>1. f \in Seq(Items)
        BY <1>1
      <4> HIDE DEF f
      <4>2. SubSeq(f, 1, 0) = <<>>
        BY <4>1
      <4>3. QED BY <3>1, <4>2 DEF f
    <3>4. QED BY <3>2, <3>3, NothingLeft
  <2>5. CASE n - 1 # 0
    <3> DEFINE k == n - 1
    <3>1. k \in 1 .. Len(l.blocks)
      BY <1>4, <2>5
    <3>2. 0 < Len(l.blocks[k].items) /\ 0 \in Nat
      <4>1. k \in 1 .. Len(s)
        BY <3>1
      <4> HIDE DEF k
      <4>2. QED BY <1>1, <4>1, BlocksAre
    <3>3. z = B[k] - 0
      BY <1>3, <2>2
    <3>4. LastDropped(l) = Cut(l, k, 0, z)
      BY <2>3
    <3> HIDE DEF k, z
    <3>5. IsList(Cut(l, k, 0, z), SubSeq(Iterated(l), 1, z), l.bare, l.copied)
      BY <1>2, <3>1, <3>2, <3>3, CutIs
    <3>6. QED BY <3>4, <3>5 DEF z
  <2>6. QED BY <2>4, <2>5
<1>8. CASE Len(s[n].items) # 1
  <2>1. SubSeq(l.blocks, 1, n) = l.blocks
    BY <1>1, SubSeqFull
  <2>2. [l EXCEPT !.blocks = SubSeq(l.blocks, 1, n)] = l
    <3> DEFINE t == SubSeq(l.blocks, 1, n)
    <3>1. t = l.blocks
      BY <2>1
    <3> DEFINE u == l.blocks
               size == l.size
               bare == l.bare
               copied == l.copied
    <3>2. l = [blocks |-> u, size |-> size, bare |-> bare, copied |-> copied]
      BY ListIs
    <3> HIDE DEF t, u, size, bare, copied
    <3>3. t = u
      BY <3>1 DEF u
    <3>4. [l EXCEPT !.blocks = t] = l
      BY <3>2, <3>3
    <3>5. QED BY <3>4 DEF t
  <2>3. Cut(l, n, 1, z)
            = [DropItems([l EXCEPT !.blocks = SubSeq(l.blocks, 1, n)], 1) EXCEPT !.size = z]
    BY DEF Cut
  <2>4. LastDropped(l) = [DropItems(l, 1) EXCEPT !.size = @ - 1]
    BY <1>6, <1>8 DEF LastDropped
  <2>5. DropItems(l, 1).size = l.size
    BY <1>1 DEF DropItems
  <2>6. LastDropped(l) = Cut(l, n, 1, z)
    BY <2>2, <2>3, <2>4, <2>5
  <2>7. 1 \in Nat /\ 1 < Len(l.blocks[n].items) /\ z = B[n] - 1 /\ n \in 1 .. Len(l.blocks)
    <3> DEFINE len == Len(s[n].items)
    <3>1. len \in Nat /\ len > 0 /\ len # 1
      BY <1>5, <1>8
    <3> HIDE DEF len
    <3>2. 1 < len
      BY <3>1
    <3>3. z = B[n] - 1
      BY <1>3
    <3>4. QED BY <1>4, <3>2, <3>3 DEF len
  <2> HIDE DEF n, z
  <2>8. IsList(Cut(l, n, 1, z), SubSeq(Iterated(l), 1, z), l.bare, l.copied)
    BY <1>2, <2>7, CutIs
  <2>9. QED BY <2>6, <2>8 DEF z
<1>9. QED BY <1>7, <1>8

-----------------------------------------------------------------------------
(* Elements that change places.                                            *)

(* An index whose place is inside the blocks finds an element.             *)
LEMMA InsideIs ==
    ASSUME NEW l, Filled(l.blocks), NEW i, Inside(l, i)
    PROVE  ItemAt(l, i) \in Items
<1> DEFINE s == l.blocks
           b == GetBlockIndex(l, i)
           U == {c \in 0 .. BackBlockIndex(l) : i + 1 <= (Exp2(c + 1) - 1) * BaseSize}
                \cup {Max({BackBlockIndex(l), 0})}
           p == Slot(l, i)
<1>1. Len(s) \in Nat
  BY BlocksAre
<1>2. Max({BackBlockIndex(l), 0}) \in Nat
  <2> DEFINE m == BackBlockIndex(l)
             T == {m, 0}
  <2>1. m \in Int
    BY <1>1 DEF BackBlockIndex
  <2>2. m \in {-1} \cup Nat
    BY <1>1 DEF BackBlockIndex
  <2> HIDE DEF m
  <2>3. CASE m = -1
    <3>1. 0 \in T /\ \A y \in T : 0 >= y
      BY <2>3
    <3>2. \A x \in T : x = -1 \/ x = 0
      BY <2>3
    <3> HIDE DEF T
    <3>3. Max(T) \in T /\ \A y \in T : Max(T) >= y
      BY <3>1 DEF Max
    <3>4. Max(T) >= 0 /\ (Max(T) = -1 \/ Max(T) = 0)
      BY <3>1, <3>2, <3>3
    <3>5. Max(T) \in Nat
      BY <3>4
    <3>6. QED BY <3>5 DEF T, m
  <2>4. CASE m \in Nat
    <3>1. T \subseteq 0 .. m /\ T # {}
      BY <2>4
    <3> HIDE DEF T
    <3>2. Max(T) \in T
      BY <2>4, <3>1, MaxIs
    <3>3. Max(T) \in 0 .. m
      BY <3>1, <3>2
    <3>4. Max(T) \in Nat
      BY <3>3
    <3>5. QED BY <3>4 DEF T, m
  <2>5. QED BY <2>2, <2>3, <2>4 DEF m
<1>3. b \in Nat
  <2>1. U \subseteq Nat /\ U # {}
    BY <1>2
  <2>2. b = Min(U)
    BY DEF GetBlockIndex
  <2> HIDE DEF U, b
  <2>3. QED BY <2>1, <2>2, MinIs
<1>4. p[1] = b + 1 /\ p[1] <= Len(s) /\ p[2] \in DOMAIN s[p[1]].items
  BY DEF Slot, Inside
<1> HIDE DEF b, p
<1>5. p[1] \in 1 .. Len(s)
  BY <1>1, <1>3, <1>4
<1>6. s[p[1]].items \in Seq(Items) /\ DOMAIN s[p[1]].items = 1 .. Len(s[p[1]].items)
  <2>1. s[p[1]].items \in Seq(Items)
    BY <1>5, BlocksAre
  <2>2. QED BY <2>1
<1>7. s[p[1]].items[p[2]] \in Items
  BY <1>4, <1>6, ElementOfSeq
<1>8. QED BY <1>7 DEF ItemAt, p

Placed(l, first, k, j) == {i \in first .. l.size - 1 : Slot(l, i) = <<k, j>>}

Moved(l, first, f, k, j) ==
    IF Placed(l, first, k, j) = {} THEN l.blocks[k].items[j]
    ELSE f[CHOOSE i \in Placed(l, first, k, j) : TRUE]

(* What WithItems leaves as it is.                                         *)
Reshaped(r, l, first, f) ==
    /\ r \in Seq(BlockType) /\ Len(r) = Len(l.blocks)
    /\ \A k \in 1 .. Len(l.blocks) :
         /\ r[k].capacity = l.blocks[k].capacity
         /\ Len(r[k].items) = Len(l.blocks[k].items)
         /\ \A j \in 1 .. Len(l.blocks[k].items) : r[k].items[j] = Moved(l, first, f, k, j)

LEMMA WithItemsIs ==
    ASSUME NEW l, ListOK(l), NEW first, NEW f,
           \A i \in first .. l.size - 1 : Inside(l, i) => f[i] \in Items
    PROVE  \E r : /\ Reshaped(r, l, first, f)
                  /\ WithItems(l, first, f)
                         = [blocks |-> r, size |-> l.size, bare |-> l.bare, copied |-> l.copied]
<1> DEFINE s == l.blocks
           n == Len(s)
           row(k) == [j \in DOMAIN s[k].items |-> Moved(l, first, f, k, j)]
           r == [k \in DOMAIN s |-> [s[k] EXCEPT !.items = row(k)]]
<1>1. /\ l = [blocks |-> l.blocks, size |-> l.size, bare |-> l.bare, copied |-> l.copied]
      /\ Filled(s) /\ n \in Nat /\ DOMAIN s = 1 .. n
  BY ListIs, BlocksAre
<1>2. ASSUME NEW k \in 1 .. n
      PROVE  /\ s[k] = [items |-> s[k].items, capacity |-> s[k].capacity]
             /\ s[k].items \in Seq(Items) /\ s[k].capacity \in Nat
             /\ Len(s[k].items) \in Nat /\ DOMAIN s[k].items = 1 .. Len(s[k].items)
  <2>1. /\ s[k] = [items |-> s[k].items, capacity |-> s[k].capacity]
        /\ s[k].items \in Seq(Items) /\ s[k].capacity \in Nat /\ Len(s[k].items) \in Nat
    BY <1>1, BlocksAre
  <2>2. QED BY <2>1
<1>3. ASSUME NEW k \in 1 .. n, NEW j \in 1 .. Len(s[k].items)
      PROVE  Moved(l, first, f, k, j) \in Items
  <2>1. CASE Placed(l, first, k, j) = {}
    <3>1. s[k].items[j] \in Items
      BY <1>2, ElementOfSeq
    <3>2. QED BY <2>1, <3>1 DEF Moved
  <2>2. CASE Placed(l, first, k, j) # {}
    <3> DEFINE i == CHOOSE i \in Placed(l, first, k, j) : TRUE
    <3>1. i \in Placed(l, first, k, j)
      BY <2>2
    <3> HIDE DEF i
    <3>2. i \in first .. l.size - 1 /\ Slot(l, i) = <<k, j>>
      BY <3>1 DEF Placed
    <3>3. Inside(l, i)
      <4>1. Slot(l, i)[1] = k /\ Slot(l, i)[2] = j
        BY <3>2
      <4>2. k <= n /\ j \in DOMAIN s[k].items
        BY <1>1, <1>2
      <4>3. QED BY <4>1, <4>2 DEF Inside
    <3>4. f[i] \in Items
      BY <3>2, <3>3
    <3>5. QED BY <2>2, <3>4 DEF Moved, i
  <2>3. QED BY <2>1, <2>2
<1>4. WithItems(l, first, f)
          = [blocks |-> r, size |-> l.size, bare |-> l.bare, copied |-> l.copied]
  <2>1. WithItems(l, first, f) = [l EXCEPT !.blocks = r]
    BY DEF WithItems, Moved, Placed
  <2> HIDE DEF r
  <2>2. QED BY <1>1, <2>1
<1>5. ASSUME NEW k \in 1 .. n
      PROVE  /\ r[k] = [items |-> row(k), capacity |-> s[k].capacity]
             /\ row(k) \in Seq(Items) /\ Len(row(k)) = Len(s[k].items)
             /\ \A j \in 1 .. Len(s[k].items) : row(k)[j] = Moved(l, first, f, k, j)
  <2> DEFINE len == Len(s[k].items)
             v == row(k)
             b == s[k]
  <2>1. /\ v = [j \in 1 .. len |-> Moved(l, first, f, k, j)] /\ len \in Nat
        /\ \A j \in 1 .. len : Moved(l, first, f, k, j) \in Items
    BY <1>2, <1>3
  <2>2. r[k] = [b EXCEPT !.items = v]
    BY <1>1
  <2>3. b = [items |-> s[k].items, capacity |-> s[k].capacity]
    BY <1>2
  <2> HIDE DEF len, v, b, r
  <2>4. /\ v \in Seq(Items) /\ Len(v) = len
        /\ \A j \in 1 .. len : v[j] = Moved(l, first, f, k, j)
    BY <2>1
  <2>5. r[k] = [items |-> v, capacity |-> s[k].capacity]
    BY <2>2, <2>3
  <2>6. QED BY <2>4, <2>5 DEF v, len
<1>6. r \in Seq(BlockType) /\ Len(r) = n
  <2>1. ASSUME NEW k \in 1 .. n PROVE r[k] \in BlockType
    <3> DEFINE v == row(k)
    <3>1. r[k] = [items |-> v, capacity |-> s[k].capacity] /\ v \in Seq(Items)
          /\ s[k].capacity \in Nat
      BY <1>2, <1>5
    <3> HIDE DEF v, r
    <3>2. QED BY <3>1 DEF BlockType
  <2>2. r = [k \in 1 .. n |-> r[k]]
    BY <1>1
  <2> HIDE DEF r, n
  <2>3. QED BY <1>1, <2>1, <2>2
<1>7. Reshaped(r, l, first, f)
  <2> HIDE DEF r, row
  <2>1. ASSUME NEW k \in 1 .. n
        PROVE  /\ r[k].capacity = s[k].capacity
               /\ Len(r[k].items) = Len(s[k].items)
               /\ \A j \in 1 .. Len(s[k].items) : r[k].items[j] = Moved(l, first, f, k, j)
    <3> DEFINE v == row(k)
    <3>1. /\ r[k] = [items |-> v, capacity |-> s[k].capacity]
          /\ Len(v) = Len(s[k].items)
          /\ \A j \in 1 .. Len(s[k].items) : v[j] = Moved(l, first, f, k, j)
      BY <1>5
    <3> HIDE DEF v
    <3>2. r[k].items = v /\ r[k].capacity = s[k].capacity
      BY <3>1
    <3>3. QED BY <3>1, <3>2
  <2>2. QED BY <1>6, <2>1 DEF Reshaped
<1>8. QED BY <1>4, <1>7

LEMMA ReshapedIs ==
    ASSUME NEW l, ListOK(l), NEW first, NEW f, NEW r, Reshaped(r, l, first, f),
           NEW a, a = [blocks |-> r, size |-> l.size, bare |-> l.bare, copied |-> l.copied]
    PROVE  /\ Filled(r) /\ Len(Flat(r)) = l.size
           /\ IsList(a, Flat(r), l.bare, l.copied)
<1> DEFINE s == l.blocks
           n == Len(s)
<1>1. /\ Filled(s) /\ (l.copied \/ Doubling(s)) /\ (l.bare => s = <<>>)
      /\ l.bare \in BOOLEAN /\ l.copied \in BOOLEAN /\ l.size = Len(Flat(s))
  BY ListIs
<1>2. /\ n \in Nat
      /\ \A k \in 1 .. n : /\ Len(s[k].items) \in Nat /\ Len(s[k].items) > 0
                           /\ s[k].capacity \in Nat
                           /\ Len(s[k].items) <= s[k].capacity
                           /\ k < n => Len(s[k].items) = s[k].capacity
  <2> HIDE DEF s
  <2>1. QED BY <1>1, BlocksAre
<1>3. /\ r \in Seq(BlockType) /\ Len(r) = n
      /\ \A k \in 1 .. n : /\ r[k].capacity = s[k].capacity
                           /\ Len(r[k].items) = Len(s[k].items)
  BY DEF Reshaped
<1> HIDE DEF s, n
<1>4. Filled(r)
  <2>1. ASSUME NEW k \in 1 .. n
        PROVE  /\ Len(r[k].items) \in 1 .. r[k].capacity
               /\ k < n => Len(r[k].items) = r[k].capacity
    <3>1. Len(s[k].items) \in 1 .. s[k].capacity
      BY <1>2
    <3>2. QED BY <1>2, <1>3, <3>1
  <2>2. QED BY <1>3, <2>1 DEF Filled
<1>5. l.copied \/ Doubling(r)
  <2>1. SUFFICES ASSUME Doubling(s), NEW k \in 1 .. n
                 PROVE  r[k].capacity = BaseSize * Exp2(k - 1)
    BY <1>1, <1>3 DEF Doubling
  <2>2. QED BY <1>3, <2>1 DEF Doubling, n
<1>6. Len(Flat(r)) = l.size
  <2>1. PICK B : Layout(B, s)
    BY <1>1, LaidOut
  <2>2. PICK C : Layout(C, r)
    BY <1>4, LaidOut
  <2>3. n \in Nat /\ n <= Len(s) /\ n <= Len(r)
    BY <1>2, <1>3 DEF n
  <2>4. \A k \in 0 .. n : C[k] = B[k]
    <3>1. Filled(s) /\ \A k \in 1 .. n : Len(r[k].items) = Len(s[k].items)
      BY <1>1, <1>3
    <3>2. QED BY <1>4, <2>1, <2>2, <2>3, <3>1, SamePlaces
  <2>5. n \in 0 .. n
    BY <1>2
  <2>6. C[n] = Len(Flat(r)) /\ B[n] = Len(Flat(s))
    BY <1>3, <2>1, <2>2 DEF Layout, n
  <2>7. QED BY <1>1, <2>4, <2>5, <2>6
<1>7. l.bare => r = <<>>
  <2>1. SUFFICES ASSUME l.bare PROVE r = <<>>
    OBVIOUS
  <2>2. n = 0
    BY <1>1, <2>1, EmptySeq DEF n
  <2>3. QED BY <1>3, <2>2, EmptySeq
<1>8. IsList(a, Flat(r), l.bare, l.copied)
  <2> DEFINE bare == l.bare
             copied == l.copied
             size == l.size
  <2>1. /\ bare \in BOOLEAN /\ copied \in BOOLEAN /\ (copied \/ Doubling(r))
        /\ (bare => r = <<>>) /\ size = Len(Flat(r))
        /\ a = [blocks |-> r, size |-> size, bare |-> bare, copied |-> copied]
    BY <1>1, <1>5, <1>6, <1>7
  <2> HIDE DEF bare, copied, size
  <2>2. IsList(a, Flat(r), bare, copied)
    BY <1>4, <2>1, MadeOf
  <2>3. QED BY <2>2 DEF bare, copied
<1>9. QED BY <1>4, <1>6, <1>8

(* If no block was copied, the elements from first on are those of f.      *)
LEMMA ReshapedAt ==
    ASSUME NEW l, ListOK(l), ~l.copied, NEW first \in Nat, NEW f, NEW r, Reshaped(r, l, first, f),
           NEW p \in 1 .. l.size
    PROVE  Flat(r)[p] = IF first <= p - 1 THEN f[p - 1] ELSE Iterated(l)[p]
<1> DEFINE s == l.blocks
           n == Len(s)
           q == p - 1
<1>1. /\ Filled(s) /\ Doubling(s) /\ l.size \in Nat /\ l.size = Len(Flat(s))
      /\ Iterated(l) = Flat(s)
  BY ListIs
<1>2. Filled(r)
  <2> DEFINE a == [blocks |-> r, size |-> l.size, bare |-> l.bare, copied |-> l.copied]
  <2>1. a = [blocks |-> r, size |-> l.size, bare |-> l.bare, copied |-> l.copied]
    OBVIOUS
  <2> HIDE DEF a
  <2>2. QED BY <2>1, ReshapedIs
<1>3. PICK B : Layout(B, s)
  BY <1>1, LaidOut
<1>4. PICK C : Layout(C, r)
  BY <1>2, LaidOut
<1>5. p \in Nat /\ q \in Nat /\ q < Len(Flat(s)) /\ q + 1 = p /\ q <= l.size - 1
  BY <1>1
<1> HIDE DEF q
<1>6. PICK k \in 1 .. n : B[k - 1] <= q /\ q < B[k]
  BY <1>1, <1>3, <1>5, Located
<1>7. /\ n \in Nat /\ k - 1 \in 0 .. n /\ B[k - 1] \in Nat
      /\ B[k] = B[k - 1] + Len(s[k].items) /\ Len(s[k].items) \in Nat
  <2>1. n \in Nat /\ Len(s[k].items) \in Nat
    BY <1>1, BlocksAre
  <2>2. k - 1 \in 0 .. n
    BY <2>1
  <2>3. B[k - 1] \in Nat
    BY <1>1, <1>3, <2>2, Grows
  <2>4. B[k] = B[k - 1] + Len(s[k].items)
    BY <1>3 DEF Layout
  <2>5. QED BY <2>1, <2>2, <2>3, <2>4
<1> DEFINE j == q - B[k - 1] + 1
<1>8. j \in 1 .. Len(s[k].items) /\ B[k - 1] + j = p
  <2> DEFINE x == B[k - 1]
             y == B[k]
             len == Len(s[k].items)
  <2>1. x \in Nat /\ len \in Nat /\ y = x + len /\ x <= q /\ q < y /\ j = q - x + 1
    BY <1>6, <1>7
  <2> HIDE DEF x, y, len, j
  <2>2. j \in 1 .. len /\ x + j = q + 1
    BY <1>5, <2>1
  <2>3. QED BY <1>5, <2>2 DEF x, len
<1>9. C[k - 1] = B[k - 1] /\ k \in 1 .. Len(r) /\ j \in 1 .. Len(r[k].items)
      /\ r[k].items[j] = Moved(l, first, f, k, j)
  <2>1. /\ Len(r) = n
        /\ \A i \in 1 .. n : Len(r[i].items) = Len(s[i].items)
        /\ \A i \in 1 .. Len(s[k].items) : r[k].items[i] = Moved(l, first, f, k, i)
    BY DEF Reshaped
  <2>2. n <= Len(s) /\ n <= Len(r)
    BY <1>7, <2>1
  <2>3. \A i \in 0 .. n : C[i] = B[i]
    <3>1. Filled(s) /\ n \in Nat /\ \A i \in 1 .. n : Len(r[i].items) = Len(s[i].items)
      BY <1>1, <1>7, <2>1
    <3> HIDE DEF n, s
    <3>2. QED BY <1>2, <1>3, <1>4, <2>2, <3>1, SamePlaces
  <2> HIDE DEF j
  <2>4. QED BY <1>7, <1>8, <2>1, <2>3
<1>10. Flat(r)[p] = Moved(l, first, f, k, j) /\ Flat(s)[p] = s[k].items[j]
  <2> HIDE DEF j
  <2>1. Flat(r)[C[k - 1] + j] = r[k].items[j]
    BY <1>4, <1>9 DEF Layout
  <2>2. Flat(s)[B[k - 1] + j] = s[k].items[j]
    BY <1>3, <1>8 DEF Layout
  <2>3. QED BY <1>8, <1>9, <2>1, <2>2
<1>11. Slot(l, q) = <<k, j>>
  BY <1>1, <1>3, <1>5, <1>6, SlotIs
<1>12. ASSUME NEW i \in first .. l.size - 1, Slot(l, i) = <<k, j>> PROVE i = q
  <2>1. i \in Nat /\ i < Len(Flat(s))
    BY <1>1
  <2>2. PICK c \in 1 .. n : B[c - 1] <= i /\ i < B[c]
    BY <1>1, <1>3, <2>1, Located
  <2>3. Slot(l, i) = <<c, i - B[c - 1] + 1>>
    BY <1>1, <1>3, <2>1, <2>2, SlotIs
  <2>4. c = k /\ i - B[c - 1] + 1 = j
    <3> DEFINE u == i - B[c - 1] + 1
    <3>1. <<c, u>> = <<k, j>>
      BY <1>12, <2>3
    <3> HIDE DEF u, j
    <3>2. c = k /\ u = j
      BY <3>1
    <3>3. QED BY <3>2 DEF u
  <2>5. i - B[k - 1] + 1 = q - B[k - 1] + 1
    BY <2>4
  <2>6. QED BY <1>5, <1>7, <2>1, <2>5
<1>13. \A i \in Placed(l, first, k, j) : i = q
  <2> HIDE DEF j, q
  <2>1. QED BY <1>12 DEF Placed
<1>14. CASE first <= q
  <2>1. q \in first .. l.size - 1
    BY <1>1, <1>5, <1>14
  <2>2. q \in Placed(l, first, k, j)
    BY <1>11, <2>1 DEF Placed
  <2> DEFINE T == Placed(l, first, k, j)
             v == CHOOSE i \in T : TRUE
  <2> HIDE DEF T
  <2>3. q \in T /\ \A i \in T : i = q
    BY <1>13, <2>2 DEF T
  <2>4. v \in T /\ T # {}
    BY <2>3
  <2>5. v = q
    BY <2>3, <2>4
  <2> HIDE DEF j
  <2>6. Moved(l, first, f, k, j) = f[q]
    BY <2>4, <2>5 DEF Moved, T
  <2>7. QED BY <1>10, <1>14, <2>6 DEF q
<1>15. CASE ~(first <= q)
  <2>1. Placed(l, first, k, j) = {}
    <3> SUFFICES ASSUME NEW i \in Placed(l, first, k, j) PROVE FALSE
      OBVIOUS
    <3>1. i = q
      BY <1>13
    <3>2. i \in first .. l.size - 1
      BY DEF Placed
    <3>3. first <= i
      BY <1>1, <3>2
    <3>4. QED BY <1>15, <3>1, <3>3
  <2> HIDE DEF j
  <2>2. Moved(l, first, f, k, j) = s[k].items[j]
    BY <2>1 DEF Moved
  <2>3. QED BY <1>1, <1>10, <1>15, <2>2 DEF q
<1>16. QED BY <1>14, <1>15

InsertedAt(r, s, n, i, e) ==
    /\ Len(r) = n + 1
    /\ \A p \in 1 .. n + 1 : r[p] = IF p < i THEN s[p] ELSE IF p = i THEN e ELSE s[p - 1]

RemovedAt(r, s, n, i) ==
    /\ Len(r) = n - 1
    /\ \A p \in 1 .. n - 1 : r[p] = IF p < i THEN s[p] ELSE s[p + 1]

LEMMA InsertAtIs ==
    ASSUME NEW S, NEW s \in Seq(S), NEW e \in S, NEW n \in Nat, n = Len(s), NEW i \in 1 .. n + 1
    PROVE  InsertAt(s, i, e) \in Seq(S) /\ InsertedAt(InsertAt(s, i, e), s, n, i, e)
<1> DEFINE a == SubSeq(s, 1, i - 1)
           b == SubSeq(s, i, n)
           x == Append(a, e)
           t == x \o b
<1>1. n \in Nat
  BY LenProperties
<1>2. /\ a \in Seq(S) /\ Len(a) = i - 1
      /\ \A p \in 1 .. i - 1 : a[p] = s[p]
  BY <1>1, SubSeqProperties
<1>3. /\ b \in Seq(S) /\ Len(b) = n - i + 1
      /\ \A p \in 1 .. n - i + 1 : b[p] = s[i + p - 1]
  <2>1. CASE i <= n
    BY <1>1, <2>1, SubSeqProperties
  <2>2. CASE i = n + 1
    <3>1. b = <<>> /\ n - i + 1 = 0
      BY <1>1, <2>2
    <3>2. QED BY <3>1, EmptySeq
  <2>3. QED BY <1>1, <2>1, <2>2
<1>4. InsertAt(s, i, e) = t
  <2>1. InsertAt(s, i, e) = a \o <<e>> \o b
    BY DEF InsertAt
  <2> HIDE DEF a, b
  <2>2. a \o <<e>> = Append(a, e)
    BY <1>2
  <2>3. QED BY <2>1, <2>2
<1> HIDE DEF a, b
<1>5. /\ x \in Seq(S) /\ Len(x) = i /\ x[i] = e
      /\ \A p \in 1 .. i - 1 : x[p] = a[p]
  <2>1. /\ x \in Seq(S) /\ Len(x) = Len(a) + 1 /\ x[Len(a) + 1] = e
        /\ \A p \in 1 .. Len(a) : x[p] = a[p]
    BY <1>2, AppendProperties
  <2>2. Len(a) + 1 = i
    BY <1>1, <1>2
  <2>3. QED BY <1>2, <2>1, <2>2
<1> HIDE DEF x
<1>6. /\ t \in Seq(S) /\ Len(t) = Len(x) + Len(b)
      /\ \A p \in 1 .. Len(x) : t[p] = x[p]
      /\ \A p \in 1 .. Len(b) : t[Len(x) + p] = b[p]
  <2>1. x \in Seq(S) /\ b \in Seq(S)
    BY <1>3, <1>5
  <2>2. QED BY <2>1, Joins DEF t
<1> HIDE DEF t
<1>7. Len(t) = n + 1
  BY <1>1, <1>3, <1>5, <1>6
<1>8. ASSUME NEW p \in 1 .. n + 1
      PROVE  t[p] = IF p < i THEN s[p] ELSE IF p = i THEN e ELSE s[p - 1]
  <2>1. CASE p < i
    <3>1. p \in 1 .. i - 1 /\ p \in 1 .. i
      BY <1>1, <2>1
    <3>2. QED BY <1>2, <1>5, <1>6, <2>1, <3>1
  <2>2. CASE p = i
    BY <1>1, <1>5, <1>6, <2>2
  <2>3. CASE p > i
    <3> DEFINE q == p - i
    <3>1. q \in 1 .. n - i + 1 /\ i + q = p /\ i + q - 1 = p - 1
      BY <1>1, <2>3
    <3> HIDE DEF q
    <3>2. t[i + q] = b[q] /\ b[q] = s[i + q - 1]
      BY <1>3, <1>5, <1>6, <3>1
    <3>3. ~(p < i) /\ p # i
      BY <1>1, <2>3
    <3>4. QED BY <3>1, <3>2, <3>3
  <2>4. QED BY <1>1, <2>1, <2>2, <2>3
<1>9. InsertedAt(t, s, n, i, e)
  BY <1>7, <1>8 DEF InsertedAt
<1>10. QED BY <1>4, <1>6, <1>9

LEMMA RemoveAtIs ==
    ASSUME NEW S, NEW s \in Seq(S), NEW n \in Nat, n = Len(s), NEW i \in 1 .. n
    PROVE  RemoveAt(s, i) \in Seq(S) /\ RemovedAt(RemoveAt(s, i), s, n, i)
<1> DEFINE a == SubSeq(s, 1, i - 1)
           b == SubSeq(s, i + 1, n)
           t == a \o b
<1>1. n \in Nat
  BY LenProperties
<1>2. /\ a \in Seq(S) /\ Len(a) = i - 1
      /\ \A p \in 1 .. i - 1 : a[p] = s[p]
  BY <1>1, SubSeqProperties
<1>3. /\ b \in Seq(S) /\ Len(b) = n - i
      /\ \A p \in 1 .. n - i : b[p] = s[i + p]
  <2>1. CASE i < n
    <3> DEFINE m == i + 1
    <3>1. m \in 1 .. n + 1 /\ m <= n /\ m \in Nat
      BY <1>1, <2>1
    <3> HIDE DEF m
    <3>2. /\ SubSeq(s, m, n) \in Seq(S) /\ Len(SubSeq(s, m, n)) = n - m + 1
          /\ \A p \in 1 .. n - m + 1 : SubSeq(s, m, n)[p] = s[m + p - 1]
      BY <1>1, <3>1, SubSeqProperties
    <3>3. b = SubSeq(s, m, n) /\ n - m + 1 = n - i
      BY <1>1 DEF m
    <3>4. \A p \in 1 .. n - i : m + p - 1 = i + p
      BY <1>1 DEF m
    <3> HIDE DEF b
    <3>5. QED BY <3>2, <3>3, <3>4
  <2>2. CASE i = n
    <3>1. b = <<>> /\ n - i = 0
      BY <1>1, <2>2
    <3>2. QED BY <3>1, EmptySeq
  <2>3. QED BY <1>1, <2>1, <2>2
<1>4. RemoveAt(s, i) = t
  BY DEF RemoveAt
<1> HIDE DEF a, b
<1>5. /\ t \in Seq(S) /\ Len(t) = Len(a) + Len(b)
      /\ \A p \in 1 .. Len(a) : t[p] = a[p]
      /\ \A p \in 1 .. Len(b) : t[Len(a) + p] = b[p]
  <2>1. a \in Seq(S) /\ b \in Seq(S)
    BY <1>2, <1>3
  <2>2. QED BY <2>1, Joins
<1> HIDE DEF t
<1>6. Len(t) = n - 1
  BY <1>1, <1>2, <1>3, <1>5
<1>7. ASSUME NEW p \in 1 .. n - 1 PROVE t[p] = IF p < i THEN s[p] ELSE s[p + 1]
  <2>1. CASE p < i
    <3>1. p \in 1 .. i - 1
      BY <1>1, <2>1
    <3>2. QED BY <1>2, <1>5, <2>1, <3>1
  <2>2. CASE ~(p < i)
    <3> DEFINE q == p - (i - 1)
    <3>1. q \in 1 .. n - i /\ (i - 1) + q = p /\ i + q = p + 1
      BY <1>1, <2>2
    <3> HIDE DEF q
    <3>2. t[(i - 1) + q] = b[q] /\ b[q] = s[i + q]
      BY <1>2, <1>3, <1>5, <3>1
    <3>3. QED BY <2>2, <3>1, <3>2
  <2>3. QED BY <2>1, <2>2
<1>8. RemovedAt(t, s, n, i)
  BY <1>6, <1>7 DEF RemovedAt
<1>9. QED BY <1>4, <1>5, <1>8

LEMMA SizeIs ==
    ASSUME NEW l, NEW seq, NEW bare, NEW copied, IsList(l, seq, bare, copied)
    PROVE  l.size # -1 /\ l.size \in Nat /\ l.size = Len(seq) /\ seq \in Seq(Items)
<1>1. ListOK(l) /\ Iterated(l) = seq
  BY DEF IsList
<1>2. QED BY <1>1, ListIs

LEMMA Kept ==
    ASSUME NEW l, NEW seq, NEW bare, NEW copied, IsList(l, seq, bare, copied)
    PROVE  Holds(l, seq)
<1>1. l.size # -1
  BY SizeIs
<1>2. QED BY <1>1 DEF Holds, IsList

LEMMA Inserted ==
    ASSUME NEW l, ListOK(l), NEW index \in 0 .. l.size, NEW item \in Items, NEW n, n = l.size,
           NEW seq, seq = InsertAt(Iterated(l), index + 1, item)
    PROVE  /\ seq \in Seq(Items) /\ Len(seq) = n + 1
           /\ \A p \in 1 .. n + 1 :
                seq[p] = IF p < index + 1 THEN Iterated(l)[p]
                         ELSE IF p = index + 1 THEN item ELSE Iterated(l)[p - 1]
<1>1. n \in Nat /\ n = Len(Iterated(l)) /\ Iterated(l) \in Seq(Items)
  BY ListIs
<1>2. index + 1 \in 1 .. n + 1
  BY <1>1
<1> DEFINE t == Iterated(l)
           k == index + 1
<1>3. t \in Seq(Items) /\ n \in Nat /\ n = Len(t) /\ k \in 1 .. n + 1
  BY <1>1, <1>2
<1>4. seq = InsertAt(t, k, item)
  OBVIOUS
<1> HIDE DEF t, k
<1>5. seq \in Seq(Items) /\ InsertedAt(seq, t, n, k, item)
  BY <1>3, <1>4, InsertAtIs
<1>6. QED BY <1>5 DEF InsertedAt, t, k

LEMMA InsertIs ==
    ASSUME NEW l, ListOK(l), NEW index \in 0 .. l.size, NEW item \in Items
    PROVE  Holds(InsertItem(l, index, item),
                 ByIndex(InsertItem(l, index, item), InsertAt(Iterated(l), index + 1, item)))
<1> DEFINE a == AppendItem(l, item)
           f == [i \in index .. l.size |->
                    IF i = index THEN ItemAt(a, l.size) ELSE ItemAt(a, i - 1)]
           w == WithItems(a, index, f)
           r == InsertItem(l, index, item)
           seq == InsertAt(Iterated(l), index + 1, item)
           outside == \E i \in index .. l.size : index < l.size /\ ~Inside(a, i)
           n == l.size
<1>1. /\ DOMAIN l = {"blocks", "size", "bare", "copied"} /\ l.bare \in BOOLEAN
      /\ l.copied \in BOOLEAN /\ (l.bare => l.blocks = <<>>)
      /\ n \in Nat /\ n = Len(Iterated(l)) /\ Iterated(l) \in Seq(Items)
      /\ Iterated(l) = Flat(l.blocks)
  BY ListIs
<1>2. r = IF outside THEN Undefined(l) ELSE IF index >= n THEN a ELSE w
  BY DEF InsertItem
<1>3. index \in Nat /\ index <= n /\ index + 1 \in 1 .. n + 1
  BY <1>1
<1>4. CASE l.bare
  <2>1. n = 0
    BY <1>1, <1>4, NoBlocks, EmptySeq
  <2>2. a = Undefined(l) /\ index >= n
    BY <1>3, <1>4, <2>1 DEF AppendItem
  <2>3. r = Undefined(l)
    <3> HIDE DEF r, a, w, outside
    <3>1. QED BY <1>2, <2>2
  <2>4. r.size = -1 /\ r.bare
    <3> HIDE DEF r
    <3>1. QED BY <1>1, <1>4, <2>3 DEF Undefined
  <2> HIDE DEF r
  <2>5. QED BY <2>4 DEF Holds, r
<1>5. CASE ~l.bare
  <2>1. IsList(a, Append(Iterated(l), item), FALSE, l.copied)
    BY <1>5, AppendIs
  <2>2. /\ ListOK(a) /\ Iterated(a) = Append(Iterated(l), item)
        /\ a.bare = FALSE /\ a.copied = l.copied
    BY <2>1 DEF IsList
  <2> HIDE DEF a
  <2>3. /\ Len(Iterated(a)) = n + 1 /\ Iterated(a)[n + 1] = item
        /\ \A p \in 1 .. n : Iterated(a)[p] = Iterated(l)[p]
        /\ a.size = n + 1
    <3>1. /\ Len(Append(Iterated(l), item)) = n + 1
          /\ Append(Iterated(l), item)[n + 1] = item
          /\ \A p \in 1 .. n : Append(Iterated(l), item)[p] = Iterated(l)[p]
      <4> DEFINE t == Iterated(l)
      <4>1. t \in Seq(Items) /\ n = Len(t)
        BY <1>1
      <4> HIDE DEF t
      <4>2. QED BY <1>1, <4>1, AppendProperties DEF t
    <3>2. a.size = Len(Iterated(a))
      BY <2>2, ListIs
    <3>3. QED BY <2>2, <3>1, <3>2
  <2>4. Filled(a.blocks) /\ (a.copied \/ Doubling(a.blocks))
    BY <2>2, ListIs
  <2>5. /\ seq \in Seq(Items) /\ Len(seq) = n + 1
        /\ \A p \in 1 .. n + 1 :
             seq[p] = IF p < index + 1 THEN Iterated(l)[p]
                      ELSE IF p = index + 1 THEN item ELSE Iterated(l)[p - 1]
    BY Inserted
  <2> HIDE DEF seq
  <2>6. CASE outside
    <3>1. r = Undefined(l)
      BY <1>2, <2>6
    <3>2. r.size = -1 /\ r.copied = l.copied
      <4> HIDE DEF r
      <4>1. QED BY <1>1, <3>1 DEF Undefined
    <3>3. l.copied
      <4> SUFFICES ASSUME ~l.copied PROVE FALSE
        OBVIOUS
      <4>1. PICK i \in index .. l.size : index < l.size /\ ~Inside(a, i)
        BY <2>6
      <4>2. i \in Nat /\ i < Len(Iterated(a))
        BY <1>1, <1>3, <2>3
      <4>3. QED BY <2>2, <2>4, <4>1, <4>2, ItemIs
    <3> HIDE DEF r
    <3>4. QED BY <3>2, <3>3 DEF Holds, r
  <2>7. CASE ~outside /\ index >= n
    <3>1. r = a
      BY <1>2, <2>7
    <3>2. ByIndex(a, seq) = Iterated(a)
      <4>1. CASE a.copied
        BY <4>1 DEF ByIndex
      <4>2. CASE ~a.copied
        <5>1. index = n
          BY <1>1, <1>3, <2>7
        <5>2. ASSUME NEW p \in 1 .. n + 1 PROVE seq[p] = Iterated(a)[p]
          <6>1. p <= n \/ p = n + 1
            BY <1>1
          <6>2. CASE p = n + 1
            <7>1. ~(p < index + 1) /\ p = index + 1
              BY <1>1, <5>1, <6>2
            <7>2. QED BY <2>3, <2>5, <6>2, <7>1
          <6>3. CASE p <= n
            <7>1. p < index + 1 /\ p \in 1 .. n
              BY <1>1, <5>1, <6>3
            <7>2. QED BY <2>3, <2>5, <7>1
          <6>4. QED BY <6>1, <6>2, <6>3
        <5>3. Iterated(a) \in Seq(Items)
          BY <2>2, ListIs
        <5>4. seq = Iterated(a)
          BY <2>3, <2>5, <5>2, <5>3, SeqEqual
        <5>5. QED BY <4>2, <5>4 DEF ByIndex
      <4>3. QED BY <4>1, <4>2
    <3> HIDE DEF r
    <3>3. Holds(a, Iterated(a))
      BY <2>1, <2>2, Kept
    <3>4. QED BY <3>1, <3>2, <3>3 DEF r, seq
  <2>8. CASE ~outside /\ ~(index >= n)
    <3>1. r = w
      BY <1>2, <2>8
    <3>2. index < n /\ \A i \in index .. n : Inside(a, i)
      BY <1>1, <1>3, <2>8
    <3>3. ASSUME NEW i \in index .. a.size - 1 PROVE f[i] \in Items
      <4>1. i \in index .. n
        BY <1>1, <2>3
      <4>2. CASE i = index
        <5>1. n \in index .. n
          BY <1>1, <1>3
        <5>2. f[i] = ItemAt(a, n)
          BY <4>1, <4>2
        <5>3. QED BY <2>4, <3>2, <5>1, <5>2, InsideIs
      <4>3. CASE i # index
        <5>1. i - 1 \in index .. n
          BY <1>1, <1>3, <4>1, <4>3
        <5>2. f[i] = ItemAt(a, i - 1)
          BY <4>1, <4>3
        <5>3. QED BY <2>4, <3>2, <5>1, <5>2, InsideIs
      <4>4. QED BY <4>2, <4>3
    <3> HIDE DEF f, r, outside
    <3>4. PICK b : /\ Reshaped(b, a, index, f)
                   /\ w = [blocks |-> b, size |-> a.size, bare |-> a.bare, copied |-> a.copied]
      BY <2>2, <3>3, WithItemsIs
    <3> HIDE DEF w
    <3>5. /\ Filled(b) /\ Len(Flat(b)) = a.size
          /\ IsList(w, Flat(b), a.bare, a.copied)
      BY <2>2, <3>4, ReshapedIs
    <3>6. Iterated(w) = Flat(b) /\ w.copied = a.copied
      BY <3>5 DEF IsList
    <3>7. ByIndex(w, seq) = Flat(b)
      <4>1. CASE a.copied
        BY <3>6, <4>1 DEF ByIndex
      <4>2. CASE ~a.copied
        <5>1. ASSUME NEW p \in 1 .. n + 1 PROVE seq[p] = Flat(b)[p]
          <6>1. Flat(b)[p] = IF index <= p - 1 THEN f[p - 1] ELSE Iterated(a)[p]
            <7>1. p \in 1 .. a.size
              BY <2>3
            <7>2. QED BY <1>3, <2>2, <3>4, <4>2, <7>1, ReshapedAt
          <6>2. CASE p < index + 1
            <7>1. ~(index <= p - 1) /\ p \in 1 .. n
              BY <1>1, <1>3, <6>2
            <7>2. QED BY <2>3, <2>5, <6>1, <6>2, <7>1
          <6>3. CASE p = index + 1
            <7>1. index <= p - 1 /\ p - 1 = index /\ ~(p < index + 1) /\ index \in index .. l.size
              BY <1>1, <1>3, <6>3
            <7>2. f[p - 1] = ItemAt(a, n)
              BY <7>1 DEF f
            <7>3. n < Len(Iterated(a))
              BY <1>1, <2>3
            <7>4. ItemAt(a, n) = Iterated(a)[n + 1]
              BY <1>1, <2>4, <4>2, <7>3, ItemIs
            <7>5. QED BY <2>3, <2>5, <6>1, <6>3, <7>1, <7>2, <7>4
          <6>4. CASE p > index + 1
            <7>1. /\ index <= p - 1 /\ p - 1 # index /\ ~(p < index + 1) /\ p # index + 1
                  /\ p - 1 \in index .. l.size /\ p - 1 \in 1 .. n
                  /\ (p - 1) - 1 \in Nat /\ ((p - 1) - 1) + 1 = p - 1
              BY <1>1, <1>3, <6>4
            <7>2. f[p - 1] = ItemAt(a, (p - 1) - 1)
              BY <7>1 DEF f
            <7>3. (p - 1) - 1 < Len(Iterated(a))
              BY <1>1, <2>3, <7>1
            <7>4. ItemAt(a, (p - 1) - 1) = Iterated(a)[((p - 1) - 1) + 1]
              BY <2>4, <4>2, <7>1, <7>3, ItemIs
            <7>5. QED BY <2>3, <2>5, <6>1, <7>1, <7>2, <7>4
          <6>5. QED BY <1>1, <1>3, <6>2, <6>3, <6>4
        <5>2. Flat(b) \in Seq(Items) /\ Len(Flat(b)) = n + 1
          BY <2>3, <3>5, LaidOut
        <5>3. seq = Flat(b)
          BY <2>5, <5>1, <5>2, SeqEqual
        <5>4. ~w.copied
          BY <3>6, <4>2
        <5>5. QED BY <5>3, <5>4 DEF ByIndex
      <4>3. QED BY <4>1, <4>2
    <3>8. Holds(w, Flat(b))
      BY <3>5, Kept
    <3>9. QED BY <3>1, <3>7, <3>8 DEF r, seq
  <2>9. QED BY <2>6, <2>7, <2>8
<1>6. QED BY <1>4, <1>5

LEMMA Removed ==
    ASSUME NEW l, ListOK(l), NEW index \in 0 .. l.size - 1, NEW n, n = l.size,
           NEW seq, seq = RemoveAt(Iterated(l), index + 1)
    PROVE  /\ seq \in Seq(Items) /\ Len(seq) = n - 1
           /\ \A p \in 1 .. n - 1 :
                seq[p] = IF p < index + 1 THEN Iterated(l)[p] ELSE Iterated(l)[p + 1]
<1>1. n \in Nat /\ n = Len(Iterated(l)) /\ Iterated(l) \in Seq(Items)
  BY ListIs
<1>2. index + 1 \in 1 .. n
  BY <1>1
<1> DEFINE t == Iterated(l)
           k == index + 1
<1>3. t \in Seq(Items) /\ n \in Nat /\ n = Len(t) /\ k \in 1 .. n
  BY <1>1, <1>2
<1>4. seq = RemoveAt(t, k)
  OBVIOUS
<1> HIDE DEF t, k
<1>5. seq \in Seq(Items) /\ RemovedAt(seq, t, n, k)
  BY <1>3, <1>4, RemoveAtIs
<1>6. QED BY <1>5 DEF RemovedAt, t, k

LEMMA PopIs ==
    ASSUME NEW l, ListOK(l), NEW index \in 0 .. l.size - 1
    PROVE  Holds(PopItem(l, index),
                 ByIndex(PopItem(l, index), RemoveAt(Iterated(l), index + 1)))
<1> DEFINE f == [i \in index .. l.size - 1 |->
                    IF i = l.size - 1 THEN ItemAt(l, i) ELSE ItemAt(l, i + 1)]
           w == WithItems(l, index, f)
           r == PopItem(l, index)
           seq == RemoveAt(Iterated(l), index + 1)
           outside == \E i \in index .. l.size - 1 : index < l.size - 1 /\ ~Inside(l, i)
           n == l.size
           short == IF Len(Last(l.blocks).items) = 1 THEN DropBlock(w) ELSE DropItems(w, 1)
<1>1. /\ DOMAIN l = {"blocks", "size", "bare", "copied"} /\ l.bare \in BOOLEAN
      /\ l.copied \in BOOLEAN /\ (l.bare => l.blocks = <<>>) /\ Filled(l.blocks)
      /\ (l.copied \/ Doubling(l.blocks))
      /\ n \in Nat /\ n = Len(Iterated(l)) /\ Iterated(l) \in Seq(Items)
      /\ Iterated(l) = Flat(l.blocks)
  BY ListIs
<1>2. r = IF outside THEN Undefined(l) ELSE [short EXCEPT !.size = @ - 1]
  BY DEF PopItem
<1>3. index \in Nat /\ index <= n - 1 /\ index + 1 \in 1 .. n /\ n > 0
  BY <1>1
<1>4. /\ seq \in Seq(Items) /\ Len(seq) = n - 1
      /\ \A p \in 1 .. n - 1 :
           seq[p] = IF p < index + 1 THEN Iterated(l)[p] ELSE Iterated(l)[p + 1]
  <2>1. seq \in Seq(Items) /\ Len(seq) = n - 1
    BY Removed
  <2>2. \A p \in 1 .. n - 1 :
           seq[p] = IF p < index + 1 THEN Iterated(l)[p] ELSE Iterated(l)[p + 1]
    BY Removed
  <2>3. QED BY <2>1, <2>2
<1> HIDE DEF seq
<1>5. CASE outside
  <2>1. r = Undefined(l)
    BY <1>2, <1>5
  <2>2. r.size = -1 /\ r.copied = l.copied
    <3> HIDE DEF r
    <3>1. QED BY <1>1, <2>1 DEF Undefined
  <2>3. l.copied
    <3> SUFFICES ASSUME ~l.copied PROVE FALSE
      OBVIOUS
    <3>1. PICK i \in index .. l.size - 1 : index < l.size - 1 /\ ~Inside(l, i)
      BY <1>5
    <3>2. i \in Nat /\ i < Len(Iterated(l))
      BY <1>1, <1>3
    <3>3. QED BY <1>1, <3>1, <3>2, ItemIs
  <2> HIDE DEF r
  <2>4. QED BY <2>2, <2>3 DEF Holds, r
<1>6. CASE ~outside
  <2>1. r = [short EXCEPT !.size = @ - 1]
    BY <1>2, <1>6
  <2>2. ASSUME NEW i \in index .. l.size - 1, Inside(l, i) PROVE f[i] \in Items
    <3>1. CASE i = l.size - 1
      <4>1. f[i] = ItemAt(l, i)
        BY <3>1
      <4>2. QED BY <1>1, <2>2, <4>1, InsideIs
    <3>2. CASE i # l.size - 1
      <4>1. i + 1 \in index .. l.size - 1 /\ index < l.size - 1
        BY <1>1, <1>3, <3>2
      <4>2. f[i] = ItemAt(l, i + 1)
        BY <3>2
      <4>3. Inside(l, i + 1)
        BY <1>6, <4>1
      <4>4. QED BY <1>1, <4>2, <4>3, InsideIs
    <3>3. QED BY <3>1, <3>2
  <2> HIDE DEF f, outside, r
  <2>3. PICK b : /\ Reshaped(b, l, index, f)
                 /\ w = [blocks |-> b, size |-> l.size, bare |-> l.bare, copied |-> l.copied]
    BY <2>2, WithItemsIs
  <2>4. short = IF Len(Last(w.blocks).items) = 1 THEN DropBlock(w) ELSE DropItems(w, 1)
    <3> DEFINE m == Len(l.blocks)
    <3>1. w.blocks = b
      <4> HIDE DEF w
      <4>1. QED BY <2>3
    <3>2. m \in Nat /\ m # 0
      <4>1. m \in Nat
        BY <1>1, BlocksAre
      <4>2. m # 0
        <5> SUFFICES ASSUME m = 0 PROVE FALSE
          OBVIOUS
        <5>1. l.blocks = <<>>
          BY <1>1, EmptySeq, BlocksAre
        <5>2. QED BY <1>1, <1>3, <5>1, NoBlocks, EmptySeq
      <4>3. QED BY <4>1, <4>2
    <3>3. m \in 1 .. m
      <4> HIDE DEF m
      <4>1. QED BY <3>2
    <3>4. Len(b) = m /\ Len(b[m].items) = Len(l.blocks[m].items)
      BY <2>3, <3>3 DEF Reshaped
    <3>5. Last(b) = b[m] /\ Last(l.blocks) = l.blocks[m]
      BY <3>4 DEF Last
    <3> HIDE DEF w
    <3>6. QED BY <3>1, <3>4, <3>5
  <2>5. r = LastDropped(w)
    <3> HIDE DEF short, w
    <3>1. QED BY <2>1, <2>4 DEF LastDropped
  <2> HIDE DEF w, short
  <2>6. /\ Filled(b) /\ Len(Flat(b)) = l.size
        /\ IsList(w, Flat(b), l.bare, l.copied)
    BY <2>3, ReshapedIs
  <2>7. /\ ListOK(w) /\ Iterated(w) = Flat(b) /\ w.bare = l.bare /\ w.copied = l.copied
        /\ w.size = n
    <3>1. w.size = l.size
      BY <2>3
    <3>2. QED BY <2>6, <3>1 DEF IsList
  <2> DEFINE t == SubSeq(Flat(b), 1, n - 1)
  <2>8. IsList(r, t, l.bare, l.copied)
    BY <1>3, <2>5, <2>7, LastDroppedIs
  <2>9. /\ Flat(b) \in Seq(Items) /\ t \in Seq(Items) /\ Len(t) = n - 1
        /\ \A p \in 1 .. n - 1 : t[p] = Flat(b)[p]
    <3> DEFINE g == Flat(b)
    <3>1. g \in Seq(Items) /\ Len(g) = n
      BY <2>6, LaidOut
    <3>2. n - 1 \in 0 .. n /\ n \in Nat
      BY <1>1, <1>3
    <3> HIDE DEF g
    <3>3. /\ SubSeq(g, 1, n - 1) \in Seq(Items) /\ Len(SubSeq(g, 1, n - 1)) = n - 1
          /\ \A p \in 1 .. n - 1 : SubSeq(g, 1, n - 1)[p] = g[p]
      BY <3>1, <3>2, SubSeqProperties
    <3>4. QED BY <3>1, <3>3 DEF g
  <2> HIDE DEF t
  <2>10. ByIndex(r, seq) = t
    <3>1. r.copied = l.copied /\ Iterated(r) = t
      BY <2>8 DEF IsList
    <3>2. CASE l.copied
      BY <3>1, <3>2 DEF ByIndex
    <3>3. CASE ~l.copied
      <4>1. ASSUME NEW p \in 1 .. n - 1 PROVE seq[p] = t[p]
        <5>1. t[p] = IF index <= p - 1 THEN f[p - 1] ELSE Iterated(l)[p]
          <6>1. p \in 1 .. l.size
            BY <1>1
          <6>2. Flat(b)[p] = IF index <= p - 1 THEN f[p - 1] ELSE Iterated(l)[p]
            BY <1>3, <2>3, <3>3, <6>1, ReshapedAt
          <6>3. t[p] = Flat(b)[p]
            BY <2>9
          <6>4. QED BY <6>2, <6>3
        <5>2. CASE p < index + 1
          <6>1. ~(index <= p - 1)
            BY <1>1, <1>3, <5>2
          <6>2. QED BY <1>4, <5>1, <5>2, <6>1
        <5>3. CASE ~(p < index + 1)
          <6>1. /\ index <= p - 1 /\ p - 1 \in index .. l.size - 1 /\ p - 1 # l.size - 1
                /\ (p - 1) + 1 = p /\ p \in Nat /\ p < Len(Iterated(l))
            BY <1>1, <1>3, <5>3
          <6>2. f[p - 1] = ItemAt(l, p)
            BY <6>1 DEF f
          <6>3. ItemAt(l, p) = Iterated(l)[p + 1]
            BY <1>1, <3>3, <6>1, ItemIs
          <6>4. QED BY <1>4, <5>1, <5>3, <6>1, <6>2, <6>3
        <5>4. QED BY <5>2, <5>3
      <4>2. seq = t
        BY <1>4, <2>9, <4>1, SeqEqual
      <4>3. ~r.copied
        BY <3>1, <3>3
      <4>4. QED BY <4>2, <4>3 DEF ByIndex
    <3>4. QED BY <3>2, <3>3
  <2>11. Holds(r, t)
    BY <2>8, Kept
  <2>12. QED BY <2>10, <2>11 DEF r, seq
<1>7. QED BY <1>5, <1>6

-----------------------------------------------------------------------------
(* The other operations, and the steps of the program.                     *)

LEMMA ClearListIs ==
    ASSUME NEW l, ListOK(l)
    PROVE  Holds(ClearList(l), <<>>)
<1> DEFINE bare == l.bare
           a == ClearList(l)
<1>1. /\ l = [blocks |-> l.blocks, size |-> l.size, bare |-> l.bare, copied |-> l.copied]
      /\ bare \in BOOLEAN
  BY ListIs
<1>2. a = [blocks |-> <<>>, size |-> 0, bare |-> bare, copied |-> FALSE]
  <2>1. a = [l EXCEPT !.blocks = <<>>, !.size = 0, !.copied = FALSE]
    BY DEF ClearList
  <2>2. DOMAIN l = {"blocks", "size", "bare", "copied"} /\ bare = l.bare
    BY <1>1
  <2> HIDE DEF a, bare
  <2>3. DOMAIN a = {"blocks", "size", "bare", "copied"} /\ a.blocks = <<>> /\ a.size = 0
        /\ a.bare = bare /\ a.copied = FALSE
    BY <2>1, <2>2
  <2>4. a = [f \in {"blocks", "size", "bare", "copied"} |-> a[f]]
    BY <2>1, <2>2, <2>3
  <2>5. QED BY <2>3, <2>4
<1>3. Len(Flat(<<>>)) = 0
  BY NoBlocks, EmptySeq
<1> HIDE DEF a, bare
<1>4. IsList(a, Flat(<<>>), bare, FALSE)
  BY <1>1, <1>2, <1>3, NoBlocks, MadeOf
<1>5. Holds(a, <<>>)
  BY <1>4, NoBlocks, Kept
<1>6. QED BY <1>5 DEF a

CopyOf(l) ==
    [l EXCEPT
        !.blocks = [b \in DOMAIN @ |-> [@[b] EXCEPT !.capacity = Len(l.blocks[b].items)]],
        !.copied = l.copied \/ \E b \in DOMAIN l.blocks : ~Full(l.blocks[b])]

LEMMA CopyOfIs ==
    ASSUME NEW l, ListOK(l)
    PROVE  Holds(CopyOf(l), Iterated(l))
<1> DEFINE s == l.blocks
           n == Len(s)
           r == [b \in DOMAIN s |-> [s[b] EXCEPT !.capacity = Len(s[b].items)]]
           copied == l.copied \/ \E b \in DOMAIN s : ~Full(s[b])
           bare == l.bare
           size == l.size
           a == CopyOf(l)
<1>1. /\ l = [blocks |-> l.blocks, size |-> l.size, bare |-> l.bare, copied |-> l.copied]
      /\ Filled(s) /\ (l.copied \/ Doubling(s)) /\ (bare => s = <<>>)
      /\ bare \in BOOLEAN /\ l.copied \in BOOLEAN
      /\ size = Len(Flat(s)) /\ Iterated(l) = Flat(s)
  BY ListIs
<1>2. /\ s \in Seq(BlockType) /\ n \in Nat /\ DOMAIN s = 1 .. n
      /\ \A k \in 1 .. n : /\ s[k] = [items |-> s[k].items, capacity |-> s[k].capacity]
                           /\ s[k].items \in Seq(Items) /\ s[k].capacity \in Nat
                           /\ Len(s[k].items) \in Nat /\ Len(s[k].items) > 0
  <2> HIDE DEF s
  <2>1. QED BY <1>1, BlocksAre DEF n
<1>3. a = [blocks |-> r, size |-> size, bare |-> bare, copied |-> copied]
  <2>1. a = [l EXCEPT !.blocks = r, !.copied = copied]
    BY DEF CopyOf
  <2> HIDE DEF r, copied, a
  <2>2. QED BY <1>1, <2>1
<1>4. ASSUME NEW k \in 1 .. n
      PROVE  r[k] = [items |-> s[k].items, capacity |-> Len(s[k].items)]
  <2> DEFINE v == s[k]
             c == Len(s[k].items)
  <2>1. r[k] = [v EXCEPT !.capacity = c] /\ v = [items |-> s[k].items, capacity |-> s[k].capacity]
    BY <1>2
  <2> HIDE DEF v, c, r
  <2>2. r[k] = [items |-> s[k].items, capacity |-> c]
    BY <2>1
  <2>3. QED BY <2>2 DEF c
<1>5. /\ r \in Seq(BlockType) /\ Len(r) = n /\ DOMAIN r = 1 .. n
      /\ \A k \in 1 .. n : r[k].items = s[k].items /\ r[k].capacity = Len(s[k].items)
  <2>1. r = [k \in 1 .. n |-> r[k]] /\ DOMAIN r = 1 .. n
    BY <1>2
  <2> HIDE DEF r, n, s
  <2>2. ASSUME NEW k \in 1 .. n
        PROVE  /\ r[k] \in BlockType
               /\ r[k].items = s[k].items /\ r[k].capacity = Len(s[k].items)
    <3> DEFINE items == s[k].items
               c == Len(items)
    <3>1. r[k] = [items |-> items, capacity |-> c] /\ items \in Seq(Items) /\ c \in Nat
      BY <1>2, <1>4
    <3> HIDE DEF items, c
    <3>2. r[k] \in BlockType /\ r[k].items = items /\ r[k].capacity = c
      BY <3>1 DEF BlockType
    <3>3. QED BY <3>2 DEF items, c
  <2>3. \A k \in 1 .. n : r[k] \in BlockType
    BY <2>2
  <2>4. r \in Seq(BlockType) /\ Len(r) = n
    BY <1>2, <2>1, <2>3
  <2>5. QED BY <2>1, <2>2, <2>4
<1>6. Filled(r)
  <2> HIDE DEF r, s, n
  <2>1. ASSUME NEW k \in 1 .. n
        PROVE  /\ Len(r[k].items) \in 1 .. r[k].capacity
               /\ k < n => Len(r[k].items) = r[k].capacity
    BY <1>2, <1>5
  <2>2. QED BY <1>5, <2>1 DEF Filled
<1>7. Flat(r) = Flat(s)
  <2> HIDE DEF r
  <2>1. Contents(r) = Contents(s)
    BY <1>2, <1>5 DEF Contents
  <2>2. QED BY <2>1 DEF Flat
<1>8. copied \/ Doubling(r)
  <2>1. SUFFICES ASSUME ~copied, NEW k \in 1 .. n PROVE r[k].capacity = BaseSize * Exp2(k - 1)
    BY <1>5 DEF Doubling
  <2>2. Full(s[k]) /\ Doubling(s)
    BY <1>1, <1>2, <2>1
  <2>3. s[k].capacity = BaseSize * Exp2(k - 1) /\ Len(s[k].items) = s[k].capacity
    BY <2>2 DEF Full, Doubling
  <2> HIDE DEF r
  <2>4. QED BY <1>5, <2>3
<1>9. bare => r = <<>>
  <2> SUFFICES ASSUME bare PROVE r = <<>>
    OBVIOUS
  <2>1. n = 0
    BY <1>1, EmptySeq
  <2> HIDE DEF r
  <2>2. QED BY <1>5, <2>1, EmptySeq
<1>10. copied \in BOOLEAN
  BY <1>1
<1> HIDE DEF r, copied, bare, size, a
<1>11. IsList(a, Flat(r), bare, copied)
  <2>1. size = Len(Flat(r))
    BY <1>1, <1>7
  <2>2. bare \in BOOLEAN
    BY <1>1
  <2>3. QED BY <1>3, <1>6, <1>8, <1>9, <1>10, <2>1, <2>2, MadeOf
<1>12. Holds(a, Flat(r))
  BY <1>11, Kept
<1>13. QED BY <1>1, <1>7, <1>12 DEF a

LEMMA EmptyListIs ==
    ASSUME NEW items \in Seq(Items)
    PROVE  Holds(AppendAll(EmptyList, items), items)
<1>1. ListOK(EmptyList) /\ Iterated(EmptyList) = <<>> /\ ~EmptyList.bare
  BY NoBlocks DEF IsList
<1>2. IsList(AppendAll(EmptyList, items), Iterated(EmptyList) \o items, EmptyList.bare,
             EmptyList.copied)
  BY <1>1, AppendAllIs
<1>3. Iterated(EmptyList) \o items = items
  BY <1>1, ConcatEmptySeq
<1>4. QED BY <1>2, <1>3, Kept

LEMMA ExtendIs ==
    ASSUME NEW l, ListOK(l), NEW items \in Seq(Items)
    PROVE  Holds(AppendAll(l, items), Iterated(l) \o items)
<1>1. CASE Lost(AppendAll(l, items))
  BY <1>1 DEF Lost, Holds
<1>2. CASE IsList(AppendAll(l, items), Iterated(l) \o items, l.bare, l.copied)
  BY <1>2, Kept
<1>3. QED BY <1>1, <1>2, AppendAllIs

LEMMA SoundIs ==
    ASSUME ListIInv, NEW x \in Sound
    PROVE  /\ x \in Lists /\ ListOK(lists[x]) /\ held[x] = Iterated(lists[x])
           /\ held[x] \in Seq(Items) /\ lists[x].size = Len(held[x]) /\ lists[x].size \in Nat
<1>1. x \in Lists /\ lists[x].size # -1
  BY DEF Sound
<1>2. Holds(lists[x], held[x])
  BY <1>1 DEF ListIInv
<1>3. ListOK(lists[x]) /\ held[x] = Iterated(lists[x])
  BY <1>1, <1>2 DEF Holds
<1>4. QED BY <1>1, <1>3, ListIs

LEMMA Changes ==
    ASSUME ListIInv, NEW x \in Lists, NEW l, NEW seq, Becomes(x, l, seq), Holds(l, seq)
    PROVE  ListIInv'
<1> DEFINE h == IF l.size = -1 THEN <<>> ELSE seq
<1>1. /\ lists' = [lists EXCEPT ![x] = l] /\ held' = [held EXCEPT ![x] = h]
  BY DEF Becomes
<1>2. Holds(l, h)
  BY DEF Holds
<1> HIDE DEF h
<1>3. /\ DOMAIN lists = Lists /\ DOMAIN held = Lists
      /\ \A y \in Lists : Holds(lists[y], held[y])
  BY DEF ListIInv
<1>4. DOMAIN lists' = Lists /\ DOMAIN held' = Lists
  BY <1>1, <1>3
<1>5. ASSUME NEW y \in Lists PROVE Holds(lists'[y], held'[y])
  <2>1. CASE y = x
    <3>1. lists'[y] = l /\ held'[y] = h
      BY <1>1, <1>3, <2>1
    <3>2. QED BY <1>2, <3>1
  <2>2. CASE y # x
    <3>1. lists'[y] = lists[y] /\ held'[y] = held[y]
      BY <1>1, <1>3, <2>2
    <3>2. QED BY <1>3, <3>1
  <2>3. QED BY <2>1, <2>2
<1>6. QED BY <1>4, <1>5 DEF ListIInv, Holds, ListOK, Iterated

LEMMA ListInitInv == ListInit => ListIInv
<1> SUFFICES ASSUME ListInit PROVE ListIInv
  OBVIOUS
<1>1. /\ DOMAIN lists = Lists /\ DOMAIN held = Lists
      /\ \A x \in Lists : lists[x] = EmptyList /\ held[x] = <<>>
  BY DEF ListInit
<1>2. Holds(EmptyList, <<>>)
  BY NoBlocks, Kept
<1>3. QED BY <1>1, <1>2 DEF ListIInv

LEMMA AppendStep ==
    ASSUME ListIInv, NEW x \in Sound, ListAppend(x)
    PROVE  ListIInv'
<1>1. PICK item \in Items : Becomes(x, AppendItem(lists[x], item), Append(held[x], item))
  BY DEF ListAppend
<1>2. x \in Lists /\ ListOK(lists[x]) /\ held[x] = Iterated(lists[x])
  BY SoundIs
<1>3. Holds(AppendItem(lists[x], item), Append(held[x], item))
  <2>1. CASE lists[x].bare
    <3> DEFINE l == lists[x]
    <3>1. DOMAIN l = {"blocks", "size", "bare", "copied"} /\ l.bare = TRUE
      BY <1>2, <2>1, ListIs
    <3> HIDE DEF l
    <3>2. Lost(AppendItem(l, item))
      BY <3>1, LostStays
    <3>3. QED BY <3>2 DEF Lost, Holds, l
  <2>2. CASE ~lists[x].bare
    <3>1. IsList(AppendItem(lists[x], item), Append(Iterated(lists[x]), item), FALSE,
                 lists[x].copied)
      BY <1>2, <2>2, AppendIs
    <3>2. QED BY <1>2, <3>1, Kept
  <2>3. QED BY <2>1, <2>2
<1>4. QED BY <1>1, <1>2, <1>3, Changes

LEMMA InsertStep ==
    ASSUME ListIInv, NEW x \in Sound, ListInsert(x)
    PROVE  ListIInv'
<1>1. PICK item \in Items, i \in 0 .. lists[x].size :
         Becomes(x, InsertItem(lists[x], i, item),
                 ByIndex(InsertItem(lists[x], i, item), InsertAt(held[x], i + 1, item)))
  BY DEF ListInsert
<1>2. x \in Lists /\ ListOK(lists[x]) /\ held[x] = Iterated(lists[x])
  BY SoundIs
<1>3. Holds(InsertItem(lists[x], i, item),
            ByIndex(InsertItem(lists[x], i, item), InsertAt(held[x], i + 1, item)))
  BY <1>2, InsertIs
<1>4. QED BY <1>1, <1>2, <1>3, Changes

LEMMA PopBackStep ==
    ASSUME ListIInv, NEW x \in Sound, ListPopBack(x)
    PROVE  ListIInv'
<1>1. PICK n \in 1 .. lists[x].size :
         Becomes(x, PopBack(lists[x], n), SubSeq(held[x], 1, lists[x].size - n))
  BY DEF ListPopBack
<1>2. x \in Lists /\ ListOK(lists[x]) /\ held[x] = Iterated(lists[x])
  BY SoundIs
<1>3. Holds(PopBack(lists[x], n), SubSeq(held[x], 1, lists[x].size - n))
  BY <1>2, PopBackIs, Kept
<1>4. QED BY <1>1, <1>2, <1>3, Changes

LEMMA PopStep ==
    ASSUME ListIInv, NEW x \in Sound, ListPop(x)
    PROVE  ListIInv'
<1>1. PICK i \in 0 .. lists[x].size - 1 :
         Becomes(x, PopItem(lists[x], i),
                 ByIndex(PopItem(lists[x], i), RemoveAt(held[x], i + 1)))
  BY DEF ListPop
<1>2. x \in Lists /\ ListOK(lists[x]) /\ held[x] = Iterated(lists[x])
  BY SoundIs
<1>3. Holds(PopItem(lists[x], i), ByIndex(PopItem(lists[x], i), RemoveAt(held[x], i + 1)))
  BY <1>2, PopIs
<1>4. QED BY <1>1, <1>2, <1>3, Changes

LEMMA ClearStep ==
    ASSUME ListIInv, NEW x \in Sound, ListClear(x)
    PROVE  ListIInv'
<1>1. Becomes(x, ClearList(lists[x]), <<>>)
  BY DEF ListClear
<1>2. x \in Lists /\ ListOK(lists[x])
  BY SoundIs
<1>3. Holds(ClearList(lists[x]), <<>>)
  BY <1>2, ClearListIs
<1>4. QED BY <1>1, <1>2, <1>3, Changes

LEMMA ExtendSelfStep ==
    ASSUME ListIInv, NEW x \in Sound, ExtendSelf(x)
    PROVE  ListIInv'
<1> DEFINE l == lists[x]
           s == l.blocks
           n == Len(s)
           room == l.size - Len(Last(s).items) + Last(s).capacity
           items == [k \in 1 .. room |-> held[x][((k - 1) % l.size) + 1]]
<1>1. l.size > 0 /\ Becomes(x, AppendAll(l, items), held[x] \o items)
  BY DEF ExtendSelf
<1>2. /\ x \in Lists /\ ListOK(l) /\ held[x] = Iterated(l) /\ held[x] \in Seq(Items)
      /\ l.size = Len(held[x]) /\ l.size \in Nat
  BY SoundIs
<1>3. items \in Seq(Items)
  <2>1. Filled(s) /\ Iterated(l) = Flat(s) /\ n \in Nat
    BY <1>2, ListIs, BlocksAre
  <2>2. n # 0
    <3> SUFFICES ASSUME n = 0 PROVE FALSE
      OBVIOUS
    <3>1. s = <<>>
      BY <2>1, EmptySeq, BlocksAre
    <3>2. Len(held[x]) = 0
      BY <1>2, <2>1, <3>1, NoBlocks, EmptySeq
    <3>3. QED BY <1>1, <1>2, <3>2
  <2>3. n \in 1 .. n
    <3> HIDE DEF n
    <3>1. QED BY <2>1, <2>2
  <2>4. /\ Len(s[n].items) \in Nat /\ s[n].capacity \in Nat
        /\ Len(s[n].items) <= s[n].capacity
    BY <2>1, <2>3, BlocksAre
  <2>5. room \in Nat
    <3>1. Last(s) = s[n]
      BY DEF Last
    <3> DEFINE size == l.size
               a == Len(s[n].items)
               c == s[n].capacity
    <3>2. size \in Nat /\ a \in Nat /\ c \in Nat /\ a <= c /\ room = size - a + c
      BY <1>2, <2>4, <3>1
    <3> HIDE DEF size, a, c, room
    <3>3. QED BY <3>2
  <2> DEFINE size == l.size
             t == held[x]
  <2>6. t \in Seq(Items) /\ size = Len(t) /\ size \in Nat /\ size > 0
    BY <1>1, <1>2
  <2>7. items = [k \in 1 .. room |-> t[((k - 1) % size) + 1]]
    OBVIOUS
  <2> HIDE DEF room, size, t, items
  <2>8. ASSUME NEW k \in 1 .. room PROVE t[((k - 1) % size) + 1] \in Items
    <3>1. k - 1 \in Int
      BY <2>5
    <3>2. (k - 1) % size \in 0 .. size - 1
      BY <2>6, <3>1
    <3> DEFINE q == (k - 1) % size
    <3>3. q \in 0 .. size - 1
      BY <3>2
    <3> HIDE DEF q
    <3>4. q + 1 \in 1 .. size
      BY <2>6, <3>3
    <3>5. t[q + 1] \in Items
      BY <2>6, <3>4, ElementOfSeq
    <3>6. QED BY <3>5 DEF q
  <2>9. QED BY <2>5, <2>7, <2>8
<1> HIDE DEF items
<1>4. Holds(AppendAll(l, items), held[x] \o items)
  BY <1>2, <1>3, ExtendIs
<1>5. QED BY <1>1, <1>2, <1>4, Changes

LEMMA ExtendStep ==
    ASSUME ListIInv, NEW x \in Sound, NEW y \in Sound, ListExtend(x, y)
    PROVE  ListIInv'
<1>1. Becomes(x, AppendAll(lists[x], Iterated(lists[y])), held[x] \o held[y])
  BY DEF ListExtend
<1>2. /\ x \in Lists /\ ListOK(lists[x]) /\ held[x] = Iterated(lists[x])
      /\ held[y] = Iterated(lists[y]) /\ held[y] \in Seq(Items)
  BY SoundIs
<1>3. Holds(AppendAll(lists[x], Iterated(lists[y])), held[x] \o held[y])
  BY <1>2, ExtendIs
<1>4. QED BY <1>1, <1>2, <1>3, Changes

LEMMA CopyConstructStep ==
    ASSUME ListIInv, NEW x \in Sound, NEW y \in Sound, CopyConstruct(x, y)
    PROVE  ListIInv'
<1>1. Becomes(x, AppendAll(EmptyList, Iterated(lists[y])), held[y])
  BY DEF CopyConstruct
<1>2. x \in Lists /\ held[y] = Iterated(lists[y]) /\ held[y] \in Seq(Items)
  BY SoundIs
<1>3. Holds(AppendAll(EmptyList, Iterated(lists[y])), held[y])
  BY <1>2, EmptyListIs
<1>4. QED BY <1>1, <1>2, <1>3, Changes

LEMMA ConcatenateStep ==
    ASSUME ListIInv, NEW x \in Lists, NEW y \in Sound, NEW z \in Sound, Concatenate(x, y, z)
    PROVE  ListIInv'
<1>1. Becomes(x, AppendAll(EmptyList, Iterated(lists[y]) \o Iterated(lists[z])),
              held[y] \o held[z])
  BY DEF Concatenate
<1>2. /\ held[y] = Iterated(lists[y]) /\ held[y] \in Seq(Items)
      /\ held[z] = Iterated(lists[z]) /\ held[z] \in Seq(Items)
  BY SoundIs
<1>3. held[y] \o held[z] \in Seq(Items)
  BY <1>2, ConcatProperties
<1>4. Holds(AppendAll(EmptyList, held[y] \o held[z]), held[y] \o held[z])
  BY <1>3, EmptyListIs
<1>5. QED BY <1>1, <1>2, <1>4, Changes

LEMMA CopyAssignStep ==
    ASSUME ListIInv, NEW x \in Sound, NEW y \in Sound, CopyAssign(x, y)
    PROVE  ListIInv'
<1>1. Becomes(x, CopyOf(lists[y]), held[y])
  BY DEF CopyAssign, CopyOf
<1>2. x \in Lists /\ ListOK(lists[y]) /\ held[y] = Iterated(lists[y])
  BY SoundIs
<1>3. Holds(CopyOf(lists[y]), held[y])
  BY <1>2, CopyOfIs
<1>4. QED BY <1>1, <1>2, <1>3, Changes

LEMMA MoveStep ==
    ASSUME ListIInv, NEW x \in Sound, NEW y \in Sound, MoveList(x, y)
    PROVE  ListIInv'
<1> DEFINE bare == [EmptyList EXCEPT !.bare = TRUE]
<1>1. /\ x # y
      /\ lists' = [lists EXCEPT ![x] = lists[y], ![y] = bare]
      /\ held' = [held EXCEPT ![x] = held[y], ![y] = <<>>]
  BY DEF MoveList
<1>2. x \in Lists /\ y \in Lists
  BY SoundIs
<1>3. Holds(bare, <<>>)
  <2>1. bare = [blocks |-> <<>>, size |-> 0, bare |-> TRUE, copied |-> FALSE]
    <3> DEFINE e == EmptyList
    <3>1. /\ DOMAIN e = {"blocks", "size", "bare", "copied"}
          /\ e.blocks = <<>> /\ e.size = 0 /\ e.copied = FALSE
      BY DEF EmptyList
    <3>2. bare = [e EXCEPT !.bare = TRUE]
      OBVIOUS
    <3> HIDE DEF e, bare
    <3>3. /\ DOMAIN bare = {"blocks", "size", "bare", "copied"} /\ bare.blocks = <<>>
          /\ bare.size = 0 /\ bare.bare = TRUE /\ bare.copied = FALSE
      BY <3>1, <3>2
    <3>4. bare = [f \in {"blocks", "size", "bare", "copied"} |-> bare[f]]
      BY <3>1, <3>2
    <3>5. QED BY <3>3, <3>4
  <2>2. Len(Flat(<<>>)) = 0
    BY NoBlocks, EmptySeq
  <2> HIDE DEF bare
  <2>3. IsList(bare, Flat(<<>>), TRUE, FALSE)
    BY <2>1, <2>2, NoBlocks, MadeOf
  <2>4. QED BY <2>3, NoBlocks, Kept
<1>4. /\ DOMAIN lists = Lists /\ DOMAIN held = Lists
      /\ \A z \in Lists : Holds(lists[z], held[z])
  BY DEF ListIInv
<1> HIDE DEF bare
<1>5. DOMAIN lists' = Lists /\ DOMAIN held' = Lists
  BY <1>1, <1>4
<1>6. ASSUME NEW z \in Lists PROVE Holds(lists'[z], held'[z])
  <2>1. CASE z = y
    <3>1. lists'[z] = bare /\ held'[z] = <<>>
      BY <1>1, <1>2, <1>4, <2>1
    <3>2. QED BY <1>3, <3>1
  <2>2. CASE z # y /\ z = x
    <3>1. lists'[z] = lists[y] /\ held'[z] = held[y]
      BY <1>1, <1>2, <1>4, <2>2
    <3>2. QED BY <1>2, <1>4, <3>1
  <2>3. CASE z # y /\ z # x
    <3>1. lists'[z] = lists[z] /\ held'[z] = held[z]
      BY <1>1, <1>2, <1>4, <2>3
    <3>2. QED BY <1>4, <3>1
  <2>4. QED BY <2>1, <2>2, <2>3
<1>7. QED BY <1>5, <1>6 DEF ListIInv, Holds, ListOK, Iterated

(* The blocks of a list hold its elements in their order, each full but    *)
(* the last and as large as indexing takes them to be unless copied.       *)
THEOREM ListInvariance == ListSpec => []ListIInv
<1>1. ListInit => ListIInv
  BY ListInitInv
<1>2. ListIInv /\ [ListNext]_listVars => ListIInv'
  <2> SUFFICES ASSUME ListIInv, [ListNext]_listVars PROVE ListIInv'
    OBVIOUS
  <2>1. CASE UNCHANGED listVars
    BY <2>1 DEF listVars, ListIInv, Holds, ListOK, Iterated
  <2>2. ASSUME NEW x \in Sound,
               \/ ListAppend(x) \/ ListInsert(x) \/ ListPopBack(x) \/ ListPop(x)
               \/ ListClear(x) \/ ExtendSelf(x)
        PROVE  ListIInv'
    BY <2>2, AppendStep, InsertStep, PopBackStep, PopStep, ClearStep, ExtendSelfStep
  <2>3. ASSUME NEW x \in Sound, NEW y \in Sound,
               ListExtend(x, y) \/ CopyConstruct(x, y) \/ CopyAssign(x, y) \/ MoveList(x, y)
        PROVE  ListIInv'
    BY <2>3, ExtendStep, CopyConstructStep, CopyAssignStep, MoveStep
  <2>4. ASSUME NEW x \in Lists, NEW y \in Sound, NEW z \in Sound, Concatenate(x, y, z)
        PROVE  ListIInv'
    BY <2>4, ConcatenateStep
  <2>5. QED BY <2>1, <2>2, <2>3, <2>4 DEF ListNext
<1>3. QED BY <1>1, <1>2, PTL DEF ListSpec

(* A list is the sequence that was put into it, by its iterators and, but  *)
(* for a copied block, by its indices, for lists of any length.            *)
THEOREM ListCorrect == ListSpec => []ListIsSequence
<1>1. ListIInv => ListIsSequence
  BY SequenceEnough
<1>2. QED BY <1>1, ListInvariance, PTL
=============================================================================
