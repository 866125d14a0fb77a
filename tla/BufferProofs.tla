---------------------------- MODULE BufferProofs ----------------------------
(***************************************************************************)
(* What the operators of ByteBuffer and FlattenSeq do, for all buffers and *)
(* all sequences.  HttpExchangeProofs, LibraryProofs and DynListProofs     *)
(* rest on it.                                                             *)
(***************************************************************************)
EXTENDS ByteBuffer, SequencesExt, SequenceTheorems, FiniteSetTheorems, TLAPS

-----------------------------------------------------------------------------
(* Least and greatest members.  The order of the initial segments 1 .. n   *)
(* by inclusion is well-founded, and it is the order of the numbers n.     *)

LEMMA LeastExists ==
    ASSUME NEW T, T \subseteq Nat, T # {}
    PROVE  \E x \in T : \A y \in T : x <= y
<1> DEFINE below(n) == 1 .. n
           segments == {below(n) : n \in T}
<1>1. segments \subseteq FiniteSubsetsOf(Nat)
  <2>1. \A n \in T : below(n) \subseteq Nat /\ IsFiniteSet(below(n))
    BY FS_Interval
  <2>2. QED BY <2>1 DEF FiniteSubsetsOf
<1>2. segments # {}
  OBVIOUS
<1>3. PICK s \in segments : \A t \in segments : <<t, s>> \notin StrictSubsetOrdering(Nat)
  <2> HIDE DEF segments
  <2>1. IsWellFoundedOn(StrictSubsetOrdering(Nat), FiniteSubsetsOf(Nat))
    BY FS_StrictSubsetOrderingWellFounded
  <2>2. QED BY <1>1, <1>2, <2>1, WFMin
<1>4. PICK x \in T : s = below(x)
  OBVIOUS
<1>5. ASSUME NEW y \in T, y < x PROVE FALSE
  <2>1. below(y) \in SUBSET Nat /\ below(x) \in SUBSET Nat
    OBVIOUS
  <2>2. below(y) \subseteq below(x)
    BY <1>5
  <2>3. x \in below(x) /\ x \notin below(y)
    BY <1>5
  <2>4. <<below(y), below(x)>> \in StrictSubsetOrdering(Nat)
    BY <2>1, <2>2, <2>3 DEF StrictSubsetOrdering
  <2>5. QED BY <1>3, <1>4, <2>4
<1>6. QED BY <1>5

(* Induction on a set of numbers.                                          *)
LEMMA SetInduction ==
    ASSUME NEW T, 0 \in T, \A n \in Nat : n \in T => n + 1 \in T
    PROVE  \A n \in Nat : n \in T
<1> DEFINE U == Nat \ T
<1> SUFFICES ASSUME U # {} PROVE FALSE
  OBVIOUS
<1>1. U \subseteq Nat
  OBVIOUS
<1>2. PICK x \in U : \A y \in U : x <= y
  <2> HIDE DEF U
  <2>1. QED BY <1>1, LeastExists
<1>3. x \in Nat /\ x \notin T /\ x # 0
  OBVIOUS
<1>4. x - 1 \in Nat /\ x - 1 \notin U
  BY <1>2, <1>3
<1>5. (x - 1) + 1 \in T
  BY <1>4
<1>6. QED BY <1>3, <1>5

LEMMA MinIs ==
    ASSUME NEW T, T \subseteq Nat, T # {}
    PROVE  Min(T) \in T /\ \A y \in T : Min(T) <= y
<1>1. \E x \in T : \A y \in T : x <= y
  BY LeastExists
<1>2. QED BY <1>1 DEF Min

LEMMA MinOfTwo ==
    ASSUME NEW a \in Int, NEW b \in Int
    PROVE  Min({a, b}) = IF a <= b THEN a ELSE b
  BY DEF Min

LEMMA MaxIs ==
    ASSUME NEW n \in Nat, NEW T, T \subseteq 0 .. n, T # {}
    PROVE  Max(T) \in T /\ \A y \in T : Max(T) >= y
<1> DEFINE U == {n - i : i \in T}
<1>1. U \subseteq Nat /\ U # {}
  <2>1. \A i \in T : i \in Int /\ 0 <= i /\ i <= n
    OBVIOUS
  <2>2. \A i \in T : n - i \in Nat
    BY <2>1
  <2>3. QED BY <2>2
<1>2. PICK u \in U : \A y \in U : u <= y
  <2> HIDE DEF U
  <2>1. QED BY <1>1, LeastExists
<1>3. PICK x \in T : u = n - x
  BY <1>2
<1>4. \A i \in T : n - x <= n - i
  BY <1>2, <1>3
<1>5. \A i \in T : x >= i
  BY <1>4
<1>6. QED BY <1>5 DEF Max

-----------------------------------------------------------------------------
(* Buffers.                                                                *)

BufferOK(b, S) ==
    /\ Junk \in S
    /\ DOMAIN b = {"mem", "r", "w", "open"}
    /\ b.mem \in Seq(S) /\ Len(b.mem) > 0 /\ b.open = TRUE
    /\ b.w \in 0 .. Len(b.mem) /\ b.r \in 0 .. b.w

LEMMA Parts ==
    ASSUME NEW S, NEW b, BufferOK(b, S)
    PROVE  /\ Junk \in S
           /\ b.mem \in Seq(S) /\ Len(b.mem) \in Nat /\ Len(b.mem) > 0
           /\ b.r \in Nat /\ b.w \in Nat /\ b.open = TRUE
           /\ b.r <= b.w /\ b.w <= Len(b.mem)
  BY LenProperties DEF BufferOK

LEMMA WriteableIs ==
    ASSUME NEW S, NEW b, BufferOK(b, S)
    PROVE  Writeable(b) \in Int
<1>1. b.open = TRUE /\ Len(b.mem) \in Nat /\ b.w \in Nat
  BY Parts
<1>2. QED BY <1>1 DEF Writeable

LEMMA ClearIs ==
    ASSUME NEW S, NEW b, BufferOK(b, S)
    PROVE  BufferOK(Clear(b), S) /\ Readable(Clear(b)) = 0
<1> DEFINE c == Clear(b)
<1>1. c.mem = b.mem /\ c.r = 0 /\ c.w = 0 /\ c.open = b.open /\ DOMAIN c = DOMAIN b
  BY DEF BufferOK, Clear
<1>2. Len(b.mem) \in Nat
  BY Parts
<1> HIDE DEF c
<1>3. BufferOK(c, S)
  BY <1>1, <1>2 DEF BufferOK
<1>4. Readable(c) = 0
  BY <1>1 DEF Readable
<1>5. QED BY <1>3, <1>4 DEF c

LEMMA BlankIs ==
    ASSUME NEW S, Junk \in S, NEW n \in Nat
    PROVE  Blank(n) \in Seq(S) /\ Len(Blank(n)) = n /\ (n = 0 => Blank(n) = <<>>)
<1>1. Blank(n) \in Seq(S) /\ Len(Blank(n)) = n
  BY DEF Blank
<1>2. QED BY <1>1, EmptySeq

(* peek() of at most what is there gives a part of the memory.             *)
LEMMA BytesAre ==
    ASSUME NEW S, NEW b, BufferOK(b, S), NEW k \in 0 .. Readable(b)
    PROVE  /\ Bytes(b, k) = SubSeq(b.mem, b.r + 1, b.r + k)
           /\ Bytes(b, k) \in Seq(S) /\ Len(Bytes(b, k)) = k
<1> DEFINE inside == SubSeq(b.mem, b.r + 1, b.r + k)
<1>1. Min({b.r + k, Len(b.mem)}) = b.r + k
  BY MinOfTwo DEF BufferOK, Readable
<1>2. inside \in Seq(S) /\ Len(inside) = k
  BY SubSeqProperties DEF BufferOK, Readable
<1>3. Blank(k - Len(inside)) = <<>>
  <2>1. Junk \in S /\ k \in Int /\ 0 \in Nat
    BY DEF BufferOK, Readable
  <2>2. k - Len(inside) = 0
    BY <1>2, <2>1
  <2>3. Blank(0) = <<>>
    BY <2>1, BlankIs
  <2>4. QED BY <2>2, <2>3
<1>4. inside \o <<>> = inside
  BY <1>2, ConcatEmptySeq
<1>5. Bytes(b, k) = inside
  BY <1>1, <1>3, <1>4 DEF Bytes
<1>6. QED BY <1>2, <1>5

LEMMA UnreadIs ==
    ASSUME NEW S, NEW b, BufferOK(b, S)
    PROVE  /\ Unread(b) = SubSeq(b.mem, b.r + 1, b.w)
           /\ Unread(b) \in Seq(S) /\ Len(Unread(b)) = Readable(b)
           /\ Readable(b) \in Nat
<1>1. Readable(b) \in Nat /\ b.r + Readable(b) = b.w
  BY DEF BufferOK, Readable
<1>2. QED BY <1>1, BytesAre DEF Unread

LEMMA RetrieveSplits ==
    ASSUME NEW S, NEW b, BufferOK(b, S), NEW k \in 0 .. Readable(b)
    PROVE  /\ BufferOK(Retrieve(b, k), S)
           /\ Bytes(b, k) \o Unread(Retrieve(b, k)) = Unread(b)
           /\ Readable(Retrieve(b, k)) = Readable(b) - k
<1> DEFINE c == Retrieve(b, k)
<1>1. CASE k = 0
  <2>1. c = b
    BY <1>1 DEF Retrieve
  <2>2. Bytes(b, k) = <<>>
    BY <1>1, BytesAre, EmptySeq
  <2>3. <<>> \o Unread(b) = Unread(b)
    BY UnreadIs, ConcatEmptySeq
  <2>4. QED BY <2>1, <2>2, <2>3, UnreadIs, <1>1
<1>2. CASE k > 0 /\ k = Readable(b)
  <2>1. c = Clear(b)
    BY <1>2, Parts DEF Retrieve, Readable
  <2>2. Unread(c) = <<>>
    BY <2>1, ClearIs, UnreadIs, EmptySeq
  <2>3. Bytes(b, k) = Unread(b)
    BY <1>2 DEF Unread
  <2>4. Unread(b) \o <<>> = Unread(b)
    BY UnreadIs, ConcatEmptySeq
  <2>5. QED BY <1>2, <2>1, <2>2, <2>3, <2>4, ClearIs, UnreadIs
<1>3. CASE k > 0 /\ k < Readable(b)
  <2>1. c = [b EXCEPT !.r = b.r + k]
    BY <1>3, UnreadIs DEF Retrieve
  <2>0. /\ b.mem \in Seq(S) /\ Len(b.mem) \in Nat /\ Len(b.mem) > 0
        /\ b.r \in Nat /\ b.w \in Nat /\ b.w <= Len(b.mem)
        /\ k \in Nat /\ b.r + k < b.w
    <3>1. k \in Nat /\ k < b.w - b.r
      BY <1>3, UnreadIs DEF Readable
    <3>2. /\ b.mem \in Seq(S) /\ Len(b.mem) \in Nat /\ Len(b.mem) > 0
          /\ b.r \in Nat /\ b.w \in Nat /\ b.w <= Len(b.mem)
      BY Parts
    <3>3. QED BY <3>1, <3>2
  <2>2. c.mem = b.mem /\ c.r = b.r + k /\ c.w = b.w /\ c.open = b.open
        /\ DOMAIN c = DOMAIN b
    BY <2>1 DEF BufferOK
  <2>3. BufferOK(c, S)
    <3> HIDE DEF c
    <3>1. QED BY <2>0, <2>2 DEF BufferOK
  <2>4. Readable(c) = Readable(b) - k
    <3> HIDE DEF c
    <3>1. QED BY <2>0, <2>2 DEF Readable
  <2>5. SubSeq(b.mem, b.r + 1, b.r + k) \o SubSeq(b.mem, b.r + k + 1, b.w)
            = SubSeq(b.mem, b.r + 1, b.w)
    <3>1. /\ b.r + 1 \in 1 .. Len(b.mem) + 1
          /\ b.r + k \in (b.r + 1) - 1 .. Len(b.mem)
          /\ b.w \in b.r + k .. Len(b.mem)
      BY <2>0
    <3>2. QED BY <3>1, <2>0, ConcatAdjacentSubSeq
  <2>6. QED BY <2>2, <2>3, <2>4, <2>5, BytesAre, UnreadIs
<1>4. QED BY <1>1, <1>2, <1>3, UnreadIs

(* Whatever number of bytes is taken, what is left is the end of it.       *)
LEMMA RetrieveLeaves ==
    ASSUME NEW S, NEW b, BufferOK(b, S), NEW n \in Int
    PROVE  /\ BufferOK(Retrieve(b, n), S)
           /\ \E u \in Seq(S) : Unread(b) = u \o Unread(Retrieve(b, n))
<1>1. CASE n <= 0
  <2>1. Retrieve(b, n) = b
    BY <1>1 DEF Retrieve
  <2>2. Unread(b) = <<>> \o Unread(b) /\ <<>> \in Seq(S)
    BY UnreadIs, ConcatEmptySeq, EmptySeq
  <2>3. QED BY <2>1, <2>2
<1>2. CASE ~(n <= 0) /\ ~(n > Readable(b))
  <2>1. n \in 0 .. Readable(b)
    BY <1>2, UnreadIs
  <2>2. QED BY <2>1, RetrieveSplits, BytesAre
<1>3. CASE ~(n <= 0) /\ n > Readable(b)
  <2>1. Retrieve(b, n) = Clear(b)
    BY <1>3, UnreadIs DEF Retrieve
  <2>2. Unread(Clear(b)) = <<>>
    BY ClearIs, UnreadIs, EmptySeq
  <2>3. Unread(b) = Unread(b) \o <<>> /\ Unread(b) \in Seq(S)
    BY UnreadIs, ConcatEmptySeq
  <2>4. QED BY <2>1, <2>2, <2>3, ClearIs
<1>4. QED BY <1>1, <1>2, <1>3

LEMMA StoreIs ==
    ASSUME NEW S, NEW mem \in Seq(S), NEW s \in Seq(S),
           NEW at \in 0 .. Len(mem), at + Len(s) <= Len(mem)
    PROVE  /\ Store(mem, at, s) \in Seq(S)
           /\ Len(Store(mem, at, s)) = Len(mem)
           /\ \A i \in 1 .. Len(mem) :
                  Store(mem, at, s)[i] = IF i <= at THEN mem[i]
                                         ELSE IF i <= at + Len(s) THEN s[i - at]
                                         ELSE mem[i]
<1> DEFINE front == SubSeq(mem, 1, at)
           back == SubSeq(mem, at + Len(s) + 1, Len(mem))
<1>1. Len(mem) \in Nat /\ Len(s) \in Nat /\ at \in Nat /\ at <= Len(mem)
  BY LenProperties
<1>2. /\ front \in Seq(S) /\ Len(front) = at
      /\ \A i \in 1 .. at : front[i] = mem[i]
  <2>1. \A i \in 1 .. at : mem[i] \in S
    BY <1>1, ElementOfSeq
  <2>2. QED BY <1>1, <2>1, SubSeqProperties
<1>3. /\ back \in Seq(S) /\ Len(back) = Len(mem) - (at + Len(s))
      /\ \A i \in 1 .. Len(mem) - (at + Len(s)) : back[i] = mem[at + Len(s) + i]
  <2>1. \A i \in at + Len(s) + 1 .. Len(mem) : mem[i] \in S
    BY <1>1, ElementOfSeq
  <2>2. QED BY <1>1, <2>1, SubSeqProperties
<1> HIDE DEF front, back
<1>4. /\ front \o s \in Seq(S) /\ Len(front \o s) = at + Len(s)
      /\ \A i \in 1 .. at + Len(s) :
             (front \o s)[i] = IF i <= at THEN mem[i] ELSE s[i - at]
  <2>1. /\ front \o s \in Seq(S) /\ Len(front \o s) = Len(front) + Len(s)
        /\ \A i \in 1 .. Len(front) + Len(s) : (front \o s)[i] =
               IF i <= Len(front) THEN front[i] ELSE s[i - Len(front)]
    BY <1>2, ConcatProperties
  <2>2. ASSUME NEW i \in 1 .. at + Len(s)
        PROVE  (front \o s)[i] = IF i <= at THEN mem[i] ELSE s[i - at]
    <3>1. (front \o s)[i] = IF i <= at THEN front[i] ELSE s[i - at]
      BY <1>2, <2>1
    <3>2. CASE i <= at
      <4>1. i \in 1 .. at
        BY <1>1, <3>2
      <4>2. QED BY <1>2, <3>1, <3>2, <4>1
    <3>3. QED BY <3>1, <3>2
  <2>3. QED BY <1>2, <2>1, <2>2
<1>5. /\ front \o s \o back \in Seq(S) /\ Len(front \o s \o back) = Len(mem)
      /\ \A i \in 1 .. Len(mem) : (front \o s \o back)[i] =
             IF i <= at + Len(s) THEN (front \o s)[i] ELSE back[i - (at + Len(s))]
  <2> DEFINE fs == front \o s
  <2> HIDE DEF fs
  <2>1. fs \in Seq(S) /\ Len(fs) = at + Len(s)
    BY <1>4 DEF fs
  <2>2. /\ fs \o back \in Seq(S) /\ Len(fs \o back) = Len(fs) + Len(back)
        /\ \A i \in 1 .. Len(fs) + Len(back) : (fs \o back)[i] =
               IF i <= Len(fs) THEN fs[i] ELSE back[i - Len(fs)]
    <3>1. fs \in Seq(S) /\ back \in Seq(S)
      BY <1>3, <2>1
    <3>2. QED BY <3>1, ConcatProperties
  <2>3. Len(fs) + Len(back) = Len(mem)
    BY <1>1, <1>3, <2>1
  <2>4. /\ fs \o back \in Seq(S) /\ Len(fs \o back) = Len(mem)
        /\ \A i \in 1 .. Len(mem) : (fs \o back)[i] =
               IF i <= at + Len(s) THEN fs[i] ELSE back[i - (at + Len(s))]
    BY <2>1, <2>2, <2>3
  <2>5. QED BY <2>4 DEF fs
<1>6. Store(mem, at, s) = front \o s \o back
  BY DEF Store, front, back
<1>7. ASSUME NEW i \in 1 .. Len(mem)
      PROVE  (front \o s \o back)[i] = IF i <= at THEN mem[i]
                                       ELSE IF i <= at + Len(s) THEN s[i - at]
                                       ELSE mem[i]
  <2>1. CASE i <= at + Len(s)
    <3>1. i \in 1 .. at + Len(s)
      BY <1>1, <2>1
    <3>2. QED BY <1>4, <1>5, <2>1, <3>1
  <2>2. CASE ~(i <= at + Len(s))
    <3>1. i - (at + Len(s)) \in 1 .. Len(mem) - (at + Len(s))
      BY <1>1, <2>2
    <3>2. at + Len(s) + (i - (at + Len(s))) = i /\ ~(i <= at)
      BY <1>1, <2>2
    <3>3. back[i - (at + Len(s))] = mem[i]
      BY <1>3, <3>1, <3>2
    <3>4. QED BY <1>5, <2>2, <3>2, <3>3
  <2>3. QED BY <2>1, <2>2
<1>8. QED BY <1>5, <1>6, <1>7

(* The bytes of a buffer, one by one.                                      *)
LEMMA UnreadAt ==
    ASSUME NEW S, NEW b, BufferOK(b, S)
    PROVE  \A i \in 1 .. Readable(b) : Unread(b)[i] = b.mem[b.r + i]
<1>1. Unread(b) = SubSeq(b.mem, b.r + 1, b.w)
  BY UnreadIs
<1>2. /\ b.mem \in Seq(S) /\ Len(b.mem) \in Nat /\ b.r \in Nat /\ b.w \in Nat
      /\ b.r <= b.w /\ b.w <= Len(b.mem)
  BY Parts
<1>3. \A i \in b.r + 1 .. b.w : b.mem[i] \in S
  BY <1>2, ElementOfSeq
<1>4. \A i \in 1 .. b.w - (b.r + 1) + 1 :
          SubSeq(b.mem, b.r + 1, b.w)[i] = b.mem[(b.r + 1) + i - 1]
  <2> DEFINE m == b.r + 1
             n == b.w
             mem == b.mem
  <2>1. m \in Int /\ n \in Int /\ \A i \in m .. n : mem[i] \in S
    BY <1>2, <1>3
  <2> HIDE DEF m, n, mem
  <2>2. \A i \in 1 .. n - m + 1 : SubSeq(mem, m, n)[i] = mem[m + i - 1]
    BY <2>1, SubSeqProperties
  <2>3. QED BY <2>2 DEF m, n, mem
<1>5. ASSUME NEW i \in 1 .. Readable(b) PROVE Unread(b)[i] = b.mem[b.r + i]
  <2>1. i \in 1 .. b.w - (b.r + 1) + 1 /\ (b.r + 1) + i - 1 = b.r + i
    BY <1>2 DEF Readable
  <2>2. QED BY <1>1, <1>4, <2>1
<1>6. QED BY <1>5

(* The search for a byte finds the first, if the bytes before pos are not. *)
LEMMA Finds ==
    ASSUME NEW S, NEW b, BufferOK(b, S), NEW c, NEW pos \in 0 .. Readable(b),
           \A i \in 1 .. pos : Unread(b)[i] # c, NEW found, found = FindByte(b, c, pos)
    PROVE  \/ found = -1 /\ \A i \in 1 .. Readable(b) : Unread(b)[i] # c
           \/ /\ found \in 0 .. Readable(b) - 1 /\ found # -1
              /\ Unread(b)[found + 1] = c
              /\ \A i \in 1 .. found : Unread(b)[i] # c
<1> DEFINE n == Readable(b)
           places == {i \in pos .. n - 1 : b.mem[b.r + i + 1] = c}
<1>1. n \in Nat /\ b.r \in Nat /\ pos \in Nat /\ pos <= n
  <2>1. n \in Nat
    BY UnreadIs
  <2>2. b.r \in Nat
    BY Parts
  <2>3. QED BY <2>1, <2>2
<1>2. found = IF places = {} THEN -1 ELSE Min(places)
  BY DEF FindByte
<1>3. \A i \in 1 .. n : Unread(b)[i] = b.mem[b.r + i]
  BY UnreadAt
<1> HIDE DEF n
<1>4. ASSUME NEW i \in 1 .. n, Unread(b)[i] = c PROVE i - 1 \in places
  <2>1. b.r + (i - 1) + 1 = b.r + i
    BY <1>1
  <2>2. b.mem[b.r + (i - 1) + 1] = c
    BY <1>3, <1>4, <2>1
  <2>3. ~(i \in 1 .. pos)
    BY <1>4
  <2>4. i - 1 \in pos .. n - 1
    BY <1>1, <2>3
  <2>5. QED BY <2>2, <2>4
<1>5. CASE places = {}
  BY <1>2, <1>4, <1>5 DEF n
<1>6. CASE places # {}
  <2>1. found \in places /\ \A i \in places : found <= i
    <3>1. places \subseteq Nat
      BY <1>1
    <3> HIDE DEF places
    <3>2. QED BY <1>2, <1>6, <3>1, MinIs
  <2>2. found \in pos .. n - 1 /\ b.mem[b.r + found + 1] = c
    BY <2>1
  <2>3. found + 1 \in 1 .. n /\ b.r + (found + 1) = b.r + found + 1 /\ found \in Nat
    BY <1>1, <2>2
  <2>4. Unread(b)[found + 1] = c
    BY <1>3, <2>2, <2>3
  <2>5. ASSUME NEW i \in 1 .. found, Unread(b)[i] = c PROVE FALSE
    <3>1. i \in 1 .. n /\ i - 1 < found
      BY <1>1, <2>3
    <3>2. i - 1 \in places
      BY <1>4, <2>5, <3>1
    <3> HIDE DEF places
    <3>3. found <= i - 1
      BY <2>1, <3>2
    <3>4. QED BY <2>3, <3>1, <3>3
  <2>6. found \in 0 .. n - 1 /\ found # -1
    BY <1>1, <2>2
  <2>7. QED BY <2>4, <2>5, <2>6 DEF n
<1>7. QED BY <1>5, <1>6

(* Bytes that fit are put behind those that are there.                     *)
LEMMA Receives ==
    ASSUME NEW S, NEW b, BufferOK(b, S), NEW s \in Seq(S), Len(s) <= Writeable(b)
    PROVE  /\ BufferOK(Receive(b, s), S)
           /\ Unread(Receive(b, s)) = Unread(b) \o s
<1> DEFINE mem == Store(b.mem, b.w, s)
           c == Receive(b, s)
<1>1. /\ b.mem \in Seq(S) /\ Len(b.mem) \in Nat /\ Len(b.mem) > 0
      /\ b.r \in Nat /\ b.w \in Nat /\ b.open = TRUE
      /\ b.r <= b.w /\ b.w <= Len(b.mem) /\ Len(s) \in Nat
  BY Parts, LenProperties
<1>2. b.w + Len(s) <= Len(b.mem)
  BY <1>1 DEF Writeable
<1>3. /\ mem \in Seq(S) /\ Len(mem) = Len(b.mem)
      /\ \A i \in 1 .. Len(b.mem) :
             mem[i] = IF i <= b.w THEN b.mem[i]
                      ELSE IF i <= b.w + Len(s) THEN s[i - b.w] ELSE b.mem[i]
  BY <1>1, <1>2, StoreIs
<1>4. /\ c.mem = mem /\ c.r = b.r /\ c.w = b.w + Len(s) /\ c.open = b.open
      /\ DOMAIN c = DOMAIN b
  <2> DEFINE d == [b EXCEPT !.mem = mem]
  <2>1. d.mem = mem /\ d.r = b.r /\ d.w = b.w /\ d.open = b.open /\ DOMAIN d = DOMAIN b
    BY DEF BufferOK
  <2>2. c = Written(d, Len(s))
    BY DEF Receive
  <2> HIDE DEF c, d, mem
  <2>3. Writeable(d) = Len(b.mem) - b.w
    BY <1>1, <1>3, <2>1 DEF Writeable
  <2>4. CASE Len(s) = 0
    BY <1>1, <2>1, <2>2, <2>4 DEF Written
  <2>5. CASE Len(s) > 0
    <3>1. c = [d EXCEPT !.w = d.w + Len(s)]
      BY <1>1, <1>2, <2>2, <2>3, <2>5 DEF Written
    <3>2. QED BY <2>1, <3>1 DEF BufferOK
  <2>6. QED BY <1>1, <2>4, <2>5
<1> HIDE DEF c, mem
<1>5. BufferOK(c, S)
  BY <1>1, <1>2, <1>3, <1>4 DEF BufferOK
<1>6. Unread(c) = Unread(b) \o s
  <2> DEFINE n == b.w - b.r
             k == Len(s)
             t == Unread(b)
  <2>1. n \in Nat /\ k \in Nat /\ n = Readable(b) /\ n + k = Readable(c)
    BY <1>1, <1>4 DEF Readable
  <2>2. t \in Seq(S) /\ Len(t) = n /\ \A i \in 1 .. n : t[i] = b.mem[b.r + i]
    BY <2>1, UnreadIs, UnreadAt
  <2>3. /\ Unread(c) \in Seq(S) /\ Len(Unread(c)) = n + k
        /\ \A i \in 1 .. n + k : Unread(c)[i] = mem[b.r + i]
    <3>1. \A i \in 1 .. Readable(c) : Unread(c)[i] = c.mem[c.r + i]
      BY <1>5, UnreadAt
    <3>2. Unread(c) \in Seq(S) /\ Len(Unread(c)) = Readable(c)
      BY <1>5, UnreadIs
    <3>3. QED BY <1>4, <2>1, <3>1, <3>2
  <2> HIDE DEF t
  <2>4. /\ t \o s \in Seq(S) /\ Len(t \o s) = n + k
        /\ \A i \in 1 .. n + k : (t \o s)[i] = IF i <= n THEN t[i] ELSE s[i - n]
    <3>1. /\ t \o s \in Seq(S) /\ Len(t \o s) = Len(t) + Len(s)
          /\ \A i \in 1 .. Len(t) + Len(s) :
                 (t \o s)[i] = IF i <= Len(t) THEN t[i] ELSE s[i - Len(t)]
      BY <2>2, ConcatProperties
    <3>2. QED BY <2>2, <3>1
  <2>5. ASSUME NEW i \in 1 .. n + k PROVE Unread(c)[i] = (t \o s)[i]
    <3>1. b.r + i \in 1 .. Len(b.mem) /\ i \in Nat
      BY <1>1, <1>2
    <3>2. CASE i <= n
      <4>1. i \in 1 .. n /\ b.r + i <= b.w
        BY <1>1, <3>1, <3>2
      <4>2. mem[b.r + i] = b.mem[b.r + i]
        BY <1>3, <3>1, <4>1
      <4>3. QED BY <2>2, <2>3, <2>4, <3>2, <4>1, <4>2
    <3>3. CASE ~(i <= n)
      <4>1. ~(b.r + i <= b.w) /\ b.r + i <= b.w + Len(s) /\ (b.r + i) - b.w = i - n
        BY <1>1, <3>1, <3>3
      <4>2. mem[b.r + i] = s[(b.r + i) - b.w]
        BY <1>3, <3>1, <4>1
      <4>3. QED BY <2>3, <2>4, <3>3, <4>1, <4>2
    <3>4. QED BY <3>2, <3>3
  <2>6. Unread(c) = t \o s
    BY <2>3, <2>4, <2>5, SeqEqual
  <2>7. QED BY <2>6 DEF t
<1>7. QED BY <1>5, <1>6 DEF c

(* The capacities that the loop of adjust_util tries.                      *)
Doubled(w, first, n) == w = [j \in 0 .. n |-> IF j = 0 THEN first ELSE 2 * w[j - 1]]

LEMMA DoubledExists ==
    ASSUME NEW first
    PROVE  \A n \in Nat : \E w : Doubled(w, first, n)
<1> DEFINE T == {n \in Nat : \E w : Doubled(w, first, n)}
<1>1. 0 \in T
  <2>1. Doubled([j \in 0 .. 0 |-> first], first, 0)
    BY DEF Doubled
  <2>2. QED BY <2>1
<1>2. ASSUME NEW n \in Nat, n \in T PROVE n + 1 \in T
  <2>1. PICK g : Doubled(g, first, n)
    BY <1>2
  <2>2. \A j \in 0 .. n : g[j] = IF j = 0 THEN first ELSE 2 * g[j - 1]
    BY <2>1 DEF Doubled
  <2> DEFINE h == [j \in 0 .. n + 1 |-> IF j <= n THEN g[j] ELSE 2 * g[n]]
  <2>3. ASSUME NEW j \in 0 .. n + 1 PROVE h[j] = IF j = 0 THEN first ELSE 2 * h[j - 1]
    <3>1. CASE j = 0
      BY <2>2, <3>1
    <3>2. CASE j # 0 /\ j <= n
      BY <2>2, <3>2
    <3>3. CASE j = n + 1
      BY <3>3
    <3>4. QED BY <3>1, <3>2, <3>3
  <2>4. Doubled(h, first, n + 1)
    <3>1. h = [j \in 0 .. n + 1 |-> h[j]]
      OBVIOUS
    <3> HIDE DEF h
    <3>2. QED BY <3>1, <2>3 DEF Doubled
  <2> HIDE DEF h
  <2>5. QED BY <2>4
<1>3. QED
  <2> HIDE DEF T
  <2>1. \A n \in Nat : n \in T
    BY <1>1, <1>2, SetInduction
  <2>2. QED BY <2>1 DEF T

(* Doubling makes the capacity as large as is wanted.                      *)
LEMMA DoubledGrows ==
    ASSUME NEW first \in Nat, first > 0, NEW n \in Nat, NEW w, Doubled(w, first, n)
    PROVE  \A j \in 0 .. n : w[j] \in Nat /\ w[j] > j
<1> DEFINE T == {j \in Nat : j <= n => w[j] \in Nat /\ w[j] > j}
<1>1. \A j \in 0 .. n : w[j] = IF j = 0 THEN first ELSE 2 * w[j - 1]
  BY DEF Doubled
<1>2. 0 \in T
  BY <1>1
<1>3. ASSUME NEW j \in Nat, j \in T PROVE j + 1 \in T
  <2>1. SUFFICES ASSUME j + 1 <= n PROVE w[j + 1] \in Nat /\ w[j + 1] > j + 1
    OBVIOUS
  <2>2. w[j + 1] = 2 * w[j]
    <3>1. j + 1 \in 0 .. n /\ (j + 1) - 1 = j /\ j + 1 # 0
      BY <2>1
    <3>2. QED BY <1>1, <3>1
  <2>3. w[j] \in Nat /\ w[j] > j
    BY <1>3, <2>1
  <2>4. QED BY <2>2, <2>3
<1>4. \A j \in Nat : j \in T
  <2> HIDE DEF T
  <2>1. QED BY <1>2, <1>3, SetInduction
<1>5. QED BY <1>4

(* Unless the bytes are moved in place, making room for n changes none and *)
(* leaves that room.                                                       *)
LEMMA Adjusts ==
    ASSUME NEW S, NEW b, BufferOK(b, S), NEW n \in Nat, ~Compacts(b, n)
    PROVE  /\ BufferOK(Adjust(b, n), S)
           /\ Unread(Adjust(b, n)) = Unread(b)
           /\ n <= Writeable(Adjust(b, n))
<1> DEFINE c == Adjust(b, n)
           need == Readable(b) + n
           doubled == CHOOSE w : Doubled(w, Len(b.mem), need)
           fit == {j \in 1 .. need : doubled[j] >= need}
           k == Min(fit)
           size == doubled[k]
           mem == Store(Blank(size), 0, Unread(b))
<1>1. /\ b.mem \in Seq(S) /\ Len(b.mem) \in Nat /\ Len(b.mem) > 0
      /\ b.r \in Nat /\ b.w \in Nat /\ b.open = TRUE
      /\ b.r <= b.w /\ b.w <= Len(b.mem)
  BY Parts
<1>2. /\ Unread(b) \in Seq(S) /\ Len(Unread(b)) = Readable(b)
      /\ Readable(b) \in Nat /\ Readable(b) = b.w - b.r
  BY UnreadIs DEF Readable
<1>3. CASE ~NeedsRoom(b, n)
  <2>1. c = b
    BY <1>3 DEF Adjust
  <2>2. n <= Writeable(b)
    BY <1>1, <1>3 DEF NeedsRoom, Writeable
  <2>3. QED BY <2>1, <2>2
<1>4. CASE NeedsRoom(b, n)
  <2>1. c = [b EXCEPT !.mem = mem, !.r = 0, !.w = Readable(b)]
    BY <1>4 DEF Adjust, Doubled
  <2>2. n > Len(b.mem) - b.w
    BY <1>1, <1>4 DEF NeedsRoom, Writeable
  <2>3. need \in Nat /\ need >= 1
    BY <1>1, <1>2, <2>2
  <2>4. \A j \in 0 .. need : doubled[j] \in Nat /\ doubled[j] > j
    <3>1. \E w : Doubled(w, Len(b.mem), need)
      BY <2>3, DoubledExists
    <3>2. Doubled(doubled, Len(b.mem), need)
      BY <3>1
    <3> HIDE DEF doubled, need
    <3>3. QED BY <1>1, <2>3, <3>2, DoubledGrows
  <2> HIDE DEF doubled
  <2>5. k \in fit
    <3>1. need \in fit /\ fit \subseteq Nat
      BY <2>3, <2>4
    <3> HIDE DEF fit
    <3>2. QED BY <3>1, MinIs
  <2>6. size \in Nat /\ size >= need
    BY <2>3, <2>4, <2>5
  <2> HIDE DEF k, size
  <2>7. Blank(size) \in Seq(S) /\ Len(Blank(size)) = size
    BY <2>6, BlankIs, Parts
  <2>8. /\ mem \in Seq(S) /\ Len(mem) = size
        /\ \A i \in 1 .. Readable(b) : mem[i] = Unread(b)[i]
    <3> DEFINE fresh == Blank(size)
    <3> HIDE DEF fresh
    <3>1. fresh \in Seq(S) /\ Len(fresh) = size
      BY <2>7 DEF fresh
    <3>2. 0 \in 0 .. Len(fresh) /\ 0 + Len(Unread(b)) <= Len(fresh)
      BY <1>2, <2>6, <3>1
    <3>3. /\ Store(fresh, 0, Unread(b)) \in Seq(S)
          /\ Len(Store(fresh, 0, Unread(b))) = Len(fresh)
          /\ \A i \in 1 .. Len(fresh) : Store(fresh, 0, Unread(b))[i] =
                 IF i <= 0 THEN fresh[i]
                 ELSE IF i <= 0 + Len(Unread(b)) THEN Unread(b)[i - 0] ELSE fresh[i]
      BY <1>2, <3>1, <3>2, StoreIs
    <3>4. ASSUME NEW i \in 1 .. Readable(b)
          PROVE  Store(fresh, 0, Unread(b))[i] = Unread(b)[i]
      <4>1. i \in 1 .. Len(fresh) /\ ~(i <= 0) /\ i <= 0 + Len(Unread(b)) /\ i - 0 = i
        BY <1>2, <2>6, <3>1
      <4>2. QED BY <3>3, <4>1
    <3>5. QED BY <3>1, <3>3, <3>4 DEF fresh
  <2> HIDE DEF mem
  <2>9. /\ c.mem = mem /\ c.r = 0 /\ c.w = Readable(b) /\ c.open = b.open
        /\ DOMAIN c = DOMAIN b
    BY <2>1 DEF BufferOK
  <2> HIDE DEF c
  <2>10. BufferOK(c, S)
    <3>1. size > 0 /\ Readable(b) \in 0 .. size
      BY <1>2, <2>3, <2>6
    <3>2. QED BY <1>2, <2>8, <2>9, <3>1 DEF BufferOK
  <2>11. Unread(c) = Unread(b)
    <3>1. Readable(c) = Readable(b)
      BY <1>2, <2>9 DEF Readable
    <3>2. /\ Unread(c) \in Seq(S) /\ Len(Unread(c)) = Readable(b)
          /\ \A i \in 1 .. Readable(b) : Unread(c)[i] = mem[0 + i]
      BY <2>9, <2>10, <3>1, UnreadIs, UnreadAt
    <3>3. \A i \in 1 .. Readable(b) : Unread(c)[i] = Unread(b)[i]
      BY <2>8, <3>2
    <3>4. QED BY <1>2, <3>2, <3>3, SeqEqual
  <2>12. n <= Writeable(c)
    BY <1>1, <1>2, <2>6, <2>8, <2>9 DEF Writeable
  <2>13. QED BY <2>10, <2>11, <2>12 DEF c
<1>5. QED BY <1>3, <1>4

(* Bytes moved in place stay inside the allocation.                        *)
LEMMA CompactionStays ==
    ASSUME NEW S, NEW b, BufferOK(b, S), NEW n \in Nat, Compacts(b, n)
    PROVE  BufferOK(Adjust(b, n), S)
<1> DEFINE c == Adjust(b, n)
           mem == Store(b.mem, 0, Unread(b))
<1>1. /\ b.mem \in Seq(S) /\ Len(b.mem) \in Nat /\ Len(b.mem) > 0
      /\ b.r \in Nat /\ b.w \in Nat /\ b.open = TRUE
      /\ b.r <= b.w /\ b.w <= Len(b.mem)
  BY Parts
<1>2. /\ Unread(b) \in Seq(S) /\ Len(Unread(b)) = Readable(b)
      /\ Readable(b) \in Nat /\ Readable(b) = b.w - b.r
  BY UnreadIs DEF Readable
<1>3. c = [b EXCEPT !.mem = mem, !.r = 0]
  BY DEF Adjust, Compacts
<1>4. mem \in Seq(S) /\ Len(mem) = Len(b.mem)
  <2>1. 0 \in 0 .. Len(b.mem) /\ 0 + Len(Unread(b)) <= Len(b.mem)
    BY <1>1, <1>2
  <2>2. QED BY <1>1, <1>2, <2>1, StoreIs
<1> HIDE DEF mem
<1>5. c.mem = mem /\ c.r = 0 /\ c.w = b.w /\ c.open = b.open /\ DOMAIN c = DOMAIN b
  BY <1>3 DEF BufferOK
<1> HIDE DEF c
<1>6. BufferOK(c, S)
  BY <1>1, <1>4, <1>5 DEF BufferOK
<1>7. QED BY <1>6 DEF c

LEMMA NewIs ==
    ASSUME NEW S, Junk \in S, NEW capacity \in Nat, capacity > 0
    PROVE
    /\ BufferOK(NewBuffer(capacity), S)
    /\ Unread(NewBuffer(capacity)) = <<>>
    /\ \A n \in Nat : ~Compacts(NewBuffer(capacity), n)
<1> DEFINE b == NewBuffer(capacity)
<1>1. capacity \in Nat /\ capacity > 0
  OBVIOUS
<1>2. /\ b.mem = Blank(capacity) /\ b.r = 0 /\ b.w = 0 /\ b.open = TRUE
      /\ Junk \in S
    /\ DOMAIN b = {"mem", "r", "w", "open"}
  BY DEF NewBuffer
<1>3. b.mem \in Seq(S) /\ Len(b.mem) = capacity
  BY <1>1, <1>2, BlankIs
<1> HIDE DEF b
<1>4. BufferOK(b, S)
  BY <1>1, <1>2, <1>3 DEF BufferOK
<1>5. Unread(b) = <<>>
  <2>1. Len(Unread(b)) = 0 /\ Unread(b) \in Seq(S)
    BY <1>2, <1>4, UnreadIs DEF Readable
  <2>2. QED BY <2>1, EmptySeq
<1>6. ASSUME NEW n \in Nat PROVE ~Compacts(b, n)
  <2>1. Capacity(b) = capacity /\ Readable(b) = 0
        /\ Writeable(b) = capacity
    BY <1>1, <1>2, <1>3 DEF Capacity, Readable, Writeable
  <2>2. QED BY <1>1, <2>1 DEF Compacts, NeedsRoom
<1>7. QED BY <1>4, <1>5, <1>6 DEF b

(* Bytes appended to a new buffer are the bytes that it holds.             *)
LEMMA NewHolds ==
    ASSUME NEW S, Junk \in S, NEW s \in Seq(S), NEW capacity \in Nat, capacity > 0
    PROVE  /\ BufferOK(AppendBytes(NewBuffer(capacity), s), S)
           /\ Unread(AppendBytes(NewBuffer(capacity), s)) = s
<1> DEFINE b == NewBuffer(capacity)
           c == Adjust(b, Len(s))
<1>1. Len(s) \in Nat
  BY LenProperties
<1>2. AppendBytes(b, s) = Receive(c, s)
  BY DEF AppendBytes, NewBuffer
<1> HIDE DEF b
<1>3. BufferOK(b, S) /\ Unread(b) = <<>> /\ ~Compacts(b, Len(s))
  BY <1>1, NewIs DEF b
<1>4. BufferOK(c, S) /\ Unread(c) = <<>> /\ Len(s) <= Writeable(c)
  BY <1>1, <1>3, Adjusts
<1> HIDE DEF c
<1>5. BufferOK(Receive(c, s), S) /\ Unread(Receive(c, s)) = Unread(c) \o s
  BY <1>4, Receives
<1>6. <<>> \o s = s
  BY ConcatEmptySeq
<1>7. QED BY <1>2, <1>4, <1>5, <1>6 DEF b

-----------------------------------------------------------------------------
(* FlattenSeq: each piece begins where those before it end.                *)

(* The sequences that FlattenSeq makes of the first pieces.                *)
Flattens(f, ss, n) ==
    f = [i \in 1 .. n |-> IF i = 1 THEN ss[i] ELSE f[i - 1] \o ss[i]]

LEMMA FlattensExists ==
    ASSUME NEW ss
    PROVE  \A n \in Nat : \E f : Flattens(f, ss, n)
<1> DEFINE T == {n \in Nat : \E f : Flattens(f, ss, n)}
<1>1. 0 \in T
  <2> DEFINE f == [i \in 1 .. 0 |-> ss[i]]
  <2>1. f = [i \in 1 .. 0 |-> IF i = 1 THEN ss[i] ELSE f[i - 1] \o ss[i]]
    OBVIOUS
  <2> HIDE DEF f
  <2>2. Flattens(f, ss, 0)
    BY <2>1 DEF Flattens
  <2>3. QED BY <2>2
<1>2. ASSUME NEW n \in Nat, n \in T PROVE n + 1 \in T
  <2>1. PICK g : Flattens(g, ss, n)
    BY <1>2
  <2>2. \A i \in 1 .. n : g[i] = IF i = 1 THEN ss[i] ELSE g[i - 1] \o ss[i]
    BY <2>1 DEF Flattens
  <2> DEFINE last == IF n = 0 THEN ss[1] ELSE g[n] \o ss[n + 1]
             h == [i \in 1 .. n + 1 |-> IF i <= n THEN g[i] ELSE last]
  <2>3. ASSUME NEW i \in 1 .. n + 1
        PROVE  h[i] = IF i = 1 THEN ss[i] ELSE h[i - 1] \o ss[i]
    <3>1. CASE i <= n
      <4>1. h[i] = g[i] /\ (i # 1 => h[i - 1] = g[i - 1])
        BY <3>1
      <4> HIDE DEF h
      <4>2. QED BY <2>2, <3>1, <4>1
    <3>2. CASE i = n + 1 /\ n = 0
      BY <3>2
    <3>3. CASE i = n + 1 /\ n # 0
      <4>1. h[i] = last /\ last = g[n] \o ss[n + 1]
        <5> HIDE DEF last
        <5>1. h[i] = last
          BY <3>3
        <5>2. QED BY <3>3, <5>1 DEF last
      <4>2. h[i - 1] = g[n]
        BY <3>3
      <4>3. i # 1
        BY <3>3
      <4> HIDE DEF h, last
      <4>4. QED BY <3>3, <4>1, <4>2, <4>3
    <3>4. QED BY <3>1, <3>2, <3>3
  <2>4. Flattens(h, ss, n + 1)
    <3>1. h = [i \in 1 .. n + 1 |-> h[i]]
      OBVIOUS
    <3> HIDE DEF h
    <3>2. QED BY <3>1, <2>3 DEF Flattens
  <2> HIDE DEF h
  <2>5. QED BY <2>4
<1>3. QED
  <2> HIDE DEF T
  <2>1. \A n \in Nat : n \in T
    BY <1>1, <1>2, SetInduction
  <2>2. QED BY <2>1 DEF T

(* Where the pieces lie: off[j] is what the first j of them make.          *)
Places(off, ss, s) ==
    /\ off \in [0 .. Len(ss) -> Nat]
    /\ off[0] = 0 /\ off[Len(ss)] = Len(s)
    /\ \A j \in 1 .. Len(ss) : off[j] = off[j - 1] + Len(ss[j]) /\ off[j] <= Len(s)
    /\ \A j \in 1 .. Len(ss) : \A i \in 1 .. Len(ss[j]) : s[off[j - 1] + i] = ss[j][i]

LEMMA FlattenPlaces ==
    ASSUME NEW S, NEW ss \in Seq(Seq(S))
    PROVE  /\ FlattenSeq(ss) \in Seq(S)
           /\ \E off : Places(off, ss, FlattenSeq(ss))
<1> DEFINE n == Len(ss)
           f == CHOOSE w : Flattens(w, ss, n)
           off == [j \in 0 .. n |-> IF j = 0 THEN 0 ELSE Len(f[j])]
<1>1. n \in Nat /\ \A j \in 1 .. n : ss[j] \in Seq(S) /\ Len(ss[j]) \in Nat
  BY LenProperties, ElementOfSeq
<1>2. FlattenSeq(ss) = IF n = 0 THEN ss ELSE f[n]
  BY ZenonT(40) DEF FlattenSeq, Flattens
<1>3. Flattens(f, ss, n)
  BY <1>1, FlattensExists
<1>4. \A i \in 1 .. n : f[i] = IF i = 1 THEN ss[i] ELSE f[i - 1] \o ss[i]
  BY <1>3 DEF Flattens
<1> HIDE DEF f, n
<1>5. CASE n = 0
  <2>1. ss = <<>>
    BY <1>5, EmptySeq DEF n
  <2>2. ss \in Seq(S) /\ Len(ss) = 0 /\ FlattenSeq(ss) = ss
    BY <1>2, <1>5, <2>1, EmptySeq
  <2>3. Places(off, ss, FlattenSeq(ss))
    BY <1>5, <2>2 DEF Places, n
  <2>4. QED BY <2>2, <2>3
<1>6. CASE n > 0
  <2> DEFINE Lies(k, j) == /\ off[j - 1] \in Nat /\ off[j] = off[j - 1] + Len(ss[j])
                           /\ off[j] <= Len(f[k])
                           /\ \A i \in 1 .. Len(ss[j]) : f[k][off[j - 1] + i] = ss[j][i]
             Good(k) == f[k] \in Seq(S) /\ \A j \in 1 .. k : Lies(k, j)
             T == {k \in Nat : k \in 1 .. n => Good(k)}
  <2>1. \A j \in 1 .. n : off[j] = Len(f[j])
    BY <1>1
  <2>2. off[0] = 0 /\ off = [j \in 0 .. n |-> off[j]]
    BY <1>1
  <2> HIDE DEF off, Lies, Good
  <2>3. 0 \in T
    OBVIOUS
  <2>4. ASSUME NEW k \in Nat, k \in T PROVE k + 1 \in T
    <3>1. SUFFICES ASSUME k + 1 \in 1 .. n PROVE Good(k + 1)
      OBVIOUS
    <3>2. CASE k = 0
      <4>1. f[1] = ss[1] /\ 1 \in 1 .. n
        BY <1>1, <1>4, <1>6
      <4>2. f[1] \in Seq(S) /\ off[1] = Len(ss[1]) /\ Len(ss[1]) \in Nat
        BY <1>1, <2>1, <4>1
      <4>3. Lies(1, 1)
        <5>1. 1 - 1 = 0
          OBVIOUS
        <5>2. \A i \in 1 .. Len(ss[1]) : 0 + i = i
          BY <4>2
        <5>3. off[1] = 0 + Len(ss[1]) /\ off[1] <= Len(f[1])
          BY <4>1, <4>2
        <5>4. off[1 - 1] = 0
          BY <2>2, <5>1
        <5>5. \A i \in 1 .. Len(ss[1]) : f[1][off[1 - 1] + i] = ss[1][i]
          BY <4>1, <5>2, <5>4
        <5>6. off[1 - 1] \in Nat /\ off[1] = off[1 - 1] + Len(ss[1])
          BY <5>3, <5>4
        <5>7. QED BY <5>3, <5>5, <5>6 DEF Lies
      <4>4. Good(1)
        <5>1. \A j \in 1 .. 1 : j = 1
          OBVIOUS
        <5>2. QED BY <4>2, <4>3, <5>1 DEF Good
      <4>5. QED BY <3>2, <4>4
    <3>3. CASE k > 0
      <4> DEFINE t == ss[k + 1]
                 z == Len(f[k])
      <4>0. (k + 1) - 1 = k /\ k + 1 # 1 /\ k \in 1 .. n
        BY <1>1, <3>1, <3>3
      <4>1. f[k + 1] = f[k] \o t
        BY <1>4, <3>1, <4>0
      <4>2. Good(k)
        BY <2>4, <4>0
      <4>3. f[k] \in Seq(S) /\ t \in Seq(S) /\ Len(t) \in Nat /\ z \in Nat
        BY <1>1, <3>1, <4>2, LenProperties DEF Good
      <4>4. /\ f[k + 1] \in Seq(S) /\ Len(f[k + 1]) = z + Len(t)
            /\ \A i \in 1 .. z + Len(t) :
                 f[k + 1][i] = IF i <= z THEN f[k][i] ELSE t[i - z]
        <5> DEFINE g == f[k]
        <5>1. g \in Seq(S) /\ t \in Seq(S)
          BY <4>3
        <5> HIDE DEF g, t
        <5>2. /\ g \o t \in Seq(S) /\ Len(g \o t) = Len(g) + Len(t)
              /\ \A i \in 1 .. Len(g) + Len(t) :
                   (g \o t)[i] = IF i <= Len(g) THEN g[i] ELSE t[i - Len(g)]
          BY <5>1, ConcatProperties
        <5>3. QED BY <4>1, <5>2 DEF g
      <4>5. off[k + 1] = Len(f[k + 1]) /\ off[k] = z
        BY <2>1, <3>1, <4>0
      <4> HIDE DEF t, z
      <4>6. ASSUME NEW j \in 1 .. k PROVE Lies(k + 1, j)
        <5> DEFINE a == off[j - 1]
                   m == Len(ss[j])
        <5>1. /\ a \in Nat /\ off[j] = a + m /\ off[j] <= z
              /\ \A i \in 1 .. m : f[k][a + i] = ss[j][i]
          BY <4>2 DEF Good, Lies, z
        <5>2. m \in Nat
          <6>1. j \in 1 .. n
            BY <1>1, <4>0
          <6>2. QED BY <1>1, <6>1
        <5> HIDE DEF a, m
        <5>3. ASSUME NEW i \in 1 .. m PROVE f[k + 1][a + i] = ss[j][i]
          <6>1. a + i \in 1 .. z + Len(t) /\ a + i <= z
            BY <4>3, <5>1, <5>2
          <6>2. f[k + 1][a + i] = f[k][a + i]
            BY <4>4, <6>1
          <6>3. QED BY <5>1, <6>2
        <5>4. off[j] <= Len(f[k + 1])
          BY <4>3, <4>4, <5>1, <5>2
        <5>5. QED BY <5>1, <5>3, <5>4 DEF Lies, a, m
      <4>7. Lies(k + 1, k + 1)
        <5>1. ASSUME NEW i \in 1 .. Len(t) PROVE f[k + 1][z + i] = t[i]
          <6>1. z + i \in 1 .. z + Len(t) /\ ~(z + i <= z) /\ (z + i) - z = i
            BY <4>3
          <6>2. QED BY <4>4, <6>1
        <5>2. z + Len(t) <= z + Len(t)
          BY <4>3
        <5>3. QED BY <4>0, <4>3, <4>4, <4>5, <5>1, <5>2 DEF Lies, t
      <4>8. \A j \in 1 .. k + 1 : j \in 1 .. k \/ j = k + 1
        OBVIOUS
      <4>9. QED BY <4>4, <4>6, <4>7, <4>8 DEF Good
    <3>4. QED BY <3>2, <3>3
  <2>5. n \in T /\ n \in 1 .. n
    <3> HIDE DEF T
    <3>1. \A k \in Nat : k \in T
      BY <2>3, <2>4, SetInduction
    <3>2. QED BY <1>1, <1>6, <3>1
  <2>6. Good(n)
    BY <2>5
  <2>7. off[n] = Len(f[n])
    BY <2>1, <2>5
  <2>8. \A j \in 1 .. n : off[j] \in Nat
    <3> SUFFICES ASSUME NEW j \in 1 .. n PROVE off[j] \in Nat
      OBVIOUS
    <3>1. off[j - 1] \in Nat /\ off[j] = off[j - 1] + Len(ss[j]) /\ Len(ss[j]) \in Nat
      BY <1>1, <2>6 DEF Good, Lies
    <3>2. QED BY <3>1
  <2>9. off \in [0 .. n -> Nat]
    <3>1. \A j \in 0 .. n : j = 0 \/ j \in 1 .. n
      BY <1>1
    <3>2. ASSUME NEW j \in 0 .. n PROVE off[j] \in Nat
      <4>1. CASE j = 0
        BY <2>2, <4>1
      <4>2. QED BY <2>8, <3>1, <4>1
    <3>3. QED BY <2>2, <3>2
  <2>10. FlattenSeq(ss) = f[n]
    BY <1>1, <1>2, <1>6
  <2>11. Places(off, ss, f[n])
    BY <2>2, <2>6, <2>7, <2>9 DEF Places, Good, Lies, n
  <2>12. QED BY <2>6, <2>10, <2>11 DEF Good
<1>7. QED BY <1>1, <1>5, <1>6

(* One more piece comes behind the others.                                 *)
LEMMA FlattenAppend ==
    ASSUME NEW S, NEW ss \in Seq(Seq(S)), NEW t \in Seq(S)
    PROVE  FlattenSeq(Append(ss, t)) = FlattenSeq(ss) \o t
<1> DEFINE n == Len(ss)
           st == Append(ss, t)
           f == CHOOSE w : Flattens(w, ss, n)
           g == CHOOSE w : Flattens(w, st, Len(st))
<1>1. /\ n \in Nat /\ Len(st) = n + 1 /\ st[n + 1] = t
      /\ \A i \in 1 .. n : st[i] = ss[i]
  BY LenProperties, AppendProperties
<1>2. FlattenSeq(ss) = IF n = 0 THEN ss ELSE f[n]
  BY ZenonT(40) DEF FlattenSeq, Flattens
<1>3. FlattenSeq(st) = IF Len(st) = 0 THEN st ELSE g[Len(st)]
  BY ZenonT(40) DEF FlattenSeq, Flattens
<1>4. Flattens(f, ss, n) /\ Flattens(g, st, Len(st))
  <2>1. (\E w : Flattens(w, ss, n)) /\ (\E w : Flattens(w, st, Len(st)))
    <3> HIDE DEF st, n
    <3>1. n \in Nat /\ Len(st) \in Nat
      BY <1>1
    <3>2. \E w : Flattens(w, ss, n)
      BY <3>1, FlattensExists
    <3>3. \E w : Flattens(w, st, Len(st))
      BY <3>1, FlattensExists
    <3>4. QED BY <3>2, <3>3
  <2>2. QED BY <2>1
<1>5. /\ \A i \in 1 .. n : f[i] = IF i = 1 THEN ss[i] ELSE f[i - 1] \o ss[i]
      /\ \A i \in 1 .. n + 1 : g[i] = IF i = 1 THEN st[i] ELSE g[i - 1] \o st[i]
  <2> HIDE DEF f, g, st, n
  <2>1. QED BY <1>1, <1>4 DEF Flattens
<1> HIDE DEF f, g, st
<1>6. \A i \in 1 .. n : g[i] = f[i]
  <2> DEFINE T == {i \in Nat : i \in 1 .. n => g[i] = f[i]}
  <2>1. 0 \in T
    OBVIOUS
  <2>2. ASSUME NEW i \in Nat, i \in T PROVE i + 1 \in T
    <3>1. SUFFICES ASSUME i + 1 \in 1 .. n PROVE g[i + 1] = f[i + 1]
      OBVIOUS
    <3>2. i + 1 \in 1 .. n + 1 /\ st[i + 1] = ss[i + 1] /\ (i + 1) - 1 = i
      BY <1>1, <3>1
    <3>3. CASE i = 0
      BY <1>5, <3>1, <3>2, <3>3
    <3>4. CASE i > 0
      <4>1. i \in 1 .. n /\ i + 1 # 1
        BY <1>1, <3>1, <3>4
      <4>2. g[i] = f[i]
        BY <2>2, <4>1
      <4>3. f[i + 1] = f[i] \o ss[i + 1]
        BY <1>5, <3>1, <3>2, <4>1
      <4>4. g[i + 1] = g[i] \o st[i + 1]
        BY <1>5, <3>2, <4>1
      <4>5. QED BY <3>2, <4>2, <4>3, <4>4
    <3>5. QED BY <3>3, <3>4
  <2>3. QED
    <3> HIDE DEF T
    <3>1. \A i \in Nat : i \in T
      BY <2>1, <2>2, SetInduction
    <3>2. QED BY <3>1 DEF T
<1>7. CASE n = 0
  <2>1. ss = <<>> /\ FlattenSeq(ss) = <<>>
    BY <1>2, <1>7, EmptySeq
  <2>2. 1 \in 1 .. n + 1 /\ Len(st) = 1 /\ st[1] = t
    BY <1>1, <1>7
  <2>3. g[1] = t
    BY <1>5, <2>2
  <2>4. <<>> \o t = t
    BY ConcatEmptySeq
  <2>5. QED BY <1>3, <2>1, <2>2, <2>3, <2>4 DEF st
<1>8. CASE n > 0
  <2>1. n + 1 \in 1 .. n + 1 /\ n + 1 # 1 /\ (n + 1) - 1 = n /\ n \in 1 .. n /\ n + 1 # 0
    BY <1>1, <1>8
  <2>2. g[n + 1] = f[n] \o t
    BY <1>1, <1>5, <1>6, <2>1
  <2>3. FlattenSeq(ss) = f[n]
    BY <1>2, <1>8
  <2>4. FlattenSeq(st) = g[n + 1]
    BY <1>1, <1>3, <2>1
  <2>5. QED BY <2>2, <2>3, <2>4 DEF st
<1>9. QED BY <1>1, <1>7, <1>8

(* The bytes of two sequences that are put together.                       *)
LEMMA Joins ==
    ASSUME NEW L, NEW s \in Seq(L), NEW t \in Seq(L)
    PROVE  /\ s \o t \in Seq(L) /\ Len(s) \in Nat /\ Len(t) \in Nat
           /\ Len(s \o t) = Len(s) + Len(t)
           /\ \A i \in 1 .. Len(s) : (s \o t)[i] = s[i]
           /\ \A i \in 1 .. Len(t) : (s \o t)[Len(s) + i] = t[i]
<1>1. /\ s \o t \in Seq(L) /\ Len(s) \in Nat /\ Len(t) \in Nat
      /\ Len(s \o t) = Len(s) + Len(t)
      /\ \A i \in 1 .. Len(s) + Len(t) : (s \o t)[i] =
                     IF i <= Len(s) THEN s[i] ELSE t[i - Len(s)]
  BY LenProperties, ConcatProperties
<1> DEFINE st == s \o t
           m == Len(s)
           n == Len(t)
<1> HIDE DEF st, m, n
<1>2. /\ m \in Nat /\ n \in Nat
      /\ \A i \in 1 .. m + n : st[i] = IF i <= m THEN s[i] ELSE t[i - m]
  BY <1>1 DEF st, m, n
<1>3. ASSUME NEW i \in 1 .. m PROVE st[i] = s[i]
  <2>1. i \in 1 .. m + n /\ i <= m
    BY <1>2
  <2>2. QED BY <1>2, <2>1
<1>4. ASSUME NEW i \in 1 .. n PROVE st[m + i] = t[i]
  <2>1. m + i \in 1 .. m + n /\ ~(m + i <= m) /\ (m + i) - m = i
    BY <1>2
  <2>2. QED BY <1>2, <2>1
<1>5. QED BY <1>1, <1>3, <1>4 DEF st, m, n
=============================================================================
