----------------------------- MODULE DictProofs -----------------------------
(***************************************************************************)
(* A dictionary that is not copied keeps its table and its chain together: *)
(* proofs about Dict's Spec, for all sets of keys, values and nodes.  They *)
(* rest on what the operators of RobinTable do to a table, which comes     *)
(* first.                                                                  *)
(***************************************************************************)
EXTENDS Dict, RobinTable, SequenceTheorems, FiniteSetTheorems, TLAPS

(***************************************************************************)
(* THE TABLE, for every capacity.  The probing loops are functions on      *)
(* numbers: what they compute is shown by induction, which is taken here   *)
(* from the fact that a set of natural numbers that is not empty has a     *)
(* least one.                                                              *)
(***************************************************************************)

-----------------------------------------------------------------------------
(* Induction.                                                              *)

LEMMA LeastExists ==
    ASSUME NEW T, T \subseteq Nat, T # {}
    PROVE  \E x \in T : \A y \in T : x <= y
<1> DEFINE below(n) == 1 .. n
           segments == {below(n) : n \in T}
<1>1. segments \subseteq FiniteSubsetsOf(Nat)
  <2>1. \A n \in T : below(n) \subseteq Nat /\ IsFiniteSet(below(n))
    BY FS_Interval
  <2>2. QED BY <2>1 DEF FiniteSubsetsOf
<1>2. segments # {}
  OBVIOUS
<1>3. PICK s \in segments : \A t \in segments : <<t, s>> \notin StrictSubsetOrdering(Nat)
  <2> HIDE DEF segments
  <2>1. IsWellFoundedOn(StrictSubsetOrdering(Nat), FiniteSubsetsOf(Nat))
    BY FS_StrictSubsetOrderingWellFounded
  <2>2. QED BY <1>1, <1>2, <2>1, WFMin
<1>4. PICK x \in T : s = below(x)
  OBVIOUS
<1>5. ASSUME NEW y \in T, y < x PROVE FALSE
  <2>1. below(y) \in SUBSET Nat /\ below(x) \in SUBSET Nat
    OBVIOUS
  <2>2. below(y) \subseteq below(x)
    BY <1>5
  <2>3. x \in below(x) /\ x \notin below(y)
    BY <1>5
  <2>4. <<below(y), below(x)>> \in StrictSubsetOrdering(Nat)
    BY <2>1, <2>2, <2>3 DEF StrictSubsetOrdering
  <2>5. QED BY <1>3, <1>4, <2>4
<1>6. QED BY <1>5

(* Induction on a set of numbers.                                          *)
LEMMA SetInduction ==
    ASSUME NEW T, 0 \in T, \A n \in Nat : n \in T => n + 1 \in T
    PROVE  \A n \in Nat : n \in T
<1> SUFFICES ASSUME Nat \ T # {} PROVE FALSE
  OBVIOUS
<1>1. PICK x \in Nat \ T : \A y \in Nat \ T : x <= y
  <2> DEFINE U == Nat \ T
  <2>1. U \subseteq Nat /\ U # {}
    OBVIOUS
  <2> HIDE DEF U
  <2>2. \E x \in U : \A y \in U : x <= y
    BY <2>1, LeastExists
  <2>3. QED BY <2>2 DEF U
<1>2. x # 0
  BY <1>1
<1>3. x - 1 \in Nat /\ x - 1 \in T
  BY <1>1, <1>2
<1>4. (x - 1) + 1 \in T
  BY <1>3
<1>5. QED BY <1>1, <1>4

-----------------------------------------------------------------------------
(* Powers of two.                                                          *)

(* The first n + 1 powers, as a function.                                  *)
Start(g, n) == g = [k \in 0 .. n |-> IF k = 0 THEN 1 ELSE 2 * g[k - 1]]

LEMMA StartAt ==
    ASSUME NEW n \in Nat, NEW g, Start(g, n), NEW k \in 0 .. n
    PROVE  g[k] = IF k = 0 THEN 1 ELSE 2 * g[k - 1]
  BY DEF Start

LEMMA StartExists == \A n \in Nat : \E g : Start(g, n)
<1> DEFINE T == {n \in Nat : \E g : Start(g, n)}
<1>1. 0 \in T
  <2>1. Start([k \in 0 .. 0 |-> 1], 0)
    BY DEF Start
  <2>2. QED BY <2>1
<1>2. ASSUME NEW n \in Nat, n \in T PROVE n + 1 \in T
  <2>1. PICK g : Start(g, n)
    BY <1>2
  <2> DEFINE h == [k \in 0 .. n + 1 |-> IF k <= n THEN g[k] ELSE 2 * g[n]]
  <2>2. ASSUME NEW k \in 0 .. n + 1 PROVE h[k] = IF k = 0 THEN 1 ELSE 2 * h[k - 1]
    <3>1. CASE k = 0
      BY <2>1, <3>1, StartAt
    <3>2. CASE k # 0 /\ k <= n
      <4>1. g[k] = 2 * g[k - 1]
        BY <2>1, <3>2, StartAt
      <4>2. QED BY <3>2, <4>1
    <3>3. CASE k = n + 1
      BY <3>3
    <3>4. QED BY <3>1, <3>2, <3>3
  <2>3. Start(h, n + 1)
    <3>1. h = [k \in 0 .. n + 1 |-> h[k]]
      OBVIOUS
    <3> HIDE DEF h
    <3>2. QED BY <3>1, <2>2 DEF Start
  <2> HIDE DEF h
  <2>4. QED BY <2>3
<1>3. QED
  <2> HIDE DEF T
  <2>1. \A n \in Nat : n \in T
    BY <1>1, <1>2, SetInduction
  <2>2. QED BY <2>1 DEF T

LEMMA StartsAgree ==
    \A k \in Nat : \A n, m, g, h :
        n \in Nat /\ m \in Nat /\ k <= n /\ k <= m /\ Start(g, n) /\ Start(h, m) => g[k] = h[k]
<1> DEFINE same(k) == \A n, m, g, h :
        n \in Nat /\ m \in Nat /\ k <= n /\ k <= m /\ Start(g, n) /\ Start(h, m) => g[k] = h[k]
           T == {k \in Nat : same(k)}
<1>1. 0 \in T
  BY StartAt
<1>2. ASSUME NEW k \in Nat, k \in T PROVE k + 1 \in T
  <2>1. ASSUME NEW n, NEW m, NEW g, NEW h, n \in Nat, m \in Nat, k + 1 <= n, k + 1 <= m,
               Start(g, n), Start(h, m)
        PROVE  g[k + 1] = h[k + 1]
    <3>1. g[k] = h[k]
      BY <1>2, <2>1
    <3>2. g[k + 1] = 2 * g[k] /\ h[k + 1] = 2 * h[k]
      BY <2>1, StartAt
    <3>3. QED BY <3>1, <3>2
  <2>2. QED BY <2>1
<1>3. QED
  <2> HIDE DEF T
  <2>1. \A k \in Nat : k \in T
    BY <1>1, <1>2, SetInduction
  <2>2. QED BY <2>1 DEF T

(* Pow2 is what its definition says.                                       *)
LEMMA Pow2Equation == \A n \in Nat : Pow2[n] = IF n = 0 THEN 1 ELSE 2 * Pow2[n - 1]
<1> DEFINE start(n) == CHOOSE g : Start(g, n)
           f == [n \in Nat |-> start(n)[n]]
           is(w) == w = [n \in Nat |-> IF n = 0 THEN 1 ELSE 2 * w[n - 1]]
<1>1. \A n \in Nat : Start(start(n), n)
  BY StartExists
<1> HIDE DEF start
<1>2. ASSUME NEW n \in Nat PROVE f[n] = IF n = 0 THEN 1 ELSE 2 * f[n - 1]
  <2>1. CASE n = 0
    BY <1>1, <2>1, StartAt
  <2>2. CASE n # 0
    <3>1. start(n)[n] = 2 * start(n)[n - 1]
      BY <1>1, <2>2, StartAt
    <3>2. n - 1 \in Nat /\ n - 1 <= n
      BY <2>2
    <3>3. start(n)[n - 1] = start(n - 1)[n - 1]
      BY <3>2, <1>1, StartsAgree
    <3>4. QED BY <2>2, <3>1, <3>2, <3>3
  <2>3. QED BY <2>1, <2>2
<1>3. is(f)
  <2>1. f = [n \in Nat |-> f[n]]
    OBVIOUS
  <2> HIDE DEF f
  <2>2. QED BY <2>1, <1>2
<1>4. Pow2 = CHOOSE w : is(w)
  BY DEF Pow2
<1>5. is(Pow2)
  <2> HIDE DEF f, is
  <2>1. QED BY <1>3, <1>4
<1>6. QED
  <2> HIDE DEF f
  <2>1. QED BY <1>5

LEMMA Pow2Steps ==
    /\ Pow2[0] = 1
    /\ \A n \in Nat : Pow2[n] \in Nat /\ Pow2[n] > n /\ Pow2[n + 1] = 2 * Pow2[n]
<1>1. Pow2[0] = 1
  BY Pow2Equation
<1>2. \A n \in Nat : Pow2[n + 1] = 2 * Pow2[n]
  BY Pow2Equation
<1> DEFINE T == {n \in Nat : Pow2[n] \in Nat /\ Pow2[n] > n}
<1>3. 0 \in T
  BY <1>1
<1>4. ASSUME NEW n \in Nat, n \in T PROVE n + 1 \in T
  BY <1>2, <1>4
<1>5. QED
  <2> HIDE DEF T
  <2>1. \A n \in Nat : n \in T
    BY <1>3, <1>4, SetInduction
  <2>2. QED BY <1>1, <1>2, <2>1 DEF T

LEMMA Pow2Grows ==
    ASSUME NEW m \in Nat, NEW n \in Nat, m < n
    PROVE  2 * Pow2[m] <= Pow2[n]
<1> DEFINE T == {k \in Nat : 2 * Pow2[m] <= Pow2[m + 1 + k]}
<1>1. 0 \in T
  BY Pow2Steps
<1>2. ASSUME NEW k \in Nat, k \in T PROVE k + 1 \in T
  <2>1. m + 1 + k \in Nat /\ m + 1 + (k + 1) = (m + 1 + k) + 1
    OBVIOUS
  <2>2. Pow2[m + 1 + (k + 1)] = 2 * Pow2[m + 1 + k] /\ Pow2[m + 1 + k] \in Nat
    BY <2>1, Pow2Steps
  <2>3. Pow2[m] \in Nat
    BY Pow2Steps
  <2>4. QED BY <1>2, <2>2, <2>3
<1>3. \A k \in Nat : k \in T
  <2> HIDE DEF T
  <2>1. QED BY <1>1, <1>2, SetInduction
<1>4. n - m - 1 \in Nat /\ m + 1 + (n - m - 1) = n
  OBVIOUS
<1>5. QED BY <1>3, <1>4

-----------------------------------------------------------------------------
(* The policy.                                                             *)

LEMMA HighBitIs ==
    ASSUME NEW n \in Nat, n > 0
    PROVE  /\ HighBit(n) \in Nat
           /\ Pow2[HighBit(n)] <= n /\ n < Pow2[HighBit(n) + 1]
<1> DEFINE T == {l \in Nat : n < Pow2[l + 1]}
           P(l) == Pow2[l] <= n /\ n < Pow2[l + 1]
<1>1. T \subseteq Nat /\ n \in T
  <2>1. Pow2[n] > n /\ Pow2[n + 1] = 2 * Pow2[n] /\ Pow2[n] \in Nat
    BY Pow2Steps
  <2>2. QED BY <2>1
<1>2. PICK l \in T : \A m \in T : l <= m
  <2> HIDE DEF T
  <2>1. QED BY <1>1, LeastExists
<1>3. l \in Nat /\ n < Pow2[l + 1] /\ l <= n
  BY <1>1, <1>2
<1>4. Pow2[l] <= n
  <2>1. CASE l = 0
    BY <2>1, Pow2Steps
  <2>2. CASE l # 0
    <3>1. l - 1 \in Nat /\ l - 1 \notin T
      BY <1>2, <1>3, <2>2
    <3>2. ~(n < Pow2[(l - 1) + 1]) /\ (l - 1) + 1 = l
      BY <3>1
    <3>3. QED BY <3>2, <1>3, Pow2Steps
  <2>3. QED BY <2>1, <2>2
<1>5. l \in 0 .. n /\ P(l)
  BY <1>3, <1>4
<1>6. HighBit(n) = CHOOSE i \in 0 .. n : P(i)
  BY DEF HighBit
<1> HIDE DEF T
<1>7. HighBit(n) \in 0 .. n /\ P(HighBit(n))
  <2> HIDE DEF P
  <2>1. QED BY <1>5, <1>6
<1>8. QED BY <1>7

(* A new capacity is a power of two that is no smaller than the smallest.  *)
LEMMA AdaptIs ==
    ASSUME NEW n \in Nat
    PROVE  /\ \E m \in Nat : m >= 2 /\ AdaptAtLeast(n) = Pow2[m]
           /\ AdaptAtLeast(n) >= MinCapacity
<1> DEFINE h == HighBit(n)
           res == IF h <= 0 \/ (n \div Pow2[h - 1]) % 2 = 0 THEN Pow2[h + 1] ELSE Pow2[h + 2]
<1>1. PICK k \in 2 .. 30 : MinCapacity = Pow2[k]
  BY TableAssumption
<1>2. h = -1 \/ h \in Nat
  <2>1. CASE n = 0
    BY <2>1 DEF HighBit
  <2>2. CASE n # 0
    BY <2>2, HighBitIs
  <2>3. QED BY <2>1, <2>2
<1>3. AdaptAtLeast(n) = IF res < MinCapacity THEN MinCapacity ELSE res
  BY DEF AdaptAtLeast
<1>4. \E m \in Nat : res = Pow2[m]
  <2> HIDE DEF h
  <2>1. h + 1 \in Nat /\ h + 2 \in Nat
    BY <1>2
  <2>2. QED BY <2>1
<1> HIDE DEF res, h
<1>5. PICK m \in Nat : res = Pow2[m]
  BY <1>4
<1>6. CASE res < MinCapacity
  <2>1. k \in Nat /\ k >= 2 /\ AdaptAtLeast(n) = Pow2[k] /\ Pow2[k] \in Nat
    BY <1>1, <1>3, <1>6, Pow2Steps
  <2>2. QED BY <2>1, <1>1
<1>7. CASE ~(res < MinCapacity)
  <2>1. m >= 2
    <3>1. SUFFICES ASSUME m < 2 PROVE FALSE
      OBVIOUS
    <3>2. k \in Nat /\ m < k
      BY <3>1
    <3>3. 2 * Pow2[m] <= Pow2[k] /\ Pow2[m] \in Nat /\ Pow2[m] > m /\ Pow2[k] \in Nat
      BY <3>2, Pow2Grows, Pow2Steps
    <3>4. QED BY <3>3, <1>1, <1>5, <1>7
  <2>2. AdaptAtLeast(n) = Pow2[m] /\ Pow2[m] \in Nat /\ Pow2[k] \in Nat
    BY <1>3, <1>5, <1>7, Pow2Steps
  <2>3. QED BY <2>1, <2>2, <1>1, <1>5, <1>7
<1>8. QED BY <1>6, <1>7

(* The capacity after one of 2^m is the double of it.                      *)
LEMMA AdaptDoubles ==
    ASSUME NEW m \in Nat, m >= 1, Pow2[m] >= MinCapacity
    PROVE  AdaptAtLeast(Pow2[m]) = 2 * Pow2[m]
<1> DEFINE n == Pow2[m]
           h == HighBit(n)
<1>1. n \in Nat /\ n > 0
  BY Pow2Steps
<1>2. h \in Nat /\ Pow2[h] <= n /\ n < Pow2[h + 1]
  <2> HIDE DEF n
  <2>1. QED BY <1>1, HighBitIs
<1>3. h = m
  <2> HIDE DEF h
  <2>1. ~(m < h)
    <3>1. SUFFICES ASSUME m < h PROVE FALSE
      OBVIOUS
    <3>2. 2 * Pow2[m] <= Pow2[h] /\ Pow2[h] \in Nat
      BY <3>1, <1>2, Pow2Grows, Pow2Steps
    <3>3. QED BY <3>2, <1>1, <1>2
  <2>2. ~(h < m)
    <3>1. SUFFICES ASSUME h < m PROVE FALSE
      OBVIOUS
    <3>2. 2 * Pow2[h] <= Pow2[m] /\ Pow2[h] \in Nat /\ Pow2[h + 1] = 2 * Pow2[h]
      BY <3>1, <1>2, Pow2Grows, Pow2Steps
    <3>3. QED BY <3>2, <1>1, <1>2
  <2>3. QED BY <2>1, <2>2, <1>2
<1>4. n \div Pow2[h - 1] = 2
  <2>1. m - 1 \in Nat /\ (m - 1) + 1 = m
    OBVIOUS
  <2>2. n = 2 * Pow2[m - 1] /\ Pow2[m - 1] \in Nat /\ Pow2[m - 1] > 0
    BY <2>1, Pow2Steps
  <2>3. \A x \in Nat : x > 0 => (2 * x) \div x = 2
    OBVIOUS
  <2>4. QED BY <2>2, <2>3, <1>3
<1>5. AdaptAtLeast(n) = IF Pow2[m + 1] < MinCapacity THEN MinCapacity ELSE Pow2[m + 1]
  <2>1. 2 % 2 = 0
    OBVIOUS
  <2>2. (n \div Pow2[h - 1]) % 2 = 0
    BY <1>4, <2>1
  <2> HIDE DEF n
  <2>3. QED BY <1>3, <2>2 DEF AdaptAtLeast
<1>6. Pow2[m + 1] = 2 * Pow2[m] /\ Pow2[m] \in Nat
  BY Pow2Steps
<1>7. MinCapacity \in Nat
  BY TableAssumption, Pow2Steps
<1>8. QED BY <1>5, <1>6, <1>7

-----------------------------------------------------------------------------
(* The ring of places.                                                     *)

Seat(c, i, k) == (i + k) % c

LEMMA RemainderUnique ==
    ASSUME NEW c \in Nat, c > 0, NEW q \in Int, NEW p \in Int,
           NEW r \in 0 .. c - 1, NEW s \in 0 .. c - 1, c * q + r = c * p + s
    PROVE  r = s
<1>1. c * (q - p) = s - r
  OBVIOUS
<1>2. CASE q - p >= 1
  <2>1. c * (q - p) >= c
    BY <1>2
  <2>2. QED BY <2>1, <1>1
<1>3. CASE q - p <= -1
  <2>1. c * (q - p) <= -c
    BY <1>3
  <2>2. QED BY <2>1, <1>1
<1>4. CASE q - p = 0
  BY <1>4
<1>5. QED BY <1>2, <1>3, <1>4

LEMMA Remainder ==
    ASSUME NEW c \in Nat, c > 0, NEW a \in Nat
    PROVE  a % c \in 0 .. c - 1 /\ \E q \in Int : a = c * q + (a % c)
<1> DEFINE q == a \div c
           r == a % c
<1>1. q \in Int /\ r \in 0 .. c - 1 /\ a = c * q + r
  OBVIOUS
<1> HIDE DEF q
<1>2. \E n \in Int : a = c * n + r
  <2> q \in Int
    BY <1>1
  <2>1. WITNESS q \in Int
  <2>2. QED BY <1>1
<1>3. QED BY <1>1, <1>2

LEMMA RemainderSmall ==
    ASSUME NEW c \in Nat, c > 0, NEW a \in 0 .. 2 * c - 1
    PROVE  a % c = IF a < c THEN a ELSE a - c
  OBVIOUS

LEMMA SeatIn ==
    ASSUME NEW c \in Nat, c > 0, NEW i \in Nat, NEW k \in Nat
    PROVE  Seat(c, i, k) \in 0 .. c - 1 /\ Seat(c, i, k) \in Nat
<1>1. i + k \in Nat
  OBVIOUS
<1>2. (i + k) % c \in 0 .. c - 1
  BY <1>1, Remainder
<1>3. QED BY <1>2 DEF Seat

LEMMA SeatAdd ==
    ASSUME NEW c \in Nat, c > 0, NEW i \in Nat, NEW k \in Nat, NEW m \in Nat
    PROVE  Seat(c, Seat(c, i, k), m) = Seat(c, i, k + m)
<1> DEFINE a == i + k
           r == a % c
<1>1. a \in Nat
  OBVIOUS
<1>2. r \in 0 .. c - 1 /\ \E q \in Int : a = c * q + r
  <2> HIDE DEF a
  <2>1. QED BY <1>1, Remainder
<1> HIDE DEF r
<1> DEFINE x == (r + m) % c
<1>3. x \in 0 .. c - 1 /\ \E p \in Int : r + m = c * p + x
  <2>1. r + m \in Nat
    BY <1>2
  <2>2. QED BY <2>1, Remainder
<1> HIDE DEF x, a
<1> DEFINE y == (a + m) % c
<1>4. y \in 0 .. c - 1 /\ \E t \in Int : a + m = c * t + y
  <2>1. a + m \in Nat
    BY <1>1
  <2>2. QED BY <2>1, Remainder
<1> HIDE DEF y
<1>5. x = y
  <2>1. PICK q \in Int : a = c * q + r
    BY <1>2
  <2>2. PICK p \in Int : r + m = c * p + x
    BY <1>3
  <2>3. PICK t \in Int : a + m = c * t + y
    BY <1>4
  <2>4. c * (q + p) = c * q + c * p /\ q + p \in Int
    OBVIOUS
  <2>5. c * q \in Int /\ c * p \in Int /\ c * t \in Int
    OBVIOUS
  <2>6. r \in Int /\ a \in Int /\ x \in Int /\ y \in Int
    BY <1>1, <1>2, <1>3, <1>4
  <2>7. c * (q + p) + x = c * t + y
    BY <2>1, <2>2, <2>3, <2>4, <2>5, <2>6
  <2>8. QED BY <2>4, <2>7, <1>3, <1>4, RemainderUnique
<1>6. a + m = i + (k + m)
  BY DEF a
<1>7. QED BY <1>5, <1>6 DEF Seat, x, y, a, r

LEMMA SeatHome ==
    ASSUME NEW c \in Nat, c > 0, NEW i \in 0 .. c - 1
    PROVE  Seat(c, i, 0) = i
<1>1. i \in 0 .. 2 * c - 1 /\ i < c
  OBVIOUS
<1>2. i % c = i
  BY <1>1, RemainderSmall
<1>3. QED BY <1>2 DEF Seat

LEMMA SeatNext ==
    ASSUME NEW c \in Nat, c > 0, NEW i \in Nat, NEW k \in Nat
    PROVE  NextIndex(c, Seat(c, i, k)) = Seat(c, i, k + 1)
<1>1. NextIndex(c, Seat(c, i, k)) = Seat(c, Seat(c, i, k), 1)
  BY DEF NextIndex, Seat
<1>2. QED BY <1>1, SeatAdd

(* How far it is from i to j.                                              *)
Way(c, i, j) == (j - i + c) % c

LEMMA WayIs ==
    ASSUME NEW c \in Nat, c > 0, NEW i \in 0 .. c - 1, NEW j \in 0 .. c - 1
    PROVE  Way(c, i, j) \in 0 .. c - 1 /\ Seat(c, i, Way(c, i, j)) = j
<1>1. j - i + c \in 0 .. 2 * c - 1
  OBVIOUS
<1>2. Way(c, i, j) = IF j - i + c < c THEN j - i + c ELSE j - i
  BY <1>1, RemainderSmall DEF Way
<1>3. Way(c, i, j) \in 0 .. c - 1
  BY <1>2
<1> DEFINE w == Way(c, i, j)
<1> HIDE DEF w
<1>4. w \in 0 .. c - 1 /\ w = IF j - i + c < c THEN j - i + c ELSE j - i
  BY <1>2, <1>3 DEF w
<1>5. i + w \in 0 .. 2 * c - 1
  BY <1>4
<1>6. Seat(c, i, w) = IF i + w < c THEN i + w ELSE i + w - c
  BY <1>4, <1>5, RemainderSmall DEF Seat
<1>7. Seat(c, i, w) = j
  BY <1>4, <1>6
<1>8. QED BY <1>4, <1>7 DEF w

LEMMA WayBack ==
    ASSUME NEW c \in Nat, c > 0, NEW i \in 0 .. c - 1, NEW k \in 0 .. c - 1
    PROVE  Way(c, i, Seat(c, i, k)) = k
<1>1. i + k \in 0 .. 2 * c - 1
  OBVIOUS
<1>2. Seat(c, i, k) = IF i + k < c THEN i + k ELSE i + k - c
  BY <1>1, RemainderSmall DEF Seat
<1> DEFINE j == Seat(c, i, k)
<1> HIDE DEF j
<1>3. j = IF i + k < c THEN i + k ELSE i + k - c
  BY <1>2 DEF j
<1>4. j - i + c \in 0 .. 2 * c - 1
  BY <1>3
<1>5. Way(c, i, j) = IF j - i + c < c THEN j - i + c ELSE j - i + c - c
  <2>1. j \in Int
    BY <1>3
  <2>2. QED BY <2>1, <1>4, RemainderSmall DEF Way
<1>6. Way(c, i, j) = k
  BY <1>3, <1>5
<1>7. QED BY <1>6 DEF j

LEMMA SeatInjective ==
    ASSUME NEW c \in Nat, c > 0, NEW i \in 0 .. c - 1, NEW k \in 0 .. c - 1,
           NEW m \in 0 .. c - 1, Seat(c, i, k) = Seat(c, i, m)
    PROVE  k = m
<1>1. Way(c, i, Seat(c, i, k)) = k /\ Way(c, i, Seat(c, i, m)) = m
  BY WayBack
<1>2. QED BY <1>1

(* Two different places have different places after them.                  *)
LEMMA NextInjective ==
    ASSUME NEW c \in Nat, c > 0, NEW i \in 0 .. c - 1, NEW j \in 0 .. c - 1,
           NextIndex(c, i) = NextIndex(c, j)
    PROVE  i = j
<1>1. i + 1 \in 0 .. 2 * c - 1 /\ j + 1 \in 0 .. 2 * c - 1
  OBVIOUS
<1>2. /\ NextIndex(c, i) = IF i + 1 < c THEN i + 1 ELSE i + 1 - c
      /\ NextIndex(c, j) = IF j + 1 < c THEN j + 1 ELSE j + 1 - c
  BY <1>1, RemainderSmall DEF NextIndex
<1> DEFINE x == NextIndex(c, i)
           y == NextIndex(c, j)
<1>3. x = y
  OBVIOUS
<1> HIDE DEF x, y
<1>4. /\ x = IF i + 1 < c THEN i + 1 ELSE i + 1 - c
      /\ y = IF j + 1 < c THEN j + 1 ELSE j + 1 - c
  BY <1>2 DEF x, y
<1>5. i + 1 < c => x = i + 1
  BY <1>4
<1>6. ~(i + 1 < c) => x = 0 /\ i + 1 = c
  BY <1>4
<1>7. j + 1 < c => y = j + 1
  BY <1>4
<1>8. ~(j + 1 < c) => y = 0 /\ j + 1 = c
  BY <1>4
<1>9. QED BY <1>3, <1>5, <1>6, <1>7, <1>8

LEMMA NextIn ==
    ASSUME NEW c \in Nat, c > 0, NEW i \in 0 .. c - 1
    PROVE  NextIndex(c, i) \in 0 .. c - 1
<1>1. i + 1 \in Nat
  OBVIOUS
<1>2. QED BY <1>1, Remainder DEF NextIndex

LEMMA HomeIn ==
    ASSUME NEW c \in Nat, c > 0, NEW hash \in Nat
    PROVE  Home(c, hash) \in 0 .. c - 1 /\ Home(c, hash) \in Nat
<1>1. Home(c, hash) \in 0 .. c - 1
  BY Remainder DEF Home
<1>2. QED BY <1>1

-----------------------------------------------------------------------------
(* The places of a table.                                                  *)

Item(H, N) == [dist : Nat \cup {-1}, hash : H, node : N]

UsedIn(items, c) == {j \in 0 .. c - 1 : Used(items[j])}

(* Every item is where its distance says, no item is more than one farther *)
(* from home than the one before it, no hash is there twice.               *)
Ordered(items, c, H, N) ==
    /\ items \in [0 .. c - 1 -> Item(H, N)]
    /\ \A j \in UsedIn(items, c) : Seat(c, Home(c, items[j].hash), items[j].dist) = j
    /\ \A j \in 0 .. c - 1 : items[NextIndex(c, j)].dist <= items[j].dist + 1
    /\ \A i, j \in UsedIn(items, c) : items[i].hash = items[j].hash => i = j

(* What a table refers to.                                                 *)
PairsOf(items, c) == {<<items[j].hash, items[j].node>> : j \in UsedIn(items, c)}

LEMMA ItemAt ==
    ASSUME NEW c \in Nat, NEW H, NEW N, NEW items, items \in [0 .. c - 1 -> Item(H, N)],
           NEW j \in 0 .. c - 1
    PROVE  /\ items[j] \in Item(H, N)
           /\ items[j].dist \in Int /\ items[j].dist >= -1
           /\ items[j].hash \in H /\ items[j].node \in N
           /\ Used(items[j]) => items[j].dist \in Nat
  BY DEF Item, Used

(* The distance grows by one at most from place to place.                  *)
LEMMA Rises ==
    ASSUME NEW c \in Nat, c > 0, NEW H, NEW N, NEW items, Ordered(items, c, H, N),
           NEW i \in 0 .. c - 1
    PROVE  \A n \in Nat : items[Seat(c, i, n)].dist <= items[i].dist + n
<1> DEFINE T == {n \in Nat : items[Seat(c, i, n)].dist <= items[i].dist + n}
<1>0. items \in [0 .. c - 1 -> Item(H, N)]
  BY DEF Ordered
<1>1. 0 \in T
  BY <1>0, SeatHome, ItemAt
<1>2. ASSUME NEW n \in Nat, n \in T PROVE n + 1 \in T
  <2> DEFINE j == Seat(c, i, n)
             k == Seat(c, i, n + 1)
  <2>0. i \in Nat /\ n + 1 \in Nat
    OBVIOUS
  <2>1. j \in 0 .. c - 1 /\ k \in 0 .. c - 1 /\ NextIndex(c, j) = k
    BY <2>0, SeatIn, SeatNext
  <2> HIDE DEF j, k
  <2>2. items[k].dist <= items[j].dist + 1
    BY <2>1 DEF Ordered
  <2>3. items[i].dist \in Int /\ items[j].dist \in Int /\ items[k].dist \in Int
    BY <1>0, <2>1, ItemAt
  <2>4. items[j].dist <= items[i].dist + n
    BY <1>2 DEF j
  <2>5. items[k].dist <= items[i].dist + (n + 1)
    BY <2>2, <2>3, <2>4
  <2>6. QED BY <2>5 DEF k
<1>3. QED
  <2> HIDE DEF T
  <2>1. \A n \in Nat : n \in T
    BY <1>1, <1>2, SetInduction
  <2>2. QED BY <2>1 DEF T

(* With one place that is not used no item is a whole round from home.     *)
LEMMA NoRound ==
    ASSUME NEW c \in Nat, c > 0, NEW H, NEW N, NEW items, Ordered(items, c, H, N),
           NEW f \in 0 .. c - 1, ~Used(items[f]), NEW j \in 0 .. c - 1
    PROVE  items[j].dist <= c - 2
<1>0. items \in [0 .. c - 1 -> Item(H, N)]
  BY DEF Ordered
<1>1. Way(c, f, j) \in 0 .. c - 1 /\ Seat(c, f, Way(c, f, j)) = j
  BY WayIs
<1>2. items[j].dist <= items[f].dist + Way(c, f, j)
  BY <1>1, Rises
<1>3. items[f].dist = -1 /\ items[j].dist \in Int
  BY <1>0, ItemAt DEF Used
<1>4. QED BY <1>1, <1>2, <1>3

-----------------------------------------------------------------------------
(* Searching.                                                              *)

(* The first place on the way of hash where a search stops.                *)
Stops(items, c, hash, d) ==
    \/ d > items[Seat(c, Home(c, hash), d)].dist
    \/ items[Seat(c, Home(c, hash), d)].hash = hash

Searched(t, hash, pos) ==
    /\ pos.dist \in Nat
    /\ pos.index = Seat(t.cap, Home(t.cap, hash), pos.dist)
    /\ Stops(t.items, t.cap, hash, pos.dist)
    /\ \A e \in 0 .. pos.dist - 1 : ~Stops(t.items, t.cap, hash, e)

(* A table with the items in order and a place to spare.                   *)
Searchable(t, H, N) ==
    /\ t.cap \in Nat /\ t.cap > 0 /\ H \subseteq Nat
    /\ Ordered(t.items, t.cap, H, N)
    /\ \E f \in 0 .. t.cap - 1 : ~Used(t.items[f])

LEMMA TryGetIs ==
    ASSUME NEW H, NEW N, NEW t, Searchable(t, H, N), NEW hash \in Nat
    PROVE  Searched(t, hash, TryGet(t, hash))
<1> DEFINE c == t.cap
           home == Home(c, hash)
           stop(d) == d > t.items[Seat(c, home, d)].dist \/ t.items[Seat(c, home, d)].hash = hash
           T == {d \in Nat : stop(d)}
           first(d) == stop(d) /\ \A e \in 0 .. d - 1 : ~stop(e)
           dist == CHOOSE d \in 0 .. c : first(d)
<1>1. c \in Nat /\ c > 0 /\ home \in 0 .. c - 1 /\ home \in Nat
  BY HomeIn DEF Searchable
<1>2. PICK f \in 0 .. c - 1 : ~Used(t.items[f])
  BY DEF Searchable
<1>3. Way(c, home, f) \in 0 .. c - 1 /\ Seat(c, home, Way(c, home, f)) = f
  <2> HIDE DEF c, home
  <2>1. QED BY <1>1, WayIs
<1>4. t.items[f].dist = -1
  BY <1>2 DEF Used
<1>5. Way(c, home, f) \in T
  BY <1>3, <1>4
<1>6. \E d \in T : \A e \in T : d <= e
  <2>1. T \subseteq Nat
    OBVIOUS
  <2> HIDE DEF T
  <2>2. QED BY <1>5, <2>1, LeastExists
<1>7. PICK d \in T : \A e \in T : d <= e
  BY <1>6
<1>8. d \in 0 .. c /\ first(d)
  <2>1. d <= Way(c, home, f) /\ d \in Nat
    BY <1>5, <1>7
  <2>2. d \in 0 .. c
    <3> HIDE DEF T, c
    <3>1. QED BY <2>1, <1>3, <1>1
  <2>3. ASSUME NEW e \in 0 .. d - 1 PROVE ~stop(e)
    <3>1. e \in Nat /\ ~(d <= e)
      BY <2>1
    <3> HIDE DEF stop
    <3>2. QED BY <3>1, <1>7
  <2>4. stop(d)
    OBVIOUS
  <2> HIDE DEF stop, c
  <2>5. QED BY <2>2, <2>3, <2>4
<1>9. dist \in 0 .. c /\ first(dist)
  <2> HIDE DEF first, c, T
  <2>1. QED BY <1>8
<1>10. TryGet(t, hash) = [index |-> Seat(c, home, dist), dist |-> dist]
  BY DEF TryGet, Seat
<1>11. \A e : stop(e) <=> Stops(t.items, c, hash, e)
  BY DEF Stops
<1> HIDE DEF dist, stop, c, home
<1>12. TryGet(t, hash).dist = dist /\ TryGet(t, hash).index = Seat(c, home, dist)
  BY <1>10
<1>13. dist \in Nat
  BY <1>9, <1>1
<1>14. Stops(t.items, c, hash, dist) /\ \A e \in 0 .. dist - 1 : ~Stops(t.items, c, hash, e)
  BY <1>9, <1>11
<1>15. QED BY <1>12, <1>13, <1>14 DEF Searched, c, home

(* A search misses nothing.                                                *)
LEMMA Found ==
    ASSUME NEW H, NEW N, NEW t, Searchable(t, H, N),
           NEW j \in UsedIn(t.items, t.cap), NEW pos, Searched(t, t.items[j].hash, pos)
    PROVE  pos.index = j /\ pos.dist = t.items[j].dist
<1> DEFINE c == t.cap
           items == t.items
           hash == items[j].hash
           home == Home(c, hash)
           d == items[j].dist
           p == pos.dist
<1>1. c \in Nat /\ c > 0 /\ H \subseteq Nat /\ Ordered(items, c, H, N)
  BY DEF Searchable
<1>2. items \in [0 .. c - 1 -> Item(H, N)]
  BY <1>1 DEF Ordered
<1>3. j \in 0 .. c - 1 /\ Used(items[j])
  BY DEF UsedIn
<1>4. d \in Nat /\ hash \in Nat
  <2> HIDE DEF c, items
  <2>1. QED BY <1>1, <1>2, <1>3, ItemAt
<1>5. home \in 0 .. c - 1 /\ home \in Nat
  <2> HIDE DEF c, hash
  <2>1. QED BY <1>1, <1>4, HomeIn
<1>6. Seat(c, home, d) = j
  BY <1>1 DEF Ordered
<1>7. p \in Nat /\ pos.index = Seat(c, home, p) /\ Stops(items, c, hash, p)
      /\ \A e \in 0 .. p - 1 : ~Stops(items, c, hash, e)
  BY DEF Searched
<1>8. Stops(items, c, hash, d)
  BY <1>6 DEF Stops
<1> HIDE DEF c, items, hash, home, d, p
<1>9. p <= d
  <2>1. SUFFICES ASSUME ~(p <= d) PROVE FALSE
    OBVIOUS
  <2>2. d \in 0 .. p - 1
    BY <2>1, <1>4, <1>7
  <2>3. QED BY <2>2, <1>7, <1>8
<1>10. ASSUME p # d PROVE FALSE
  <2> DEFINE i == Seat(c, home, p)
  <2>1. i \in 0 .. c - 1
    BY <1>1, <1>5, <1>7, SeatIn
  <2>2. d - p \in Nat /\ d - p > 0 /\ p + (d - p) = d
    BY <1>4, <1>7, <1>9, <1>10
  <2>3. Seat(c, i, d - p) = j
    BY <1>1, <1>5, <1>6, <1>7, <2>2, SeatAdd
  <2> HIDE DEF i
  <2>4. items[Seat(c, i, d - p)].dist <= items[i].dist + (d - p)
    BY <1>1, <2>1, <2>2, Rises
  <2>5. items[i].dist \in Int /\ items[i].dist >= -1 /\ d = items[j].dist
    BY <1>1, <1>2, <2>1, ItemAt DEF d
  <2>6. items[i].dist >= p
    BY <2>3, <2>4, <2>5, <1>4, <1>7
  <2>7. ~(p > items[i].dist)
    BY <2>5, <2>6, <1>7
  <2>8. items[i].hash = hash
    BY <1>7, <2>7 DEF Stops, home, i
  <2>9. i \in UsedIn(items, c)
    <3>1. items[i].dist # -1
      BY <2>5, <2>6, <1>7
    <3>2. QED BY <2>1, <3>1 DEF UsedIn, Used
  <2>10. i = j
    <3>1. j \in UsedIn(items, c)
      BY DEF items, c
    <3>2. QED BY <1>1, <2>8, <2>9, <3>1 DEF Ordered, hash
  <2>11. items[i].dist = d
    BY <2>10 DEF d
  <2>12. c - 2 >= d
    <3>1. PICK f \in 0 .. c - 1 : ~Used(items[f])
      BY DEF Searchable, c, items
    <3>2. items[j].dist <= c - 2
      BY <3>1, <1>1, <1>3, NoRound
    <3>3. QED BY <3>2, <2>5, <1>1, <1>4
  <2>13. Seat(c, home, p) = Seat(c, home, d) /\ p \in 0 .. c - 1 /\ d \in 0 .. c - 1
    BY <2>10, <1>6, <2>12, <1>1, <1>4, <1>7, <1>9 DEF i
  <2>14. p = d
    BY <2>13, <1>1, <1>5, SeatInjective
  <2>15. QED BY <2>14, <1>10
<1>11. p = d
  BY <1>10
<1>12. QED BY <1>6, <1>7, <1>11 DEF p, d, items, c, home, hash

(* contains() tells whether the hash is in the table, and the place.       *)
LEMMA ContainsIs ==
    ASSUME NEW H, NEW N, NEW t, Searchable(t, H, N), NEW hash \in Nat
    PROVE  /\ Contains(t, hash) <=> \E j \in UsedIn(t.items, t.cap) : t.items[j].hash = hash
           /\ Contains(t, hash) =>
                 /\ TryGet(t, hash).index \in UsedIn(t.items, t.cap)
                 /\ t.items[TryGet(t, hash).index].hash = hash
<1> DEFINE pos == TryGet(t, hash)
<1>1. Searched(t, hash, pos)
  BY TryGetIs
<1>2. Contains(t, hash) <=> Used(t.items[pos.index]) /\ t.items[pos.index].hash = hash
  BY DEF Contains, Holds
<1> HIDE DEF pos
<1>3. pos.index \in 0 .. t.cap - 1
  <2>1. t.cap \in Nat /\ t.cap > 0
    BY DEF Searchable
  <2>2. pos.dist \in Nat /\ pos.index = Seat(t.cap, Home(t.cap, hash), pos.dist)
    BY <1>1 DEF Searched
  <2>3. Home(t.cap, hash) \in Nat
    BY <2>1, HomeIn
  <2>4. Seat(t.cap, Home(t.cap, hash), pos.dist) \in 0 .. t.cap - 1
    BY <2>1, <2>2, <2>3, SeatIn
  <2>5. QED BY <2>2, <2>4
<1>4. Contains(t, hash) => pos.index \in UsedIn(t.items, t.cap) /\ t.items[pos.index].hash = hash
  BY <1>2, <1>3 DEF UsedIn
<1>5. ASSUME NEW j \in UsedIn(t.items, t.cap), t.items[j].hash = hash PROVE Contains(t, hash)
  <2>1. pos.index = j
    BY <1>1, <1>5, Found
  <2>2. QED BY <2>1, <1>2, <1>5 DEF UsedIn
<1>6. QED BY <1>4, <1>5 DEF pos

(* What a new item must satisfy to be carried from index on.               *)
Carriable(items, c, index, item) ==
    /\ index \in 0 .. c - 1
    /\ item.dist \in Nat
    /\ Seat(c, Home(c, item.hash), item.dist) = index
    /\ \A j \in 0 .. c - 1 : NextIndex(c, j) = index => item.dist <= items[j].dist + 1
    /\ \A j \in UsedIn(items, c) : items[j].hash # item.hash

(* Where a search for a hash that is not there ends, it can be put.        *)
LEMMA NotFound ==
    ASSUME NEW H, NEW N, NEW t, Searchable(t, H, N), NEW hash \in H, ~Contains(t, hash),
           NEW item, item.dist = TryGet(t, hash).dist, item.hash = hash
    PROVE  Carriable(t.items, t.cap, TryGet(t, hash).index, item)
<1> DEFINE pos == TryGet(t, hash)
           c == t.cap
           items == t.items
<1>0. c \in Nat /\ c > 0 /\ H \subseteq Nat /\ Ordered(items, c, H, N)
  BY DEF Searchable
<1>1. Searched(t, hash, pos)
  BY <1>0, TryGetIs
<1>2. pos.dist \in Nat /\ pos.index = Seat(c, Home(c, hash), pos.dist)
      /\ \A e \in 0 .. pos.dist - 1 : ~Stops(items, c, hash, e)
  BY <1>1 DEF Searched
<1>3. item.dist = pos.dist
  OBVIOUS
<1>4. \A j \in UsedIn(items, c) : items[j].hash # hash
  BY <1>0, ContainsIs
<1> HIDE DEF pos, c, items
<1>5. Home(c, hash) \in 0 .. c - 1 /\ Home(c, hash) \in Nat
  BY <1>0, HomeIn
<1>6. pos.index \in 0 .. c - 1
  BY <1>0, <1>2, <1>5, SeatIn
<1>7. items \in [0 .. c - 1 -> Item(H, N)]
  BY <1>0 DEF Ordered
<1>8. ASSUME NEW j \in 0 .. c - 1, NextIndex(c, j) = pos.index
      PROVE  pos.dist <= items[j].dist + 1
  <2>1. items[j].dist \in Int /\ items[j].dist >= -1
    BY <1>0, <1>7, ItemAt
  <2>2. CASE pos.dist = 0
    BY <2>1, <2>2
  <2>3. CASE pos.dist # 0
    <3> DEFINE e == pos.dist - 1
               i == Seat(c, Home(c, hash), e)
    <3>1. e \in Nat /\ e + 1 = pos.dist /\ e \in 0 .. pos.dist - 1
      BY <1>2, <2>3
    <3> HIDE DEF e
    <3>2. i \in 0 .. c - 1 /\ NextIndex(c, i) = pos.index
      BY <1>0, <1>2, <1>5, <3>1, SeatIn, SeatNext
    <3>3. ~(e > items[i].dist)
      BY <1>2, <3>1 DEF Stops
    <3> HIDE DEF i
    <3>4. i = j
      BY <1>0, <3>2, <1>8, NextInjective
    <3>5. QED BY <3>1, <3>3, <3>4, <2>1, <1>2
  <2>4. QED BY <2>2, <2>3
<1>9. QED BY <1>2, <1>3, <1>4, <1>6, <1>8 DEF Carriable, pos, c, items

-----------------------------------------------------------------------------
(* Placing.                                                                *)

Farther(item) == [item EXCEPT !.dist = @ + 1]

LEMMA FartherIs ==
    ASSUME NEW H, NEW N, NEW item \in Item(H, N), item.dist \in Nat
    PROVE  /\ Farther(item) \in Item(H, N)
           /\ Farther(item).dist = item.dist + 1 /\ Farther(item).dist \in Nat
           /\ Farther(item).hash = item.hash /\ Farther(item).node = item.node
  BY DEF Farther, Item

(* The same item, one place on.                                            *)
LEMMA FartherSeat ==
    ASSUME NEW c \in Nat, c > 0, NEW H, H \subseteq Nat, NEW N, NEW item \in Item(H, N),
           item.dist \in Nat, NEW j \in 0 .. c - 1,
           Seat(c, Home(c, item.hash), item.dist) = j
    PROVE  Seat(c, Home(c, Farther(item).hash), Farther(item).dist) = NextIndex(c, j)
<1>1. item.hash \in Nat
  BY DEF Item
<1>2. Home(c, item.hash) \in Nat
  BY <1>1, HomeIn
<1>3. NextIndex(c, j) = Seat(c, Home(c, item.hash), item.dist + 1)
  BY <1>2, SeatNext
<1>4. QED BY <1>3, FartherIs

(* The table new has the places of items and item a in the place of b.     *)
Exchanged(new, items, c, a, b) ==
    /\ UsedIn(new, c) = UsedIn(items, c)
    /\ PairsOf(new, c) \cup {<<b.hash, b.node>>} = PairsOf(items, c) \cup {<<a.hash, a.node>>}

(* The table new has one place more than items, where item is.             *)
Added(new, items, c, j, item) ==
    /\ j \in 0 .. c - 1 /\ j \notin UsedIn(items, c)
    /\ UsedIn(new, c) = UsedIn(items, c) \cup {j}
    /\ PairsOf(new, c) = PairsOf(items, c) \cup {<<item.hash, item.node>>}

(* An item at a used place is exchanged for the one that is carried.       *)
LEMMA Exchange ==
    ASSUME NEW c \in Nat, c > 1, NEW H, H \subseteq Nat, NEW N, NEW items,
           Ordered(items, c, H, N), NEW carry \in Item(H, N), NEW j,
           Carriable(items, c, j, carry), Used(items[j]), carry.dist > items[j].dist,
           NEW new, new = [items EXCEPT ![j] = carry]
    PROVE  /\ Ordered(new, c, H, N) /\ Exchanged(new, items, c, carry, items[j])
           /\ Farther(items[j]) \in Item(H, N)
           /\ Carriable(new, c, NextIndex(c, j), Farther(items[j]))
<1>0. c > 0
  OBVIOUS
<1>1. items \in [0 .. c - 1 -> Item(H, N)]
  BY DEF Ordered
<1>2. /\ j \in 0 .. c - 1 /\ carry.dist \in Nat
      /\ Seat(c, Home(c, carry.hash), carry.dist) = j
  BY DEF Carriable
<1>3. new \in [0 .. c - 1 -> Item(H, N)] /\ new[j] = carry
      /\ \A i \in 0 .. c - 1 : i # j => new[i] = items[i]
  BY <1>1, <1>2
<1>4. Used(carry) /\ items[j].dist \in Nat /\ items[j] \in Item(H, N)
  BY <1>1, <1>2, ItemAt DEF Used
<1>5. UsedIn(new, c) = UsedIn(items, c) /\ j \in UsedIn(items, c)
  BY <1>2, <1>3, <1>4 DEF UsedIn
<1>6. \A i \in 0 .. c - 1 : items[i].dist \in Int /\ items[i].dist >= -1
  BY <1>1, ItemAt
<1>7. ASSUME NEW i \in UsedIn(new, c)
      PROVE  Seat(c, Home(c, new[i].hash), new[i].dist) = i
  <2>1. i \in UsedIn(items, c) /\ i \in 0 .. c - 1
    BY <1>5 DEF UsedIn
  <2>2. CASE i = j
    BY <2>2, <1>2, <1>3
  <2>3. CASE i # j
    <3>1. Seat(c, Home(c, items[i].hash), items[i].dist) = i
      BY <2>1 DEF Ordered
    <3>2. QED BY <2>1, <2>3, <1>3, <3>1
  <2>4. QED BY <2>2, <2>3
<1>8. ASSUME NEW i \in 0 .. c - 1 PROVE new[NextIndex(c, i)].dist <= new[i].dist + 1
  <2> DEFINE m == NextIndex(c, i)
  <2>1. m \in 0 .. c - 1
    BY <1>0, NextIn
  <2>2. items[m].dist <= items[i].dist + 1
    BY DEF Ordered
  <2>3. m = j => carry.dist <= items[i].dist + 1
    BY DEF Carriable
  <2>4. i = j => m # j
    <3>1. i + 1 \in 0 .. 2 * c - 1
      OBVIOUS
    <3>2. m = IF i + 1 < c THEN i + 1 ELSE i + 1 - c
      BY <1>0, <3>1, RemainderSmall DEF NextIndex
    <3> HIDE DEF m
    <3>3. QED BY <3>2
  <2> HIDE DEF m
  <2>5. items[m].dist \in Int /\ items[i].dist \in Int /\ items[j].dist \in Int
    BY <1>6, <1>2, <2>1
  <2>6. CASE m = j
    <3>1. new[m].dist = carry.dist /\ new[i] = items[i]
      BY <2>4, <2>6, <1>3
    <3>2. QED BY <3>1, <2>3, <2>6 DEF m
  <2>7. CASE m # j /\ i = j
    <3>1. new[m] = items[m] /\ new[i] = carry
      BY <2>1, <2>7, <1>3
    <3>2. items[m].dist <= carry.dist + 1
      BY <2>2, <2>5, <2>7, <1>2
    <3>3. QED BY <3>1, <3>2 DEF m
  <2>8. CASE m # j /\ i # j
    <3>1. new[m] = items[m] /\ new[i] = items[i]
      BY <2>1, <2>8, <1>3
    <3>2. QED BY <3>1, <2>2 DEF m
  <2>9. QED BY <2>6, <2>7, <2>8
<1>9. \A i \in UsedIn(items, c) : items[i].hash # carry.hash
  BY DEF Carriable
<1>10. ASSUME NEW i \in UsedIn(new, c), NEW k \in UsedIn(new, c), new[i].hash = new[k].hash
       PROVE  i = k
  <2>1. i \in UsedIn(items, c) /\ k \in UsedIn(items, c) /\ i \in 0 .. c - 1 /\ k \in 0 .. c - 1
    BY <1>5 DEF UsedIn
  <2>2. CASE i # j /\ k # j
    <3>1. items[i].hash = items[k].hash
      BY <2>1, <2>2, <1>3, <1>10
    <3>2. QED BY <2>1, <3>1 DEF Ordered
  <2>3. CASE i = j /\ k # j
    BY <2>1, <2>3, <1>3, <1>9, <1>10
  <2>4. CASE i # j /\ k = j
    BY <2>1, <2>4, <1>3, <1>9, <1>10
  <2>5. QED BY <2>2, <2>3, <2>4
<1>11. Ordered(new, c, H, N)
  BY <1>3, <1>7, <1>8, <1>10 DEF Ordered
<1> DEFINE next == Farther(items[j])
<1>12. /\ next \in Item(H, N) /\ next.dist \in Nat /\ next.dist = items[j].dist + 1
       /\ next.hash = items[j].hash
       /\ Seat(c, Home(c, next.hash), next.dist) = NextIndex(c, j)
  <2>1. Seat(c, Home(c, items[j].hash), items[j].dist) = j
    BY <1>5 DEF Ordered
  <2>2. QED BY <2>1, <1>0, <1>2, <1>4, FartherIs, FartherSeat
<1> HIDE DEF next
<1>13. ASSUME NEW i \in 0 .. c - 1, NextIndex(c, i) = NextIndex(c, j)
       PROVE  next.dist <= new[i].dist + 1
  <2>1. i = j
    BY <1>0, <1>2, <1>13, NextInjective
  <2>2. QED BY <2>1, <1>2, <1>3, <1>4, <1>12
<1>14. ASSUME NEW i \in UsedIn(new, c) PROVE new[i].hash # next.hash
  <2>1. i \in UsedIn(items, c) /\ i \in 0 .. c - 1
    BY <1>5 DEF UsedIn
  <2>2. CASE i = j
    BY <2>2, <1>3, <1>5, <1>9, <1>12
  <2>3. CASE i # j
    <3>1. new[i] = items[i] /\ items[i].hash # items[j].hash
      BY <2>1, <2>3, <1>3, <1>5 DEF Ordered
    <3>2. QED BY <3>1, <1>12
  <2>4. QED BY <2>2, <2>3
<1>15. Carriable(new, c, NextIndex(c, j), next)
  BY <1>0, <1>2, <1>12, <1>13, <1>14, NextIn DEF Carriable
<1>16. PairsOf(new, c) \cup {<<items[j].hash, items[j].node>>}
         = PairsOf(items, c) \cup {<<carry.hash, carry.node>>}
  <2>1. UsedIn(items, c) \subseteq 0 .. c - 1
    BY DEF UsedIn
  <2>2. QED BY <2>1, <1>3, <1>5 DEF PairsOf
<1>17. QED BY <1>5, <1>11, <1>12, <1>15, <1>16 DEF next, Exchanged

(* The item that is carried passes a place.                                *)
LEMMA Pass ==
    ASSUME NEW c \in Nat, c > 0, NEW H, H \subseteq Nat, NEW N, NEW items,
           Ordered(items, c, H, N), NEW carry \in Item(H, N), NEW j,
           Carriable(items, c, j, carry), ~(carry.dist > items[j].dist)
    PROVE  Carriable(items, c, NextIndex(c, j), Farther(carry))
<1>1. items \in [0 .. c - 1 -> Item(H, N)]
  BY DEF Ordered
<1>2. /\ j \in 0 .. c - 1 /\ carry.dist \in Nat
      /\ Seat(c, Home(c, carry.hash), carry.dist) = j
      /\ \A i \in UsedIn(items, c) : items[i].hash # carry.hash
  BY DEF Carriable
<1> DEFINE next == Farther(carry)
<1>3. /\ next \in Item(H, N) /\ next.dist \in Nat /\ next.dist = carry.dist + 1
      /\ next.hash = carry.hash /\ next.node = carry.node
      /\ Seat(c, Home(c, next.hash), next.dist) = NextIndex(c, j)
  <2>1. Farther(carry) \in Item(H, N) /\ Farther(carry).dist = carry.dist + 1
        /\ Farther(carry).dist \in Nat
        /\ Farther(carry).hash = carry.hash /\ Farther(carry).node = carry.node
    BY <1>2, FartherIs
  <2>2. Seat(c, Home(c, Farther(carry).hash), Farther(carry).dist) = NextIndex(c, j)
    BY <1>2, FartherSeat, ZenonT(30)
  <2>3. QED BY <2>1, <2>2
<1> HIDE DEF next
<1>4. ASSUME NEW i \in 0 .. c - 1, NextIndex(c, i) = NextIndex(c, j)
      PROVE  next.dist <= items[i].dist + 1
  <2>1. i = j
    BY <1>2, <1>4, NextInjective
  <2>2. items[i].dist \in Int
    BY <1>1, ItemAt
  <2>3. QED BY <2>1, <2>2, <1>2, <1>3
<1>5. Carriable(items, c, NextIndex(c, j), next)
  BY <1>2, <1>3, <1>4, NextIn DEF Carriable
<1>6. QED BY <1>3, <1>5 DEF next

(* The item that is carried is put down at a free place.                   *)
LEMMA PutDown ==
    ASSUME NEW c \in Nat, c > 0, NEW H, H \subseteq Nat, NEW N, NEW items,
           Ordered(items, c, H, N), NEW carry \in Item(H, N), NEW j,
           Carriable(items, c, j, carry), ~Used(items[j]),
           NEW new, new = [items EXCEPT ![j] = carry]
    PROVE  Ordered(new, c, H, N) /\ Added(new, items, c, j, carry)
<1>1. items \in [0 .. c - 1 -> Item(H, N)]
  BY DEF Ordered
<1>2. /\ j \in 0 .. c - 1 /\ carry.dist \in Nat
      /\ Seat(c, Home(c, carry.hash), carry.dist) = j
      /\ \A i \in UsedIn(items, c) : items[i].hash # carry.hash
  BY DEF Carriable
<1>3. new \in [0 .. c - 1 -> Item(H, N)] /\ new[j] = carry
      /\ \A i \in 0 .. c - 1 : i # j => new[i] = items[i]
  BY <1>1, <1>2
<1>4. Used(carry) /\ items[j].dist = -1
  BY <1>2 DEF Used
<1>5. UsedIn(new, c) = UsedIn(items, c) \cup {j} /\ j \notin UsedIn(items, c)
  BY <1>2, <1>3, <1>4 DEF UsedIn
<1>6. \A i \in 0 .. c - 1 : items[i].dist \in Int /\ items[i].dist >= -1
  BY <1>1, ItemAt
<1>7. ASSUME NEW i \in UsedIn(new, c)
      PROVE  Seat(c, Home(c, new[i].hash), new[i].dist) = i
  <2>1. CASE i = j
    BY <2>1, <1>2, <1>3
  <2>2. CASE i # j
    <3>1. i \in UsedIn(items, c) /\ i \in 0 .. c - 1
      BY <2>2, <1>5 DEF UsedIn
    <3>2. Seat(c, Home(c, items[i].hash), items[i].dist) = i
      BY <3>1 DEF Ordered
    <3>3. QED BY <2>2, <1>3, <3>1, <3>2
  <2>3. QED BY <2>1, <2>2
<1>8. ASSUME NEW i \in 0 .. c - 1 PROVE new[NextIndex(c, i)].dist <= new[i].dist + 1
  <2> DEFINE m == NextIndex(c, i)
  <2>1. m \in 0 .. c - 1
    BY NextIn
  <2>2. items[m].dist <= items[i].dist + 1
    BY DEF Ordered
  <2>3. m = j => carry.dist <= items[i].dist + 1
    BY DEF Carriable
  <2> HIDE DEF m
  <2>4. items[m].dist \in Int /\ items[i].dist \in Int
    BY <1>6, <2>1
  <2>5. CASE m = j
    <3>1. CASE i = j
      BY <2>5, <3>1, <1>2, <1>3 DEF m
    <3>2. CASE i # j
      BY <2>3, <2>5, <3>2, <1>3 DEF m
    <3>3. QED BY <3>1, <3>2
  <2>6. CASE m # j /\ i = j
    <3>1. new[m] = items[m] /\ new[i] = carry
      BY <2>1, <2>6, <1>3
    <3>2. items[m].dist <= carry.dist + 1
      BY <2>2, <2>4, <2>6, <1>2, <1>4
    <3>3. QED BY <3>1, <3>2 DEF m
  <2>7. CASE m # j /\ i # j
    <3>1. new[m] = items[m] /\ new[i] = items[i]
      BY <2>1, <2>7, <1>3
    <3>2. QED BY <3>1, <2>2 DEF m
  <2>8. QED BY <2>5, <2>6, <2>7
<1>9. ASSUME NEW i \in UsedIn(new, c), NEW k \in UsedIn(new, c), new[i].hash = new[k].hash
      PROVE  i = k
  <2>1. UsedIn(items, c) \subseteq 0 .. c - 1
    BY DEF UsedIn
  <2>2. CASE i # j /\ k # j
    <3>1. i \in UsedIn(items, c) /\ k \in UsedIn(items, c)
      BY <2>2, <1>5
    <3>2. items[i].hash = items[k].hash
      BY <3>1, <2>1, <2>2, <1>3, <1>9
    <3>3. QED BY <3>1, <3>2 DEF Ordered
  <2>3. CASE i = j /\ k # j
    BY <2>1, <2>3, <1>2, <1>3, <1>5, <1>9
  <2>4. CASE i # j /\ k = j
    BY <2>1, <2>4, <1>2, <1>3, <1>5, <1>9
  <2>5. QED BY <2>2, <2>3, <2>4
<1>10. Ordered(new, c, H, N)
  BY <1>3, <1>7, <1>8, <1>9 DEF Ordered
<1>11. PairsOf(new, c) = PairsOf(items, c) \cup {<<carry.hash, carry.node>>}
  <2>1. UsedIn(items, c) \subseteq 0 .. c - 1
    BY DEF UsedIn
  <2>2. \A i \in UsedIn(items, c) : new[i] = items[i]
    BY <2>1, <1>3, <1>5
  <2> DEFINE pair(item) == <<item.hash, item.node>>
             mine == {pair(items[i]) : i \in UsedIn(items, c)}
  <2>3. PairsOf(new, c) = {pair(new[i]) : i \in UsedIn(items, c) \cup {j}}
    BY <1>5 DEF PairsOf
  <2>4. \A i \in UsedIn(items, c) : pair(new[i]) = pair(items[i])
    BY <2>2
  <2>5. pair(new[j]) = pair(carry)
    BY <1>3
  <2>6. PairsOf(items, c) = mine
    BY DEF PairsOf
  <2> HIDE DEF pair
  <2>7. {pair(new[i]) : i \in UsedIn(items, c) \cup {j}} = mine \cup {pair(carry)}
    BY <2>4, <2>5
  <2>8. QED BY <2>3, <2>6, <2>7 DEF pair
<1>12. QED BY <1>2, <1>5, <1>10, <1>11 DEF Added

(* One turn of the loop, and the first n turns as a function.              *)
Turn(s, j) ==
    IF s.carry.dist > s.items[j].dist
    THEN [items |-> [s.items EXCEPT ![j] = s.carry],
          carry |-> [s.items[j] EXCEPT !.dist = @ + 1]]
    ELSE [s EXCEPT !.carry.dist = @ + 1]

Turns(w, items, c, index, item, n) ==
    w = [k \in 0 .. n |-> IF k = 0 THEN [items |-> items, carry |-> item]
                          ELSE Turn(w[k - 1], Seat(c, index, k - 1))]

LEMMA TurnAt ==
    ASSUME NEW items, NEW c \in Nat, NEW index, NEW item, NEW n \in Nat, NEW w,
           Turns(w, items, c, index, item, n), NEW k \in 0 .. n
    PROVE  w[k] = IF k = 0 THEN [items |-> items, carry |-> item]
                  ELSE Turn(w[k - 1], Seat(c, index, k - 1))
  BY DEF Turns

LEMMA TurnsExist ==
    ASSUME NEW items, NEW c, NEW index, NEW item
    PROVE  \A n \in Nat : \E w : Turns(w, items, c, index, item, n)
<1> DEFINE b == [items |-> items, carry |-> item]
           step(g, k) == Turn(g, Seat(c, index, k - 1))
           is(w, n) == w = [k \in 0 .. n |-> IF k = 0 THEN b ELSE step(w[k - 1], k)]
           T == {n \in Nat : \E w : is(w, n)}
<1> HIDE DEF b, step
<1>1. 0 \in T
  <2>1. is([k \in 0 .. 0 |-> b], 0)
    OBVIOUS
  <2>2. QED BY <2>1
<1>2. ASSUME NEW n \in Nat, n \in T PROVE n + 1 \in T
  <2>1. PICK g : is(g, n)
    BY <1>2
  <2> DEFINE h == [k \in 0 .. n + 1 |-> IF k <= n THEN g[k] ELSE step(g[n], n + 1)]
  <2>2. ASSUME NEW k \in 0 .. n + 1 PROVE h[k] = IF k = 0 THEN b ELSE step(h[k - 1], k)
    <3>1. CASE k = 0
      BY <2>1, <3>1
    <3>2. CASE k # 0 /\ k <= n
      <4>1. g[k] = step(g[k - 1], k)
        BY <2>1, <3>2
      <4>2. h[k] = g[k] /\ h[k - 1] = g[k - 1]
        BY <3>2
      <4>3. QED BY <3>2, <4>1, <4>2
    <3>3. CASE k = n + 1
      BY <3>3
    <3>4. QED BY <3>1, <3>2, <3>3
  <2>3. is(h, n + 1)
    <3>1. h = [k \in 0 .. n + 1 |-> h[k]]
      OBVIOUS
    <3> HIDE DEF h
    <3>2. QED BY <3>1, <2>2
  <2> HIDE DEF h
  <2>4. QED BY <2>3
<1>3. \A n \in Nat : n \in T
  <2> HIDE DEF T
  <2>1. QED BY <1>1, <1>2, SetInduction
<1>4. QED BY <1>3 DEF Turns, b, step

(* The first place from index on that is not used.                         *)
FreeFrom(items, c, index, n) ==
    /\ ~Used(items[Seat(c, index, n)])
    /\ \A m \in 0 .. n - 1 : Used(items[Seat(c, index, m)])

LEMMA FreeExists ==
    ASSUME NEW c \in Nat, c > 0, NEW items, NEW index \in 0 .. c - 1,
           NEW f \in 0 .. c - 1, ~Used(items[f])
    PROVE  \E n \in 0 .. c - 1 : FreeFrom(items, c, index, n)
<1> DEFINE T == {n \in Nat : ~Used(items[Seat(c, index, n)])}
<1>1. Way(c, index, f) \in 0 .. c - 1 /\ Seat(c, index, Way(c, index, f)) = f
  BY WayIs
<1>2. Way(c, index, f) \in T
  BY <1>1
<1>3. PICK n \in T : \A m \in T : n <= m
  <2>1. T \subseteq Nat
    OBVIOUS
  <2> HIDE DEF T
  <2>2. QED BY <1>2, <2>1, LeastExists
<1>4. n \in Nat /\ n <= Way(c, index, f)
  BY <1>2, <1>3
<1>5. n \in 0 .. c - 1
  <2> HIDE DEF T
  <2>1. QED BY <1>1, <1>4
<1>6. ASSUME NEW m \in 0 .. n - 1 PROVE Used(items[Seat(c, index, m)])
  <2>1. m \in Nat /\ ~(n <= m)
    BY <1>4
  <2>2. QED BY <2>1, <1>3
<1>7. QED BY <1>3, <1>5, <1>6 DEF FreeFrom

(* What Place does: n turns, w are the states between them.                *)
PlacedBy(n, w, items, c, index, item) ==
    /\ FreeFrom(items, c, index, n) /\ Turns(w, items, c, index, item, n)
    /\ Place(items, c, index, item) = [w[n].items EXCEPT ![Seat(c, index, n)] = w[n].carry]

LEMMA PlaceWalks ==
    ASSUME NEW c \in Nat, c > 0, NEW items, NEW index \in 0 .. c - 1, NEW item,
           NEW f \in 0 .. c - 1, ~Used(items[f])
    PROVE  \E n \in 0 .. c - 1 : \E w : PlacedBy(n, w, items, c, index, item)
<1> DEFINE free == CHOOSE n \in 0 .. c - 1 :
                       ~Used(items[(index + n) % c])
                       /\ \A m \in 0 .. n - 1 : Used(items[(index + m) % c])
           walk == CHOOSE w : Turns(w, items, c, index, item, free)
<1>1. \E n \in 0 .. c - 1 : FreeFrom(items, c, index, n)
  BY FreeExists
<1>2. free \in 0 .. c - 1 /\ FreeFrom(items, c, index, free)
  <2>1. free = CHOOSE n \in 0 .. c - 1 : FreeFrom(items, c, index, n)
    BY DEF FreeFrom, Seat
  <2> HIDE DEF free
  <2>2. QED BY <1>1, <2>1
<1>3. Turns(walk, items, c, index, item, free)
  <2>1. free \in Nat
    BY <1>2
  <2> HIDE DEF free
  <2>2. \E w : Turns(w, items, c, index, item, free)
    BY <2>1, TurnsExist
  <2>3. QED BY <2>2
<1>4. Place(items, c, index, item)
        = [walk[free].items EXCEPT ![Seat(c, index, free)] = walk[free].carry]
  BY ZenonT(40) DEF Place, Turns, Turn, Seat
<1>5. PlacedBy(free, walk, items, c, index, item)
  BY <1>2, <1>3, <1>4 DEF PlacedBy
<1> HIDE DEF free, walk
<1>6. QED BY <1>2, <1>5

(* The loop carries an item to the place j: U is the set of places that    *)
(* are used, P are the items in the table with the one that is carried.    *)
Carrying(s, c, H, N, j, U, P) ==
    /\ s = [items |-> s.items, carry |-> s.carry]
    /\ Ordered(s.items, c, H, N) /\ s.carry \in Item(H, N)
    /\ Carriable(s.items, c, j, s.carry)
    /\ UsedIn(s.items, c) = U
    /\ PairsOf(s.items, c) \cup {<<s.carry.hash, s.carry.node>>} = P

LEMMA TurnCarries ==
    ASSUME NEW c \in Nat, c > 1, NEW H, H \subseteq Nat, NEW N, NEW s, NEW j, NEW U, NEW P,
           Carrying(s, c, H, N, j, U, P), j \in U
    PROVE  Carrying(Turn(s, j), c, H, N, NextIndex(c, j), U, P)
<1> DEFINE I == s.items
           C == s.carry
<1>1. /\ s = [items |-> I, carry |-> C]
      /\ Ordered(I, c, H, N) /\ C \in Item(H, N) /\ Carriable(I, c, j, C)
      /\ UsedIn(I, c) = U
      /\ PairsOf(I, c) \cup {<<C.hash, C.node>>} = P
  BY DEF Carrying
<1>2. Used(I[j])
  BY <1>1 DEF UsedIn
<1>3. c > 0
  OBVIOUS
<1> HIDE DEF I, C
<1>4. CASE C.dist > I[j].dist
  <2> DEFINE new == [I EXCEPT ![j] = C]
             next == Farther(I[j])
             r == Turn(s, j)
  <2>1. r = [items |-> new, carry |-> next]
    BY <1>1, <1>4 DEF Turn, Farther
  <2>2. r.items = new /\ r.carry = next
    BY <2>1
  <2>3. new = [I EXCEPT ![j] = C]
    OBVIOUS
  <2> HIDE DEF new, r
  <2>4. /\ Ordered(new, c, H, N) /\ Exchanged(new, I, c, C, I[j])
        /\ next \in Item(H, N) /\ Carriable(new, c, NextIndex(c, j), next)
    BY <1>1, <1>2, <1>3, <1>4, <2>3, Exchange
  <2>5. next.hash = I[j].hash /\ next.node = I[j].node
    <3>1. j \in 0 .. c - 1 /\ I \in [0 .. c - 1 -> Item(H, N)]
      BY <1>1 DEF Ordered, Carriable
    <3>2. I[j] \in Item(H, N) /\ I[j].dist \in Nat
      BY <1>2, <3>1, ItemAt
    <3>3. QED BY <3>2, FartherIs
  <2> HIDE DEF next
  <2>6. UsedIn(new, c) = U /\ PairsOf(new, c) \cup {<<next.hash, next.node>>} = P
    BY <1>1, <2>4, <2>5 DEF Exchanged
  <2>7. QED BY <1>1, <2>1, <2>2, <2>4, <2>6 DEF Carrying, r
<1>5. CASE ~(C.dist > I[j].dist)
  <2> DEFINE next == Farther(C)
             r == Turn(s, j)
  <2>1. r = [items |-> I, carry |-> next]
    BY <1>1, <1>5 DEF Turn, Farther
  <2>2. r.items = I /\ r.carry = next
    BY <2>1
  <2> HIDE DEF r
  <2>3. /\ next \in Item(H, N) /\ Carriable(I, c, NextIndex(c, j), next)
        /\ next.hash = C.hash /\ next.node = C.node
    <3>1. Ordered(I, c, H, N) /\ C \in Item(H, N) /\ Carriable(I, c, j, C)
      BY <1>1
    <3>2. Carriable(I, c, NextIndex(c, j), Farther(C))
      BY <1>3, <1>5, <3>1, Pass
    <3>3. C.dist \in Nat
      BY <3>1 DEF Carriable
    <3>4. QED BY <3>1, <3>2, <3>3, FartherIs
  <2> HIDE DEF next
  <2>4. QED BY <1>1, <2>1, <2>2, <2>3 DEF Carrying, r
<1>6. QED BY <1>4, <1>5

LEMMA Lands ==
    ASSUME NEW c \in Nat, c > 0, NEW H, H \subseteq Nat, NEW N, NEW s, NEW j, NEW U, NEW P,
           Carrying(s, c, H, N, j, U, P), j \notin U,
           NEW new, new = [s.items EXCEPT ![j] = s.carry]
    PROVE  /\ Ordered(new, c, H, N) /\ UsedIn(new, c) = U \cup {j} /\ PairsOf(new, c) = P
           /\ j \in 0 .. c - 1
<1> DEFINE I == s.items
           C == s.carry
<1>1. /\ Ordered(I, c, H, N) /\ C \in Item(H, N) /\ Carriable(I, c, j, C)
      /\ UsedIn(I, c) = U
      /\ PairsOf(I, c) \cup {<<C.hash, C.node>>} = P
  BY DEF Carrying
<1>2. ~Used(I[j])
  BY <1>1 DEF UsedIn, Carriable
<1>3. new = [I EXCEPT ![j] = C]
  OBVIOUS
<1> HIDE DEF I, C
<1>4. Ordered(new, c, H, N) /\ Added(new, I, c, j, C)
  BY <1>1, <1>2, <1>3, PutDown
<1>5. QED BY <1>1, <1>4 DEF Added

(* So does the loop after any number of turns.                             *)
LEMMA TurnsCarry ==
    ASSUME NEW c \in Nat, c > 1, NEW H, H \subseteq Nat, NEW N, NEW index \in 0 .. c - 1,
           NEW U, NEW P, NEW w, NEW n \in Nat,
           Carrying(w[0], c, H, N, index, U, P),
           \A k \in 0 .. n - 1 : w[k + 1] = Turn(w[k], Seat(c, index, k)),
           \A k \in 0 .. n - 1 : Seat(c, index, k) \in U
    PROVE  Carrying(w[n], c, H, N, Seat(c, index, n), U, P)
<1> DEFINE ok(k) == Carrying(w[k], c, H, N, Seat(c, index, k), U, P)
           T == {k \in Nat : k <= n => ok(k)}
<1>0. c > 0 /\ index \in Nat
  OBVIOUS
<1>1. 0 \in T
  <2>1. Seat(c, index, 0) = index
    BY <1>0, SeatHome
  <2>2. QED BY <2>1
<1>2. ASSUME NEW k \in Nat, k \in T PROVE k + 1 \in T
  <2>1. SUFFICES ASSUME k + 1 <= n PROVE ok(k + 1)
    OBVIOUS
  <2>2. k \in 0 .. n - 1 /\ k <= n
    BY <2>1
  <2> DEFINE j == Seat(c, index, k)
             i == Seat(c, index, k + 1)
  <2>3. Carrying(w[k], c, H, N, j, U, P) /\ j \in U
    BY <1>2, <2>2
  <2>4. w[k + 1] = Turn(w[k], j)
    BY <2>2
  <2>5. NextIndex(c, j) = i
    BY <1>0, SeatNext
  <2> HIDE DEF j, i
  <2>6. Carrying(Turn(w[k], j), c, H, N, NextIndex(c, j), U, P)
    BY <2>3, TurnCarries
  <2>7. QED BY <2>4, <2>5, <2>6 DEF i
<1>3. \A k \in Nat : k \in T
  <2> HIDE DEF T
  <2>1. QED BY <1>1, <1>2, SetInduction
<1>4. QED BY <1>3

(* Place puts one item more into the table and loses none.                 *)
LEMMA PlaceIs ==
    ASSUME NEW c \in Nat, c > 1, NEW H, H \subseteq Nat, NEW N, NEW items,
           Ordered(items, c, H, N), NEW f \in 0 .. c - 1, ~Used(items[f]),
           NEW index, NEW item \in Item(H, N), Carriable(items, c, index, item),
           NEW new, new = Place(items, c, index, item)
    PROVE  Ordered(new, c, H, N) /\ \E j : Added(new, items, c, j, item)
<1> DEFINE U == UsedIn(items, c)
           P == PairsOf(items, c) \cup {<<item.hash, item.node>>}
<1>0. index \in 0 .. c - 1 /\ c > 0
  BY DEF Carriable
<1>1a. PICK n \in 0 .. c - 1 : \E w : PlacedBy(n, w, items, c, index, item)
  BY <1>0, PlaceWalks
<1>1b. PICK w : PlacedBy(n, w, items, c, index, item)
  BY <1>1a
<1>1. /\ FreeFrom(items, c, index, n) /\ Turns(w, items, c, index, item, n)
      /\ Place(items, c, index, item) = [w[n].items EXCEPT ![Seat(c, index, n)] = w[n].carry]
  BY <1>1b DEF PlacedBy
<1>2. n \in Nat
  OBVIOUS
<1>3. w[0] = [items |-> items, carry |-> item]
  BY <1>1, <1>2 DEF Turns
<1>4. \A k \in 0 .. n - 1 : w[k + 1] = Turn(w[k], Seat(c, index, k))
  <2>1. ASSUME NEW k \in 0 .. n - 1 PROVE w[k + 1] = Turn(w[k], Seat(c, index, k))
    <3>1. k + 1 \in 0 .. n /\ (k + 1) - 1 = k /\ k + 1 # 0
      BY <1>2
    <3> DEFINE m == k + 1
    <3>2. m \in 0 .. n /\ m - 1 = k /\ m # 0
      BY <3>1
    <3> HIDE DEF m
    <3>3. w[m] = Turn(w[m - 1], Seat(c, index, m - 1))
      BY <1>1, <3>2 DEF Turns
    <3>4. QED BY <3>2, <3>3 DEF m
  <2>2. QED BY <2>1
<1>5. \A k \in 0 .. n - 1 : Seat(c, index, k) \in U
  <2>1. ASSUME NEW k \in 0 .. n - 1 PROVE Seat(c, index, k) \in U
    <3>1. Used(items[Seat(c, index, k)])
      BY <1>1 DEF FreeFrom
    <3>2. k \in Nat /\ index \in Nat
      BY <1>0
    <3>3. Seat(c, index, k) \in 0 .. c - 1
      BY <1>0, <3>2, SeatIn
    <3>4. QED BY <3>1, <3>3 DEF UsedIn
  <2>2. QED BY <2>1
<1>6. Carrying(w[0], c, H, N, index, U, P)
  BY <1>3 DEF Carrying
<1>7. Seat(c, index, n) \notin U
  BY <1>1 DEF FreeFrom, UsedIn
<1> DEFINE j == Seat(c, index, n)
<1>8. new = [w[n].items EXCEPT ![j] = w[n].carry]
  BY <1>1
<1> HIDE DEF U, P
<1>9. Carrying(w[n], c, H, N, j, U, P)
  BY <1>0, <1>2, <1>4, <1>5, <1>6, TurnsCarry
<1> HIDE DEF j
<1>10. /\ Ordered(new, c, H, N) /\ UsedIn(new, c) = U \cup {j} /\ PairsOf(new, c) = P
       /\ j \in 0 .. c - 1
  BY <1>0, <1>7, <1>8, <1>9, Lands DEF j
<1>11. Added(new, items, c, j, item)
  BY <1>7, <1>10 DEF U, P, j, Added
<1>12. QED BY <1>10, <1>11

-----------------------------------------------------------------------------
(* Removing.                                                               *)

LEMMA WayNext ==
    ASSUME NEW c \in Nat, c > 0, NEW i \in 0 .. c - 1, NEW j \in 0 .. c - 1
    PROVE  Way(c, i, NextIndex(c, j)) = IF Way(c, i, j) = c - 1 THEN 0 ELSE Way(c, i, j) + 1
<1> DEFINE b == Way(c, i, j)
<1>1. b \in 0 .. c - 1 /\ Seat(c, i, b) = j
  BY WayIs
<1>2. i \in Nat /\ b \in Nat
  BY <1>1
<1>3. NextIndex(c, j) = Seat(c, i, b + 1)
  <2> HIDE DEF b
  <2>1. QED BY <1>1, <1>2, SeatNext
<1> HIDE DEF b
<1>4. CASE b = c - 1
  <2>1. i + c \in 0 .. 2 * c - 1 /\ ~(i + c < c) /\ b + 1 = c
    BY <1>4
  <2>2. (i + c) % c = i
    BY <2>1, RemainderSmall
  <2>3. NextIndex(c, j) = Seat(c, i, 0)
    BY <1>3, <2>1, <2>2, SeatHome DEF Seat
  <2>4. 0 \in 0 .. c - 1
    OBVIOUS
  <2>5. Way(c, i, Seat(c, i, 0)) = 0
    BY <2>4, WayBack
  <2>6. QED BY <1>4, <2>3, <2>5 DEF b
<1>5. CASE b # c - 1
  <2>1. b + 1 \in 0 .. c - 1
    BY <1>1, <1>5
  <2>2. Way(c, i, Seat(c, i, b + 1)) = b + 1
    BY <2>1, WayBack
  <2>3. QED BY <1>3, <1>5, <2>2 DEF b
<1>6. QED BY <1>4, <1>5

Nearer(item) == [item EXCEPT !.dist = @ - 1]

LEMMA NearerIs ==
    ASSUME NEW H, NEW N, NEW item \in Item(H, N), item.dist \in Nat, item.dist > 0
    PROVE  /\ Nearer(item) \in Item(H, N)
           /\ Nearer(item).dist = item.dist - 1 /\ Nearer(item).dist \in Nat
           /\ Nearer(item).hash = item.hash /\ Nearer(item).node = item.node
  BY DEF Nearer, Item

(* The same item, one place back.                                          *)
LEMMA NearerSeat ==
    ASSUME NEW c \in Nat, c > 0, NEW h \in Nat, NEW d \in Nat, d > 0,
           NEW j \in 0 .. c - 1, Seat(c, h, d) = NextIndex(c, j)
    PROVE  Seat(c, h, d - 1) = j
<1> DEFINE e == d - 1
<1>1. e \in Nat /\ e + 1 = d
  OBVIOUS
<1> HIDE DEF e
<1>2. NextIndex(c, Seat(c, h, e)) = Seat(c, h, d) /\ Seat(c, h, e) \in 0 .. c - 1
  BY <1>1, SeatIn, SeatNext
<1>3. Seat(c, h, e) = j
  BY <1>2, NextInjective
<1>4. QED BY <1>3 DEF e

(* The n items behind p are away from home, the one after them is not.     *)
Follow(items, c, p, n) ==
    /\ items[Seat(c, p, n + 1)].dist <= 0
    /\ \A k \in 1 .. n : items[Seat(c, p, k)].dist > 0

LEMMA FollowExists ==
    ASSUME NEW c \in Nat, c > 0, NEW H, NEW N, NEW items,
           items \in [0 .. c - 1 -> Item(H, N)], NEW f \in 0 .. c - 1, ~Used(items[f]),
           NEW p \in 0 .. c - 1, Used(items[p])
    PROVE  /\ \E n \in 0 .. c - 1 : Follow(items, c, p, n)
           /\ \A n \in 0 .. c - 1 : Follow(items, c, p, n) => n <= c - 2
<1> DEFINE T == {n \in Nat : items[Seat(c, p, n + 1)].dist <= 0}
           g == Way(c, p, f)
<1>1. g \in 0 .. c - 1 /\ Seat(c, p, g) = f
  BY WayIs
<1>2. g # 0
  BY <1>1, SeatHome
<1>3. g - 1 \in Nat /\ (g - 1) + 1 = g /\ items[f].dist <= 0
  BY <1>1, <1>2 DEF Used
<1> HIDE DEF g
<1>4. g - 1 \in T
  BY <1>1, <1>3
<1>5. PICK n \in T : \A m \in T : n <= m
  <2>1. T \subseteq Nat
    OBVIOUS
  <2> HIDE DEF T
  <2>2. QED BY <1>4, <2>1, LeastExists
<1>6. n \in Nat /\ n <= g - 1
  BY <1>4, <1>5
<1>7. n \in 0 .. c - 1
  <2> HIDE DEF T
  <2>1. QED BY <1>1, <1>6
<1>8. ASSUME NEW k \in 1 .. n PROVE items[Seat(c, p, k)].dist > 0
  <2> DEFINE m == k - 1
  <2>1. m \in Nat /\ ~(n <= m) /\ m + 1 = k
    BY <1>6
  <2> HIDE DEF m
  <2>2. ~(items[Seat(c, p, m + 1)].dist <= 0)
    BY <2>1, <1>5
  <2>3. p \in Nat /\ k \in Nat
    OBVIOUS
  <2>4. Seat(c, p, k) \in 0 .. c - 1
    BY <2>3, SeatIn
  <2>5. items[Seat(c, p, k)].dist \in Int
    BY <2>4, ItemAt
  <2>6. QED BY <2>1, <2>2, <2>5
<1>9. Follow(items, c, p, n)
  BY <1>5, <1>8 DEF Follow
<1>10. ASSUME NEW m \in 0 .. c - 1, Follow(items, c, p, m) PROVE m <= c - 2
  <2>1. SUFFICES ASSUME ~(m <= c - 2) PROVE FALSE
    OBVIOUS
  <2>2. g \in 1 .. m
    BY <2>1, <1>1, <1>2
  <2>3. items[f].dist > 0
    BY <1>10, <1>1, <2>2 DEF Follow
  <2>4. QED BY <2>3 DEF Used
<1>11. QED BY <1>7, <1>9, <1>10

(* The table new is items without the item at p.                           *)
Removed(new, items, c, p) ==
    /\ \E j \in UsedIn(items, c) : UsedIn(new, c) = UsedIn(items, c) \ {j}
    /\ PairsOf(new, c) = PairsOf(items, c) \ {<<items[p].hash, items[p].node>>}

(* The n items behind p move up.                                           *)
MovedUp(items, c, p, n) ==
    [j \in 0 .. c - 1 |->
        IF Way(c, p, j) < n THEN Nearer(items[Seat(c, p, Way(c, p, j) + 1)])
        ELSE IF Way(c, p, j) = n THEN Unused ELSE items[j]]

LEMMA MovedUpIs ==
    ASSUME NEW c \in Nat, c > 1, NEW H, H \subseteq Nat, NEW N, 0 \in H, Nil \in N,
           NEW items, Ordered(items, c, H, N), NEW p \in UsedIn(items, c),
           NEW n \in 0 .. c - 2, Follow(items, c, p, n),
           NEW new, new = MovedUp(items, c, p, n)
    PROVE  Ordered(new, c, H, N) /\ Removed(new, items, c, p)
<1> DEFINE at(k) == Seat(c, p, k)
           way(j) == Way(c, p, j)
           from(j) == IF way(j) < n THEN at(way(j) + 1) ELSE j
           gap == at(n)
<1>0. c > 0 /\ p \in 0 .. c - 1 /\ p \in Nat /\ n \in Nat /\ n \in 0 .. c - 1
      /\ n + 1 \in 0 .. c - 1 /\ 0 \in 0 .. c - 1
  BY DEF UsedIn
<1>1. items \in [0 .. c - 1 -> Item(H, N)]
  BY DEF Ordered
<1>2. \A j \in 0 .. c - 1 : items[j] \in Item(H, N) /\ items[j].dist \in Int /\ items[j].dist >= -1
  BY <1>1, ItemAt
<1>3. \A j \in 0 .. c - 1 : way(j) \in 0 .. c - 1 /\ at(way(j)) = j
  BY <1>0, WayIs
<1>4. \A k \in 0 .. c - 1 : at(k) \in 0 .. c - 1 /\ way(at(k)) = k
  <2>1. ASSUME NEW k \in 0 .. c - 1 PROVE at(k) \in 0 .. c - 1 /\ way(at(k)) = k
    <3>1. k \in Nat
      OBVIOUS
    <3>2. QED BY <1>0, <3>1, SeatIn, WayBack
  <2>2. QED BY <2>1
<1>5. \A j \in 0 .. c - 1 : way(NextIndex(c, j)) = IF way(j) = c - 1 THEN 0 ELSE way(j) + 1
  BY <1>0, WayNext
<1>6. at(0) = p /\ way(p) = 0
  BY <1>0, <1>4, SeatHome
<1>7. gap \in 0 .. c - 1 /\ way(gap) = n
  BY <1>0, <1>4
<1>8. items[at(n + 1)].dist <= 0 /\ \A k \in 1 .. n : items[at(k)].dist > 0
  BY DEF Follow
<1>9. \A j \in 0 .. c - 1 : NextIndex(c, j) \in 0 .. c - 1
  BY <1>0, NextIn
<1>10. \A j \in 0 .. c - 1 : items[NextIndex(c, j)].dist <= items[j].dist + 1
  BY DEF Ordered
<1>11. \A j \in 0 .. c - 1 : new[j] = IF way(j) < n THEN Nearer(items[at(way(j) + 1)])
                                      ELSE IF way(j) = n THEN Unused ELSE items[j]
  BY DEF MovedUp
<1>12. DOMAIN new = 0 .. c - 1 /\ new = [j \in 0 .. c - 1 |-> new[j]]
  BY DEF MovedUp
<1> HIDE DEF at, way, gap
<1>13. ASSUME NEW j \in 0 .. c - 1, way(j) < n
       PROVE  /\ at(way(j) + 1) \in 0 .. c - 1 /\ way(j) + 1 \in 1 .. n
              /\ way(at(way(j) + 1)) = way(j) + 1
              /\ at(way(j) + 1) = NextIndex(c, j)
              /\ items[at(way(j) + 1)].dist \in Nat /\ items[at(way(j) + 1)].dist > 0
  <2>1. way(j) + 1 \in 0 .. c - 1 /\ way(j) + 1 \in 1 .. n
    BY <1>0, <1>3, <1>13
  <2>2. at(way(j) + 1) \in 0 .. c - 1 /\ items[at(way(j) + 1)].dist > 0
    BY <1>4, <1>8, <2>1
  <2>3. items[at(way(j) + 1)].dist \in Int
    BY <1>2, <2>2
  <2>4. way(NextIndex(c, j)) = way(j) + 1
    BY <1>0, <1>3, <1>5, <1>13
  <2>5. at(way(j) + 1) = NextIndex(c, j)
    BY <2>4, <1>3, <1>9
  <2>6. QED BY <2>1, <2>2, <2>3, <2>5, <1>4
<1>14. ASSUME NEW j \in 0 .. c - 1, way(j) < n
       PROVE  /\ new[j] \in Item(H, N) /\ new[j].dist = items[from(j)].dist - 1
              /\ new[j].dist \in Nat
              /\ new[j].hash = items[from(j)].hash /\ new[j].node = items[from(j)].node
              /\ from(j) = NextIndex(c, j)
  <2> DEFINE i == at(way(j) + 1)
  <2>1. i \in 0 .. c - 1 /\ items[i].dist \in Nat /\ items[i].dist > 0 /\ i = NextIndex(c, j)
    BY <1>13, <1>14
  <2>2. new[j] = Nearer(items[i]) /\ from(j) = i
    BY <1>11, <1>14
  <2> HIDE DEF i, from
  <2>3. items[i] \in Item(H, N)
    BY <1>2, <2>1
  <2>4. QED BY <2>1, <2>2, <2>3, NearerIs
<1>15. ASSUME NEW j \in 0 .. c - 1, way(j) = n
       PROVE  new[j] = Unused /\ new[j].dist = -1 /\ new[j] \in Item(H, N) /\ j = gap
  <2>1. new[j] = Unused
    BY <1>0, <1>11, <1>15
  <2>2. j = gap
    BY <1>3, <1>15 DEF gap
  <2>3. QED BY <2>1, <2>2 DEF Unused, Item
<1>16. ASSUME NEW j \in 0 .. c - 1, ~(way(j) < n), way(j) # n
       PROVE  new[j] = items[j] /\ from(j) = j /\ way(j) > n
  BY <1>0, <1>3, <1>11, <1>16
<1>17. new \in [0 .. c - 1 -> Item(H, N)]
  <2>1. \A j \in 0 .. c - 1 : new[j] \in Item(H, N)
    BY <1>2, <1>14, <1>15, <1>16
  <2>2. QED BY <2>1, <1>12
<1>18. ASSUME NEW j \in 0 .. c - 1, way(j) <= n PROVE j \in UsedIn(items, c)
  <2>1. CASE way(j) = 0
    <3>1. j = p
      BY <2>1, <1>3, <1>6
    <3>2. QED BY <3>1
  <2>2. CASE way(j) # 0
    <3>1. way(j) \in 1 .. n
      BY <2>2, <1>0, <1>3, <1>18
    <3>2. items[j].dist > 0
      BY <3>1, <1>3, <1>8
    <3>3. QED BY <3>2 DEF UsedIn, Used
  <2>3. QED BY <2>1, <2>2
<1>19. UsedIn(new, c) = UsedIn(items, c) \ {gap} /\ gap \in UsedIn(items, c)
  <2>1. gap \in UsedIn(items, c)
    BY <1>0, <1>7, <1>18
  <2>2. ASSUME NEW j \in 0 .. c - 1
        PROVE  Used(new[j]) <=> Used(items[j]) /\ j # gap
    <3>1. CASE way(j) < n
      <4>1. Used(new[j])
        BY <3>1, <1>14 DEF Used
      <4>2. Used(items[j])
        BY <3>1, <1>0, <1>3, <1>18 DEF UsedIn
      <4>3. j # gap
        BY <3>1, <1>0, <1>7
      <4>4. QED BY <4>1, <4>2, <4>3
    <3>2. CASE way(j) = n
      BY <3>2, <1>15 DEF Used
    <3>3. CASE ~(way(j) < n) /\ way(j) # n
      BY <3>3, <1>7, <1>16
    <3>4. QED BY <3>1, <3>2, <3>3
  <2>3. QED BY <2>1, <2>2 DEF UsedIn
<1>20. ASSUME NEW j \in UsedIn(new, c)
       PROVE  /\ j \in 0 .. c - 1 /\ way(j) # n /\ from(j) \in UsedIn(items, c)
              /\ new[j].hash = items[from(j)].hash /\ new[j].node = items[from(j)].node
  <2>1. j \in 0 .. c - 1 /\ j \in UsedIn(items, c) /\ j # gap
    BY <1>19 DEF UsedIn
  <2>2. way(j) # n
    BY <2>1, <1>15
  <2>3. CASE way(j) < n
    <3>1. from(j) \in UsedIn(items, c)
      <4>1. from(j) = at(way(j) + 1) /\ way(j) + 1 \in 1 .. n
            /\ from(j) \in 0 .. c - 1 /\ way(from(j)) = way(j) + 1
        BY <2>1, <2>3, <1>13
      <4> HIDE DEF from
      <4>2. way(from(j)) <= n
        BY <4>1, <1>0
      <4>3. QED BY <4>1, <4>2, <1>18
    <3>2. QED BY <2>1, <2>2, <2>3, <3>1, <1>14
  <2>4. CASE ~(way(j) < n)
    BY <2>1, <2>2, <2>4, <1>16
  <2>5. QED BY <2>3, <2>4
<1>21. ASSUME NEW j \in UsedIn(new, c)
       PROVE  Seat(c, Home(c, new[j].hash), new[j].dist) = j
  <2>1. j \in 0 .. c - 1 /\ way(j) # n /\ from(j) \in UsedIn(items, c)
    BY <1>20
  <2>2. Seat(c, Home(c, items[from(j)].hash), items[from(j)].dist) = from(j)
    BY <2>1 DEF Ordered
  <2>3. CASE way(j) < n
    <3> DEFINE i == from(j)
    <3>1. /\ new[j].dist = items[i].dist - 1 /\ new[j].hash = items[i].hash
          /\ i = NextIndex(c, j)
      BY <2>1, <2>3, <1>14
    <3>2. items[i].dist \in Nat /\ items[i].dist > 0 /\ i \in 0 .. c - 1
      BY <2>1, <2>3, <1>13
    <3> HIDE DEF i
    <3>3. items[i].hash \in Nat
      BY <3>2, <1>1, ItemAt
    <3>4. Home(c, items[i].hash) \in Nat
      BY <3>3, <1>0, HomeIn
    <3>5. Seat(c, Home(c, items[i].hash), items[i].dist) = NextIndex(c, j)
      BY <2>2, <3>1 DEF i
    <3>6. Seat(c, Home(c, items[i].hash), items[i].dist - 1) = j
      BY <1>0, <2>1, <3>2, <3>4, <3>5, NearerSeat
    <3>7. QED BY <3>1, <3>6
  <2>4. CASE ~(way(j) < n)
    BY <2>1, <2>2, <2>4, <1>16
  <2>5. QED BY <2>3, <2>4
<1>22. ASSUME NEW j \in 0 .. c - 1 PROVE new[NextIndex(c, j)].dist <= new[j].dist + 1
  <2> DEFINE m == NextIndex(c, j)
  <2>1. m \in 0 .. c - 1 /\ way(m) = IF way(j) = c - 1 THEN 0 ELSE way(j) + 1
    BY <1>5, <1>9
  <2>2. way(j) \in 0 .. c - 1 /\ way(m) \in 0 .. c - 1
    BY <1>3, <2>1
  <2>3. items[m].dist <= items[j].dist + 1
    BY <1>10
  <2> HIDE DEF m
  <2>4. items[m].dist \in Int /\ items[j].dist \in Int /\ items[m].dist >= -1 /\ items[j].dist >= -1
    BY <1>2, <2>1
  <2>5. CASE way(j) < n
    <3>1. /\ new[j].dist = items[m].dist - 1 /\ new[j].dist \in Nat /\ way(m) = way(j) + 1
      BY <2>1, <2>2, <2>5, <1>0, <1>14 DEF m
    <3>2. CASE way(m) < n
      <4> DEFINE i == NextIndex(c, m)
      <4>1. new[m].dist = items[i].dist - 1 /\ i \in 0 .. c - 1
        BY <2>1, <3>2, <1>9, <1>14
      <4>2. items[i].dist <= items[m].dist + 1 /\ items[i].dist \in Int
        BY <2>1, <4>1, <1>2, <1>10
      <4> HIDE DEF i
      <4>3. new[m].dist <= new[j].dist + 1
        BY <3>1, <4>1, <4>2, <2>4
      <4>4. QED BY <4>3 DEF m
    <3>3. CASE ~(way(m) < n)
      <4>1. way(m) = n
        BY <2>2, <2>5, <3>1, <3>3, <1>0
      <4>2. new[m].dist = -1
        BY <2>1, <4>1, <1>15
      <4>3. new[m].dist <= new[j].dist + 1
        BY <3>1, <4>2
      <4>4. QED BY <4>3 DEF m
    <3>4. QED BY <3>2, <3>3
  <2>6. CASE way(j) = n
    <3>1. new[j].dist = -1
      BY <2>6, <1>15
    <3>2. way(m) = n + 1
      BY <2>1, <2>2, <2>6, <1>0
    <3>3. m = at(n + 1)
      BY <2>1, <3>2, <1>3
    <3>4. new[m] = items[m]
      BY <2>1, <3>2, <1>0, <1>16
    <3>5. items[m].dist <= 0
      BY <3>3, <1>8
    <3>6. QED BY <3>1, <3>4, <3>5, <2>4 DEF m
  <2>7. CASE ~(way(j) < n) /\ way(j) # n /\ way(j) # c - 1
    <3>1. new[j] = items[j] /\ way(j) > n
      BY <2>7, <1>16
    <3>2. way(m) = way(j) + 1
      BY <2>1, <2>7
    <3>3. ~(way(m) < n) /\ way(m) # n
      BY <2>2, <3>1, <3>2, <1>0
    <3>4. new[m] = items[m]
      BY <2>1, <3>3, <1>16
    <3>5. QED BY <3>1, <3>4, <2>3 DEF m
  <2>8. CASE way(j) = c - 1
    <3>1. new[j] = items[j]
      BY <2>2, <2>8, <1>0, <1>16
    <3>2. way(m) = 0 /\ m = p
      <4>1. way(m) = 0
        BY <2>1, <2>8
      <4>2. QED BY <4>1, <2>1, <1>3, <1>6
    <3>3. CASE n = 0
      <4>1. new[m].dist = -1
        BY <2>1, <3>2, <3>3, <1>15
      <4>2. new[m].dist <= new[j].dist + 1
        BY <3>1, <4>1, <2>4
      <4>3. QED BY <4>2 DEF m
    <3>4. CASE n # 0
      <4> DEFINE i == NextIndex(c, m)
      <4>1. way(m) < n
        BY <3>2, <3>4, <1>0
      <4>2. new[m].dist = items[i].dist - 1 /\ i \in 0 .. c - 1
        BY <2>1, <4>1, <1>9, <1>14
      <4>3. items[i].dist <= items[m].dist + 1 /\ items[i].dist \in Int
        BY <2>1, <4>2, <1>2, <1>10
      <4> HIDE DEF i
      <4>4. new[m].dist <= new[j].dist + 1
        BY <3>1, <4>2, <4>3, <2>3, <2>4
      <4>5. QED BY <4>4 DEF m
    <3>5. QED BY <3>3, <3>4
  <2>9. QED BY <2>5, <2>6, <2>7, <2>8
<1>23. ASSUME NEW i \in UsedIn(new, c), NEW j \in UsedIn(new, c), from(i) = from(j)
       PROVE  i = j
  <2>1. /\ i \in 0 .. c - 1 /\ way(i) # n /\ j \in 0 .. c - 1 /\ way(j) # n
    BY <1>20
  <2>2. way(i) \in 0 .. c - 1 /\ way(j) \in 0 .. c - 1 /\ at(way(i)) = i /\ at(way(j)) = j
    BY <2>1, <1>3
  <2>3. \A k \in {i, j} : way(from(k)) = IF way(k) < n THEN way(k) + 1 ELSE way(k)
    <3>1. ASSUME NEW k \in {i, j} PROVE way(from(k)) = IF way(k) < n THEN way(k) + 1 ELSE way(k)
      <4>1. k \in 0 .. c - 1
        BY <2>1
      <4>2. CASE way(k) < n
        BY <4>1, <4>2, <1>13
      <4>3. CASE ~(way(k) < n)
        BY <4>3
      <4>4. QED BY <4>2, <4>3
    <3>2. QED BY <3>1
  <2> HIDE DEF from
  <2>4. way(from(i)) = way(from(j))
    BY <1>23
  <2>5. way(i) = way(j)
    BY <1>0, <2>1, <2>2, <2>3, <2>4
  <2>6. QED BY <2>2, <2>5
<1>24. ASSUME NEW i \in UsedIn(new, c), NEW j \in UsedIn(new, c), new[i].hash = new[j].hash
       PROVE  i = j
  <2> HIDE DEF from
  <2>1. items[from(i)].hash = items[from(j)].hash
    BY <1>20, <1>24
  <2>2. from(i) = from(j)
    BY <2>1, <1>20 DEF Ordered
  <2>3. QED BY <2>2, <1>23
<1>25. Ordered(new, c, H, N)
  BY <1>17, <1>21, <1>22, <1>24 DEF Ordered
<1>26. ASSUME NEW i \in UsedIn(items, c), i # p
       PROVE  \E j \in UsedIn(new, c) : from(j) = i
  <2>1. i \in 0 .. c - 1
    BY DEF UsedIn
  <2>2. way(i) \in 0 .. c - 1 /\ at(way(i)) = i /\ way(i) # 0
    BY <2>1, <1>3, <1>6, <1>26
  <2>3. CASE way(i) <= n
    <3> DEFINE k == way(i) - 1
               j == at(k)
    <3>1. k \in 0 .. c - 1 /\ k < n /\ k + 1 = way(i)
      BY <2>2, <2>3, <1>0
    <3> HIDE DEF k
    <3>2. j \in 0 .. c - 1 /\ way(j) = k
      BY <3>1, <1>4
    <3> HIDE DEF j
    <3>3. from(j) = i
      BY <2>2, <3>1, <3>2
    <3>4. j \in UsedIn(new, c)
      <4>1. j \in UsedIn(items, c) /\ j # gap
        BY <3>1, <3>2, <1>0, <1>7, <1>18
      <4>2. QED BY <4>1, <1>19
    <3>5. QED BY <3>3, <3>4
  <2>4. CASE ~(way(i) <= n)
    <3>1. ~(way(i) < n) /\ i # gap
      BY <2>2, <2>4, <1>0, <1>7
    <3>2. from(i) = i
      BY <3>1
    <3>3. i \in UsedIn(new, c)
      BY <3>1, <1>19
    <3>4. QED BY <3>2, <3>3
  <2>5. QED BY <2>3, <2>4
<1>27. ASSUME NEW j \in UsedIn(new, c) PROVE from(j) # p
  <2>1. j \in 0 .. c - 1 /\ way(j) # n /\ way(j) \in 0 .. c - 1
    BY <1>3, <1>20
  <2>2. CASE way(j) < n
    <3>1. way(from(j)) = way(j) + 1
      BY <2>1, <2>2, <1>13
    <3>2. QED BY <2>1, <3>1, <1>6
  <2>3. CASE ~(way(j) < n)
    <3>1. from(j) = j /\ way(j) > n
      BY <2>1, <2>3, <1>16
    <3>2. QED BY <3>1, <1>0, <1>6
  <2>4. QED BY <2>2, <2>3
<1> HIDE DEF from
<1>28. PairsOf(new, c) = PairsOf(items, c) \ {<<items[p].hash, items[p].node>>}
  <2>1. ASSUME NEW x \in PairsOf(new, c)
        PROVE  x \in PairsOf(items, c) /\ x # <<items[p].hash, items[p].node>>
    <3>1. PICK j \in UsedIn(new, c) : x = <<new[j].hash, new[j].node>>
      BY DEF PairsOf
    <3>2. x = <<items[from(j)].hash, items[from(j)].node>> /\ from(j) \in UsedIn(items, c)
      BY <3>1, <1>20
    <3>3. items[from(j)].hash # items[p].hash
      BY <3>2, <1>27 DEF Ordered
    <3>4. QED BY <3>2, <3>3 DEF PairsOf
  <2>2. ASSUME NEW x \in PairsOf(items, c), x # <<items[p].hash, items[p].node>>
        PROVE  x \in PairsOf(new, c)
    <3>1. PICK i \in UsedIn(items, c) : x = <<items[i].hash, items[i].node>>
      BY DEF PairsOf
    <3>2. i # p
      BY <2>2, <3>1
    <3>3. PICK j \in UsedIn(new, c) : from(j) = i
      BY <3>2, <1>26
    <3>4. x = <<new[j].hash, new[j].node>>
      BY <3>1, <3>3, <1>20
    <3>5. QED BY <3>4 DEF PairsOf
  <2>3. QED BY <2>1, <2>2
<1>29. QED BY <1>19, <1>25, <1>28 DEF Removed

-----------------------------------------------------------------------------
(* The table as a whole.                                                   *)

(* H are the hashes and N what a table may refer to.                       *)
Domains(H, N) == H \subseteq Nat /\ 0 \in H /\ Nil \in N

TableOK(t, H, N) ==
    /\ t = [cap |-> t.cap, items |-> t.items, size |-> t.size]
    /\ (\E m \in Nat : m >= 2 /\ t.cap = Pow2[m]) /\ t.cap >= MinCapacity
    /\ Ordered(t.items, t.cap, H, N)
    /\ t.size = Cardinality(UsedIn(t.items, t.cap))
    /\ t.size < Threshold(t.cap)

TablePairs(t) == PairsOf(t.items, t.cap)

LEMMA CapIs ==
    ASSUME NEW m \in Nat, m >= 2
    PROVE  /\ Pow2[m] \in Nat /\ Pow2[m] >= 4
           /\ Threshold(Pow2[m]) \in Nat /\ Threshold(Pow2[m]) > 0
           /\ Threshold(Pow2[m]) < Pow2[m]
           /\ Threshold(2 * Pow2[m]) > Threshold(Pow2[m])
<1>1. Pow2[m] \in Nat
  BY Pow2Steps
<1>2. Pow2[m] >= 4
  <2>1. Pow2[1] = 2 /\ Pow2[2] = 4
    <3>1. Pow2[0] = 1 /\ Pow2[0 + 1] = 2 * Pow2[0] /\ Pow2[1 + 1] = 2 * Pow2[1]
      BY Pow2Steps
    <3>2. QED BY <3>1
  <2>2. CASE m = 2
    BY <2>1, <2>2
  <2>3. CASE m # 2
    <3>1. 2 \in Nat /\ 2 < m
      BY <2>3
    <3>2. 2 * Pow2[2] <= Pow2[m]
      BY <3>1, Pow2Grows
    <3>3. QED BY <2>1, <3>2, <1>1
  <2>4. QED BY <2>2, <2>3
<1>3. \A x \in Nat : x >= 4 =>
          /\ (x \div 4) * 3 \in Nat /\ (x \div 4) * 3 > 0 /\ (x \div 4) * 3 < x
          /\ ((2 * x) \div 4) * 3 > (x \div 4) * 3
  OBVIOUS
<1>4. QED BY <1>1, <1>2, <1>3 DEF Threshold

LEMMA UsedFinite ==
    ASSUME NEW c \in Nat, NEW items
    PROVE  /\ IsFiniteSet(UsedIn(items, c)) /\ Cardinality(UsedIn(items, c)) \in Nat
           /\ Cardinality(UsedIn(items, c)) < c => \E f \in 0 .. c - 1 : ~Used(items[f])
<1>1. IsFiniteSet(0 .. c - 1) /\ Cardinality(0 .. c - 1) = c
  <2>1. 0 \in Int /\ c - 1 \in Int
    OBVIOUS
  <2>2. IsFiniteSet(0 .. c - 1) /\ Cardinality(0 .. c - 1) = IF 0 > c - 1 THEN 0 ELSE c - 1 - 0 + 1
    BY <2>1, FS_Interval
  <2>3. QED BY <2>2
<1>2. UsedIn(items, c) \subseteq 0 .. c - 1
  BY DEF UsedIn
<1>3. IsFiniteSet(UsedIn(items, c)) /\ Cardinality(UsedIn(items, c)) \in Nat
  BY <1>1, <1>2, FS_Subset, FS_CardinalityType
<1>4. ASSUME Cardinality(UsedIn(items, c)) < c PROVE \E f \in 0 .. c - 1 : ~Used(items[f])
  <2>1. UsedIn(items, c) # 0 .. c - 1
    BY <1>1, <1>3, <1>4
  <2>2. QED BY <2>1 DEF UsedIn
<1>5. QED BY <1>3, <1>4

LEMMA TableIs ==
    ASSUME NEW H, NEW N, Domains(H, N), NEW t, TableOK(t, H, N)
    PROVE  /\ t.cap \in Nat /\ t.cap > 1 /\ t.cap > 0
           /\ t.size \in Nat /\ t.size + 1 < t.cap
           /\ Searchable(t, H, N)
<1>1. PICK m \in Nat : m >= 2 /\ t.cap = Pow2[m]
  BY DEF TableOK
<1>2. t.cap \in Nat /\ t.cap >= 4 /\ Threshold(t.cap) < t.cap /\ Threshold(t.cap) \in Nat
  BY <1>1, CapIs
<1>3. t.size = Cardinality(UsedIn(t.items, t.cap)) /\ t.size < Threshold(t.cap)
  BY DEF TableOK
<1>4. t.size \in Nat
  BY <1>2, <1>3, UsedFinite
<1>5. t.size < t.cap /\ t.size + 1 < t.cap /\ t.cap > 1 /\ t.cap > 0
  BY <1>2, <1>3, <1>4
<1>6. \E f \in 0 .. t.cap - 1 : ~Used(t.items[f])
  <2>1. Cardinality(UsedIn(t.items, t.cap)) < t.cap
    BY <1>3, <1>5
  <2>2. QED BY <2>1, <1>2, UsedFinite
<1>7. Searchable(t, H, N)
  BY <1>2, <1>5, <1>6 DEF Searchable, TableOK, Domains
<1>8. QED BY <1>2, <1>4, <1>5, <1>7

(* Items none of which is used.                                            *)
LEMMA EmptyItems ==
    ASSUME NEW c \in Nat, c > 0, NEW H, NEW N, Domains(H, N),
           NEW items, items = [j \in 0 .. c - 1 |-> Unused]
    PROVE  /\ Ordered(items, c, H, N) /\ UsedIn(items, c) = {} /\ PairsOf(items, c) = {}
           /\ Cardinality(UsedIn(items, c)) = 0
<1>1. Unused \in Item(H, N) /\ Unused.dist = -1
  BY DEF Domains, Item, Unused
<1>2. \A j \in 0 .. c - 1 : items[j] = Unused
  OBVIOUS
<1>3. items \in [0 .. c - 1 -> Item(H, N)]
  BY <1>1
<1>4. UsedIn(items, c) = {}
  BY <1>1, <1>2 DEF UsedIn, Used
<1>5. \A j \in 0 .. c - 1 : items[NextIndex(c, j)].dist <= items[j].dist + 1
  <2>1. ASSUME NEW j \in 0 .. c - 1 PROVE items[NextIndex(c, j)].dist <= items[j].dist + 1
    <3>1. NextIndex(c, j) \in 0 .. c - 1
      BY NextIn
    <3>2. items[NextIndex(c, j)].dist = -1 /\ items[j].dist = -1
      BY <3>1, <1>1, <1>2
    <3>3. QED BY <3>2
  <2>2. QED BY <2>1
<1>6. Ordered(items, c, H, N)
  BY <1>3, <1>4, <1>5 DEF Ordered
<1>7. PairsOf(items, c) = {}
  BY <1>4 DEF PairsOf
<1>8. QED BY <1>4, <1>6, <1>7, FS_EmptySet

LEMMA NewTableIs ==
    ASSUME NEW H, NEW N, Domains(H, N), NEW n \in Nat, NEW t, t = NewTable(n)
    PROVE  TableOK(t, H, N) /\ TablePairs(t) = {} /\ t.size = 0
<1>1. t = [cap |-> AdaptAtLeast(n), items |-> [j \in 0 .. AdaptAtLeast(n) - 1 |-> Unused],
           size |-> 0]
  BY DEF NewTable
<1>2. PICK m \in Nat : m >= 2 /\ AdaptAtLeast(n) = Pow2[m]
  BY AdaptIs
<1>3. AdaptAtLeast(n) >= MinCapacity
  BY AdaptIs
<1>4. /\ t.cap = Pow2[m] /\ t.size = 0 /\ t.items = [j \in 0 .. t.cap - 1 |-> Unused]
      /\ t = [cap |-> t.cap, items |-> t.items, size |-> t.size] /\ t.cap >= MinCapacity
  BY <1>1, <1>2, <1>3
<1>5. t.cap \in Nat /\ t.cap > 0 /\ Threshold(t.cap) > 0
  BY <1>2, <1>4, CapIs
<1>6. /\ Ordered(t.items, t.cap, H, N) /\ PairsOf(t.items, t.cap) = {}
      /\ Cardinality(UsedIn(t.items, t.cap)) = 0
  BY <1>4, <1>5, EmptyItems
<1>7. QED BY <1>2, <1>4, <1>5, <1>6 DEF TableOK, TablePairs

(* pop_value_on_index moves the items after the hole up by one place: the  *)
(* table is in order again and refers to what it referred to before,       *)
(* without the pair that was popped, for every capacity and every table in *)
(* order.                                                                  *)
THEOREM PopRemovesOne ==
    ASSUME NEW H, NEW N, Domains(H, N), NEW t, TableOK(t, H, N), NEW pos,
           pos.index \in UsedIn(t.items, t.cap), NEW new, new = PopOnIndex(t, pos)
    PROVE  /\ TableOK(new, H, N) /\ new.size = t.size - 1
           /\ TablePairs(new) = TablePairs(t) \ {<<t.items[pos.index].hash, t.items[pos.index].node>>}
<1> DEFINE c == t.cap
           items == t.items
           p == pos.index
           n == CHOOSE m \in 0 .. c - 1 :
                    items[(p + (m + 1)) % c].dist <= 0 /\ \A k \in 1 .. m : items[(p + k) % c].dist > 0
<1>1. /\ c \in Nat /\ c > 1 /\ c > 0 /\ t.size \in Nat /\ t.size + 1 < c
      /\ Ordered(items, c, H, N) /\ \E f \in 0 .. c - 1 : ~Used(items[f])
  BY TableIs DEF Searchable
<1>2. H \subseteq Nat /\ 0 \in H /\ Nil \in N
  BY DEF Domains
<1>3. items \in [0 .. c - 1 -> Item(H, N)]
  BY <1>1 DEF Ordered
<1>4. p \in UsedIn(items, c) /\ p \in 0 .. c - 1 /\ Used(items[p])
  BY DEF UsedIn
<1>5. t = [cap |-> c, items |-> items, size |-> t.size]
  BY DEF TableOK
<1>6. n = CHOOSE m \in 0 .. c - 1 : Follow(items, c, p, m)
  BY ZenonT(40) DEF Follow, Seat
<1>7. new = [t EXCEPT !.items = MovedUp(items, c, p, n), !.size = @ - 1]
  BY ZenonT(40) DEF PopOnIndex, MovedUp, Seat, Way, Nearer
<1> HIDE DEF n
<1>8. new.cap = c /\ new.items = MovedUp(items, c, p, n) /\ new.size = t.size - 1
      /\ new = [cap |-> new.cap, items |-> new.items, size |-> new.size]
  BY <1>5, <1>7
<1> HIDE DEF c, items, p
<1>9. n \in 0 .. c - 2 /\ Follow(items, c, p, n)
  <2>1. PICK f \in 0 .. c - 1 : ~Used(items[f])
    BY <1>1
  <2>2. /\ \E m \in 0 .. c - 1 : Follow(items, c, p, m)
        /\ \A m \in 0 .. c - 1 : Follow(items, c, p, m) => m <= c - 2
    BY <2>1, <1>1, <1>3, <1>4, FollowExists
  <2>3. n \in 0 .. c - 1 /\ Follow(items, c, p, n)
    BY <2>2, <1>6
  <2>4. n <= c - 2
    BY <2>2, <2>3
  <2>5. QED BY <2>3, <2>4, <1>1
<1>10. Ordered(new.items, c, H, N) /\ Removed(new.items, items, c, p)
  BY <1>1, <1>2, <1>4, <1>8, <1>9, MovedUpIs
<1>11. PICK j \in UsedIn(items, c) : UsedIn(new.items, c) = UsedIn(items, c) \ {j}
  BY <1>10 DEF Removed
<1>12. Cardinality(UsedIn(new.items, c)) = Cardinality(UsedIn(items, c)) - 1
  BY <1>1, <1>11, UsedFinite, FS_RemoveElement
<1>13. t.size = Cardinality(UsedIn(items, c)) /\ t.size < Threshold(c)
  BY DEF TableOK, items, c
<1>14. \E m \in Nat : m >= 2 /\ c = Pow2[m]
  BY DEF TableOK, c
<1>15. Threshold(c) \in Nat
  BY <1>14, CapIs
<1>16. new.size < Threshold(c) /\ c >= MinCapacity
  <2>1. c >= MinCapacity
    BY DEF TableOK, c
  <2>2. QED BY <2>1, <1>1, <1>8, <1>13, <1>15
<1>17. TableOK(new, H, N)
  BY <1>8, <1>10, <1>12, <1>13, <1>14, <1>16 DEF TableOK
<1>18. QED BY <1>8, <1>10, <1>17 DEF Removed, TablePairs, c, items, p

(* One item more.                                                          *)
LEMMA AddedCount ==
    ASSUME NEW c \in Nat, NEW items, NEW new, NEW j, NEW item, Added(new, items, c, j, item)
    PROVE  Cardinality(UsedIn(new, c)) = Cardinality(UsedIn(items, c)) + 1
<1>1. UsedIn(new, c) = UsedIn(items, c) \cup {j} /\ j \notin UsedIn(items, c)
  BY DEF Added
<1>2. IsFiniteSet(UsedIn(items, c))
  BY UsedFinite
<1>3. QED BY <1>1, <1>2, FS_AddElement

(* One item of the old table goes into the new one, and the first n.       *)
FillStep(items, old, cap) ==
    IF Used(old) THEN Place(items, cap, Home(cap, old.hash), [old EXCEPT !.dist = 0]) ELSE items

Fills(w, t, first, cap, n) ==
    w = [i \in 0 .. n |-> IF i = 0 THEN first ELSE FillStep(w[i - 1], t.items[i - 1], cap)]

LEMMA FillsExist ==
    ASSUME NEW t, NEW first, NEW cap
    PROVE  \A n \in Nat : \E w : Fills(w, t, first, cap, n)
<1> DEFINE step(g, k) == FillStep(g, t.items[k - 1], cap)
           is(w, n) == w = [k \in 0 .. n |-> IF k = 0 THEN first ELSE step(w[k - 1], k)]
           T == {n \in Nat : \E w : is(w, n)}
<1> HIDE DEF step
<1>1. 0 \in T
  <2>1. is([k \in 0 .. 0 |-> first], 0)
    OBVIOUS
  <2>2. QED BY <2>1
<1>2. ASSUME NEW n \in Nat, n \in T PROVE n + 1 \in T
  <2>1. PICK g : is(g, n)
    BY <1>2
  <2> DEFINE h == [k \in 0 .. n + 1 |-> IF k <= n THEN g[k] ELSE step(g[n], n + 1)]
  <2>2. ASSUME NEW k \in 0 .. n + 1 PROVE h[k] = IF k = 0 THEN first ELSE step(h[k - 1], k)
    <3>1. CASE k = 0
      BY <2>1, <3>1
    <3>2. CASE k # 0 /\ k <= n
      <4>1. g[k] = step(g[k - 1], k)
        BY <2>1, <3>2
      <4>2. h[k] = g[k] /\ h[k - 1] = g[k - 1]
        BY <3>2
      <4>3. QED BY <3>2, <4>1, <4>2
    <3>3. CASE k = n + 1
      BY <3>3
    <3>4. QED BY <3>1, <3>2, <3>3
  <2>3. is(h, n + 1)
    <3>1. h = [k \in 0 .. n + 1 |-> h[k]]
      OBVIOUS
    <3> HIDE DEF h
    <3>2. QED BY <3>1, <2>2
  <2> HIDE DEF h
  <2>4. QED BY <2>3
<1>3. \A n \in Nat : n \in T
  <2> HIDE DEF T
  <2>1. QED BY <1>1, <1>2, SetInduction
<1>4. QED BY <1>3 DEF Fills, step

(* The items of the first i places of t are in the table new.              *)
Filled(new, c, items, i, H, N) ==
    /\ Ordered(new, c, H, N)
    /\ PairsOf(new, c) = {<<items[j].hash, items[j].node>> : j \in UsedIn(items, i)}
    /\ Cardinality(UsedIn(new, c)) = Cardinality(UsedIn(items, i))

LEMMA FillStepIs ==
    ASSUME NEW c \in Nat, c > 1, NEW d \in Nat, d < c, NEW H, NEW N, Domains(H, N),
           NEW items, Ordered(items, d, H, N), NEW i \in 0 .. d - 1,
           NEW fill, Filled(fill, c, items, i, H, N),
           NEW new, new = FillStep(fill, items[i], c)
    PROVE  Filled(new, c, items, i + 1, H, N)
<1>1. i \in Nat /\ i + 1 \in Nat /\ c > 0 /\ H \subseteq Nat
  BY DEF Domains
<1>2. items \in [0 .. d - 1 -> Item(H, N)]
  BY DEF Ordered
<1>3. items[i] \in Item(H, N) /\ items[i].hash \in H
  BY <1>2, ItemAt
<1>4. /\ Ordered(fill, c, H, N)
      /\ PairsOf(fill, c) = {<<items[j].hash, items[j].node>> : j \in UsedIn(items, i)}
      /\ Cardinality(UsedIn(fill, c)) = Cardinality(UsedIn(items, i))
  BY DEF Filled
<1>5. CASE ~Used(items[i])
  <2>1. UsedIn(items, i + 1) = UsedIn(items, i)
    BY <1>1, <1>5 DEF UsedIn
  <2>2. new = fill
    BY <1>5 DEF FillStep
  <2>3. QED BY <2>1, <2>2, <1>4 DEF Filled
<1>6. CASE Used(items[i])
  <2> DEFINE item == [items[i] EXCEPT !.dist = 0]
             index == Home(c, items[i].hash)
  <2>1. UsedIn(items, i + 1) = UsedIn(items, i) \cup {i} /\ i \notin UsedIn(items, i)
    BY <1>1, <1>6 DEF UsedIn
  <2>2. new = Place(fill, c, index, item)
    BY <1>6 DEF FillStep
  <2>3. /\ item \in Item(H, N) /\ item.dist = 0
        /\ item.hash = items[i].hash /\ item.node = items[i].node
    BY <1>3 DEF Item
  <2>4. items[i].hash \in Nat
    BY <1>1, <1>3
  <2>5. index \in 0 .. c - 1
    BY <1>1, <2>4, HomeIn
  <2> HIDE DEF item
  <2>6. Seat(c, index, 0) = index
    BY <1>1, <2>5, SeatHome
  <2>7. ASSUME NEW j \in 0 .. c - 1 PROVE 0 <= fill[j].dist + 1
    <3>1. fill \in [0 .. c - 1 -> Item(H, N)]
      BY <1>4 DEF Ordered
    <3>2. fill[j].dist \in Int /\ fill[j].dist >= -1
      BY <3>1, ItemAt
    <3>3. QED BY <3>2
  <2>8. ASSUME NEW j \in UsedIn(fill, c) PROVE fill[j].hash # items[i].hash
    <3>1. <<fill[j].hash, fill[j].node>> \in PairsOf(fill, c)
      BY DEF PairsOf
    <3>2. PICK k \in UsedIn(items, i) : fill[j].hash = items[k].hash
      BY <3>1, <1>4
    <3>3. k # i /\ k \in UsedIn(items, d) /\ i \in UsedIn(items, d)
      BY <1>1, <1>6 DEF UsedIn
    <3>4. QED BY <3>2, <3>3 DEF Ordered
  <2>9. Carriable(fill, c, index, item)
    BY <2>3, <2>5, <2>6, <2>7, <2>8 DEF Carriable
  <2>10. PICK f \in 0 .. c - 1 : ~Used(fill[f])
    <3>1. IsFiniteSet(0 .. i - 1) /\ Cardinality(0 .. i - 1) = i
      <4>1. 0 \in Int /\ i - 1 \in Int
        BY <1>1
      <4>2. IsFiniteSet(0 .. i - 1)
            /\ Cardinality(0 .. i - 1) = IF 0 > i - 1 THEN 0 ELSE i - 1 - 0 + 1
        BY <4>1, FS_Interval
      <4>3. QED BY <4>2, <1>1
    <3>2. Cardinality(UsedIn(items, i)) <= i
      <4>1. UsedIn(items, i) \subseteq 0 .. i - 1
        BY DEF UsedIn
      <4>2. Cardinality(UsedIn(items, i)) <= Cardinality(0 .. i - 1)
        BY <3>1, <4>1, FS_Subset
      <4>3. QED BY <3>1, <4>2
    <3>3. Cardinality(UsedIn(items, i)) \in Nat
      BY <1>1, UsedFinite
    <3>4. Cardinality(UsedIn(fill, c)) < c
      BY <3>2, <3>3, <1>1, <1>4
    <3>5. QED BY <3>4, UsedFinite
  <2> HIDE DEF index
  <2>11. Ordered(new, c, H, N) /\ \E j : Added(new, fill, c, j, item)
    BY <1>1, <1>4, <2>2, <2>3, <2>9, <2>10, PlaceIs
  <2>12. PICK j : Added(new, fill, c, j, item)
    BY <2>11
  <2>13. Cardinality(UsedIn(new, c)) = Cardinality(UsedIn(fill, c)) + 1
    BY <2>12, AddedCount
  <2>14. Cardinality(UsedIn(items, i + 1)) = Cardinality(UsedIn(items, i)) + 1
    BY <1>1, <2>1, UsedFinite, FS_AddElement
  <2>15. PairsOf(new, c) = {<<items[k].hash, items[k].node>> : k \in UsedIn(items, i + 1)}
    <3> DEFINE pair(k) == <<items[k].hash, items[k].node>>
    <3>1. PairsOf(new, c) = {pair(k) : k \in UsedIn(items, i)} \cup {pair(i)}
      BY <1>4, <2>3, <2>12 DEF Added
    <3> HIDE DEF pair
    <3>2. PairsOf(new, c) = {pair(k) : k \in UsedIn(items, i + 1)}
      BY <2>1, <3>1
    <3>3. QED BY <3>2 DEF pair
  <2>16. QED BY <1>4, <2>11, <2>13, <2>14, <2>15 DEF Filled
<1>7. QED BY <1>5, <1>6

(* try_expand moves every item into a table of twice the capacity: no pair *)
(* is lost or made up, the new table is in order and below its threshold.  *)
THEOREM RehashKeepsAll ==
    ASSUME NEW H, NEW N, Domains(H, N), NEW t,
           NEW m \in Nat, m >= 2, t.cap = Pow2[m], t.cap >= MinCapacity,
           Ordered(t.items, t.cap, H, N), t.size = Cardinality(UsedIn(t.items, t.cap)),
           t.size <= Threshold(t.cap), NEW new, new = Rehash(t, t.cap)
    PROVE  TableOK(new, H, N) /\ TablePairs(new) = TablePairs(t) /\ new.size = t.size
<1> DEFINE d == t.cap
           items == t.items
           cap == AdaptAtLeast(d)
           first == NewTable(d).items
           fill == CHOOSE w : Fills(w, t, first, cap, d)
<1>1. d \in Nat /\ d >= 4 /\ Threshold(d) \in Nat /\ Threshold(2 * d) > Threshold(d)
  BY CapIs
<1>2. cap = 2 * d
  <2>1. m >= 1
    OBVIOUS
  <2>2. QED BY <2>1, AdaptDoubles
<1>3. Pow2[m + 1] = 2 * d
  BY Pow2Steps
<1>4. new = [cap |-> cap, items |-> fill[d], size |-> t.size]
  BY DEF Rehash, Fills, FillStep
<1>5. first = [j \in 0 .. cap - 1 |-> Unused]
  BY DEF NewTable
<1> HIDE DEF cap, first, fill
<1>6. Fills(fill, t, first, cap, d)
  <2>1. \E w : Fills(w, t, first, cap, d)
    BY <1>1, FillsExist
  <2>2. QED BY <2>1 DEF fill
<1> HIDE DEF d, items
<1>7. cap \in Nat /\ cap > 1 /\ cap > 0 /\ d < cap
  BY <1>1, <1>2
<1> DEFINE T == {i \in Nat : i <= d => Filled(fill[i], cap, items, i, H, N)}
<1>8. 0 \in T
  <2>1. fill[0] = first
    BY <1>1, <1>6 DEF Fills
  <2>2. /\ Ordered(first, cap, H, N) /\ UsedIn(first, cap) = {} /\ PairsOf(first, cap) = {}
    BY <1>5, <1>7, EmptyItems
  <2>3. UsedIn(items, 0) = {}
    BY DEF UsedIn
  <2>4. Filled(first, cap, items, 0, H, N)
    BY <2>2, <2>3 DEF Filled
  <2>5. QED BY <2>1, <2>4
<1>9. ASSUME NEW i \in Nat, i \in T PROVE i + 1 \in T
  <2>1. SUFFICES ASSUME i + 1 <= d PROVE Filled(fill[i + 1], cap, items, i + 1, H, N)
    OBVIOUS
  <2>2. i \in 0 .. d - 1 /\ i <= d /\ i + 1 \in 0 .. d /\ i + 1 # 0 /\ (i + 1) - 1 = i
    BY <2>1, <1>1
  <2> DEFINE k == i + 1
  <2>3. k \in 0 .. d /\ k # 0 /\ k - 1 = i
    BY <2>2
  <2> HIDE DEF k
  <2>4. fill[k] = FillStep(fill[k - 1], items[k - 1], cap)
    BY <2>3, <1>6 DEF Fills, items
  <2>5. fill[k] = FillStep(fill[i], items[i], cap)
    BY <2>3, <2>4
  <2>6. Filled(fill[i], cap, items, i, H, N)
    BY <1>9, <2>2
  <2>7. Ordered(items, d, H, N)
    BY DEF items, d
  <2>8. Filled(fill[k], cap, items, i + 1, H, N)
    BY <1>1, <1>7, <2>2, <2>5, <2>6, <2>7, FillStepIs
  <2>9. QED BY <2>8 DEF k
<1>10. Filled(fill[d], cap, items, d, H, N)
  <2> HIDE DEF T
  <2>1. d \in T
    BY <1>1, <1>8, <1>9, SetInduction
  <2>2. QED BY <2>1, <1>1 DEF T
<1>11. /\ new.cap = cap /\ new.items = fill[d] /\ new.size = t.size
       /\ new = [cap |-> new.cap, items |-> new.items, size |-> new.size]
  BY <1>4
<1>12. /\ Ordered(new.items, new.cap, H, N) /\ TablePairs(new) = TablePairs(t)
       /\ new.size = Cardinality(UsedIn(new.items, new.cap))
  BY <1>10, <1>11 DEF Filled, TablePairs, PairsOf, items, d
<1>13. new.size < Threshold(new.cap)
  <2>1. t.size \in Nat /\ t.size <= Threshold(d)
    BY <1>1, UsedFinite DEF d
  <2>2. Threshold(cap) \in Nat
    BY <1>2, <1>3, CapIs
  <2>3. QED BY <2>1, <2>2, <1>1, <1>2, <1>11
<1>14. new.cap >= MinCapacity
  <2>1. MinCapacity \in Nat
    BY TableAssumption, Pow2Steps
  <2>2. QED BY <2>1, <1>1, <1>2, <1>11 DEF d
<1>15. m + 1 \in Nat /\ m + 1 >= 2 /\ new.cap = Pow2[m + 1]
  BY <1>2, <1>3, <1>11
<1>16. QED BY <1>11, <1>12, <1>13, <1>14, <1>15 DEF TableOK

LEMMA WithItems ==
    ASSUME NEW t, t = [cap |-> t.cap, items |-> t.items, size |-> t.size],
           NEW x, NEW new, new = [t EXCEPT !.items = x, !.size = @ + 1]
    PROVE  /\ new.cap = t.cap /\ new.items = x /\ new.size = t.size + 1
           /\ new = [cap |-> new.cap, items |-> new.items, size |-> new.size]
  OBVIOUS

(* insert_value_on_index of a hash that is not there: whatever it          *)
(* displaces, and with a rehash or without, the table is in order and has  *)
(* one pair more.                                                          *)
THEOREM InsertAddsOne ==
    ASSUME NEW H, NEW N, Domains(H, N), NEW t, TableOK(t, H, N), NEW hash \in H,
           NEW node \in N, ~Contains(t, hash),
           NEW new, new = InsertOnIndex(t, TryGet(t, hash), hash, node)
    PROVE  /\ TableOK(new, H, N) /\ new.size = t.size + 1
           /\ TablePairs(new) = TablePairs(t) \cup {<<hash, node>>}
<1> DEFINE c == t.cap
           items == t.items
           pos == TryGet(t, hash)
           item == [dist |-> pos.dist, hash |-> hash, node |-> node]
           placed == Place(items, c, pos.index, item)
           mid == [t EXCEPT !.items = placed, !.size = @ + 1]
<1>1. /\ c \in Nat /\ c > 1 /\ t.size \in Nat /\ Searchable(t, H, N)
      /\ Ordered(items, c, H, N) /\ \E f \in 0 .. c - 1 : ~Used(items[f])
  BY TableIs DEF Searchable
<1>2. H \subseteq Nat
  BY DEF Domains
<1>3. new = TryExpand(mid)
  BY DEF InsertOnIndex
<1>4. /\ t = [cap |-> c, items |-> items, size |-> t.size]
      /\ t.size = Cardinality(UsedIn(items, c)) /\ t.size < Threshold(c) /\ c >= MinCapacity
  BY DEF TableOK
<1>5. PICK m \in Nat : m >= 2 /\ c = Pow2[m]
  BY DEF TableOK
<1>6. /\ mid.cap = c /\ mid.items = placed /\ mid.size = t.size + 1
      /\ mid = [cap |-> mid.cap, items |-> mid.items, size |-> mid.size]
  <2>1. mid = [t EXCEPT !.items = placed, !.size = @ + 1]
    OBVIOUS
  <2>2. t = [cap |-> t.cap, items |-> t.items, size |-> t.size]
    BY <1>4
  <2> HIDE DEF placed, mid
  <2>3. QED BY <2>1, <2>2, WithItems
<1>7. item.dist = pos.dist /\ item.hash = hash /\ item.node = node
  OBVIOUS
<1>8. item \in Item(H, N)
  <2>1. hash \in Nat
    BY <1>2
  <2>2. Searched(t, hash, pos)
    BY <1>1, <2>1, TryGetIs
  <2>3. pos.dist \in Nat
    BY <2>2 DEF Searched
  <2> HIDE DEF pos
  <2>4. QED BY <2>3 DEF Item
<1>9. Carriable(items, c, pos.index, item)
  <2> HIDE DEF item
  <2>1. QED BY <1>1, <1>7, NotFound
<1>10. PICK f \in 0 .. c - 1 : ~Used(items[f])
  BY <1>1
<1>11. placed = Place(items, c, pos.index, item)
  OBVIOUS
<1> HIDE DEF placed, mid, c, items, pos, item
<1>12. Ordered(placed, c, H, N) /\ \E j : Added(placed, items, c, j, item)
  BY <1>1, <1>2, <1>8, <1>9, <1>10, <1>11, PlaceIs
<1>13. PICK j : Added(placed, items, c, j, item)
  BY <1>12
<1>14. Cardinality(UsedIn(placed, c)) = t.size + 1
  BY <1>1, <1>4, <1>13, AddedCount
<1>15. PairsOf(placed, c) = PairsOf(items, c) \cup {<<hash, node>>}
  BY <1>7, <1>13 DEF Added
<1>16. TablePairs(mid) = TablePairs(t) \cup {<<hash, node>>}
  BY <1>6, <1>15 DEF TablePairs, items, c
<1>17. Threshold(c) \in Nat
  BY <1>5, CapIs
<1>18. /\ mid.cap = Pow2[m] /\ mid.cap >= MinCapacity
       /\ Ordered(mid.items, mid.cap, H, N) /\ mid.size = Cardinality(UsedIn(mid.items, mid.cap))
       /\ mid.size <= Threshold(mid.cap)
  BY <1>1, <1>4, <1>5, <1>6, <1>12, <1>14, <1>17
<1>19. CASE mid.size < Threshold(mid.cap)
  <2>1. new = mid
    BY <1>3, <1>19 DEF TryExpand
  <2>2. TableOK(mid, H, N)
    BY <1>5, <1>6, <1>18, <1>19 DEF TableOK
  <2>3. QED BY <2>1, <2>2, <1>6, <1>16
<1>20. CASE ~(mid.size < Threshold(mid.cap))
  <2>1. new = Rehash(mid, mid.cap)
    BY <1>3, <1>20 DEF TryExpand
  <2>2. TableOK(new, H, N) /\ TablePairs(new) = TablePairs(mid) /\ new.size = mid.size
    BY <1>5, <1>18, <2>1, RehashKeepsAll
  <2>3. QED BY <2>2, <1>6, <1>16
<1>21. QED BY <1>19, <1>20

(* try_get finds what is there, and contains() is true of nothing else:    *)
(* when the table refers to something under a hash, the place that the     *)
(* search gives is the place of that pair, and there is only one.  The     *)
(* search stops, at the first place where it can tell.                     *)
THEOREM TableFinds ==
    ASSUME NEW H, NEW N, Domains(H, N), NEW t, TableOK(t, H, N), NEW hash \in Nat
    PROVE  /\ Searched(t, hash, TryGet(t, hash))
           /\ \A a : <<hash, a>> \in TablePairs(t) =>
                 Contains(t, hash) /\ t.items[TryGet(t, hash).index].node = a
           /\ Contains(t, hash) =>
                 /\ TryGet(t, hash).index \in UsedIn(t.items, t.cap)
                 /\ t.items[TryGet(t, hash).index].hash = hash
                 /\ <<hash, t.items[TryGet(t, hash).index].node>> \in TablePairs(t)
<1> DEFINE p == TryGet(t, hash).index
<1>1. Searchable(t, H, N) /\ t.cap \in Nat
  BY TableIs
<1>2. /\ Contains(t, hash) <=> \E j \in UsedIn(t.items, t.cap) : t.items[j].hash = hash
      /\ Contains(t, hash) => p \in UsedIn(t.items, t.cap) /\ t.items[p].hash = hash
  BY <1>1, ContainsIs
<1>3. \A i, j \in UsedIn(t.items, t.cap) : t.items[i].hash = t.items[j].hash => i = j
  BY <1>1 DEF Searchable, Ordered
<1> HIDE DEF p
<1>4. ASSUME NEW a, <<hash, a>> \in TablePairs(t) PROVE Contains(t, hash) /\ t.items[p].node = a
  <2>1. PICK j \in UsedIn(t.items, t.cap) : t.items[j].hash = hash /\ t.items[j].node = a
    BY <1>4 DEF TablePairs, PairsOf
  <2>2. Contains(t, hash)
    BY <2>1, <1>2
  <2>3. p = j
    BY <2>1, <2>2, <1>2, <1>3
  <2>4. QED BY <2>1, <2>2, <2>3
<1>5. ASSUME Contains(t, hash) PROVE <<hash, t.items[p].node>> \in TablePairs(t)
  <2>1. p \in UsedIn(t.items, t.cap) /\ t.items[p].hash = hash
    BY <1>2, <1>5
  <2>2. <<t.items[p].hash, t.items[p].node>> \in TablePairs(t)
    BY <2>1 DEF TablePairs, PairsOf
  <2>3. QED BY <2>1, <2>2
<1>6. Searched(t, hash, TryGet(t, hash))
  BY <1>1, TryGetIs
<1>7. QED BY <1>2, <1>4, <1>5, <1>6 DEF p

(***************************************************************************)
(* THE DICTIONARY: its table, and the chain of its nodes.                  *)
(***************************************************************************)

-----------------------------------------------------------------------------
(* Lists of nodes.                                                         *)

Entry == [key : Keys, val : Values, prev : NodeAddrs \cup {Nil}, next : NodeAddrs \cup {Nil}]

HeapOK(h) == h \in [NodeAddrs -> Entry \cup {Nil}]

(* The i-th of n nodes, Nil beyond both ends.                              *)
At(L, n, i) == IF i \in 1 .. n THEN L[i] ELSE Nil

(* The chain c is the list L of allocated nodes, forwards and backwards.   *)
Linked(c, h, L) ==
    /\ c = [head |-> c.head, tail |-> c.tail, size |-> c.size]
    /\ c.size \in Nat
    /\ L \in [1 .. c.size -> NodeAddrs]
    /\ \A i \in 1 .. c.size : h[L[i]] # Nil
    /\ \A i, j \in 1 .. c.size : L[i] = L[j] => i = j
    /\ c.head = At(L, c.size, 1) /\ c.tail = At(L, c.size, c.size)
    /\ \A i \in 1 .. c.size : h[L[i]].prev = At(L, c.size, i - 1)
    /\ \A i \in 1 .. c.size : h[L[i]].next = At(L, c.size, i + 1)

NodeWalk(w, c, h) ==
    w = [i \in 1 .. c.size |-> IF i = 1 THEN c.head ELSE h[w[i - 1]].next]

(* Following the links from head_ gives the list.                          *)
LEMMA NodesIs ==
    ASSUME NEW c, NEW h, NEW L, Linked(c, h, L)
    PROVE  Nodes(c, h) = L
<1> DEFINE n == c.size
           node == CHOOSE w : NodeWalk(w, c, h)
<1>1. n \in Nat /\ L \in [1 .. n -> NodeAddrs]
  BY DEF Linked
<1>2. Nodes(c, h) = [i \in 1 .. n |-> node[i]]
  BY DEF Nodes, NodeWalk
<1>3. c.head = At(L, n, 1) /\ \A i \in 1 .. n : h[L[i]].next = At(L, n, i + 1)
  BY DEF Linked
<1> HIDE DEF n, node
<1>4. \A i \in 1 .. n : L[i] = IF i = 1 THEN c.head ELSE h[L[i - 1]].next
  <2>1. ASSUME NEW i \in 1 .. n PROVE L[i] = IF i = 1 THEN c.head ELSE h[L[i - 1]].next
    <3>1. CASE i = 1
      BY <1>1, <1>3, <3>1 DEF At
    <3>2. CASE i # 1
      <4>1. i - 1 \in 1 .. n /\ (i - 1) + 1 = i
        BY <3>2, <1>1
      <4>2. h[L[i - 1]].next = At(L, n, i)
        BY <4>1, <1>3
      <4>3. QED BY <4>2, <3>2 DEF At
    <3>3. QED BY <3>1, <3>2
  <2>2. QED BY <2>1
<1>5. L = [i \in 1 .. n |-> IF i = 1 THEN c.head ELSE h[L[i - 1]].next]
  BY <1>1, <1>4
<1>6. NodeWalk(node, c, h)
  <2>1. NodeWalk(L, c, h)
    BY <1>5 DEF NodeWalk, n
  <2>2. QED BY <2>1 DEF node
<1> DEFINE T == {i \in Nat : i + 1 <= n => node[i + 1] = L[i + 1]}
<1>7. \A i \in 1 .. n : node[i] = IF i = 1 THEN c.head ELSE h[node[i - 1]].next
  BY <1>6 DEF NodeWalk, n
<1>8. 0 \in T
  BY <1>1, <1>4, <1>7
<1>9. ASSUME NEW i \in Nat, i \in T PROVE i + 1 \in T
  <2>1. SUFFICES ASSUME (i + 1) + 1 <= n PROVE node[(i + 1) + 1] = L[(i + 1) + 1]
    OBVIOUS
  <2> DEFINE k == (i + 1) + 1
  <2>2. k \in 1 .. n /\ k # 1 /\ k - 1 = i + 1 /\ i + 1 <= n
    BY <2>1, <1>1
  <2>3. node[i + 1] = L[i + 1]
    BY <2>2, <1>9
  <2> HIDE DEF k, T
  <2>4. node[k] = h[node[k - 1]].next /\ L[k] = h[L[k - 1]].next
    BY <2>2, <1>4, <1>7
  <2>5. node[k] = L[k]
    BY <2>2, <2>3, <2>4
  <2>6. QED BY <2>5 DEF k
<1>10. \A i \in 1 .. n : node[i] = L[i]
  <2> HIDE DEF T
  <2>1. \A i \in Nat : i \in T
    BY <1>8, <1>9, SetInduction
  <2>2. ASSUME NEW i \in 1 .. n PROVE node[i] = L[i]
    <3>1. i - 1 \in Nat /\ (i - 1) + 1 = i /\ i <= n
      BY <1>1
    <3>2. i - 1 \in T
      BY <2>1, <3>1
    <3>3. QED BY <3>1, <3>2 DEF T
  <2>3. QED BY <2>2
<1>11. QED BY <1>1, <1>2, <1>10

(* A list depends on its nodes only.                                       *)
LEMMA LinkedFrame ==
    ASSUME NEW c, NEW h, NEW L, Linked(c, h, L), NEW new,
           \A i \in 1 .. c.size : new[L[i]] = h[L[i]]
    PROVE  Linked(c, new, L)
  BY DEF Linked

Own(L, n) == {L[i] : i \in 1 .. n}

LEMMA EntryIs ==
    ASSUME NEW e \in Entry, NEW x \in NodeAddrs \cup {Nil}
    PROVE  /\ [e EXCEPT !.next = x] \in Entry /\ [e EXCEPT !.prev = x] \in Entry
           /\ [e EXCEPT !.next = x].key = e.key /\ [e EXCEPT !.next = x].val = e.val
           /\ [e EXCEPT !.next = x].prev = e.prev /\ [e EXCEPT !.next = x].next = x
           /\ [e EXCEPT !.prev = x].key = e.key /\ [e EXCEPT !.prev = x].val = e.val
           /\ [e EXCEPT !.prev = x].next = e.next /\ [e EXCEPT !.prev = x].prev = x
  BY DEF Entry

LEMMA NilIsNoEntry == Nil \notin Entry /\ Nil \notin NodeAddrs /\ Keys \subseteq Nat
  BY DictAssumption DEF Entry

-----------------------------------------------------------------------------
(* A node at the end.                                                      *)

With(L, n, a) == [i \in 1 .. n + 1 |-> IF i = n + 1 THEN a ELSE L[i]]

LEMMA AppendHeap ==
    ASSUME NEW c, NEW h, NEW L, Linked(c, h, L), HeapOK(h), NEW n \in Nat, n = c.size,
           NEW a \in NodeAddrs, h[a] = Nil, NEW k \in Keys, NEW v \in Values,
           NEW new, new = ChainAppend(c, h, a, k, v).heap
    PROVE  /\ HeapOK(new)
           /\ new[a] = [key |-> k, val |-> v, prev |-> At(L, n, n), next |-> Nil]
           /\ n > 0 => new[L[n]] = [h[L[n]] EXCEPT !.next = a]
           /\ \A b \in NodeAddrs : b # a /\ b # At(L, n, n) => new[b] = h[b]
<1> DEFINE first == [key |-> k, val |-> v, prev |-> Nil, next |-> Nil]
           made == [h EXCEPT ![a] = first]
<1>1. /\ h \in [NodeAddrs -> Entry \cup {Nil}] /\ Nil \notin Entry /\ Nil \notin NodeAddrs
      /\ L \in [1 .. n -> NodeAddrs] /\ c.tail = At(L, n, n)
  BY NilIsNoEntry DEF HeapOK, Linked
<1>2. first \in Entry
  BY DEF Entry
<1>3. /\ made \in [NodeAddrs -> Entry \cup {Nil}] /\ made[a] = first
      /\ \A b \in NodeAddrs : b # a => made[b] = h[b]
  BY <1>1, <1>2
<1>4. new = IF n = 0 THEN made
            ELSE [made EXCEPT ![c.tail].next = a, ![a].prev = c.tail]
  BY DEF ChainAppend
<1>5. CASE n = 0
  <2>1. new = made /\ At(L, n, n) = Nil
    BY <1>4, <1>5 DEF At
  <2>2. QED BY <2>1, <1>3, <1>5 DEF HeapOK
<1>6. CASE n # 0
  <2> DEFINE tail == L[n]
             mid == [made EXCEPT ![tail] = [made[tail] EXCEPT !.next = a]]
  <2>1. n \in 1 .. n /\ n > 0
    BY <1>6
  <2>2. At(L, n, n) = tail /\ tail \in NodeAddrs /\ h[tail] # Nil /\ tail # a
    BY <2>1, <1>1 DEF At, Linked
  <2>3. c.tail = tail
    BY <1>1, <2>2
  <2> HIDE DEF tail, made, first
  <2>4. new = [mid EXCEPT ![a] = [mid[a] EXCEPT !.prev = tail]]
    BY <1>4, <1>6, <2>3
  <2>5. made[tail] = h[tail] /\ h[tail] \in Entry
    BY <1>1, <1>3, <2>2
  <2>6. [h[tail] EXCEPT !.next = a] \in Entry
    BY <2>5, EntryIs
  <2>7. /\ mid \in [NodeAddrs -> Entry \cup {Nil}] /\ mid[tail] = [h[tail] EXCEPT !.next = a]
        /\ mid[a] = first /\ \A b \in NodeAddrs : b # a /\ b # tail => mid[b] = h[b]
    BY <1>3, <2>2, <2>5, <2>6
  <2> HIDE DEF mid
  <2>8. [first EXCEPT !.prev = tail] = [key |-> k, val |-> v, prev |-> tail, next |-> Nil]
    BY DEF first
  <2>9. [first EXCEPT !.prev = tail] \in Entry
    BY <1>2, <2>2, EntryIs
  <2>10. /\ new \in [NodeAddrs -> Entry \cup {Nil}] /\ new[a] = [first EXCEPT !.prev = tail]
         /\ new[tail] = mid[tail] /\ \A b \in NodeAddrs : b # a => new[b] = mid[b]
    BY <2>2, <2>4, <2>7, <2>9
  <2>11. QED BY <2>2, <2>7, <2>8, <2>10 DEF HeapOK, tail
<1>7. QED BY <1>5, <1>6

LEMMA AppendIs ==
    ASSUME NEW c, NEW h, NEW L, Linked(c, h, L), HeapOK(h), NEW n \in Nat, n = c.size,
           NEW a \in NodeAddrs, h[a] = Nil, NEW k \in Keys, NEW v \in Values,
           NEW new, new = ChainAppend(c, h, a, k, v), NEW M, M = With(L, n, a)
    PROVE  /\ HeapOK(new.heap) /\ Linked(new.chain, new.heap, M) /\ new.chain.size = n + 1
           /\ new.heap[a].key = k /\ new.heap[a].val = v
           /\ \A i \in 1 .. n : /\ new.heap[L[i]].key = h[L[i]].key
                                /\ new.heap[L[i]].val = h[L[i]].val
           /\ \A b \in NodeAddrs : b # a /\ b \notin Own(L, n) => new.heap[b] = h[b]
<1> DEFINE heapNew == new.heap
           chainNew == new.chain
<1>1. /\ h \in [NodeAddrs -> Entry \cup {Nil}] /\ Nil \notin Entry /\ Nil \notin NodeAddrs
  BY NilIsNoEntry DEF HeapOK
<1>2. /\ L \in [1 .. n -> NodeAddrs]
      /\ \A i \in 1 .. n : h[L[i]] # Nil
      /\ \A i, j \in 1 .. n : L[i] = L[j] => i = j
      /\ c.head = At(L, n, 1) /\ c.tail = At(L, n, n)
      /\ \A i \in 1 .. n : h[L[i]].prev = At(L, n, i - 1)
      /\ \A i \in 1 .. n : h[L[i]].next = At(L, n, i + 1)
  BY DEF Linked
<1>3. chainNew = [head |-> IF n = 0 THEN a ELSE c.head, tail |-> a, size |-> n + 1]
  BY DEF ChainAppend
<1>4. /\ HeapOK(heapNew)
      /\ heapNew[a] = [key |-> k, val |-> v, prev |-> At(L, n, n), next |-> Nil]
      /\ n > 0 => heapNew[L[n]] = [h[L[n]] EXCEPT !.next = a]
      /\ \A b \in NodeAddrs : b # a /\ b # At(L, n, n) => heapNew[b] = h[b]
  <2>1. new.heap = ChainAppend(c, h, a, k, v).heap
    OBVIOUS
  <2>2. QED BY <2>1, AppendHeap
<1> HIDE DEF heapNew, chainNew
<1>5. \A i \in 1 .. n : L[i] \in NodeAddrs /\ L[i] # a /\ h[L[i]] \in Entry
  BY <1>1, <1>2
<1>6. \A i \in 1 .. n - 1 : heapNew[L[i]] = h[L[i]]
  <2>1. ASSUME NEW i \in 1 .. n - 1 PROVE heapNew[L[i]] = h[L[i]]
    <3>1. i \in 1 .. n /\ n \in 1 .. n /\ i # n
      OBVIOUS
    <3>2. L[i] # L[n]
      BY <3>1, <1>2
    <3>3. QED BY <3>1, <3>2, <1>4, <1>5 DEF At
  <2>2. QED BY <2>1
<1>7. n > 0 => /\ heapNew[L[n]].key = h[L[n]].key /\ heapNew[L[n]].val = h[L[n]].val
               /\ heapNew[L[n]].prev = h[L[n]].prev /\ heapNew[L[n]].next = a
               /\ heapNew[L[n]] # Nil
  <2>1. SUFFICES ASSUME n > 0
                 PROVE  /\ heapNew[L[n]].key = h[L[n]].key /\ heapNew[L[n]].val = h[L[n]].val
                        /\ heapNew[L[n]].prev = h[L[n]].prev /\ heapNew[L[n]].next = a
                        /\ heapNew[L[n]] # Nil
    OBVIOUS
  <2>2. n \in 1 .. n
    BY <2>1
  <2>3. heapNew[L[n]] = [h[L[n]] EXCEPT !.next = a]
    BY <2>1, <1>4
  <2>4. h[L[n]] \in Entry /\ a \in NodeAddrs \cup {Nil}
    BY <2>2, <1>5
  <2> DEFINE e == h[L[n]]
             x == [e EXCEPT !.next = a]
  <2>5. heapNew[L[n]] = x /\ e \in Entry
    BY <2>3, <2>4
  <2>6. x \in Entry /\ x.key = e.key /\ x.val = e.val /\ x.prev = e.prev /\ x.next = a
    <3> HIDE DEF e
    <3>1. QED BY <2>4, <2>5, EntryIs
  <2> HIDE DEF x
  <2>7. QED BY <2>5, <2>6, <1>1
<1>8. heapNew[a].key = k /\ heapNew[a].val = v /\ heapNew[a].prev = At(L, n, n)
      /\ heapNew[a].next = Nil /\ heapNew[a] # Nil
  <2>1. At(L, n, n) \in NodeAddrs \cup {Nil}
    BY <1>2 DEF At
  <2>2. [key |-> k, val |-> v, prev |-> At(L, n, n), next |-> Nil] \in Entry
    BY <2>1 DEF Entry
  <2>3. QED BY <1>1, <1>4, <2>2
<1>9. \A i \in 1 .. n : heapNew[L[i]].key = h[L[i]].key /\ heapNew[L[i]].val = h[L[i]].val
                        /\ heapNew[L[i]].prev = h[L[i]].prev /\ heapNew[L[i]] # Nil
                        /\ heapNew[L[i]].next = IF i = n THEN a ELSE h[L[i]].next
  <2>1. ASSUME NEW i \in 1 .. n
        PROVE  heapNew[L[i]].key = h[L[i]].key /\ heapNew[L[i]].val = h[L[i]].val
               /\ heapNew[L[i]].prev = h[L[i]].prev /\ heapNew[L[i]] # Nil
               /\ heapNew[L[i]].next = IF i = n THEN a ELSE h[L[i]].next
    <3>1. CASE i = n
      BY <3>1, <1>7
    <3>2. CASE i # n
      <4>1. i \in 1 .. n - 1
        BY <3>2
      <4>2. heapNew[L[i]] = h[L[i]]
        BY <4>1, <1>6
      <4>3. QED BY <4>2, <3>2, <1>2
    <3>3. QED BY <3>1, <3>2
  <2>2. QED BY <2>1
<1>10. /\ M \in [1 .. n + 1 -> NodeAddrs] /\ M[n + 1] = a /\ \A i \in 1 .. n : M[i] = L[i]
  BY <1>2 DEF With
<1>11. \A i \in 0 .. n : At(M, n + 1, i) = At(L, n, i)
  BY <1>10 DEF At
<1>12. At(M, n + 1, n + 1) = a /\ At(M, n + 1, n + 2) = Nil
  BY <1>10 DEF At
<1>13. \A i, j \in 1 .. n + 1 : M[i] = M[j] => i = j
  <2>1. ASSUME NEW i \in 1 .. n + 1, NEW j \in 1 .. n + 1, M[i] = M[j] PROVE i = j
    <3>1. i \in 1 .. n \/ i = n + 1
      OBVIOUS
    <3>2. j \in 1 .. n \/ j = n + 1
      OBVIOUS
    <3>3. QED BY <2>1, <3>1, <3>2, <1>2, <1>5, <1>10
  <2>2. QED BY <2>1
<1>14. ASSUME NEW i \in 1 .. n + 1
       PROVE  heapNew[M[i]] # Nil /\ heapNew[M[i]].prev = At(M, n + 1, i - 1)
              /\ heapNew[M[i]].next = At(M, n + 1, i + 1)
  <2>1. CASE i = n + 1
    <3>1. i - 1 = n /\ i + 1 = n + 2 /\ n \in 0 .. n
      BY <2>1
    <3>2. At(M, n + 1, i - 1) = At(L, n, n)
      BY <3>1, <1>11
    <3>3. QED BY <2>1, <3>1, <3>2, <1>8, <1>10, <1>12
  <2>2. CASE i # n + 1
    <3>1. i \in 1 .. n /\ i - 1 \in 0 .. n /\ M[i] = L[i]
      BY <2>2, <1>10
    <3>2. At(M, n + 1, i - 1) = At(L, n, i - 1)
      BY <3>1, <1>11
    <3>3. h[L[i]].prev = At(L, n, i - 1) /\ h[L[i]].next = At(L, n, i + 1)
      BY <3>1, <1>2
    <3>4. heapNew[M[i]].next = At(M, n + 1, i + 1)
      <4>1. CASE i = n
        BY <4>1, <3>1, <1>9, <1>12
      <4>2. CASE i # n
        <5>1. i + 1 \in 0 .. n
          BY <4>2, <3>1
        <5>2. At(M, n + 1, i + 1) = At(L, n, i + 1)
          BY <5>1, <1>11
        <5>3. QED BY <5>2, <4>2, <3>1, <3>3, <1>9
      <4>3. QED BY <4>1, <4>2
    <3>5. QED BY <3>1, <3>2, <3>3, <3>4, <1>9
  <2>3. QED BY <2>1, <2>2
<1>15. chainNew.head = At(M, n + 1, 1) /\ chainNew.tail = At(M, n + 1, n + 1) /\ chainNew.size = n + 1
       /\ chainNew = [head |-> chainNew.head, tail |-> chainNew.tail, size |-> chainNew.size]
  <2>1. chainNew.head = (IF n = 0 THEN a ELSE c.head) /\ chainNew.tail = a /\ chainNew.size = n + 1
        /\ chainNew = [head |-> chainNew.head, tail |-> chainNew.tail, size |-> chainNew.size]
    BY <1>3
  <2>2. (IF n = 0 THEN a ELSE c.head) = At(M, n + 1, 1)
    <3>1. CASE n = 0
      BY <3>1, <1>12
    <3>2. CASE n # 0
      <4>1. 1 \in 0 .. n
        BY <3>2
      <4>2. QED BY <4>1, <3>2, <1>2, <1>11
    <3>3. QED BY <3>1, <3>2
  <2>3. QED BY <2>1, <2>2, <1>12
<1>16. Linked(chainNew, heapNew, M)
  <2>1. n + 1 \in Nat
    OBVIOUS
  <2>2. QED BY <2>1, <1>10, <1>13, <1>14, <1>15 DEF Linked
<1>17. \A b \in NodeAddrs : b # a /\ b \notin Own(L, n) => heapNew[b] = h[b]
  <2>1. ASSUME NEW b \in NodeAddrs, b # a, b \notin Own(L, n) PROVE heapNew[b] = h[b]
    <3>1. b # At(L, n, n)
      BY <2>1, <1>1 DEF At, Own
    <3>2. QED BY <2>1, <3>1, <1>4
  <2>2. QED BY <2>1
<1>18. QED BY <1>4, <1>8, <1>9, <1>15, <1>16, <1>17 DEF heapNew, chainNew

-----------------------------------------------------------------------------
(* A node less.                                                            *)

Without(L, n, m) == [i \in 1 .. n - 1 |-> IF i < m THEN L[i] ELSE L[i + 1]]

(* A node whose neighbours are other nodes than itself.                    *)
LEMMA UnlinkHeap ==
    ASSUME NEW h, HeapOK(h), NEW a \in NodeAddrs, NEW p \in NodeAddrs \cup {Nil},
           NEW q \in NodeAddrs \cup {Nil}, h[a] # Nil, h[a].prev = p, h[a].next = q,
           p # a, q # a, p # q \/ p = Nil, p # Nil => h[p] # Nil, q # Nil => h[q] # Nil,
           NEW c, (a = c.head) <=> (p = Nil), NEW new, new = ChainPop(c, h, a).heap
    PROVE  /\ HeapOK(new) /\ new[a] = Nil
           /\ p # Nil => new[p] = [h[p] EXCEPT !.next = q]
           /\ q # Nil => new[q] = [h[q] EXCEPT !.prev = p]
           /\ \A b \in NodeAddrs : b # a /\ b # p /\ b # q => new[b] = h[b]
<1> DEFINE before == IF a = c.head THEN h ELSE [h EXCEPT ![p] = [h[p] EXCEPT !.next = q]]
           linked == IF q = Nil THEN before
                     ELSE [before EXCEPT ![q] = [before[q] EXCEPT !.prev = p]]
<1>1. h \in [NodeAddrs -> Entry \cup {Nil}] /\ Nil \notin Entry /\ Nil \notin NodeAddrs
  BY NilIsNoEntry DEF HeapOK
<1>2. new = [linked EXCEPT ![a] = Nil]
  BY DEF ChainPop
<1>3. /\ before \in [NodeAddrs -> Entry \cup {Nil}]
      /\ p # Nil => before[p] = [h[p] EXCEPT !.next = q]
      /\ \A b \in NodeAddrs : b # p => before[b] = h[b]
  <2>1. CASE p = Nil
    <3>1. before = h
      BY <2>1
    <3>2. QED BY <2>1, <3>1, <1>1
  <2>2. CASE p # Nil
    <3> DEFINE x == [h[p] EXCEPT !.next = q]
    <3>1. p \in NodeAddrs /\ h[p] \in Entry
      BY <2>2, <1>1
    <3>2. x \in Entry
      BY <3>1, EntryIs
    <3>3. before = [h EXCEPT ![p] = x]
      BY <2>2
    <3> HIDE DEF before, x
    <3>4. /\ before \in [NodeAddrs -> Entry \cup {Nil}] /\ before[p] = x
          /\ \A b \in NodeAddrs : b # p => before[b] = h[b]
      BY <3>1, <3>2, <3>3, <1>1
    <3>5. QED BY <3>4 DEF x
  <2>3. QED BY <2>1, <2>2
<1> HIDE DEF before
<1>4. /\ linked \in [NodeAddrs -> Entry \cup {Nil}]
      /\ q # Nil => linked[q] = [h[q] EXCEPT !.prev = p]
      /\ \A b \in NodeAddrs : b # q => linked[b] = before[b]
  <2>1. CASE q = Nil
    BY <2>1, <1>3
  <2>2. CASE q # Nil
    <3> DEFINE x == [h[q] EXCEPT !.prev = p]
    <3>1. q \in NodeAddrs /\ h[q] \in Entry /\ q # p
      BY <2>2, <1>1
    <3>2. x \in Entry
      BY <3>1, EntryIs
    <3>3. before[q] = h[q]
      BY <3>1, <1>3
    <3>4. linked = [before EXCEPT ![q] = x]
      BY <2>2, <3>3
    <3> HIDE DEF linked, x
    <3>5. /\ linked \in [NodeAddrs -> Entry \cup {Nil}] /\ linked[q] = x
          /\ \A b \in NodeAddrs : b # q => linked[b] = before[b]
      BY <3>1, <3>2, <3>4, <1>3
    <3>6. QED BY <3>5 DEF x
  <2>3. QED BY <2>1, <2>2
<1> HIDE DEF linked
<1>5. /\ new \in [NodeAddrs -> Entry \cup {Nil}] /\ new[a] = Nil
      /\ \A b \in NodeAddrs : b # a => new[b] = linked[b]
  BY <1>2, <1>4
<1>6. p # Nil => new[p] = [h[p] EXCEPT !.next = q]
  BY <1>3, <1>4, <1>5
<1>7. q # Nil => new[q] = [h[q] EXCEPT !.prev = p]
  BY <1>4, <1>5
<1>8. QED BY <1>3, <1>4, <1>5, <1>6, <1>7 DEF HeapOK

LEMMA UnlinkIs ==
    ASSUME NEW c, NEW h, NEW L, Linked(c, h, L), HeapOK(h), NEW n \in Nat, n = c.size,
           NEW m \in 1 .. n, NEW new, new = ChainPop(c, h, L[m]),
           NEW M, M = Without(L, n, m)
    PROVE  /\ HeapOK(new.heap) /\ Linked(new.chain, new.heap, M) /\ new.chain.size = n - 1
           /\ new.heap[L[m]] = Nil
           /\ \A i \in 1 .. n : i # m => /\ new.heap[L[i]].key = h[L[i]].key
                                         /\ new.heap[L[i]].val = h[L[i]].val
           /\ \A b \in NodeAddrs : b \notin Own(L, n) => new.heap[b] = h[b]
<1> DEFINE heapNew == new.heap
           chainNew == new.chain
           p == At(L, n, m - 1)
           q == At(L, n, m + 1)
           a == L[m]
<1>1. /\ h \in [NodeAddrs -> Entry \cup {Nil}] /\ Nil \notin Entry /\ Nil \notin NodeAddrs
  BY NilIsNoEntry DEF HeapOK
<1>2. /\ L \in [1 .. n -> NodeAddrs]
      /\ \A i \in 1 .. n : h[L[i]] # Nil
      /\ \A i, j \in 1 .. n : L[i] = L[j] => i = j
      /\ c.head = At(L, n, 1) /\ c.tail = At(L, n, n)
      /\ \A i \in 1 .. n : h[L[i]].prev = At(L, n, i - 1)
      /\ \A i \in 1 .. n : h[L[i]].next = At(L, n, i + 1)
  BY DEF Linked
<1>3. a \in NodeAddrs /\ h[a] # Nil /\ h[a].prev = p /\ h[a].next = q
  BY <1>2
<1>4. /\ p = (IF m = 1 THEN Nil ELSE L[m - 1]) /\ p \in NodeAddrs \cup {Nil}
      /\ (p = Nil <=> m = 1)
  BY <1>1, <1>2 DEF At
<1>5. /\ q = (IF m = n THEN Nil ELSE L[m + 1]) /\ q \in NodeAddrs \cup {Nil}
      /\ (q = Nil <=> m = n)
  <2>1. m # n => m + 1 \in 1 .. n /\ L[m + 1] \in NodeAddrs
    <3>1. L \in [1 .. n -> NodeAddrs]
      BY <1>2
    <3>2. m # n => m + 1 \in 1 .. n
      OBVIOUS
    <3>3. QED BY <3>1, <3>2
  <2>2. m = n => m + 1 \notin 1 .. n
    OBVIOUS
  <2>3. QED BY <2>1, <2>2, <1>1 DEF At
<1>6. p # a /\ q # a /\ (p # q \/ p = Nil)
  <2>1. p # a
    BY <1>1, <1>2, <1>3, <1>4
  <2>2. q # a
    BY <1>1, <1>2, <1>3, <1>5
  <2>3. p # q \/ p = Nil
    <3>1. SUFFICES ASSUME m # 1, m # n, L[m - 1] = L[m + 1] PROVE FALSE
      BY <1>1, <1>4, <1>5
    <3>2. m - 1 \in 1 .. n /\ m + 1 \in 1 .. n
      BY <3>1
    <3>3. m - 1 = m + 1
      BY <3>1, <3>2, <1>2
    <3>4. QED BY <3>3
  <2>4. QED BY <2>1, <2>2, <2>3
<1>7. (p # Nil => h[p] # Nil) /\ (q # Nil => h[q] # Nil)
  <2>1. m # 1 => h[L[m - 1]] # Nil
    BY <1>2
  <2>2. m # n => h[L[m + 1]] # Nil
    BY <1>2
  <2>3. QED BY <2>1, <2>2, <1>4, <1>5
<1>8. (a = c.head) <=> (p = Nil)
  <2>1. c.head = L[1] /\ 1 \in 1 .. n
    BY <1>2 DEF At
  <2>2. a = L[1] <=> m = 1
    BY <2>1, <1>2
  <2>3. QED BY <2>1, <2>2, <1>4
<1>9. (a = c.tail) <=> (m = n)
  <2>1. c.tail = L[n] /\ n \in 1 .. n
    BY <1>2 DEF At
  <2>2. a = L[n] <=> m = n
    BY <2>1, <1>2
  <2>3. QED BY <2>1, <2>2
<1>10. chainNew = [head |-> IF a = c.head THEN q ELSE c.head,
                   tail |-> IF a = c.tail THEN p ELSE c.tail, size |-> n - 1]
  BY <1>3 DEF ChainPop
<1>11. heapNew = ChainPop(c, h, a).heap
  OBVIOUS
<1> HIDE DEF p, q, a, heapNew, chainNew
<1>12. /\ HeapOK(heapNew) /\ heapNew[a] = Nil
       /\ p # Nil => heapNew[p] = [h[p] EXCEPT !.next = q]
       /\ q # Nil => heapNew[q] = [h[q] EXCEPT !.prev = p]
       /\ \A b \in NodeAddrs : b # a /\ b # p /\ b # q => heapNew[b] = h[b]
  <2>1. p \in NodeAddrs \cup {Nil} /\ q \in NodeAddrs \cup {Nil}
    BY <1>4, <1>5
  <2>2. QED BY <2>1, <1>3, <1>6, <1>7, <1>8, <1>11, UnlinkHeap
<1>13. \A i \in 1 .. n : L[i] \in NodeAddrs /\ h[L[i]] \in Entry /\ (L[i] = a <=> i = m)
                         /\ (L[i] = p <=> i = m - 1) /\ (L[i] = q <=> i = m + 1)
  <2>1. ASSUME NEW i \in 1 .. n
        PROVE  L[i] \in NodeAddrs /\ h[L[i]] \in Entry /\ (L[i] = a <=> i = m)
               /\ (L[i] = p <=> i = m - 1) /\ (L[i] = q <=> i = m + 1)
    <3>1. L[i] \in NodeAddrs /\ h[L[i]] \in Entry
      BY <1>1, <1>2
    <3>2. L[i] = a <=> i = m
      BY <1>2 DEF a
    <3>3. L[i] = p <=> i = m - 1
      <4>1. CASE m = 1
        BY <4>1, <3>1, <1>1, <1>4
      <4>2. CASE m # 1
        <5>1. m - 1 \in 1 .. n
          BY <4>2
        <5>2. QED BY <5>1, <4>2, <1>2, <1>4
      <4>3. QED BY <4>1, <4>2
    <3>4. L[i] = q <=> i = m + 1
      <4>1. CASE m = n
        BY <4>1, <3>1, <1>1, <1>5
      <4>2. CASE m # n
        <5>1. m + 1 \in 1 .. n
          BY <4>2
        <5>2. QED BY <5>1, <4>2, <1>2, <1>5
      <4>3. QED BY <4>1, <4>2
    <3>5. QED BY <3>1, <3>2, <3>3, <3>4
  <2>2. QED BY <2>1
<1>14. \A i \in 1 .. n : i # m =>
           /\ heapNew[L[i]].key = h[L[i]].key /\ heapNew[L[i]].val = h[L[i]].val
           /\ heapNew[L[i]] # Nil
           /\ heapNew[L[i]].prev = (IF i = m + 1 THEN p ELSE h[L[i]].prev)
           /\ heapNew[L[i]].next = (IF i = m - 1 THEN q ELSE h[L[i]].next)
  <2>1. ASSUME NEW i \in 1 .. n, i # m
        PROVE  /\ heapNew[L[i]].key = h[L[i]].key /\ heapNew[L[i]].val = h[L[i]].val
               /\ heapNew[L[i]] # Nil
               /\ heapNew[L[i]].prev = (IF i = m + 1 THEN p ELSE h[L[i]].prev)
               /\ heapNew[L[i]].next = (IF i = m - 1 THEN q ELSE h[L[i]].next)
    <3> DEFINE e == h[L[i]]
    <3>0. e \in Entry /\ p \in NodeAddrs \cup {Nil} /\ q \in NodeAddrs \cup {Nil}
      BY <1>4, <1>5, <1>13
    <3>1. CASE i = m - 1
      <4>1. L[i] = p /\ p # Nil /\ i # m + 1
        BY <3>1, <1>1, <1>13
      <4> DEFINE x == [e EXCEPT !.next = q]
      <4>2. heapNew[L[i]] = x
        BY <4>1, <1>12
      <4> HIDE DEF e
      <4>3. x \in Entry /\ x.key = e.key /\ x.val = e.val /\ x.prev = e.prev /\ x.next = q
        BY <3>0, EntryIs
      <4> HIDE DEF x
      <4>4. QED BY <4>1, <4>2, <4>3, <3>1, <1>1 DEF e
    <3>2. CASE i = m + 1
      <4>1. L[i] = q /\ q # Nil /\ i # m - 1
        BY <3>2, <1>1, <1>13
      <4> DEFINE x == [e EXCEPT !.prev = p]
      <4>2. heapNew[L[i]] = x
        BY <4>1, <1>12
      <4> HIDE DEF e
      <4>3. x \in Entry /\ x.key = e.key /\ x.val = e.val /\ x.next = e.next /\ x.prev = p
        BY <3>0, EntryIs
      <4> HIDE DEF x
      <4>4. QED BY <4>1, <4>2, <4>3, <3>2, <1>1 DEF e
    <3>3. CASE i # m - 1 /\ i # m + 1
      <4>1. heapNew[L[i]] = h[L[i]]
        BY <2>1, <3>3, <1>12, <1>13
      <4>2. QED BY <4>1, <3>3, <1>2
    <3>4. QED BY <3>1, <3>2, <3>3
  <2>2. QED BY <2>1
<1>15. /\ M \in [1 .. n - 1 -> NodeAddrs]
       /\ \A i \in 1 .. n - 1 : M[i] = IF i < m THEN L[i] ELSE L[i + 1]
  <2>1. \A i \in 1 .. n - 1 : i \in 1 .. n /\ i + 1 \in 1 .. n
    OBVIOUS
  <2>2. QED BY <2>1, <1>2 DEF Without
<1>16. \A i \in 0 .. n : At(M, n - 1, i) = IF i < m THEN At(L, n, i) ELSE At(L, n, i + 1)
  <2>1. ASSUME NEW i \in 0 .. n
        PROVE  At(M, n - 1, i) = IF i < m THEN At(L, n, i) ELSE At(L, n, i + 1)
    <3>1. CASE i \in 1 .. n - 1
      BY <3>1, <1>15 DEF At
    <3>2. CASE i = 0
      BY <3>2 DEF At
    <3>3. CASE i = n
      BY <3>3 DEF At
    <3>4. QED BY <3>1, <3>2, <3>3
  <2>2. QED BY <2>1
<1>17. \A i, j \in 1 .. n - 1 : M[i] = M[j] => i = j
  <2>1. ASSUME NEW i \in 1 .. n - 1, NEW j \in 1 .. n - 1, M[i] = M[j] PROVE i = j
    <3> DEFINE x == IF i < m THEN i ELSE i + 1
               y == IF j < m THEN j ELSE j + 1
    <3>1. x \in 1 .. n /\ y \in 1 .. n /\ M[i] = L[x] /\ M[j] = L[y]
      BY <1>15
    <3>2. \A f, g \in 1 .. n : L[f] = L[g] => f = g
      BY <1>2
    <3>3. x = y
      <4> HIDE DEF x, y
      <4>1. L[x] = L[y]
        BY <2>1, <3>1
      <4>2. QED BY <4>1, <3>1, <3>2
    <3>4. QED BY <3>3
  <2>2. QED BY <2>1
<1>18. ASSUME NEW i \in 1 .. n - 1
       PROVE  heapNew[M[i]] # Nil /\ heapNew[M[i]].prev = At(M, n - 1, i - 1)
              /\ heapNew[M[i]].next = At(M, n - 1, i + 1)
  <2>0. /\ i \in 1 .. n /\ i + 1 \in 1 .. n /\ i - 1 \in 0 .. n /\ i + 1 \in 0 .. n
    OBVIOUS
  <2>1. CASE i < m
    <3>1. M[i] = L[i] /\ i # m + 1 /\ i # m
      BY <2>1, <1>15
    <3>2. heapNew[M[i]].prev = At(L, n, i - 1)
      BY <2>0, <3>1, <1>2, <1>14
    <3>3. At(M, n - 1, i - 1) = At(L, n, i - 1)
      <4>1. i - 1 < m
        BY <2>1
      <4>2. QED BY <4>1, <2>0, <1>16
    <3>4. heapNew[M[i]].next = At(M, n - 1, i + 1)
      <4>1. CASE i = m - 1
        <5>1. heapNew[M[i]].next = q /\ i + 1 = m
          BY <4>1, <2>0, <3>1, <1>14
        <5>2. At(M, n - 1, i + 1) = At(L, n, m + 1)
          BY <5>1, <2>0, <1>16
        <5>3. QED BY <5>1, <5>2 DEF q
      <4>2. CASE i # m - 1
        <5>1. heapNew[M[i]].next = At(L, n, i + 1) /\ i + 1 < m
          BY <4>2, <2>0, <2>1, <3>1, <1>2, <1>14
        <5>2. QED BY <5>1, <2>0, <1>16
      <4>3. QED BY <4>1, <4>2
    <3>5. QED BY <2>0, <3>1, <3>2, <3>3, <3>4, <1>14
  <2>2. CASE ~(i < m)
    <3>1. M[i] = L[i + 1] /\ i + 1 # m - 1 /\ i + 1 # m
      BY <2>2, <1>15
    <3>2. heapNew[M[i]].next = At(L, n, (i + 1) + 1)
      BY <2>0, <3>1, <1>2, <1>14
    <3>3. At(M, n - 1, i + 1) = At(L, n, (i + 1) + 1)
      <4>1. ~(i + 1 < m)
        BY <2>2
      <4>2. QED BY <4>1, <2>0, <1>16
    <3>4. heapNew[M[i]].prev = At(M, n - 1, i - 1)
      <4>1. CASE i = m
        <5>1. heapNew[M[i]].prev = p /\ i - 1 < m
          BY <4>1, <2>0, <3>1, <1>14
        <5>2. At(M, n - 1, i - 1) = At(L, n, i - 1)
          BY <5>1, <2>0, <1>16
        <5>3. QED BY <4>1, <5>1, <5>2 DEF p
      <4>2. CASE i # m
        <5>1. ~(i - 1 < m) /\ i + 1 # m + 1 /\ (i + 1) - 1 = i /\ (i - 1) + 1 = i
          BY <4>2, <2>2
        <5>2. heapNew[M[i]].prev = At(L, n, i)
          BY <5>1, <2>0, <3>1, <1>2, <1>14
        <5>3. At(M, n - 1, i - 1) = At(L, n, (i - 1) + 1)
          BY <5>1, <2>0, <1>16
        <5>4. QED BY <5>1, <5>2, <5>3
      <4>3. QED BY <4>1, <4>2
    <3>5. QED BY <2>0, <3>1, <3>2, <3>3, <3>4, <1>14
  <2>3. QED BY <2>1, <2>2
<1>19. /\ chainNew.size = n - 1 /\ chainNew.head = At(M, n - 1, 1)
       /\ chainNew.tail = At(M, n - 1, n - 1)
       /\ chainNew = [head |-> chainNew.head, tail |-> chainNew.tail, size |-> chainNew.size]
  <2>1. /\ chainNew.size = n - 1 /\ chainNew.head = (IF a = c.head THEN q ELSE c.head)
        /\ chainNew.tail = (IF a = c.tail THEN p ELSE c.tail)
        /\ chainNew = [head |-> chainNew.head, tail |-> chainNew.tail, size |-> chainNew.size]
    BY <1>10
  <2>2. chainNew.head = At(M, n - 1, 1)
    <3>1. 1 \in 0 .. n
      OBVIOUS
    <3>2. CASE m = 1
      <4>1. At(M, n - 1, 1) = At(L, n, 1 + 1)
        BY <3>1, <3>2, <1>16
      <4>2. chainNew.head = q
        BY <2>1, <3>2, <1>4, <1>8
      <4>3. QED BY <4>1, <4>2, <3>2 DEF q
    <3>3. CASE m # 1
      <4>1. 1 < m
        BY <3>3
      <4>2. At(M, n - 1, 1) = At(L, n, 1)
        BY <3>1, <4>1, <1>16
      <4>3. QED BY <4>2, <2>1, <3>3, <1>2, <1>4, <1>8
    <3>4. QED BY <3>2, <3>3
  <2>3. chainNew.tail = At(M, n - 1, n - 1)
    <3>1. n - 1 \in 0 .. n
      OBVIOUS
    <3>2. CASE m = n
      <4>1. n - 1 < m
        BY <3>2
      <4>2. At(M, n - 1, n - 1) = At(L, n, n - 1)
        BY <3>1, <4>1, <1>16
      <4>3. QED BY <4>2, <2>1, <3>2, <1>9 DEF p
    <3>3. CASE m # n
      <4>1. ~(n - 1 < m) /\ (n - 1) + 1 = n
        BY <3>3
      <4>2. At(M, n - 1, n - 1) = At(L, n, (n - 1) + 1)
        BY <3>1, <4>1, <1>16
      <4>3. QED BY <4>1, <4>2, <2>1, <3>3, <1>2, <1>9
    <3>4. QED BY <3>2, <3>3
  <2>4. QED BY <2>1, <2>2, <2>3
<1>20. Linked(chainNew, heapNew, M)
  <2>1. n - 1 \in Nat
    OBVIOUS
  <2>2. QED BY <2>1, <1>15, <1>17, <1>18, <1>19 DEF Linked
<1>21. \A b \in NodeAddrs : b \notin Own(L, n) => heapNew[b] = h[b]
  <2>1. ASSUME NEW b \in NodeAddrs, b \notin Own(L, n) PROVE heapNew[b] = h[b]
    <3>1. b # a
      BY <2>1 DEF Own, a
    <3>2. b # p
      BY <2>1, <1>1 DEF Own, p, At
    <3>3. b # q
      BY <2>1, <1>1 DEF Own, q, At
    <3>4. QED BY <3>1, <3>2, <3>3, <1>12
  <2>2. QED BY <2>1
<1>22. QED BY <1>12, <1>14, <1>19, <1>20, <1>21 DEF heapNew, chainNew, a

-----------------------------------------------------------------------------
(* No nodes.                                                               *)

LEMMA NoNodes == \A h, L : L = <<>> => Linked(NoChain, h, L) /\ NoChain.size = 0 /\ Own(L, 0) = {}
  BY DEF Linked, NoChain, At, Own

LEMMA ClearIs ==
    ASSUME NEW c, NEW h, NEW L, Linked(c, h, L), HeapOK(h),
           NEW new, new = ChainClear(c, h)
    PROVE  /\ HeapOK(new)
           /\ \A b \in NodeAddrs : new[b] = IF b \in Own(L, c.size) THEN Nil ELSE h[b]
<1>1. Nodes(c, h) = L
  BY NodesIs
<1>2. new = [a \in NodeAddrs |-> IF a \in Own(L, c.size) THEN Nil ELSE h[a]]
  BY <1>1 DEF ChainClear, Own
<1>3. QED BY <1>2 DEF HeapOK

-----------------------------------------------------------------------------
(* A dictionary: a table that refers to the nodes of a chain.              *)

Hashes == Keys \cup {0}
Refs == NodeAddrs \cup {Nil}
Pair == [key : Keys, val : Values]

(* The pairs of the list L of n nodes.                                     *)
PairsIn(h, L, n) == [i \in 1 .. n |-> [key |-> h[L[i]].key, val |-> h[L[i]].val]]

(* The table t refers to the nodes L of the chain c, to each under its key.*)
Matches(t, c, h, L) ==
    /\ TableOK(t, Hashes, Refs)
    /\ t.size = c.size
    /\ TablePairs(t) = {<<h[L[i]].key, L[i]>> : i \in 1 .. c.size}

Sound(s, L) ==
    /\ s = [table |-> s.table, chain |-> s.chain, heap |-> s.heap]
    /\ HeapOK(s.heap) /\ Linked(s.chain, s.heap, L)
    /\ Matches(s.table, s.chain, s.heap, L)

LEMMA StateIs ==
    ASSUME NEW s, NEW tb, NEW ch, NEW hp, s = [table |-> tb, chain |-> ch, heap |-> hp]
    PROVE  /\ s.table = tb /\ s.chain = ch /\ s.heap = hp
           /\ s = [table |-> s.table, chain |-> s.chain, heap |-> s.heap]
  OBVIOUS

LEMMA DomainsAre == Domains(Hashes, Refs)
  BY NilIsNoEntry DEF Domains, Hashes, Refs

LEMMA NodesAre ==
    ASSUME NEW c, NEW h, NEW L, Linked(c, h, L), HeapOK(h), NEW n \in Nat, n = c.size
    PROVE  /\ L \in [1 .. n -> NodeAddrs]
           /\ \A i \in 1 .. n : /\ L[i] \in NodeAddrs /\ h[L[i]] \in Entry
                                /\ h[L[i]].key \in Keys /\ h[L[i]].key \in Nat
                                /\ h[L[i]].val \in Values
           /\ PairsIn(h, L, n) \in [1 .. n -> Pair]
<1>1. /\ L \in [1 .. n -> NodeAddrs] /\ \A i \in 1 .. n : h[L[i]] # Nil
  BY DEF Linked
<1>2. \A i \in 1 .. n : /\ L[i] \in NodeAddrs /\ h[L[i]] \in Entry
                        /\ h[L[i]].key \in Keys /\ h[L[i]].key \in Nat
                        /\ h[L[i]].val \in Values
  BY <1>1, NilIsNoEntry DEF HeapOK, Entry
<1>3. PairsIn(h, L, n) \in [1 .. n -> Pair]
  BY <1>2 DEF PairsIn, Pair
<1>4. QED BY <1>1, <1>2, <1>3

(* What the table finds is what is in the chain, and no key is there twice.*)
LEMMA MatchFinds ==
    ASSUME NEW t, NEW c, NEW h, NEW L, HeapOK(h), Linked(c, h, L), Matches(t, c, h, L),
           NEW n \in Nat, n = c.size, NEW k \in Keys
    PROVE  /\ Contains(t, k) <=> \E i \in 1 .. n : h[L[i]].key = k
           /\ \A i \in 1 .. n : h[L[i]].key = k => t.items[TryGet(t, k).index].node = L[i]
           /\ Contains(t, k) => /\ TryGet(t, k).index \in UsedIn(t.items, t.cap)
                                /\ t.items[TryGet(t, k).index].hash = k
           /\ \A i, j \in 1 .. n : h[L[i]].key = k /\ h[L[j]].key = k => i = j
<1> DEFINE pos == TryGet(t, k)
           node == t.items[pos.index].node
<1>1. k \in Nat /\ TableOK(t, Hashes, Refs)
  BY NilIsNoEntry DEF Matches
<1>2. /\ \A a : <<k, a>> \in TablePairs(t) => Contains(t, k) /\ node = a
      /\ Contains(t, k) => /\ pos.index \in UsedIn(t.items, t.cap) /\ t.items[pos.index].hash = k
                           /\ <<k, node>> \in TablePairs(t)
  BY <1>1, DomainsAre, TableFinds
<1>3. TablePairs(t) = {<<h[L[i]].key, L[i]>> : i \in 1 .. n}
  BY DEF Matches
<1>4. \A i, j \in 1 .. n : L[i] = L[j] => i = j
  BY DEF Linked
<1> HIDE DEF pos, node
<1>5. \A i \in 1 .. n : h[L[i]].key = k => <<k, L[i]>> \in TablePairs(t)
  BY <1>3
<1>6. Contains(t, k) => \E i \in 1 .. n : h[L[i]].key = k
  <2>1. SUFFICES ASSUME Contains(t, k) PROVE \E i \in 1 .. n : h[L[i]].key = k
    OBVIOUS
  <2>2. <<k, node>> \in {<<h[L[i]].key, L[i]>> : i \in 1 .. n}
    BY <2>1, <1>2, <1>3
  <2>3. QED BY <2>2
<1>7. \A i \in 1 .. n : h[L[i]].key = k => Contains(t, k) /\ node = L[i]
  BY <1>2, <1>5
<1>8. \A i, j \in 1 .. n : h[L[i]].key = k /\ h[L[j]].key = k => i = j
  BY <1>4, <1>7
<1>9. QED BY <1>2, <1>6, <1>7, <1>8 DEF pos, node

LEMMA FreshIs ==
    ASSUME NEW h, Free(h) # {}
    PROVE  Fresh(h) \in Free(h)
<1>1. Free(h) \subseteq Nat
  BY DictAssumption DEF Free
<1>2. \E a \in Free(h) : \A b \in Free(h) : a <= b
  <2> DEFINE F == Free(h)
  <2> HIDE DEF F
  <2>1. F \subseteq Nat /\ F # {}
    BY <1>1 DEF F
  <2>2. \E a \in F : \A b \in F : a <= b
    BY <2>1, LeastExists
  <2>3. QED BY <2>2 DEF F
<1>3. QED BY <1>2 DEF Fresh

LEMMA IsSequence ==
    ASSUME NEW S, NEW n \in Nat, NEW f \in [1 .. n -> S]
    PROVE  f \in Seq(S) /\ Len(f) = n
  OBVIOUS

(* The list of a dictionary with one pair more.                            *)
Longer(new, old, n, pair) ==
    new = [i \in 1 .. n + 1 |-> IF i = n + 1 THEN pair ELSE old[i]]

LEMMA LongerIs ==
    ASSUME NEW S, NEW n \in Nat, NEW old \in [1 .. n -> S], NEW pair \in S,
           NEW new, Longer(new, old, n, pair)
    PROVE  new = Append(old, pair)
<1>1. old \in Seq(S) /\ Len(old) = n
  BY IsSequence
<1>2. new \in [1 .. n + 1 -> S] /\ \A i \in 1 .. n + 1 : new[i] = IF i = n + 1 THEN pair ELSE old[i]
  BY DEF Longer
<1>3. n + 1 \in Nat
  OBVIOUS
<1>4. new \in Seq(S) /\ Len(new) = n + 1
  BY <1>2, <1>3, IsSequence
<1> DEFINE app == Append(old, pair)
<1>5. /\ app \in Seq(S) /\ Len(app) = n + 1 /\ app[n + 1] = pair
      /\ \A i \in 1 .. n : app[i] = old[i]
  BY <1>1, AppendProperties
<1> HIDE DEF app
<1>6. \A i \in 1 .. n + 1 : new[i] = app[i]
  BY <1>2, <1>5
<1>7. new = app
  BY <1>4, <1>5, <1>6, SeqEqual
<1>8. QED BY <1>7 DEF app

-----------------------------------------------------------------------------
(* insert and setdefault.                                                  *)

LEMMA AddPairIs ==
    ASSUME NEW s, NEW L, Sound(s, L), NEW n \in Nat, n = s.chain.size,
           NEW k \in Keys, NEW v \in Values, ~Contains(s.table, k),
           NEW a, a = Fresh(s.heap), a \in Free(s.heap), NEW M, M = With(L, n, a),
           NEW t, t = AddPair(s, k, v)
    PROVE  /\ Sound(t, M) /\ t.chain.size = n + 1
           /\ PairsIn(t.heap, M, n + 1) = Append(PairsIn(s.heap, L, n), [key |-> k, val |-> v])
           /\ \A b \in NodeAddrs : b # a /\ b \notin Own(L, n) => t.heap[b] = s.heap[b]
<1> DEFINE h == s.heap
           linked == ChainAppend(s.chain, h, a, k, v)
           new == InsertOnIndex(s.table, TryGet(s.table, k), k, a)
           pair == [key |-> k, val |-> v]
<1>1. HeapOK(h) /\ Linked(s.chain, h, L) /\ Matches(s.table, s.chain, h, L)
  BY DEF Sound
<1>2. TableOK(s.table, Hashes, Refs) /\ s.table.size = n
      /\ TablePairs(s.table) = {<<h[L[i]].key, L[i]>> : i \in 1 .. n}
  BY <1>1 DEF Matches
<1>3. a \in NodeAddrs /\ h[a] = Nil /\ a \in Refs /\ k \in Hashes
  BY DEF Free, Refs, Hashes
<1>4. t = [table |-> new, chain |-> linked.chain, heap |-> linked.heap]
  BY DEF AddPair
<1>5. t.table = new /\ t.chain = linked.chain /\ t.heap = linked.heap
      /\ t = [table |-> t.table, chain |-> t.chain, heap |-> t.heap]
  BY <1>4
<1> HIDE DEF h, new, linked
<1>6. /\ TableOK(new, Hashes, Refs) /\ new.size = s.table.size + 1
      /\ TablePairs(new) = TablePairs(s.table) \cup {<<k, a>>}
  BY <1>2, <1>3, DomainsAre, InsertAddsOne DEF new
<1>7. /\ HeapOK(linked.heap) /\ Linked(linked.chain, linked.heap, M) /\ linked.chain.size = n + 1
      /\ linked.heap[a].key = k /\ linked.heap[a].val = v
      /\ \A i \in 1 .. n : /\ linked.heap[L[i]].key = h[L[i]].key
                           /\ linked.heap[L[i]].val = h[L[i]].val
      /\ \A b \in NodeAddrs : b # a /\ b \notin Own(L, n) => linked.heap[b] = h[b]
  BY <1>1, <1>3, AppendIs DEF linked
<1>8. M[n + 1] = a /\ \A i \in 1 .. n : M[i] = L[i]
  BY DEF With
<1>9. TablePairs(new) = {<<linked.heap[M[i]].key, M[i]>> : i \in 1 .. n + 1}
  <2> DEFINE f(i) == <<h[L[i]].key, L[i]>>
             g(i) == <<linked.heap[M[i]].key, M[i]>>
  <2>1. g(n + 1) = <<k, a>>
    BY <1>7, <1>8
  <2>2. \A i \in 1 .. n : g(i) = f(i)
    BY <1>7, <1>8
  <2>3. TablePairs(new) = {f(i) : i \in 1 .. n} \cup {<<k, a>>}
    BY <1>2, <1>6
  <2> HIDE DEF f, g
  <2>4. {g(i) : i \in 1 .. n + 1} = {g(i) : i \in 1 .. n} \cup {g(n + 1)}
    <3>1. \A i : i \in 1 .. n + 1 <=> i \in 1 .. n \/ i = n + 1
      OBVIOUS
    <3>2. QED BY <3>1
  <2>5. {g(i) : i \in 1 .. n} = {f(i) : i \in 1 .. n}
    BY <2>2
  <2>6. TablePairs(new) = {g(i) : i \in 1 .. n + 1}
    BY <2>1, <2>3, <2>4, <2>5
  <2>7. QED BY <2>6 DEF g
<1>10. Matches(new, linked.chain, linked.heap, M)
  BY <1>2, <1>6, <1>7, <1>9 DEF Matches
<1>11. Sound(t, M)
  BY <1>5, <1>7, <1>10 DEF Sound
<1>12. PairsIn(linked.heap, M, n + 1) = Append(PairsIn(h, L, n), pair)
  <2> DEFINE old == PairsIn(h, L, n)
             long == PairsIn(linked.heap, M, n + 1)
  <2>1. old \in [1 .. n -> Pair] /\ pair \in Pair
    BY <1>1, NodesAre DEF Pair
  <2>2. \A i \in 1 .. n + 1 : [key |-> linked.heap[M[i]].key, val |-> linked.heap[M[i]].val]
                              = IF i = n + 1 THEN pair ELSE old[i]
    <3>1. ASSUME NEW i \in 1 .. n + 1
          PROVE  [key |-> linked.heap[M[i]].key, val |-> linked.heap[M[i]].val]
                 = IF i = n + 1 THEN pair ELSE old[i]
      <4>1. CASE i = n + 1
        BY <4>1, <1>7, <1>8
      <4>2. CASE i # n + 1
        <5>1. i \in 1 .. n
          BY <4>2
        <5>2. old[i] = [key |-> h[L[i]].key, val |-> h[L[i]].val]
          BY <5>1 DEF PairsIn
        <5>3. QED BY <4>2, <5>1, <5>2, <1>7, <1>8
      <4>3. QED BY <4>1, <4>2
    <3>2. QED BY <3>1
  <2> HIDE DEF old, pair
  <2>3. Longer(long, old, n, pair)
    BY <2>2 DEF Longer, PairsIn
  <2> HIDE DEF long
  <2>4. long = Append(old, pair)
    BY <2>1, <2>3, LongerIs
  <2>5. QED BY <2>4 DEF long, old
<1>13. QED BY <1>5, <1>7, <1>11, <1>12 DEF h

(* The m-th pair gets another value.                                       *)
SetValue(s, k, v) == [s EXCEPT !.heap[Node(s, k)].val = v]

Revalued(new, old, m, v) == new = [old EXCEPT ![m].val = v]

LEMMA SetValueIs ==
    ASSUME NEW s, NEW L, Sound(s, L), NEW n \in Nat, n = s.chain.size,
           NEW k \in Keys, NEW v \in Values, NEW m \in 1 .. n, s.heap[L[m]].key = k,
           NEW t, t = SetValue(s, k, v)
    PROVE  /\ Sound(t, L) /\ t.chain = s.chain /\ t.table = s.table
           /\ Revalued(PairsIn(t.heap, L, n), PairsIn(s.heap, L, n), m, v)
           /\ \A b \in NodeAddrs : b # L[m] => t.heap[b] = s.heap[b]
<1> DEFINE h == s.heap
           a == L[m]
           e == [h[a] EXCEPT !.val = v]
           new == [h EXCEPT ![a] = e]
<1>1. HeapOK(h) /\ Linked(s.chain, h, L) /\ Matches(s.table, s.chain, h, L)
      /\ s = [table |-> s.table, chain |-> s.chain, heap |-> h]
  BY DEF Sound
<1>2. /\ L \in [1 .. n -> NodeAddrs]
      /\ \A i \in 1 .. n : L[i] \in NodeAddrs /\ h[L[i]] \in Entry
      /\ \A i \in 1 .. n : h[L[i]].key \in Keys /\ h[L[i]].val \in Values
  BY <1>1, NodesAre
<1>3. Node(s, k) = a
  <2>1. s.table.items[TryGet(s.table, k).index].node = L[m]
    BY <1>1, MatchFinds
  <2>2. QED BY <2>1 DEF Node
<1>4. t = [table |-> s.table, chain |-> s.chain, heap |-> new]
  <2>1. t = [s EXCEPT !.heap = new]
    BY <1>3 DEF SetValue
  <2> HIDE DEF new
  <2>2. QED BY <2>1, <1>1
<1> HIDE DEF new
<1>5. t.table = s.table /\ t.chain = s.chain /\ t.heap = new
      /\ t = [table |-> t.table, chain |-> t.chain, heap |-> t.heap]
  BY <1>4, StateIs
<1>6. e \in Entry /\ e.key = h[a].key /\ e.prev = h[a].prev /\ e.next = h[a].next /\ e.val = v
  BY <1>2 DEF Entry
<1>7. h \in [NodeAddrs -> Entry \cup {Nil}] /\ a \in NodeAddrs /\ Nil \notin Entry
  BY <1>1, <1>2, NilIsNoEntry DEF HeapOK
<1> HIDE DEF e, h
<1>8. /\ new \in [NodeAddrs -> Entry \cup {Nil}] /\ new[a] = e
      /\ \A b \in NodeAddrs : b # a => new[b] = h[b]
  BY <1>6, <1>7 DEF new
<1>9. \A i \in 1 .. n : /\ new[L[i]].key = h[L[i]].key /\ new[L[i]].prev = h[L[i]].prev
                        /\ new[L[i]].next = h[L[i]].next /\ new[L[i]] # Nil
  BY <1>2, <1>6, <1>7, <1>8
<1>10. Linked(s.chain, new, L)
  BY <1>1, <1>9 DEF Linked
<1>11. TablePairs(s.table) = {<<new[L[i]].key, L[i]>> : i \in 1 .. n}
  <2>1. TablePairs(s.table) = {<<h[L[i]].key, L[i]>> : i \in 1 .. n}
    BY <1>1 DEF Matches
  <2>2. QED BY <2>1, <1>9
<1>12. Matches(s.table, s.chain, new, L)
  BY <1>1, <1>11 DEF Matches
<1>13. Sound(t, L)
  BY <1>5, <1>8, <1>10, <1>12 DEF Sound, HeapOK
<1>14. PairsIn(new, L, n) = [PairsIn(h, L, n) EXCEPT ![m].val = v]
  <2> DEFINE old == PairsIn(h, L, n)
  <2>1. old \in [1 .. n -> Pair] /\ \A i \in 1 .. n : old[i] = [key |-> h[L[i]].key, val |-> h[L[i]].val]
    BY <1>1, NodesAre DEF PairsIn
  <2>2. [old[m] EXCEPT !.val = v] = [key |-> h[L[m]].key, val |-> v]
    <3>1. old[m] = [key |-> h[L[m]].key, val |-> h[L[m]].val]
      BY <2>1
    <3> HIDE DEF old
    <3>2. QED BY <3>1
  <2>3. \A i \in 1 .. n : i # m => L[i] # a
    BY <1>1 DEF Linked, a
  <2>4. \A i \in 1 .. n : new[L[i]].val = IF i = m THEN v ELSE h[L[i]].val
    BY <2>3, <1>2, <1>6, <1>8
  <2>5. \A i \in 1 .. n : [key |-> new[L[i]].key, val |-> new[L[i]].val]
                          = IF i = m THEN [old[m] EXCEPT !.val = v] ELSE old[i]
    BY <2>1, <2>2, <2>4, <1>9
  <2> DEFINE x == [old[m] EXCEPT !.val = v]
  <2>6. PairsIn(new, L, n) = [i \in 1 .. n |-> IF i = m THEN x ELSE old[i]]
    BY <2>5 DEF PairsIn
  <2> HIDE DEF old, x
  <2>7. PairsIn(new, L, n) = [old EXCEPT ![m] = x]
    BY <2>1, <2>6
  <2>8. QED BY <2>7 DEF old, x
<1>15. QED BY <1>5, <1>8, <1>13, <1>14 DEF h, a, Revalued

-----------------------------------------------------------------------------
(* pop.                                                                    *)

Popped(s, k) ==
    LET unlinked == ChainPop(s.chain, s.heap, Node(s, k))
    IN  [table |-> PopOnIndex(s.table, TryGet(s.table, k)),
         chain |-> unlinked.chain, heap |-> unlinked.heap]

LEMMA PoppedIs ==
    ASSUME NEW s, NEW L, Sound(s, L), NEW n \in Nat, n = s.chain.size,
           NEW k \in Keys, NEW m \in 1 .. n, s.heap[L[m]].key = k,
           NEW M, M = Without(L, n, m), NEW t, t = Popped(s, k)
    PROVE  /\ Sound(t, M) /\ t.chain.size = n - 1
           /\ PairsIn(t.heap, M, n - 1) = Without(PairsIn(s.heap, L, n), n, m)
           /\ t.heap[L[m]] = Nil
           /\ \A b \in NodeAddrs : b \notin Own(L, n) => t.heap[b] = s.heap[b]
<1> DEFINE h == s.heap
           pos == TryGet(s.table, k)
           unlinked == ChainPop(s.chain, h, L[m])
           new == PopOnIndex(s.table, pos)
<1>1. HeapOK(h) /\ Linked(s.chain, h, L) /\ Matches(s.table, s.chain, h, L)
  BY DEF Sound
<1>2. TableOK(s.table, Hashes, Refs) /\ s.table.size = n
      /\ TablePairs(s.table) = {<<h[L[i]].key, L[i]>> : i \in 1 .. n}
  BY <1>1 DEF Matches
<1>3. /\ Contains(s.table, k) /\ s.table.items[pos.index].node = L[m]
      /\ pos.index \in UsedIn(s.table.items, s.table.cap) /\ s.table.items[pos.index].hash = k
      /\ \A i \in 1 .. n : h[L[i]].key = k => i = m
  BY <1>1, MatchFinds
<1>4. t = [table |-> new, chain |-> unlinked.chain, heap |-> unlinked.heap]
  BY <1>3 DEF Popped, Node
<1> HIDE DEF h, new, unlinked, pos
<1>5. t.table = new /\ t.chain = unlinked.chain /\ t.heap = unlinked.heap
      /\ t = [table |-> t.table, chain |-> t.chain, heap |-> t.heap]
  BY <1>4, StateIs
<1>6. /\ TableOK(new, Hashes, Refs) /\ new.size = s.table.size - 1
      /\ TablePairs(new) = TablePairs(s.table)
            \ {<<s.table.items[pos.index].hash, s.table.items[pos.index].node>>}
  BY <1>2, <1>3, DomainsAre, PopRemovesOne DEF new
<1>7. /\ HeapOK(unlinked.heap) /\ Linked(unlinked.chain, unlinked.heap, M)
      /\ unlinked.chain.size = n - 1 /\ unlinked.heap[L[m]] = Nil
      /\ \A i \in 1 .. n : i # m => /\ unlinked.heap[L[i]].key = h[L[i]].key
                                    /\ unlinked.heap[L[i]].val = h[L[i]].val
      /\ \A b \in NodeAddrs : b \notin Own(L, n) => unlinked.heap[b] = h[b]
  BY <1>1, UnlinkIs DEF unlinked
<1> DEFINE skip(i) == IF i < m THEN i ELSE i + 1
<1>8. \A i \in 1 .. n - 1 : M[i] = L[skip(i)] /\ skip(i) \in 1 .. n /\ skip(i) # m
  BY DEF Without
<1>9. \A j \in 1 .. n : j # m => \E i \in 1 .. n - 1 : skip(i) = j
  <2>1. ASSUME NEW j \in 1 .. n, j # m PROVE \E i \in 1 .. n - 1 : skip(i) = j
    <3>1. CASE j < m
      <4>1. j \in 1 .. n - 1 /\ skip(j) = j
        BY <3>1
      <4>2. QED BY <4>1
    <3>2. CASE ~(j < m)
      <4>1. j - 1 \in 1 .. n - 1 /\ skip(j - 1) = j
        BY <3>2, <2>1
      <4>2. QED BY <4>1
    <3>3. QED BY <3>1, <3>2
  <2>2. QED BY <2>1
<1> HIDE DEF skip
<1>10. TablePairs(new) = {<<unlinked.heap[M[i]].key, M[i]>> : i \in 1 .. n - 1}
  <2> DEFINE f(i) == <<h[L[i]].key, L[i]>>
             g(i) == <<unlinked.heap[M[i]].key, M[i]>>
  <2>1. \A i \in 1 .. n - 1 : g(i) = f(skip(i))
    BY <1>7, <1>8
  <2>2. <<s.table.items[pos.index].hash, s.table.items[pos.index].node>> = f(m)
    BY <1>3 DEF h
  <2>3. \A i \in 1 .. n : f(i) = f(m) => i = m
    BY <1>1 DEF Linked
  <2>4. TablePairs(new) = {f(i) : i \in 1 .. n} \ {f(m)}
    BY <1>2, <1>6, <2>2
  <2> HIDE DEF f, g
  <2>5. ASSUME NEW x \in {g(i) : i \in 1 .. n - 1} PROVE x \in {f(i) : i \in 1 .. n} \ {f(m)}
    BY <2>1, <2>3, <1>8
  <2>6. ASSUME NEW x \in {f(i) : i \in 1 .. n} \ {f(m)} PROVE x \in {g(i) : i \in 1 .. n - 1}
    <3>1. PICK j \in 1 .. n : x = f(j) /\ j # m
      OBVIOUS
    <3>2. PICK i \in 1 .. n - 1 : skip(i) = j
      BY <3>1, <1>9
    <3>3. x = g(i)
      BY <3>1, <3>2, <2>1
    <3>4. QED BY <3>3
  <2>7. TablePairs(new) = {g(i) : i \in 1 .. n - 1}
    BY <2>4, <2>5, <2>6
  <2>8. QED BY <2>7 DEF g
<1>11. Matches(new, unlinked.chain, unlinked.heap, M)
  BY <1>2, <1>6, <1>7, <1>10 DEF Matches
<1>12. Sound(t, M)
  BY <1>5, <1>7, <1>11 DEF Sound
<1>13. PairsIn(unlinked.heap, M, n - 1) = Without(PairsIn(h, L, n), n, m)
  <2> DEFINE old == PairsIn(h, L, n)
  <2>1. \A i \in 1 .. n : old[i] = [key |-> h[L[i]].key, val |-> h[L[i]].val]
    BY DEF PairsIn
  <2> HIDE DEF old
  <2>2. \A i \in 1 .. n - 1 :
            [key |-> unlinked.heap[M[i]].key, val |-> unlinked.heap[M[i]].val] = old[skip(i)]
    BY <2>1, <1>7, <1>8
  <2>3. \A i \in 1 .. n - 1 : old[skip(i)] = IF i < m THEN old[i] ELSE old[i + 1]
    BY DEF skip
  <2> DEFINE x == [i \in 1 .. n - 1 |-> old[skip(i)]]
  <2>4. PairsIn(unlinked.heap, M, n - 1) = x
    BY <2>2 DEF PairsIn
  <2>5. Without(old, n, m) = x
    BY <2>3 DEF Without
  <2>6. QED BY <2>4, <2>5 DEF old
<1>14. QED BY <1>5, <1>7, <1>12, <1>13 DEF h

-----------------------------------------------------------------------------
(* A dictionary that is built pair by pair.                                *)

LEMMA EmptyIs ==
    ASSUME NEW x \in Nat, NEW h, HeapOK(h), NEW t, t = EmptyDict(x, h)
    PROVE  /\ Sound(t, <<>>) /\ t.chain.size = 0 /\ t.heap = h
           /\ PairsIn(h, <<>>, 0) = <<>> /\ Own(<<>>, 0) = {}
<1>1. t = [table |-> NewTable(x), chain |-> NoChain, heap |-> h]
  BY DEF EmptyDict
<1>2. t.table = NewTable(x) /\ t.chain = NoChain /\ t.heap = h
      /\ t = [table |-> t.table, chain |-> t.chain, heap |-> t.heap]
  BY <1>1, StateIs
<1>3. Linked(NoChain, h, <<>>) /\ NoChain.size = 0 /\ Own(<<>>, 0) = {}
  BY NoNodes
<1>4. TableOK(t.table, Hashes, Refs) /\ TablePairs(t.table) = {} /\ t.table.size = 0
  BY <1>2, DomainsAre, NewTableIs
<1>5. Matches(t.table, t.chain, h, <<>>)
  BY <1>2, <1>3, <1>4 DEF Matches
<1>6. PairsIn(h, <<>>, 0) = <<>>
  BY DEF PairsIn
<1>7. QED BY <1>2, <1>3, <1>5, <1>6 DEF Sound

First(pairs, i) == [j \in 1 .. i |-> pairs[j]]

(* t is what EmptyDict with the heap h becomes with the first i pairs.     *)
Built(t, h, pairs, i) ==
    \E M : /\ Sound(t, M) /\ t.chain.size = i
           /\ PairsIn(t.heap, M, i) = First(pairs, i)
           /\ Own(M, i) \subseteq Free(h) /\ IsFiniteSet(Own(M, i))
           /\ Cardinality(Own(M, i)) = i
           /\ \A b \in NodeAddrs : b \notin Own(M, i) => t.heap[b] = h[b]

LEMMA BuildStep ==
    ASSUME NEW h, NEW pairs, NEW N \in Nat, pairs \in [1 .. N -> Pair],
           \A i, j \in 1 .. N : pairs[i].key = pairs[j].key => i = j,
           Cardinality(Free(h)) >= N, NEW i \in 0 .. N - 1, NEW s, Built(s, h, pairs, i)
    PROVE  Built(InsertPair(s, pairs[i + 1].key, pairs[i + 1].val), h, pairs, i + 1)
<1> DEFINE k == pairs[i + 1].key
           v == pairs[i + 1].val
           t == AddPair(s, k, v)
           a == Fresh(s.heap)
<1>1. i \in Nat /\ i + 1 \in 1 .. N /\ i + 1 \in Nat
  OBVIOUS
<1>2. k \in Keys /\ v \in Values /\ pairs[i + 1] = [key |-> k, val |-> v]
      /\ pairs[i + 1] \in Pair
  BY <1>1 DEF Pair
<1>3. PICK L : /\ Sound(s, L) /\ s.chain.size = i
               /\ PairsIn(s.heap, L, i) = First(pairs, i)
               /\ Own(L, i) \subseteq Free(h) /\ IsFiniteSet(Own(L, i))
               /\ Cardinality(Own(L, i)) = i
               /\ \A b \in NodeAddrs : b \notin Own(L, i) => s.heap[b] = h[b]
  BY DEF Built
<1>4. HeapOK(s.heap) /\ Linked(s.chain, s.heap, L) /\ Matches(s.table, s.chain, s.heap, L)
  BY <1>3 DEF Sound
<1> DEFINE M == With(L, i, a)
<1> HIDE DEF k, v, t, a
<1>5. ~Contains(s.table, k)
  <2>1. \A j \in 1 .. i : s.heap[L[j]].key = pairs[j].key
    <3>1. ASSUME NEW j \in 1 .. i PROVE s.heap[L[j]].key = pairs[j].key
      <4>1. PairsIn(s.heap, L, i)[j] = [key |-> s.heap[L[j]].key, val |-> s.heap[L[j]].val]
        BY DEF PairsIn
      <4>2. PairsIn(s.heap, L, i)[j] = pairs[j]
        BY <1>3 DEF First
      <4>3. QED BY <4>1, <4>2
    <3>2. QED BY <3>1
  <2>2. Contains(s.table, k) <=> \E j \in 1 .. i : s.heap[L[j]].key = k
    BY <1>1, <1>2, <1>3, <1>4, MatchFinds
  <2>3. \A j \in 1 .. i : pairs[j].key # k
    <3>1. ASSUME NEW j \in 1 .. i, pairs[j].key = k PROVE FALSE
      <4>1. j \in 1 .. N /\ j # i + 1
        OBVIOUS
      <4>2. QED BY <3>1, <4>1, <1>1 DEF k
    <3>2. QED BY <3>1
  <2>4. QED BY <2>1, <2>2, <2>3
<1>6. Free(s.heap) = Free(h) \ Own(L, i)
  <2>1. \A b \in Own(L, i) : b \in NodeAddrs /\ s.heap[b] # Nil
    BY <1>3, <1>4 DEF Linked, Own
  <2>2. QED BY <2>1, <1>3 DEF Free
<1>7. Free(s.heap) # {}
  <2>1. SUFFICES ASSUME Free(s.heap) = {} PROVE FALSE
    OBVIOUS
  <2>2. Free(h) = Own(L, i)
    BY <2>1, <1>3, <1>6
  <2>3. Cardinality(Free(h)) = i
    BY <2>2, <1>3
  <2>4. QED BY <2>3, <1>1
<1>8. a \in Free(s.heap)
  BY <1>7, FreshIs DEF a
<1>9. InsertPair(s, pairs[i + 1].key, pairs[i + 1].val) = t
  BY <1>5 DEF InsertPair, k, v, t
<1>10. M = With(L, i, a)
  OBVIOUS
<1> HIDE DEF M
<1>11. /\ Sound(t, M) /\ t.chain.size = i + 1
       /\ PairsIn(t.heap, M, i + 1) = Append(PairsIn(s.heap, L, i), [key |-> k, val |-> v])
       /\ \A b \in NodeAddrs : b # a /\ b \notin Own(L, i) => t.heap[b] = s.heap[b]
  <2>1. t = AddPair(s, k, v) /\ a = Fresh(s.heap)
    BY DEF t, a
  <2>2. QED BY <2>1, <1>1, <1>2, <1>3, <1>5, <1>8, <1>10, AddPairIs
<1>12. PairsIn(t.heap, M, i + 1) = First(pairs, i + 1)
  <2> DEFINE old == First(pairs, i)
             new == First(pairs, i + 1)
             p == pairs[i + 1]
  <2>1. old \in [1 .. i -> Pair] /\ p \in Pair
    BY <1>1, <1>2 DEF First
  <2>2. Longer(new, old, i, p)
    <3>1. \A j \in 1 .. i + 1 : pairs[j] = IF j = i + 1 THEN pairs[i + 1] ELSE old[j]
      BY DEF First
    <3> HIDE DEF old
    <3>2. QED BY <3>1 DEF Longer, First
  <2> HIDE DEF old, new, p
  <2>3. new = Append(old, p)
    BY <1>1, <2>1, <2>2, LongerIs
  <2>4. PairsIn(s.heap, L, i) = old
    BY <1>3 DEF old
  <2>5. QED BY <2>3, <2>4, <1>2, <1>11 DEF new, p
<1>13. Own(M, i + 1) = Own(L, i) \cup {a} /\ a \notin Own(L, i)
  <2>1. M[i + 1] = a /\ \A j \in 1 .. i : M[j] = L[j]
    BY <1>10 DEF With
  <2>2. \A j : j \in 1 .. i + 1 <=> j \in 1 .. i \/ j = i + 1
    BY <1>1
  <2>3. Own(M, i + 1) = Own(L, i) \cup {a}
    BY <2>1, <2>2 DEF Own
  <2>4. QED BY <2>3, <1>6, <1>8
<1>14. IsFiniteSet(Own(M, i + 1)) /\ Cardinality(Own(M, i + 1)) = i + 1
  <2> DEFINE O == Own(L, i)
  <2>1. IsFiniteSet(O) /\ a \notin O /\ Own(M, i + 1) = O \cup {a} /\ Cardinality(O) = i
    BY <1>3, <1>13
  <2> HIDE DEF O
  <2>2. IsFiniteSet(O \cup {a}) /\ Cardinality(O \cup {a}) = Cardinality(O) + 1
    BY <2>1, FS_AddElement
  <2>3. QED BY <2>1, <2>2
<1>15. Own(M, i + 1) \subseteq Free(h)
  BY <1>3, <1>6, <1>8, <1>13
<1>16. \A b \in NodeAddrs : b \notin Own(M, i + 1) => t.heap[b] = h[b]
  BY <1>3, <1>11, <1>13
<1>17. Built(t, h, pairs, i + 1)
  BY <1>11, <1>12, <1>14, <1>15, <1>16 DEF Built
<1>18. QED BY <1>9, <1>17

InsertStep(s, pair) == InsertPair(s, pair.key, pair.val)

Inserts(w, s, pairs, n) ==
    w = [i \in 0 .. n |-> IF i = 0 THEN s ELSE InsertStep(w[i - 1], pairs[i])]

LEMMA InsertsExist ==
    ASSUME NEW s, NEW pairs
    PROVE  \A n \in Nat : \E w : Inserts(w, s, pairs, n)
<1> DEFINE step(g, k) == InsertStep(g, pairs[k])
           is(w, n) == w = [k \in 0 .. n |-> IF k = 0 THEN s ELSE step(w[k - 1], k)]
           T == {n \in Nat : \E w : is(w, n)}
<1> HIDE DEF step
<1>1. 0 \in T
  <2>1. is([k \in 0 .. 0 |-> s], 0)
    OBVIOUS
  <2>2. QED BY <2>1
<1>2. ASSUME NEW n \in Nat, n \in T PROVE n + 1 \in T
  <2>1. PICK g : is(g, n)
    BY <1>2
  <2> DEFINE h == [k \in 0 .. n + 1 |-> IF k <= n THEN g[k] ELSE step(g[n], n + 1)]
  <2>2. ASSUME NEW k \in 0 .. n + 1 PROVE h[k] = IF k = 0 THEN s ELSE step(h[k - 1], k)
    <3>1. CASE k = 0
      BY <2>1, <3>1
    <3>2. CASE k # 0 /\ k <= n
      <4>1. g[k] = step(g[k - 1], k)
        BY <2>1, <3>2
      <4>2. h[k] = g[k] /\ h[k - 1] = g[k - 1]
        BY <3>2
      <4>3. QED BY <3>2, <4>1, <4>2
    <3>3. CASE k = n + 1
      BY <3>3
    <3>4. QED BY <3>1, <3>2, <3>3
  <2>3. is(h, n + 1)
    <3>1. h = [k \in 0 .. n + 1 |-> h[k]]
      OBVIOUS
    <3> HIDE DEF h
    <3>2. QED BY <3>1, <2>2
  <2> HIDE DEF h
  <2>4. QED BY <2>3
<1>3. \A n \in Nat : n \in T
  <2> HIDE DEF T
  <2>1. QED BY <1>1, <1>2, SetInduction
<1>4. QED BY <1>3 DEF Inserts, step

(* No key twice.                                                           *)
Apart(pairs) == \A i, j \in 1 .. Len(pairs) : pairs[i].key = pairs[j].key => i = j

LEMMA InsertAllIs ==
    ASSUME NEW x \in Nat, NEW h, HeapOK(h), NEW pairs \in Seq(Pair), Apart(pairs),
           Cardinality(Free(h)) >= Len(pairs), NEW t, t = InsertAll(EmptyDict(x, h), pairs)
    PROVE  \E M : /\ Sound(t, M) /\ t.chain.size = Len(pairs)
                  /\ PairsIn(t.heap, M, Len(pairs)) = pairs
                  /\ Own(M, Len(pairs)) \subseteq Free(h)
                  /\ \A b \in NodeAddrs : b \notin Own(M, Len(pairs)) => t.heap[b] = h[b]
<1> DEFINE N == Len(pairs)
           s == EmptyDict(x, h)
           done == CHOOSE w : Inserts(w, s, pairs, N)
<1>1. N \in Nat /\ pairs \in [1 .. N -> Pair] /\ Cardinality(Free(h)) >= N
  BY LenProperties
<1>2. \A i, j \in 1 .. N : pairs[i].key = pairs[j].key => i = j
  BY DEF Apart
<1>3. t = done[N]
  BY DEF InsertAll, Inserts, InsertStep
<1> HIDE DEF N, done
<1>4. Inserts(done, s, pairs, N)
  <2>1. \E w : Inserts(w, s, pairs, N)
    BY <1>1, InsertsExist
  <2>2. QED BY <2>1 DEF done
<1> DEFINE T == {i \in Nat : i <= N => Built(done[i], h, pairs, i)}
<1>5. 0 \in T
  <2>1. done[0] = s
    BY <1>1, <1>4 DEF Inserts
  <2>2. /\ Sound(s, <<>>) /\ s.chain.size = 0 /\ s.heap = h
        /\ PairsIn(h, <<>>, 0) = <<>> /\ Own(<<>>, 0) = {}
    BY EmptyIs
  <2>3. First(pairs, 0) = <<>> /\ IsFiniteSet({}) /\ Cardinality({}) = 0
    BY FS_EmptySet DEF First
  <2>4. Built(s, h, pairs, 0)
    <3> HIDE DEF s
    <3>1. QED BY <2>2, <2>3 DEF Built
  <2>5. QED BY <2>1, <2>4
<1> HIDE DEF s
<1>6. ASSUME NEW i \in Nat, i \in T PROVE i + 1 \in T
  <2>1. SUFFICES ASSUME i + 1 <= N PROVE Built(done[i + 1], h, pairs, i + 1)
    OBVIOUS
  <2>2. i \in 0 .. N - 1 /\ i <= N
    BY <2>1, <1>1
  <2> DEFINE k == i + 1
  <2>3. k \in 0 .. N /\ k # 0 /\ k - 1 = i
    BY <2>2, <1>1
  <2> HIDE DEF k
  <2>4. done[k] = InsertStep(done[k - 1], pairs[k])
    BY <2>3, <1>4 DEF Inserts
  <2>5. done[k] = InsertPair(done[i], pairs[k].key, pairs[k].val)
    BY <2>3, <2>4 DEF InsertStep
  <2>6. Built(done[i], h, pairs, i)
    BY <1>6, <2>2
  <2>7. Built(InsertPair(done[i], pairs[i + 1].key, pairs[i + 1].val), h, pairs, i + 1)
    BY <2>2, <2>6, <1>1, <1>2, BuildStep
  <2>8. QED BY <2>5, <2>7 DEF k
<1>7. Built(t, h, pairs, N)
  <2> HIDE DEF T
  <2>1. N \in T
    BY <1>1, <1>5, <1>6, SetInduction
  <2>2. Built(done[N], h, pairs, N)
    BY <2>1, <1>1 DEF T
  <2>3. QED BY <2>2, <1>3
<1>8. First(pairs, N) = pairs
  BY <1>1 DEF First
<1>9. QED BY <1>7, <1>8 DEF Built, N

-----------------------------------------------------------------------------
(* The pairs with certain keys.                                            *)

KeepStep(r, pair, K) == IF pair.key \in K THEN Append(r, pair) ELSE r

Keeps(w, pairs, K, n) ==
    w = [i \in 0 .. n |-> IF i = 0 THEN <<>> ELSE KeepStep(w[i - 1], pairs[i], K)]

LEMMA KeepsExist ==
    ASSUME NEW pairs, NEW K
    PROVE  \A n \in Nat : \E w : Keeps(w, pairs, K, n)
<1> DEFINE step(g, k) == KeepStep(g, pairs[k], K)
           is(w, n) == w = [k \in 0 .. n |-> IF k = 0 THEN <<>> ELSE step(w[k - 1], k)]
           T == {n \in Nat : \E w : is(w, n)}
<1> HIDE DEF step
<1>1. 0 \in T
  <2>1. is([k \in 0 .. 0 |-> <<>>], 0)
    OBVIOUS
  <2>2. QED BY <2>1
<1>2. ASSUME NEW n \in Nat, n \in T PROVE n + 1 \in T
  <2>1. PICK g : is(g, n)
    BY <1>2
  <2> DEFINE h == [k \in 0 .. n + 1 |-> IF k <= n THEN g[k] ELSE step(g[n], n + 1)]
  <2>2. ASSUME NEW k \in 0 .. n + 1 PROVE h[k] = IF k = 0 THEN <<>> ELSE step(h[k - 1], k)
    <3>1. CASE k = 0
      BY <2>1, <3>1
    <3>2. CASE k # 0 /\ k <= n
      <4>1. g[k] = step(g[k - 1], k)
        BY <2>1, <3>2
      <4>2. h[k] = g[k] /\ h[k - 1] = g[k - 1]
        BY <3>2
      <4>3. QED BY <3>2, <4>1, <4>2
    <3>3. CASE k = n + 1
      BY <3>3
    <3>4. QED BY <3>1, <3>2, <3>3
  <2>3. is(h, n + 1)
    <3>1. h = [k \in 0 .. n + 1 |-> h[k]]
      OBVIOUS
    <3> HIDE DEF h
    <3>2. QED BY <3>1, <2>2
  <2> HIDE DEF h
  <2>4. QED BY <2>3
<1>3. \A n \in Nat : n \in T
  <2> HIDE DEF T
  <2>1. QED BY <1>1, <1>2, SetInduction
<1>4. QED BY <1>3 DEF Keeps, step

(* Keep as a walk over the pairs.                                          *)
LEMMA KeepWalks ==
    ASSUME NEW pairs, NEW K, NEW n \in Nat, n = Len(pairs)
    PROVE  \E w : /\ Keep(pairs, K) = w[n] /\ w[0] = <<>>
                  /\ \A i \in 1 .. n : w[i] = KeepStep(w[i - 1], pairs[i], K)
<1> DEFINE w == CHOOSE x : Keeps(x, pairs, K, n)
<1>1. Keep(pairs, K) = w[n]
  BY DEF Keep, Keeps, KeepStep
<1>2. Keeps(w, pairs, K, n)
  BY KeepsExist
<1> HIDE DEF w
<1>3. w[0] = <<>> /\ \A i \in 1 .. n : w[i] = KeepStep(w[i - 1], pairs[i], K)
  BY <1>2 DEF Keeps
<1>4. QED BY <1>1, <1>3

(* The list r is from the first i pairs, in some order.                    *)
KeptFrom(r, pairs, K, i) ==
    /\ r \in Seq(Pair) /\ Len(r) <= i /\ Apart(r)
    /\ \A x \in 1 .. Len(r) : \E j \in 1 .. i : r[x] = pairs[j] /\ pairs[j].key \in K

LEMMA KeepStepIs ==
    ASSUME NEW K, NEW pairs, NEW n \in Nat, pairs \in [1 .. n -> Pair],
           \A i, j \in 1 .. n : pairs[i].key = pairs[j].key => i = j,
           NEW i \in Nat, i + 1 <= n, NEW r, KeptFrom(r, pairs, K, i)
    PROVE  KeptFrom(KeepStep(r, pairs[i + 1], K), pairs, K, i + 1)
<1> DEFINE p == pairs[i + 1]
           new == Append(r, p)
           m == Len(r)
<1>1. /\ r \in Seq(Pair) /\ m \in Nat /\ m <= i /\ Apart(r)
      /\ \A x \in 1 .. m : \E j \in 1 .. i : r[x] = pairs[j] /\ pairs[j].key \in K
  BY LenProperties DEF KeptFrom
<1>2. i + 1 \in 1 .. n /\ p \in Pair
  OBVIOUS
<1>3. CASE p.key \notin K
  <2>1. KeepStep(r, pairs[i + 1], K) = r
    BY <1>3 DEF KeepStep
  <2>2. \A x \in 1 .. m : \E j \in 1 .. i + 1 : r[x] = pairs[j] /\ pairs[j].key \in K
    <3>1. \A j \in 1 .. i : j \in 1 .. i + 1
      OBVIOUS
    <3>2. QED BY <3>1, <1>1
  <2>3. m <= i + 1
    BY <1>1
  <2>4. KeptFrom(r, pairs, K, i + 1)
    BY <1>1, <2>2, <2>3 DEF KeptFrom
  <2>5. QED BY <2>1, <2>4
<1>4. CASE p.key \in K
  <2>1. KeepStep(r, pairs[i + 1], K) = new
    BY <1>4 DEF KeepStep
  <2>2. /\ new \in Seq(Pair) /\ Len(new) = m + 1 /\ new[m + 1] = p
        /\ \A x \in 1 .. m : new[x] = r[x]
    BY <1>1, <1>2, AppendProperties
  <2> HIDE DEF new
  <2>3. ASSUME NEW x \in 1 .. m + 1
        PROVE  \E j \in 1 .. i + 1 : new[x] = pairs[j] /\ pairs[j].key \in K
    <3>1. CASE x = m + 1
      <4>1. i + 1 \in 1 .. i + 1 /\ new[x] = pairs[i + 1] /\ pairs[i + 1].key \in K
        BY <3>1, <2>2, <1>4
      <4>2. QED BY <4>1
    <3>2. CASE x # m + 1
      <4>1. x \in 1 .. m
        BY <3>2, <1>1
      <4>2. PICK j \in 1 .. i : r[x] = pairs[j] /\ pairs[j].key \in K
        BY <4>1, <1>1
      <4>3. j \in 1 .. i + 1 /\ new[x] = r[x]
        BY <4>1, <2>2
      <4>4. QED BY <4>2, <4>3
    <3>3. QED BY <3>1, <3>2
  <2>4. \A x \in 1 .. m : r[x].key # p.key
    <3>1. ASSUME NEW x \in 1 .. m, r[x].key = p.key PROVE FALSE
      <4>1. PICK j \in 1 .. i : r[x] = pairs[j]
        BY <1>1
      <4>2. j \in 1 .. n /\ j # i + 1 /\ pairs[j].key = pairs[i + 1].key
        BY <3>1, <4>1
      <4>3. QED BY <4>2, <1>2
    <3>2. QED BY <3>1
  <2>5. Apart(new)
    <3>1. ASSUME NEW x \in 1 .. m + 1, NEW y \in 1 .. m + 1, new[x].key = new[y].key PROVE x = y
      <4>1. x \in 1 .. m \/ x = m + 1
        BY <1>1
      <4>2. y \in 1 .. m \/ y = m + 1
        BY <1>1
      <4>3. \A f, g \in 1 .. m : r[f].key = r[g].key => f = g
        BY <1>1 DEF Apart
      <4> HIDE DEF p, m
      <4>4. QED BY <3>1, <4>1, <4>2, <4>3, <2>2, <2>4
    <3>2. QED BY <3>1, <2>2 DEF Apart
  <2>6. m + 1 <= i + 1
    BY <1>1
  <2>7. KeptFrom(new, pairs, K, i + 1)
    BY <2>2, <2>3, <2>5, <2>6 DEF KeptFrom
  <2>8. QED BY <2>1, <2>7
<1>5. QED BY <1>3, <1>4

LEMMA KeepIs ==
    ASSUME NEW pairs \in Seq(Pair), Apart(pairs), NEW K
    PROVE  KeptFrom(Keep(pairs, K), pairs, K, Len(pairs))
<1> DEFINE n == Len(pairs)
<1>1. n \in Nat /\ pairs \in [1 .. n -> Pair] /\ n = Len(pairs)
  BY LenProperties
<1>2. \A i, j \in 1 .. n : pairs[i].key = pairs[j].key => i = j
  BY DEF Apart
<1> HIDE DEF n
<1>3. PICK w : /\ Keep(pairs, K) = w[n] /\ w[0] = <<>>
               /\ \A i \in 1 .. n : w[i] = KeepStep(w[i - 1], pairs[i], K)
  BY <1>1, KeepWalks
<1> DEFINE T == {i \in Nat : i <= n => KeptFrom(w[i], pairs, K, i)}
<1>4. 0 \in T
  <2>1. <<>> \in Seq(Pair) /\ Len(<<>>) = 0
    BY EmptySeq
  <2>2. KeptFrom(<<>>, pairs, K, 0)
    BY <2>1 DEF KeptFrom, Apart
  <2>3. QED BY <1>3, <2>2
<1>5. ASSUME NEW i \in Nat, i \in T PROVE i + 1 \in T
  <2>1. SUFFICES ASSUME i + 1 <= n PROVE KeptFrom(w[i + 1], pairs, K, i + 1)
    OBVIOUS
  <2> DEFINE k == i + 1
  <2>2. k \in 1 .. n /\ k - 1 = i /\ i <= n
    BY <2>1, <1>1
  <2> HIDE DEF k
  <2>3. w[k] = KeepStep(w[i], pairs[k], K)
    BY <2>2, <1>3
  <2>4. KeptFrom(w[i], pairs, K, i)
    BY <1>5, <2>2
  <2>5. KeptFrom(KeepStep(w[i], pairs[i + 1], K), pairs, K, i + 1)
    BY <2>1, <2>4, <1>1, <1>2, KeepStepIs
  <2>6. QED BY <2>3, <2>5 DEF k
<1>6. KeptFrom(w[n], pairs, K, n)
  <2> HIDE DEF T
  <2>1. n \in T
    BY <1>1, <1>4, <1>5, SetInduction
  <2>2. QED BY <2>1, <1>1 DEF T
<1>7. QED BY <1>3, <1>6 DEF n

LEMMA FirstAppend ==
    ASSUME NEW n \in Nat, NEW pairs \in [1 .. n -> Pair], NEW i \in Nat, i + 1 <= n
    PROVE  /\ First(pairs, i) \in [1 .. i -> Pair]
           /\ First(pairs, i + 1) = Append(First(pairs, i), pairs[i + 1])
<1> DEFINE old == First(pairs, i)
           new == First(pairs, i + 1)
           p == pairs[i + 1]
<1>1. old \in [1 .. i -> Pair] /\ p \in Pair
  BY DEF First
<1>2. \A j \in 1 .. i + 1 : pairs[j] = IF j = i + 1 THEN p ELSE old[j]
  BY DEF First
<1> HIDE DEF old, p
<1>3. Longer(new, old, i, p)
  BY <1>2 DEF Longer, First
<1> HIDE DEF new
<1>4. new = Append(old, p)
  BY <1>1, <1>3, LongerIs
<1>5. QED BY <1>1, <1>4 DEF old, new, p

LEMMA WithoutAppend ==
    ASSUME NEW n \in Nat, NEW pairs \in [1 .. n -> Pair], NEW i \in Nat, i + 1 <= n,
           NEW m \in 1 .. i
    PROVE  Without(pairs, i + 1, m) = Append(Without(pairs, i, m), pairs[i + 1])
<1> DEFINE old == Without(pairs, i, m)
           new == Without(pairs, i + 1, m)
           p == pairs[i + 1]
           f == i - 1
<1>1. old \in [1 .. f -> Pair] /\ p \in Pair /\ f \in Nat /\ f + 1 = i /\ (i + 1) - 1 = f + 1
  BY DEF Without
<1>2. \A j \in 1 .. f + 1 : (IF j < m THEN pairs[j] ELSE pairs[j + 1])
                            = IF j = f + 1 THEN p ELSE old[j]
  BY DEF Without
<1>3. new = [j \in 1 .. f + 1 |-> IF j < m THEN pairs[j] ELSE pairs[j + 1]]
  BY <1>1 DEF Without
<1> HIDE DEF old, p, f, new
<1>4. Longer(new, old, f, p)
  BY <1>2, <1>3 DEF Longer
<1>5. new = Append(old, p)
  BY <1>1, <1>4, LongerIs
<1>6. QED BY <1>5 DEF old, new, p

LEMMA KeepAll ==
    ASSUME NEW pairs \in Seq(Pair), NEW K, \A i \in 1 .. Len(pairs) : pairs[i].key \in K
    PROVE  Keep(pairs, K) = pairs
<1> DEFINE n == Len(pairs)
<1>1. n \in Nat /\ pairs \in [1 .. n -> Pair] /\ n = Len(pairs)
      /\ \A i \in 1 .. n : pairs[i].key \in K
  BY LenProperties
<1> HIDE DEF n
<1>2. PICK w : /\ Keep(pairs, K) = w[n] /\ w[0] = <<>>
               /\ \A i \in 1 .. n : w[i] = KeepStep(w[i - 1], pairs[i], K)
  BY <1>1, KeepWalks
<1> DEFINE T == {i \in Nat : i <= n => w[i] = First(pairs, i)}
<1>3. 0 \in T
  <2>1. First(pairs, 0) = <<>>
    BY DEF First
  <2>2. QED BY <2>1, <1>2
<1>4. ASSUME NEW i \in Nat, i \in T PROVE i + 1 \in T
  <2>1. SUFFICES ASSUME i + 1 <= n PROVE w[i + 1] = First(pairs, i + 1)
    OBVIOUS
  <2> DEFINE k == i + 1
  <2>2. k \in 1 .. n /\ k - 1 = i /\ i <= n
    BY <2>1, <1>1
  <2> HIDE DEF k
  <2>3. w[k] = KeepStep(w[i], pairs[k], K) /\ pairs[k].key \in K
    BY <2>2, <1>1, <1>2
  <2>4. w[i] = First(pairs, i)
    BY <1>4, <2>2
  <2>5. First(pairs, i + 1) = Append(First(pairs, i), pairs[i + 1])
    BY <2>1, <1>1, FirstAppend
  <2>6. w[k] = Append(w[i], pairs[k])
    BY <2>3 DEF KeepStep
  <2>7. QED BY <2>4, <2>5, <2>6 DEF k
<1>5. w[n] = First(pairs, n)
  <2> HIDE DEF T
  <2>1. n \in T
    BY <1>1, <1>3, <1>4, SetInduction
  <2>2. QED BY <2>1, <1>1 DEF T
<1>6. First(pairs, n) = pairs
  BY <1>1 DEF First
<1>7. QED BY <1>2, <1>5, <1>6

LEMMA KeepAllBut ==
    ASSUME NEW pairs \in Seq(Pair), Apart(pairs), NEW n \in Nat, n = Len(pairs),
           NEW m \in 1 .. n, NEW k, k = pairs[m].key
    PROVE  Keep(pairs, Keys \ {k}) = Without(pairs, n, m)
<1> DEFINE K == Keys \ {k}
<1>1. pairs \in [1 .. n -> Pair] /\ n \in Nat /\ n = Len(pairs)
  BY LenProperties
<1>2. \A i \in 1 .. n : pairs[i].key \in K <=> i # m
  <2>1. \A i \in 1 .. n : pairs[i].key \in Keys
    BY <1>1 DEF Pair
  <2>2. QED BY <2>1 DEF Apart
<1> HIDE DEF K
<1>3. PICK w : /\ Keep(pairs, K) = w[n] /\ w[0] = <<>>
               /\ \A i \in 1 .. n : w[i] = KeepStep(w[i - 1], pairs[i], K)
  BY <1>1, KeepWalks
<1> DEFINE T == {i \in Nat : i <= n =>
                     w[i] = IF i < m THEN First(pairs, i) ELSE Without(pairs, i, m)}
<1>4. 0 \in T
  <2>1. First(pairs, 0) = <<>>
    BY DEF First
  <2>2. QED BY <2>1, <1>3
<1>5. ASSUME NEW i \in Nat, i \in T PROVE i + 1 \in T
  <2>1. SUFFICES ASSUME i + 1 <= n
                 PROVE  w[i + 1] = IF i + 1 < m THEN First(pairs, i + 1)
                                   ELSE Without(pairs, i + 1, m)
    OBVIOUS
  <2> DEFINE j == i + 1
  <2>2. j \in 1 .. n /\ j - 1 = i /\ i <= n
    BY <2>1
  <2>3. w[i] = IF i < m THEN First(pairs, i) ELSE Without(pairs, i, m)
    BY <1>5, <2>2
  <2>4. i < m => w[i] = First(pairs, i)
    BY <2>3
  <2>5. ~(i < m) => w[i] = Without(pairs, i, m)
    BY <2>3
  <2> HIDE DEF j, T
  <2>6. w[j] = KeepStep(w[i], pairs[j], K)
    BY <2>2, <1>3
  <2>7. CASE j < m
    <3>1. i < m /\ j # m
      BY <2>7, <2>2
    <3>2. w[j] = Append(w[i], pairs[j])
      BY <2>2, <2>6, <3>1, <1>2 DEF KeepStep
    <3>3. First(pairs, i + 1) = Append(First(pairs, i), pairs[i + 1])
      BY <2>1, <1>1, FirstAppend
    <3>4. QED BY <2>4, <2>7, <3>1, <3>2, <3>3 DEF j
  <2>8. CASE j = m
    <3>1. i < m
      BY <2>8, <2>2
    <3>2. w[j] = w[i]
      BY <2>2, <2>6, <2>8, <1>2 DEF KeepStep
    <3>3. Without(pairs, j, m) = First(pairs, i)
      BY <2>2, <2>8 DEF Without, First
    <3>4. w[j] = Without(pairs, j, m) /\ ~(j < m)
      BY <2>4, <2>8, <3>1, <3>2, <3>3
    <3>5. QED BY <3>4 DEF j
  <2>9. CASE j > m
    <3>1. ~(i < m) /\ m \in 1 .. i /\ ~(j < m) /\ j # m
      BY <2>9, <2>2
    <3>2. w[j] = Append(w[i], pairs[j])
      BY <2>2, <2>6, <3>1, <1>2 DEF KeepStep
    <3>3. Without(pairs, i + 1, m) = Append(Without(pairs, i, m), pairs[i + 1])
      BY <2>1, <3>1, <1>1, WithoutAppend
    <3>4. w[j] = Without(pairs, i + 1, m)
      BY <2>5, <3>1, <3>2, <3>3 DEF j
    <3>5. QED BY <3>1, <3>4 DEF j
  <2>10. QED BY <2>2, <2>7, <2>8, <2>9
<1>6. w[n] = Without(pairs, n, m)
  <2>1. n \in T
    <3> HIDE DEF T
    <3>1. QED BY <1>4, <1>5, SetInduction
  <2>2. ~(n < m) /\ n <= n
    OBVIOUS
  <2>3. QED BY <2>1, <2>2
<1>7. QED BY <1>3, <1>6 DEF K

-----------------------------------------------------------------------------
(* All dictionaries.                                                       *)

(* ls[d] is the list of the nodes of d.  A dictionary has a table for its  *)
(* nodes or was moved from, no two share a node, and no node is lost.      *)
Consistent(tb, ch, h, ls) ==
    /\ tb = [d \in Dicts |-> tb[d]] /\ ch = [d \in Dicts |-> ch[d]]
    /\ HeapOK(h)
    /\ \A d \in Dicts : Linked(ch[d], h, ls[d])
    /\ \A d \in Dicts : \/ tb[d] = NoTable /\ ch[d] = NoChain
                        \/ Matches(tb[d], ch[d], h, ls[d])
    /\ \A d, e \in Dicts : d # e => Own(ls[d], ch[d].size) \cap Own(ls[e], ch[e].size) = {}
    /\ \A a \in NodeAddrs : h[a] # Nil => \E d \in Dicts : a \in Own(ls[d], ch[d].size)

IInv == Consistent(table, chain, heap, [d \in Dicts |-> ListOf(d)])

(* The map that each dictionary stands for.                                *)
MapsOf(tb, ch, h) ==
    [d \in Dicts |-> IF tb[d] # NoTable THEN PairsIn(h, Nodes(ch[d], h), ch[d].size) ELSE Nil]

(* The lists are what following the links gives.                           *)
LEMMA ListsAre ==
    ASSUME NEW tb, NEW ch, NEW h, NEW ls, Consistent(tb, ch, h, ls)
    PROVE  \A d \in Dicts : Nodes(ch[d], h) = ls[d]
  BY NodesIs DEF Consistent

LEMMA FollowedLists ==
    ASSUME NEW tb, NEW ch, NEW h, NEW ls, Consistent(tb, ch, h, ls),
           NEW new, new = [d \in Dicts |-> Nodes(ch[d], h)]
    PROVE  Consistent(tb, ch, h, new)
<1>1. \A d \in Dicts : new[d] = ls[d]
  BY ListsAre
<1>2. QED BY <1>1 DEF Consistent

LEMMA MatchesIsNoMoved ==
    ASSUME NEW t, NEW c, NEW h, NEW L, Matches(t, c, h, L)
    PROVE  t # NoTable
<1>1. t.cap > 0
  BY DomainsAre, TableIs DEF Matches
<1>2. NoTable.cap = 0
  BY DEF NoTable
<1>3. QED BY <1>1, <1>2

LEMMA MatchesFrame ==
    ASSUME NEW t, NEW c, NEW h, NEW L, Matches(t, c, h, L), NEW new,
           \A i \in 1 .. c.size : new[L[i]] = h[L[i]]
    PROVE  Matches(t, c, new, L)
<1>1. TablePairs(t) = {<<h[L[i]].key, L[i]>> : i \in 1 .. c.size}
  BY DEF Matches
<1>2. TablePairs(t) = {<<new[L[i]].key, L[i]>> : i \in 1 .. c.size}
  BY <1>1
<1>3. QED BY <1>2 DEF Matches

(* From n nodes L in the heap h to m nodes M in the heap new: the new ones *)
(* were free, and those that are left are freed.                           *)
Takes(h, L, n, new, M, m) ==
    /\ Own(M, m) \subseteq Own(L, n) \cup Free(h)
    /\ \A b \in NodeAddrs : b \notin Own(L, n) \cup Free(h) => new[b] = h[b]
    /\ \A b \in Own(L, n) \cup Free(h) : new[b] # Nil => b \in Own(M, m)

Changed(f, d, x) == [f EXCEPT ![d] = x]

ListsWith(ls, d, M) == [e \in Dicts |-> IF e = d THEN M ELSE ls[e]]

(* One dictionary changes, the others do not notice.                       *)
LEMMA BecomeIs ==
    ASSUME NEW tb, NEW ch, NEW h, NEW ls, Consistent(tb, ch, h, ls), NEW d \in Dicts,
           NEW s, NEW M, Sound(s, M),
           Takes(h, ls[d], ch[d].size, s.heap, M, s.chain.size),
           NEW tbNew, tbNew = Changed(tb, d, s.table),
           NEW chNew, chNew = Changed(ch, d, s.chain)
    PROVE  /\ Consistent(tbNew, chNew, s.heap, ListsWith(ls, d, M))
           /\ MapsOf(tbNew, chNew, s.heap)
                = Changed(MapsOf(tb, ch, h), d, PairsIn(s.heap, M, s.chain.size))
<1> DEFINE new == s.heap
           lsNew == ListsWith(ls, d, M)
           own(e) == Own(ls[e], ch[e].size)
           ownNew(e) == Own(lsNew[e], chNew[e].size)
           area == own(d) \cup Free(h)
<1>1. /\ tb = [e \in Dicts |-> tb[e]] /\ ch = [e \in Dicts |-> ch[e]] /\ HeapOK(h)
      /\ \A e \in Dicts : Linked(ch[e], h, ls[e])
      /\ \A e \in Dicts : \/ tb[e] = NoTable /\ ch[e] = NoChain
                          \/ Matches(tb[e], ch[e], h, ls[e])
      /\ \A e, f \in Dicts : e # f => own(e) \cap own(f) = {}
      /\ \A a \in NodeAddrs : h[a] # Nil => \E e \in Dicts : a \in own(e)
  BY DEF Consistent
<1>2. HeapOK(new) /\ Linked(s.chain, new, M) /\ Matches(s.table, s.chain, new, M)
  BY DEF Sound
<1>3. /\ Own(M, s.chain.size) \subseteq area
      /\ \A b \in NodeAddrs : b \notin area => new[b] = h[b]
      /\ \A b \in area : new[b] # Nil => b \in Own(M, s.chain.size)
  BY DEF Takes
<1>4. /\ tbNew = [e \in Dicts |-> tbNew[e]] /\ chNew = [e \in Dicts |-> chNew[e]]
      /\ tbNew[d] = s.table /\ chNew[d] = s.chain
      /\ \A e \in Dicts : e # d => tbNew[e] = tb[e] /\ chNew[e] = ch[e]
  BY <1>1 DEF Changed
<1>5. lsNew[d] = M /\ \A e \in Dicts : e # d => lsNew[e] = ls[e]
  BY DEF ListsWith
<1>6. ownNew(d) = Own(M, s.chain.size) /\ \A e \in Dicts : e # d => ownNew(e) = own(e)
  BY <1>4, <1>5
<1> HIDE DEF new, lsNew
<1>7. ASSUME NEW e \in Dicts
      PROVE  \A i \in 1 .. ch[e].size : /\ ls[e][i] \in own(e) /\ ls[e][i] \in NodeAddrs
                                        /\ h[ls[e][i]] # Nil
  BY <1>1 DEF Own, Linked
<1>8. ASSUME NEW e \in Dicts PROVE own(e) \cap Free(h) = {}
  BY <1>1 DEF Own, Linked, Free
<1>9. ASSUME NEW e \in Dicts, e # d PROVE own(e) \cap area = {}
  <2> HIDE DEF own
  <2>1. QED BY <1>1, <1>8, <1>9
<1>10. ASSUME NEW e \in Dicts, e # d
       PROVE  \A i \in 1 .. ch[e].size : new[ls[e][i]] = h[ls[e][i]]
  <2>1. ASSUME NEW i \in 1 .. ch[e].size PROVE new[ls[e][i]] = h[ls[e][i]]
    <3> HIDE DEF own, area
    <3>1. QED BY <1>3, <1>7, <1>9, <1>10
  <2>2. QED BY <2>1
<1>11. \A e \in Dicts : Linked(chNew[e], new, lsNew[e])
  <2>1. ASSUME NEW e \in Dicts PROVE Linked(chNew[e], new, lsNew[e])
    <3>1. CASE e = d
      BY <3>1, <1>2, <1>4, <1>5
    <3>2. CASE e # d
      <4>1. Linked(ch[e], new, ls[e])
        BY <3>2, <1>1, <1>10, LinkedFrame
      <4>2. QED BY <4>1, <3>2, <1>4, <1>5
    <3>3. QED BY <3>1, <3>2
  <2>2. QED BY <2>1
<1>12. \A e \in Dicts : \/ tbNew[e] = NoTable /\ chNew[e] = NoChain
                        \/ Matches(tbNew[e], chNew[e], new, lsNew[e])
  <2>1. ASSUME NEW e \in Dicts
        PROVE  \/ tbNew[e] = NoTable /\ chNew[e] = NoChain
               \/ Matches(tbNew[e], chNew[e], new, lsNew[e])
    <3>1. CASE e = d
      BY <3>1, <1>2, <1>4, <1>5
    <3>2. CASE e # d
      <4>1. Matches(tb[e], ch[e], h, ls[e]) => Matches(tb[e], ch[e], new, ls[e])
        BY <3>2, <1>10, MatchesFrame
      <4>2. QED BY <4>1, <3>2, <1>1, <1>4, <1>5
    <3>3. QED BY <3>1, <3>2
  <2>2. QED BY <2>1
<1>13. \A e, f \in Dicts : e # f => ownNew(e) \cap ownNew(f) = {}
  <2>1. ownNew(d) \subseteq area
    BY <1>3, <1>6
  <2> HIDE DEF own, ownNew, area
  <2>2. \A e \in Dicts : e # d => ownNew(e) \cap area = {}
    BY <1>6, <1>9
  <2>3. QED BY <2>1, <2>2, <1>1, <1>6
<1>14. \A a \in NodeAddrs : new[a] # Nil => \E e \in Dicts : a \in ownNew(e)
  <2>1. ASSUME NEW a \in NodeAddrs, new[a] # Nil PROVE \E e \in Dicts : a \in ownNew(e)
    <3>1. CASE a \in area
      BY <3>1, <2>1, <1>3, <1>6
    <3>2. CASE a \notin area
      <4>1. h[a] # Nil
        BY <3>2, <2>1, <1>3
      <4>2. PICK e \in Dicts : a \in own(e)
        BY <4>1, <1>1
      <4>3. e # d
        BY <3>2, <4>2
      <4>4. QED BY <4>2, <4>3, <1>6
    <3>3. QED BY <3>1, <3>2
  <2>2. QED BY <2>1
<1>15. Consistent(tbNew, chNew, new, lsNew)
  BY <1>2, <1>4, <1>11, <1>12, <1>13, <1>14 DEF Consistent
<1>16. /\ \A e \in Dicts : Nodes(chNew[e], new) = lsNew[e]
       /\ \A e \in Dicts : Nodes(ch[e], h) = ls[e]
  <2>1. \A e \in Dicts : Nodes(ch[e], h) = ls[e]
    BY ListsAre
  <2>2. \A e \in Dicts : Nodes(chNew[e], new) = lsNew[e]
    BY <1>11, NodesIs
  <2>3. QED BY <2>1, <2>2
<1> DEFINE old == MapsOf(tb, ch, h)
           p == PairsIn(new, M, s.chain.size)
<1>17. \A e \in Dicts : MapsOf(tbNew, chNew, new)[e] = IF e = d THEN p ELSE old[e]
  <2>1. ASSUME NEW e \in Dicts
        PROVE  MapsOf(tbNew, chNew, new)[e] = IF e = d THEN p ELSE old[e]
    <3>1. CASE e = d
      <4>1. tbNew[d] # NoTable
        BY <1>2, <1>4, MatchesIsNoMoved
      <4>2. QED BY <3>1, <4>1, <1>4, <1>5, <1>16 DEF MapsOf
    <3>2. CASE e # d
      <4>1. PairsIn(new, ls[e], ch[e].size) = PairsIn(h, ls[e], ch[e].size)
        BY <3>2, <1>10 DEF PairsIn
      <4>2. QED BY <3>2, <4>1, <1>4, <1>5, <1>16 DEF MapsOf
    <3>3. QED BY <3>1, <3>2
  <2>2. QED BY <2>1
<1>18. MapsOf(tbNew, chNew, new) = [old EXCEPT ![d] = p]
  <2>1. /\ old = [e \in Dicts |-> old[e]]
        /\ MapsOf(tbNew, chNew, new) = [e \in Dicts |-> MapsOf(tbNew, chNew, new)[e]]
    BY DEF MapsOf
  <2> HIDE DEF old, p
  <2>2. QED BY <2>1, <1>17
<1>19. QED BY <1>15, <1>18 DEF new, lsNew, Changed

-----------------------------------------------------------------------------
(* What the operations make of one dictionary.                             *)

(* t, from n nodes L in the heap h, is a dictionary with the pairs p.      *)
Yields(h, L, n, t, p) ==
    \E M : /\ Sound(t, M)
           /\ Takes(h, L, n, t.heap, M, t.chain.size)
           /\ PairsIn(t.heap, M, t.chain.size) = p

(* The pairs of a dictionary, as the map that it stands for.               *)
LEMMA PairsAre ==
    ASSUME NEW t, NEW c, NEW h, NEW L, HeapOK(h), Linked(c, h, L), Matches(t, c, h, L),
           NEW n \in Nat, n = c.size, NEW p, p = PairsIn(h, L, n)
    PROVE  /\ p \in Seq(Pair) /\ p \in [1 .. n -> Pair] /\ Len(p) = n /\ Apart(p)
           /\ \A i \in 1 .. n : p[i].key = h[L[i]].key /\ p[i].val = h[L[i]].val
                                /\ p[i].key \in Keys
           /\ \A k \in Keys : Contains(t, k) <=> k \in OM!KeysOf(p)
<1>1. p \in [1 .. n -> Pair]
  BY NodesAre
<1>2. p \in Seq(Pair) /\ Len(p) = n
  BY <1>1, IsSequence
<1>3. \A i \in 1 .. n : p[i].key = h[L[i]].key /\ p[i].val = h[L[i]].val
  BY DEF PairsIn
<1>4. \A i \in 1 .. n : p[i].key \in Keys
  BY <1>1 DEF Pair
<1>5. Apart(p)
  <2>1. ASSUME NEW i \in 1 .. n, NEW j \in 1 .. n, p[i].key = p[j].key PROVE i = j
    <3> DEFINE k == p[i].key
    <3>1. k \in Keys /\ h[L[i]].key = k /\ h[L[j]].key = k
      BY <2>1, <1>3, <1>4
    <3> HIDE DEF k
    <3>2. QED BY <3>1, MatchFinds
  <2>2. QED BY <2>1, <1>2 DEF Apart
<1>6. ASSUME NEW k \in Keys PROVE Contains(t, k) <=> k \in OM!KeysOf(p)
  <2>1. Contains(t, k) <=> \E i \in 1 .. n : h[L[i]].key = k
    BY MatchFinds
  <2>2. k \in OM!KeysOf(p) <=> \E i \in 1 .. n : p[i].key = k
    BY <1>2 DEF OM!KeysOf
  <2>3. QED BY <2>1, <2>2, <1>3
<1>7. QED BY <1>1, <1>2, <1>3, <1>4, <1>5, <1>6

LEMMA AddYields ==
    ASSUME NEW s, NEW L, Sound(s, L), NEW n \in Nat, n = s.chain.size, Free(s.heap) # {},
           NEW k \in Keys, NEW v \in Values, ~Contains(s.table, k),
           NEW t, t = AddPair(s, k, v)
    PROVE  Yields(s.heap, L, n, t, Append(PairsIn(s.heap, L, n), [key |-> k, val |-> v]))
<1> DEFINE a == Fresh(s.heap)
           M == With(L, n, a)
<1>1. a \in Free(s.heap)
  BY FreshIs
<1>2. a = Fresh(s.heap) /\ M = With(L, n, a)
  OBVIOUS
<1> HIDE DEF a, M
<1>3. /\ Sound(t, M) /\ t.chain.size = n + 1
      /\ PairsIn(t.heap, M, n + 1) = Append(PairsIn(s.heap, L, n), [key |-> k, val |-> v])
      /\ \A b \in NodeAddrs : b # a /\ b \notin Own(L, n) => t.heap[b] = s.heap[b]
  BY <1>1, <1>2, AddPairIs
<1>4. Own(M, n + 1) = Own(L, n) \cup {a}
  <2>1. M[n + 1] = a /\ \A j \in 1 .. n : M[j] = L[j]
    BY <1>2 DEF With
  <2>2. \A j : j \in 1 .. n + 1 <=> j \in 1 .. n \/ j = n + 1
    OBVIOUS
  <2>3. QED BY <2>1, <2>2 DEF Own
<1>5. Takes(s.heap, L, n, t.heap, M, n + 1)
  <2>1. ASSUME NEW b \in Own(L, n) \cup Free(s.heap), t.heap[b] # Nil, b \notin Own(M, n + 1)
        PROVE  FALSE
    <3>1. b \in Free(s.heap) /\ b # a /\ b \notin Own(L, n)
      BY <2>1, <1>4
    <3>2. t.heap[b] = s.heap[b] /\ s.heap[b] = Nil
      BY <3>1, <1>3 DEF Free
    <3>3. QED BY <3>2, <2>1
  <2>2. ASSUME NEW b \in NodeAddrs, b \notin Own(L, n) \cup Free(s.heap)
        PROVE  t.heap[b] = s.heap[b]
    BY <2>2, <1>1, <1>3
  <2>3. Own(M, n + 1) \subseteq Own(L, n) \cup Free(s.heap)
    BY <1>1, <1>4
  <2>4. QED BY <2>1, <2>2, <2>3 DEF Takes
<1>6. QED BY <1>3, <1>5 DEF Yields

LEMMA SameTakes ==
    ASSUME NEW h, NEW L, NEW n, NEW new,
           \A b \in NodeAddrs : b \notin Own(L, n) => new[b] = h[b]
    PROVE  Takes(h, L, n, new, L, n)
  BY DEF Takes, Free

LEMMA InsertYields ==
    ASSUME NEW s, NEW L, Sound(s, L), NEW n \in Nat, n = s.chain.size, Free(s.heap) # {},
           NEW k \in Keys, NEW v \in Values, NEW t, t = InsertPair(s, k, v)
    PROVE  Yields(s.heap, L, n, t, OM!Put(PairsIn(s.heap, L, n), k, v))
<1> DEFINE p == PairsIn(s.heap, L, n)
           pair == [key |-> k, val |-> v]
<1>1. HeapOK(s.heap) /\ Linked(s.chain, s.heap, L) /\ Matches(s.table, s.chain, s.heap, L)
  BY DEF Sound
<1>2. /\ p \in [1 .. n -> Pair] /\ Len(p) = n /\ Apart(p)
      /\ \A i \in 1 .. n : p[i].key = s.heap[L[i]].key
      /\ Contains(s.table, k) <=> k \in OM!KeysOf(p)
  BY <1>1, PairsAre
<1>3. CASE ~Contains(s.table, k)
  <2>1. t = AddPair(s, k, v)
    BY <1>3 DEF InsertPair
  <2>2. OM!Put(p, k, v) = Append(p, pair)
    <3>1. k \notin OM!KeysOf(p)
      BY <1>2, <1>3
    <3>2. QED BY <3>1 DEF OM!Put
  <2>3. Yields(s.heap, L, n, t, Append(p, pair))
    BY <2>1, <1>3, AddYields
  <2>4. QED BY <2>2, <2>3
<1>4. CASE Contains(s.table, k)
  <2>1. t = SetValue(s, k, v)
    BY <1>4 DEF InsertPair, SetValue
  <2> HIDE DEF p
  <2> DEFINE m == CHOOSE i \in 1 .. Len(p) : p[i].key = k
  <2>2. OM!Put(p, k, v) = [p EXCEPT ![m].val = v]
    BY <1>2, <1>4 DEF OM!Put
  <2>3. \E i \in 1 .. Len(p) : p[i].key = k
    BY <1>2, <1>4 DEF OM!KeysOf
  <2>4. m \in 1 .. Len(p) /\ p[m].key = k
    BY <2>3
  <2> HIDE DEF m
  <2>5. m \in 1 .. n /\ s.heap[L[m]].key = k
    BY <2>4, <1>2
  <2>6. /\ Sound(t, L) /\ t.chain = s.chain
        /\ Revalued(PairsIn(t.heap, L, n), PairsIn(s.heap, L, n), m, v)
        /\ \A b \in NodeAddrs : b # L[m] => t.heap[b] = s.heap[b]
    BY <2>1, <2>5, SetValueIs
  <2>7. Takes(s.heap, L, n, t.heap, L, n)
    <3>1. L[m] \in Own(L, n)
      BY <2>5 DEF Own
    <3>2. \A b \in NodeAddrs : b \notin Own(L, n) => t.heap[b] = s.heap[b]
      BY <3>1, <2>6
    <3>3. QED BY <3>2, SameTakes
  <2>8. PairsIn(t.heap, L, n) = OM!Put(p, k, v) /\ t.chain.size = n
    BY <2>2, <2>6 DEF p, Revalued
  <2>9. Yields(s.heap, L, n, t, OM!Put(p, k, v))
    BY <2>6, <2>7, <2>8 DEF Yields
  <2>10. QED BY <2>9 DEF p
<1>5. QED BY <1>3, <1>4

LEMMA KeepIsKeep == \A p, K : OM!Keep(p, K) = Keep(p, K)
  BY DEF OM!Keep, Keep

LEMMA PopYields ==
    ASSUME NEW s, NEW L, Sound(s, L), NEW n \in Nat, n = s.chain.size,
           NEW k \in Keys, Contains(s.table, k), NEW t, t = Popped(s, k)
    PROVE  Yields(s.heap, L, n, t, Keep(PairsIn(s.heap, L, n), Keys \ {k}))
<1> DEFINE p == PairsIn(s.heap, L, n)
<1>1. HeapOK(s.heap) /\ Linked(s.chain, s.heap, L) /\ Matches(s.table, s.chain, s.heap, L)
  BY DEF Sound
<1>2. /\ p \in Seq(Pair) /\ Len(p) = n /\ Apart(p)
      /\ \A i \in 1 .. n : p[i].key = s.heap[L[i]].key
      /\ Contains(s.table, k) <=> k \in OM!KeysOf(p)
  BY <1>1, PairsAre
<1> HIDE DEF p
<1>3. PICK m \in 1 .. n : p[m].key = k
  BY <1>2 DEF OM!KeysOf
<1> DEFINE M == Without(L, n, m)
<1>4. M = Without(L, n, m)
  OBVIOUS
<1> HIDE DEF M
<1>5. /\ Sound(t, M) /\ t.chain.size = n - 1
      /\ PairsIn(t.heap, M, n - 1) = Without(PairsIn(s.heap, L, n), n, m)
      /\ t.heap[L[m]] = Nil
      /\ \A b \in NodeAddrs : b \notin Own(L, n) => t.heap[b] = s.heap[b]
  <2>1. s.heap[L[m]].key = k
    BY <1>2, <1>3
  <2>2. QED BY <2>1, <1>4, PoppedIs
<1>6. Keep(p, Keys \ {k}) = Without(p, n, m)
  BY <1>2, <1>3, KeepAllBut
<1>7. \A b \in Own(L, n) : b # L[m] => b \in Own(M, n - 1)
  <2>1. ASSUME NEW i \in 1 .. n, i # m PROVE L[i] \in Own(M, n - 1)
    <3>1. CASE i < m
      <4>1. i \in 1 .. n - 1 /\ M[i] = L[i]
        BY <3>1, <1>4 DEF Without
      <4>2. QED BY <4>1 DEF Own
    <3>2. CASE ~(i < m)
      <4>1. i - 1 \in 1 .. n - 1 /\ ~(i - 1 < m) /\ (i - 1) + 1 = i
        BY <3>2, <2>1
      <4>2. M[i - 1] = L[i]
        BY <4>1, <1>4 DEF Without
      <4>3. QED BY <4>1, <4>2 DEF Own
    <3>3. QED BY <3>1, <3>2
  <2>2. QED BY <2>1 DEF Own
<1>8. Own(M, n - 1) \subseteq Own(L, n)
  <2>1. \A i \in 1 .. n - 1 : M[i] = L[i] \/ M[i] = L[i + 1]
    BY <1>4 DEF Without
  <2>2. \A i \in 1 .. n - 1 : i \in 1 .. n /\ i + 1 \in 1 .. n
    OBVIOUS
  <2>3. QED BY <2>1, <2>2 DEF Own
<1>9. Takes(s.heap, L, n, t.heap, M, n - 1)
  <2>1. ASSUME NEW b \in Own(L, n) \cup Free(s.heap), t.heap[b] # Nil
        PROVE  b \in Own(M, n - 1)
    <3>1. b \notin Own(L, n) => t.heap[b] = Nil
      BY <1>5 DEF Free
    <3>2. QED BY <3>1, <2>1, <1>5, <1>7
  <2>2. QED BY <2>1, <1>5, <1>8 DEF Takes
<1>10. QED BY <1>5, <1>6, <1>9 DEF Yields, p

(* What was built beside a dictionary takes its place.                     *)
Freed(s, c) == [s EXCEPT !.heap = ChainClear(c, s.heap)]

LEMMA ReplaceYields ==
    ASSUME NEW c, NEW h, NEW L, HeapOK(h), Linked(c, h, L), NEW n \in Nat, n = c.size,
           NEW x \in Nat, NEW pairs \in Seq(Pair), Apart(pairs),
           Cardinality(Free(h)) >= Len(pairs),
           NEW s, s = InsertAll(EmptyDict(x, h), pairs),
           NEW t, t = Freed(s, c)
    PROVE  Yields(h, L, n, t, pairs)
<1> DEFINE N == Len(pairs)
           new == ChainClear(c, s.heap)
<1>1. N \in Nat
  BY LenProperties
<1>2. PICK M : /\ Sound(s, M) /\ s.chain.size = N
               /\ PairsIn(s.heap, M, N) = pairs
               /\ Own(M, N) \subseteq Free(h)
               /\ \A b \in NodeAddrs : b \notin Own(M, N) => s.heap[b] = h[b]
  BY InsertAllIs, SMTT(30)
<1>3. /\ HeapOK(s.heap) /\ Linked(s.chain, s.heap, M) /\ Matches(s.table, s.chain, s.heap, M)
      /\ s = [table |-> s.table, chain |-> s.chain, heap |-> s.heap]
  BY <1>2 DEF Sound
<1>4. Own(L, n) \cap Free(h) = {} /\ Own(L, n) \subseteq NodeAddrs
  BY DEF Own, Linked, Free
<1> HIDE DEF N
<1>5. Linked(c, s.heap, L)
  <2>1. \A i \in 1 .. n : L[i] \in Own(L, n)
    BY DEF Own
  <2>2. \A i \in 1 .. n : s.heap[L[i]] = h[L[i]]
    BY <2>1, <1>2, <1>4
  <2>3. QED BY <2>2, LinkedFrame
<1>6. /\ HeapOK(new)
      /\ \A b \in NodeAddrs : new[b] = IF b \in Own(L, n) THEN Nil ELSE s.heap[b]
  BY <1>3, <1>5, ClearIs
<1> HIDE DEF new
<1>7. t = [table |-> s.table, chain |-> s.chain, heap |-> new]
  <2>1. t = [s EXCEPT !.heap = new]
    BY DEF new, Freed
  <2>2. QED BY <2>1, <1>3
<1>8. t.table = s.table /\ t.chain = s.chain /\ t.heap = new
      /\ t = [table |-> t.table, chain |-> t.chain, heap |-> t.heap]
  BY <1>7, StateIs
<1>9. \A i \in 1 .. N : new[M[i]] = s.heap[M[i]]
  <2>1. \A i \in 1 .. N : M[i] \in Own(M, N)
    BY DEF Own
  <2>2. Own(M, N) \subseteq NodeAddrs
    BY <1>2 DEF Free
  <2>3. QED BY <2>1, <2>2, <1>2, <1>4, <1>6
<1>10. Linked(s.chain, new, M) /\ Matches(s.table, s.chain, new, M)
  BY <1>2, <1>3, <1>9, LinkedFrame, MatchesFrame
<1>11. Sound(t, M)
  BY <1>6, <1>8, <1>10 DEF Sound
<1>12. PairsIn(new, M, N) = pairs
  <2>1. PairsIn(new, M, N) = PairsIn(s.heap, M, N)
    BY <1>9 DEF PairsIn
  <2>2. QED BY <2>1, <1>2
<1>13. Takes(h, L, n, new, M, N)
  <2>1. ASSUME NEW b \in NodeAddrs, b \notin Own(L, n) \cup Free(h) PROVE new[b] = h[b]
    BY <2>1, <1>2, <1>6
  <2>2. ASSUME NEW b \in Own(L, n) \cup Free(h), new[b] # Nil PROVE b \in Own(M, N)
    <3>1. b \in NodeAddrs
      BY <1>4 DEF Free
    <3>2. b \notin Own(L, n) /\ b \in Free(h) /\ new[b] = s.heap[b]
      BY <3>1, <2>2, <1>6
    <3>3. b \notin Own(M, N) => s.heap[b] = Nil
      BY <3>1, <3>2, <1>2 DEF Free
    <3>4. QED BY <3>2, <3>3, <2>2
  <2>3. QED BY <2>1, <2>2, <1>2 DEF Takes
<1>14. QED BY <1>2, <1>8, <1>11, <1>12, <1>13 DEF Yields

-----------------------------------------------------------------------------
(* Steps.                                                                  *)

Maps == MapsOf(table, chain, heap)

LEMMA MapsAre ==
    /\ Maps = [d \in Dicts |-> IF Usable(d) THEN Items(d) ELSE Nil]
    /\ Maps' = [d \in Dicts |-> IF Usable(d) THEN Items(d) ELSE Nil]'
<1>1. \A d : Items(d) = PairsIn(heap, Nodes(chain[d], heap), chain[d].size)
  BY DEF Items, PairsIn
<1>2. \A d : (Items(d))' = PairsIn(heap', Nodes(chain[d], heap)', chain[d].size')
  BY DEF Items, PairsIn
<1>3. Maps = [d \in Dicts |-> IF Usable(d) THEN Items(d) ELSE Nil]
  BY <1>1 DEF Maps, MapsOf, Usable
<1>4. Maps' = [d \in Dicts |-> IF Usable(d) THEN Items(d) ELSE Nil]'
  BY <1>2 DEF Maps, MapsOf, Usable
<1>5. QED BY <1>3, <1>4

LEMMA UsableIs ==
    ASSUME IInv, NEW d \in Dicts, NEW n, n = chain[d].size, NEW L, L = ListOf(d)
    PROVE  /\ HeapOK(heap) /\ Linked(chain[d], heap, L) /\ n \in Nat
           /\ ~Usable(d) => Maps[d] = Nil /\ chain[d] = NoChain
           /\ Usable(d) => /\ Sound(State(d), L) /\ Matches(table[d], chain[d], heap, L)
                           /\ Maps[d] = PairsIn(heap, L, n)
                           /\ Maps[d] \in Seq(Pair) /\ Len(Maps[d]) = n /\ Apart(Maps[d])
                           /\ Maps[d] # Nil /\ In(d) = OM!KeysOf(Maps[d])
<1> DEFINE lists == [e \in Dicts |-> ListOf(e)]
<1>1. lists[d] = L
  OBVIOUS
<1>2. Consistent(table, chain, heap, lists)
  BY DEF IInv
<1> HIDE DEF lists
<1>3. /\ HeapOK(heap) /\ Linked(chain[d], heap, L)
      /\ \/ table[d] = NoTable /\ chain[d] = NoChain
         \/ Matches(table[d], chain[d], heap, L)
  BY <1>1, <1>2 DEF Consistent
<1>4. n \in Nat
  BY <1>3 DEF Linked
<1>5. L = Nodes(chain[d], heap)
  BY DEF ListOf
<1>6. CASE ~Usable(d)
  <2>1. table[d] = NoTable
    BY <1>6 DEF Usable
  <2>2. chain[d] = NoChain
    BY <2>1, <1>3, MatchesIsNoMoved
  <2>3. QED BY <2>1, <2>2, <1>3, <1>4, <1>6 DEF Maps, MapsOf
<1>7. CASE Usable(d)
  <2>1. Matches(table[d], chain[d], heap, L)
    BY <1>3, <1>7 DEF Usable
  <2>2. Maps[d] = PairsIn(heap, L, n)
    BY <1>5, <1>7 DEF Maps, MapsOf, Usable
  <2> DEFINE p == PairsIn(heap, L, n)
  <2>3. /\ p \in Seq(Pair) /\ Len(p) = n /\ Apart(p)
        /\ \A i \in 1 .. n : p[i].key \in Keys
        /\ \A k \in Keys : Contains(table[d], k) <=> k \in OM!KeysOf(p)
    BY <2>1, <1>3, <1>4, PairsAre
  <2> HIDE DEF p
  <2>4. p # Nil
    BY <2>3, DictAssumption DEF Pair
  <2>5. OM!KeysOf(p) \subseteq Keys
    BY <2>3 DEF OM!KeysOf
  <2>6. In(d) = OM!KeysOf(p)
    BY <2>3, <2>5 DEF In
  <2>7. Sound(State(d), L)
    <3>1. State(d) = [table |-> table[d], chain |-> chain[d], heap |-> heap]
      BY DEF State
    <3> DEFINE s == State(d)
    <3> HIDE DEF s
    <3>2. s.table = table[d] /\ s.chain = chain[d] /\ s.heap = heap
          /\ s = [table |-> s.table, chain |-> s.chain, heap |-> s.heap]
      BY <3>1 DEF s
    <3>3. Sound(s, L)
      BY <2>1, <3>2, <1>3 DEF Sound
    <3>4. QED BY <3>3 DEF s
  <2>8. QED BY <2>1, <2>2, <2>3, <2>4, <2>6, <2>7, <1>3, <1>4, <1>7 DEF p
<1>8. QED BY <1>6, <1>7

LEMMA Yielded ==
    ASSUME IInv, NEW d \in Dicts, NEW s, NEW p,
           Yields(heap, ListOf(d), chain[d].size, s, p), Become(d, s)
    PROVE  IInv' /\ Maps' = [Maps EXCEPT ![d] = p]
<1> DEFINE lists == [e \in Dicts |-> ListOf(e)]
<1>1. Consistent(table, chain, heap, lists) /\ lists[d] = ListOf(d)
  BY DEF IInv
<1> HIDE DEF lists
<1>2. PICK M : /\ Sound(s, M)
               /\ Takes(heap, lists[d], chain[d].size, s.heap, M, s.chain.size)
               /\ PairsIn(s.heap, M, s.chain.size) = p
  BY <1>1 DEF Yields
<1> DEFINE tb == table'
           ch == chain'
           ls == ListsWith(lists, d, M)
           new == [e \in Dicts |-> Nodes(ch[e], s.heap)]
<1>3. tb = Changed(table, d, s.table) /\ ch = Changed(chain, d, s.chain)
      /\ heap' = s.heap
  BY DEF Become, Changed
<1> HIDE DEF tb, ch
<1>4. /\ Consistent(tb, ch, s.heap, ls)
      /\ MapsOf(tb, ch, s.heap)
            = Changed(MapsOf(table, chain, heap), d, PairsIn(s.heap, M, s.chain.size))
  BY <1>1, <1>2, <1>3, BecomeIs
<1> HIDE DEF ls
<1>5. Consistent(tb, ch, s.heap, new)
  BY <1>4, FollowedLists
<1>6. IInv'
  <2>1. [e \in Dicts |-> ListOf(e)]' = new
    BY <1>3 DEF ListOf, ch
  <2> HIDE DEF new
  <2>2. QED BY <2>1, <1>3, <1>5 DEF IInv, tb, ch
<1>7. Maps' = MapsOf(tb, ch, s.heap)
  BY <1>3 DEF Maps, MapsOf, tb, ch
<1>8. QED BY <1>2, <1>4, <1>6, <1>7 DEF Maps, Changed

LEMMA OMIs ==
    /\ \A d : OM!Usable(d) <=> Maps[d] # Nil
    /\ \A d, p : OM!Make(d, p) <=> Maps' = [Maps EXCEPT ![d] = p]
    /\ \A d, k, v : OM!Insert(d, k, v) <=>
          /\ call' = <<"insert", d, k, v>> /\ Maps[d] # Nil
          /\ Maps' = [Maps EXCEPT ![d] = OM!Put(Maps[d], k, v)]
    /\ \A d, k, v : OM!SetDefault(d, k, v) <=>
          /\ call' = <<"setdefault", d, k, v>> /\ Maps[d] # Nil
          /\ Maps' = [Maps EXCEPT ![d] = IF k \in OM!KeysOf(Maps[d]) THEN Maps[d]
                                         ELSE OM!Put(Maps[d], k, v)]
    /\ \A d, k : OM!Pop(d, k) <=>
          /\ call' = <<"pop", d, k>> /\ Maps[d] # Nil
          /\ Maps' = [Maps EXCEPT ![d] = OM!Keep(Maps[d], Keys \ {k})]
    /\ \A d : OM!Clear(d) <=>
          /\ call' = <<"clear", d>> /\ Maps[d] # Nil /\ Maps' = [Maps EXCEPT ![d] = <<>>]
    /\ \A d, e : OM!Take(d, e) <=>
          /\ call' = <<"take", d, e>> /\ d # e /\ Maps[e] # Nil
          /\ Maps' = [Maps EXCEPT ![d] = Maps[e], ![e] = Nil]
    /\ \A d, e : OM!Meet(d, e) <=>
          /\ call' = <<"meet", d, e>> /\ d # e /\ Maps[d] # Nil /\ Maps[e] # Nil
          /\ Maps' = [Maps EXCEPT ![d] = OM!Keep(Maps[d], OM!KeysOf(Maps[e]))]
    /\ \A d, e : OM!Differ(d, e) <=>
          /\ call' = <<"differ", d, e>> /\ d # e /\ Maps[d] # Nil /\ Maps[e] # Nil
          /\ Maps' = [Maps EXCEPT ![d] = OM!Keep(Maps[d], Keys \ OM!KeysOf(Maps[e]))
                                            \o OM!Keep(Maps[e], Keys \ OM!KeysOf(Maps[d]))]
<1>1. /\ \A d : OM!Usable(d) <=> Maps[d] # Nil
      /\ \A d, p : OM!Make(d, p) <=> Maps' = [Maps EXCEPT ![d] = p]
  BY MapsAre DEF OM!Usable, OM!Make
<1>2. /\ \A d, k, v : OM!Insert(d, k, v) <=>
          /\ call' = <<"insert", d, k, v>> /\ Maps[d] # Nil
          /\ Maps' = [Maps EXCEPT ![d] = OM!Put(Maps[d], k, v)]
  BY <1>1, MapsAre DEF OM!Insert
<1>3. \A d, k, v : OM!SetDefault(d, k, v) <=>
          /\ call' = <<"setdefault", d, k, v>> /\ Maps[d] # Nil
          /\ Maps' = [Maps EXCEPT ![d] = IF k \in OM!KeysOf(Maps[d]) THEN Maps[d]
                                         ELSE OM!Put(Maps[d], k, v)]
  BY <1>1, MapsAre DEF OM!SetDefault
<1>4. \A d, k : OM!Pop(d, k) <=>
          /\ call' = <<"pop", d, k>> /\ Maps[d] # Nil
          /\ Maps' = [Maps EXCEPT ![d] = OM!Keep(Maps[d], Keys \ {k})]
  BY <1>1, MapsAre DEF OM!Pop
<1>5. \A d : OM!Clear(d) <=>
          /\ call' = <<"clear", d>> /\ Maps[d] # Nil /\ Maps' = [Maps EXCEPT ![d] = <<>>]
  BY <1>1 DEF OM!Clear
<1>6. \A d, e : OM!Take(d, e) <=>
          /\ call' = <<"take", d, e>> /\ d # e /\ Maps[e] # Nil
          /\ Maps' = [Maps EXCEPT ![d] = Maps[e], ![e] = Nil]
  BY <1>1, MapsAre DEF OM!Take
<1>7. \A d, e : OM!Meet(d, e) <=>
          /\ call' = <<"meet", d, e>> /\ d # e /\ Maps[d] # Nil /\ Maps[e] # Nil
          /\ Maps' = [Maps EXCEPT ![d] = OM!Keep(Maps[d], OM!KeysOf(Maps[e]))]
  BY <1>1, MapsAre DEF OM!Meet
<1>8. \A d, e : OM!Differ(d, e) <=>
          /\ call' = <<"differ", d, e>> /\ d # e /\ Maps[d] # Nil /\ Maps[e] # Nil
          /\ Maps' = [Maps EXCEPT ![d] = OM!Keep(Maps[d], Keys \ OM!KeysOf(Maps[e]))
                                            \o OM!Keep(Maps[e], Keys \ OM!KeysOf(Maps[d]))]
  BY <1>1, MapsAre, ZenonT(60) DEF OM!Differ
<1>9. QED BY <1>1, <1>2, <1>3, <1>4, <1>5, <1>6, <1>7, <1>8

LEMMA RoomIs == Room(1) => Free(heap) # {}
  BY FS_EmptySet DEF Room

LEMMA SizeIs ==
    ASSUME NEW t, NEW c, NEW h, NEW L, Matches(t, c, h, L)
    PROVE  t.size \in Nat
  BY DomainsAre, TableIs DEF Matches

LEMMA StateOf ==
    ASSUME NEW d
    PROVE  State(d).table = table[d] /\ State(d).chain = chain[d] /\ State(d).heap = heap
  BY DEF State

LEMMA UnchangedStep ==
    ASSUME IInv, UNCHANGED <<table, chain, heap>>
    PROVE  IInv' /\ Maps' = Maps
<1>1. [d \in Dicts |-> ListOf(d)]' = [d \in Dicts |-> ListOf(d)]
  BY DEF ListOf
<1>2. QED BY <1>1 DEF IInv, Maps

LEMMA SameMap == \A d : Maps = [Maps EXCEPT ![d] = Maps[d]]
  BY DEF Maps, MapsOf

LEMMA InsertStepIs ==
    ASSUME IInv, NEW d \in Dicts, NEW k \in Keys, NEW v \in Values, Insert(d, k, v)
    PROVE  IInv' /\ OM!Insert(d, k, v)
<1> DEFINE n == chain[d].size
           L == ListOf(d)
           s == State(d)
           t == InsertPair(s, k, v)
           p == OM!Put(Maps[d], k, v)
<1>1. Usable(d) /\ Free(heap) # {} /\ Become(d, t) /\ call' = <<"insert", d, k, v>>
  BY RoomIs DEF Insert
<1>2. /\ Sound(s, L) /\ n \in Nat /\ Maps[d] = PairsIn(heap, L, n) /\ Maps[d] # Nil
  BY <1>1, UsableIs
<1>3. s.chain.size = n /\ s.heap = heap
  BY StateOf
<1> HIDE DEF n, L, s
<1>4. Yields(s.heap, L, n, t, OM!Put(PairsIn(s.heap, L, n), k, v))
  <2>1. t = InsertPair(s, k, v)
    OBVIOUS
  <2> HIDE DEF t
  <2>2. QED BY <2>1, <1>1, <1>2, <1>3, InsertYields
<1>5. Yields(heap, ListOf(d), chain[d].size, t, p)
  BY <1>2, <1>3, <1>4 DEF n, L
<1> HIDE DEF t, p
<1>6. IInv' /\ Maps' = [Maps EXCEPT ![d] = p]
  BY <1>1, <1>5, Yielded
<1>7. OM!Insert(d, k, v)
  BY <1>1, <1>2, <1>6, OMIs DEF p
<1>8. QED BY <1>6, <1>7

LEMMA SetDefaultStepIs ==
    ASSUME IInv, NEW d \in Dicts, NEW k \in Keys, NEW v \in Values, SetDefault(d, k, v)
    PROVE  IInv' /\ OM!SetDefault(d, k, v)
<1> DEFINE n == chain[d].size
           L == ListOf(d)
           s == State(d)
           t == AddPair(s, k, v)
           p == OM!Put(Maps[d], k, v)
<1>1. Usable(d) /\ Free(heap) # {} /\ call' = <<"setdefault", d, k, v>>
  BY RoomIs DEF SetDefault
<1>2. /\ Sound(s, L) /\ n \in Nat /\ Maps[d] = PairsIn(heap, L, n) /\ Maps[d] # Nil
      /\ Matches(table[d], chain[d], heap, L) /\ In(d) = OM!KeysOf(Maps[d])
  BY <1>1, UsableIs
<1>3. s.chain.size = n /\ s.heap = heap /\ s.table = table[d]
  BY StateOf
<1>4. Contains(table[d], k) <=> k \in OM!KeysOf(Maps[d])
  BY <1>2 DEF In
<1>5. CASE Contains(table[d], k)
  <2>1. UNCHANGED <<table, chain, heap>>
    BY <1>5 DEF SetDefault
  <2>2. IInv' /\ Maps' = Maps
    BY <2>1, UnchangedStep
  <2>3. Maps' = [Maps EXCEPT ![d] = Maps[d]]
    BY <2>2, SameMap
  <2>4. OM!SetDefault(d, k, v)
    BY <2>3, <1>1, <1>2, <1>4, <1>5, OMIs
  <2>5. QED BY <2>2, <2>4
<1>6. CASE ~Contains(table[d], k)
  <2>1. Become(d, t)
    BY <1>6 DEF SetDefault
  <2> HIDE DEF n, L, s
  <2>2. Yields(s.heap, L, n, t, Append(PairsIn(s.heap, L, n), [key |-> k, val |-> v]))
    <3>1. t = AddPair(s, k, v)
      OBVIOUS
    <3> HIDE DEF t
    <3>2. QED BY <3>1, <1>1, <1>2, <1>3, <1>6, AddYields
  <2>3. Append(PairsIn(s.heap, L, n), [key |-> k, val |-> v]) = p
    BY <1>2, <1>3, <1>4, <1>6 DEF OM!Put
  <2>4. Yields(heap, ListOf(d), chain[d].size, t, p)
    BY <2>2, <2>3, <1>2, <1>3 DEF n, L
  <2> HIDE DEF t, p
  <2>5. IInv' /\ Maps' = [Maps EXCEPT ![d] = p]
    BY <2>1, <2>4, Yielded
  <2>6. OM!SetDefault(d, k, v)
    BY <2>5, <1>1, <1>2, <1>4, <1>6, OMIs DEF p
  <2>7. QED BY <2>5, <2>6
<1>7. QED BY <1>5, <1>6

LEMMA PopStepIs ==
    ASSUME IInv, NEW d \in Dicts, NEW k \in Keys, Pop(d, k)
    PROVE  IInv' /\ OM!Pop(d, k)
<1> DEFINE n == chain[d].size
           L == ListOf(d)
           s == State(d)
           t == Popped(s, k)
           p == Keep(Maps[d], Keys \ {k})
<1>1. Usable(d) /\ call' = <<"pop", d, k>>
  BY DEF Pop
<1>2. /\ Sound(s, L) /\ n \in Nat /\ Maps[d] = PairsIn(heap, L, n) /\ Maps[d] # Nil
      /\ Maps[d] \in Seq(Pair) /\ In(d) = OM!KeysOf(Maps[d])
  BY <1>1, UsableIs
<1>3. s.chain.size = n /\ s.heap = heap /\ s.table = table[d] /\ s.chain = chain[d]
  BY StateOf
<1>4. OM!Keep(Maps[d], Keys \ {k}) = p
  BY KeepIsKeep
<1>5. CASE ~Contains(table[d], k)
  <2>1. UNCHANGED <<table, chain, heap>>
    BY <1>5 DEF Pop
  <2>2. IInv' /\ Maps' = Maps
    BY <2>1, UnchangedStep
  <2>3. k \notin OM!KeysOf(Maps[d])
    BY <1>2, <1>5 DEF In
  <2> DEFINE m == Maps[d]
             K == Keys \ {k}
  <2>4. \A i \in 1 .. Len(m) : m[i].key \in K
    <3>1. \A i \in 1 .. Len(m) : m[i] \in Pair
      BY <1>2, ElementOfSeq
    <3>2. QED BY <3>1, <2>3 DEF OM!KeysOf, Pair
  <2> HIDE DEF m, K
  <2>5. Keep(m, K) = m
    BY <2>4, <1>2, KeepAll DEF m
  <2>6. p = Maps[d]
    BY <2>5 DEF m, K
  <2> HIDE DEF p
  <2>7. Maps' = [Maps EXCEPT ![d] = p]
    BY <2>2, <2>6, SameMap
  <2>8. OM!Pop(d, k)
    BY <2>7, <1>1, <1>2, <1>4, OMIs
  <2>9. QED BY <2>2, <2>8
<1>6. CASE Contains(table[d], k)
  <2>1. Become(d, t)
    BY <1>3, <1>6 DEF Pop, Popped, Node
  <2> HIDE DEF n, L, s
  <2>2. Yields(s.heap, L, n, t, Keep(PairsIn(s.heap, L, n), Keys \ {k}))
    <3>1. t = Popped(s, k)
      OBVIOUS
    <3> HIDE DEF t
    <3>2. QED BY <3>1, <1>2, <1>3, <1>6, PopYields
  <2>3. Yields(heap, ListOf(d), chain[d].size, t, p)
    BY <2>2, <1>2, <1>3 DEF n, L
  <2> HIDE DEF t, p
  <2>4. IInv' /\ Maps' = [Maps EXCEPT ![d] = p]
    BY <2>1, <2>3, Yielded
  <2>5. OM!Pop(d, k)
    BY <2>4, <1>1, <1>2, <1>4, OMIs
  <2>6. QED BY <2>4, <2>5
<1>7. QED BY <1>5, <1>6

(* A new dictionary with the list p takes the place of d.                  *)
LEMMA ReplaceStepIs ==
    ASSUME IInv, NEW d \in Dicts, NEW x \in Nat, NEW p \in Seq(Pair), Apart(p), Room(Len(p)),
           Replace(d, InsertAll(EmptyDict(x, heap), p))
    PROVE  IInv' /\ Maps' = [Maps EXCEPT ![d] = p]
<1> DEFINE c == chain[d]
           L == ListOf(d)
           n == c.size
           s == InsertAll(EmptyDict(x, heap), p)
           t == Freed(s, c)
<1>1. HeapOK(heap) /\ Linked(c, heap, L) /\ n \in Nat
  BY UsableIs
<1>2. Become(d, t)
  BY DEF Replace, Freed
<1>3. Cardinality(Free(heap)) >= Len(p)
  BY DEF Room
<1>4. Yields(heap, L, n, t, p)
  <2>1. s = InsertAll(EmptyDict(x, heap), p) /\ t = Freed(s, c) /\ n = c.size
    OBVIOUS
  <2> HIDE DEF s, t, n, L, c
  <2>2. QED BY <2>1, <1>1, <1>3, ReplaceYields
<1>5. Yields(heap, ListOf(d), chain[d].size, t, p)
  BY <1>4
<1> HIDE DEF t
<1>6. QED BY <1>2, <1>5, Yielded

LEMMA InsertNone == \A s : InsertAll(s, <<>>) = s
<1> SUFFICES ASSUME NEW s PROVE InsertAll(s, <<>>) = s
  OBVIOUS
<1> DEFINE done == CHOOSE w : Inserts(w, s, <<>>, 0)
<1>1. Len(<<>>) = 0
  OBVIOUS
<1>2. InsertAll(s, <<>>) = done[0]
  BY <1>1 DEF InsertAll, Inserts, InsertStep
<1>3. Inserts(done, s, <<>>, 0)
  BY InsertsExist
<1> HIDE DEF done
<1>4. done[0] = s
  BY <1>3 DEF Inserts
<1>5. QED BY <1>2, <1>4

LEMMA ClearStepIs ==
    ASSUME IInv, NEW d \in Dicts, Clear(d)
    PROVE  IInv' /\ OM!Clear(d)
<1> DEFINE s == EmptyDict(0, heap)
<1>1. Usable(d) /\ call' = <<"clear", d>>
      /\ Become(d, [table |-> ClearTable, chain |-> NoChain, heap |-> ChainClear(chain[d], heap)])
  BY DEF Clear
<1>2. s = [table |-> ClearTable, chain |-> NoChain, heap |-> heap]
  BY DEF EmptyDict, ClearTable
<1>3. InsertAll(s, <<>>) = s
  BY InsertNone
<1> HIDE DEF s
<1>4. s.heap = heap
      /\ [s EXCEPT !.heap = ChainClear(chain[d], s.heap)]
            = [table |-> ClearTable, chain |-> NoChain, heap |-> ChainClear(chain[d], heap)]
  BY <1>2
<1>5. Replace(d, s)
  BY <1>1, <1>4 DEF Replace
<1>6. Room(Len(<<>>))
  <2>1. IsFiniteSet(Free(heap))
    BY DictAssumption, FS_Subset DEF Free
  <2>2. Cardinality(Free(heap)) \in Nat /\ Len(<<>>) = 0
    BY <2>1, FS_CardinalityType
  <2>3. QED BY <2>2 DEF Room
<1>7. <<>> \in Seq(Pair) /\ Apart(<<>>)
  BY DEF Apart
<1>8. IInv' /\ Maps' = [Maps EXCEPT ![d] = <<>>]
  <2>1. Replace(d, InsertAll(EmptyDict(0, heap), <<>>))
    BY <1>3, <1>5 DEF s
  <2>2. QED BY <2>1, <1>6, <1>7, ReplaceStepIs
<1>9. Maps[d] # Nil
  BY <1>1, UsableIs
<1>10. QED BY <1>1, <1>8, <1>9, OMIs

LEMMA MeetStepIs ==
    ASSUME IInv, NEW d \in Dicts, NEW e \in Dicts, Meet(d, e)
    PROVE  IInv' /\ OM!Meet(d, e)
<1> DEFINE both == Keep(Items(d), In(e))
           x == Smaller(table[d].size, table[e].size)
<1>1. /\ d # e /\ Usable(d) /\ Usable(e) /\ Room(Len(both)) /\ call' = <<"meet", d, e>>
      /\ Replace(d, InsertAll(EmptyDict(x, heap), both))
  BY DEF Meet
<1>2. /\ Matches(table[d], chain[d], heap, ListOf(d))
      /\ Maps[d] # Nil /\ Maps[d] \in Seq(Pair) /\ Apart(Maps[d])
  BY <1>1, UsableIs
<1>3. /\ Matches(table[e], chain[e], heap, ListOf(e))
      /\ Maps[e] # Nil /\ In(e) = OM!KeysOf(Maps[e])
  BY <1>1, UsableIs
<1>4. x \in Nat
  BY <1>2, <1>3, SizeIs DEF Smaller
<1>5. Maps[d] = Items(d)
  BY <1>1, MapsAre
<1>6. both \in Seq(Pair) /\ Apart(both)
  BY <1>2, <1>5, KeepIs DEF KeptFrom
<1>7. both = OM!Keep(Maps[d], OM!KeysOf(Maps[e]))
  BY <1>3, <1>5, KeepIsKeep
<1> HIDE DEF both, x
<1>8. IInv' /\ Maps' = [Maps EXCEPT ![d] = both]
  BY <1>1, <1>4, <1>6, ReplaceStepIs
<1>9. QED BY <1>1, <1>2, <1>3, <1>7, <1>8, OMIs

(* The pairs of two lists that have no key in common.                      *)
LEMMA ApartConcat ==
    ASSUME NEW f \in Seq(Pair), NEW g \in Seq(Pair), Apart(f), Apart(g),
           \A i \in 1 .. Len(f), j \in 1 .. Len(g) : f[i].key # g[j].key
    PROVE  f \o g \in Seq(Pair) /\ Apart(f \o g)
<1> DEFINE m == Len(f)
           n == Len(g)
           r == f \o g
<1>1. m \in Nat /\ n \in Nat
  BY LenProperties
<1>2. /\ r \in Seq(Pair) /\ Len(r) = m + n
      /\ \A i \in 1 .. m + n : r[i] = IF i <= m THEN f[i] ELSE g[i - m]
  BY ConcatProperties
<1>3. /\ \A i, j \in 1 .. m : f[i].key = f[j].key => i = j
      /\ \A i, j \in 1 .. n : g[i].key = g[j].key => i = j
      /\ \A i \in 1 .. m, j \in 1 .. n : f[i].key # g[j].key
  BY DEF Apart
<1> HIDE DEF m, n, r
<1>4. ASSUME NEW i \in 1 .. m + n, NEW j \in 1 .. m + n, r[i].key = r[j].key PROVE i = j
  <2>1. CASE i <= m /\ j <= m
    <3>1. i \in 1 .. m /\ j \in 1 .. m /\ r[i] = f[i] /\ r[j] = f[j]
      BY <2>1, <1>1, <1>2
    <3>2. QED BY <3>1, <1>3, <1>4
  <2>2. CASE ~(i <= m) /\ ~(j <= m)
    <3>1. i - m \in 1 .. n /\ j - m \in 1 .. n /\ r[i] = g[i - m] /\ r[j] = g[j - m]
      BY <2>2, <1>1, <1>2
    <3>2. i - m = j - m
      BY <3>1, <1>3, <1>4
    <3>3. QED BY <3>2, <1>1
  <2>3. CASE i <= m /\ ~(j <= m)
    <3>1. i \in 1 .. m /\ j - m \in 1 .. n /\ r[i] = f[i] /\ r[j] = g[j - m]
      BY <2>3, <1>1, <1>2
    <3>2. QED BY <3>1, <1>3, <1>4
  <2>4. CASE ~(i <= m) /\ j <= m
    <3>1. j \in 1 .. m /\ i - m \in 1 .. n /\ r[j] = f[j] /\ r[i] = g[i - m]
      BY <2>4, <1>1, <1>2
    <3>2. QED BY <3>1, <1>3, <1>4
  <2>5. QED BY <2>1, <2>2, <2>3, <2>4
<1>5. Apart(r)
  BY <1>2, <1>4 DEF Apart
<1>6. QED BY <1>2, <1>5 DEF r

LEMMA DifferStepIs ==
    ASSUME IInv, NEW d \in Dicts, NEW e \in Dicts, Differ(d, e)
    PROVE  IInv' /\ OM!Differ(d, e)
<1> DEFINE f == Keep(Items(d), Keys \ In(e))
           g == Keep(Items(e), Keys \ In(d))
           either == f \o g
           x == table[d].size + table[e].size
<1>1. /\ d # e /\ Usable(d) /\ Usable(e) /\ Room(Len(either)) /\ call' = <<"differ", d, e>>
      /\ Replace(d, InsertAll(EmptyDict(x, heap), either))
  BY DEF Differ
<1>2. /\ Matches(table[d], chain[d], heap, ListOf(d)) /\ In(d) = OM!KeysOf(Maps[d])
      /\ Maps[d] # Nil /\ Maps[d] \in Seq(Pair) /\ Apart(Maps[d])
  BY <1>1, UsableIs
<1>3. /\ Matches(table[e], chain[e], heap, ListOf(e)) /\ In(e) = OM!KeysOf(Maps[e])
      /\ Maps[e] # Nil /\ Maps[e] \in Seq(Pair) /\ Apart(Maps[e])
  BY <1>1, UsableIs
<1>4. x \in Nat
  BY <1>2, <1>3, SizeIs
<1>5. Maps[d] = Items(d) /\ Maps[e] = Items(e)
  BY <1>1, MapsAre
<1>6. KeptFrom(f, Maps[d], Keys \ In(e), Len(Maps[d]))
  BY <1>2, <1>5, KeepIs
<1>7. KeptFrom(g, Maps[e], Keys \ In(d), Len(Maps[e]))
  BY <1>3, <1>5, KeepIs
<1>8. /\ f = OM!Keep(Maps[d], Keys \ OM!KeysOf(Maps[e]))
      /\ g = OM!Keep(Maps[e], Keys \ OM!KeysOf(Maps[d]))
  BY <1>2, <1>3, <1>5, KeepIsKeep
<1> HIDE DEF f, g, x
<1>9. \A i \in 1 .. Len(f), j \in 1 .. Len(g) : f[i].key # g[j].key
  <2>1. ASSUME NEW i \in 1 .. Len(f), NEW j \in 1 .. Len(g), f[i].key = g[j].key PROVE FALSE
    <3>1. PICK a \in 1 .. Len(Maps[d]) : f[i] = Maps[d][a]
      BY <1>6 DEF KeptFrom
    <3>2. PICK b \in 1 .. Len(Maps[e]) : g[j] = Maps[e][b] /\ Maps[e][b].key \in Keys \ In(d)
      BY <1>7 DEF KeptFrom
    <3>3. Maps[d][a].key \in OM!KeysOf(Maps[d])
      BY DEF OM!KeysOf
    <3>4. QED BY <2>1, <3>1, <3>2, <3>3, <1>2
  <2>2. QED BY <2>1
<1>10. f \in Seq(Pair) /\ Apart(f) /\ g \in Seq(Pair) /\ Apart(g)
  BY <1>6, <1>7 DEF KeptFrom
<1>11. either \in Seq(Pair) /\ Apart(either)
  BY <1>9, <1>10, ApartConcat
<1>12. either = f \o g
  OBVIOUS
<1> HIDE DEF either
<1>13. IInv' /\ Maps' = [Maps EXCEPT ![d] = either]
  BY <1>1, <1>4, <1>11, ReplaceStepIs
<1>14. QED BY <1>1, <1>2, <1>3, <1>8, <1>12, <1>13, OMIs

LEMMA MoveStepIs ==
    ASSUME IInv, NEW d \in Dicts, NEW e \in Dicts, MoveAssign(d, e)
    PROVE  IInv' /\ OM!Take(d, e)
<1> DEFINE lists == [f \in Dicts |-> ListOf(f)]
           own(f) == Own(lists[f], chain[f].size)
           new == ChainClear(chain[d], heap)
           tb == table'
           ch == chain'
           ls == [f \in Dicts |-> IF f = d THEN lists[e] ELSE IF f = e THEN <<>> ELSE lists[f]]
           ownNew(f) == Own(ls[f], ch[f].size)
<1>1. Consistent(table, chain, heap, lists)
  BY DEF IInv
<1>2. /\ d # e /\ Usable(e) /\ heap' = new /\ call' = <<"take", d, e>>
      /\ tb = [table EXCEPT ![d] = table[e], ![e] = NoTable]
      /\ ch = [chain EXCEPT ![d] = chain[e], ![e] = NoChain]
  BY DEF MoveAssign
<1>3. Maps[e] # Nil
  BY <1>2, UsableIs
<1> HIDE DEF lists, new, tb, ch
<1>4. /\ table = [f \in Dicts |-> table[f]] /\ chain = [f \in Dicts |-> chain[f]]
      /\ HeapOK(heap)
      /\ \A f \in Dicts : Linked(chain[f], heap, lists[f])
      /\ \A f \in Dicts : \/ table[f] = NoTable /\ chain[f] = NoChain
                          \/ Matches(table[f], chain[f], heap, lists[f])
      /\ \A f, g \in Dicts : f # g => own(f) \cap own(g) = {}
      /\ \A a \in NodeAddrs : heap[a] # Nil => \E f \in Dicts : a \in own(f)
  BY <1>1 DEF Consistent
<1>5. /\ tb = [f \in Dicts |-> tb[f]] /\ ch = [f \in Dicts |-> ch[f]]
      /\ tb[d] = table[e] /\ ch[d] = chain[e] /\ tb[e] = NoTable /\ ch[e] = NoChain
      /\ \A f \in Dicts : f # d /\ f # e => tb[f] = table[f] /\ ch[f] = chain[f]
  BY <1>2, <1>4
<1>6. /\ ls[d] = lists[e] /\ ls[e] = <<>>
      /\ \A f \in Dicts : f # d /\ f # e => ls[f] = lists[f]
  BY <1>2
<1> HIDE DEF ls
<1>7. /\ ownNew(d) = own(e) /\ ownNew(e) = {}
      /\ \A f \in Dicts : f # d /\ f # e => ownNew(f) = own(f)
  <2>1. ownNew(e) = {}
    BY <1>5, <1>6, NoNodes
  <2>2. QED BY <2>1, <1>5, <1>6
<1>8. /\ HeapOK(new)
      /\ \A b \in NodeAddrs : new[b] = IF b \in own(d) THEN Nil ELSE heap[b]
  <2>1. HeapOK(heap) /\ Linked(chain[d], heap, lists[d])
    BY <1>4
  <2>2. QED BY <2>1, ClearIs DEF new
<1>9. ASSUME NEW f \in Dicts, f # d
      PROVE  \A i \in 1 .. chain[f].size : new[lists[f][i]] = heap[lists[f][i]]
  <2>1. ASSUME NEW i \in 1 .. chain[f].size PROVE new[lists[f][i]] = heap[lists[f][i]]
    <3>1. lists[f][i] \in own(f) /\ lists[f][i] \in NodeAddrs
      BY <1>4 DEF Own, Linked
    <3>2. lists[f][i] \notin own(d)
      BY <3>1, <1>4, <1>9
    <3>3. QED BY <3>1, <3>2, <1>8
  <2>2. QED BY <2>1
<1>10. ASSUME NEW f \in Dicts, f # d
       PROVE  /\ Linked(chain[f], new, lists[f])
              /\ Matches(table[f], chain[f], heap, lists[f])
                    => Matches(table[f], chain[f], new, lists[f])
  <2>1. Linked(chain[f], heap, lists[f])
    BY <1>4
  <2>2. Linked(chain[f], new, lists[f])
    BY <2>1, <1>9, <1>10, LinkedFrame
  <2>3. ASSUME Matches(table[f], chain[f], heap, lists[f])
        PROVE  Matches(table[f], chain[f], new, lists[f])
    BY <2>3, <1>9, <1>10, MatchesFrame
  <2>4. QED BY <2>2, <2>3
<1>11. \A f \in Dicts : Linked(ch[f], new, ls[f])
  <2>1. ASSUME NEW f \in Dicts PROVE Linked(ch[f], new, ls[f])
    <3>1. CASE f = d
      BY <3>1, <1>2, <1>5, <1>6, <1>10
    <3>2. CASE f = e
      BY <3>2, <1>5, <1>6, NoNodes
    <3>3. CASE f # d /\ f # e
      BY <3>3, <1>5, <1>6, <1>10
    <3>4. QED BY <3>1, <3>2, <3>3
  <2>2. QED BY <2>1
<1>12. \A f \in Dicts : \/ tb[f] = NoTable /\ ch[f] = NoChain
                        \/ Matches(tb[f], ch[f], new, ls[f])
  <2>1. ASSUME NEW f \in Dicts
        PROVE  \/ tb[f] = NoTable /\ ch[f] = NoChain
               \/ Matches(tb[f], ch[f], new, ls[f])
    <3>1. CASE f = d
      <4>1. \/ table[e] = NoTable /\ chain[e] = NoChain
            \/ Matches(table[e], chain[e], new, lists[e])
        BY <1>2, <1>4, <1>10
      <4>2. QED BY <4>1, <3>1, <1>5, <1>6
    <3>2. CASE f = e
      BY <3>2, <1>5
    <3>3. CASE f # d /\ f # e
      <4>1. \/ table[f] = NoTable /\ chain[f] = NoChain
            \/ Matches(table[f], chain[f], new, lists[f])
        BY <3>3, <1>4, <1>10
      <4>2. QED BY <4>1, <3>3, <1>5, <1>6
    <3>4. QED BY <3>1, <3>2, <3>3
  <2>2. QED BY <2>1
<1>13. \A f, g \in Dicts : f # g => ownNew(f) \cap ownNew(g) = {}
  <2> HIDE DEF own, ownNew
  <2>1. ASSUME NEW f \in Dicts, NEW g \in Dicts, f # g PROVE ownNew(f) \cap ownNew(g) = {}
    <3>1. CASE f = e \/ g = e
      BY <3>1, <1>7
    <3>2. CASE f # e /\ g # e
      <4>1. CASE f = d
        BY <2>1, <3>2, <4>1, <1>4, <1>7
      <4>2. CASE g = d
        BY <2>1, <3>2, <4>2, <1>4, <1>7
      <4>3. CASE f # d /\ g # d
        BY <2>1, <3>2, <4>3, <1>4, <1>7
      <4>4. QED BY <4>1, <4>2, <4>3
    <3>3. QED BY <3>1, <3>2
  <2>2. QED BY <2>1
<1>14. \A a \in NodeAddrs : new[a] # Nil => \E f \in Dicts : a \in ownNew(f)
  <2> HIDE DEF own, ownNew
  <2>1. ASSUME NEW a \in NodeAddrs, new[a] # Nil PROVE \E f \in Dicts : a \in ownNew(f)
    <3>1. a \notin own(d) /\ heap[a] # Nil
      BY <2>1, <1>8
    <3>2. PICK f \in Dicts : a \in own(f)
      BY <3>1, <1>4
    <3>3. CASE f = e
      BY <3>2, <3>3, <1>7
    <3>4. CASE f # e
      BY <3>1, <3>2, <3>4, <1>7
    <3>5. QED BY <3>3, <3>4
  <2>2. QED BY <2>1
<1>15. Consistent(tb, ch, new, ls)
  BY <1>5, <1>8, <1>11, <1>12, <1>13, <1>14 DEF Consistent
<1> DEFINE followed == [f \in Dicts |-> Nodes(ch[f], new)]
<1>16. Consistent(tb, ch, new, followed)
  BY <1>15, FollowedLists
<1>17. IInv'
  <2>1. [f \in Dicts |-> ListOf(f)]' = followed
    BY <1>2 DEF ListOf, ch
  <2> HIDE DEF followed
  <2>2. QED BY <2>1, <1>2, <1>16 DEF IInv, tb, ch
<1>18. /\ \A f \in Dicts : Nodes(ch[f], new) = ls[f]
       /\ \A f \in Dicts : Nodes(chain[f], heap) = lists[f]
  BY <1>4, <1>11, NodesIs
<1>19. Maps' = [f \in Dicts |-> IF tb[f] # NoTable THEN PairsIn(new, Nodes(ch[f], new), ch[f].size)
                                ELSE Nil]
  BY <1>2 DEF Maps, MapsOf, tb, ch
<1>20. \A f \in Dicts : f # d =>
           PairsIn(new, lists[f], chain[f].size) = PairsIn(heap, lists[f], chain[f].size)
  BY <1>9 DEF PairsIn
<1>21. \A f \in Dicts : Maps[f] = IF table[f] # NoTable
                                  THEN PairsIn(heap, lists[f], chain[f].size) ELSE Nil
  BY <1>18 DEF Maps, MapsOf
<1>22. \A f \in Dicts : Maps'[f] = IF f = e THEN Nil ELSE IF f = d THEN Maps[e] ELSE Maps[f]
  <2>1. ASSUME NEW f \in Dicts
        PROVE  Maps'[f] = IF f = e THEN Nil ELSE IF f = d THEN Maps[e] ELSE Maps[f]
    <3>1. Maps'[f] = IF tb[f] # NoTable THEN PairsIn(new, ls[f], ch[f].size) ELSE Nil
      BY <1>18, <1>19
    <3>2. CASE f = e
      BY <3>1, <3>2, <1>5
    <3>3. CASE f = d
      <4>1. Maps'[f] = IF table[e] # NoTable THEN PairsIn(new, lists[e], chain[e].size) ELSE Nil
        BY <3>1, <3>3, <1>5, <1>6
      <4>2. QED BY <4>1, <3>3, <1>2, <1>20, <1>21
    <3>4. CASE f # d /\ f # e
      <4>1. Maps'[f] = IF table[f] # NoTable THEN PairsIn(new, lists[f], chain[f].size) ELSE Nil
        BY <3>1, <3>4, <1>5, <1>6
      <4>2. QED BY <4>1, <3>4, <1>20, <1>21
    <3>5. QED BY <3>2, <3>3, <3>4
  <2>2. QED BY <2>1
<1>23. Maps' = [Maps EXCEPT ![d] = Maps[e], ![e] = Nil]
  <2>1. Maps = [f \in Dicts |-> Maps[f]] /\ Maps' = [f \in Dicts |-> Maps'[f]]
    BY DEF Maps, MapsOf
  <2>2. QED BY <2>1, <1>2, <1>22
<1>24. OM!Take(d, e)
  BY <1>2, <1>3, <1>23, OMIs
<1>25. QED BY <1>17, <1>24

-----------------------------------------------------------------------------
(* The inductive invariant.                                                *)

LEMMA InitIs == Init => IInv /\ OM!Init
<1> SUFFICES ASSUME Init PROVE IInv /\ OM!Init
  OBVIOUS
<1>1. /\ table = [d \in Dicts |-> NewTable(0)] /\ chain = [d \in Dicts |-> NoChain]
      /\ heap = [a \in NodeAddrs |-> Nil] /\ call = <<>>
  BY DEF Init
<1> DEFINE ls == [d \in Dicts |-> <<>>]
           t == NewTable(0)
<1>2. TableOK(t, Hashes, Refs) /\ TablePairs(t) = {} /\ t.size = 0
  <2>1. t = NewTable(0)
    OBVIOUS
  <2> HIDE DEF t
  <2>2. QED BY <2>1, DomainsAre, NewTableIs
<1> HIDE DEF t
<1>3. \A d \in Dicts : table[d] = t /\ chain[d] = NoChain /\ ls[d] = <<>>
  BY <1>1 DEF t
<1>4. Linked(NoChain, heap, <<>>) /\ NoChain.size = 0 /\ Own(<<>>, 0) = {}
  BY NoNodes
<1>5. Matches(t, NoChain, heap, <<>>)
  BY <1>2, <1>4 DEF Matches
<1>6. HeapOK(heap) /\ \A a \in NodeAddrs : heap[a] = Nil
  BY <1>1 DEF HeapOK
<1>7. table = [d \in Dicts |-> table[d]] /\ chain = [d \in Dicts |-> chain[d]]
  BY <1>1
<1> HIDE DEF ls
<1>8. Consistent(table, chain, heap, ls)
  BY <1>3, <1>4, <1>5, <1>6, <1>7 DEF Consistent
<1>9. IInv
  <2> DEFINE followed == [d \in Dicts |-> Nodes(chain[d], heap)]
  <2>1. Consistent(table, chain, heap, followed)
    BY <1>8, FollowedLists
  <2>2. [d \in Dicts |-> ListOf(d)] = followed
    BY DEF ListOf
  <2> HIDE DEF followed
  <2>3. QED BY <2>1, <2>2 DEF IInv
<1>10. \A d \in Dicts : Usable(d) /\ Items(d) = <<>>
  <2>1. ASSUME NEW d \in Dicts PROVE Usable(d) /\ Items(d) = <<>>
    <3>1. table[d] # NoTable
      BY <1>3, <1>5, MatchesIsNoMoved
    <3>2. chain[d].size = 0
      BY <1>3, <1>4
    <3>3. QED BY <3>1, <3>2 DEF Usable, Items
  <2>2. QED BY <2>1
<1>11. OM!Init
  BY <1>1, <1>10 DEF OM!Init
<1>12. QED BY <1>9, <1>11

LEMMA NextIs == IInv /\ Next => IInv' /\ OM!Next
<1> SUFFICES ASSUME IInv, Next PROVE IInv' /\ OM!Next
  OBVIOUS
<1>1. ASSUME NEW d \in Dicts, NEW k \in Keys, NEW v \in Values, Insert(d, k, v)
      PROVE  IInv' /\ OM!Next
  <2>1. IInv' /\ OM!Insert(d, k, v)
    BY <1>1, InsertStepIs
  <2>2. QED BY <2>1 DEF OM!Next
<1>2. ASSUME NEW d \in Dicts, NEW k \in Keys, NEW v \in Values, SetDefault(d, k, v)
      PROVE  IInv' /\ OM!Next
  <2>1. IInv' /\ OM!SetDefault(d, k, v)
    BY <1>2, SetDefaultStepIs
  <2>2. QED BY <2>1 DEF OM!Next
<1>3. ASSUME NEW d \in Dicts, NEW k \in Keys, Pop(d, k) PROVE IInv' /\ OM!Next
  <2>1. IInv' /\ OM!Pop(d, k)
    BY <1>3, PopStepIs
  <2>2. QED BY <2>1 DEF OM!Next
<1>4. ASSUME NEW d \in Dicts, Clear(d) PROVE IInv' /\ OM!Next
  <2>1. IInv' /\ OM!Clear(d)
    BY <1>4, ClearStepIs
  <2>2. QED BY <2>1 DEF OM!Next
<1>5. ASSUME NEW d \in Dicts, NEW e \in Dicts, MoveAssign(d, e) PROVE IInv' /\ OM!Next
  <2>1. IInv' /\ OM!Take(d, e)
    BY <1>5, MoveStepIs
  <2>2. QED BY <2>1 DEF OM!Next
<1>6. ASSUME NEW d \in Dicts, NEW e \in Dicts, Meet(d, e) PROVE IInv' /\ OM!Next
  <2>1. IInv' /\ OM!Meet(d, e)
    BY <1>6, MeetStepIs
  <2>2. QED BY <2>1 DEF OM!Next
<1>7. ASSUME NEW d \in Dicts, NEW e \in Dicts, Differ(d, e) PROVE IInv' /\ OM!Next
  <2>1. IInv' /\ OM!Differ(d, e)
    BY <1>7, DifferStepIs
  <2>2. QED BY <2>1 DEF OM!Next
<1>8. QED
  BY <1>1, <1>2, <1>3, <1>4, <1>5, <1>6, <1>7 DEF Next, Change, Combine

(* The invariant holds in every state: a dictionary has a table for        *)
(* exactly its own nodes or was moved from, no node has two owners and     *)
(* none is lost (Table.hpp, Chain.hpp and Dict.hpp together).              *)
THEOREM DictInvariant == Spec => []IInv
<1>1. Init => IInv
  BY InitIs
<1>2. IInv /\ [Next]_vars => IInv'
  <2>1. IInv /\ Next => IInv'
    BY NextIs
  <2>2. IInv /\ UNCHANGED vars => IInv'
    BY UnchangedStep DEF vars
  <2>3. QED BY <2>1, <2>2
<1>3. QED BY <1>1, <1>2, PTL DEF Spec

(* Every operation is the operation of an ordered map: whatever was        *)
(* inserted, removed, moved, met or differed before, rehashes included, a  *)
(* dictionary has the pairs of the map it stands for, in its order.        *)
THEOREM DictIsOrderedMap == Spec => ImplementsOrderedMap
<1>1. Init => OM!Init
  BY InitIs
<1>2. IInv /\ [Next]_vars => [OM!Next]_<<[d \in Dicts |-> IF Usable(d) THEN Items(d) ELSE Nil], call>>
  <2>1. IInv /\ Next => OM!Next
    BY NextIs
  <2>2. IInv /\ UNCHANGED vars
            => UNCHANGED <<[d \in Dicts |-> IF Usable(d) THEN Items(d) ELSE Nil], call>>
    BY UnchangedStep, MapsAre DEF vars
  <2>3. QED BY <2>1, <2>2
<1>3. QED BY <1>1, <1>2, DictInvariant, PTL DEF Spec, ImplementsOrderedMap, OM!Spec

-----------------------------------------------------------------------------
(* What follows from it.                                                   *)

LEMMA LiveIs ==
    ASSUME IInv, NEW d \in Live
    PROVE  /\ d \in Dicts /\ Usable(d) /\ TableOK(table[d], Hashes, Refs)
           /\ table[d].cap \in Nat /\ table[d].cap > 1
           /\ Ordered(table[d].items, table[d].cap, Hashes, Refs)
           /\ \E f \in 0 .. table[d].cap - 1 : ~Used(table[d].items[f])
<1>1. d \in Dicts /\ Usable(d)
  BY DEF Live
<1>2. TableOK(table[d], Hashes, Refs)
  BY <1>1, UsableIs DEF Matches
<1>3. QED BY <1>1, <1>2, DomainsAre, TableIs DEF Searchable

LEMMA ProbesAre == IInv => ProbesComplete
<1> SUFFICES ASSUME IInv, NEW d \in Live
             PROVE  LET t == table[d]
                        used == {j \in 0 .. t.cap - 1 : Used(t.items[j])}
                    IN  /\ \A j \in used : (Home(t.cap, t.items[j].hash) + t.items[j].dist) % t.cap = j
                        /\ \A j \in 0 .. t.cap - 1 :
                              t.items[NextIndex(t.cap, j)].dist <= t.items[j].dist + 1
                        /\ t.size = Cardinality(used)
                        /\ t.size < Threshold(t.cap)
  BY DEF ProbesComplete
<1>1. TableOK(table[d], Hashes, Refs) /\ Ordered(table[d].items, table[d].cap, Hashes, Refs)
  BY LiveIs
<1>2. QED BY <1>1 DEF TableOK, Ordered, UsedIn, Seat

LEMMA TypesAre == IInv => TypeOK
<1> SUFFICES ASSUME IInv PROVE TypeOK
  OBVIOUS
<1>1. ASSUME NEW d \in Live
      PROVE  /\ \E n \in 2 .. table[d].cap : table[d].cap = Pow2[n]
             /\ table[d].cap >= MinCapacity
             /\ table[d].items \in [0 .. table[d].cap - 1 ->
                   [dist : -1 .. table[d].cap, hash : Keys \cup {0}, node : NodeAddrs \cup {Nil}]]
  <2> DEFINE t == table[d]
             c == t.cap
             items == t.items
  <2>1. /\ TableOK(t, Hashes, Refs) /\ c \in Nat /\ c > 1 /\ c > 0
        /\ Ordered(items, c, Hashes, Refs) /\ \E f \in 0 .. c - 1 : ~Used(items[f])
    BY LiveIs
  <2>2. (\E m \in Nat : m >= 2 /\ c = Pow2[m]) /\ c >= MinCapacity
    BY <2>1 DEF TableOK
  <2> HIDE DEF t, c, items
  <2>3. PICK m \in Nat : m >= 2 /\ c = Pow2[m]
    BY <2>2
  <2>4. m \in 2 .. c
    BY <2>1, <2>3, Pow2Steps
  <2>5. items \in [0 .. c - 1 -> Item(Hashes, Refs)]
    BY <2>1 DEF Ordered
  <2>6. PICK f \in 0 .. c - 1 : ~Used(items[f])
    BY <2>1
  <2>7. ASSUME NEW j \in 0 .. c - 1
        PROVE  items[j] \in [dist : -1 .. c, hash : Keys \cup {0}, node : NodeAddrs \cup {Nil}]
    <3>1. items[j].dist <= c - 2
      BY <2>1, <2>6, NoRound
    <3>2. items[j] \in Item(Hashes, Refs) /\ items[j].dist \in Int /\ items[j].dist >= -1
      BY <2>1, <2>5, ItemAt
    <3>3. items[j].dist \in -1 .. c
      BY <2>1, <3>1, <3>2
    <3>4. QED BY <3>2, <3>3 DEF Item, Hashes, Refs
  <2>8. items \in [0 .. c - 1 ->
                     [dist : -1 .. c, hash : Keys \cup {0}, node : NodeAddrs \cup {Nil}]]
    BY <2>5, <2>7
  <2>9. QED BY <2>2, <2>3, <2>4, <2>8 DEF t, c, items
<1>2. HeapOK(heap) /\ chain = [d \in Dicts |-> chain[d]]
  BY DEF IInv, Consistent
<1>3. ASSUME NEW d \in Dicts
      PROVE  chain[d] \in [head : NodeAddrs \cup {Nil}, tail : NodeAddrs \cup {Nil}, size : Nat]
  <2> DEFINE c == chain[d]
             L == ListOf(d)
  <2>1. Linked(c, heap, L)
    BY UsableIs
  <2> HIDE DEF c, L
  <2>2. /\ c = [head |-> c.head, tail |-> c.tail, size |-> c.size] /\ c.size \in Nat
        /\ L \in [1 .. c.size -> NodeAddrs]
        /\ c.head = At(L, c.size, 1) /\ c.tail = At(L, c.size, c.size)
    BY <2>1 DEF Linked
  <2>3. c.head \in NodeAddrs \cup {Nil} /\ c.tail \in NodeAddrs \cup {Nil}
    BY <2>2 DEF At
  <2>4. c \in [head : NodeAddrs \cup {Nil}, tail : NodeAddrs \cup {Nil}, size : Nat]
    BY <2>2, <2>3
  <2>5. QED BY <2>4 DEF c
<1>4. chain \in [Dicts -> [head : NodeAddrs \cup {Nil}, tail : NodeAddrs \cup {Nil}, size : Nat]]
  BY <1>2, <1>3
<1>5. heap \in [NodeAddrs -> {Nil} \cup Entry]
  BY <1>2 DEF HeapOK
<1>6. QED BY <1>1, <1>4, <1>5 DEF TypeOK, Entry

LEMMA ChainsAre == IInv => ChainLinked
<1> SUFFICES ASSUME IInv, NEW d \in Dicts
             PROVE  LET c == chain[d]
                    IN  /\ c.size = 0 => c = NoChain
                        /\ c.size > 0 =>
                              /\ heap[c.head].prev = Nil /\ heap[c.tail].next = Nil
                              /\ ListOf(d)[c.size] = c.tail
                              /\ \A i \in 1 .. c.size - 1 :
                                    heap[ListOf(d)[i + 1]].prev = ListOf(d)[i]
  BY DEF ChainLinked
<1> DEFINE c == chain[d]
           L == ListOf(d)
           n == c.size
<1>1. Linked(c, heap, L)
  BY UsableIs
<1> HIDE DEF c, L
<1>2. /\ c = [head |-> c.head, tail |-> c.tail, size |-> n] /\ n \in Nat
      /\ c.head = At(L, n, 1) /\ c.tail = At(L, n, n)
      /\ \A i \in 1 .. n : heap[L[i]].prev = At(L, n, i - 1)
      /\ \A i \in 1 .. n : heap[L[i]].next = At(L, n, i + 1)
  BY <1>1 DEF Linked
<1> HIDE DEF n
<1>3. ASSUME n = 0 PROVE c = NoChain
  <2>1. c.head = Nil /\ c.tail = Nil
    BY <1>2, <1>3 DEF At
  <2>2. QED BY <2>1, <1>2, <1>3 DEF NoChain
<1>4. ASSUME n > 0
      PROVE  /\ heap[c.head].prev = Nil /\ heap[c.tail].next = Nil /\ L[n] = c.tail
             /\ \A i \in 1 .. n - 1 : heap[L[i + 1]].prev = L[i]
  <2>1. 1 \in 1 .. n /\ n \in 1 .. n
    BY <1>2, <1>4
  <2>2. c.head = L[1] /\ c.tail = L[n]
    BY <2>1, <1>2 DEF At
  <2>3. At(L, n, 1 - 1) = Nil /\ At(L, n, n + 1) = Nil
    BY <1>2 DEF At
  <2>4. heap[L[1]].prev = Nil /\ heap[L[n]].next = Nil
    BY <2>1, <2>3, <1>2
  <2>5. ASSUME NEW i \in 1 .. n - 1 PROVE heap[L[i + 1]].prev = L[i]
    <3>1. i + 1 \in 1 .. n /\ (i + 1) - 1 = i /\ i \in 1 .. n
      BY <1>2
    <3>2. heap[L[i + 1]].prev = At(L, n, i)
      BY <3>1, <1>2
    <3>3. QED BY <3>1, <3>2 DEF At
  <2>6. QED BY <2>2, <2>4, <2>5
<1>5. QED BY <1>3, <1>4 DEF n, c, L

LEMMA OneOwner ==
    ASSUME IInv, NEW a \in NodeAddrs, heap[a] # Nil
    PROVE  Cardinality({p \in UNION {{d} \X (1 .. chain[d].size) : d \in Dicts} :
                           ListOf(p[1])[p[2]] = a}) = 1
<1> DEFINE lists == [d \in Dicts |-> ListOf(d)]
           places == {p \in UNION {{d} \X (1 .. chain[d].size) : d \in Dicts} :
                         ListOf(p[1])[p[2]] = a}
<1>1. Consistent(table, chain, heap, lists)
  BY DEF IInv
<1>2. \A d \in Dicts : lists[d] = ListOf(d)
  OBVIOUS
<1> HIDE DEF lists
<1>3. /\ \A d \in Dicts : Linked(chain[d], heap, lists[d])
      /\ \A d, e \in Dicts : d # e =>
             Own(lists[d], chain[d].size) \cap Own(lists[e], chain[e].size) = {}
      /\ \E d \in Dicts : a \in Own(lists[d], chain[d].size)
  BY <1>1 DEF Consistent
<1>4. PICK d \in Dicts : a \in Own(lists[d], chain[d].size)
  BY <1>3
<1>4a. PICK i \in 1 .. chain[d].size : a = lists[d][i]
  BY <1>4 DEF Own
<1>5. <<d, i>> \in places
  BY <1>2, <1>4a
<1>6. ASSUME NEW p \in places PROVE p = <<d, i>>
  <2>1. PICK e \in Dicts : p \in {e} \X (1 .. chain[e].size)
    OBVIOUS
  <2>1a. PICK j \in 1 .. chain[e].size : p = <<e, j>>
    BY <2>1
  <2>2. lists[e][j] = a
    BY <2>1a, <1>2
  <2>3. a \in Own(lists[e], chain[e].size)
    BY <2>2, <2>1a DEF Own
  <2>4. e = d
    BY <2>3, <1>3, <1>4
  <2>5. j = i
    <3>1. \A u, v \in 1 .. chain[d].size : lists[d][u] = lists[d][v] => u = v
      BY <1>3, <1>4 DEF Linked
    <3>2. j \in 1 .. chain[d].size /\ lists[d][j] = lists[d][i]
      BY <2>1a, <2>2, <2>4, <1>4a
    <3>3. QED BY <3>1, <3>2, <1>4a
  <2>6. QED BY <2>1a, <2>4, <2>5
<1>7. places = {<<d, i>>}
  BY <1>5, <1>6
<1> HIDE DEF places
<1>8. Cardinality(places) = 1
  BY <1>7, FS_Singleton
<1>9. QED BY <1>8 DEF places

LEMMA TablesMatch == IInv => TableMatchesChain
<1> SUFFICES ASSUME IInv PROVE TableMatchesChain
  OBVIOUS
<1>1. TypeOK /\ ChainLinked
  BY TypesAre, ChainsAre
<1>2. ASSUME NEW d \in Live
      PROVE  LET used == {j \in DOMAIN table[d].items : Used(table[d].items[j])}
             IN  /\ table[d].size = chain[d].size
                 /\ {<<table[d].items[j].hash, table[d].items[j].node>> : j \in used}
                      = {<<heap[ListOf(d)[i]].key, ListOf(d)[i]>> : i \in 1 .. chain[d].size}
  <2>1. Matches(table[d], chain[d], heap, ListOf(d))
    BY LiveIs, UsableIs
  <2>2. Ordered(table[d].items, table[d].cap, Hashes, Refs)
    BY LiveIs
  <2>3. DOMAIN table[d].items = 0 .. table[d].cap - 1
    BY <2>2 DEF Ordered
  <2>4. {j \in DOMAIN table[d].items : Used(table[d].items[j])}
          = UsedIn(table[d].items, table[d].cap)
    BY <2>3 DEF UsedIn
  <2>5. QED BY <2>1, <2>4 DEF Matches, TablePairs, PairsOf
<1>3. \A a \in NodeAddrs : heap[a] # Nil =>
          Cardinality({p \in UNION {{d} \X (1 .. chain[d].size) : d \in Dicts} :
                          ListOf(p[1])[p[2]] = a}) = 1
  BY OneOwner
<1>4. QED BY <1>1, <1>2, <1>3 DEF TableMatchesChain

LEMMA GetsAgree == IInv => GetAgreesWithItems
<1> SUFFICES ASSUME IInv, NEW d \in Live, NEW k \in Keys
             PROVE  LET mine == {i \in 1 .. chain[d].size : Items(d)[i].key = k}
                    IN  Get(State(d), k) = IF mine = {} THEN Missing
                                           ELSE Items(d)[CHOOSE i \in mine : TRUE].val
  BY DEF GetAgreesWithItems
<1> DEFINE n == chain[d].size
           L == ListOf(d)
           s == State(d)
           p == Items(d)
           mine == {i \in 1 .. n : p[i].key = k}
           m == CHOOSE i \in mine : TRUE
<1>1. /\ d \in Dicts /\ Usable(d)
  BY DEF Live
<1>2. /\ HeapOK(heap) /\ Linked(chain[d], heap, L) /\ n \in Nat
      /\ Matches(table[d], chain[d], heap, L)
  BY <1>1, UsableIs
<1>3. p = PairsIn(heap, L, n)
  BY DEF Items, PairsIn, ListOf
<1>4. s.table = table[d] /\ s.heap = heap
  BY StateOf
<1> HIDE DEF n, L, s, p
<1>5. \A i \in 1 .. n : p[i].key = heap[L[i]].key /\ p[i].val = heap[L[i]].val
  BY <1>3 DEF PairsIn
<1>6. /\ Contains(table[d], k) <=> \E i \in 1 .. n : heap[L[i]].key = k
      /\ \A i \in 1 .. n : heap[L[i]].key = k =>
             table[d].items[TryGet(table[d], k).index].node = L[i]
  BY <1>2, MatchFinds DEF n
<1>7. CASE mine = {}
  <2>1. ~Contains(s.table, k)
    BY <1>4, <1>5, <1>6, <1>7
  <2>2. Get(s, k) = Missing
    BY <2>1 DEF Get
  <2>3. QED BY <2>2, <1>7 DEF s, n, p
<1>8. CASE mine # {}
  <2>1. m \in 1 .. n /\ p[m].key = k
    BY <1>8
  <2>2. Get(s, k) = p[m].val
    <3> HIDE DEF m
    <3>1. heap[L[m]].key = k
      BY <2>1, <1>5
    <3>2. Contains(s.table, k) /\ Node(s, k) = L[m]
      BY <2>1, <3>1, <1>4, <1>6 DEF Node
    <3>3. heap[L[m]] # Nil
      BY <2>1, <1>2 DEF Linked, n
    <3>4. QED BY <2>1, <3>2, <3>3, <1>4, <1>5 DEF Get
  <2>3. QED BY <2>2, <1>8 DEF s, n, p
<1>9. QED BY <1>7, <1>8

(* A search that stops early misses nothing, and every search stops: every *)
(* item is where its distance says, in the order of Robin Hood, and a      *)
(* place is left unused, after every insert, pop and rehash (Table.hpp).   *)
THEOREM ProbesAreComplete == Spec => []ProbesComplete
  BY DictInvariant, ProbesAre, PTL

(* htable_ refers to the nodes of kv_chain_, each under the hash of its    *)
(* key, and to no other node; every node of the heap is in one chain.      *)
THEOREM TablesMatchChains == Spec => []TableMatchesChain
  BY DictInvariant, TablesMatch, PTL

(* get() and iteration agree on every key, however the dictionary came     *)
(* about, as long as none was copied.                                      *)
THEOREM GetsAgreeWithItems == Spec => []GetAgreesWithItems
  BY DictInvariant, GetsAgree, PTL
=============================================================================
