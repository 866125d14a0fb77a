--------------------------- MODULE EventLoopProofs ---------------------------
(***************************************************************************)
(* What the event loop keeps, for any number of coroutines, timers,        *)
(* messages and addresses, whatever each coroutine does and whatever       *)
(* address the allocator gives to a read.                                  *)
(*                                                                         *)
(* The argument is about the handles that the loop still has to resume.    *)
(* One that epoll has never reported in error is in ready once, and        *)
(* something is suspended under it; whatever is suspended is in ready, has *)
(* a timer, or has a socket that is registered.                            *)
(***************************************************************************)
EXTENDS EventLoop, FiniteSetTheorems, SequenceTheorems, TLAPS

(* The places of ready that the loop has still to resume: while a          *)
(* coroutine runs, the first holds its own handle.                         *)
Pending == {i \in 1 .. Len(ready) : running # Nil => i # 1}

Queued(h) == \E i \in Pending : ready[i] = h

HasTimer(c) == \E i \in 1 .. Len(timers) : timers[i].coro = c

(* Where the loop and the coroutines are, and whose frames are whose.      *)
Places ==
    /\ \A c \in Coros : at[c] \in {"run", "eagain"} <=> running = c
    /\ running # Nil => /\ loop = "drain" /\ ready # <<>>
                        /\ ready[1] \in Coros => ready[1] = running
    /\ loop \in {"wait", "exit"} => ready = <<>>
    /\ loop = "exit" => timers = <<>> /\ Watched = {}
    /\ \A c \in Coros : at[c] \in {"eagain", "read"} <=> frame[c] # Nil
    /\ \A c, d \in Coros : frame[c] = frame[d] /\ frame[c] # Nil => c = d

(* Each handle to be resumed, unless it was reported in error, is there    *)
(* once and is that of a coroutine suspended under it.                     *)
ReadyOnce ==
    /\ \A i \in Pending : ready[i] \notin stale => Suspended(ready[i])
    /\ \A i, j \in Pending : ready[i] = ready[j] /\ ready[i] \notin stale => i = j

(* A coroutine that has not begun is in ready; one that sleeps is there or *)
(* has a timer, and not both.                                              *)
TimersOnce ==
    /\ \A c \in Coros : at[c] = "start" => Queued(c)
    /\ \A c \in Coros : at[c] = "sleep" => (HasTimer(c) <=> ~Queued(c))
    /\ \A i \in 1 .. Len(timers) : at[timers[i].coro] = "sleep"
    /\ \A i, j \in 1 .. Len(timers) : timers[i].coro = timers[j].coro => i = j

TimersInOrder ==
    \A i, j \in 1 .. Len(timers) : i < j => timers[i].due <= timers[j].due

(* A socket is registered since the first wait of its coroutine, and the   *)
(* awaiter remembers the frame that waits.                                 *)
Sockets ==
    /\ \A c \in Coros : entry[c] # Nil => at[c] # "done"
    /\ \A c \in Coros : at[c] # "done" => (entry[c] = Nil <=> last[c] = Nil)
    /\ \A c \in Coros : at[c] = "read" => last[c] = frame[c]

(* Also a message that comes between the failed recv and the wait leaves   *)
(* an event, which is why skipping a known handle loses none.              *)
Woken ==
    /\ \A c \in Coros : Registered(c) /\ inbox[c] > 0 => Queued(frame[c]) \/ edge[c]
    /\ \A c \in Coros : at[c] = "eagain" /\ entry[c] # Nil /\ inbox[c] > 0 => edge[c]

IInv == /\ TypeOK /\ NoStrayResume
        /\ Places /\ ReadyOnce /\ TimersOnce /\ TimersInOrder /\ Sockets /\ Woken

-----------------------------------------------------------------------------
(* Sequences and addresses.                                                *)

Inserted(s, t, k) == SubSeq(s, 1, k) \o <<t>> \o SubSeq(s, k + 1, Len(s))

InsertedRight(S, s, t, k) ==
    LET r == Inserted(s, t, k)
    IN  /\ r \in Seq(S) /\ Len(r) = Len(s) + 1 /\ r[k + 1] = t
        /\ \A i \in 1 .. k : r[i] = s[i]
        /\ \A i \in k + 1 .. Len(s) : r[i + 1] = s[i]

LEMMA InsertAt ==
    ASSUME NEW S, NEW s \in Seq(S), NEW t \in S, NEW k \in 0 .. Len(s)
    PROVE  InsertedRight(S, s, t, k)
<1> DEFINE a == SubSeq(s, 1, k)
           b == SubSeq(s, k + 1, Len(s))
           c == a \o <<t>>
<1>1. a \in Seq(S) /\ Len(a) = k /\ \A i \in 1 .. k : a[i] = s[i]
  BY SubSeqProperties
<1>2. /\ b \in Seq(S) /\ Len(b) = Len(s) - k
      /\ \A i \in 1 .. Len(s) - k : b[i] = s[k + i]
  BY SubSeqProperties
<1>3. <<t>> \in Seq(S) /\ Len(<<t>>) = 1 /\ <<t>>[1] = t
  OBVIOUS
<1> HIDE DEF a, b
<1>4. /\ c \in Seq(S) /\ Len(c) = k + 1 /\ c[k + 1] = t
      /\ \A i \in 1 .. k : c[i] = s[i]
  BY <1>1, <1>3, ConcatProperties
<1> HIDE DEF c
<1>5. /\ c \o b \in Seq(S) /\ Len(c \o b) = Len(s) + 1
      /\ \A i \in 1 .. Len(s) + 1 : (c \o b)[i] = IF i <= k + 1 THEN c[i] ELSE b[i - (k + 1)]
  BY <1>2, <1>4, ConcatProperties
<1>6. \A i \in k + 1 .. Len(s) : (c \o b)[i + 1] = s[i]
  <2>1. SUFFICES ASSUME NEW i \in k + 1 .. Len(s) PROVE (c \o b)[i + 1] = s[i]
    OBVIOUS
  <2>2. i + 1 \in 1 .. Len(s) + 1 /\ ~(i + 1 <= k + 1) /\ i - k \in 1 .. Len(s) - k
        /\ (i + 1) - (k + 1) = i - k /\ k + (i - k) = i
    OBVIOUS
  <2>3. QED BY <1>2, <1>5, <2>2
<1>7. /\ (c \o b)[k + 1] = t /\ \A i \in 1 .. k : (c \o b)[i] = s[i]
  <2>1. k \in Nat /\ k + 1 \in 1 .. Len(s) + 1 /\ k + 1 <= k + 1
    OBVIOUS
  <2>2. \A i \in 1 .. k : i \in 1 .. Len(s) + 1 /\ i <= k + 1
    OBVIOUS
  <2>3. QED BY <1>4, <1>5, <2>1, <2>2
<1>8. c \o b = Inserted(s, t, k)
  BY DEF a, b, c, Inserted
<1> HIDE DEF a, b, c
<1>9. QED BY <1>5, <1>6, <1>7, <1>8 DEF InsertedRight

LEMMA RestFrom ==
    ASSUME NEW S, NEW s \in Seq(S), NEW k \in 0 .. Len(s)
    PROVE  LET r == SubSeq(s, k + 1, Len(s))
           IN  /\ r \in Seq(S) /\ Len(r) = Len(s) - k
               /\ \A i \in 1 .. Len(s) - k : r[i] = s[k + i]
BY SubSeqProperties

(* The timers that are due at a time are the first ones.                   *)
LEMMA DueFirst ==
    ASSUME TypeOK, TimersInOrder, NEW x \in Int
    PROVE  LET P == {i \in 1 .. Len(timers) : timers[i].due <= x}
           IN  Cardinality(P) \in 0 .. Len(timers) /\ P = 1 .. Cardinality(P)
<1> DEFINE P == {i \in 1 .. Len(timers) : timers[i].due <= x}
           k == Cardinality(P)
<1>1. Len(timers) \in Nat /\ \A i \in 1 .. Len(timers) : timers[i].due \in Int
  <2>1. timers \in Seq([due : Nat, coro : Coros])
    BY DEF TypeOK
  <2>2. \A i \in 1 .. Len(timers) : timers[i] \in [due : Nat, coro : Coros]
    BY <2>1, ElementOfSeq
  <2>3. Len(timers) \in Nat
    BY <2>1
  <2>4. QED BY <2>2, <2>3
<1>2. IsFiniteSet(P) /\ k \in Nat /\ k <= Len(timers)
  <2>1. IsFiniteSet(1 .. Len(timers)) /\ Cardinality(1 .. Len(timers)) = Len(timers)
    BY <1>1, FS_Interval
  <2>2. P \in SUBSET (1 .. Len(timers))
    OBVIOUS
  <2> HIDE DEF P
  <2>3. IsFiniteSet(P) /\ k <= Len(timers)
    BY <2>1, <2>2, FS_Subset
  <2>4. QED BY <2>3, FS_CardinalityType
<1>3. ASSUME NEW i \in P PROVE i \in 1 .. k
  <2>0. i \in 1 .. Len(timers) /\ timers[i].due <= x
    BY <1>3
  <2>1. ASSUME NEW j \in 1 .. i PROVE j \in P
    <3>1. j \in 1 .. Len(timers) /\ (j = i \/ j < i)
      BY <1>1, <2>0
    <3>2. timers[j].due <= timers[i].due
      BY <1>1, <2>0, <3>1 DEF TimersInOrder
    <3>3. QED BY <1>1, <2>0, <3>1, <3>2
  <2>2. i \in Nat /\ i >= 1
    BY <1>1, <2>0
  <2> HIDE DEF P
  <2>3. Cardinality(1 .. i) = i
    BY <2>2, FS_Interval
  <2>4. i <= k
    <3>1. PICK Q \in SUBSET P : Q = 1 .. i
      BY <2>1
    <3>2. Cardinality(Q) <= Cardinality(P)
      BY <1>2, FS_Subset
    <3>3. QED BY <2>3, <3>1, <3>2
  <2> HIDE DEF k
  <2>5. k \in Nat
    BY <1>2
  <2>6. QED BY <2>2, <2>4, <2>5
<1> HIDE DEF P
<1>4. IsFiniteSet(1 .. k) /\ Cardinality(1 .. k) = k
  BY <1>2, FS_Interval
<1>5. P \in SUBSET (1 .. k)
  BY <1>3
<1>6. P = 1 .. k
  BY <1>4, <1>5, FS_Subset
<1>7. QED BY <1>1, <1>2, <1>6 DEF P

(* A sequence that names each member of S once names every member.         *)
LEMMA OrdersCover ==
    ASSUME NEW S, IsFiniteSet(S), NEW s \in Orders(S)
    PROVE  /\ s \in Seq(S) /\ Len(s) = Cardinality(S) /\ Cardinality(S) \in Nat
           /\ \A i, j \in 1 .. Len(s) : s[i] = s[j] => i = j
           /\ \A x \in S : \E i \in 1 .. Len(s) : s[i] = x
<1> DEFINE n == Cardinality(S)
<1>1. n \in Nat
  BY FS_CardinalityType
<1>2. s \in [1 .. n -> S] /\ \A i, j \in 1 .. n : s[i] = s[j] => i = j
  BY DEF Orders
<1>3. s \in Injection(1 .. n, S)
  BY <1>2 DEF Injection, IsInjective
<1>4. Cardinality(1 .. n) = n
  BY <1>1, FS_Interval
<1>5. s \in Surjection(1 .. n, S)
  BY <1>3, <1>4, FS_Injection
<1>6. \A x \in S : \E i \in 1 .. n : s[i] = x
  BY <1>5 DEF Surjection
<1>7. s \in Seq(S) /\ Len(s) = n
  BY <1>1, <1>2
<1>8. QED BY <1>1, <1>2, <1>6, <1>7

(* A handle belongs to one coroutine.                                      *)
LEMMA OwnerOf ==
    ASSUME TypeOK, Places, NEW h, Suspended(h)
    PROVE  LET c == Owner(h)
           IN  /\ c \in Coros /\ h \in Handles /\ at[c] \notin {"run", "eagain"}
               /\ \/ h = c /\ at[c] \in {"start", "sleep"}
                  \/ h = frame[c] /\ at[c] = "read"
               /\ \A d \in Coros : h = d \/ h = frame[d] => d = c
<1>1. PICK c \in Coros : \/ h = c /\ at[c] \in {"start", "sleep"}
                         \/ h = frame[c] /\ at[c] = "read"
  BY DEF Suspended
<1>2. \A d \in Coros : d \notin Addrs /\ d # Nil /\ frame[d] \in Addrs \cup {Nil}
  BY LoopAssumption DEF TypeOK
<1>3. at[c] = "read" => frame[c] # Nil
  BY DEF Places
<1>4. h # Nil /\ h \in Handles
  BY <1>1, <1>2, <1>3 DEF Handles
<1>5. ASSUME NEW d \in Coros, h = d \/ h = frame[d] PROVE d = c
  <2>1. CASE h = c
    BY <1>2, <1>5, <2>1
  <2>2. CASE h = frame[c]
    BY <1>2, <1>4, <1>5, <2>2 DEF Places
  <2>3. QED BY <1>1, <2>1, <2>2
<1>6. Owner(h) = c
  <2>1. h = c \/ frame[c] = h
    BY <1>1
  <2>2. \A d \in Coros : d = h \/ frame[d] = h => d = c
    BY <1>5
  <2>3. QED BY <1>1, <2>1, <2>2 DEF Owner
<1>7. at[c] \notin {"run", "eagain"}
  BY <1>1
<1>8. QED BY <1>1, <1>4, <1>5, <1>6, <1>7

-----------------------------------------------------------------------------
(* Every step keeps the invariant.                                         *)

LEMMA Typed ==
    ASSUME TypeOK
    PROVE  /\ ready \in Seq(Handles) /\ Len(ready) \in Nat
           /\ \A i \in 1 .. Len(ready) : ready[i] \in Handles
           /\ timers \in Seq([due : Nat, coro : Coros]) /\ Len(timers) \in Nat
           /\ \A i \in 1 .. Len(timers) : /\ timers[i] \in [due : Nat, coro : Coros]
                                          /\ timers[i].due \in Nat /\ timers[i].coro \in Coros
           /\ now \in Nat /\ now <= MaxTime
<1>1. ready \in Seq(Handles) /\ timers \in Seq([due : Nat, coro : Coros]) /\ now \in 0 .. MaxTime
  BY DEF TypeOK
<1>2. now \in Nat /\ now <= MaxTime
  BY <1>1, LoopAssumption
<1>3. \A i \in 1 .. Len(timers) : timers[i] \in [due : Nat, coro : Coros]
  BY <1>1, ElementOfSeq
<1>4. \A i \in 1 .. Len(ready) : ready[i] \in Handles
  BY <1>1, ElementOfSeq
<1>5. Len(ready) \in Nat /\ Len(timers) \in Nat
  BY <1>1, LenProperties
<1>6. QED BY <1>1, <1>2, <1>3, <1>4, <1>5

(* Steps of the clock, of the peers and of the loop that touch no handle.  *)
LEMMA HandlesStay ==
    ASSUME IInv, UNCHANGED <<ready, timers, running, at, frame, last, entry, stale>>,
           TypeOK', Places', Woken', NoStrayResume'
    PROVE  IInv'
<1>1. Pending' = Pending /\ \A h : Queued(h)' <=> Queued(h)
  BY DEF Pending, Queued
<1>2. \A c : HasTimer(c)' <=> HasTimer(c)
  BY DEF HasTimer
<1>3. ReadyOnce'
  BY <1>1 DEF IInv, ReadyOnce, Suspended
<1>4. TimersOnce'
  BY <1>1, <1>2 DEF IInv, TimersOnce
<1>5. TimersInOrder'
  BY DEF IInv, TimersInOrder
<1>6. Sockets'
  BY DEF IInv, Sockets
<1>7. QED BY <1>3, <1>4, <1>5, <1>6 DEF IInv

LEMMA QuietSteps ==
    ASSUME IInv, Exit \/ Drained \/ SleepFor \/ Tick \/ UNCHANGED vars
    PROVE  IInv'
<1>1. UNCHANGED <<ready, timers, running, at, frame, last, entry, stale, undefined, ops, edge, inbox, sent>>
  BY DEF Exit, Drained, SleepFor, Tick, vars, io
<1>2. TypeOK'
  <2>1. MaxTime \in Nat /\ now \in 0 .. MaxTime /\ loop \in {"timers", "drain", "wait", "exit"}
    BY LoopAssumption DEF IInv, TypeOK
  <2>2. loop' \in {"timers", "drain", "wait", "exit"}
    BY <2>1 DEF Exit, Drained, SleepFor, Tick, vars
  <2>3. CASE Tick
    <3>1. now' \in 0 .. MaxTime
      BY <2>1, <2>3 DEF Tick
    <3>2. QED BY <1>1, <2>2, <3>1 DEF IInv, TypeOK
  <2>4. CASE Exit \/ Drained \/ SleepFor \/ UNCHANGED vars
    <3>1. now' = now
      BY <2>4 DEF Exit, Drained, SleepFor, vars
    <3>2. now' \in 0 .. MaxTime
      BY <2>1, <3>1
    <3>3. QED BY <1>1, <2>2, <3>2 DEF IInv, TypeOK
  <2>5. QED BY <2>3, <2>4
<1>3. Places'
  <2>1. running' # Nil => loop' = "drain"
    BY DEF IInv, Places, Exit, Drained, SleepFor, Tick, vars
  <2>2. loop' \in {"wait", "exit"} => ready' = <<>>
    BY DEF IInv, Places, Exit, Drained, SleepFor, Tick, vars, Empty
  <2>3. loop' = "exit" => timers' = <<>> /\ Watched' = {}
    <3>1. Watched' = Watched
      BY <1>1 DEF Watched
    <3>2. QED BY <1>1, <3>1 DEF IInv, Places, Exit, Drained, SleepFor, Tick, vars, Empty
  <2>4. QED BY <1>1, <2>1, <2>2, <2>3 DEF IInv, Places
<1>4. Woken'
  <2>1. \A h : Queued(h)' <=> Queued(h)
    BY <1>1 DEF Pending, Queued
  <2>2. QED BY <1>1, <2>1 DEF IInv, Woken, Registered
<1>5. NoStrayResume'
  BY <1>1 DEF IInv, NoStrayResume, Front
<1>6. QED BY <1>1, <1>2, <1>3, <1>4, <1>5, HandlesStay

LEMMA SendSteps ==
    ASSUME IInv, NEW c \in Coros, Send(c) \/ ReadNow(c)
    PROVE  IInv'
<1>1. UNCHANGED <<loop, now, ready, timers, running, at, frame, last, entry, stale, undefined>>
  BY DEF Send, ReadNow, Begin
<1>2. TypeOK'
  <2>1. /\ ops \in [Coros -> Nat] /\ inbox \in [Coros -> Nat] /\ sent \in [Coros -> Nat]
        /\ edge \in [Coros -> BOOLEAN] /\ MaxOps \in [Coros -> Nat] /\ MaxSent \in [Coros -> Nat]
        /\ \A d \in Coros : inbox[d] <= sent[d] /\ sent[d] <= MaxSent[d] /\ ops[d] <= MaxOps[d]
    BY LoopAssumption DEF IInv, TypeOK
  <2>2. /\ ops' \in [Coros -> Nat] /\ inbox' \in [Coros -> Nat] /\ sent' \in [Coros -> Nat]
        /\ edge' \in [Coros -> BOOLEAN]
        /\ \A d \in Coros : inbox'[d] <= sent'[d] /\ sent'[d] <= MaxSent[d] /\ ops'[d] <= MaxOps[d]
    <3>1. CASE Send(c)
      BY <2>1, <3>1 DEF Send
    <3>2. CASE ReadNow(c)
      BY <2>1, <3>2 DEF ReadNow, Begin
    <3>3. QED BY <3>1, <3>2
  <2>3. QED BY <1>1, <2>2 DEF IInv, TypeOK
<1>3. Places'
  <2>1. Watched' = Watched
    BY <1>1 DEF Watched
  <2>2. QED BY <1>1, <2>1 DEF IInv, Places
<1>4. Woken'
  <2>1. \A h : Queued(h)' <=> Queued(h)
    BY <1>1 DEF Pending, Queued
  <2>2. \A d \in Coros : Registered(d) => entry[d] # Nil
    BY DEF IInv, Places, Registered
  <2>3. CASE Send(c)
    <3>1. edge'[c] = (entry[c] # Nil) /\ \A d \in Coros : d # c => edge'[d] = edge[d] /\ inbox'[d] = inbox[d]
      BY <2>3 DEF Send, IInv, TypeOK
    <3>2. QED BY <1>1, <2>1, <2>2, <3>1 DEF IInv, Woken, Registered
  <2>4. CASE ReadNow(c)
    <3>1. at[c] = "run"
      BY <2>4 DEF ReadNow, Begin
    <3>2. edge' = edge /\ \A d \in Coros : d # c => inbox'[d] = inbox[d]
      BY <2>4 DEF ReadNow, IInv, TypeOK
    <3>3. QED BY <1>1, <2>1, <3>1, <3>2 DEF IInv, Woken, Registered
  <2>5. QED BY <2>3, <2>4
<1>5. NoStrayResume'
  BY <1>1 DEF IInv, NoStrayResume, Front
<1>6. QED BY <1>1, <1>2, <1>3, <1>4, <1>5, HandlesStay

(* The recv of a read fails: its frame is one that no other read has.      *)
LEMMA FailStep ==
    ASSUME IInv, NEW c \in Coros, NEW a \in Addrs, ReadFails(c, a)
    PROVE  IInv'
<1>1. /\ running = c /\ at[c] = "run" /\ inbox[c] = 0 /\ \A b \in Coros : frame[b] # a
      /\ ops[c] < MaxOps[c] /\ ops' = [ops EXCEPT ![c] = @ + 1]
      /\ at' = [at EXCEPT ![c] = "eagain"] /\ frame' = [frame EXCEPT ![c] = a]
      /\ UNCHANGED <<loop, ready, timers, now, running, last, entry, edge, inbox, sent, stale, undefined>>
  BY DEF ReadFails, Begin, io
<1>2. a # Nil
  BY LoopAssumption
<1>3. /\ at'[c] = "eagain" /\ frame'[c] = a
      /\ \A d \in Coros : d # c => at'[d] = at[d] /\ frame'[d] = frame[d]
  BY <1>1 DEF IInv, TypeOK
<1>4. Pending' = Pending /\ \A h : Queued(h)' <=> Queued(h)
  BY <1>1 DEF Pending, Queued
<1>5. \A h : Suspended(h) => Suspended(h)'
  BY <1>1, <1>3 DEF Suspended
<1>6. ReadyOnce'
  BY <1>1, <1>4, <1>5 DEF IInv, ReadyOnce
<1>7. TimersOnce'
  <2>1. \A h : HasTimer(h)' <=> HasTimer(h)
    BY <1>1 DEF HasTimer
  <2>2. \A i \in 1 .. Len(timers) : timers[i].coro \in Coros
    BY Typed DEF IInv
  <2>3. \A i \in 1 .. Len(timers) : timers[i].coro # c
    BY <1>1 DEF IInv, TimersOnce
  <2>4. QED BY <1>1, <1>3, <1>4, <2>1, <2>2, <2>3 DEF IInv, TimersOnce
<1>8. TimersInOrder'
  BY <1>1 DEF IInv, TimersInOrder
<1>9. Sockets'
  BY <1>1, <1>3 DEF IInv, Sockets
<1>10. Woken'
  BY <1>1, <1>3, <1>4 DEF IInv, Woken, Registered
<1>11. Places'
  <2>1. Watched' = Watched
    BY <1>1 DEF Watched
  <2>2. \A d \in Coros : at'[d] \in {"run", "eagain"} <=> running' = d
    BY <1>1, <1>3 DEF IInv, Places
  <2>3. QED BY <1>1, <1>2, <1>3, <2>1, <2>2 DEF IInv, Places
<1>12. TypeOK'
  <2>1. /\ ops \in [Coros -> Nat] /\ MaxOps \in [Coros -> Nat] /\ \A b \in Coros : ops[b] <= MaxOps[b]
        /\ at \in [Coros -> {"start", "run", "sleep", "eagain", "read", "done"}]
        /\ frame \in [Coros -> Addrs \cup {Nil}]
    BY LoopAssumption DEF IInv, TypeOK
  <2>2. ops' \in [Coros -> Nat] /\ \A b \in Coros : ops'[b] <= MaxOps[b]
    BY <1>1, <2>1
  <2>3. /\ at' \in [Coros -> {"start", "run", "sleep", "eagain", "read", "done"}]
        /\ frame' \in [Coros -> Addrs \cup {Nil}]
    BY <1>1, <2>1
  <2>4. QED BY <1>1, <2>2, <2>3 DEF IInv, TypeOK
<1>13. NoStrayResume'
  BY <1>1 DEF IInv, NoStrayResume, Front
<1>14. QED BY <1>6, <1>7, <1>8, <1>9, <1>10, <1>11, <1>12, <1>13 DEF IInv

(* The timers that are due move to the end of ready.                       *)
LEMMA TakeTimersStep ==
    ASSUME IInv, ~undefined, TakeTimers PROVE IInv'
<1> DEFINE n == Cardinality(Due)
           m == [i \in 1 .. n |-> timers[i].coro]
<1>1. n \in 0 .. Len(timers) /\ n \in Nat /\ n <= Len(timers)
  <2>1. now \in Int /\ Len(timers) \in Nat
    BY Typed DEF IInv
  <2>2. n \in 0 .. Len(timers)
    BY <2>1, DueFirst DEF IInv, Due
  <2> HIDE DEF n
  <2>3. QED BY <2>1, <2>2
<1>2. /\ ready' = ready \o m /\ timers' = SubSeq(timers, n + 1, Len(timers))
      /\ loop = "timers" /\ loop' = "drain"
      /\ UNCHANGED <<now, running, at, frame, ops, last, entry, edge, inbox, sent, stale, undefined>>
  BY DEF TakeTimers, io
<1> HIDE DEF n
<1>3. m \in Seq(Coros) /\ m \in Seq(Handles) /\ Len(m) = n /\ \A i \in 1 .. n : m[i] = timers[i].coro
  <2>1. \A i \in 1 .. n : timers[i].coro \in Coros
    <3>1. \A i \in 1 .. n : i \in 1 .. Len(timers)
      BY <1>1, Typed DEF IInv
    <3>2. QED BY <3>1, Typed DEF IInv
  <2>2. m \in [1 .. n -> Coros] /\ m \in [1 .. n -> Handles]
    BY <2>1 DEF Handles
  <2> HIDE DEF m
  <2>3. m \in Seq(Coros) /\ m \in Seq(Handles) /\ Len(m) = n
    BY <1>1, <2>2
  <2>4. QED BY <2>3 DEF m
<1> HIDE DEF m
<1>4. /\ ready' \in Seq(Handles) /\ Len(ready') = Len(ready) + n
      /\ \A i \in 1 .. Len(ready) : ready'[i] = ready[i]
      /\ \A i \in 1 .. n : ready'[Len(ready) + i] = timers[i].coro
  <2>1. /\ ready' \in Seq(Handles) /\ Len(ready') = Len(ready) + n
        /\ \A i \in 1 .. Len(ready) + n : ready'[i] = IF i <= Len(ready) THEN ready[i]
                                                      ELSE m[i - Len(ready)]
    BY <1>2, <1>3, Typed, ConcatProperties DEF IInv
  <2>2. Len(ready) \in Nat
    BY Typed DEF IInv
  <2>3. \A i \in 1 .. Len(ready) : i \in 1 .. Len(ready) + n /\ i <= Len(ready)
    BY <1>1, <2>2
  <2>4. \A i \in 1 .. n : /\ Len(ready) + i \in 1 .. Len(ready) + n
                          /\ ~(Len(ready) + i <= Len(ready))
                          /\ Len(ready) + i - Len(ready) = i
    BY <1>1, <2>2
  <2>5. QED BY <1>3, <2>1, <2>3, <2>4
<1>5. /\ timers' \in Seq([due : Nat, coro : Coros]) /\ Len(timers') = Len(timers) - n
      /\ \A i \in 1 .. Len(timers) - n : timers'[i] = timers[n + i]
  BY <1>1, <1>2, Typed, RestFrom DEF IInv
<1>6. running = Nil /\ running' = Nil
  BY <1>2 DEF IInv, Places
<1>7. Pending = 1 .. Len(ready) /\ Pending' = 1 .. Len(ready) + n
  BY <1>4, <1>6 DEF Pending
<1>8. ASSUME NEW i \in 1 .. Len(ready) + n
      PROVE  \/ i \in 1 .. Len(ready) /\ ready'[i] = ready[i]
             \/ \E j \in 1 .. n : /\ j \in 1 .. Len(timers) /\ i = Len(ready) + j
                                  /\ ready'[i] = timers[j].coro
  <2>1. Len(ready) \in Nat /\ Len(timers) \in Nat
    BY Typed DEF IInv
  <2>2. CASE i <= Len(ready)
    BY <1>4, <2>1, <2>2
  <2>3. CASE ~(i <= Len(ready))
    <3>1. i - Len(ready) \in 1 .. n /\ i - Len(ready) \in 1 .. Len(timers)
          /\ i = Len(ready) + (i - Len(ready))
      BY <1>1, <2>1, <2>3
    <3>2. QED BY <1>4, <3>1
  <2>4. QED BY <2>2, <2>3
<1>9. \A h : Queued(h)' <=> Queued(h) \/ \E j \in 1 .. n : timers[j].coro = h
  <2>1. SUFFICES ASSUME NEW h PROVE Queued(h)' <=> Queued(h) \/ \E j \in 1 .. n : timers[j].coro = h
    OBVIOUS
  <2>2. Queued(h) <=> \E i \in 1 .. Len(ready) : ready[i] = h
    BY <1>7 DEF Queued
  <2>3. Queued(h)' <=> \E i \in 1 .. Len(ready) + n : ready'[i] = h
    BY <1>7 DEF Queued
  <2>4. Len(ready) \in Nat
    BY Typed DEF IInv
  <2>5. \A i \in 1 .. Len(ready) : i \in 1 .. Len(ready) + n
    BY <1>1, <2>4
  <2>6. \A i \in 1 .. n : Len(ready) + i \in 1 .. Len(ready) + n
    BY <1>1, <2>4
  <2>7. Queued(h) => Queued(h)'
    BY <1>4, <2>2, <2>3, <2>5
  <2>8. (\E j \in 1 .. n : timers[j].coro = h) => Queued(h)'
    BY <1>4, <2>3, <2>6
  <2>9. Queued(h)' => Queued(h) \/ \E j \in 1 .. n : timers[j].coro = h
    BY <1>8, <2>2, <2>3
  <2>10. QED BY <2>7, <2>8, <2>9
<1>10. ASSUME NEW i \in 1 .. Len(timers')
       PROVE  /\ n + i \in 1 .. Len(timers) /\ n + i \notin 1 .. n
              /\ timers'[i] = timers[n + i] /\ i \in Int
  <2>1. i \in 1 .. Len(timers) - n
    BY <1>5
  <2>2. Len(timers) \in Nat
    BY Typed DEF IInv
  <2>3. n + i \in 1 .. Len(timers) /\ n + i \notin 1 .. n /\ i \in Int
    BY <1>1, <2>1, <2>2
  <2>4. QED BY <1>5, <2>1, <2>3
<1>11. \A c : HasTimer(c)' <=> \E i \in 1 .. Len(timers) : i \notin 1 .. n /\ timers[i].coro = c
  <2>1. SUFFICES ASSUME NEW c, NEW i \in 1 .. Len(timers), i \notin 1 .. n, timers[i].coro = c
                 PROVE  HasTimer(c)'
    BY <1>10 DEF HasTimer
  <2>2. Len(timers) \in Nat
    BY Typed DEF IInv
  <2>3. i - n \in 1 .. Len(timers) - n /\ n + (i - n) = i
    BY <1>1, <2>1, <2>2
  <2>4. QED BY <1>5, <2>1, <2>3 DEF HasTimer
<1>12. \A h : Suspended(h)' <=> Suspended(h)
  BY <1>2 DEF Suspended
<1>13. \A i \in 1 .. n : i \in 1 .. Len(timers)
  <2>1. Len(timers) \in Nat
    BY Typed DEF IInv
  <2>2. QED BY <1>1, <2>1
<1>14. ReadyOnce'
  <2>1. ASSUME NEW i \in 1 .. Len(timers)
        PROVE  /\ timers[i].coro \in Coros /\ at[timers[i].coro] = "sleep"
               /\ Suspended(timers[i].coro) /\ ~Queued(timers[i].coro)
    <3>1. timers[i].coro \in Coros /\ at[timers[i].coro] = "sleep"
      BY Typed DEF IInv, TimersOnce
    <3>2. HasTimer(timers[i].coro)
      BY DEF HasTimer
    <3>3. QED BY <3>1, <3>2 DEF IInv, TimersOnce, Suspended
  <2>2. \A i \in Pending' : ready'[i] \notin stale => Suspended(ready'[i])
    BY <1>7, <1>8, <2>1 DEF IInv, ReadyOnce
  <2>3. ASSUME NEW i \in Pending', NEW j \in Pending', ready'[i] = ready'[j], ready'[i] \notin stale
        PROVE  i = j
    <3>1. CASE i \in 1 .. Len(ready) /\ j \in 1 .. Len(ready)
      BY <1>4, <1>7, <2>3, <3>1 DEF IInv, ReadyOnce
    <3>2. \A k, l \in 1 .. Len(timers) : timers[k].coro = timers[l].coro => k = l
      BY DEF IInv, TimersOnce
    <3>3. \A k \in 1 .. Len(ready), l \in 1 .. Len(timers) : ready[k] # timers[l].coro
      BY <1>7, <2>1 DEF Queued
    <3>4. ASSUME NEW k \in Pending'
          PROVE  \/ k \in 1 .. Len(ready) /\ ready'[k] = ready[k]
                 \/ \E l \in 1 .. Len(timers) : k = Len(ready) + l /\ ready'[k] = timers[l].coro
      <4>1. k \in 1 .. Len(ready) + n
        BY <1>7
      <4>2. QED BY <1>8, <4>1
    <3>5. CASE \E l \in 1 .. Len(timers) : i = Len(ready) + l /\ ready'[i] = timers[l].coro
      BY <2>3, <3>2, <3>3, <3>4, <3>5
    <3>6. CASE \E l \in 1 .. Len(timers) : j = Len(ready) + l /\ ready'[j] = timers[l].coro
      <4>1. PICK l \in 1 .. Len(timers) : j = Len(ready) + l /\ ready'[j] = timers[l].coro
        BY <3>6
      <4>2. ~(i \in 1 .. Len(ready) /\ ready'[i] = ready[i])
        BY <2>3, <3>3, <4>1
      <4>3. QED BY <3>4, <3>5, <4>2
    <3>7. QED BY <3>1, <3>4, <3>5, <3>6
  <2>4. QED BY <1>2, <1>12, <2>2, <2>3 DEF ReadyOnce
<1>15. TimersOnce'
  <2>1. \A c \in Coros : at'[c] = "start" => Queued(c)'
    BY <1>2, <1>9 DEF IInv, TimersOnce
  <2>2. ASSUME NEW c \in Coros, at[c] = "sleep" PROVE HasTimer(c)' <=> ~Queued(c)'
    <3>1. HasTimer(c) <=> ~Queued(c)
      BY <2>2 DEF IInv, TimersOnce
    <3>2. \A k, l \in 1 .. Len(timers) : timers[k].coro = timers[l].coro => k = l
      BY DEF IInv, TimersOnce
    <3>3. ASSUME HasTimer(c)' PROVE ~Queued(c)'
      <4>1. PICK k \in 1 .. Len(timers) : k \notin 1 .. n /\ timers[k].coro = c
        BY <1>11, <3>3
      <4>2. ~\E j \in 1 .. n : timers[j].coro = c
        BY <1>13, <3>2, <4>1
      <4>3. HasTimer(c)
        BY <4>1 DEF HasTimer
      <4>4. QED BY <1>9, <3>1, <4>2, <4>3
    <3>4. ASSUME ~Queued(c)' PROVE HasTimer(c)'
      <4>1. PICK k \in 1 .. Len(timers) : timers[k].coro = c
        BY <1>9, <3>1, <3>4 DEF HasTimer
      <4>2. k \notin 1 .. n
        BY <1>9, <3>4, <4>1
      <4>3. QED BY <1>11, <4>1, <4>2
    <3>5. QED BY <3>3, <3>4
  <2>3. \A i \in 1 .. Len(timers') : at'[timers'[i].coro] = "sleep"
    <3>1. \A k \in 1 .. Len(timers) : at[timers[k].coro] = "sleep"
      BY DEF IInv, TimersOnce
    <3>2. \A i \in 1 .. Len(timers') : n + i \in 1 .. Len(timers) /\ timers'[i] = timers[n + i]
      BY <1>10
    <3>3. QED BY <1>2, <3>1, <3>2
  <2>4. ASSUME NEW i \in 1 .. Len(timers'), NEW j \in 1 .. Len(timers'),
               timers'[i].coro = timers'[j].coro
        PROVE  i = j
    <3>1. n + i = n + j
      BY <1>10, <2>4 DEF IInv, TimersOnce
    <3>2. QED BY <1>1, <1>10, <3>1
  <2>5. QED BY <1>2, <2>1, <2>2, <2>3, <2>4 DEF TimersOnce
<1>16. TimersInOrder'
  <2>1. ASSUME NEW i \in 1 .. Len(timers'), NEW j \in 1 .. Len(timers'), i < j
        PROVE  timers'[i].due <= timers'[j].due
    <3>1. n + i < n + j
      BY <1>1, <1>10, <2>1
    <3>2. QED BY <1>10, <3>1 DEF IInv, TimersInOrder
  <2>2. QED BY <2>1 DEF TimersInOrder
<1>17. Watched' = Watched
  BY <1>2 DEF Watched
<1>18. Places'
  BY <1>2, <1>6, <1>17 DEF IInv, Places
<1>19. Sockets'
  BY <1>2 DEF IInv, Sockets
<1>20. Woken'
  BY <1>2, <1>9 DEF IInv, Woken, Registered
<1>21. TypeOK'
  BY <1>2, <1>4, <1>5 DEF IInv, TypeOK
<1>22. NoStrayResume'
  BY <1>2 DEF NoStrayResume
<1>23. QED BY <1>14, <1>15, <1>16, <1>18, <1>19, <1>20, <1>21, <1>22 DEF IInv

(* The handles of the sockets with an event are queued, in any order.      *)
LEMMA EpollWaitStep ==
    ASSUME IInv, ~undefined, EpollWait PROVE IInv'
<1> DEFINE hit == {c \in Watched : edge[c]}
<1>1. PICK s \in Orders(hit) : ready' = [i \in DOMAIN s |-> entry[s[i]]]
  BY DEF EpollWait
<1>2. /\ loop = "wait" /\ loop' = "timers"
      /\ edge' = [c \in Coros |-> edge[c] /\ c \notin hit]
      /\ stale' = stale \cup {entry[c] : c \in {d \in hit : Strayed(d)}}
      /\ UNCHANGED <<timers, now, running, at, frame, ops, last, entry, inbox, sent, undefined>>
  BY DEF EpollWait, RecordStrayed
<1>3. ready = <<>> /\ running = Nil /\ running' = Nil
  BY <1>2 DEF IInv, Places
<1>4. ASSUME NEW c \in hit
      PROVE  /\ c \in Coros /\ entry[c] \in Addrs /\ entry[c] \in Handles
             /\ entry[c] \notin stale' => Registered(c) /\ frame[c] # Nil
  <2>1. c \in Coros /\ entry[c] # Nil
    BY DEF Watched
  <2>2. entry[c] \in Addrs
    BY <2>1 DEF IInv, TypeOK
  <2>3. ASSUME entry[c] \notin stale' PROVE Registered(c) /\ frame[c] # Nil
    <3>1. ~Strayed(c)
      BY <1>2, <2>3
    <3>2. frame[c] = entry[c]
      BY <2>1, <3>1 DEF IInv, Sockets, Strayed
    <3>3. at[c] \in {"eagain", "read"} /\ at[c] # "eagain"
      BY <1>3, <2>1, <3>2, LoopAssumption DEF IInv, Places
    <3>4. QED BY <2>1, <3>2, <3>3 DEF Registered
  <2>4. QED BY <2>1, <2>2, <2>3 DEF Handles
<1>5. IsFiniteSet(hit)
  <2>1. hit \in SUBSET Coros
    BY DEF Watched
  <2> HIDE DEF hit
  <2>2. QED BY <2>1, LoopAssumption, FS_Subset
<1>6. \A c \in Coros : edge[c] /\ entry[c] # Nil => c \in hit
  BY DEF Watched
<1> HIDE DEF hit
<1>7. /\ s \in Seq(hit) /\ Len(s) \in Nat
      /\ \A i, j \in 1 .. Len(s) : s[i] = s[j] => i = j
      /\ \A c \in hit : \E i \in 1 .. Len(s) : s[i] = c
  BY <1>5, OrdersCover
<1>8. DOMAIN s = 1 .. Len(s) /\ \A i \in 1 .. Len(s) : s[i] \in hit
  BY <1>7, ElementOfSeq
<1>9. /\ ready' \in Seq(Handles) /\ Len(ready') = Len(s)
      /\ \A i \in 1 .. Len(s) : ready'[i] = entry[s[i]]
  <2>1. ready' \in [1 .. Len(s) -> Handles] /\ \A i \in 1 .. Len(s) : ready'[i] = entry[s[i]]
    BY <1>1, <1>4, <1>8
  <2>2. \A n \in Nat : \A q \in [1 .. n -> Handles] : q \in Seq(Handles) /\ Len(q) = n
    OBVIOUS
  <2>3. Len(s) \in Nat
    BY <1>7
  <2>4. QED BY <2>1, <2>2, <2>3
<1>10. Pending' = 1 .. Len(s) /\ \A h : Queued(h)' <=> \E i \in 1 .. Len(s) : entry[s[i]] = h
  <2>1. Pending' = 1 .. Len(s)
    BY <1>3, <1>9 DEF Pending
  <2>2. QED BY <1>9, <2>1 DEF Queued
<1>11. \A h : ~Queued(h)
  BY <1>3 DEF Queued, Pending
<1>12. ReadyOnce'
  <2>1. (\A i \in Pending : ready[i] \notin stale => Suspended(ready[i]))'
    <3>1. \A i \in Pending' : \E c \in hit : ready'[i] = entry[c]
      BY <1>8, <1>9, <1>10
    <3>2. \A i \in Pending' : ready'[i] \notin stale' =>
              \E c \in Coros : ready'[i] = frame'[c] /\ at'[c] = "read"
      BY <1>2, <1>4, <3>1 DEF Registered
    <3>3. QED BY <3>2 DEF Suspended
  <2>2. \A c, d \in hit : entry[c] = entry[d] /\ entry[c] \notin stale' => c = d
    <3>1. \A c, d \in Coros : frame[c] = frame[d] /\ frame[c] # Nil => c = d
      BY DEF IInv, Places
    <3>2. QED BY <1>4, <3>1 DEF Registered
  <2>3. \A i, j \in Pending' : ready'[i] = ready'[j] /\ ready'[i] \notin stale' => i = j
    BY <1>7, <1>8, <1>9, <1>10, <2>2
  <2>4. QED BY <2>1, <2>3 DEF ReadyOnce
<1>13. TimersOnce'
  <2>1. \A c : HasTimer(c)' <=> HasTimer(c)
    BY <1>2 DEF HasTimer
  <2>2. \A c \in Coros : ~Queued(c)'
    BY <1>4, <1>8, <1>10, LoopAssumption
  <2>3. QED BY <1>2, <1>11, <2>1, <2>2 DEF IInv, TimersOnce
<1>14. TimersInOrder' /\ Sockets'
  BY <1>2 DEF IInv, TimersInOrder, Sockets
<1>15. Woken'
  <2>1. \A c \in hit : \A h : h = entry[c] => Queued(h)'
    BY <1>7, <1>10
  <2>2. ASSUME NEW c \in Coros, Registered(c), inbox[c] > 0 PROVE \A h : h = frame[c] => Queued(h)'
    <3>1. edge[c] /\ entry[c] = frame[c]
      BY <1>11, <2>2 DEF IInv, Woken, Registered
    <3>2. frame[c] # Nil
      BY <2>2 DEF IInv, Places, Registered
    <3>3. QED BY <1>6, <2>1, <3>1, <3>2
  <2>3. \A c \in Coros : at[c] # "eagain"
    BY <1>3, LoopAssumption DEF IInv, Places
  <2>4. QED BY <1>2, <2>2, <2>3 DEF Woken, Queued, Registered
<1>16. Places'
  BY <1>2, <1>3 DEF IInv, Places
<1>17. TypeOK'
  <2>1. edge' \in [Coros -> BOOLEAN]
    BY <1>2 DEF IInv, TypeOK
  <2>2. stale' \subseteq Addrs
    BY <1>2, <1>4 DEF IInv, TypeOK
  <2>3. QED BY <1>2, <1>9, <2>1, <2>2 DEF IInv, TypeOK
<1>18. NoStrayResume'
  BY <1>2 DEF NoStrayResume
<1>19. QED BY <1>12, <1>13, <1>14, <1>15, <1>16, <1>17, <1>18 DEF IInv

(* What is left to resume when the handle at the front is taken: because   *)
(* its coroutine suspends again, or because it now runs.                   *)
LEMMA FrontLeaves ==
    ASSUME TypeOK, ready # <<>>, stale' = stale,
           \/ ready' = Tail(ready) /\ running' = Nil
           \/ ready' = ready /\ running' # Nil
    PROVE  /\ ready' \in Seq(Handles)
           /\ \A h : Queued(h)' <=> \E i \in 2 .. Len(ready) : ready[i] = h
           /\ (\A i, j \in 2 .. Len(ready) : ready[i] = ready[j] /\ ready[i] \notin stale => i = j)
                => \A i, j \in Pending' : ready'[i] = ready'[j] /\ ready'[i] \notin stale' => i = j
           /\ 1 \in 1 .. Len(ready)
<1>1. ready \in Seq(Handles) /\ Len(ready) \in Nat
  BY Typed
<1>2. Len(ready) >= 1 /\ 1 \in 1 .. Len(ready)
  BY <1>1, EmptySeq
<1>3. CASE ready' = ready /\ running' # Nil
  <2>1. Pending' = {i \in 1 .. Len(ready) : i # 1}
    BY <1>3 DEF Pending
  <2>2. {i \in 1 .. Len(ready) : i # 1} = 2 .. Len(ready)
    BY <1>1
  <2>3. QED BY <1>1, <1>2, <1>3, <2>1, <2>2 DEF Queued
<1>4. CASE ready' = Tail(ready) /\ running' = Nil
  <2>1. /\ ready' \in Seq(Handles) /\ Len(ready') = Len(ready) - 1
        /\ \A i \in 1 .. Len(ready) - 1 : ready'[i] = ready[i + 1]
    BY <1>1, <1>4, HeadTailProperties
  <2>2. Pending' = 1 .. Len(ready) - 1
    BY <1>4, <2>1 DEF Pending
  <2>3. \A i \in 1 .. Len(ready) - 1 : i + 1 \in 2 .. Len(ready) /\ i \in Int
    BY <1>1
  <2>4. \A i \in 2 .. Len(ready) : i - 1 \in 1 .. Len(ready) - 1 /\ (i - 1) + 1 = i
    BY <1>1
  <2>5. \A h : Queued(h)' <=> \E i \in 2 .. Len(ready) : ready[i] = h
    <3>1. SUFFICES ASSUME NEW h PROVE Queued(h)' <=> \E i \in 2 .. Len(ready) : ready[i] = h
      OBVIOUS
    <3>2. Queued(h)' <=> \E i \in 1 .. Len(ready) - 1 : ready'[i] = h
      BY <2>2 DEF Queued
    <3>3. ASSUME NEW i \in 1 .. Len(ready) - 1, ready'[i] = h
          PROVE  \E k \in 2 .. Len(ready) : ready[k] = h
      BY <2>1, <2>3, <3>3
    <3>4. ASSUME NEW i \in 2 .. Len(ready), ready[i] = h
          PROVE  \E k \in 1 .. Len(ready) - 1 : ready'[k] = h
      BY <2>1, <2>4, <3>4
    <3>5. QED BY <3>2, <3>3, <3>4
  <2>6. ASSUME \A i, j \in 2 .. Len(ready) : ready[i] = ready[j] /\ ready[i] \notin stale => i = j,
               NEW i \in Pending', NEW j \in Pending', ready'[i] = ready'[j], ready'[i] \notin stale'
        PROVE  i = j
    <3>1. i + 1 \in 2 .. Len(ready) /\ j + 1 \in 2 .. Len(ready) /\ i \in Int /\ j \in Int
      BY <2>2, <2>3
    <3>2. ready[i + 1] = ready[j + 1] /\ ready[i + 1] \notin stale
      BY <2>1, <2>2, <2>6
    <3>3. i + 1 = j + 1
      BY <2>6, <3>1, <3>2
    <3>4. QED BY <3>1, <3>3
  <2>7. QED BY <1>2, <2>1, <2>5, <2>6
<1>5. QED BY <1>3, <1>4

(* Before the front is resumed the others are those behind it; while it    *)
(* runs they are too.                                                      *)
LEMMA BehindFront ==
    ASSUME IInv, ready # <<>>
    PROVE  /\ 1 \in 1 .. Len(ready) /\ Front = ready[1]
           /\ \A i \in 2 .. Len(ready) : i \in Pending
           /\ \A i, j \in 2 .. Len(ready) : ready[i] = ready[j] /\ ready[i] \notin stale => i = j
           /\ running # Nil => \A h : Queued(h) <=> \E i \in 2 .. Len(ready) : ready[i] = h
           /\ running = Nil =>
                /\ Suspended(Front) \/ Front \in stale
                /\ Queued(Front)
                /\ \A h : Queued(h) /\ h # Front => \E i \in 2 .. Len(ready) : ready[i] = h
                /\ \A i \in 2 .. Len(ready) : Queued(ready[i]) /\ (ready[i] \in stale \/ ready[i] # Front)
<1>1. ready \in Seq(Handles) /\ Len(ready) \in Nat
  BY Typed DEF IInv
<1>2. 1 \in 1 .. Len(ready)
  BY <1>1, EmptySeq
<1>3. Front = ready[1]
  BY DEF Front
<1>4. \A i \in 2 .. Len(ready) : i \in 1 .. Len(ready) /\ i # 1
  BY <1>1
<1>5. \A i \in 1 .. Len(ready) : i = 1 \/ i \in 2 .. Len(ready)
  BY <1>1
<1>6. \A i \in 2 .. Len(ready) : i \in Pending
  BY <1>4 DEF Pending
<1>7. \A i, j \in 2 .. Len(ready) : ready[i] = ready[j] /\ ready[i] \notin stale => i = j
  BY <1>6 DEF IInv, ReadyOnce
<1>8. ASSUME running # Nil PROVE \A h : Queued(h) <=> \E i \in 2 .. Len(ready) : ready[i] = h
  <2>1. Pending = 2 .. Len(ready)
    BY <1>4, <1>5, <1>8 DEF Pending
  <2>2. QED BY <2>1 DEF Queued
<1>9. ASSUME running = Nil
      PROVE  /\ Suspended(Front) \/ Front \in stale
             /\ Queued(Front)
             /\ \A h : Queued(h) /\ h # Front => \E i \in 2 .. Len(ready) : ready[i] = h
             /\ \A i \in 2 .. Len(ready) : Queued(ready[i]) /\ (ready[i] \in stale \/ ready[i] # Front)
  <2>1. Pending = 1 .. Len(ready)
    BY <1>9 DEF Pending
  <2>2. (Suspended(Front) \/ Front \in stale) /\ Queued(Front)
    BY <1>2, <1>3, <2>1 DEF IInv, ReadyOnce, Queued
  <2>3. \A i \in 2 .. Len(ready) : ready[i] \in stale \/ ready[i] # ready[1]
    BY <1>2, <1>4, <2>1 DEF IInv, ReadyOnce
  <2>4. QED BY <1>3, <1>4, <1>5, <2>1, <2>2, <2>3 DEF Queued
<1>10. QED BY <1>2, <1>3, <1>6, <1>7, <1>8, <1>9

(* The front is resumed: its coroutine runs, or tries its read again.      *)
LEMMA ResumeStep ==
    ASSUME IInv, ~undefined, Resume, Suspended(Front) PROVE IInv'
<1> DEFINE c == Owner(Front)
           fails == at[c] = "read" /\ inbox[c] = 0
<1>1. running = Nil /\ ready # <<>> /\ loop = "drain"
  BY DEF Resume
<1>2. /\ c \in Coros /\ at[c] \notin {"run", "eagain"}
      /\ \/ Front = c /\ at[c] \in {"start", "sleep"}
         \/ Front = frame[c] /\ at[c] = "read"
      /\ \A d \in Coros : Front = d \/ Front = frame[d] => d = c
  BY OwnerOf DEF IInv
<1>3. /\ UNCHANGED <<loop, ready, timers, now, ops, last, entry, edge, sent, stale, undefined>>
      /\ running' = c
  BY DEF Resume
<1>4. fails => at' = [at EXCEPT ![c] = "eagain"] /\ UNCHANGED <<frame, inbox>>
  BY DEF Resume
<1>5. ~fails => /\ at' = [at EXCEPT ![c] = "run"]
                /\ frame' = [frame EXCEPT ![c] = Nil]
                /\ inbox' = IF at[c] = "read" THEN [inbox EXCEPT ![c] = @ - 1] ELSE inbox
  BY DEF Resume
<1>6. fails \in BOOLEAN
  OBVIOUS
<1>7. fails => at[c] = "read" /\ inbox[c] = 0
  OBVIOUS
<1>8. at[c] = "read" /\ ~fails => inbox[c] # 0
  OBVIOUS
<1> HIDE DEF c, fails
<1>9. c # Nil
  BY <1>2, LoopAssumption
<1>10. /\ \A h : Queued(h)' => Queued(h) /\ (h \in stale \/ h # Front)
       /\ \A h : Queued(h) /\ h # Front => Queued(h)'
       /\ \A i, j \in Pending' : ready'[i] = ready'[j] /\ ready'[i] \notin stale' => i = j
  <2>1. ready' = ready /\ running' # Nil /\ stale' = stale
    BY <1>3, <1>9
  <2>2. QED BY <1>1, <2>1, FrontLeaves, BehindFront DEF IInv
<1>11. /\ at \in [Coros -> {"start", "run", "sleep", "eagain", "read", "done"}]
       /\ frame \in [Coros -> Addrs \cup {Nil}] /\ inbox \in [Coros -> Nat]
       /\ sent \in [Coros -> Nat] /\ \A d \in Coros : inbox[d] <= sent[d]
  BY DEF IInv, TypeOK
<1>12. ASSUME NEW d \in Coros, d # c
       PROVE  /\ at'[d] = at[d] /\ frame'[d] = frame[d] /\ inbox'[d] = inbox[d]
              /\ d # Front /\ frame[d] # Front
  BY <1>2, <1>4, <1>5, <1>6, <1>11, <1>12
<1>13. fails => at'[c] = "eagain" /\ frame'[c] = frame[c] /\ inbox'[c] = 0
  BY <1>2, <1>4, <1>7, <1>11
<1>14. ~fails => at'[c] = "run" /\ frame'[c] = Nil
  BY <1>2, <1>5, <1>11
<1>15. at'[c] \in {"run", "eagain"}
  BY <1>6, <1>13, <1>14
<1>16. ReadyOnce'
  <2>1. ASSUME NEW h, Queued(h), h \notin stale, h # Front
        PROVE  \E d \in Coros : \/ h = d /\ at'[d] \in {"start", "sleep"}
                                \/ h = frame'[d] /\ at'[d] = "read"
    <3>1. PICK d \in Coros : \/ h = d /\ at[d] \in {"start", "sleep"}
                             \/ h = frame[d] /\ at[d] = "read"
      BY <2>1 DEF IInv, ReadyOnce, Queued, Suspended
    <3>2. d # c
      BY <1>2, <2>1, <3>1
    <3>3. QED BY <1>12, <3>1, <3>2
  <2>2. \A i \in Pending' : \A h : h = ready'[i] => Queued(h)'
    BY DEF Queued
  <2>3. stale' = stale
    BY <1>3
  <2>4. ASSUME NEW i \in Pending', NEW h, h = ready'[i], h \notin stale'
        PROVE  \E d \in Coros : \/ h = d /\ at'[d] \in {"start", "sleep"}
                                \/ h = frame'[d] /\ at'[d] = "read"
    <3>1. Queued(h)'
      BY <2>2, <2>4
    <3>2. Queued(h) /\ h # Front /\ h \notin stale
      BY <1>10, <2>3, <2>4, <3>1
    <3>3. QED BY <2>1, <3>2
  <2>5. (\A i \in Pending : ready[i] \notin stale => Suspended(ready[i]))'
    BY <2>4 DEF Suspended
  <2>6. QED BY <1>10, <2>5 DEF ReadyOnce
<1>17. TimersOnce'
  <2>1. \A h : HasTimer(h)' <=> HasTimer(h)
    BY <1>3 DEF HasTimer
  <2>2. ASSUME NEW d \in Coros, at'[d] \in {"start", "sleep"}
        PROVE  at'[d] = at[d] /\ (Queued(d)' <=> Queued(d))
    <3>1. d # c
      BY <1>15, <2>2
    <3>2. QED BY <1>10, <1>12, <3>1
  <2>3. ASSUME NEW i \in 1 .. Len(timers) PROVE at'[timers[i].coro] = "sleep"
    <3>1. timers[i].coro \in Coros /\ at[timers[i].coro] = "sleep" /\ HasTimer(timers[i].coro)
      BY Typed DEF IInv, TimersOnce, HasTimer
    <3>2. Queued(Front)
      BY <1>1, BehindFront
    <3>3. timers[i].coro # c
      BY <1>2, <3>1, <3>2 DEF IInv, TimersOnce
    <3>4. QED BY <1>12, <3>1, <3>3
  <2>4. QED BY <1>3, <2>1, <2>2, <2>3 DEF IInv, TimersOnce
<1>18. TimersInOrder'
  BY <1>3 DEF IInv, TimersInOrder
<1>19. Sockets'
  <2>1. ASSUME NEW d \in Coros
        PROVE  /\ entry'[d] # Nil => at'[d] # "done"
               /\ at'[d] # "done" => (entry'[d] = Nil <=> last'[d] = Nil)
               /\ at'[d] = "read" => last'[d] = frame'[d]
    <3>1. CASE d = c
      BY <1>2, <1>3, <1>15, <3>1 DEF IInv, Sockets
    <3>2. CASE d # c
      BY <1>3, <1>12, <3>2 DEF IInv, Sockets
    <3>3. QED BY <3>1, <3>2
  <2>2. QED BY <2>1 DEF Sockets
<1>20. Woken'
  <2>1. ASSUME NEW d \in Coros, Registered(d)', inbox'[d] > 0
        PROVE  (\A h : h = frame'[d] => Queued(h)') \/ edge'[d]
    <3>1. d # c
      BY <1>15, <2>1 DEF Registered
    <3>2. Registered(d) /\ frame'[d] = frame[d] /\ inbox[d] > 0 /\ frame[d] # Front
      BY <1>3, <1>12, <2>1, <3>1 DEF Registered
    <3>3. QED BY <1>3, <1>10, <3>2 DEF IInv, Woken
  <2>2. ASSUME NEW d \in Coros, at'[d] = "eagain", inbox'[d] > 0 PROVE FALSE
    <3>1. d = c
      BY <1>1, <1>12, <2>2, LoopAssumption DEF IInv, Places
    <3>2. QED BY <1>6, <1>13, <1>14, <2>2, <3>1
  <2>3. QED BY <2>1, <2>2 DEF Woken, Queued
<1>21. Places'
  <2>1. Watched' = Watched
    BY <1>3 DEF Watched
  <2>2. ASSUME NEW d \in Coros PROVE at'[d] \in {"run", "eagain"} <=> running' = d
    <3>1. d # c => at[d] \notin {"run", "eagain"}
      BY <1>1, LoopAssumption DEF IInv, Places
    <3>2. QED BY <1>3, <1>12, <1>15, <3>1
  <2>3. loop' = "drain" /\ ready' # <<>> /\ (ready'[1] \in Coros => ready'[1] = running')
    <3>1. ready'[1] = Front
      BY <1>1, <1>3, BehindFront
    <3>2. Front \in Coros => Front = c
      BY <1>2
    <3>3. QED BY <1>1, <1>3, <3>1, <3>2
  <2>4. ASSUME NEW d \in Coros PROVE at'[d] \in {"eagain", "read"} <=> frame'[d] # Nil
    <3>1. CASE d = c
      BY <1>2, <1>6, <1>7, <1>13, <1>14, <3>1 DEF IInv, Places
    <3>2. CASE d # c
      BY <1>12, <3>2 DEF IInv, Places
    <3>3. QED BY <3>1, <3>2
  <2>5. \A d \in Coros : frame'[d] = frame[d] \/ frame'[d] = Nil
    BY <1>6, <1>12, <1>13, <1>14
  <2>6. \A d, e \in Coros : frame'[d] = frame'[e] /\ frame'[d] # Nil => d = e
    BY <2>5 DEF IInv, Places
  <2>7. QED BY <2>2, <2>3, <2>4, <2>6 DEF Places
<1>22. TypeOK'
  <2>1. /\ at' \in [Coros -> {"start", "run", "sleep", "eagain", "read", "done"}]
        /\ frame' \in [Coros -> Addrs \cup {Nil}] /\ running' \in Coros \cup {Nil}
    BY <1>2, <1>3, <1>4, <1>5, <1>6, <1>11
  <2>2. inbox' \in [Coros -> Nat] /\ \A d \in Coros : inbox'[d] <= inbox[d]
    <3>1. CASE inbox' = inbox
      BY <1>11, <3>1
    <3>2. CASE ~fails /\ at[c] = "read"
      <4>1. inbox[c] \in Nat /\ inbox[c] # 0
        BY <1>2, <1>8, <1>11, <3>2
      <4>2. inbox' = [inbox EXCEPT ![c] = @ - 1]
        BY <1>5, <3>2
      <4>3. QED BY <1>2, <1>11, <4>1, <4>2
    <3>3. QED BY <1>4, <1>5, <1>6, <3>1, <3>2
  <2>3. \A d \in Coros : inbox'[d] <= sent[d]
    BY <1>11, <2>2
  <2>4. QED BY <1>3, <2>1, <2>2, <2>3 DEF IInv, TypeOK
<1>23. NoStrayResume'
  BY <1>3 DEF NoStrayResume
<1>24. QED BY <1>16, <1>17, <1>18, <1>19, <1>20, <1>21, <1>22, <1>23 DEF IInv

(* Nothing is suspended under the front: it was reported in error.         *)
LEMMA StrayStep ==
    ASSUME IInv, ~undefined, Resume, ~Suspended(Front) PROVE IInv'
<1>1. /\ UNCHANGED <<loop, ready, timers, now, running, at, frame, ops, last, entry, edge,
                     inbox, sent, stale>>
      /\ undefined' = TRUE /\ running = Nil /\ ready # <<>>
  BY DEF Resume
<1>2. NoStrayResume'
  BY <1>1, BehindFront DEF NoStrayResume, Front
<1>3. TypeOK'
  BY <1>1 DEF IInv, TypeOK
<1>4. Places'
  <2>1. Watched' = Watched
    BY <1>1 DEF Watched
  <2>2. QED BY <1>1, <2>1 DEF IInv, Places
<1>5. Woken'
  <2>1. \A h : Queued(h)' <=> Queued(h)
    BY <1>1 DEF Pending, Queued
  <2>2. QED BY <1>1, <2>1 DEF IInv, Woken, Registered
<1>6. QED BY <1>1, <1>2, <1>3, <1>4, <1>5, HandlesStay

(* A coroutine that suspends leaves the front, and nothing else changes    *)
(* for those behind it.                                                    *)
LEMMA Yielded ==
    ASSUME IInv, NEW c \in Coros, running = c, NEW where, Yield(c, where), stale' = stale,
           \A d \in Coros : d # c => frame'[d] = frame[d]
    PROVE  /\ ready' \in Seq(Handles) /\ ReadyOnce'
           /\ \A h : Queued(h)' <=> Queued(h)
           /\ ~Queued(c) /\ ~HasTimer(c) /\ at[c] \in {"run", "eagain"}
           /\ loop = "drain" /\ running' = Nil /\ at'[c] = where
           /\ \A d \in Coros : d # c => at'[d] = at[d] /\ at[d] \notin {"run", "eagain"}
<1>1. running # Nil /\ ready # <<>> /\ loop = "drain" /\ at[c] \in {"run", "eagain"}
  BY LoopAssumption DEF IInv, Places
<1>2. ready' = Tail(ready) /\ running' = Nil /\ at' = [at EXCEPT ![c] = where]
  BY DEF Yield
<1>3. /\ ready' \in Seq(Handles)
      /\ \A h : Queued(h)' <=> Queued(h)
      /\ \A i, j \in Pending' : ready'[i] = ready'[j] /\ ready'[i] \notin stale' => i = j
  BY <1>1, <1>2, FrontLeaves, BehindFront DEF IInv
<1>4. at'[c] = where /\ \A d \in Coros : d # c => at'[d] = at[d] /\ at[d] \notin {"run", "eagain"}
  BY <1>2 DEF IInv, TypeOK, Places
<1>5. ASSUME NEW h, Queued(h), h \notin stale
      PROVE  \E d \in Coros : \/ h = d /\ at'[d] \in {"start", "sleep"} /\ d # c
                              \/ h = frame'[d] /\ at'[d] = "read" /\ d # c
  <2>1. PICK d \in Coros : \/ h = d /\ at[d] \in {"start", "sleep"}
                           \/ h = frame[d] /\ at[d] = "read"
    BY <1>5 DEF IInv, ReadyOnce, Queued, Suspended
  <2>2. d # c
    BY <1>1, <2>1
  <2>3. QED BY <1>4, <2>1, <2>2
<1>6. (\A i \in Pending : ready[i] \notin stale => Suspended(ready[i]))'
  <2>1. \A i \in Pending' : Queued(ready'[i])
    BY <1>3 DEF Queued
  <2>2. QED BY <1>5, <2>1 DEF Suspended
<1>7. ~Queued(c)
  <2>1. SUFFICES ASSUME Suspended(c) PROVE FALSE
    <3>1. c \notin stale
      BY LoopAssumption DEF IInv, TypeOK
    <3>2. QED BY <2>1, <3>1 DEF IInv, ReadyOnce, Queued
  <2>2. /\ at[Owner(c)] \notin {"run", "eagain"} /\ c = Owner(c)
    BY <2>1, OwnerOf DEF IInv
  <2>3. QED BY <1>1, <2>2
<1>8. ~HasTimer(c)
  BY <1>1 DEF IInv, TimersOnce, HasTimer
<1>9. QED BY <1>1, <1>2, <1>3, <1>4, <1>6, <1>7, <1>8 DEF ReadyOnce

LEMMA SleepStep ==
    ASSUME IInv, ~undefined, NEW c \in Coros, NEW d \in Delays, SleepAwait(c, d)
    PROVE  IInv'
<1> DEFINE t == [due |-> now + d, coro |-> c]
           k == Cardinality({i \in 1 .. Len(timers) : timers[i].due <= now + d})
<1>1. /\ running = c /\ at[c] = "run" /\ Yield(c, "sleep") /\ AddTimer(t)
      /\ ops[c] < MaxOps[c] /\ ops' = [ops EXCEPT ![c] = @ + 1]
      /\ UNCHANGED <<loop, now, frame, last, entry, edge, inbox, sent, stale, undefined>>
  BY DEF SleepAwait, Begin, io
<1>2. /\ ready' \in Seq(Handles) /\ ReadyOnce'
      /\ \A h : Queued(h)' <=> Queued(h)
      /\ ~Queued(c) /\ ~HasTimer(c) /\ frame[c] = Nil
      /\ loop = "drain" /\ running' = Nil /\ at'[c] = "sleep"
      /\ \A b \in Coros : b # c => at'[b] = at[b] /\ at[b] \notin {"run", "eagain"}
  <2>1. frame[c] = Nil
    BY <1>1 DEF IInv, Places
  <2>2. QED BY <1>1, <2>1, Yielded
<1>3. now + d \in Nat /\ now + d \in Int /\ t \in [due : Nat, coro : Coros]
  BY LoopAssumption, Typed DEF IInv
<1>4. k \in 0 .. Len(timers) /\ {i \in 1 .. Len(timers) : timers[i].due <= now + d} = 1 .. k
  BY <1>3, DueFirst DEF IInv
<1>5. timers' = SubSeq(timers, 1, k) \o <<t>> \o SubSeq(timers, k + 1, Len(timers))
  BY <1>1 DEF AddTimer
<1>6. t.due = now + d /\ t.coro = c
  OBVIOUS
<1> HIDE DEF t, k
<1>7. k \in Nat /\ k <= Len(timers) /\ Len(timers) \in Nat
  BY <1>4, Typed DEF IInv
<1>8. /\ timers' \in Seq([due : Nat, coro : Coros]) /\ Len(timers') = Len(timers) + 1
      /\ timers'[k + 1] = t
      /\ \A i \in 1 .. k : timers'[i] = timers[i]
      /\ \A i \in k + 1 .. Len(timers) : timers'[i + 1] = timers[i]
  <2>1. timers \in Seq([due : Nat, coro : Coros]) /\ k \in 0 .. Len(timers)
    BY <1>4, Typed DEF IInv
  <2>2. t \in [due : Nat, coro : Coros]
    BY <1>3
  <2>3. timers' = Inserted(timers, t, k)
    BY <1>5 DEF Inserted
  <2>4. InsertedRight([due : Nat, coro : Coros], timers, t, k)
    BY <2>1, <2>2, InsertAt
  <2>5. QED BY <2>3, <2>4 DEF InsertedRight
<1>9. ASSUME NEW i \in 1 .. Len(timers')
      PROVE  \/ i = k + 1 /\ timers'[i] = t
             \/ i \in 1 .. k /\ i \in 1 .. Len(timers) /\ timers'[i] = timers[i]
             \/ /\ i - 1 \in k + 1 .. Len(timers) /\ i - 1 \in 1 .. Len(timers)
                /\ i - 1 \notin 1 .. k /\ i \in Int /\ timers'[i] = timers[i - 1]
  <2>1. i \in Int /\ i >= 1 /\ i <= Len(timers) + 1
    BY <1>7, <1>8
  <2>2. CASE i = k + 1
    BY <1>8, <2>2
  <2>3. CASE i <= k
    BY <1>7, <1>8, <2>1, <2>3
  <2>4. CASE i > k + 1
    <3>1. /\ i - 1 \in k + 1 .. Len(timers) /\ i - 1 \in 1 .. Len(timers)
          /\ i - 1 \notin 1 .. k /\ (i - 1) + 1 = i
      BY <1>7, <2>1, <2>4
    <3>2. QED BY <1>8, <2>1, <3>1
  <2>5. QED BY <1>7, <2>1, <2>2, <2>3, <2>4
<1>10. \A h : HasTimer(h)' <=> HasTimer(h) \/ h = c
  <2>1. ASSUME NEW h, HasTimer(h)' PROVE HasTimer(h) \/ h = c
    BY <1>6, <1>9, <2>1 DEF HasTimer
  <2>2. HasTimer(c)'
    <3>1. k + 1 \in 1 .. Len(timers')
      BY <1>7, <1>8
    <3>2. QED BY <1>6, <1>8, <3>1 DEF HasTimer
  <2>3. ASSUME NEW h, HasTimer(h) PROVE HasTimer(h)'
    <3>1. PICK i \in 1 .. Len(timers) : timers[i].coro = h
      BY <2>3 DEF HasTimer
    <3>2. CASE i <= k
      <4>1. i \in 1 .. k /\ i \in 1 .. Len(timers')
        BY <1>7, <1>8, <3>1, <3>2
      <4>2. QED BY <1>8, <3>1, <4>1 DEF HasTimer
    <3>3. CASE i > k
      <4>1. i \in k + 1 .. Len(timers) /\ i + 1 \in 1 .. Len(timers')
        BY <1>7, <1>8, <3>1, <3>3
      <4>2. QED BY <1>8, <3>1, <4>1 DEF HasTimer
    <3>4. QED BY <1>7, <3>2, <3>3
  <2>4. QED BY <2>1, <2>2, <2>3
<1>11. \A i \in 1 .. Len(timers) : /\ timers[i].coro \in Coros /\ timers[i].coro # c
                                   /\ at'[timers[i].coro] = "sleep"
  <2>1. \A i \in 1 .. Len(timers) : timers[i].coro \in Coros /\ timers[i].coro # c
    BY <1>2, Typed DEF IInv, HasTimer
  <2>2. QED BY <1>2, <2>1 DEF IInv, TimersOnce
<1>12. TimersOnce'
  <2>1. \A b \in Coros : at'[b] = "start" => Queued(b)'
    BY <1>2 DEF IInv, TimersOnce
  <2>2. \A b \in Coros : at'[b] = "sleep" => (HasTimer(b)' <=> ~Queued(b)')
    BY <1>2, <1>10 DEF IInv, TimersOnce
  <2>3. \A i \in 1 .. Len(timers') : at'[timers'[i].coro] = "sleep"
    BY <1>2, <1>6, <1>9, <1>11
  <2>4. ASSUME NEW i \in 1 .. Len(timers'), NEW j \in 1 .. Len(timers'),
               timers'[i].coro = timers'[j].coro
        PROVE  i = j
    <3>1. \A a, b \in 1 .. Len(timers) : timers[a].coro = timers[b].coro => a = b
      BY DEF IInv, TimersOnce
    <3>2. CASE i = k + 1
      BY <1>6, <1>8, <1>9, <1>11, <2>4, <3>2
    <3>3. CASE j = k + 1
      BY <1>6, <1>8, <1>9, <1>11, <2>4, <3>3
    <3>4. CASE i \in 1 .. k /\ i \in 1 .. Len(timers) /\ timers'[i] = timers[i]
      BY <1>9, <2>4, <3>1, <3>3, <3>4
    <3>5. CASE /\ i - 1 \in 1 .. Len(timers) /\ i - 1 \notin 1 .. k /\ i \in Int
               /\ timers'[i] = timers[i - 1]
      <4>1. CASE j \in 1 .. k /\ j \in 1 .. Len(timers) /\ timers'[j] = timers[j]
        BY <2>4, <3>1, <3>5, <4>1
      <4>2. CASE j - 1 \in 1 .. Len(timers) /\ j \in Int /\ timers'[j] = timers[j - 1]
        <5>1. i - 1 = j - 1
          BY <2>4, <3>1, <3>5, <4>2
        <5>2. QED BY <3>5, <4>2, <5>1
      <4>3. QED BY <1>9, <3>3, <4>1, <4>2
    <3>6. QED BY <1>9, <3>2, <3>4, <3>5
  <2>5. QED BY <2>1, <2>2, <2>3, <2>4 DEF TimersOnce
<1>13. TimersInOrder'
  <2>1. SUFFICES ASSUME NEW i \in 1 .. Len(timers'), NEW j \in 1 .. Len(timers'), i < j
                 PROVE  timers'[i].due <= timers'[j].due
    BY DEF TimersInOrder
  <2>2. \A b \in 1 .. Len(timers) : timers[b].due \in Int /\ (timers[b].due <= now + d <=> b \in 1 .. k)
    BY <1>4, Typed DEF IInv
  <2>3. \A a, b \in 1 .. Len(timers) : a < b => timers[a].due <= timers[b].due
    BY DEF IInv, TimersInOrder
  <2>4. i \in Int /\ j \in Int
    OBVIOUS
  <2>5. CASE i = k + 1
    <3>1. /\ j - 1 \in 1 .. Len(timers) /\ j - 1 \notin 1 .. k
          /\ timers'[j] = timers[j - 1] /\ timers'[i] = t
      BY <1>7, <1>9, <2>1, <2>4, <2>5
    <3>2. ~(timers[j - 1].due <= now + d) /\ timers[j - 1].due \in Int
      BY <2>2, <3>1
    <3>3. QED BY <1>3, <1>6, <3>1, <3>2
  <2>6. CASE j = k + 1
    <3>1. i \in 1 .. k /\ i \in 1 .. Len(timers) /\ timers'[i] = timers[i] /\ timers'[j] = t
      BY <1>7, <1>9, <2>1, <2>4, <2>6
    <3>2. QED BY <1>6, <2>2, <3>1
  <2>7. CASE i \in 1 .. k /\ j \in 1 .. k
    <3>1. timers'[i] = timers[i] /\ timers'[j] = timers[j] /\ i \in 1 .. Len(timers) /\ j \in 1 .. Len(timers)
      <4>1. \A x \in 1 .. k : x \in 1 .. Len(timers)
        BY <1>7
      <4>2. QED BY <1>8, <2>7, <4>1
    <3>2. QED BY <2>1, <2>3, <3>1
  <2>8. CASE i \in 1 .. k /\ j > k + 1
    <3>1. /\ i \in 1 .. Len(timers) /\ timers'[i] = timers[i]
          /\ j - 1 \in 1 .. Len(timers) /\ timers'[j] = timers[j - 1] /\ i < j - 1
      BY <1>7, <1>9, <2>4, <2>8
    <3>2. QED BY <2>3, <3>1
  <2>9. CASE i > k + 1
    <3>1. /\ i - 1 \in 1 .. Len(timers) /\ timers'[i] = timers[i - 1]
          /\ j - 1 \in 1 .. Len(timers) /\ timers'[j] = timers[j - 1] /\ i - 1 < j - 1
      BY <1>7, <1>9, <2>1, <2>4, <2>9
    <3>2. QED BY <2>3, <3>1
  <2>10. QED BY <1>7, <2>1, <2>4, <2>5, <2>6, <2>7, <2>8, <2>9
<1>14. Sockets'
  BY <1>1, <1>2 DEF IInv, Sockets
<1>15. Woken'
  BY <1>1, <1>2 DEF IInv, Woken, Registered
<1>16. Places'
  <2>1. Watched' = Watched
    BY <1>1 DEF Watched
  <2>2. \A b \in Coros : at'[b] \in {"run", "eagain"} <=> running' = b
    BY <1>2, LoopAssumption
  <2>3. QED BY <1>1, <1>2, <2>1, <2>2 DEF IInv, Places
<1>17. TypeOK'
  <2>1. ops' \in [Coros -> Nat] /\ \A b \in Coros : ops'[b] <= MaxOps[b]
    <3>1. ops \in [Coros -> Nat] /\ MaxOps \in [Coros -> Nat] /\ \A b \in Coros : ops[b] <= MaxOps[b]
      BY LoopAssumption DEF IInv, TypeOK
    <3>2. QED BY <1>1, <3>1
  <2>2. at' \in [Coros -> {"start", "run", "sleep", "eagain", "read", "done"}]
    BY <1>1 DEF IInv, TypeOK, Yield
  <2>3. QED BY <1>1, <1>2, <1>8, <2>1, <2>2 DEF IInv, TypeOK
<1>18. NoStrayResume'
  BY <1>1 DEF NoStrayResume
<1>19. QED BY <1>2, <1>12, <1>13, <1>14, <1>15, <1>16, <1>17, <1>18 DEF IInv

(* A read suspends.  If the awaiter knows its frame the socket is          *)
(* registered, and what has come since the recv failed left an event.      *)
LEMMA ReadStep ==
    ASSUME IInv, ~undefined, NEW c \in Coros, ReadAwait(c)
    PROVE  IInv'
<1>1. /\ running = c /\ at[c] = "eagain" /\ Yield(c, "read")
      /\ last' = [last EXCEPT ![c] = frame[c]]
      /\ IF last[c] = frame[c] THEN UNCHANGED <<entry, edge>> ELSE EpollInsert(c, frame[c])
      /\ UNCHANGED <<loop, timers, now, frame, ops, inbox, sent, stale, undefined>>
  BY DEF ReadAwait
<1>2. /\ frame \in [Coros -> Addrs \cup {Nil}] /\ last \in [Coros -> Addrs \cup {Nil}]
      /\ entry \in [Coros -> Addrs \cup {Nil}] /\ edge \in [Coros -> BOOLEAN]
      /\ at \in [Coros -> {"start", "run", "sleep", "eagain", "read", "done"}]
      /\ inbox \in [Coros -> Nat]
  BY DEF IInv, TypeOK
<1>3. /\ ready' \in Seq(Handles) /\ ReadyOnce'
      /\ \A h : Queued(h)' <=> Queued(h)
      /\ ~Queued(c) /\ ~HasTimer(c)
      /\ loop = "drain" /\ running' = Nil /\ at'[c] = "read"
      /\ \A d \in Coros : d # c => at'[d] = at[d] /\ at[d] \notin {"run", "eagain"}
  BY <1>1, Yielded
<1>4. last'[c] = frame[c] /\ frame[c] # Nil
  BY <1>1, <1>2 DEF IInv, Places
<1>5. /\ entry'[c] # Nil /\ (inbox[c] > 0 => edge'[c])
      /\ \A d \in Coros : d # c => entry'[d] = entry[d] /\ edge'[d] = edge[d] /\ last'[d] = last[d]
      /\ entry' \in [Coros -> Addrs \cup {Nil}] /\ edge' \in [Coros -> BOOLEAN]
  <2>1. CASE last[c] = frame[c]
    <3>1. entry[c] # Nil
      BY <1>1, <1>4, <2>1 DEF IInv, Sockets
    <3>2. inbox[c] > 0 => edge[c]
      BY <1>1, <3>1 DEF IInv, Woken
    <3>3. QED BY <1>1, <1>2, <2>1, <3>1, <3>2
  <2>2. CASE last[c] # frame[c]
    <3>1. /\ entry' = IF entry[c] = Nil THEN [entry EXCEPT ![c] = frame[c]] ELSE entry
          /\ edge' = [edge EXCEPT ![c] = inbox[c] > 0]
      BY <1>1, <2>2 DEF EpollInsert
    <3>2. (inbox[c] > 0) \in BOOLEAN
      OBVIOUS
    <3>3. QED BY <1>1, <1>2, <1>4, <3>1, <3>2
  <2>3. QED BY <2>1, <2>2
<1>6. TimersOnce'
  <2>1. \A h : HasTimer(h)' <=> HasTimer(h)
    BY <1>1 DEF HasTimer
  <2>2. \A i \in 1 .. Len(timers) : at'[timers[i].coro] = "sleep"
    <3>1. \A i \in 1 .. Len(timers) : timers[i].coro \in Coros /\ timers[i].coro # c
      BY <1>3, Typed DEF IInv, HasTimer
    <3>2. QED BY <1>3, <3>1 DEF IInv, TimersOnce
  <2>3. QED BY <1>1, <1>3, <2>1, <2>2 DEF IInv, TimersOnce
<1>7. TimersInOrder'
  BY <1>1 DEF IInv, TimersInOrder
<1>8. Sockets'
  BY <1>1, <1>3, <1>4, <1>5 DEF IInv, Sockets
<1>9. Woken'
  <2>1. ASSUME NEW d \in Coros, Registered(d)', inbox'[d] > 0
        PROVE  (\A h : h = frame'[d] => Queued(h)') \/ edge'[d]
    <3>1. CASE d = c
      BY <1>1, <1>5, <2>1, <3>1
    <3>2. CASE d # c
      BY <1>1, <1>3, <1>5, <2>1, <3>2 DEF IInv, Woken, Registered
    <3>3. QED BY <3>1, <3>2
  <2>2. \A d \in Coros : at'[d] # "eagain"
    BY <1>3
  <2>3. QED BY <2>1, <2>2 DEF Woken, Queued
<1>10. Places'
  <2>1. \A b \in Coros : at'[b] \in {"run", "eagain"} <=> running' = b
    BY <1>3, LoopAssumption
  <2>2. QED BY <1>1, <1>3, <1>4, <2>1 DEF IInv, Places
<1>11. TypeOK'
  <2>1. /\ at' \in [Coros -> {"start", "run", "sleep", "eagain", "read", "done"}]
        /\ last' \in [Coros -> Addrs \cup {Nil}]
    BY <1>1, <1>2 DEF Yield
  <2>2. QED BY <1>1, <1>3, <1>5, <2>1 DEF IInv, TypeOK
<1>12. NoStrayResume'
  BY <1>1 DEF NoStrayResume
<1>13. QED BY <1>3, <1>6, <1>7, <1>8, <1>9, <1>10, <1>11, <1>12 DEF IInv

LEMMA FinishStep ==
    ASSUME IInv, ~undefined, NEW c \in Coros, Finish(c)
    PROVE  IInv'
<1>1. /\ running = c /\ at[c] = "run" /\ Yield(c, "done")
      /\ entry' = [entry EXCEPT ![c] = Nil] /\ edge' = [edge EXCEPT ![c] = FALSE]
      /\ UNCHANGED <<loop, timers, now, frame, ops, last, inbox, sent, stale, undefined>>
  BY DEF Finish
<1>2. /\ entry \in [Coros -> Addrs \cup {Nil}] /\ edge \in [Coros -> BOOLEAN]
      /\ at \in [Coros -> {"start", "run", "sleep", "eagain", "read", "done"}]
  BY DEF IInv, TypeOK
<1>3. /\ ready' \in Seq(Handles) /\ ReadyOnce'
      /\ \A h : Queued(h)' <=> Queued(h)
      /\ ~Queued(c) /\ ~HasTimer(c) /\ frame[c] = Nil
      /\ loop = "drain" /\ running' = Nil /\ at'[c] = "done"
      /\ \A d \in Coros : d # c => at'[d] = at[d] /\ at[d] \notin {"run", "eagain"}
  <2>1. frame[c] = Nil
    BY <1>1 DEF IInv, Places
  <2>2. QED BY <1>1, <2>1, Yielded
<1>4. entry'[c] = Nil /\ \A d \in Coros : d # c => entry'[d] = entry[d] /\ edge'[d] = edge[d]
  BY <1>1, <1>2
<1>5. TimersOnce'
  <2>1. \A h : HasTimer(h)' <=> HasTimer(h)
    BY <1>1 DEF HasTimer
  <2>2. \A i \in 1 .. Len(timers) : at'[timers[i].coro] = "sleep"
    <3>1. \A i \in 1 .. Len(timers) : timers[i].coro \in Coros /\ timers[i].coro # c
      BY <1>3, Typed DEF IInv, HasTimer
    <3>2. QED BY <1>3, <3>1 DEF IInv, TimersOnce
  <2>3. QED BY <1>1, <1>3, <2>1, <2>2 DEF IInv, TimersOnce
<1>6. TimersInOrder'
  BY <1>1 DEF IInv, TimersInOrder
<1>7. Sockets'
  BY <1>1, <1>3, <1>4 DEF IInv, Sockets
<1>8. Woken'
  BY <1>1, <1>3, <1>4 DEF IInv, Woken, Registered
<1>9. Places'
  <2>1. \A b \in Coros : at'[b] \in {"run", "eagain"} <=> running' = b
    BY <1>3, LoopAssumption
  <2>2. QED BY <1>1, <1>3, <2>1 DEF IInv, Places
<1>10. TypeOK'
  <2>1. /\ at' \in [Coros -> {"start", "run", "sleep", "eagain", "read", "done"}]
        /\ entry' \in [Coros -> Addrs \cup {Nil}] /\ edge' \in [Coros -> BOOLEAN]
    BY <1>1, <1>2 DEF Yield
  <2>2. QED BY <1>1, <1>3, <2>1 DEF IInv, TypeOK
<1>11. NoStrayResume'
  BY <1>1 DEF NoStrayResume
<1>12. QED BY <1>3, <1>5, <1>6, <1>7, <1>8, <1>9, <1>10, <1>11 DEF IInv

LEMMA InitInv ==
    ASSUME Init PROVE IInv
<1>1. /\ ready \in Seq(Coros) /\ Len(ready) \in Nat
      /\ \A i, j \in 1 .. Len(ready) : ready[i] = ready[j] => i = j
      /\ \A c \in Coros : \E i \in 1 .. Len(ready) : ready[i] = c
  BY OrdersCover, LoopAssumption DEF Init
<1>2. ready \in Seq(Handles) /\ \A i \in 1 .. Len(ready) : ready[i] \in Coros
  <2>1. Coros \subseteq Handles
    BY DEF Handles
  <2>2. QED BY <1>1, <2>1, SeqMonotonic, ElementOfSeq
<1>3. Pending = 1 .. Len(ready)
  BY DEF Init, Pending
<1>4. /\ \A c \in Coros : /\ at[c] = "start" /\ frame[c] = Nil /\ entry[c] = Nil /\ last[c] = Nil
      /\ running = Nil /\ loop = "timers" /\ timers = <<>> /\ undefined = FALSE /\ stale = {}
  BY DEF Init
<1>5. 1 .. Len(timers) = {}
  BY <1>4
<1>6. ReadyOnce
  BY <1>1, <1>2, <1>3, <1>4 DEF ReadyOnce, Suspended
<1>7. TimersOnce /\ TimersInOrder
  BY <1>1, <1>3, <1>4, <1>5 DEF TimersOnce, TimersInOrder, Queued
<1>8. Places /\ Sockets /\ Woken /\ NoStrayResume
  BY <1>4, LoopAssumption DEF Places, Sockets, Woken, Registered, NoStrayResume
<1>9. TypeOK
  <2>1. MaxTime \in Nat /\ MaxOps \in [Coros -> Nat] /\ MaxSent \in [Coros -> Nat] /\ 0 \in 0 .. MaxTime
    BY LoopAssumption
  <2>2. timers \in Seq([due : Nat, coro : Coros])
    BY <1>4
  <2>3. now \in 0 .. MaxTime
    BY <2>1 DEF Init
  <2>4. /\ ops = [c \in Coros |-> 0] /\ inbox = [c \in Coros |-> 0] /\ sent = [c \in Coros |-> 0]
        /\ at = [c \in Coros |-> "start"] /\ edge = [c \in Coros |-> FALSE]
        /\ frame = [c \in Coros |-> Nil] /\ last = [c \in Coros |-> Nil]
        /\ entry = [c \in Coros |-> Nil]
    BY DEF Init
  <2>5. /\ ops \in [Coros -> Nat] /\ \A c \in Coros : ops[c] <= MaxOps[c]
        /\ inbox \in [Coros -> Nat] /\ sent \in [Coros -> Nat]
        /\ \A c \in Coros : inbox[c] <= sent[c] /\ sent[c] <= MaxSent[c]
    BY <2>1, <2>4
  <2>6. QED BY <1>2, <1>4, <2>2, <2>3, <2>4, <2>5 DEF TypeOK
<1>10. QED BY <1>4, <1>6, <1>7, <1>8, <1>9 DEF IInv

LEMMA StepInv ==
    ASSUME IInv, [Next]_vars PROVE IInv'
<1>1. ASSUME ~undefined, LoopStep PROVE IInv'
  BY <1>1, TakeTimersStep, EpollWaitStep, ResumeStep, StrayStep, QuietSteps DEF LoopStep
<1>2. ASSUME ~undefined, NEW c \in Coros, CoroStep(c) PROVE IInv'
  BY <1>2, SleepStep, FailStep, ReadStep, FinishStep, SendSteps DEF CoroStep
<1>3. CASE Tick \/ UNCHANGED vars
  BY <1>3, QuietSteps
<1>4. ASSUME NEW c \in Coros, Send(c) PROVE IInv'
  BY <1>4, SendSteps
<1>5. QED BY <1>1, <1>2, <1>3, <1>4 DEF Next

(* The strengthening holds in every state.                                 *)
THEOREM Invariance == Spec => []IInv
<1>1. Init => IInv
  BY InitInv
<1>2. IInv /\ [Next]_vars => IInv'
  BY StepInv
<1>3. QED BY <1>1, <1>2, PTL DEF Spec

-----------------------------------------------------------------------------
(* What follows from the strengthening.                                    *)

(* A handle that nothing is suspended under is resumed only after epoll    *)
(* has reported it for a coroutine that did not wait under it.             *)
THEOREM OnlySuspended == Spec => []NoStrayResume
<1>1. IInv => NoStrayResume
  BY DEF IInv
<1>2. QED BY <1>1, Invariance, PTL

(* A registered reader for which a message lies in the kernel is in the    *)
(* ready queue or has an event to come.                                    *)
THEOREM WakeupsKept == Spec => []NoWakeupMissed
<1>1. IInv => NoWakeupMissed
  <2>1. \A h : Queued(h) => InReady(h)
    BY DEF Queued, Pending, InReady
  <2>2. QED BY <2>1 DEF IInv, Woken, NoWakeupMissed
<1>2. QED BY <1>1, Invariance, PTL

(* run() returns only when every coroutine has run to its end.             *)
THEOREM ReturnsDone == Spec => []ExitMeansDone
<1>1. ASSUME IInv, loop = "exit", NEW c \in Coros PROVE at[c] = "done"
  <2>1. ready = <<>> /\ timers = <<>> /\ Watched = {} /\ running = Nil
    BY <1>1 DEF IInv, Places
  <2>2. ~Queued(c) /\ ~HasTimer(c)
    BY <2>1 DEF Queued, Pending, HasTimer
  <2>3. at[c] \notin {"start", "sleep"}
    BY <1>1, <2>2 DEF IInv, TimersOnce
  <2>4. at[c] \notin {"run", "eagain"}
    BY <1>1, <2>1, LoopAssumption DEF IInv, Places
  <2>5. at[c] # "read"
    <3>1. entry[c] = Nil
      BY <2>1 DEF Watched
    <3>2. at[c] = "read" => last[c] # Nil /\ entry[c] # Nil
      BY <1>1 DEF IInv, Sockets, Places
    <3>3. QED BY <3>1, <3>2
  <2>6. QED BY <1>1, <2>3, <2>4, <2>5 DEF IInv, TypeOK
<1>2. IInv => ExitMeansDone
  BY <1>1 DEF ExitMeansDone
<1>3. QED BY <1>2, Invariance, PTL

(* A coroutine that sleeps has one timer or one place in the ready queue,  *)
(* and the timers are in the order in which they are due.                  *)
THEOREM SleepersOnce == Spec => []SleepersQueuedOnce
<1>1. ASSUME IInv, NEW c \in Coros, at[c] = "sleep"
      PROVE  Cardinality({i \in 1 .. Len(timers) : timers[i].coro = c})
               + Cardinality({i \in 1 .. Len(ready) : ready[i] = c}) = 1
  <2> DEFINE A == {i \in 1 .. Len(timers) : timers[i].coro = c}
             B == {i \in 1 .. Len(ready) : ready[i] = c}
  <2>1. \A i \in 1 .. Len(ready) : ready[i] = c => i \in Pending
    <3>1. SUFFICES ASSUME running # Nil PROVE ready[1] # c
      BY DEF Pending
    <3>2. ready[1] \in Coros => ready[1] = running
      BY <1>1, <3>1 DEF IInv, Places
    <3>3. running # c
      BY <1>1 DEF IInv, Places
    <3>4. QED BY <3>2, <3>3
  <2>2. CASE HasTimer(c)
    <3>1. ~Queued(c)
      BY <1>1, <2>2 DEF IInv, TimersOnce
    <3>2. B = {}
      BY <2>1, <3>1 DEF Queued
    <3>3. PICK k \in 1 .. Len(timers) : timers[k].coro = c
      BY <2>2 DEF HasTimer
    <3>4. A = {k}
      BY <1>1, <3>3 DEF IInv, TimersOnce
    <3> HIDE DEF A, B
    <3>5. Cardinality(A) = 1 /\ Cardinality(B) = 0
      BY <3>2, <3>4, FS_Singleton, FS_EmptySet
    <3>6. Cardinality(A) + Cardinality(B) = 1
      BY <3>5
    <3>7. QED BY <3>6 DEF A, B
  <2>3. CASE ~HasTimer(c)
    <3>1. Queued(c)
      BY <1>1, <2>3 DEF IInv, TimersOnce
    <3>2. A = {}
      BY <2>3 DEF HasTimer
    <3>3. PICK k \in Pending : ready[k] = c
      BY <3>1 DEF Queued
    <3>4. B = {k}
      <4>1. c \notin stale
        BY <1>1, LoopAssumption DEF IInv, TypeOK
      <4>2. QED BY <1>1, <2>1, <3>3, <4>1 DEF IInv, ReadyOnce, Pending
    <3> HIDE DEF A, B
    <3>5. Cardinality(A) = 0 /\ Cardinality(B) = 1
      BY <3>2, <3>4, FS_Singleton, FS_EmptySet
    <3>6. Cardinality(A) + Cardinality(B) = 1
      BY <3>5
    <3>7. QED BY <3>6 DEF A, B
  <2>4. QED BY <2>2, <2>3
<1>2. IInv => SleepersQueuedOnce
  BY <1>1 DEF IInv, TimersOnce, TimersInOrder, SleepersQueuedOnce
<1>3. QED BY <1>2, Invariance, PTL

(* A step takes out of the timers only those that are due.                 *)
LEMMA NeverEarlyStep ==
    ASSUME IInv, [Next]_vars, NEW i \in 1 .. Len(timers), timers[i].due > now
    PROVE  \E j \in 1 .. Len(timers') : timers'[j] = timers[i]
<1>1. /\ timers \in Seq([due : Nat, coro : Coros]) /\ Len(timers) \in Nat /\ now \in Nat
      /\ timers[i].due \in Nat
  BY Typed DEF IInv
<1>2. CASE timers' = timers
  BY <1>2
<1>3. CASE TakeTimers
  <2> DEFINE n == Cardinality(Due)
  <2>1. timers' = SubSeq(timers, n + 1, Len(timers))
    BY <1>3 DEF TakeTimers
  <2>2. n \in 0 .. Len(timers) /\ Due = 1 .. n
    <3>1. now \in Int
      BY <1>1
    <3>2. QED BY <3>1, DueFirst DEF IInv, Due
  <2>3. i \notin Due
    BY <1>1 DEF Due
  <2> HIDE DEF n
  <2>4. Len(timers') = Len(timers) - n /\ \A j \in 1 .. Len(timers) - n : timers'[j] = timers[n + j]
    BY <1>1, <2>1, <2>2, RestFrom
  <2>5. i - n \in 1 .. Len(timers) - n /\ n + (i - n) = i
    BY <1>1, <2>2, <2>3
  <2>6. QED BY <2>4, <2>5
<1>4. ASSUME NEW c \in Coros, NEW d \in Delays, SleepAwait(c, d)
      PROVE  \E j \in 1 .. Len(timers') : timers'[j] = timers[i]
  <2> DEFINE t == [due |-> now + d, coro |-> c]
             k == Cardinality({b \in 1 .. Len(timers) : timers[b].due <= t.due})
  <2>1. now + d \in Nat /\ t \in [due : Nat, coro : Coros] /\ t.due \in Int
    BY <1>1, LoopAssumption
  <2>2. timers' = Inserted(timers, t, k)
    BY <1>4 DEF SleepAwait, AddTimer, Inserted
  <2> HIDE DEF t
  <2>3. k \in 0 .. Len(timers)
    BY <2>1, DueFirst DEF IInv
  <2> HIDE DEF k
  <2>4. InsertedRight([due : Nat, coro : Coros], timers, t, k)
    BY <1>1, <2>1, <2>3, InsertAt
  <2>5. /\ Len(timers') = Len(timers) + 1
        /\ \A b \in 1 .. k : timers'[b] = timers[b]
        /\ \A b \in k + 1 .. Len(timers) : timers'[b + 1] = timers[b]
    BY <2>2, <2>4 DEF InsertedRight
  <2>6. CASE i <= k
    <3>1. i \in 1 .. k /\ i \in 1 .. Len(timers) + 1
      BY <1>1, <2>3, <2>6
    <3>2. QED BY <2>5, <3>1
  <2>7. CASE i > k
    <3>1. i \in k + 1 .. Len(timers) /\ i + 1 \in 1 .. Len(timers) + 1
      BY <1>1, <2>3, <2>7
    <3>2. QED BY <2>5, <3>1
  <2>8. QED BY <1>1, <2>3, <2>6, <2>7
<1>5. \/ timers' = timers \/ TakeTimers \/ \E c \in Coros, d \in Delays : SleepAwait(c, d)
  BY DEF Next, LoopStep, CoroStep, Exit, Resume, Drained, SleepFor, EpollWait, ReadNow,
         ReadFails, ReadAwait, Finish, Tick, Send, vars
<1>6. QED BY <1>2, <1>3, <1>4, <1>5

(* No timer is taken before it is due.                                     *)
THEOREM TimersNotEarly == Spec => NeverEarly
<1>1. IInv /\ [Next]_vars =>
        [\A i \in 1 .. Len(timers) :
            timers[i].due > now => \E j \in 1 .. Len(timers') : timers'[j] = timers[i]]_vars
  BY NeverEarlyStep
<1>2. QED BY <1>1, Invariance, PTL DEF Spec, NeverEarly
=============================================================================
