------------------------- MODULE SharedCountProofs -------------------------
(***************************************************************************)
(* The reference counts of SharedCount are exact for every number of       *)
(* threads, handles and objects, and from that: no handle dangles, nothing *)
(* is freed twice or too early, and nothing is leaked.                     *)
(***************************************************************************)
EXTENDS SharedCount, FiniteSetTheorems, TLAPS

(* The types, with a count that may be any integer: its bounds follow from *)
(* Counted.                                                                *)
Types ==
    /\ ptr \in [Handles -> Objects \cup {Nil}]
    /\ owner \in [Handles -> Threads]
    /\ count \in [Objects -> Int]
    /\ mem \in [Objects -> {"new", "alive", "freed"}]
    /\ job \in [Threads -> Job]

(* An assignment that has released its target is between two handles of    *)
(* its thread, and the target is null: nobody else can touch them.         *)
Assigning ==
    \A t \in Threads : job[t].dst # Nil =>
        /\ job[t].dst \in Handles /\ job[t].src \in Handles
        /\ job[t].dst # job[t].src
        /\ owner[job[t].dst] = t /\ owner[job[t].src] = t
        /\ ptr[job[t].dst] = Nil

(* The inductive invariant.                                                *)
IInv == Types /\ Assigning /\ Counted /\ HeldIsAlive /\ FreedOnce /\ NoLeak

-----------------------------------------------------------------------------
(* How many handles refer to an object when one handle changes.            *)

HoldersOf(p, o) == {h \in Handles : p[h] = o}

(* One handle that did not refer to the object now does.                   *)
LEMMA PointTo ==
    ASSUME NEW p \in [Handles -> Objects \cup {Nil}],
           NEW h \in Handles, NEW o \in Objects, p[h] # o
    PROVE  Cardinality(HoldersOf([p EXCEPT ![h] = o], o))
             = Cardinality(HoldersOf(p, o)) + 1
<1>1. HoldersOf([p EXCEPT ![h] = o], o) = HoldersOf(p, o) \cup {h}
  BY DEF HoldersOf
<1>2. IsFiniteSet(HoldersOf(p, o))
  BY FS_Subset, SharedAssumption DEF HoldersOf
<1>3. h \notin HoldersOf(p, o)
  BY DEF HoldersOf
<1> QED
  BY <1>1, <1>2, <1>3, FS_AddElement

(* One handle that referred to the object no longer does.                  *)
LEMMA PointAway ==
    ASSUME NEW p \in [Handles -> Objects \cup {Nil}],
           NEW h \in Handles, NEW o \in Objects, p[h] = o,
           NEW v \in Objects \cup {Nil}, v # o
    PROVE  Cardinality(HoldersOf([p EXCEPT ![h] = v], o))
             = Cardinality(HoldersOf(p, o)) - 1
<1>1. HoldersOf([p EXCEPT ![h] = v], o) = HoldersOf(p, o) \ {h}
  BY DEF HoldersOf
<1>2. IsFiniteSet(HoldersOf(p, o))
  BY FS_Subset, SharedAssumption DEF HoldersOf
<1>3. h \in HoldersOf(p, o)
  BY DEF HoldersOf
<1> QED
  BY <1>1, <1>2, <1>3, FS_RemoveElement

(* A handle that has nothing to do with the object, before or after.       *)
LEMMA PointElsewhere ==
    ASSUME NEW p \in [Handles -> Objects \cup {Nil}],
           NEW h \in Handles, NEW o \in Objects, p[h] # o,
           NEW v \in Objects \cup {Nil}, v # o
    PROVE  HoldersOf([p EXCEPT ![h] = v], o) = HoldersOf(p, o)
BY DEF HoldersOf

(* The number of handles is a natural number, at most that of all handles, *)
(* and zero only when there is none.                                       *)
LEMMA HoldersCount ==
    ASSUME NEW p, NEW o
    PROVE  /\ Cardinality(HoldersOf(p, o)) \in 0 .. Cardinality(Handles)
           /\ Cardinality(HoldersOf(p, o)) = 0
                <=> \A h \in Handles : p[h] # o
<1>1. HoldersOf(p, o) \subseteq Handles
  BY DEF HoldersOf
<1>2. /\ IsFiniteSet(HoldersOf(p, o))
      /\ Cardinality(HoldersOf(p, o)) <= Cardinality(Handles)
  BY <1>1, FS_Subset, SharedAssumption
<1>3. /\ Cardinality(HoldersOf(p, o)) \in Nat
      /\ Cardinality(Handles) \in Nat
      /\ (Cardinality(HoldersOf(p, o)) = 0) <=> (HoldersOf(p, o) = {})
  BY <1>2, FS_CardinalityType, FS_EmptySet, SharedAssumption
<1> QED
  BY <1>2, <1>3 DEF HoldersOf

(* What exact counts say of the handles.                                   *)
LEMMA CountFacts ==
    ASSUME Types, Counted
    PROVE  /\ \A o \in Objects : count[o] = Cardinality(HoldersOf(ptr, o))
           /\ \A o \in Objects : count[o] \in 0 .. Cardinality(Handles)
           /\ \A o \in Objects : count[o] = 0 <=> \A h \in Handles : ptr[h] # o
           /\ \A h \in Handles : ptr[h] # Nil => count[ptr[h]] >= 1
<1>1. \A o \in Objects : count[o] = Cardinality(HoldersOf(ptr, o))
  BY DEF Counted, Holders, HoldersOf
<1>2. \A o \in Objects :
         /\ count[o] \in 0 .. Cardinality(Handles)
         /\ count[o] = 0 <=> \A h \in Handles : ptr[h] # o
  BY <1>1, HoldersCount
<1>3. Cardinality(Handles) \in Nat
  BY FS_CardinalityType, SharedAssumption
<1>4. \A h \in Handles : ptr[h] # Nil => count[ptr[h]] >= 1
  BY <1>2, <1>3 DEF Types
<1> QED
  BY <1>1, <1>2, <1>4

-----------------------------------------------------------------------------
(* The types and the handles of an assignment.                             *)

LEMMA TypesInit == Init => Types /\ Assigning
<1> SUFFICES ASSUME Init PROVE Types /\ Assigning
  OBVIOUS
<1>1. NoJob \in Job /\ NoJob.dst = Nil
  BY DEF NoJob, Job
<1>2. Types
  BY <1>1 DEF Init, Types
<1>3. Assigning
  BY <1>1 DEF Init, Assigning
<1> QED
  BY <1>2, <1>3

LEMMA TypesStep ==
    Types /\ Assigning /\ [Next]_vars => Types'
<1> SUFFICES ASSUME Types, Assigning, [Next]_vars
             PROVE  Types'
  OBVIOUS
<1> USE SharedAssumption DEF Types, Idle, Job, NoJob
<1>1. ASSUME NEW t \in Threads, NEW h \in Handles, NEW o \in Objects,
             Make(t, h, o)
      PROVE  Types'
  BY <1>1 DEF Make
<1>2. ASSUME NEW t \in Threads, NEW g \in Handles, NEW h \in Handles,
             Copy(t, g, h)
      PROVE  Types'
  BY <1>2 DEF Copy
<1>3. ASSUME NEW t \in Threads, NEW g \in Handles, NEW h \in Handles,
             Move(t, g, h)
      PROVE  Types'
  BY <1>3 DEF Move
<1>4. ASSUME NEW t \in Threads, NEW h \in Handles, ptr[h] # Nil,
             NEW d \in Handles \cup {Nil}, NEW s \in Handles \cup {Nil},
             NEW m \in BOOLEAN, Decrement(t, h, d, s, m)
      PROVE  Types'
  <2>1. ptr[h] \in Objects
    BY <1>4
  <2> QED
    BY <1>4, <2>1 DEF Decrement
<1>5. ASSUME NEW t \in Threads, NEW g \in Handles, NEW h \in Handles,
             Assign(t, g, h)
      PROVE  Types'
  <2> PICK m \in BOOLEAN :
          IF ptr[h] # Nil THEN Decrement(t, h, h, g, m)
          ELSE /\ job' = [job EXCEPT ![t] = [free |-> Nil, dst |-> h,
                                             src |-> g, move |-> m]]
               /\ UNCHANGED <<ptr, owner, count, mem>>
    BY <1>5 DEF Assign
  <2>1. CASE ptr[h] # Nil
    BY <2>1, <1>4
  <2>2. CASE ptr[h] = Nil
    BY <2>2
  <2> QED
    BY <2>1, <2>2
<1>6. ASSUME NEW t \in Threads, NEW h \in Handles, Release(t, h)
      PROVE  Types'
  BY <1>6, <1>4 DEF Release
<1>7. ASSUME NEW t \in Threads, NEW u \in Threads, NEW h \in Handles,
             Give(t, u, h)
      PROVE  Types'
  BY <1>7 DEF Give
<1>8. ASSUME NEW t \in Threads, Free(t)
      PROVE  Types'
  <2>1. job[t].free \in Objects
    BY <1>8 DEF Free
  <2> QED
    BY <1>8, <2>1 DEF Free
<1>9. ASSUME NEW t \in Threads, Acquire(t)
      PROVE  Types'
  <2>1. /\ job[t].dst \in Handles /\ job[t].src \in Handles
        /\ job[t].move \in BOOLEAN
    BY <1>9 DEF Acquire, Assigning
  <2>2. ptr[job[t].src] \in Objects \cup {Nil}
    BY <2>1
  <2>3. ptr' \in [Handles -> Objects \cup {Nil}]
    BY <1>9, <2>1, <2>2 DEF Acquire
  <2>4. count' \in [Objects -> Int]
    BY <1>9, <2>1, <2>2 DEF Acquire
  <2> QED
    BY <1>9, <2>1, <2>3, <2>4 DEF Acquire
<1>10. CASE UNCHANGED vars
  BY <1>10 DEF vars
<1> QED
  BY <1>1, <1>2, <1>3, <1>5, <1>6, <1>7, <1>8, <1>9, <1>10
     DEF Next, Operation

LEMMA AssigningStep ==
    Types /\ Assigning /\ [Next]_vars => Assigning'
<1> SUFFICES ASSUME Types, Assigning, [Next]_vars
             PROVE  Assigning'
  OBVIOUS
<1> USE SharedAssumption DEF Types, Assigning, Idle, Job, NoJob
<1>1. ASSUME NEW t \in Threads, NEW h \in Handles, NEW o \in Objects,
             Make(t, h, o)
      PROVE  Assigning'
  BY <1>1 DEF Make
<1>2. ASSUME NEW t \in Threads, NEW g \in Handles, NEW h \in Handles,
             Copy(t, g, h)
      PROVE  Assigning'
  BY <1>2 DEF Copy
<1>3. ASSUME NEW t \in Threads, NEW g \in Handles, NEW h \in Handles,
             Move(t, g, h)
      PROVE  Assigning'
  BY <1>3 DEF Move
<1>5. ASSUME NEW t \in Threads, NEW g \in Handles, NEW h \in Handles,
             Assign(t, g, h)
      PROVE  Assigning'
  BY <1>5 DEF Assign, Decrement
<1>6. ASSUME NEW t \in Threads, NEW h \in Handles, Release(t, h)
      PROVE  Assigning'
  BY <1>6 DEF Release, Decrement
<1>7. ASSUME NEW t \in Threads, NEW u \in Threads, NEW h \in Handles,
             Give(t, u, h)
      PROVE  Assigning'
  BY <1>7 DEF Give
<1>8. ASSUME NEW t \in Threads, Free(t)
      PROVE  Assigning'
  BY <1>8 DEF Free
<1>9. ASSUME NEW t \in Threads, Acquire(t)
      PROVE  Assigning'
  BY <1>9 DEF Acquire
<1>10. CASE UNCHANGED vars
  BY <1>10 DEF vars
<1> QED
  BY <1>1, <1>2, <1>3, <1>5, <1>6, <1>7, <1>8, <1>9, <1>10
     DEF Next, Operation

-----------------------------------------------------------------------------
(* The counts.                                                             *)

LEMMA CountedStep ==
    Types /\ Assigning /\ Counted /\ HeldIsAlive /\ [Next]_vars => Counted'
<1> SUFFICES ASSUME Types, Assigning, Counted, HeldIsAlive, [Next]_vars,
                    NEW q \in Objects
             PROVE  count'[q] = Cardinality(HoldersOf(ptr', q))
  BY DEF Counted, Holders, HoldersOf
<1>a. count[q] = Cardinality(HoldersOf(ptr, q)) /\ count[q] \in Int
  BY CountFacts DEF Types
<1>b. /\ ptr \in [Handles -> Objects \cup {Nil}] /\ Nil \notin Objects
      /\ q # Nil /\ Nil \in Objects \cup {Nil}
  BY SharedAssumption DEF Types
<1>1. ASSUME NEW t \in Threads, NEW h \in Handles, NEW o \in Objects,
             Make(t, h, o)
      PROVE  count'[q] = Cardinality(HoldersOf(ptr', q))
  <2>1. ptr' = [ptr EXCEPT ![h] = o] /\ count' = [count EXCEPT ![o] = 1]
    BY <1>1 DEF Make
  <2>2. ptr[h] # q
    BY <1>1, <1>b DEF Make
  <2>3. CASE q = o
    <3>1. \A x \in Handles : ptr[x] # o
      BY <1>1, <1>b DEF Make, HeldIsAlive
    <3>2. count[o] = 0
      BY <3>1, CountFacts
    <3>3. count'[q] = 1
      BY <2>1, <2>3 DEF Types
    <3>4. Cardinality(HoldersOf([ptr EXCEPT ![h] = q], q))
            = Cardinality(HoldersOf(ptr, q)) + 1
      BY <1>b, <2>2, PointTo
    <3> QED
      BY <1>a, <2>1, <2>3, <3>2, <3>3, <3>4
  <2>4. CASE q # o
    <3>1. count'[q] = count[q]
      BY <2>1, <2>4 DEF Types
    <3>2. HoldersOf([ptr EXCEPT ![h] = o], q) = HoldersOf(ptr, q)
      BY <1>b, <2>2, <2>4, PointElsewhere
    <3> QED
      BY <1>a, <2>1, <3>1, <3>2
  <2> QED
    BY <2>3, <2>4
<1>2. ASSUME NEW g \in Handles, NEW h \in Handles,
             ptr[h] = Nil, ptr[g] # Nil,
             ptr' = [ptr EXCEPT ![h] = ptr[g]],
             count' = [count EXCEPT ![ptr[g]] = @ + 1]
      PROVE  count'[q] = Cardinality(HoldersOf(ptr', q))
  <2>1. ptr[g] \in Objects /\ ptr[h] # q
    BY <1>2, <1>b
  <2>2. CASE q = ptr[g]
    <3>1. count'[q] = count[q] + 1
      BY <1>2, <2>2 DEF Types
    <3>2. ptr' = [ptr EXCEPT ![h] = q]
      BY <1>2, <2>2
    <3> QED
      BY <1>a, <1>b, <2>1, <3>1, <3>2, PointTo
  <2>3. CASE q # ptr[g]
    <3>1. count'[q] = count[q]
      BY <1>2, <2>1, <2>3 DEF Types
    <3> QED
      BY <1>2, <1>a, <1>b, <2>1, <2>3, <3>1, PointElsewhere
  <2> QED
    BY <2>2, <2>3
<1>3. ASSUME NEW g \in Handles, NEW h \in Handles, g # h,
             ptr[h] = Nil, ptr[g] # Nil,
             ptr' = [ptr EXCEPT ![h] = ptr[g], ![g] = Nil],
             count' = count
      PROVE  count'[q] = Cardinality(HoldersOf(ptr', q))
  <2> DEFINE p == [ptr EXCEPT ![h] = ptr[g]]
  <2>0. ptr[g] \in Objects /\ ptr[g] \in Objects \cup {Nil} /\ ptr[h] # q
    BY <1>3, <1>b
  <2>1. /\ p \in [Handles -> Objects \cup {Nil}] /\ p[g] = ptr[g]
        /\ ptr' = [p EXCEPT ![g] = Nil]
        /\ ptr[g] \in Objects /\ ptr[h] # q
    BY <1>3, <1>b
  <2>2. CASE q = ptr[g]
    <3>1. Cardinality(HoldersOf(p, q)) = Cardinality(HoldersOf(ptr, q)) + 1
      BY <1>b, <2>1, <2>2, PointTo
    <3> HIDE DEF p
    <3>2. Cardinality(HoldersOf([p EXCEPT ![g] = Nil], q))
            = Cardinality(HoldersOf(p, q)) - 1
      BY <1>b, <2>1, <2>2, PointAway
    <3>3. Cardinality(HoldersOf(ptr', q)) = Cardinality(HoldersOf(p, q)) - 1
      BY <2>1, <3>2
    <3>4. count'[q] = count[q]
      BY <1>3
    <3> QED
      BY <1>a, <3>1, <3>3, <3>4
  <2>3. CASE q # ptr[g]
    <3>1. HoldersOf([ptr EXCEPT ![h] = ptr[g]], q) = HoldersOf(ptr, q)
      <4> HIDE DEF p
      <4> QED
        BY <1>b, <2>0, <2>3, PointElsewhere
    <3>2. HoldersOf(p, q) = HoldersOf(ptr, q)
      BY <3>1
    <3> HIDE DEF p
    <3>3. HoldersOf([p EXCEPT ![g] = Nil], q) = HoldersOf(p, q)
      BY <1>b, <2>1, <2>3, PointElsewhere
    <3> QED
      BY <1>3, <1>a, <2>1, <3>2, <3>3
  <2> QED
    BY <2>2, <2>3
<1>4. ASSUME NEW t, NEW h \in Handles, ptr[h] # Nil,
             NEW d, NEW s, NEW m, Decrement(t, h, d, s, m)
      PROVE  count'[q] = Cardinality(HoldersOf(ptr', q))
  <2>1. /\ ptr[h] \in Objects
        /\ ptr' = [ptr EXCEPT ![h] = Nil]
        /\ count' = [count EXCEPT ![ptr[h]] = @ - 1]
    BY <1>4, <1>b DEF Decrement
  <2>2. CASE q = ptr[h]
    <3>1. count'[q] = count[q] - 1
      BY <2>1, <2>2 DEF Types
    <3>2. Cardinality(HoldersOf([ptr EXCEPT ![h] = Nil], q))
            = Cardinality(HoldersOf(ptr, q)) - 1
      BY <1>b, <2>2, PointAway
    <3> QED
      BY <1>a, <2>1, <3>1, <3>2
  <2>3. CASE q # ptr[h]
    <3>1. count'[q] = count[q]
      BY <2>1, <2>3 DEF Types
    <3> QED
      BY <1>a, <1>b, <2>1, <2>3, <3>1, PointElsewhere
  <2> QED
    BY <2>2, <2>3
<1>5. ASSUME UNCHANGED <<ptr, count>>
      PROVE  count'[q] = Cardinality(HoldersOf(ptr', q))
  BY <1>5, <1>a
<1>6. ASSUME NEW t \in Threads, Acquire(t)
      PROVE  count'[q] = Cardinality(HoldersOf(ptr', q))
  <2> DEFINE g == job[t].src
             h == job[t].dst
  <2>1. g \in Handles /\ h \in Handles /\ g # h /\ ptr[h] = Nil
    BY <1>6 DEF Acquire, Assigning
  <2>2. CASE ptr[g] = Nil
    <3>1. ptr' = ptr /\ count' = count
      BY <1>6, <1>b, <2>1, <2>2 DEF Acquire
    <3> QED
      BY <3>1, <1>5
  <2>3. CASE ptr[g] # Nil /\ job[t].move
    BY <1>6, <1>3, <2>1, <2>3 DEF Acquire
  <2>4. CASE ptr[g] # Nil /\ ~job[t].move
    BY <1>6, <1>2, <2>1, <2>4 DEF Acquire
  <2> QED
    BY <2>2, <2>3, <2>4
<1>7. ASSUME NEW t \in Threads, NEW g \in Handles, NEW h \in Handles,
             Copy(t, g, h) \/ Move(t, g, h) \/ Assign(t, g, h)
      PROVE  count'[q] = Cardinality(HoldersOf(ptr', q))
  <2>1. CASE Copy(t, g, h)
    BY <2>1, <1>2 DEF Copy
  <2>2. CASE Move(t, g, h)
    BY <2>2, <1>3 DEF Move
  <2>3. CASE Assign(t, g, h)
    BY <2>3, <1>4, <1>5 DEF Assign
  <2> QED
    BY <1>7, <2>1, <2>2, <2>3
<1>8. ASSUME NEW t \in Threads, NEW h \in Handles, Release(t, h)
      PROVE  count'[q] = Cardinality(HoldersOf(ptr', q))
  BY <1>8, <1>4 DEF Release
<1>9. ASSUME NEW t \in Threads, Free(t)
      PROVE  count'[q] = Cardinality(HoldersOf(ptr', q))
  BY <1>9, <1>5 DEF Free
<1>10. ASSUME NEW t \in Threads, NEW u \in Threads, NEW h \in Handles,
              Give(t, u, h)
       PROVE  count'[q] = Cardinality(HoldersOf(ptr', q))
  BY <1>10, <1>5 DEF Give
<1>11. CASE UNCHANGED vars
  BY <1>11, <1>5 DEF vars
<1> QED
  BY <1>1, <1>6, <1>7, <1>8, <1>9, <1>10, <1>11 DEF Next, Operation

-----------------------------------------------------------------------------
(* The memory.  A handle that is set gets an object that is alive; the     *)
(* thread that takes a count to zero is the only one that frees.           *)

Memory == HeldIsAlive /\ FreedOnce /\ NoLeak

LEMMA MemoryStep ==
    Types /\ Assigning /\ Counted /\ Memory /\ [Next]_vars => Memory'
<1> SUFFICES ASSUME Types, Assigning, Counted, Memory, [Next]_vars
             PROVE  Memory'
  OBVIOUS
<1>a. /\ \A o \in Objects : count[o] \in Int /\ count[o] >= 0
      /\ \A o \in Objects : count[o] = 0 <=> \A h \in Handles : ptr[h] # o
      /\ \A h \in Handles : ptr[h] # Nil => count[ptr[h]] >= 1
  BY CountFacts DEF Types
<1> USE SharedAssumption DEF Types, Memory, HeldIsAlive, FreedOnce, NoLeak
<1>1. ASSUME NEW t \in Threads, NEW h \in Handles, NEW o \in Objects,
             Make(t, h, o)
      PROVE  Memory'
  BY <1>1, <1>a DEF Make
<1>2. ASSUME NEW g \in Handles, NEW h \in Handles, ptr[h] = Nil, ptr[g] # Nil,
             ptr' = [ptr EXCEPT ![h] = ptr[g]],
             count' = [count EXCEPT ![ptr[g]] = @ + 1], mem' = mem,
             \A u \in Threads : job'[u].free = job[u].free
      PROVE  Memory'
  <2>1. ptr[g] \in Objects /\ count[ptr[g]] >= 1
    BY <1>2, <1>a
  <2> QED
    BY <1>2, <1>a, <2>1
<1>3. ASSUME NEW g \in Handles, NEW h \in Handles, ptr[g] # Nil,
             ptr' = [ptr EXCEPT ![h] = ptr[g], ![g] = Nil],
             count' = count, mem' = mem,
             \A u \in Threads : job'[u].free = job[u].free
      PROVE  Memory'
  BY <1>3
<1>4. ASSUME NEW t \in Threads, NEW h \in Handles, ptr[h] # Nil,
             job[t] = NoJob, NEW d, NEW s, NEW m, Decrement(t, h, d, s, m)
      PROVE  Memory'
  <2>1. /\ ptr[h] \in Objects /\ count[ptr[h]] \in Int /\ count[ptr[h]] >= 1
        /\ mem[ptr[h]] = "alive" /\ job[t].free = Nil
    BY <1>4, <1>a DEF NoJob
  <2>2. /\ \A x \in Handles : ptr'[x] = IF x = h THEN Nil ELSE ptr[x]
        /\ \A o \in Objects :
              count'[o] = IF o = ptr[h] THEN count[o] - 1 ELSE count[o]
        /\ \A u \in Threads : u # t => job'[u].free = job[u].free
        /\ job'[t].free = IF count[ptr[h]] = 1 THEN ptr[h] ELSE Nil
        /\ mem' = mem
    BY <1>4, <2>1 DEF Decrement
  <2>3. \A u \in Threads : job[u].free # ptr[h]
    BY <1>4, <2>1
  <2>4. HeldIsAlive'
    BY <2>2
  <2>5. FreedOnce'
    <3>1. \A u \in Threads : job[u].free \in Objects \cup {Nil}
      BY DEF Job
    <3>2. \A u \in Threads : job'[u].free # Nil =>
              mem'[job'[u].free] = "alive" /\ count'[job'[u].free] = 0
      BY <2>1, <2>2, <2>3, <3>1
    <3>3. \A u, v \in Threads : job'[u].free = job'[v].free /\ u # v
                                  => job'[u].free = Nil
      BY <2>1, <2>2, <2>3
    <3> QED
      BY <3>2, <3>3
  <2>6. NoLeak'
    BY <1>a, <2>1, <2>2, <2>3
  <2> QED
    BY <2>4, <2>5, <2>6
<1>5. ASSUME UNCHANGED <<ptr, count, mem>>,
             \A u \in Threads : job'[u].free = job[u].free
      PROVE  Memory'
  BY <1>5
<1>6. ASSUME NEW t \in Threads, Acquire(t)
      PROVE  Memory'
  <2> DEFINE g == job[t].src
             h == job[t].dst
  <2>1. g \in Handles /\ h \in Handles /\ g # h /\ ptr[h] = Nil
    BY <1>6 DEF Acquire, Assigning
  <2>2. \A u \in Threads : job'[u].free = job[u].free
    BY <1>6 DEF Acquire, NoJob
  <2>3. CASE ptr[g] = Nil
    <3>1. ptr' = ptr /\ count' = count /\ mem' = mem
      BY <1>6, <2>1, <2>3 DEF Acquire
    <3> QED
      BY <3>1, <2>2, <1>5
  <2>4. CASE ptr[g] # Nil /\ job[t].move
    BY <1>6, <1>3, <2>1, <2>2, <2>4 DEF Acquire
  <2>5. CASE ptr[g] # Nil /\ ~job[t].move
    <3>1. /\ ptr' = [ptr EXCEPT ![h] = ptr[g]]
          /\ count' = [count EXCEPT ![ptr[g]] = @ + 1] /\ mem' = mem
      BY <1>6, <2>5 DEF Acquire
    <3> QED
      BY <1>2, <2>1, <2>2, <2>5, <3>1
  <2> QED
    BY <2>3, <2>4, <2>5
<1>7. ASSUME NEW t \in Threads, NEW g \in Handles, NEW h \in Handles,
             Copy(t, g, h) \/ Move(t, g, h)
      PROVE  Memory'
  BY <1>7, <1>2, <1>3 DEF Copy, Move
<1>8. ASSUME NEW t \in Threads, NEW g \in Handles, NEW h \in Handles,
             Assign(t, g, h)
      PROVE  Memory'
  <2>1. CASE ptr[h] # Nil
    BY <1>8, <1>4, <2>1 DEF Assign, Idle
  <2>2. CASE ptr[h] = Nil
    <3>1. \A u \in Threads : job'[u].free = job[u].free
      BY <1>8, <2>2 DEF Assign, Idle, NoJob
    <3> QED
      BY <1>8, <2>2, <3>1, <1>5 DEF Assign
  <2> QED
    BY <2>1, <2>2
<1>9. ASSUME NEW t \in Threads, NEW h \in Handles, Release(t, h)
      PROVE  Memory'
  BY <1>9, <1>4 DEF Release, Idle
<1>10. ASSUME NEW t \in Threads, Free(t)
       PROVE  Memory'
  <2> DEFINE o == job[t].free
  <2>1. o \in Objects /\ mem[o] = "alive" /\ count[o] = 0
    BY <1>10 DEF Free, Job
  <2>2. /\ \A h \in Handles : ptr[h] # o
        /\ \A u \in Threads : u # t => job[u].free # o
    BY <1>10, <1>a, <2>1 DEF Free
  <2>3. /\ mem' = [mem EXCEPT ![o] = "freed"]
        /\ ptr' = ptr /\ count' = count
    BY <1>10 DEF Free
  <2>4. job' = [job EXCEPT ![t] = [job[t] EXCEPT !.free = Nil]]
    BY <1>10 DEF Free
  <2>5. \A u \in Threads : u # t => job'[u] = job[u]
    BY <2>4
  <2>6. job'[t].free = Nil
    BY <2>4 DEF Job
  <2> QED
    BY <2>1, <2>2, <2>3, <2>5, <2>6
<1>11. ASSUME NEW t \in Threads, NEW u \in Threads, NEW h \in Handles,
              Give(t, u, h)
       PROVE  Memory'
  BY <1>11, <1>5 DEF Give
<1>12. CASE UNCHANGED vars
  BY <1>12, <1>5 DEF vars
<1> QED
  BY <1>1, <1>6, <1>7, <1>8, <1>9, <1>10, <1>11, <1>12 DEF Next, Operation

-----------------------------------------------------------------------------
(* The theorems.                                                           *)

LEMMA IInvInit == Init => IInv
<1> SUFFICES ASSUME Init PROVE IInv
  OBVIOUS
<1>1. Types /\ Assigning
  BY TypesInit
<1>2. Counted
  <2> SUFFICES ASSUME NEW o \in Objects
               PROVE  count[o] = Cardinality(Holders(o))
    BY DEF Counted
  <2>1. Holders(o) = {}
    BY SharedAssumption DEF Init, Holders
  <2> QED
    BY <2>1, FS_EmptySet DEF Init
<1>3. HeldIsAlive /\ FreedOnce /\ NoLeak
  BY DEF Init, HeldIsAlive, FreedOnce, NoLeak, NoJob
<1> QED
  BY <1>1, <1>2, <1>3 DEF IInv

LEMMA IInvStep == IInv /\ [Next]_vars => IInv'
BY TypesStep, AssigningStep, CountedStep, MemoryStep DEF IInv, Memory

(* The invariant from which the others follow.                             *)
THEOREM Invariance == Spec => []IInv
BY IInvInit, IInvStep, PTL DEF Spec

(* Every variable has its type; a count is between zero and the number of  *)
(* handles.                                                                *)
THEOREM TypeCorrect == Spec => []TypeOK
<1>1. IInv => TypeOK
  <2> SUFFICES ASSUME IInv PROVE TypeOK
    OBVIOUS
  <2>1. count \in [Objects -> 0 .. Cardinality(Handles)]
    BY CountFacts DEF IInv, Types
  <2> QED
    BY <2>1 DEF IInv, Types, TypeOK
<1> QED
  BY <1>1, Invariance, PTL

(* base/Shared.hpp: the count of an object is the number of its handles.   *)
THEOREM CountsAreExact == Spec => []Counted
<1>1. IInv => Counted
  BY DEF IInv
<1> QED
  BY <1>1, Invariance, PTL

(* No handle refers to an object that is not alive.                        *)
THEOREM NoDanglingHandle == Spec => []HeldIsAlive
<1>1. IInv => HeldIsAlive
  BY DEF IInv
<1> QED
  BY <1>1, Invariance, PTL

(* No object is freed twice, or while it has a handle.                     *)
THEOREM NoDoubleFree == Spec => []FreedOnce
<1>1. IInv => FreedOnce
  BY DEF IInv
<1> QED
  BY <1>1, Invariance, PTL

(* An object without a handle is being freed or has been.                  *)
THEOREM NothingLeaks == Spec => []NoLeak
<1>1. IInv => NoLeak
  BY DEF IInv
<1> QED
  BY <1>1, Invariance, PTL
=============================================================================
