---------------------------- MODULE SharedCount ----------------------------
(***************************************************************************)
(* ayr::Shared (base/Shared.hpp): handles on objects that carry an atomic  *)
(* reference count.  A handle belongs to one thread at a time and goes to  *)
(* another one inside a task of the pool (async/ThreadPool.hpp captures    *)
(* handles in the closures it queues); the count is shared by all threads. *)
(*                                                                         *)
(* fetch_add and fetch_sub are single actions.  Between the fetch_sub that *)
(* reaches zero and the deallocation, and between the two halves of an     *)
(* assignment, the other threads run.                                      *)
(***************************************************************************)
EXTENDS Integers, FiniteSets

CONSTANTS Threads, Handles, Objects, Nil

ASSUME SharedAssumption ==
    /\ IsFiniteSet(Handles)
    /\ Nil \notin Objects \cup Handles

VARIABLES
    ptr,    \* counter_ of every handle, Nil when it is null or not constructed
    owner,  \* the thread a handle belongs to
    count,  \* count_ of every object
    mem,    \* "new", "alive" or "freed": the memory of every object
    job     \* what a thread is in the middle of

vars == <<ptr, owner, count, mem, job>>

NoJob == [free |-> Nil, dst |-> Nil, src |-> Nil, move |-> FALSE]

Job == [free : Objects \cup {Nil}, dst : Handles \cup {Nil},
        src : Handles \cup {Nil}, move : BOOLEAN]

Idle(t, h) == job[t] = NoJob /\ owner[h] = t

Init ==
    /\ ptr = [h \in Handles |-> Nil]
    /\ owner \in [Handles -> Threads]
    /\ count = [o \in Objects |-> 0]
    /\ mem = [o \in Objects |-> "new"]
    /\ job = [t \in Threads |-> NoJob]

(* The constructor of line 44: the count starts at one (line 18).          *)
Make(t, h, o) ==
    /\ Idle(t, h) /\ ptr[h] = Nil /\ mem[o] = "new"
    /\ ptr' = [ptr EXCEPT ![h] = o]
    /\ count' = [count EXCEPT ![o] = 1]
    /\ mem' = [mem EXCEPT ![o] = "alive"]
    /\ UNCHANGED <<owner, job>>

(* Mutated form: a copy is not counted.                                    *)
CopyUncounted(t, g, h) ==
    /\ Idle(t, g) /\ Idle(t, h) /\ ptr[h] = Nil /\ ptr[g] # Nil
    /\ ptr' = [ptr EXCEPT ![h] = ptr[g]]
    /\ UNCHANGED <<owner, count, mem, job>>

(* The copy constructors, lines 46-48.                                     *)
Copy(t, g, h) ==
    /\ Idle(t, g) /\ Idle(t, h) /\ ptr[h] = Nil /\ ptr[g] # Nil
    /\ ptr' = [ptr EXCEPT ![h] = ptr[g]]
    /\ count' = [count EXCEPT ![ptr[g]] = @ + 1]
    /\ UNCHANGED <<owner, mem, job>>

(* Mutated form: the handle moved from is not cleared.                     *)
MoveKeeps(t, g, h) ==
    /\ Idle(t, g) /\ Idle(t, h) /\ ptr[h] = Nil /\ ptr[g] # Nil
    /\ ptr' = [ptr EXCEPT ![h] = ptr[g]]
    /\ UNCHANGED <<owner, count, mem, job>>

(* The move constructor, line 50.                                          *)
Move(t, g, h) ==
    /\ Idle(t, g) /\ Idle(t, h) /\ ptr[h] = Nil /\ ptr[g] # Nil
    /\ ptr' = [ptr EXCEPT ![h] = ptr[g], ![g] = Nil]
    /\ UNCHANGED <<owner, count, mem, job>>

(* Mutated form: the count is read and the decrement comes later, so that  *)
(* two threads may both take themselves for the last.                      *)
DecrementTwice(t, h, dst, src, move) ==
    /\ ptr' = [ptr EXCEPT ![h] = Nil]
    /\ count' = [count EXCEPT ![ptr[h]] = @ - 1]
    /\ job' = [job EXCEPT ![t] =
                  [free |-> IF count[ptr[h]] <= 2 THEN ptr[h] ELSE Nil,
                   dst |-> dst, src |-> src, move |-> move]]
    /\ UNCHANGED <<owner, mem>>

(* release, lines 89-94: the thread whose fetch_sub returns the last       *)
(* reference goes on to free the object.                                   *)
Decrement(t, h, dst, src, move) ==
    /\ ptr' = [ptr EXCEPT ![h] = Nil]
    /\ count' = [count EXCEPT ![ptr[h]] = @ - 1]
    /\ job' = [job EXCEPT ![t] =
                  [free |-> IF count[ptr[h]] = 1 THEN ptr[h] ELSE Nil,
                   dst |-> dst, src |-> src, move |-> move]]
    /\ UNCHANGED <<owner, mem>>

(* The destructor, line 52, or release() itself.                           *)
Release(t, h) ==
    /\ Idle(t, h) /\ ptr[h] # Nil
    /\ Decrement(t, h, Nil, Nil, FALSE)

(* The assignments, lines 54-70, from another handle of the thread: the    *)
(* target is released first; a null target goes on at once.                *)
Assign(t, g, h) ==
    /\ Idle(t, g) /\ Idle(t, h) /\ g # h /\ ptr[g] # ptr[h]
    /\ \E move \in BOOLEAN :
          IF ptr[h] # Nil THEN Decrement(t, h, h, g, move)
          ELSE /\ job' = [job EXCEPT ![t] = [free |-> Nil, dst |-> h,
                                             src |-> g, move |-> move]]
               /\ UNCHANGED <<ptr, owner, count, mem>>

(* Mutated form: the counter block is never given back.                    *)
FreeNothing(t) ==
    /\ job[t].free # Nil
    /\ job' = [job EXCEPT ![t].free = Nil]
    /\ UNCHANGED <<ptr, owner, count, mem>>

(* ayr_desloc(counter_), line 92.                                          *)
Free(t) ==
    /\ job[t].free # Nil
    /\ mem' = [mem EXCEPT ![job[t].free] = "freed"]
    /\ job' = [job EXCEPT ![t].free = Nil]
    /\ UNCHANGED <<ptr, owner, count>>

(* The second half of an assignment: lines 58-59 or 67-68.                 *)
Acquire(t) ==
    LET g == job[t].src
        h == job[t].dst
        o == ptr[g]
    IN  /\ job[t].free = Nil /\ h # Nil
        /\ ptr' = IF job[t].move THEN [ptr EXCEPT ![h] = o, ![g] = Nil]
                  ELSE [ptr EXCEPT ![h] = o]
        /\ count' = IF job[t].move \/ o = Nil THEN count
                    ELSE [count EXCEPT ![o] = @ + 1]
        /\ job' = [job EXCEPT ![t] = NoJob]
        /\ UNCHANGED <<owner, mem>>

(* A handle goes to another thread, in a task of the pool.                 *)
Give(t, u, h) ==
    /\ Idle(t, h)
    /\ owner' = [owner EXCEPT ![h] = u]
    /\ UNCHANGED <<ptr, count, mem, job>>

Operation(t) ==
    \/ \E h \in Handles, o \in Objects : Make(t, h, o)
    \/ \E g, h \in Handles : Copy(t, g, h) \/ Move(t, g, h) \/ Assign(t, g, h)
    \/ \E h \in Handles : Release(t, h)
    \/ \E u \in Threads, h \in Handles : Give(t, u, h)
    \/ Free(t) \/ Acquire(t)

Next == \E t \in Threads : Operation(t)

Spec == Init /\ [][Next]_vars

-----------------------------------------------------------------------------
(* Properties.                                                             *)

(* Every variable has the type of what it models; a count never goes below  *)
(* zero.                                                                    *)
TypeOK ==
    /\ ptr \in [Handles -> Objects \cup {Nil}]
    /\ owner \in [Handles -> Threads]
    /\ count \in [Objects -> 0 .. Cardinality(Handles)]
    /\ mem \in [Objects -> {"new", "alive", "freed"}]
    /\ job \in [Threads -> Job]

Holders(o) == {h \in Handles : ptr[h] = o}

(* The count of an object is the number of handles on it, at every moment  *)
(* of every interleaving of copies, moves, assignments and releases.       *)
Counted == \A o \in Objects : count[o] = Cardinality(Holders(o))

(* An object that some handle refers to is alive: no handle dangles.       *)
HeldIsAlive == \A h \in Handles : ptr[h] # Nil => mem[ptr[h]] = "alive"

(* What a thread is about to free is alive, without a handle, and about to *)
(* be freed by no other thread: no double free, no free too early.         *)
FreedOnce ==
    /\ \A t \in Threads : job[t].free # Nil =>
          mem[job[t].free] = "alive" /\ count[job[t].free] = 0
    /\ \A t, u \in Threads : job[t].free = job[u].free /\ t # u
                              => job[t].free = Nil

(* The last handle takes the object with it: an object that no handle      *)
(* refers to is being freed.                                               *)
NoLeak ==
    \A o \in Objects : mem[o] = "alive" /\ count[o] = 0 =>
        \E t \in Threads : job[t].free = o
=============================================================================
