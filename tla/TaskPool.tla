------------------------------ MODULE TaskPool ------------------------------
(***************************************************************************)
(* What a pool of Width threads promises for the tasks it is given, with   *)
(* no mention of threads, mutex or condition variable: a task is accepted  *)
(* or refused, accepted tasks start in the order they were accepted, at    *)
(* most Width at a time and each at most once, a started task ends before  *)
(* anything else happens to it, and tasks disappear from the queue without *)
(* being run only all together, when the pool is closed.  A closed pool    *)
(* starts nothing.                                                         *)
(***************************************************************************)
EXTENDS Integers, Sequences, FiniteSets

CONSTANTS Tasks, Width

VARIABLES closed, pending, state

vars == <<closed, pending, state>>

Started == {k \in Tasks : state[k] = "running"}

Init ==
    /\ closed = FALSE /\ pending = <<>>
    /\ state = [k \in Tasks |-> "new"]

Accept(k) ==
    /\ state[k] = "new"
    /\ pending' = Append(pending, k)
    /\ state' = [state EXCEPT ![k] = "queued"]
    /\ UNCHANGED closed

Refuse(k) ==
    /\ closed /\ state[k] = "new"
    /\ state' = [state EXCEPT ![k] = "refused"]
    /\ UNCHANGED <<closed, pending>>

Start ==
    /\ ~closed /\ pending # <<>> /\ Cardinality(Started) < Width
    /\ state' = [state EXCEPT ![Head(pending)] = "running"]
    /\ pending' = Tail(pending)
    /\ UNCHANGED closed

Finish(k) ==
    /\ state[k] = "running"
    /\ state' = [state EXCEPT ![k] = "done"]
    /\ UNCHANGED <<closed, pending>>

(* wait() closes the pool and keeps the queue, stop() empties it.          *)
Close ==
    /\ closed' = TRUE
    /\ \/ UNCHANGED <<pending, state>>
       \/ /\ pending' = <<>>
          /\ state' = [k \in Tasks |-> IF state[k] = "queued" THEN "dropped"
                                       ELSE state[k]]

Next ==
    \/ \E k \in Tasks : Accept(k) \/ Refuse(k) \/ Finish(k)
    \/ Start \/ Close

Spec == Init /\ [][Next]_vars
=============================================================================
