----------------------------- MODULE ThreadPool -----------------------------
(***************************************************************************)
(* ayr::async::ThreadPool (include/ayr/async/ThreadPool.hpp): a fixed set  *)
(* of worker threads serving one FIFO queue under one mutex and ONE        *)
(* condition variable, which the workers and the callers of run() share.   *)
(*                                                                         *)
(* Grain of atomicity.  tasks and the writes of stoped_ are protected by   *)
(* mtx, so a critical section that reads or writes nothing else is one     *)
(* action.  num_running_ is an atomic that changes WITHOUT the mutex:      *)
(* the ++ of line 61, the -- of line 63 and the notify_all of line 64 are  *)
(* actions of their own, and run() evaluates its predicate in one action   *)
(* (RunCheck, keeping mtx) and blocks in another (RunBlock).               *)
(*                                                                         *)
(* A submitted task is an identifier; what it computes is not modelled,    *)
(* except that it may submit further tasks to the pool while it runs.      *)
(***************************************************************************)
EXTENDS Integers, Sequences, FiniteSets

CONSTANTS
    Workers,     \* the threads the constructor starts
    Clients,     \* the threads outside the pool that use it
    Owner,       \* the one client that calls stop() and wait() and destroys it
    Pushers,     \* the threads that submit tasks (a worker: from inside a task)
    Runners,     \* the clients that call run()
    Tasks,       \* the tasks submitted, each at most once: this bounds the runs
    FutureTasks, \* those submitted with push_future: a packaged_task keeps the
                 \* exception that leaves them, one of push() ends the process
    NoTask, NoThread

Threads == Workers \cup Clients

ASSUME PoolAssumption ==
    /\ IsFiniteSet(Workers) /\ Workers # {}
    /\ Workers \cap Clients = {}
    /\ Owner \in Clients
    /\ Pushers \subseteq Threads
    /\ Runners \subseteq Clients
    /\ FutureTasks \subseteq Tasks
    /\ NoTask \notin Tasks
    /\ NoThread \notin Threads

VARIABLES
    stoped,       \* stoped_
    num_running,  \* num_running_
    tasks,        \* the queue
    mtx,          \* the thread that keeps mtx between two actions, or NoThread
    sleeping,     \* the threads blocked on condition, not yet notified
    pc,           \* where each thread is
    current,      \* the task a worker has taken from the queue, or NoTask
    pushing,      \* the task a thread is submitting, or NoTask
    crashed,      \* std::terminate was called
    status        \* history: what became of each task

sync == <<stoped, num_running, tasks, mtx, sleeping>>
vars == <<stoped, num_running, tasks, mtx, sleeping, pc, current, pushing,
          crashed, status>>

WorkerPC == {"w_lock", "w_inc", "w_task", "w_notify", "w_exit"}
PushPC   == {"p_lock", "p_notify"}
ClientPC == {"idle", "r_lock", "r_block", "s_lock", "s_join", "wait_lock",
             "wait_join", "d_lock", "d_join", "gone"}
Status   == {"new", "pushing", "queued", "running", "done", "dropped", "refused"}

(* Where a thread is when it is not inside a call of the pool.             *)
Home(t) == IF t \in Workers THEN "w_task" ELSE "idle"

(* A thread that needs mtx and may now take it.                            *)
CanLock(t) == mtx = NoThread /\ t \notin sleeping

Goto(t, from, to) == pc[t] = from /\ pc' = [pc EXCEPT ![t] = to]

(* notify_one wakes any one of the threads blocked on the condition; it is *)
(* lost when there is none.                                                *)
NotifyOne ==
    IF sleeping = {} THEN sleeping' = {}
    ELSE \E t \in sleeping : sleeping' = sleeping \ {t}

NotifyAll == sleeping' = {}

-----------------------------------------------------------------------------
(* The worker loop, lines 44-66.                                           *)

(* The predicate of lines 49-52 is false: release mtx and block.           *)
WorkerSleep(w) ==
    /\ pc[w] = "w_lock" /\ CanLock(w)
    /\ tasks = <<>> /\ ~stoped
    /\ sleeping' = sleeping \cup {w}
    /\ UNCHANGED <<stoped, num_running, tasks, mtx, pc, current, pushing,
                   crashed, status>>

WorkerExit(w) ==
    /\ CanLock(w) /\ stoped
    /\ Goto(w, "w_lock", "w_exit")
    /\ UNCHANGED <<sync, current, pushing, crashed, status>>

(* Mutated form: the front of the queue is copied and never popped.        *)
WorkerPopKeeps(w) ==
    /\ CanLock(w) /\ ~stoped /\ tasks # <<>>
    /\ Goto(w, "w_lock", "w_inc")
    /\ current' = [current EXCEPT ![w] = Head(tasks)]
    /\ status' = [status EXCEPT ![Head(tasks)] = "running"]
    /\ UNCHANGED <<sync, pushing, crashed>>

WorkerPop(w) ==
    /\ CanLock(w) /\ ~stoped /\ tasks # <<>>
    /\ Goto(w, "w_lock", "w_inc")
    /\ current' = [current EXCEPT ![w] = Head(tasks)]
    /\ status' = [status EXCEPT ![Head(tasks)] = "running"]
    /\ tasks' = Tail(tasks)
    /\ UNCHANGED <<stoped, num_running, mtx, sleeping, pushing, crashed>>

(* Mutated form: the increment is forgotten.                               *)
WorkerIncMissing(w) ==
    /\ Goto(w, "w_inc", "w_task")
    /\ UNCHANGED <<sync, current, pushing, crashed, status>>

(* Line 61, after the unlock of line 60.                                   *)
WorkerInc(w) ==
    /\ Goto(w, "w_inc", "w_task")
    /\ num_running' = num_running + 1
    /\ UNCHANGED <<stoped, tasks, mtx, sleeping, current, pushing, crashed,
                   status>>

(* Mutated form: the decrement is forgotten.                               *)
WorkerFinishLeaks(w) ==
    /\ Goto(w, "w_task", "w_notify")
    /\ status' = [status EXCEPT ![current[w]] = "done"]
    /\ current' = [current EXCEPT ![w] = NoTask]
    /\ UNCHANGED <<sync, pushing, crashed>>

(* task() returns, line 62, and the counter goes down, line 63.            *)
WorkerFinish(w) ==
    /\ Goto(w, "w_task", "w_notify")
    /\ num_running' = num_running - 1
    /\ status' = [status EXCEPT ![current[w]] = "done"]
    /\ current' = [current EXCEPT ![w] = NoTask]
    /\ UNCHANGED <<stoped, tasks, mtx, sleeping, pushing, crashed>>

WorkerNotify(w) ==
    /\ Goto(w, "w_notify", "w_lock")
    /\ NotifyAll
    /\ UNCHANGED <<stoped, num_running, tasks, mtx, current, pushing, crashed,
                   status>>

-----------------------------------------------------------------------------
(* push and push_future, lines 74-100.  The destructor ends the lifetime   *)
(* of the pool: no other client may be using it then.                      *)

Alive == pc[Owner] \notin {"d_lock", "d_join", "gone"}

InScope(t) == t \in Clients => Alive

(* The check of line 75 or 91 reads stoped_ without the mutex.             *)
PushCheck(t, k) ==
    /\ t \in Pushers /\ InScope(t) /\ status[k] = "new" /\ ~stoped
    /\ Goto(t, Home(t), "p_lock")
    /\ pushing' = [pushing EXCEPT ![t] = k]
    /\ status' = [status EXCEPT ![k] = "pushing"]
    /\ UNCHANGED <<sync, current, crashed>>

(* The check throws RuntimeError.  A client catches it; in a worker it     *)
(* leaves the task that pushed, through a packaged_task or not.            *)
PushRefused(t, k) ==
    /\ t \in Pushers /\ InScope(t) /\ pc[t] = Home(t)
    /\ status[k] = "new" /\ stoped
    /\ status' = [status EXCEPT ![k] = "refused"]
    /\ crashed' = (t \in Workers /\ current[t] \notin FutureTasks)
    /\ UNCHANGED <<sync, pc, current, pushing>>

(* Mutated form: the newest task goes to the front.                        *)
PushEnqueueFront(t) ==
    /\ CanLock(t)
    /\ Goto(t, "p_lock", "p_notify")
    /\ tasks' = <<pushing[t]>> \o tasks
    /\ status' = [status EXCEPT ![pushing[t]] = "queued"]
    /\ UNCHANGED <<stoped, num_running, mtx, sleeping, current, pushing, crashed>>

(* Lines 81-83 and 95-98: stoped_ is not looked at again.                  *)
PushEnqueue(t) ==
    /\ CanLock(t)
    /\ Goto(t, "p_lock", "p_notify")
    /\ tasks' = Append(tasks, pushing[t])
    /\ status' = [status EXCEPT ![pushing[t]] = "queued"]
    /\ UNCHANGED <<stoped, num_running, mtx, sleeping, current, pushing, crashed>>

(* Mutated form: nobody is notified of a new task.                         *)
PushNotifyNobody(t) ==
    /\ Goto(t, "p_notify", Home(t))
    /\ pushing' = [pushing EXCEPT ![t] = NoTask]
    /\ UNCHANGED <<sync, current, crashed, status>>

PushNotify(t) ==
    /\ Goto(t, "p_notify", Home(t))
    /\ NotifyOne
    /\ pushing' = [pushing EXCEPT ![t] = NoTask]
    /\ UNCHANGED <<stoped, num_running, tasks, mtx, current, crashed, status>>

-----------------------------------------------------------------------------
(* run, lines 104-111.                                                     *)

Quiet == tasks = <<>> /\ num_running = 0

RunCall(c) ==
    /\ c \in Runners /\ Alive
    /\ Goto(c, "idle", "r_lock")
    /\ UNCHANGED <<sync, current, pushing, crashed, status>>

RunReturn(c) ==
    /\ CanLock(c) /\ Quiet
    /\ Goto(c, "r_lock", "idle")
    /\ UNCHANGED <<sync, current, pushing, crashed, status>>

(* The predicate is false; the thread still has mtx.                       *)
RunCheck(c) ==
    /\ CanLock(c) /\ ~Quiet
    /\ Goto(c, "r_lock", "r_block")
    /\ mtx' = c
    /\ UNCHANGED <<stoped, num_running, tasks, sleeping, current, pushing,
                   crashed, status>>

(* condition.wait releases mtx and blocks in one step.                     *)
RunBlock(c) ==
    /\ Goto(c, "r_block", "r_lock")
    /\ mtx' = NoThread
    /\ sleeping' = sleeping \cup {c}
    /\ UNCHANGED <<stoped, num_running, tasks, current, pushing, crashed, status>>

-----------------------------------------------------------------------------
(* stop, wait and the destructor, lines 71 and 114-151.                    *)

(* The caller of stop() or wait() is the owner: two threads that join the  *)
(* same std::thread have undefined behaviour.                              *)
StopCall(o) ==
    /\ \/ Goto(o, "idle", "s_lock")
       \/ Goto(o, "idle", "wait_lock")
    /\ UNCHANGED <<sync, current, pushing, crashed, status>>

(* Mutated form: the flag is set and no thread is woken.                   *)
PoolStopedSilently == stoped' = TRUE /\ UNCHANGED sleeping

(* pool_stoped, lines 146-151, under mtx.                                  *)
PoolStoped ==
    /\ stoped' = TRUE
    /\ IF stoped THEN UNCHANGED sleeping ELSE NotifyAll

(* stop(), which the destructor calls too, drops the queue.                *)
StopSet(o) ==
    /\ CanLock(o)
    /\ \/ Goto(o, "s_lock", "s_join")
       \/ Goto(o, "d_lock", "d_join")
    /\ PoolStoped
    /\ tasks' = <<>>
    /\ status' = [k \in Tasks |-> IF status[k] = "queued" THEN "dropped"
                                  ELSE status[k]]
    /\ UNCHANGED <<num_running, mtx, current, pushing, crashed>>

(* wait() leaves the queue as it is.                                       *)
WaitSet(o) ==
    /\ CanLock(o)
    /\ Goto(o, "wait_lock", "wait_join")
    /\ PoolStoped
    /\ UNCHANGED <<num_running, tasks, mtx, current, pushing, crashed, status>>

(* Mutated form: the threads are left to themselves instead of joined.     *)
JoinNobody(o) ==
    /\ \/ Goto(o, "s_join", "idle")
       \/ Goto(o, "wait_join", "idle")
       \/ Goto(o, "d_join", "gone")
    /\ UNCHANGED <<sync, current, pushing, crashed, status>>

Join(o) ==
    /\ \A w \in Workers : pc[w] = "w_exit"
    /\ \/ Goto(o, "s_join", "idle")
       \/ Goto(o, "wait_join", "idle")
       \/ Goto(o, "d_join", "gone")
    /\ UNCHANGED <<sync, current, pushing, crashed, status>>

(* ~ThreadPool, line 71, when no other client is inside a call.            *)
Destroy(o) ==
    /\ \A c \in Clients : pc[c] = "idle"
    /\ pc' = [pc EXCEPT ![o] = IF stoped THEN "gone" ELSE "d_lock"]
    /\ UNCHANGED <<sync, current, pushing, crashed, status>>

-----------------------------------------------------------------------------

(* std::condition_variable may wake a thread that nobody notified.         *)
SpuriousWake(t) ==
    /\ t \in sleeping
    /\ sleeping' = sleeping \ {t}
    /\ UNCHANGED <<stoped, num_running, tasks, mtx, pc, current, pushing,
                   crashed, status>>

Init ==
    /\ stoped = FALSE /\ num_running = 0 /\ tasks = <<>>
    /\ mtx = NoThread /\ sleeping = {}
    /\ pc = [t \in Threads |-> IF t \in Workers THEN "w_lock" ELSE "idle"]
    /\ current = [w \in Workers |-> NoTask]
    /\ pushing = [t \in Threads |-> NoTask]
    /\ crashed = FALSE
    /\ status = [k \in Tasks |-> "new"]

PushStep(t) == PushEnqueue(t) \/ PushNotify(t)

WorkerStep(w) ==
    \/ WorkerSleep(w) \/ WorkerExit(w) \/ WorkerPop(w)
    \/ WorkerInc(w) \/ WorkerFinish(w) \/ WorkerNotify(w)
    \/ PushStep(w)

(* What a client does inside a call.                                       *)
ClientStep(c) ==
    \/ PushStep(c)
    \/ RunReturn(c) \/ RunCheck(c) \/ RunBlock(c)
    \/ StopSet(c) \/ WaitSet(c) \/ Join(c)

(* The calls a thread may or may not make.                                 *)
Call ==
    \/ \E t \in Threads, k \in Tasks : PushCheck(t, k) \/ PushRefused(t, k)
    \/ \E c \in Clients : RunCall(c)
    \/ StopCall(Owner) \/ Destroy(Owner)

Next ==
    /\ ~crashed
    /\ \/ \E w \in Workers : WorkerStep(w)
       \/ \E c \in Clients : ClientStep(c)
       \/ Call
       \/ \E t \in Threads : SpuriousWake(t)

(* The operating system runs every thread, and a thread that asks for mtx  *)
(* while it is free again and again gets it in the end (strong fairness);  *)
(* a task that runs ends.  No call is ever due, no spurious wake-up is.    *)
Fairness ==
    /\ \A w \in Workers : SF_vars(~crashed /\ WorkerStep(w))
    /\ \A c \in Clients : SF_vars(~crashed /\ ClientStep(c))

Spec == Init /\ [][Next]_vars

FairSpec == Spec /\ Fairness

-----------------------------------------------------------------------------
(* Properties.                                                             *)

(* Every variable has the type of the field it models; the counter of the  *)
(* running tasks stays between zero and the number of the threads.         *)
TypeOK ==
    /\ stoped \in BOOLEAN /\ crashed \in BOOLEAN
    /\ num_running \in 0 .. Cardinality(Workers)
    /\ tasks \in Seq(Tasks)
    /\ mtx \in Clients \cup {NoThread}
    /\ sleeping \subseteq Threads
    /\ pc \in [Threads -> WorkerPC \cup PushPC \cup ClientPC]
    /\ \A w \in Workers : pc[w] \in WorkerPC \cup PushPC
    /\ \A c \in Clients : pc[c] \in ClientPC \cup PushPC
    /\ current \in [Workers -> Tasks \cup {NoTask}]
    /\ pushing \in [Threads -> Tasks \cup {NoTask}]
    /\ status \in [Tasks -> Status]

(* The workers inside task(), line 62.                                     *)
Executing == {w \in Workers : pc[w] \in {"w_task"} \cup PushPC}

(* num_running_, changed without the mutex by every worker, is the number  *)
(* of workers between lines 61 and 63, whatever they are doing there.      *)
RunningCount == num_running = Cardinality(Executing)

(* The tasks that are being submitted, queued or run are each in exactly   *)
(* one place: no task is lost, none is run twice or by two workers.        *)
TaskPlaces ==
    /\ \A i, j \in 1 .. Len(tasks) : tasks[i] = tasks[j] => i = j
    /\ \A k \in Tasks : status[k] = "queued" <=>
                            \E i \in 1 .. Len(tasks) : tasks[i] = k
    /\ \A k \in Tasks : status[k] = "running" <=>
                            \E w \in Workers : current[w] = k
    /\ \A v, w \in Workers : current[v] = current[w] /\ v # w
                                => current[v] = NoTask

(* Once stop(), wait() or the destructor has returned, every worker has    *)
(* left its loop, no task runs, and no thread is left blocked inside an    *)
(* object whose mutex and condition variable are gone.                     *)
JoinedPoolIsQuiet ==
    /\ stoped /\ pc[Owner] \in {"idle", "gone"} =>
          num_running = 0 /\ \A w \in Workers : pc[w] = "w_exit"
    /\ pc[Owner] = "gone" => mtx = NoThread /\ sleeping = {}

(* While nobody calls run(), a queued task never waits for a thread that   *)
(* nobody will wake: some worker is awake or a notify_one is still due.    *)
SomebodyWillTake ==
    tasks # <<>> /\ ~stoped =>
        \/ \E w \in Workers : w \notin sleeping
        \/ \E t \in Threads : pc[t] = "p_notify"

(* The pool implements the promise of TaskPool: order of the tasks, one    *)
(* start each, no more of them at a time than threads, nothing started     *)
(* after the pool is closed.                                               *)
TP == INSTANCE TaskPool WITH
        Width <- Cardinality(Workers), closed <- stoped, pending <- tasks,
        state <- [k \in Tasks |-> IF status[k] = "pushing" THEN "new"
                                  ELSE status[k]]

ImplementsTaskPool == TP!Spec

(* stop(), wait() and the destructor return, if the running tasks end.     *)
StopReturns ==
    pc[Owner] \in {"s_lock", "wait_lock", "d_lock"}
        ~> (pc[Owner] \in {"idle", "gone"} \/ crashed)

(* A task that was queued is taken by a worker, unless the pool is closed. *)
QueuedIsTaken ==
    \A k \in Tasks : status[k] = "queued"
                        ~> (status[k] # "queued" \/ stoped \/ crashed)

-----------------------------------------------------------------------------
(* What a comment of ThreadPool.hpp says and the code does not do.         *)

(* Line 102: once all tasks are complete run() returns, unless the pool is  *)
(* closed meanwhile.                                                       *)
RunReturns ==
    \A c \in Clients : pc[c] = "r_lock" ~> (pc[c] = "idle" \/ stoped)
=============================================================================
