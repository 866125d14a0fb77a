--------------------------- MODULE AsyncExecutor ---------------------------
(***************************************************************************)
(* ayr::async::AsyncExecutor and AsyncTask (async/TaskExecutor.hpp): a     *)
(* graph of tasks run on a ThreadPool.  Every task counts in pre_ the      *)
(* edges that lead to it and are not handled yet; the worker that handles  *)
(* the last one pushes the task.  The root has an empty body and an edge   *)
(* to every task created.                                                  *)
(*                                                                         *)
(* The pool is the module ThreadPool, one main thread builds the graph and *)
(* calls run(), and the tasks of the pool are the closures                 *)
(* child->action(pool), one for each AsyncTask.  Nodes are numbered so     *)
(* that edges go up: any acyclic graph is one of these, and the order in   *)
(* which the tasks are created and linked stays free.                      *)
(***************************************************************************)
EXTENDS ThreadPool

CONSTANTS Nodes, Root, MaxEdges   \* MaxEdges bounds the calls of then()

ASSUME ExecutorAssumption ==
    /\ Nodes \subseteq Nat /\ IsFiniteSet(Nodes)
    /\ Root \notin Nodes /\ MaxEdges \in Nat
    /\ Tasks = Nodes \cup {Root} /\ FutureTasks = {}
    /\ Clients = {Owner} /\ Runners = Clients /\ Pushers = Threads

VARIABLES
    created,   \* the tasks made by create_task
    childs,    \* childs_ of every task
    pre,       \* pre_ of every task
    next,      \* per worker: 0 while task_() runs, then the index in childs_
    phase,     \* how far the main thread is in AsyncExecutor::run
    finished   \* history: the tasks whose body has returned

graph == <<created, childs>>
execVars == <<created, childs, pre, next, phase, finished>>
allVars == <<vars, execVars>>

EdgesInto(n) == {p \in Tasks : \E i \in 1 .. Len(childs[p]) : childs[p][i] = n}
Edges == {e \in Nodes \X Nodes : e[1] \in EdgesInto(e[2])}

ExecInit ==
    /\ Init
    /\ created = {}
    /\ childs = [k \in Tasks |-> <<>>]
    /\ pre = [k \in Tasks |-> 0]
    /\ next = [w \in Workers |-> 0]
    /\ phase = "build"
    /\ finished = {}

-----------------------------------------------------------------------------
(* Building the graph, lines 50-57 and 87-103.                             *)

(* Mutated form: the edge is added and pre_ is not incremented.            *)
LinkUncounted(p, n) ==
    /\ childs' = [childs EXCEPT ![p] = Append(@, n)]
    /\ UNCHANGED pre

(* then(): ++child->pre_ and childs_.append(child).                        *)
Link(p, n) ==
    /\ childs' = [childs EXCEPT ![p] = Append(@, n)]
    /\ pre' = [pre EXCEPT ![n] = @ + 1]

CreateTask(n) ==
    /\ phase = "build" /\ n \notin created
    /\ created' = created \cup {n}
    /\ Link(Root, n)
    /\ UNCHANGED <<vars, next, phase, finished>>

Then(p, n) ==
    /\ phase = "build" /\ p < n /\ {p, n} \subseteq created
    /\ p \notin EdgesInto(n) /\ Cardinality(Edges) < MaxEdges
    /\ Link(p, n)
    /\ UNCHANGED <<vars, created, next, phase, finished>>

(* clear() empties the children of the root only: pre_ keeps its value.    *)
Clear ==
    /\ phase = "build" /\ childs[Root] # <<>>
    /\ childs' = [childs EXCEPT ![Root] = <<>>]
    /\ UNCHANGED <<vars, created, pre, next, phase, finished>>

-----------------------------------------------------------------------------
(* AsyncExecutor::run, lines 106-111, on the main thread.                  *)

ExecRun ==
    /\ phase = "build" /\ phase' = "push"
    /\ PushCheck(Owner, Root)
    /\ UNCHANGED <<graph, pre, next, finished>>

ExecPoolRun ==
    /\ phase = "push" /\ phase' = "run"
    /\ RunCall(Owner)
    /\ UNCHANGED <<graph, pre, next, finished>>

ExecStop ==
    /\ phase = "run" /\ phase' = "stop"
    /\ pc[Owner] = "idle" /\ StopCall(Owner) /\ pc'[Owner] = "s_lock"
    /\ UNCHANGED <<graph, pre, next, finished>>

ExecReturn ==
    /\ phase = "stop" /\ phase' = "done"
    /\ Join(Owner)
    /\ UNCHANGED <<graph, pre, next, finished>>

(* The executor goes out of scope, and its pool with it.                   *)
ExecDestroy ==
    /\ phase \in {"build", "done"} /\ phase' = "destroyed"
    /\ Destroy(Owner)
    /\ UNCHANGED <<graph, pre, next, finished>>

(* What the main thread does inside the calls of the pool.                 *)
MainStep ==
    /\ \/ PushStep(Owner)
       \/ RunReturn(Owner) \/ RunCheck(Owner) \/ RunBlock(Owner)
       \/ StopSet(Owner)
       \/ phase = "destroyed" /\ Join(Owner)
    /\ UNCHANGED execVars

-----------------------------------------------------------------------------
(* AsyncTask::action, lines 59-65, on a worker.                            *)

(* task_() returns.                                                        *)
ActionBody(w) ==
    /\ pc[w] = "w_task" /\ next[w] = 0
    /\ next' = [next EXCEPT ![w] = 1]
    /\ finished' = finished \cup {current[w]}
    /\ UNCHANGED <<vars, graph, pre, phase>>

(* Mutated form: a child is pushed as soon as one of its parents is done.  *)
ActionChildEager(w) ==
    LET cs == childs[current[w]]
        n == cs[next[w]]
    IN  /\ pc[w] = "w_task" /\ next[w] \in 1 .. Len(cs)
        /\ next' = [next EXCEPT ![w] = @ + 1]
        /\ pre' = [pre EXCEPT ![n] = @ - 1]
        /\ IF status[n] = "new"
           THEN PushCheck(w, n) \/ PushRefused(w, n)
           ELSE UNCHANGED vars
        /\ UNCHANGED <<graph, phase, finished>>

(* Mutated form: the counter is compared before it is decremented.         *)
ActionChildLate(w) ==
    LET cs == childs[current[w]]
        n == cs[next[w]]
    IN  /\ pc[w] = "w_task" /\ next[w] \in 1 .. Len(cs)
        /\ next' = [next EXCEPT ![w] = @ + 1]
        /\ pre' = [pre EXCEPT ![n] = @ - 1]
        /\ IF pre[n] = 0
           THEN PushCheck(w, n) \/ PushRefused(w, n)
           ELSE UNCHANGED vars
        /\ UNCHANGED <<graph, phase, finished>>

(* One turn of the loop over childs_: the decrement, and the check of push *)
(* when it reaches zero (nobody else decrements it any more by then).  A   *)
(* refused push throws out of the worker.                                  *)
ActionChild(w) ==
    LET cs == childs[current[w]]
        n == cs[next[w]]
    IN  /\ pc[w] = "w_task" /\ next[w] \in 1 .. Len(cs)
        /\ next' = [next EXCEPT ![w] = @ + 1]
        /\ pre' = [pre EXCEPT ![n] = @ - 1]
        /\ IF pre[n] = 1
           THEN PushCheck(w, n) \/ PushRefused(w, n)
           ELSE UNCHANGED vars
        /\ UNCHANGED <<graph, phase, finished>>

(* The rest of the worker loop is the pool's.                              *)
PoolStep(w) ==
    \/ /\ WorkerSleep(w) \/ WorkerExit(w) \/ WorkerInc(w) \/ WorkerNotify(w)
          \/ PushStep(w)
       /\ UNCHANGED execVars
    \/ /\ WorkerPop(w)
       /\ next' = [next EXCEPT ![w] = 0]
       /\ UNCHANGED <<graph, pre, phase, finished>>
    \/ /\ WorkerFinish(w)
       /\ next[w] > Len(childs[current[w]])
       /\ next' = [next EXCEPT ![w] = 0]
       /\ UNCHANGED <<graph, pre, phase, finished>>

ExecWorkerStep(w) == ActionBody(w) \/ ActionChild(w) \/ PoolStep(w)

Build ==
    \/ \E n \in Nodes : CreateTask(n)
    \/ \E p, n \in Nodes : Then(p, n)
    \/ Clear

RunSequence == ExecRun \/ ExecPoolRun \/ ExecStop \/ ExecReturn \/ ExecDestroy

ExecNext ==
    /\ ~crashed
    /\ \/ \E w \in Workers : ExecWorkerStep(w)
       \/ MainStep \/ Build \/ RunSequence
       \/ \E t \in Threads : SpuriousWake(t) /\ UNCHANGED execVars

(* The threads of the pool as in ThreadPool; bodies of tasks return; once  *)
(* run() is called the main thread goes on with it.                        *)
ExecFairness ==
    /\ \A w \in Workers : SF_allVars(~crashed /\ ExecWorkerStep(w))
    /\ SF_allVars(~crashed /\ MainStep)
    /\ WF_allVars(~crashed /\ (ExecPoolRun \/ ExecStop \/ ExecReturn))

ExecSpec == ExecInit /\ [][ExecNext]_allVars

FairExecSpec == ExecSpec /\ ExecFairness

-----------------------------------------------------------------------------
(* Properties.                                                             *)

(* The variables of the pool and of the graph have their types; pre_ never *)
(* goes below zero.                                                        *)
ExecTypeOK ==
    /\ TypeOK
    /\ created \subseteq Nodes
    /\ \A k \in Tasks : Len(childs[k]) <= Cardinality(Nodes)
    /\ pre \in [Tasks -> 0 .. Cardinality(Tasks)]
    /\ \A w \in Workers : next[w] \in 0 .. Cardinality(Nodes) + 1
    /\ phase \in {"build", "push", "run", "stop", "done", "destroyed"}
    /\ finished \subseteq Tasks

(* The child that a worker is in the middle of handing over is counted.    *)
Handled(p, n) ==
    \/ status[p] = "done"
    \/ \E w \in Workers : /\ current[w] = p
                          /\ \E i \in 1 .. next[w] - 1 : childs[p][i] = n

(* pre_ of a task is the number of its parents that have not handled their *)
(* edge yet, whatever the workers are in the middle of.  clear() takes the *)
(* root's edges away without counting them down: while the root keeps its  *)
(* edges the count is exact, otherwise it is one too many for the tasks    *)
(* created before, which then never start.                                 *)
PreCountsParents ==
    /\ ExecTypeOK
    /\ \A n \in created :
          LET left == Cardinality({p \in EdgesInto(n) : ~Handled(p, n)})
          IN  pre[n] = IF Root \in EdgesInto(n) THEN left ELSE left + 1

(* The body of a task starts after the bodies of all its parents returned, *)
(* and a task whose counter is not zero is not in the pool.                *)
ChildAfterParents ==
    /\ \A w \in Workers : current[w] # NoTask =>
                              EdgesInto(current[w]) \subseteq finished
    /\ \A n \in created : pre[n] > 0 => status[n] = "new"

NotCleared == \A n \in created : Root \in EdgesInto(n)

(* Every task of a graph that was not cleared runs to its end, unless      *)
(* run() has gone on to stop the pool.                                     *)
EveryTaskRuns ==
    phase = "run" /\ NotCleared ~> (created \subseteq finished \/ phase = "stop")

-----------------------------------------------------------------------------
(* What the documentation says and the code does not do.                   *)

(* README.md: exec.run() blocks until all the tasks are complete.          *)
ExecRunCompletesAll ==
    phase = "done" /\ NotCleared => created \subseteq finished
=============================================================================
