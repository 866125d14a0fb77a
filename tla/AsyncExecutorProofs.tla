------------------------ MODULE AsyncExecutorProofs -------------------------
(***************************************************************************)
(* The thread pool and the executor of task graphs, for any number of      *)
(* workers, clients, tasks and edges.  The executor takes only steps that  *)
(* the pool allows, so that the inductive invariant of the pool is one of  *)
(* the executor, too: the pool comes first.                                *)
(***************************************************************************)
EXTENDS AsyncExecutor, FiniteSetTheorems, TLAPS

(***************************************************************************)
(* THE POOL.  The inductive invariant IInv has five parts; each lemma proves *)
(* that a step preserves one part, given the parts it rests on, with one   *)
(* case for each action.  The theorems at the end put them together.       *)
(***************************************************************************)

(* TypeOK without the upper bound of num_running, which needs the count.   *)
Types ==
    /\ stoped \in BOOLEAN /\ crashed \in BOOLEAN
    /\ num_running \in Int
    /\ tasks \in Seq(Tasks)
    /\ mtx \in Clients \cup {NoThread}
    /\ sleeping \subseteq Threads
    /\ pc \in [Threads -> WorkerPC \cup PushPC \cup ClientPC]
    /\ \A w \in Workers : pc[w] \in WorkerPC \cup PushPC
    /\ \A c \in Clients : pc[c] \in ClientPC \cup PushPC
    /\ current \in [Workers -> Tasks \cup {NoTask}]
    /\ pushing \in [Threads -> Tasks \cup {NoTask}]
    /\ status \in [Tasks -> Status]

(* What a thread holds, and where: the task it runs, the task it submits.  *)
Holdings ==
    /\ \A w \in Workers :
          current[w] # NoTask <=> pc[w] \in {"w_inc", "w_task"} \cup PushPC
    /\ \A t \in Threads : pc[t] \in PushPC => pushing[t] # NoTask

(* Who keeps the mutex between two actions, and who may sleep.             *)
Waiting ==
    /\ \A c \in Clients : mtx = c <=> pc[c] = "r_block"
    /\ \A t \in sleeping : pc[t] \in {"w_lock", "r_lock"}

(* A task that a thread is submitting is in nobody else's hands.           *)
Submissions ==
    /\ \A t \in Threads : pc[t] = "p_lock" => status[pushing[t]] = "pushing"
    /\ \A s, t \in Threads : pc[s] = "p_lock" /\ pc[t] = "p_lock"
                               /\ pushing[s] = pushing[t] => s = t

JoinPC == {"s_join", "wait_join", "d_join"}

AllExited == \A w \in Workers : pc[w] = "w_exit"

(* Only the owner stops the pool; once it has, it is joining the workers   *)
(* or they have all exited; once it destroys the pool nobody else uses it. *)
Stopping ==
    /\ \A c \in Clients \ {Owner} :
          pc[c] \in {"idle", "r_lock", "r_block"} \cup PushPC
    /\ pc[Owner] \in JoinPC \cup {"gone"} => stoped
    /\ stoped => pc[Owner] \in JoinPC \/ AllExited
    /\ ~Alive => \A c \in Clients \ {Owner} : pc[c] = "idle"

-----------------------------------------------------------------------------
(* The variables keep their types, whatever step the pool takes.           *)
LEMMA TypesInit == Init => Types
<1> SUFFICES ASSUME Init PROVE Types
  OBVIOUS
<1>1. tasks \in Seq(Tasks)
  BY DEF Init
<1>2. /\ pc \in [Threads -> WorkerPC \cup PushPC \cup ClientPC]
      /\ \A w \in Workers : pc[w] = "w_lock"
      /\ \A c \in Clients : pc[c] = "idle"
  BY PoolAssumption DEF Init, Threads, WorkerPC, ClientPC
<1>3. /\ current \in [Workers -> Tasks \cup {NoTask}]
      /\ pushing \in [Threads -> Tasks \cup {NoTask}]
      /\ status \in [Tasks -> Status]
  BY DEF Init, Status
<1>4. /\ \A w \in Workers : pc[w] \in WorkerPC \cup PushPC
      /\ \A c \in Clients : pc[c] \in ClientPC \cup PushPC
  BY <1>2 DEF WorkerPC, ClientPC
<1>5. stoped \in BOOLEAN /\ crashed \in BOOLEAN
  BY DEF Init
<1>6. num_running \in Int /\ mtx \in Clients \cup {NoThread} /\ sleeping \subseteq Threads
  BY DEF Init
<1>7. QED BY <1>1, <1>2, <1>3, <1>4, <1>5, <1>6 DEF Types

LEMMA TypesStep == Types /\ Holdings /\ [Next]_vars => Types'
<1> SUFFICES ASSUME Types, Holdings, [Next]_vars PROVE Types'
  OBVIOUS
<1> USE PoolAssumption DEF Types, Threads, WorkerPC, PushPC, ClientPC, Status,
        sync, Goto, CanLock, Home, NotifyOne, NotifyAll, PoolStoped
<1>1. ASSUME NEW w \in Workers, WorkerStep(w) PROVE Types'
  <2>1. CASE WorkerSleep(w)  BY <2>1 DEF WorkerSleep
  <2>2. CASE WorkerExit(w)  BY <2>2 DEF WorkerExit
  <2>3. CASE WorkerPop(w)  BY <2>3 DEF WorkerPop
  <2>4. CASE WorkerInc(w)  BY <2>4 DEF WorkerInc
  <2>5. CASE WorkerFinish(w)
    BY <2>5 DEF WorkerFinish, Holdings
  <2>6. CASE WorkerNotify(w)  BY <2>6 DEF WorkerNotify
  <2>7. CASE PushEnqueue(w)
    <3>1. pushing[w] \in Tasks
      BY <2>7 DEF PushEnqueue, Holdings
    <3>2. QED BY <2>7, <3>1 DEF PushEnqueue
  <2>8. CASE PushNotify(w)  BY <2>8 DEF PushNotify
  <2>9. QED BY <1>1, <2>1, <2>2, <2>3, <2>4, <2>5, <2>6, <2>7, <2>8
             DEF WorkerStep, PushStep
<1>2. ASSUME NEW c \in Clients, ClientStep(c) PROVE Types'
  <2>1. CASE PushEnqueue(c)
    <3>1. pushing[c] \in Tasks
      BY <2>1 DEF PushEnqueue, Holdings
    <3>2. QED BY <2>1, <3>1 DEF PushEnqueue
  <2>2. CASE PushNotify(c)  BY <2>2 DEF PushNotify
  <2>3. CASE RunReturn(c)  BY <2>3 DEF RunReturn
  <2>4. CASE RunCheck(c)  BY <2>4 DEF RunCheck
  <2>5. CASE RunBlock(c)  BY <2>5 DEF RunBlock
  <2>6. CASE StopSet(c)  BY <2>6 DEF StopSet
  <2>7. CASE WaitSet(c)  BY <2>7 DEF WaitSet
  <2>8. CASE Join(c)  BY <2>8 DEF Join
  <2>9. QED BY <1>2, <2>1, <2>2, <2>3, <2>4, <2>5, <2>6, <2>7, <2>8
             DEF ClientStep, PushStep
<1>3. ASSUME Call PROVE Types'
  <2>1. ASSUME NEW t \in Threads, NEW k \in Tasks, PushCheck(t, k) PROVE Types'
    BY <2>1 DEF PushCheck
  <2>2. ASSUME NEW t \in Threads, NEW k \in Tasks, PushRefused(t, k) PROVE Types'
    BY <2>2 DEF PushRefused
  <2>3. ASSUME NEW c \in Clients, RunCall(c) PROVE Types'
    BY <2>3 DEF RunCall
  <2>4. ASSUME StopCall(Owner) PROVE Types'
    BY <2>4 DEF StopCall
  <2>5. ASSUME Destroy(Owner) PROVE Types'
    BY <2>5 DEF Destroy
  <2>6. QED BY <1>3, <2>1, <2>2, <2>3, <2>4, <2>5 DEF Call
<1>4. ASSUME NEW t \in Threads, SpuriousWake(t) PROVE Types'
  BY <1>4 DEF SpuriousWake
<1>5. CASE UNCHANGED vars  BY <1>5 DEF vars
<1>6. QED BY <1>1, <1>2, <1>3, <1>4, <1>5 DEF Next

(* A worker has a task from the pop to the end of the task; a thread that  *)
(* submits a task has it until it has notified.                            *)
LEMMA HoldingsStep == Types /\ Holdings /\ [Next]_vars => Holdings'
<1> SUFFICES ASSUME Types, Holdings, [Next]_vars PROVE Holdings'
  OBVIOUS
<1> USE PoolAssumption DEF Types, Holdings, Threads, WorkerPC, PushPC, ClientPC, Status,
        sync, Goto, CanLock, Home, NotifyOne, NotifyAll, PoolStoped
<1>1. ASSUME NEW w \in Workers, WorkerStep(w) PROVE Holdings'
  <2>1. CASE WorkerSleep(w)  BY <2>1 DEF WorkerSleep
  <2>2. CASE WorkerExit(w)  BY <2>2 DEF WorkerExit
  <2>3. CASE WorkerPop(w)
    <3>1. Head(tasks) \in Tasks
      BY <2>3 DEF WorkerPop
    <3>2. QED BY <2>3, <3>1 DEF WorkerPop
  <2>4. CASE WorkerInc(w)  BY <2>4 DEF WorkerInc
  <2>5. CASE WorkerFinish(w)  BY <2>5 DEF WorkerFinish
  <2>6. CASE WorkerNotify(w)  BY <2>6 DEF WorkerNotify
  <2>7. CASE PushEnqueue(w)  BY <2>7 DEF PushEnqueue
  <2>8. CASE PushNotify(w)  BY <2>8 DEF PushNotify
  <2>9. QED BY <1>1, <2>1, <2>2, <2>3, <2>4, <2>5, <2>6, <2>7, <2>8
             DEF WorkerStep, PushStep
<1>2. ASSUME NEW c \in Clients, ClientStep(c) PROVE Holdings'
  <2>1. CASE PushEnqueue(c)  BY <2>1 DEF PushEnqueue
  <2>2. CASE PushNotify(c)  BY <2>2 DEF PushNotify
  <2>3. CASE RunReturn(c)  BY <2>3 DEF RunReturn
  <2>4. CASE RunCheck(c)  BY <2>4 DEF RunCheck
  <2>5. CASE RunBlock(c)  BY <2>5 DEF RunBlock
  <2>6. CASE StopSet(c)  BY <2>6 DEF StopSet
  <2>7. CASE WaitSet(c)  BY <2>7 DEF WaitSet
  <2>8. CASE Join(c)  BY <2>8 DEF Join
  <2>9. QED BY <1>2, <2>1, <2>2, <2>3, <2>4, <2>5, <2>6, <2>7, <2>8
             DEF ClientStep, PushStep
<1>3. ASSUME Call PROVE Holdings'
  <2>1. ASSUME NEW t \in Threads, NEW k \in Tasks, PushCheck(t, k) PROVE Holdings'
    BY <2>1 DEF PushCheck
  <2>2. ASSUME NEW t \in Threads, NEW k \in Tasks, PushRefused(t, k) PROVE Holdings'
    BY <2>2 DEF PushRefused
  <2>3. ASSUME NEW c \in Clients, RunCall(c) PROVE Holdings'
    BY <2>3 DEF RunCall
  <2>4. ASSUME StopCall(Owner) PROVE Holdings'
    BY <2>4 DEF StopCall
  <2>5. ASSUME Destroy(Owner) PROVE Holdings'
    BY <2>5 DEF Destroy
  <2>6. QED BY <1>3, <2>1, <2>2, <2>3, <2>4, <2>5 DEF Call
<1>4. ASSUME NEW t \in Threads, SpuriousWake(t) PROVE Holdings'
  BY <1>4 DEF SpuriousWake
<1>5. CASE UNCHANGED vars  BY <1>5 DEF vars
<1>6. QED BY <1>1, <1>2, <1>3, <1>4, <1>5 DEF Next

(* The mutex is kept between two actions by the client that is about to    *)
(* block in run(), and only a worker or a caller of run() ever sleeps.     *)
LEMMA WaitingStep == Types /\ Waiting /\ [Next]_vars => Waiting'
<1> SUFFICES ASSUME Types, Waiting, [Next]_vars PROVE Waiting'
  OBVIOUS
<1> USE PoolAssumption DEF Types, Waiting, Threads, WorkerPC, PushPC, ClientPC, Status,
        sync, Goto, CanLock, Home, NotifyOne, NotifyAll, PoolStoped
<1>1. ASSUME NEW w \in Workers, WorkerStep(w) PROVE Waiting'
  <2>1. CASE WorkerSleep(w)  BY <2>1 DEF WorkerSleep
  <2>2. CASE WorkerExit(w)  BY <2>2 DEF WorkerExit
  <2>3. CASE WorkerPop(w)  BY <2>3 DEF WorkerPop
  <2>4. CASE WorkerInc(w)  BY <2>4 DEF WorkerInc
  <2>5. CASE WorkerFinish(w)  BY <2>5 DEF WorkerFinish
  <2>6. CASE WorkerNotify(w)  BY <2>6 DEF WorkerNotify
  <2>7. CASE PushEnqueue(w)  BY <2>7 DEF PushEnqueue
  <2>8. CASE PushNotify(w)  BY <2>8 DEF PushNotify
  <2>9. QED BY <1>1, <2>1, <2>2, <2>3, <2>4, <2>5, <2>6, <2>7, <2>8
             DEF WorkerStep, PushStep
<1>2. ASSUME NEW c \in Clients, ClientStep(c) PROVE Waiting'
  <2>1. CASE PushEnqueue(c)  BY <2>1 DEF PushEnqueue
  <2>2. CASE PushNotify(c)  BY <2>2 DEF PushNotify
  <2>3. CASE RunReturn(c)  BY <2>3 DEF RunReturn
  <2>4. CASE RunCheck(c)  BY <2>4 DEF RunCheck
  <2>5. CASE RunBlock(c)  BY <2>5 DEF RunBlock
  <2>6. CASE StopSet(c)  BY <2>6 DEF StopSet
  <2>7. CASE WaitSet(c)  BY <2>7 DEF WaitSet
  <2>8. CASE Join(c)  BY <2>8 DEF Join
  <2>9. QED BY <1>2, <2>1, <2>2, <2>3, <2>4, <2>5, <2>6, <2>7, <2>8
             DEF ClientStep, PushStep
<1>3. ASSUME Call PROVE Waiting'
  <2>1. ASSUME NEW t \in Threads, NEW k \in Tasks, PushCheck(t, k) PROVE Waiting'
    BY <2>1 DEF PushCheck
  <2>2. ASSUME NEW t \in Threads, NEW k \in Tasks, PushRefused(t, k) PROVE Waiting'
    BY <2>2 DEF PushRefused
  <2>3. ASSUME NEW c \in Clients, RunCall(c) PROVE Waiting'
    BY <2>3 DEF RunCall
  <2>4. ASSUME StopCall(Owner) PROVE Waiting'
    BY <2>4 DEF StopCall
  <2>5. ASSUME Destroy(Owner) PROVE Waiting'
    BY <2>5 DEF Destroy
  <2>6. QED BY <1>3, <2>1, <2>2, <2>3, <2>4, <2>5 DEF Call
<1>4. ASSUME NEW t \in Threads, SpuriousWake(t) PROVE Waiting'
  BY <1>4 DEF SpuriousWake
<1>5. CASE UNCHANGED vars  BY <1>5 DEF vars
<1>6. QED BY <1>1, <1>2, <1>3, <1>4, <1>5 DEF Next

(* A task submitted by a thread is submitted by that thread only, and its  *)
(* fate is not decided before it is in the queue.                          *)
LEMMA SubmissionsStep ==
    Types /\ Holdings /\ TaskPlaces /\ Submissions /\ [Next]_vars => Submissions'
<1> SUFFICES ASSUME Types, Holdings, TaskPlaces, Submissions, [Next]_vars PROVE Submissions'
  OBVIOUS
<1> USE PoolAssumption DEF Types, Holdings, Submissions, Threads, WorkerPC, PushPC, ClientPC, Status,
        sync, Goto, CanLock, Home, NotifyOne, NotifyAll, PoolStoped
<1>1. ASSUME NEW w \in Workers, WorkerStep(w) PROVE Submissions'
  <2>1. CASE WorkerSleep(w)  BY <2>1 DEF WorkerSleep
  <2>2. CASE WorkerExit(w)  BY <2>2 DEF WorkerExit
  <2>3. CASE WorkerPop(w)
    <3>1. Head(tasks) \in Tasks /\ status[Head(tasks)] = "queued"
      BY <2>3 DEF WorkerPop, TaskPlaces
    <3>2. QED BY <2>3, <3>1 DEF WorkerPop
  <2>4. CASE WorkerInc(w)  BY <2>4 DEF WorkerInc
  <2>5. CASE WorkerFinish(w)
    <3>1. current[w] \in Tasks /\ status[current[w]] = "running"
      BY <2>5 DEF WorkerFinish, TaskPlaces
    <3>2. QED BY <2>5, <3>1 DEF WorkerFinish
  <2>6. CASE WorkerNotify(w)  BY <2>6 DEF WorkerNotify
  <2>7. CASE PushEnqueue(w)  BY <2>7 DEF PushEnqueue
  <2>8. CASE PushNotify(w)  BY <2>8 DEF PushNotify
  <2>9. QED BY <1>1, <2>1, <2>2, <2>3, <2>4, <2>5, <2>6, <2>7, <2>8
             DEF WorkerStep, PushStep
<1>2. ASSUME NEW c \in Clients, ClientStep(c) PROVE Submissions'
  <2>1. CASE PushEnqueue(c)  BY <2>1 DEF PushEnqueue
  <2>2. CASE PushNotify(c)  BY <2>2 DEF PushNotify
  <2>3. CASE RunReturn(c)  BY <2>3 DEF RunReturn
  <2>4. CASE RunCheck(c)  BY <2>4 DEF RunCheck
  <2>5. CASE RunBlock(c)  BY <2>5 DEF RunBlock
  <2>6. CASE StopSet(c)  BY <2>6 DEF StopSet
  <2>7. CASE WaitSet(c)  BY <2>7 DEF WaitSet
  <2>8. CASE Join(c)  BY <2>8 DEF Join
  <2>9. QED BY <1>2, <2>1, <2>2, <2>3, <2>4, <2>5, <2>6, <2>7, <2>8
             DEF ClientStep, PushStep
<1>3. ASSUME Call PROVE Submissions'
  <2>1. ASSUME NEW t \in Threads, NEW k \in Tasks, PushCheck(t, k) PROVE Submissions'
    BY <2>1 DEF PushCheck
  <2>2. ASSUME NEW t \in Threads, NEW k \in Tasks, PushRefused(t, k) PROVE Submissions'
    BY <2>2 DEF PushRefused
  <2>3. ASSUME NEW c \in Clients, RunCall(c) PROVE Submissions'
    BY <2>3 DEF RunCall
  <2>4. ASSUME StopCall(Owner) PROVE Submissions'
    <3>1. UNCHANGED <<status, pushing>> /\ \A t \in Threads : pc'[t] = "p_lock" => pc[t] = "p_lock"
      BY <2>4 DEF StopCall
    <3>2. QED BY <3>1 DEF Submissions
  <2>5. ASSUME Destroy(Owner) PROVE Submissions'
    BY <2>5 DEF Destroy
  <2>6. QED BY <1>3, <2>1, <2>2, <2>3, <2>4, <2>5 DEF Call
<1>4. ASSUME NEW t \in Threads, SpuriousWake(t) PROVE Submissions'
  BY <1>4 DEF SpuriousWake
<1>5. CASE UNCHANGED vars  BY <1>5 DEF vars
<1>6. QED BY <1>1, <1>2, <1>3, <1>4, <1>5 DEF Next

(* Queued tasks are in the queue once, running ones with one worker.       *)
LEMMA TaskPlacesStep ==
    Types /\ Holdings /\ TaskPlaces /\ Submissions /\ [Next]_vars => TaskPlaces'
<1> SUFFICES ASSUME Types, Holdings, TaskPlaces, Submissions, [Next]_vars PROVE TaskPlaces'
  OBVIOUS
<1> USE PoolAssumption DEF Types, Holdings, TaskPlaces, Threads, WorkerPC, PushPC, ClientPC, Status,
        sync, Goto, CanLock, Home, NotifyOne, NotifyAll, PoolStoped
<1>1. ASSUME NEW w \in Workers, WorkerStep(w) PROVE TaskPlaces'
  <2>1. CASE WorkerSleep(w)  BY <2>1 DEF WorkerSleep
  <2>2. CASE WorkerExit(w)  BY <2>2 DEF WorkerExit
  <2>3. CASE WorkerPop(w)
    <3> DEFINE k == Head(tasks)
    <3>1. /\ tasks # <<>> /\ k = tasks[1] /\ k \in Tasks /\ status[k] = "queued"
          /\ tasks' = Tail(tasks)
          /\ status' = [status EXCEPT ![k] = "running"]
          /\ current' = [current EXCEPT ![w] = k]
      BY <2>3 DEF WorkerPop
    <3>2. /\ Len(tasks') = Len(tasks) - 1
          /\ \A i \in 1 .. Len(tasks') : tasks'[i] = tasks[i + 1]
          /\ \A i \in 2 .. Len(tasks) : tasks[i] = tasks'[i - 1] /\ tasks[i] # k
      BY <3>1
    <3>3. \A v \in Workers : current[v] # k
      BY <3>1
    <3>4. \A i, j \in 1 .. Len(tasks') : tasks'[i] = tasks'[j] => i = j
      BY <3>1, <3>2
    <3>5. ASSUME NEW q \in Tasks
          PROVE  status'[q] = "queued" <=> \E i \in 1 .. Len(tasks') : tasks'[i] = q
      <4>1. CASE q = k
        <5>1. \A i \in 1 .. Len(tasks') : i + 1 \in 2 .. Len(tasks) /\ tasks'[i] # k
          BY <3>1, <3>2
        <5>2. QED BY <3>1, <4>1, <5>1
      <4>2. CASE q # k
        <5>1. status'[q] = status[q]
          BY <3>1, <4>2
        <5>2. ASSUME NEW i \in 1 .. Len(tasks), tasks[i] = q
              PROVE  i - 1 \in 1 .. Len(tasks') /\ tasks'[i - 1] = q
          BY <3>1, <3>2, <4>2, <5>2
        <5>3. ASSUME NEW i \in 1 .. Len(tasks'), tasks'[i] = q
              PROVE  i + 1 \in 1 .. Len(tasks) /\ tasks[i + 1] = q
          BY <3>1, <3>2, <5>3
        <5>4. QED BY <5>1, <5>2, <5>3
      <4>3. QED BY <4>1, <4>2
    <3>6. ASSUME NEW q \in Tasks
          PROVE  status'[q] = "running" <=> \E v \in Workers : current'[v] = q
      <4>0. pc[w] = "w_lock"
        BY <2>3 DEF WorkerPop
      <4>1. current[w] = NoTask /\ current'[w] = k
        BY <3>1, <4>0
      <4>2. CASE q = k
        BY <3>1, <4>1, <4>2
      <4>3. CASE q # k
        BY <3>1, <4>1, <4>3
      <4>4. QED BY <4>2, <4>3
    <3>7. \A u, v \in Workers : current'[u] = current'[v] /\ u # v
                                => current'[u] = NoTask
      BY <3>1, <3>3
    <3>8. QED BY <3>4, <3>5, <3>6, <3>7
  <2>4. CASE WorkerInc(w)  BY <2>4 DEF WorkerInc
  <2>5. CASE WorkerFinish(w)
    <3>1. current[w] \in Tasks /\ status[current[w]] = "running"
      BY <2>5 DEF WorkerFinish
    <3>2. QED BY <2>5, <3>1 DEF WorkerFinish
  <2>6. CASE WorkerNotify(w)  BY <2>6 DEF WorkerNotify
  <2>7. CASE PushEnqueue(w)
    <3> DEFINE k == pushing[w]
    <3>1. k \in Tasks /\ status[k] = "pushing"
      BY <2>7 DEF PushEnqueue, Submissions
    <3>2. tasks' = Append(tasks, k) /\ status' = [status EXCEPT ![k] = "queued"]
      BY <2>7 DEF PushEnqueue
    <3>3. /\ Len(tasks') = Len(tasks) + 1
          /\ \A i \in 1 .. Len(tasks) : tasks'[i] = tasks[i]
          /\ tasks'[Len(tasks) + 1] = k
      BY <3>1, <3>2
    <3>4. \A i \in 1 .. Len(tasks) : tasks[i] # k
      BY <3>1 DEF TaskPlaces
    <3>5. QED BY <2>7, <3>1, <3>2, <3>3, <3>4 DEF PushEnqueue, TaskPlaces
  <2>8. CASE PushNotify(w)  BY <2>8 DEF PushNotify
  <2>9. QED BY <1>1, <2>1, <2>2, <2>3, <2>4, <2>5, <2>6, <2>7, <2>8
             DEF WorkerStep, PushStep
<1>2. ASSUME NEW c \in Clients, ClientStep(c) PROVE TaskPlaces'
  <2>1. CASE PushEnqueue(c)
    <3> DEFINE k == pushing[c]
    <3>1. k \in Tasks /\ status[k] = "pushing"
      BY <2>1 DEF PushEnqueue, Submissions
    <3>2. tasks' = Append(tasks, k) /\ status' = [status EXCEPT ![k] = "queued"]
      BY <2>1 DEF PushEnqueue
    <3>3. /\ Len(tasks') = Len(tasks) + 1
          /\ \A i \in 1 .. Len(tasks) : tasks'[i] = tasks[i]
          /\ tasks'[Len(tasks) + 1] = k
      BY <3>1, <3>2
    <3>4. \A i \in 1 .. Len(tasks) : tasks[i] # k
      BY <3>1 DEF TaskPlaces
    <3>5. QED BY <2>1, <3>1, <3>2, <3>3, <3>4 DEF PushEnqueue, TaskPlaces
  <2>2. CASE PushNotify(c)  BY <2>2 DEF PushNotify
  <2>3. CASE RunReturn(c)  BY <2>3 DEF RunReturn
  <2>4. CASE RunCheck(c)  BY <2>4 DEF RunCheck
  <2>5. CASE RunBlock(c)  BY <2>5 DEF RunBlock
  <2>6. CASE StopSet(c)  BY <2>6 DEF StopSet
  <2>7. CASE WaitSet(c)  BY <2>7 DEF WaitSet
  <2>8. CASE Join(c)  BY <2>8 DEF Join
  <2>9. QED BY <1>2, <2>1, <2>2, <2>3, <2>4, <2>5, <2>6, <2>7, <2>8
             DEF ClientStep, PushStep
<1>3. ASSUME Call PROVE TaskPlaces'
  <2>1. ASSUME NEW t \in Threads, NEW k \in Tasks, PushCheck(t, k) PROVE TaskPlaces'
    BY <2>1 DEF PushCheck
  <2>2. ASSUME NEW t \in Threads, NEW k \in Tasks, PushRefused(t, k) PROVE TaskPlaces'
    BY <2>2 DEF PushRefused
  <2>3. ASSUME NEW c \in Clients, RunCall(c) PROVE TaskPlaces'
    BY <2>3 DEF RunCall
  <2>4. ASSUME StopCall(Owner) PROVE TaskPlaces'
    BY <2>4 DEF StopCall
  <2>5. ASSUME Destroy(Owner) PROVE TaskPlaces'
    BY <2>5 DEF Destroy
  <2>6. QED BY <1>3, <2>1, <2>2, <2>3, <2>4, <2>5 DEF Call
<1>4. ASSUME NEW t \in Threads, SpuriousWake(t) PROVE TaskPlaces'
  BY <1>4 DEF SpuriousWake
<1>5. CASE UNCHANGED vars  BY <1>5 DEF vars
<1>6. QED BY <1>1, <1>2, <1>3, <1>4, <1>5 DEF Next

(* The owner joins every worker after it has set stoped_, before it goes   *)
(* on or the pool is gone.                                                 *)
LEMMA StoppingStep == Types /\ Holdings /\ Stopping /\ [Next]_vars => Stopping'
<1> SUFFICES ASSUME Types, Holdings, Stopping, [Next]_vars PROVE Stopping'
  OBVIOUS
<1> USE PoolAssumption DEF Types, Holdings, Stopping, JoinPC, AllExited, Alive, InScope,
        Threads, WorkerPC, PushPC, ClientPC, Status,
        sync, Goto, CanLock, Home, NotifyOne, NotifyAll, PoolStoped
<1>1. ASSUME NEW w \in Workers, WorkerStep(w) PROVE Stopping'
  <2>1. CASE WorkerSleep(w)  BY <2>1 DEF WorkerSleep
  <2>2. CASE WorkerExit(w)  BY <2>2 DEF WorkerExit
  <2>3. CASE WorkerPop(w)  BY <2>3 DEF WorkerPop
  <2>4. CASE WorkerInc(w)  BY <2>4 DEF WorkerInc
  <2>5. CASE WorkerFinish(w)  BY <2>5 DEF WorkerFinish
  <2>6. CASE WorkerNotify(w)  BY <2>6 DEF WorkerNotify
  <2>7. CASE PushEnqueue(w)  BY <2>7 DEF PushEnqueue
  <2>8. CASE PushNotify(w)  BY <2>8 DEF PushNotify
  <2>9. QED BY <1>1, <2>1, <2>2, <2>3, <2>4, <2>5, <2>6, <2>7, <2>8
             DEF WorkerStep, PushStep
<1>2. ASSUME NEW c \in Clients, ClientStep(c) PROVE Stopping'
  <2>1. CASE PushEnqueue(c)  BY <2>1 DEF PushEnqueue
  <2>2. CASE PushNotify(c)  BY <2>2 DEF PushNotify
  <2>3. CASE RunReturn(c)  BY <2>3 DEF RunReturn
  <2>4. CASE RunCheck(c)  BY <2>4 DEF RunCheck
  <2>5. CASE RunBlock(c)  BY <2>5 DEF RunBlock
  <2>6. CASE StopSet(c)  BY <2>6 DEF StopSet
  <2>7. CASE WaitSet(c)  BY <2>7 DEF WaitSet
  <2>8. CASE Join(c)  BY <2>8 DEF Join
  <2>9. QED BY <1>2, <2>1, <2>2, <2>3, <2>4, <2>5, <2>6, <2>7, <2>8
             DEF ClientStep, PushStep
<1>3. ASSUME Call PROVE Stopping'
  <2>1. ASSUME NEW t \in Threads, NEW k \in Tasks, PushCheck(t, k) PROVE Stopping'
    BY <2>1 DEF PushCheck
  <2>2. ASSUME NEW t \in Threads, NEW k \in Tasks, PushRefused(t, k) PROVE Stopping'
    BY <2>2 DEF PushRefused
  <2>3. ASSUME NEW c \in Clients, RunCall(c) PROVE Stopping'
    BY <2>3 DEF RunCall
  <2>4. ASSUME StopCall(Owner) PROVE Stopping'
    BY <2>4 DEF StopCall
  <2>5. ASSUME Destroy(Owner) PROVE Stopping'
    BY <2>5 DEF Destroy
  <2>6. QED BY <1>3, <2>1, <2>2, <2>3, <2>4, <2>5 DEF Call
<1>4. ASSUME NEW t \in Threads, SpuriousWake(t) PROVE Stopping'
  BY <1>4 DEF SpuriousWake
<1>5. CASE UNCHANGED vars  BY <1>5 DEF vars
<1>6. QED BY <1>1, <1>2, <1>3, <1>4, <1>5 DEF Next

-----------------------------------------------------------------------------
(* num_running_ counts the workers inside task().                          *)

LEMMA ExecutingFinite == IsFiniteSet(Executing)
  BY PoolAssumption, FS_Subset DEF Executing

LEMMA CountInit == Init => RunningCount
<1> SUFFICES ASSUME Init PROVE RunningCount
  OBVIOUS
<1>1. \A w \in Workers : pc[w] = "w_lock"
  BY DEF Init, Threads
<1>2. Executing = {}
  BY <1>1 DEF Executing, PushPC
<1>3. QED BY <1>2, FS_EmptySet DEF Init, RunningCount

(* Only the increment and the decrement change the set of these workers.   *)
LEMMA ExecutingStep ==
    Types /\ [Next]_vars =>
        \/ Executing' = Executing /\ num_running' = num_running
        \/ \E w \in Workers : WorkerInc(w) \/ WorkerFinish(w)
<1> DEFINE Kept == \/ Executing' = Executing /\ num_running' = num_running
                  \/ \E w \in Workers : WorkerInc(w) \/ WorkerFinish(w)
<1> SUFFICES ASSUME Types, [Next]_vars PROVE Kept
  OBVIOUS
<1> USE PoolAssumption DEF Types, Executing, Threads, WorkerPC, PushPC, ClientPC, Status,
        sync, Goto, CanLock, Home, NotifyOne, NotifyAll, PoolStoped
<1>1. ASSUME NEW w \in Workers, WorkerStep(w) PROVE Kept
  <2>1. CASE WorkerSleep(w)  BY <2>1 DEF WorkerSleep
  <2>2. CASE WorkerExit(w)  BY <2>2 DEF WorkerExit
  <2>3. CASE WorkerPop(w)  BY <2>3 DEF WorkerPop
  <2>4. CASE WorkerInc(w)
    BY <2>4
  <2>5. CASE WorkerFinish(w)
    BY <2>5
  <2>6. CASE WorkerNotify(w)  BY <2>6 DEF WorkerNotify
  <2>7. CASE PushEnqueue(w)  BY <2>7 DEF PushEnqueue
  <2>8. CASE PushNotify(w)  BY <2>8 DEF PushNotify
  <2>9. QED BY <1>1, <2>1, <2>2, <2>3, <2>4, <2>5, <2>6, <2>7, <2>8
             DEF WorkerStep, PushStep
<1>2. ASSUME NEW c \in Clients, ClientStep(c) PROVE Kept
  <2>1. CASE PushEnqueue(c)  BY <2>1 DEF PushEnqueue
  <2>2. CASE PushNotify(c)  BY <2>2 DEF PushNotify
  <2>3. CASE RunReturn(c)  BY <2>3 DEF RunReturn
  <2>4. CASE RunCheck(c)  BY <2>4 DEF RunCheck
  <2>5. CASE RunBlock(c)  BY <2>5 DEF RunBlock
  <2>6. CASE StopSet(c)  BY <2>6 DEF StopSet
  <2>7. CASE WaitSet(c)  BY <2>7 DEF WaitSet
  <2>8. CASE Join(c)  BY <2>8 DEF Join
  <2>9. QED BY <1>2, <2>1, <2>2, <2>3, <2>4, <2>5, <2>6, <2>7, <2>8
             DEF ClientStep, PushStep
<1>3. ASSUME Call PROVE Kept
  <2>1. ASSUME NEW t \in Threads, NEW k \in Tasks, PushCheck(t, k) PROVE Kept
    BY <2>1 DEF PushCheck
  <2>2. ASSUME NEW t \in Threads, NEW k \in Tasks, PushRefused(t, k) PROVE Kept
    BY <2>2 DEF PushRefused
  <2>3. ASSUME NEW c \in Clients, RunCall(c) PROVE Kept
    BY <2>3 DEF RunCall
  <2>4. ASSUME StopCall(Owner) PROVE Kept
    BY <2>4 DEF StopCall
  <2>5. ASSUME Destroy(Owner) PROVE Kept
    BY <2>5 DEF Destroy
  <2>6. QED BY <1>3, <2>1, <2>2, <2>3, <2>4, <2>5 DEF Call
<1>4. ASSUME NEW t \in Threads, SpuriousWake(t) PROVE Kept
  BY <1>4 DEF SpuriousWake
<1>5. CASE UNCHANGED vars  BY <1>5 DEF vars
<1>6. QED BY <1>1, <1>2, <1>3, <1>4, <1>5 DEF Next

(* A worker is added to the set when it increments the counter and taken   *)
(* out of it when it decrements it; the two never happen apart.            *)
LEMMA CountStep == Types /\ RunningCount /\ [Next]_vars => RunningCount'
<1> SUFFICES ASSUME Types, RunningCount, [Next]_vars PROVE RunningCount'
  OBVIOUS
<1>1. IsFiniteSet(Executing) /\ Cardinality(Executing) \in Nat
  BY ExecutingFinite, FS_CardinalityType
<1>2. ASSUME NEW w \in Workers, WorkerInc(w) PROVE RunningCount'
  <2>1. Executing' = Executing \cup {w} /\ w \notin Executing
    BY <1>2 DEF WorkerInc, Goto, Executing, Types, PushPC, Threads
  <2>2. Cardinality(Executing') = Cardinality(Executing) + 1
    BY <1>1, <2>1, FS_AddElement
  <2>3. QED BY <1>2, <2>2 DEF WorkerInc, RunningCount
<1>3. ASSUME NEW w \in Workers, WorkerFinish(w) PROVE RunningCount'
  <2>1. Executing' = Executing \ {w} /\ w \in Executing
    BY <1>3 DEF WorkerFinish, Goto, Executing, Types, PushPC, Threads
  <2>2. Cardinality(Executing') = Cardinality(Executing) - 1
    BY <1>1, <2>1, FS_RemoveElement
  <2>3. QED BY <1>3, <2>2 DEF WorkerFinish, RunningCount
<1>4. CASE Executing' = Executing /\ num_running' = num_running
  BY <1>4 DEF RunningCount
<1>5. QED BY <1>2, <1>3, <1>4, ExecutingStep

-----------------------------------------------------------------------------
(* The inductive invariant and the invariants it implies.                  *)

IInv ==
    /\ Types /\ Holdings /\ Waiting /\ Submissions /\ TaskPlaces
    /\ Stopping /\ RunningCount

LEMMA IInvInit == Init => IInv
<1> SUFFICES ASSUME Init PROVE IInv
  OBVIOUS
<1>1. /\ \A w \in Workers : pc[w] = "w_lock" /\ current[w] = NoTask
      /\ \A c \in Clients : pc[c] = "idle"
  BY PoolAssumption DEF Init, Threads
<1>2. Types /\ RunningCount
  BY TypesInit, CountInit
<1>3. Holdings
  BY <1>1 DEF Holdings, PushPC, Threads
<1>4. Waiting
  BY <1>1, PoolAssumption DEF Init, Waiting, Threads
<1>5. Submissions
  BY <1>1 DEF Submissions, Threads
<1>6. TaskPlaces
  BY <1>1, PoolAssumption DEF Init, TaskPlaces
<1>7. Stopping
  BY <1>1, PoolAssumption DEF Init, Stopping, JoinPC, Alive
<1>8. QED BY <1>2, <1>3, <1>4, <1>5, <1>6, <1>7 DEF IInv

LEMMA IInvStep == IInv /\ [Next]_vars => IInv'
  BY TypesStep, HoldingsStep, WaitingStep, SubmissionsStep, TaskPlacesStep,
     StoppingStep, CountStep DEF IInv

THEOREM Invariance == Spec => []IInv
  BY IInvInit, IInvStep, PTL DEF Spec

(* Type correctness, with 0 <= num_running <= number of workers.           *)
THEOREM TypeCorrect == Spec => []TypeOK
<1>1. ASSUME IInv PROVE TypeOK
  <2>1. Cardinality(Executing) \in Nat /\ Cardinality(Workers) \in Nat
    BY ExecutingFinite, FS_CardinalityType, PoolAssumption
  <2>2. Cardinality(Executing) <= Cardinality(Workers)
    BY PoolAssumption, FS_Subset DEF Executing
  <2>3. num_running \in 0 .. Cardinality(Workers)
    BY <1>1, <2>1, <2>2 DEF IInv, RunningCount
  <2>4. QED BY <1>1, <2>3 DEF IInv, Types, TypeOK
<1>2. QED BY <1>1, Invariance, PTL

(* num_running_ always is the number of workers inside task().             *)
THEOREM CountCorrect == Spec => []RunningCount
<1>1. IInv => RunningCount
  BY DEF IInv
<1>2. QED BY <1>1, Invariance, PTL

(* No accepted task is lost, duplicated or run by two workers.             *)
THEOREM NoTaskLost == Spec => []TaskPlaces
<1>1. IInv => TaskPlaces
  BY DEF IInv
<1>2. QED BY <1>1, Invariance, PTL

(* After stop(), wait() or the destructor no worker is left, and nobody is *)
(* left inside the mutex or the condition variable of a dead pool.         *)
THEOREM StopIsFinal == Spec => []JoinedPoolIsQuiet
<1>1. ASSUME IInv PROVE JoinedPoolIsQuiet
  <2>1. ASSUME AllExited PROVE num_running = 0
    <3>1. Executing = {}
      BY <2>1 DEF AllExited, Executing, PushPC
    <3>2. QED BY <1>1, <3>1, FS_EmptySet DEF IInv, RunningCount
  <2>2. stoped /\ pc[Owner] \in {"idle", "gone"} => AllExited
    BY <1>1 DEF IInv, Stopping, JoinPC
  <2>3. ASSUME pc[Owner] = "gone" PROVE mtx = NoThread /\ sleeping = {}
    <3>1. AllExited /\ \A c \in Clients \ {Owner} : pc[c] = "idle"
      BY <1>1, <2>2, <2>3 DEF IInv, Stopping, Alive
    <3>2. \A t \in Threads : pc[t] \in {"idle", "gone", "w_exit"}
      BY <2>3, <3>1 DEF AllExited, Threads
    <3>3. mtx = NoThread
      BY <1>1, <3>2 DEF IInv, Waiting, Types, Threads
    <3>4. sleeping = {}
      BY <1>1, <3>2 DEF IInv, Waiting, Types
    <3>5. QED BY <3>3, <3>4
  <2>4. QED BY <2>1, <2>2, <2>3 DEF JoinedPoolIsQuiet, AllExited
<1>2. QED BY <1>1, Invariance, PTL

-----------------------------------------------------------------------------
(* A pool whose run() nobody calls never forgets a queued task.            *)

(* Nobody but a worker ever sleeps.                                        *)
OnlyWorkersSleep ==
    /\ sleeping \subseteq Workers
    /\ \A c \in Clients : pc[c] \notin {"r_lock", "r_block"}

LEMMA OnlyWorkersSleepStep ==
  ASSUME Runners = {}
  PROVE  Types /\ OnlyWorkersSleep /\ [Next]_vars => OnlyWorkersSleep'
<1> SUFFICES ASSUME Types, OnlyWorkersSleep, [Next]_vars PROVE OnlyWorkersSleep'
  OBVIOUS
<1> USE PoolAssumption DEF Types, OnlyWorkersSleep, Threads, WorkerPC, PushPC, ClientPC, Status,
        sync, Goto, CanLock, Home, NotifyOne, NotifyAll, PoolStoped
<1>1. ASSUME NEW w \in Workers, WorkerStep(w) PROVE OnlyWorkersSleep'
  <2>1. CASE WorkerSleep(w)  BY <2>1 DEF WorkerSleep
  <2>2. CASE WorkerExit(w)  BY <2>2 DEF WorkerExit
  <2>3. CASE WorkerPop(w)  BY <2>3 DEF WorkerPop
  <2>4. CASE WorkerInc(w)  BY <2>4 DEF WorkerInc
  <2>5. CASE WorkerFinish(w)  BY <2>5 DEF WorkerFinish
  <2>6. CASE WorkerNotify(w)  BY <2>6 DEF WorkerNotify
  <2>7. CASE PushEnqueue(w)  BY <2>7 DEF PushEnqueue
  <2>8. CASE PushNotify(w)  BY <2>8 DEF PushNotify
  <2>9. QED BY <1>1, <2>1, <2>2, <2>3, <2>4, <2>5, <2>6, <2>7, <2>8
             DEF WorkerStep, PushStep
<1>2. ASSUME NEW c \in Clients, ClientStep(c) PROVE OnlyWorkersSleep'
  <2>1. CASE PushEnqueue(c)  BY <2>1 DEF PushEnqueue
  <2>2. CASE PushNotify(c)  BY <2>2 DEF PushNotify
  <2>3. CASE RunReturn(c)  BY <2>3 DEF RunReturn
  <2>4. CASE RunCheck(c)  BY <2>4 DEF RunCheck
  <2>5. CASE RunBlock(c)  BY <2>5 DEF RunBlock
  <2>6. CASE StopSet(c)  BY <2>6 DEF StopSet
  <2>7. CASE WaitSet(c)  BY <2>7 DEF WaitSet
  <2>8. CASE Join(c)  BY <2>8 DEF Join
  <2>9. QED BY <1>2, <2>1, <2>2, <2>3, <2>4, <2>5, <2>6, <2>7, <2>8
             DEF ClientStep, PushStep
<1>3. ASSUME Call PROVE OnlyWorkersSleep'
  <2>1. ASSUME NEW t \in Threads, NEW k \in Tasks, PushCheck(t, k) PROVE OnlyWorkersSleep'
    BY <2>1 DEF PushCheck
  <2>2. ASSUME NEW t \in Threads, NEW k \in Tasks, PushRefused(t, k) PROVE OnlyWorkersSleep'
    BY <2>2 DEF PushRefused
  <2>3. ASSUME NEW c \in Clients, RunCall(c) PROVE OnlyWorkersSleep'
    BY <2>3 DEF RunCall
  <2>4. ASSUME StopCall(Owner) PROVE OnlyWorkersSleep'
    BY <2>4 DEF StopCall
  <2>5. ASSUME Destroy(Owner) PROVE OnlyWorkersSleep'
    BY <2>5 DEF Destroy
  <2>6. QED BY <1>3, <2>1, <2>2, <2>3, <2>4, <2>5 DEF Call
<1>4. ASSUME NEW t \in Threads, SpuriousWake(t) PROVE OnlyWorkersSleep'
  BY <1>4 DEF SpuriousWake
<1>5. CASE UNCHANGED vars  BY <1>5 DEF vars
<1>6. QED BY <1>1, <1>2, <1>3, <1>4, <1>5 DEF Next

(* A task enters the queue together with a notify_one that is still due;   *)
(* that notification goes to a worker, and a worker sleeps only when the   *)
(* queue is empty.                                                         *)
LEMMA SomebodyStep ==
  Types /\ OnlyWorkersSleep /\ SomebodyWillTake /\ [Next]_vars => SomebodyWillTake'
<1> SUFFICES ASSUME Types, OnlyWorkersSleep, SomebodyWillTake, [Next]_vars PROVE SomebodyWillTake'
  OBVIOUS
<1> USE PoolAssumption DEF Types, OnlyWorkersSleep, SomebodyWillTake, Threads, WorkerPC, PushPC, ClientPC, Status,
        sync, Goto, CanLock, Home, NotifyOne, NotifyAll, PoolStoped
<1>1. ASSUME NEW w \in Workers, WorkerStep(w) PROVE SomebodyWillTake'
  <2>1. CASE WorkerSleep(w)  BY <2>1 DEF WorkerSleep
  <2>2. CASE WorkerExit(w)  BY <2>2 DEF WorkerExit
  <2>3. CASE WorkerPop(w)  BY <2>3 DEF WorkerPop
  <2>4. CASE WorkerInc(w)  BY <2>4 DEF WorkerInc
  <2>5. CASE WorkerFinish(w)  BY <2>5 DEF WorkerFinish
  <2>6. CASE WorkerNotify(w)  BY <2>6 DEF WorkerNotify
  <2>7. CASE PushEnqueue(w)  BY <2>7 DEF PushEnqueue
  <2>8. CASE PushNotify(w)  BY <2>8 DEF PushNotify
  <2>9. QED BY <1>1, <2>1, <2>2, <2>3, <2>4, <2>5, <2>6, <2>7, <2>8
             DEF WorkerStep, PushStep
<1>2. ASSUME NEW c \in Clients, ClientStep(c) PROVE SomebodyWillTake'
  <2>1. CASE PushEnqueue(c)  BY <2>1 DEF PushEnqueue
  <2>2. CASE PushNotify(c)  BY <2>2 DEF PushNotify
  <2>3. CASE RunReturn(c)  BY <2>3 DEF RunReturn
  <2>4. CASE RunCheck(c)  BY <2>4 DEF RunCheck
  <2>5. CASE RunBlock(c)  BY <2>5 DEF RunBlock
  <2>6. CASE StopSet(c)  BY <2>6 DEF StopSet
  <2>7. CASE WaitSet(c)  BY <2>7 DEF WaitSet
  <2>8. CASE Join(c)  BY <2>8 DEF Join
  <2>9. QED BY <1>2, <2>1, <2>2, <2>3, <2>4, <2>5, <2>6, <2>7, <2>8
             DEF ClientStep, PushStep
<1>3. ASSUME Call PROVE SomebodyWillTake'
  <2>1. ASSUME NEW t \in Threads, NEW k \in Tasks, PushCheck(t, k) PROVE SomebodyWillTake'
    BY <2>1 DEF PushCheck
  <2>2. ASSUME NEW t \in Threads, NEW k \in Tasks, PushRefused(t, k) PROVE SomebodyWillTake'
    BY <2>2 DEF PushRefused
  <2>3. ASSUME NEW c \in Clients, RunCall(c) PROVE SomebodyWillTake'
    BY <2>3 DEF RunCall
  <2>4. ASSUME StopCall(Owner) PROVE SomebodyWillTake'
    BY <2>4 DEF StopCall
  <2>5. ASSUME Destroy(Owner) PROVE SomebodyWillTake'
    BY <2>5 DEF Destroy
  <2>6. QED BY <1>3, <2>1, <2>2, <2>3, <2>4, <2>5 DEF Call
<1>4. ASSUME NEW t \in Threads, SpuriousWake(t) PROVE SomebodyWillTake'
  BY <1>4 DEF SpuriousWake
<1>5. CASE UNCHANGED vars  BY <1>5 DEF vars
<1>6. QED BY <1>1, <1>2, <1>3, <1>4, <1>5 DEF Next

(* Without callers of run() the notify_one of a push always finds a worker *)
(* or finds them all awake: a queued task is never left to sleepers only.  *)
THEOREM NoWakeupLost ==
  ASSUME Runners = {} PROVE Spec => []SomebodyWillTake
<1>1. Init => OnlyWorkersSleep /\ SomebodyWillTake
  <2>1. ASSUME Init PROVE \A c \in Clients : pc[c] = "idle"
    BY <2>1, PoolAssumption DEF Init, Threads
  <2>2. QED BY <2>1 DEF Init, OnlyWorkersSleep, SomebodyWillTake
<1>2. Types /\ OnlyWorkersSleep /\ [Next]_vars => OnlyWorkersSleep'
  BY OnlyWorkersSleepStep
<1>3. Types /\ OnlyWorkersSleep /\ SomebodyWillTake /\ [Next]_vars
        => SomebodyWillTake'
  BY SomebodyStep
<1>4. IInv => Types
  BY DEF IInv
<1>5. QED BY <1>1, <1>2, <1>3, <1>4, Invariance, PTL DEF Spec

-----------------------------------------------------------------------------
(* The pool implements TaskPool.                                           *)

state == [k \in Tasks |-> IF status[k] = "pushing" THEN "new" ELSE status[k]]

(* While a worker takes a task, fewer tasks run than there are workers:    *)
(* each running task is with a worker of its own, and not with this one.   *)
LEMMA RoomToStart ==
  ASSUME IInv, NEW w \in Workers, current[w] = NoTask
  PROVE  Cardinality({k \in Tasks : state[k] = "running"}) < Cardinality(Workers)
<1> DEFINE S == {k \in Tasks : state[k] = "running"}
           f == [k \in S |-> CHOOSE v \in Workers : current[v] = k]
<1>1. \A k \in S : f[k] \in Workers \ {w} /\ current[f[k]] = k
  <2> SUFFICES ASSUME NEW k \in S PROVE f[k] \in Workers \ {w} /\ current[f[k]] = k
    OBVIOUS
  <2>1. k \in Tasks /\ status[k] = "running"
    BY DEF state
  <2>2. \E v \in Workers : current[v] = k
    BY <2>1 DEF IInv, TaskPlaces
  <2>3. f[k] \in Workers /\ current[f[k]] = k
    BY <2>2
  <2>4. QED BY <2>1, <2>3, PoolAssumption
<1>2. f \in Injection(S, Workers \ {w})
  <2>1. f \in [S -> Workers \ {w}]
    BY <1>1
  <2>2. \A j, k \in S : f[j] = f[k] => j = k
    BY <1>1
  <2> HIDE DEF S, f
  <2>3. QED BY <2>1, <2>2 DEF Injection, IsInjective
<1>3. IsFiniteSet(Workers \ {w})
      /\ Cardinality(Workers \ {w}) = Cardinality(Workers) - 1
  BY PoolAssumption, FS_RemoveElement
<1>4. Cardinality(S) <= Cardinality(Workers \ {w}) /\ IsFiniteSet(S)
  BY <1>2, <1>3, FS_Injection
<1>5. Cardinality(S) \in Nat /\ Cardinality(Workers) \in Nat
  BY <1>4, PoolAssumption, FS_CardinalityType
<1>6. QED BY <1>3, <1>4, <1>5

(* The instance of TaskPool has a Cardinality of its own: the same one.    *)
LEMMA SameCardinality ==
  ASSUME NEW S PROVE TP!Cardinality(S) = Cardinality(S)
  BY DEF TP!Cardinality, Cardinality

(* Each step of the pool is a step of TaskPool or leaves its state alone.  *)
LEMMA RefinementStep == IInv /\ [Next]_vars => [TP!Next]_(TP!vars)
<1> DEFINE Goal == TP!Next \/ UNCHANGED <<stoped, tasks, state>>
<1> SUFFICES ASSUME IInv, [Next]_vars PROVE Goal
  BY DEF TP!vars, state
<1>0. /\ Types /\ Holdings /\ TaskPlaces /\ Submissions
      /\ state \in [Tasks -> Status]
      /\ \A k \in Tasks : state[k] = IF status[k] = "pushing" THEN "new" ELSE status[k]
      /\ \A k \in Tasks : state'[k] = IF status'[k] = "pushing" THEN "new" ELSE status'[k]
  BY DEF IInv, Types, state, Status
<1> USE DEF sync, Goto
<1>1. ASSUME UNCHANGED <<stoped, tasks, status>> PROVE Goal
  BY <1>1 DEF state
<1>2. ASSUME NEW w \in Workers, WorkerPop(w) PROVE TP!Start
  <2>1. Head(tasks) \in Tasks /\ status[Head(tasks)] = "queued" /\ current[w] = NoTask
    BY <1>0, <1>2 DEF WorkerPop, Types, Holdings, TaskPlaces, PushPC
  <2>2. state' = [state EXCEPT ![Head(tasks)] = "running"]
    BY <1>0, <1>2, <2>1 DEF WorkerPop, Types, state
  <2>3. Cardinality({k \in Tasks : state[k] = "running"}) < Cardinality(Workers)
    BY <2>1, RoomToStart
  <2>4. TP!Cardinality(TP!Started) < Cardinality(Workers)
    BY <2>3, SameCardinality DEF TP!Started, state
  <2>5. ~stoped /\ tasks # <<>> /\ tasks' = Tail(tasks) /\ UNCHANGED stoped
    BY <1>2 DEF WorkerPop
  <2>6. QED BY <2>2, <2>4, <2>5 DEF TP!Start, state
<1>3. ASSUME NEW w \in Workers, WorkerFinish(w)
      PROVE  \E k \in Tasks : TP!Finish(k)
  <2>1. current[w] \in Tasks /\ status[current[w]] = "running"
    BY <1>0, <1>3 DEF WorkerFinish, Types, Holdings, TaskPlaces
  <2>2. state' = [state EXCEPT ![current[w]] = "done"] /\ state[current[w]] = "running"
    BY <1>0, <1>3, <2>1 DEF WorkerFinish, Types, state
  <2>3. QED BY <1>3, <2>1, <2>2 DEF WorkerFinish, TP!Finish, state
<1>4. ASSUME NEW t \in Threads, PushEnqueue(t)
      PROVE  \E k \in Tasks : TP!Accept(k)
  <2>1. pushing[t] \in Tasks /\ status[pushing[t]] = "pushing"
    BY <1>0, <1>4 DEF PushEnqueue, Types, Holdings, Submissions, PushPC
  <2>2. state' = [state EXCEPT ![pushing[t]] = "queued"] /\ state[pushing[t]] = "new"
    BY <1>0, <1>4, <2>1 DEF PushEnqueue, Types, state
  <2>3. QED BY <1>4, <2>1, <2>2 DEF PushEnqueue, TP!Accept, state
<1>5. ASSUME NEW t \in Threads, NEW k \in Tasks, PushCheck(t, k) PROVE Goal
  <2>1. state' = state
    BY <1>0, <1>5 DEF PushCheck, Types, state
  <2>2. QED BY <1>5, <2>1 DEF PushCheck
<1>6. ASSUME NEW t \in Threads, NEW k \in Tasks, PushRefused(t, k) PROVE TP!Refuse(k)
  <2>1. state' = [state EXCEPT ![k] = "refused"] /\ state[k] = "new"
    BY <1>0, <1>6 DEF PushRefused, Types, state
  <2>2. QED BY <1>6, <2>1 DEF PushRefused, TP!Refuse, state
<1>7. ASSUME StopSet(Owner) \/ WaitSet(Owner) PROVE TP!Close
  <2>1. CASE WaitSet(Owner)
    BY <2>1 DEF WaitSet, PoolStoped, TP!Close
  <2>2. CASE StopSet(Owner)
    <3>1. state' = [k \in Tasks |-> IF state[k] = "queued" THEN "dropped" ELSE state[k]]
      BY <1>0, <2>2 DEF StopSet, state
    <3>2. QED BY <2>2, <3>1 DEF StopSet, PoolStoped, TP!Close, state
  <2>3. QED BY <1>7, <2>1, <2>2
<1>8. ASSUME NEW w \in Workers, WorkerStep(w) PROVE Goal
  <2>1. CASE WorkerSleep(w) \/ WorkerExit(w) \/ WorkerInc(w) \/ WorkerNotify(w)
             \/ PushNotify(w)
    BY <1>1, <2>1 DEF WorkerSleep, WorkerExit, WorkerInc, WorkerNotify, PushNotify
  <2>2. CASE WorkerPop(w)    BY <1>2, <2>2 DEF TP!Next
  <2>3. CASE WorkerFinish(w) BY <1>3, <2>3 DEF TP!Next
  <2>4. CASE PushEnqueue(w)  BY <1>4, <2>4 DEF TP!Next, Threads
  <2>5. QED BY <1>8, <2>1, <2>2, <2>3, <2>4 DEF WorkerStep, PushStep
<1>9. ASSUME NEW c \in Clients, ClientStep(c) PROVE Goal
  <2>1. CASE PushNotify(c) \/ RunReturn(c) \/ RunCheck(c) \/ RunBlock(c) \/ Join(c)
    BY <1>1, <2>1 DEF PushNotify, RunReturn, RunCheck, RunBlock, Join
  <2>2. CASE PushEnqueue(c)  BY <1>4, <2>2 DEF TP!Next, Threads
  <2>3. CASE StopSet(c) \/ WaitSet(c)
    <3>1. c = Owner
      BY <2>3 DEF IInv, Stopping, StopSet, WaitSet, PushPC
    <3>2. QED BY <1>7, <2>3, <3>1 DEF TP!Next
  <2>4. QED BY <1>9, <2>1, <2>2, <2>3 DEF ClientStep, PushStep
<1>10. ASSUME Call PROVE Goal
  <2>1. ASSUME NEW c \in Clients, RunCall(c) PROVE Goal
    BY <1>1, <2>1 DEF RunCall
  <2>2. CASE StopCall(Owner) \/ Destroy(Owner)
    BY <1>1, <2>2 DEF StopCall, Destroy
  <2>3. QED BY <1>5, <1>6, <1>10, <2>1, <2>2 DEF Call, TP!Next
<1>11. ASSUME NEW t \in Threads, SpuriousWake(t) PROVE Goal
  BY <1>1, <1>11 DEF SpuriousWake
<1>12. CASE UNCHANGED vars
  BY <1>1, <1>12 DEF vars
<1>13. QED BY <1>8, <1>9, <1>10, <1>11, <1>12 DEF Next

(* Every behaviour of the pool is one of TaskPool: first in first out, one *)
(* start per task, no more of them at a time than workers, and nothing     *)
(* starts once the pool is closed.                                         *)
THEOREM PoolImplementsTaskPool == Spec => ImplementsTaskPool
<1>1. Init => TP!Init
  BY DEF Init, TP!Init
<1>2. IInv /\ [Next]_vars => [TP!Next]_(TP!vars)
  BY RefinementStep
<1>3. QED BY <1>1, <1>2, Invariance, PTL DEF Spec, ImplementsTaskPool, TP!Spec

(***************************************************************************)
(* THE EXECUTOR.  The task graph runs in order: the counter of each task is *)
(* the number of the edges into it that nobody has handled.  A step counts *)
(* only if it handles an edge, adds one, or moves a task from a worker to  *)
(* "done": all others are Calm.                                            *)
(***************************************************************************)

Phases == {"build", "push", "run", "stop", "done", "destroyed"}

GraphTypes ==
    /\ created \subseteq Nodes /\ finished \subseteq Tasks
    /\ childs \in [Tasks -> Seq(Nodes)]
    /\ pre \in [Tasks -> Int]
    /\ next \in [Workers -> Nat]
    /\ phase \in Phases

(* An edge leads to a task that was created, and there is one at most from *)
(* each task to each other.                                                *)
Linked ==
    \A k \in Tasks :
       /\ \A i \in 1 .. Len(childs[k]) : childs[k][i] \in created
       /\ \A i, j \in 1 .. Len(childs[k]) : childs[k][i] = childs[k][j] => i = j

(* Nothing is submitted before run().                                      *)
Untouched == phase = "build" => \A k \in Tasks : status[k] = "new"

(* A worker handles edges of a task whose body has returned; a task that   *)
(* is done has a body that returned.                                       *)
BodyFirst ==
    /\ \A w \in Workers : next[w] > 0 => /\ current[w] \in finished
                                         /\ next[w] <= Len(childs[current[w]]) + 1
    /\ \A k \in Tasks : status[k] = "done" => k \in finished

Left(n) == {p \in EdgesInto(n) : ~Handled(p, n)}

Counted(n) == pre[n] = IF Root \in EdgesInto(n) THEN Cardinality(Left(n))
                       ELSE Cardinality(Left(n)) + 1

Counts ==
    /\ \A n \in created : Counted(n)
    /\ \A k \in Tasks \ created : pre[k] = 0

HeldBack == \A n \in created : pre[n] > 0 => status[n] = "new"

ExecInv ==
    /\ IInv
    /\ GraphTypes /\ Linked /\ Untouched /\ BodyFirst /\ Counts /\ HeldBack

-----------------------------------------------------------------------------
(* The steps of the executor, as steps of the pool.                        *)

Popping(w) ==
    /\ WorkerPop(w)
    /\ next' = [next EXCEPT ![w] = 0]
    /\ UNCHANGED <<graph, pre, phase, finished>>

Finishing(w) ==
    /\ WorkerFinish(w)
    /\ next[w] > Len(childs[current[w]])
    /\ next' = [next EXCEPT ![w] = 0]
    /\ UNCHANGED <<graph, pre, phase, finished>>

(* A step that changes neither an edge nor who has handled it.             *)
Calm ==
    /\ UNCHANGED <<created, childs, pre, next, finished, current>>
    /\ \A k \in Tasks : status'[k] = "done" <=> status[k] = "done"
    /\ \A k \in Nodes : status[k] = "new" => status'[k] = "new"
    /\ phase' = "build" =>
          /\ phase = "build"
          /\ \A k \in Tasks : status[k] = "new" => status'[k] = "new"
    /\ phase' \in Phases

CalmStatus ==
    /\ current' = current
    /\ \A k \in Tasks : status'[k] = "done" <=> status[k] = "done"
    /\ \A k \in Tasks : status[k] = "new" => status'[k] = "new"

(* Of the pool's own steps only taking a task and finishing it are not.    *)
LEMMA PoolCalm ==
    ASSUME IInv,
           \/ \E w \in Workers : \/ WorkerSleep(w) \/ WorkerExit(w)
                                 \/ WorkerInc(w) \/ WorkerNotify(w)
           \/ \E t \in Threads : PushStep(t) \/ SpuriousWake(t)
           \/ \E c \in Clients : \/ RunCall(c) \/ RunReturn(c) \/ RunCheck(c)
                                 \/ RunBlock(c) \/ StopCall(c) \/ StopSet(c)
                                 \/ Join(c) \/ Destroy(c)
    PROVE  CalmStatus
<1>1. ASSUME NEW t \in Threads, PushEnqueue(t) PROVE CalmStatus
  <2>1. pushing[t] \in Tasks /\ status[pushing[t]] = "pushing"
    BY <1>1 DEF PushEnqueue, Goto, IInv, Types, Holdings, Submissions, PushPC
  <2>2. QED BY <1>1, <2>1 DEF PushEnqueue, CalmStatus, IInv, Types
<1>2. ASSUME NEW c \in Clients, StopSet(c) PROVE CalmStatus
  BY <1>2 DEF StopSet, CalmStatus, IInv, Types
<1>3. ASSUME UNCHANGED <<current, status>> PROVE CalmStatus
  BY <1>3 DEF CalmStatus
<1>4. QED
  BY <1>1, <1>2, <1>3
     DEF WorkerSleep, WorkerExit, WorkerInc, WorkerNotify, PushStep, PushNotify,
         SpuriousWake, RunCall, RunReturn, RunCheck, RunBlock, StopCall, Join,
         Destroy

LEMMA NodesAreTasks ==
    /\ Nodes \subseteq Tasks /\ Root \in Tasks /\ Root \notin Nodes
    /\ Owner \in Clients /\ Owner \in Threads /\ Clients = {Owner}
    /\ Workers \subseteq Threads /\ IsFiniteSet(Nodes) /\ IsFiniteSet(Tasks)
    /\ Cardinality(Tasks) = Cardinality(Nodes) + 1
    /\ NoTask \notin Tasks
  BY ExecutorAssumption, PoolAssumption, FS_AddElement DEF Threads

(* The task a worker handles an edge of, and the task at its end.          *)
LEMMA EdgeAtHand ==
    ASSUME ExecInv, NEW w \in Workers, pc[w] = "w_task",
           next[w] \in 1 .. Len(childs[current[w]])
    PROVE  /\ current[w] \in Tasks /\ status[current[w]] = "running"
           /\ childs[current[w]][next[w]] \in created
           /\ created \subseteq Tasks
<1>1. current[w] \in Tasks
  BY DEF ExecInv, IInv, Types, Holdings
<1>2. QED BY <1>1, NodesAreTasks DEF ExecInv, IInv, TaskPlaces, Linked, GraphTypes

LEMMA StepCases ==
    ASSUME ExecInv, [ExecNext]_allVars
    PROVE  /\ [Next]_vars
           /\ \/ Calm \/ Build
              \/ \E w \in Workers : \/ ActionBody(w) \/ ActionChild(w)
                                    \/ Popping(w) \/ Finishing(w)
<1> DEFINE Kinds == \/ Calm \/ Build
                    \/ \E w \in Workers : \/ ActionBody(w) \/ ActionChild(w)
                                          \/ Popping(w) \/ Finishing(w)
<1>0. IInv
  BY DEF ExecInv
<1>1. ASSUME CalmStatus, UNCHANGED execVars PROVE Calm
  BY <1>1, NodesAreTasks DEF CalmStatus, Calm, execVars, ExecInv, GraphTypes
<1>2. ASSUME CalmStatus, UNCHANGED <<graph, pre, next, finished>>,
             phase' \in Phases \ {"build"}
      PROVE  Calm
  BY <1>2, NodesAreTasks DEF CalmStatus, Calm, graph
<1>3. CASE UNCHANGED allVars
  <2>1. UNCHANGED vars /\ UNCHANGED execVars
    BY <1>3 DEF allVars
  <2>2. CalmStatus
    BY <2>1 DEF vars, CalmStatus
  <2>3. QED BY <1>1, <2>1, <2>2
<1>4. ASSUME ~crashed, NEW w \in Workers, ExecWorkerStep(w) PROVE [Next]_vars /\ Kinds
  <2>1. CASE ActionBody(w)
    BY <2>1 DEF ActionBody
  <2>2. CASE ActionChild(w)
    <3> DEFINE n == childs[current[w]][next[w]]
    <3>1. n \in Tasks /\ w \in Threads
      BY <2>2, EdgeAtHand, NodesAreTasks DEF ActionChild
    <3>2. UNCHANGED vars \/ PushCheck(w, n) \/ PushRefused(w, n)
      BY <2>2 DEF ActionChild
    <3>3. [Next]_vars
      BY <1>4, <3>1, <3>2 DEF Next, Call
    <3>4. QED BY <2>2, <3>3
  <2>3. CASE PoolStep(w)
    <3>1. WorkerStep(w)
      BY <2>3 DEF PoolStep, WorkerStep
    <3>2. [Next]_vars
      BY <1>4, <3>1 DEF Next
    <3>3. \/ Popping(w) \/ Finishing(w)
          \/ /\ WorkerSleep(w) \/ WorkerExit(w) \/ WorkerInc(w) \/ WorkerNotify(w)
                \/ PushStep(w)
             /\ UNCHANGED execVars
      BY <2>3 DEF PoolStep, Popping, Finishing
    <3>4. QED BY <1>0, <1>1, <3>2, <3>3, PoolCalm, NodesAreTasks
  <2>4. QED BY <1>4, <2>1, <2>2, <2>3 DEF ExecWorkerStep
<1>5. ASSUME ~crashed, MainStep PROVE [Next]_vars /\ Kinds
  <2>1. ClientStep(Owner)
    BY <1>5 DEF MainStep, ClientStep
  <2>2. [Next]_vars
    BY <1>5, <2>1, NodesAreTasks DEF Next
  <2>3. CalmStatus
    BY <1>0, <1>5, PoolCalm, NodesAreTasks DEF MainStep
  <2>4. QED BY <1>1, <1>5, <2>2, <2>3 DEF MainStep
<1>6. ASSUME Build PROVE [Next]_vars /\ Kinds
  BY <1>6 DEF Build, CreateTask, Then, Clear
<1>7. ASSUME ~crashed, ExecRun PROVE [Next]_vars /\ Kinds
  <2>1. [Next]_vars
    BY <1>7, NodesAreTasks DEF ExecRun, Next, Call
  <2>2. Calm
    BY <1>0, <1>7, NodesAreTasks
       DEF ExecRun, PushCheck, Calm, Phases, graph, IInv, Types
  <2>3. QED BY <2>1, <2>2
<1>8. ASSUME ~crashed, ExecPoolRun \/ ExecStop \/ ExecReturn \/ ExecDestroy
      PROVE  [Next]_vars /\ Kinds
  <2>1. /\ RunCall(Owner) \/ StopCall(Owner) \/ Join(Owner) \/ Destroy(Owner)
        /\ phase' \in Phases \ {"build"}
        /\ UNCHANGED <<graph, pre, next, finished>>
    BY <1>8 DEF ExecPoolRun, ExecStop, ExecReturn, ExecDestroy, Phases
  <2>2. [Next]_vars
    BY <1>8, <2>1, NodesAreTasks DEF Next, Call, ClientStep
  <2>3. CalmStatus
    BY <1>0, <2>1, PoolCalm, NodesAreTasks
  <2>4. QED BY <1>2, <2>1, <2>2, <2>3
<1>9. ASSUME ~crashed, NEW t \in Threads, SpuriousWake(t), UNCHANGED execVars
      PROVE  [Next]_vars /\ Kinds
  <2>1. [Next]_vars
    BY <1>9 DEF Next
  <2>2. CalmStatus
    BY <1>0, <1>9, PoolCalm
  <2>3. QED BY <1>1, <1>9, <2>1, <2>2
<1>10. QED
  BY <1>3, <1>4, <1>5, <1>6, <1>7, <1>8, <1>9 DEF ExecNext, RunSequence

-----------------------------------------------------------------------------
(* The parts of the invariant that need no counting.                       *)

(* Before run() no worker has a task.                                      *)
LEMMA NobodyRunsYet ==
    ASSUME ExecInv, phase = "build"
    PROVE  \A w \in Workers : current[w] = NoTask /\ next[w] = 0
<1>1. \A w \in Workers : current[w] \notin Tasks
  BY DEF ExecInv, Untouched, IInv, TaskPlaces
<1>2. \A w \in Workers : current[w] = NoTask
  BY <1>1 DEF ExecInv, IInv, Types
<1>3. QED BY <1>1, <1>2 DEF ExecInv, BodyFirst, GraphTypes

(* then() adds one edge.                                                   *)
LEMMA OneMoreEdge ==
    ASSUME GraphTypes, NEW p \in Tasks, NEW n \in Nodes, Link(p, n)
    PROVE  /\ childs' \in [Tasks -> Seq(Nodes)] /\ pre' \in [Tasks -> Int]
           /\ EdgesInto(n)' = EdgesInto(n) \cup {p}
           /\ \A m \in Nodes : m # n => EdgesInto(m)' = EdgesInto(m)
           /\ pre'[n] = pre[n] + 1
           /\ \A k \in Tasks : k # n => pre'[k] = pre[k]
<1> USE NodesAreTasks DEF GraphTypes, Link
<1>1. childs' \in [Tasks -> Seq(Nodes)]
  OBVIOUS
<1>2. /\ Len(childs[p]) \in Nat /\ Len(childs'[p]) = Len(childs[p]) + 1
      /\ \A i \in 1 .. Len(childs[p]) : childs'[p][i] = childs[p][i]
      /\ childs'[p][Len(childs[p]) + 1] = n
  OBVIOUS
<1>3. \A k \in Tasks : k # p => childs'[k] = childs[k]
  OBVIOUS
<1>4. 1 .. Len(childs'[p]) = 1 .. Len(childs[p]) \cup {Len(childs[p]) + 1}
  BY <1>2
<1>5. ASSUME NEW m \in Nodes
      PROVE  EdgesInto(m)' = IF m = n THEN EdgesInto(m) \cup {p} ELSE EdgesInto(m)
  <2>1. ASSUME NEW k \in Tasks, k # p PROVE k \in EdgesInto(m)' <=> k \in EdgesInto(m)
    BY <1>3, <2>1 DEF EdgesInto
  <2>2. p \in EdgesInto(m)' <=> p \in EdgesInto(m) \/ m = n
    BY <1>2, <1>4 DEF EdgesInto
  <2>3. EdgesInto(m)' \subseteq Tasks /\ EdgesInto(m) \subseteq Tasks
    BY DEF EdgesInto
  <2>4. CASE m = n
    BY <2>1, <2>2, <2>3, <2>4
  <2>5. CASE m # n
    <3>1. \A k \in Tasks : k \in EdgesInto(m)' <=> k \in EdgesInto(m)
      BY <2>1, <2>2, <2>5
    <3>2. EdgesInto(m)' = EdgesInto(m)
      BY <2>3, <3>1
    <3>3. QED BY <2>5, <3>2
  <2>6. QED BY <2>4, <2>5
<1>6. EdgesInto(n)' = EdgesInto(n) \cup {p}
  BY <1>5
<1>7. ASSUME NEW m \in Nodes, m # n PROVE EdgesInto(m)' = EdgesInto(m)
  BY <1>5, <1>7
<1>8. QED BY <1>1, <1>6, <1>7

LEMMA LinkedStep ==
    ASSUME GraphTypes, Linked, NEW p \in Tasks, NEW n \in Nodes,
           Link(p, n), p \notin EdgesInto(n), created' = created \cup {n}
    PROVE  Linked'
<1> USE NodesAreTasks DEF GraphTypes, Link
<1>1. ASSUME NEW k \in Tasks, k # p
      PROVE  /\ \A i \in 1 .. Len(childs'[k]) : childs'[k][i] \in created'
             /\ \A i, j \in 1 .. Len(childs'[k]) :
                   childs'[k][i] = childs'[k][j] => i = j
  BY <1>1 DEF Linked
<1>2. /\ Len(childs[p]) \in Nat /\ Len(childs'[p]) = Len(childs[p]) + 1
      /\ \A i \in 1 .. Len(childs[p]) : childs'[p][i] = childs[p][i]
      /\ childs'[p][Len(childs[p]) + 1] = n
  OBVIOUS
<1>3. \A i \in 1 .. Len(childs'[p]) : i \in 1 .. Len(childs[p]) \/ i = Len(childs[p]) + 1
  BY <1>2
<1>4. \A i \in 1 .. Len(childs[p]) : childs[p][i] # n
  BY DEF EdgesInto
<1>5. \A i \in 1 .. Len(childs'[p]) : childs'[p][i] \in created'
  BY <1>2, <1>3 DEF Linked
<1>6. ASSUME NEW i \in 1 .. Len(childs'[p]), NEW j \in 1 .. Len(childs'[p]),
             childs'[p][i] = childs'[p][j]
      PROVE  i = j
  <2>1. childs[p][i] = childs[p][j] /\ i \in 1 .. Len(childs[p]) /\ j \in 1 .. Len(childs[p])
           => i = j
    BY DEF Linked
  <2>2. CASE i \in 1 .. Len(childs[p]) /\ j \in 1 .. Len(childs[p])
    BY <1>2, <1>6, <2>1, <2>2
  <2>3. CASE i \in 1 .. Len(childs[p]) /\ j = Len(childs[p]) + 1
    BY <1>2, <1>4, <1>6, <2>3
  <2>4. CASE i = Len(childs[p]) + 1 /\ j \in 1 .. Len(childs[p])
    BY <1>2, <1>4, <1>6, <2>4
  <2>5. QED BY <1>3, <2>2, <2>3, <2>4
<1>7. QED BY <1>1, <1>5, <1>6 DEF Linked

LEMMA GraphStep ==
    ASSUME ExecInv, [ExecNext]_allVars
    PROVE  GraphTypes' /\ Linked'
<1> USE NodesAreTasks
<1>0. GraphTypes /\ Linked
  BY DEF ExecInv
<1>1. CASE Calm
  BY <1>0, <1>1 DEF Calm, GraphTypes, Linked
<1>2. ASSUME NEW n \in Nodes, CreateTask(n) PROVE GraphTypes' /\ Linked'
  <2>1. /\ Link(Root, n) /\ created' = created \cup {n}
        /\ UNCHANGED <<next, phase, finished>>
    BY <1>2 DEF CreateTask
  <2>2. Root \notin EdgesInto(n)
    BY <1>0, <1>2 DEF CreateTask, EdgesInto, Linked
  <2>3. Linked'
    BY <1>0, <2>1, <2>2, LinkedStep
  <2>4. childs' \in [Tasks -> Seq(Nodes)] /\ pre' \in [Tasks -> Int]
    BY <1>0, <2>1, OneMoreEdge
  <2>5. QED BY <1>0, <2>1, <2>3, <2>4 DEF GraphTypes
<1>3. ASSUME NEW p \in Nodes, NEW n \in Nodes, Then(p, n) PROVE GraphTypes' /\ Linked'
  <2>1. /\ Link(p, n) /\ created' = created \cup {n}
        /\ UNCHANGED <<created, next, phase, finished>>
    BY <1>3 DEF Then
  <2>2. p \notin EdgesInto(n)
    BY <1>3 DEF Then
  <2>3. Linked'
    BY <1>0, <2>1, <2>2, LinkedStep
  <2>4. childs' \in [Tasks -> Seq(Nodes)] /\ pre' \in [Tasks -> Int]
    BY <1>0, <2>1, OneMoreEdge
  <2>5. QED BY <1>0, <2>1, <2>3, <2>4 DEF GraphTypes
<1>4. CASE Clear
  BY <1>0, <1>4 DEF Clear, GraphTypes, Linked
<1>5. ASSUME NEW w \in Workers, ActionBody(w) PROVE GraphTypes' /\ Linked'
  <2>1. current[w] \in Tasks
    BY <1>5 DEF ActionBody, ExecInv, IInv, Types, Holdings
  <2>2. QED BY <1>0, <1>5, <2>1 DEF ActionBody, graph, GraphTypes, Linked
<1>6. ASSUME NEW w \in Workers, ActionChild(w) PROVE GraphTypes' /\ Linked'
  <2>1. /\ next' = [next EXCEPT ![w] = @ + 1]
        /\ \E n \in Tasks : pre' = [pre EXCEPT ![n] = @ - 1]
        /\ UNCHANGED <<graph, phase, finished>>
    BY <1>6, EdgeAtHand DEF ActionChild
  <2>2. pre' \in [Tasks -> Int]
    BY <1>0, <2>1 DEF GraphTypes
  <2>3. next' \in [Workers -> Nat]
    BY <1>0, <2>1 DEF GraphTypes
  <2>4. QED BY <1>0, <2>1, <2>2, <2>3 DEF graph, GraphTypes, Linked
<1>7. ASSUME NEW w \in Workers, Popping(w) \/ Finishing(w) PROVE GraphTypes' /\ Linked'
  <2>1. next' = [next EXCEPT ![w] = 0] /\ UNCHANGED <<graph, pre, phase, finished>>
    BY <1>7 DEF Popping, Finishing
  <2>2. QED BY <1>0, <2>1 DEF graph, GraphTypes, Linked
<1>8. QED BY StepCases, <1>1, <1>2, <1>3, <1>4, <1>5, <1>6, <1>7 DEF Build

LEMMA UntouchedStep ==
    ASSUME ExecInv, [ExecNext]_allVars
    PROVE  Untouched'
<1>1. CASE Calm
  BY <1>1 DEF Calm, ExecInv, Untouched
<1>2. CASE Build
  BY <1>2 DEF Build, CreateTask, Then, Clear, vars, ExecInv, Untouched
<1>3. ASSUME NEW w \in Workers,
             ActionBody(w) \/ ActionChild(w) \/ Popping(w) \/ Finishing(w)
      PROVE  phase' # "build"
  <2>1. phase' = phase
    BY <1>3 DEF ActionBody, ActionChild, Popping, Finishing
  <2>2. ASSUME phase = "build" PROVE FALSE
    <3>1. current[w] = NoTask /\ \A k \in Tasks : status[k] = "new"
      BY <2>2, NobodyRunsYet DEF ExecInv, Untouched
    <3>2. pc[w] \notin {"w_inc", "w_task"}
      BY <3>1 DEF ExecInv, IInv, Holdings
    <3>3. tasks = <<>>
      BY <3>1 DEF ExecInv, IInv, Types, TaskPlaces
    <3>4. QED
      BY <1>3, <3>2, <3>3 DEF ActionBody, ActionChild, Popping, WorkerPop,
                              Finishing, WorkerFinish, Goto
  <2>3. QED BY <2>1, <2>2
<1>4. QED BY StepCases, <1>1, <1>2, <1>3 DEF Untouched

(* What a submission by a worker leaves alone.                             *)
LEMMA ChildStatus ==
    ASSUME ExecInv, NEW w \in Workers, ActionChild(w)
    PROVE  /\ current' = current
           /\ \A k \in Tasks : status'[k] = "done" <=> status[k] = "done"
           /\ \A k \in Nodes : \/ status'[k] = status[k]
                               \/ /\ k = childs[current[w]][next[w]]
                                  /\ pre[k] = 1
<1> USE NodesAreTasks
<1> DEFINE n == childs[current[w]][next[w]]
<1>1. n \in created /\ n \in Tasks
  BY EdgeAtHand DEF ActionChild
<1>2. status \in [Tasks -> Status]
  BY DEF ExecInv, IInv, Types
<1>3. \/ UNCHANGED vars
      \/ pre[n] = 1 /\ (PushCheck(w, n) \/ PushRefused(w, n))
  BY DEF ActionChild
<1>4. QED BY <1>1, <1>2, <1>3 DEF PushCheck, PushRefused, vars

LEMMA BodyFirstStep ==
    ASSUME ExecInv, [ExecNext]_allVars
    PROVE  BodyFirst'
<1> USE NodesAreTasks
<1>0. GraphTypes /\ BodyFirst
  BY DEF ExecInv
<1>1. CASE Calm
  BY <1>0, <1>1 DEF Calm, BodyFirst
<1>2. CASE Build
  <2>1. \A w \in Workers : next[w] = 0
    BY <1>2, NobodyRunsYet DEF Build, CreateTask, Then, Clear
  <2>2. UNCHANGED <<next, finished, status>>
    BY <1>2 DEF Build, CreateTask, Then, Clear, vars
  <2>3. QED BY <1>0, <2>1, <2>2 DEF BodyFirst
<1>3. ASSUME NEW w \in Workers, ActionBody(w) PROVE BodyFirst'
  <2>1. current[w] \in Tasks
    BY <1>3 DEF ActionBody, ExecInv, IInv, Types, Holdings
  <2>2. QED BY <1>0, <1>3, <2>1 DEF ActionBody, graph, vars, GraphTypes, BodyFirst
<1>4. ASSUME NEW w \in Workers, ActionChild(w) PROVE BodyFirst'
  <2>1. current' = current /\ \A k \in Tasks : status'[k] = "done" <=> status[k] = "done"
    BY <1>4, ChildStatus
  <2>2. UNCHANGED <<childs, finished>> /\ next[w] \in 1 .. Len(childs[current[w]])
        /\ next' = [next EXCEPT ![w] = @ + 1]
    BY <1>4 DEF ActionChild, graph
  <2>3. current[w] \in Tasks /\ Len(childs[current[w]]) \in Nat
    BY <1>0, <1>4, EdgeAtHand DEF ActionChild, GraphTypes
  <2>4. \A v \in Workers : next'[v] = IF v = w THEN next[w] + 1 ELSE next[v]
    BY <1>0, <2>2 DEF GraphTypes
  <2>5. next[w] > 0 /\ next[w] + 1 <= Len(childs[current[w]]) + 1
    BY <2>2, <2>3
  <2>6. ASSUME NEW v \in Workers, next'[v] > 0
        PROVE  current[v] \in finished /\ next'[v] <= Len(childs[current[v]]) + 1
    <3>1. CASE v = w
      BY <1>0, <2>4, <2>5, <3>1 DEF BodyFirst
    <3>2. CASE v # w
      BY <1>0, <2>4, <2>6, <3>2 DEF BodyFirst
    <3>3. QED BY <3>1, <3>2
  <2>7. \A k \in Tasks : status'[k] = "done" => k \in finished'
    BY <1>0, <2>1, <2>2 DEF BodyFirst
  <2>8. QED BY <2>1, <2>2, <2>6, <2>7 DEF BodyFirst
<1>5. ASSUME NEW w \in Workers, Popping(w) PROVE BodyFirst'
  <2>1. Head(tasks) \in Tasks
    BY <1>5 DEF Popping, WorkerPop, ExecInv, IInv, Types
  <2>2. QED
    BY <1>0, <1>5, <2>1 DEF Popping, WorkerPop, graph, GraphTypes, BodyFirst,
                            ExecInv, IInv, Types
<1>6. ASSUME NEW w \in Workers, Finishing(w) PROVE BodyFirst'
  <2>1. current[w] \in Tasks
    BY <1>6 DEF Finishing, WorkerFinish, Goto, ExecInv, IInv, Types, Holdings
  <2>2. next[w] > 0
    BY <1>0, <1>6, <2>1 DEF Finishing, GraphTypes
  <2>3. current[w] \in finished
    BY <1>0, <2>2 DEF BodyFirst
  <2>4. QED
    BY <1>0, <1>6, <2>1, <2>3 DEF Finishing, WorkerFinish, graph, GraphTypes,
                                  BodyFirst, ExecInv, IInv, Types
<1>7. QED BY StepCases, <1>1, <1>2, <1>3, <1>4, <1>5, <1>6

-----------------------------------------------------------------------------
(* The counters.                                                           *)

LEMMA LeftFinite ==
    ASSUME NEW n \in Nodes
    PROVE  /\ Left(n) \subseteq EdgesInto(n) /\ EdgesInto(n) \subseteq Tasks
           /\ IsFiniteSet(EdgesInto(n)) /\ IsFiniteSet(Left(n))
           /\ Cardinality(Left(n)) \in Nat
<1>1. Left(n) \subseteq EdgesInto(n) /\ EdgesInto(n) \subseteq Tasks
  BY DEF Left, EdgesInto
<1>2. QED BY <1>1, NodesAreTasks, FS_Subset, FS_CardinalityType

(* A task that a worker has is running, and no other worker has it.        *)
LEMMA OneHolder ==
    ASSUME IInv, NEW w \in Workers, current[w] \in Tasks
    PROVE  /\ status[current[w]] = "running"
           /\ \A v \in Workers : current[v] = current[w] => v = w
  BY PoolAssumption DEF IInv, TaskPlaces

LEMMA CalmCounts ==
    ASSUME ExecInv, Calm
    PROVE  Counts'
<1>1. ASSUME NEW n \in created PROVE Counted(n)'
  <2>1. EdgesInto(n)' = EdgesInto(n)
    BY DEF Calm, EdgesInto
  <2>2. Left(n)' = Left(n)
    BY DEF Calm, Left, EdgesInto, Handled
  <2>3. Counted(n) /\ pre'[n] = pre[n]
    BY DEF Calm, ExecInv, Counts
  <2>4. QED BY <2>1, <2>2, <2>3 DEF Counted
<1>2. QED BY <1>1 DEF Calm, ExecInv, Counts

LEMMA BodyCounts ==
    ASSUME ExecInv, NEW w \in Workers, ActionBody(w)
    PROVE  Counts'
<1>0. UNCHANGED <<created, childs, pre, current, status>> /\ next[w] = 0
      /\ next' = [next EXCEPT ![w] = 1]
  BY DEF ActionBody, graph, vars
<1>1. ASSUME NEW n \in created PROVE Counted(n)'
  <2>1. EdgesInto(n)' = EdgesInto(n)
    BY <1>0 DEF EdgesInto
  <2>2. ASSUME NEW p \in Tasks PROVE Handled(p, n)' <=> Handled(p, n)
    BY <1>0 DEF Handled, ExecInv, GraphTypes
  <2>3. Left(n)' = Left(n)
    BY <2>1, <2>2 DEF Left, EdgesInto
  <2>4. Counted(n) /\ pre'[n] = pre[n]
    BY <1>0 DEF ExecInv, Counts
  <2>5. QED BY <2>1, <2>3, <2>4 DEF Counted
<1>2. QED BY <1>0, <1>1 DEF ExecInv, Counts

(* A task that is taken has handled nothing.                               *)
LEMMA PopCounts ==
    ASSUME ExecInv, NEW w \in Workers, Popping(w)
    PROVE  Counts'
<1> DEFINE k == Head(tasks)
<1>0. /\ UNCHANGED <<created, childs, pre>>
      /\ next' = [next EXCEPT ![w] = 0] /\ next' \in [Workers -> Int]
      /\ current' = [current EXCEPT ![w] = k]
      /\ status' = [status EXCEPT ![k] = "running"]
      /\ pc[w] = "w_lock" /\ tasks # <<>>
  BY DEF Popping, WorkerPop, Goto, graph, ExecInv, GraphTypes
<1>1. /\ tasks \in Seq(Tasks) /\ status \in [Tasks -> Status]
      /\ current \in [Workers -> Tasks \cup {NoTask}] /\ NoTask \notin Tasks
  BY NodesAreTasks DEF ExecInv, IInv, Types
<1>2. k \in Tasks /\ k = tasks[1] /\ 1 \in 1 .. Len(tasks)
  BY <1>0, <1>1
<1>3. status[k] = "queued"
  BY <1>2 DEF ExecInv, IInv, TaskPlaces
<1>4. current[w] = NoTask
  BY <1>0 DEF ExecInv, IInv, Holdings, PushPC
<1>5. \A v \in Workers : current[v] # k
  BY <1>2, <1>3 DEF ExecInv, IInv, TaskPlaces
<1>6. ASSUME NEW n \in created PROVE Counted(n)'
  <2>1. EdgesInto(n)' = EdgesInto(n)
    BY <1>0 DEF EdgesInto
  <2>2. ASSUME NEW p \in Tasks PROVE Handled(p, n)' <=> Handled(p, n)
    <3>1. status'[p] = "done" <=> status[p] = "done"
      BY <1>0, <1>1, <1>2, <1>3
    <3>2. ASSUME NEW v \in Workers, v # w
          PROVE  next'[v] = next[v] /\ current'[v] = current[v]
      BY <1>0, <1>1, <3>2 DEF ExecInv, GraphTypes
    <3>3. current[w] # p
      BY <1>1, <1>4
    <3>4. ~ \E i \in 1 .. next'[w] - 1 : childs'[p][i] = n
      BY <1>0 DEF ExecInv, GraphTypes
    <3>5. QED BY <1>0, <3>1, <3>2, <3>3, <3>4 DEF Handled
  <2>3. Left(n)' = Left(n)
    BY <2>1, <2>2 DEF Left, EdgesInto
  <2>4. Counted(n) /\ pre'[n] = pre[n]
    BY <1>0 DEF ExecInv, Counts
  <2>5. QED BY <2>1, <2>3, <2>4 DEF Counted
<1>7. QED BY <1>0, <1>6 DEF ExecInv, Counts

(* A task that is done has handled all its edges.                          *)
LEMMA FinishCounts ==
    ASSUME ExecInv, NEW w \in Workers, Finishing(w)
    PROVE  Counts'
<1>t. current[w] \in Tasks
  BY DEF Finishing, WorkerFinish, Goto, ExecInv, IInv, Types, Holdings
<1>k. PICK k \in Tasks : k = current[w]
  BY <1>t
<1>0. /\ UNCHANGED <<created, childs, pre>>
      /\ next' = [next EXCEPT ![w] = 0] /\ next[w] > Len(childs[k])
      /\ current' = [current EXCEPT ![w] = NoTask]
      /\ status' = [status EXCEPT ![k] = "done"]
      /\ pc[w] = "w_task"
  BY <1>k DEF Finishing, WorkerFinish, Goto, graph
<1>1. /\ status \in [Tasks -> Status] /\ next \in [Workers -> Nat]
      /\ current \in [Workers -> Tasks \cup {NoTask}] /\ NoTask \notin Tasks
      /\ childs \in [Tasks -> Seq(Nodes)]
  BY NodesAreTasks DEF ExecInv, IInv, Types, GraphTypes
<1>2. status[k] = "running" /\ \A v \in Workers : current[v] = k => v = w
  BY <1>k, OneHolder DEF ExecInv
<1>3. ASSUME NEW n \in created PROVE Counted(n)'
  <2>1. EdgesInto(n)' = EdgesInto(n)
    BY <1>0 DEF EdgesInto
  <2>2. ASSUME NEW p \in EdgesInto(n), p # k PROVE Handled(p, n)' <=> Handled(p, n)
    <3>1. p \in Tasks
      BY <2>2 DEF EdgesInto
    <3>2. status'[p] = status[p]
      BY <1>0, <1>1, <2>2, <3>1
    <3>3. ASSUME NEW v \in Workers, v # w
          PROVE  next'[v] = next[v] /\ current'[v] = current[v]
      BY <1>0, <1>1, <3>3
    <3>4. current[w] # p /\ current'[w] # p
      BY <1>0, <1>1, <1>k, <2>2, <3>1
    <3>5. QED BY <1>0, <3>2, <3>3, <3>4 DEF Handled
  <2>3. ASSUME k \in EdgesInto(n) PROVE Handled(k, n)' /\ Handled(k, n)
    <3>1. status'[k] = "done"
      BY <1>0, <1>1
    <3>2. PICK i \in 1 .. Len(childs[k]) : childs[k][i] = n
      BY <2>3 DEF EdgesInto
    <3>3. i \in 1 .. next[w] - 1
      BY <1>0, <1>1, <3>2
    <3>4. QED BY <1>k, <3>1, <3>2, <3>3 DEF Handled
  <2>4. Left(n)' = Left(n)
    BY <2>1, <2>2, <2>3 DEF Left
  <2>5. Counted(n) /\ pre'[n] = pre[n]
    BY <1>0 DEF ExecInv, Counts
  <2>6. QED BY <2>1, <2>4, <2>5 DEF Counted
<1>4. QED BY <1>0, <1>3 DEF ExecInv, Counts

(* The edge that a worker handles was not handled before and is now, and   *)
(* no other: the counter of its task goes down with the number left.       *)
LEMMA ChildCounts ==
    ASSUME ExecInv, NEW w \in Workers, ActionChild(w)
    PROVE  Counts' /\ HeldBack'
<1>1. /\ current[w] \in Tasks /\ childs[current[w]][next[w]] \in created
      /\ created \subseteq Tasks /\ created \subseteq Nodes
  BY EdgeAtHand DEF ActionChild, ExecInv, GraphTypes
<1>2. PICK p \in Tasks, m \in created, h \in Nat :
          p = current[w] /\ h = next[w] /\ m = childs[p][h]
  BY <1>1 DEF ExecInv, GraphTypes
<1>3. /\ UNCHANGED <<created, childs, current>>
      /\ next' = [next EXCEPT ![w] = h + 1] /\ h \in 1 .. Len(childs[p])
      /\ pre' = [pre EXCEPT ![m] = @ - 1]
      /\ \A k \in Tasks : status'[k] = "done" <=> status[k] = "done"
      /\ \A k \in Nodes : status'[k] = status[k] \/ (k = m /\ pre[k] = 1)
  BY <1>2, ChildStatus DEF ActionChild, graph
<1>4. /\ pre \in [Tasks -> Int] /\ next \in [Workers -> Nat]
      /\ childs \in [Tasks -> Seq(Nodes)]
  BY DEF ExecInv, GraphTypes
<1>5. status[p] = "running" /\ \A v \in Workers : current[v] = p => v = w
  BY <1>2, OneHolder DEF ExecInv
<1>6. ASSUME NEW n \in created, NEW q \in Tasks, q # p \/ n # m
      PROVE  Handled(q, n)' <=> Handled(q, n)
  <2>1. ASSUME NEW v \in Workers, v # w PROVE next'[v] = next[v]
    BY <1>3, <1>4, <2>1
  <2>2. CASE q # p
    BY <1>2, <1>3, <2>1, <2>2 DEF Handled
  <2>3. CASE n # m
    <3>1. next'[w] - 1 = h /\ 1 .. h = 1 .. h - 1 \cup {h}
      BY <1>2, <1>3, <1>4
    <3>2. q = p => (\E i \in 1 .. next'[w] - 1 : childs'[q][i] = n)
                      <=> (\E i \in 1 .. next[w] - 1 : childs[q][i] = n)
      BY <1>2, <1>3, <2>3, <3>1
    <3>3. QED BY <1>2, <1>3, <2>1, <2>2, <3>2 DEF Handled
  <2>4. QED BY <1>6, <2>2, <2>3
<1>7. p \in EdgesInto(m) /\ ~Handled(p, m) /\ Handled(p, m)'
  <2>1. p \in EdgesInto(m)
    BY <1>2, <1>3 DEF EdgesInto
  <2>2. ASSUME NEW i \in 1 .. h - 1 PROVE childs[p][i] # m
    <3>1. i \in 1 .. Len(childs[p]) /\ i # h
      BY <1>3, <1>4, <2>2
    <3>2. QED BY <1>2, <1>3, <3>1 DEF ExecInv, Linked
  <2>3. ~Handled(p, m)
    BY <1>2, <1>5, <2>2 DEF Handled
  <2>4. h \in 1 .. next'[w] - 1
    BY <1>3, <1>4
  <2>5. Handled(p, m)'
    BY <1>2, <1>3, <2>4 DEF Handled
  <2>6. QED BY <2>1, <2>3, <2>5
<1>8. ASSUME NEW n \in created PROVE Counted(n)'
  <2>1. EdgesInto(n)' = EdgesInto(n) /\ EdgesInto(n) \subseteq Tasks
    BY <1>3 DEF EdgesInto
  <2>2. CASE n # m
    <3>1. ASSUME NEW q \in Tasks PROVE Handled(q, n)' <=> Handled(q, n)
      BY <1>6, <2>2
    <3>2. Left(n)' = Left(n)
      BY <2>1, <3>1 DEF Left
    <3>3. Counted(n) /\ pre'[n] = pre[n]
      BY <1>1, <1>3, <1>4, <2>2 DEF ExecInv, Counts
    <3>4. QED BY <2>1, <3>2, <3>3 DEF Counted
  <2>3. CASE n = m
    <3>1. ASSUME NEW q \in Tasks, q # p PROVE Handled(q, n)' <=> Handled(q, n)
      BY <1>6, <3>1
    <3>2. Left(n)' = Left(n) \ {p} /\ p \in Left(n)
      BY <1>7, <2>1, <2>3, <3>1 DEF Left
    <3>3. Cardinality(Left(n)') = Cardinality(Left(n)) - 1
      BY <1>1, <3>2, LeftFinite, FS_RemoveElement
    <3>4. Counted(n) /\ pre'[n] = pre[n] - 1
      BY <1>1, <1>3, <1>4, <2>3 DEF ExecInv, Counts
    <3>5. Cardinality(Left(n)) \in Nat
      BY <1>1, LeftFinite
    <3>6. QED BY <2>1, <3>3, <3>4, <3>5 DEF Counted
  <2>4. QED BY <2>2, <2>3
<1>9. Counts'
  BY <1>1, <1>3, <1>4, <1>8 DEF ExecInv, Counts
<1>10. ASSUME NEW n \in created, pre'[n] > 0 PROVE status'[n] = "new"
  <2>1. n \in Nodes /\ n \in Tasks /\ pre[n] \in Int
    BY <1>1, <1>4
  <2>2. pre[n] > 0 /\ (n = m => pre[n] # 1)
    BY <1>1, <1>3, <1>4, <1>10, <2>1
  <2>3. status'[n] = status[n]
    BY <1>3, <2>1, <2>2
  <2>4. QED BY <2>2, <2>3 DEF ExecInv, HeldBack
<1>11. QED BY <1>3, <1>9, <1>10 DEF HeldBack

(* Nothing is handled while the graph is built.                            *)
LEMMA BuildLeft ==
    ASSUME ExecInv, phase = "build", UNCHANGED <<status, current, next>>,
           NEW n \in Nodes
    PROVE  Left(n) = EdgesInto(n) /\ Left(n)' = EdgesInto(n)'
<1>1. \A w \in Workers : current[w] \notin Tasks
  BY NobodyRunsYet, NodesAreTasks
<1>2. \A k \in Tasks : status[k] = "new"
  BY DEF ExecInv, Untouched
<1>3. ASSUME NEW p \in Tasks PROVE ~Handled(p, n) /\ ~Handled(p, n)'
  BY <1>1, <1>2 DEF Handled
<1>4. Left(n) = EdgesInto(n)
  BY <1>3 DEF Left, EdgesInto
<1>5. Left(n)' = EdgesInto(n)'
  BY <1>3 DEF Left, EdgesInto
<1>6. QED BY <1>4, <1>5

LEMMA BuildCounts ==
    ASSUME ExecInv, Build
    PROVE  Counts' /\ HeldBack'
<1> USE NodesAreTasks
<1>0. /\ phase = "build" /\ UNCHANGED <<status, current, next>>
      /\ \A k \in Tasks : status[k] = "new"
      /\ GraphTypes /\ Linked
  BY DEF Build, CreateTask, Then, Clear, vars, ExecInv, Untouched
<1>h. ASSUME created' \subseteq Nodes PROVE HeldBack'
  BY <1>0, <1>h DEF HeldBack
<1>1. ASSUME NEW n \in Nodes, CreateTask(n) PROVE Counts' /\ HeldBack'
  <2>1. /\ Link(Root, n) /\ created' = created \cup {n} /\ n \notin created
    BY <1>1 DEF CreateTask
  <2>2. EdgesInto(n) = {}
    BY <1>0, <2>1 DEF EdgesInto, Linked
  <2>3. EdgesInto(n)' = {Root}
    BY <1>0, <2>1, <2>2, OneMoreEdge
  <2>4. Cardinality(Left(n)') = 1
    BY <1>0, <2>3, BuildLeft, FS_Singleton
  <2>5. pre'[n] = 1
    BY <1>0, <2>1, OneMoreEdge DEF ExecInv, Counts
  <2>6. Counted(n)'
    BY <2>3, <2>4, <2>5 DEF Counted
  <2>7. ASSUME NEW m \in created PROVE Counted(m)'
    <3>1. m \in Nodes /\ m # n
      BY <1>0, <2>1 DEF GraphTypes
    <3>2. EdgesInto(m)' = EdgesInto(m) /\ pre'[m] = pre[m]
      BY <1>0, <2>1, <3>1, OneMoreEdge
    <3>3. Left(m)' = Left(m)
      BY <1>0, <3>1, <3>2, BuildLeft
    <3>4. QED BY <3>2, <3>3 DEF ExecInv, Counts, Counted
  <2>8. \A k \in Tasks \ created' : pre'[k] = 0
    BY <1>0, <2>1, OneMoreEdge DEF ExecInv, Counts
  <2>9. Counts'
    BY <2>1, <2>6, <2>7, <2>8 DEF Counts
  <2>10. QED BY <1>0, <1>h, <2>1, <2>9 DEF GraphTypes
<1>2. ASSUME NEW p \in Nodes, NEW n \in Nodes, Then(p, n) PROVE Counts' /\ HeldBack'
  <2>1. /\ Link(p, n) /\ created' = created /\ n \in created
        /\ p \notin EdgesInto(n)
    BY <1>2 DEF Then
  <2>2. EdgesInto(n)' = EdgesInto(n) \cup {p} /\ pre'[n] = pre[n] + 1
    BY <1>0, <2>1, OneMoreEdge
  <2>3. Cardinality(EdgesInto(n)') = Cardinality(EdgesInto(n)) + 1
    <3>1. IsFiniteSet(EdgesInto(n))
      BY LeftFinite
    <3>2. Cardinality(EdgesInto(n) \cup {p}) = Cardinality(EdgesInto(n)) + 1
      BY <2>1, <3>1, FS_AddElement
    <3>3. QED BY <2>2, <3>2
  <2>4. Left(n) = EdgesInto(n) /\ Left(n)' = EdgesInto(n)'
    BY <1>0, BuildLeft
  <2>5. Cardinality(Left(n)) \in Nat /\ Counted(n)
    BY <2>1, LeftFinite DEF ExecInv, Counts
  <2>6. Root \in EdgesInto(n)' <=> Root \in EdgesInto(n)
    BY <2>2
  <2>7. Counted(n)'
    BY <2>2, <2>3, <2>4, <2>5, <2>6 DEF Counted
  <2>8. ASSUME NEW m \in created, m # n PROVE Counted(m)'
    <3>1. m \in Nodes
      BY <1>0 DEF GraphTypes
    <3>2. EdgesInto(m)' = EdgesInto(m) /\ pre'[m] = pre[m]
      BY <1>0, <2>1, <2>8, <3>1, OneMoreEdge
    <3>3. Left(m)' = Left(m)
      BY <1>0, <3>1, <3>2, BuildLeft
    <3>4. QED BY <3>2, <3>3 DEF ExecInv, Counts, Counted
  <2>9. \A k \in Tasks \ created : pre'[k] = 0
    BY <1>0, <2>1, OneMoreEdge DEF ExecInv, Counts
  <2>10. Counts'
    BY <2>1, <2>7, <2>8, <2>9 DEF Counts
  <2>11. QED BY <1>0, <1>h, <2>1, <2>10 DEF GraphTypes
<1>3. CASE Clear
  <2>1. childs' = [childs EXCEPT ![Root] = <<>>] /\ UNCHANGED <<created, pre>>
    BY <1>3 DEF Clear
  <2>2. ASSUME NEW m \in created PROVE Counted(m)'
    <3>1. m \in Nodes
      BY <1>0 DEF GraphTypes
    <3>2. ASSUME NEW k \in Tasks, k # Root
          PROVE  k \in EdgesInto(m)' <=> k \in EdgesInto(m)
      BY <1>0, <2>1, <3>2 DEF EdgesInto, GraphTypes
    <3>3. Root \notin EdgesInto(m)'
      BY <1>0, <2>1 DEF EdgesInto, GraphTypes
    <3>4. EdgesInto(m)' = EdgesInto(m) \ {Root}
      BY <3>2, <3>3 DEF EdgesInto
    <3>5. Left(m) = EdgesInto(m) /\ Left(m)' = EdgesInto(m)'
      BY <1>0, <3>1, BuildLeft
    <3>6. Cardinality(Left(m)') = IF Root \in EdgesInto(m) THEN Cardinality(Left(m)) - 1
                                  ELSE Cardinality(Left(m))
      <4>1. IsFiniteSet(Left(m))
        BY <3>1, LeftFinite
      <4>2. Cardinality(Left(m) \ {Root}) =
                IF Root \in Left(m) THEN Cardinality(Left(m)) - 1
                                            ELSE Cardinality(Left(m))
        BY <4>1, FS_RemoveElement
      <4>3. QED BY <3>4, <3>5, <4>2
    <3>7. Cardinality(Left(m)) \in Nat /\ Counted(m) /\ pre'[m] = pre[m]
      BY <2>1, <3>1, LeftFinite DEF ExecInv, Counts
    <3>8. QED BY <3>3, <3>6, <3>7 DEF Counted
  <2>3. Counts'
    BY <2>1, <2>2 DEF ExecInv, Counts
  <2>4. QED BY <1>0, <1>h, <2>1, <2>3 DEF GraphTypes
<1>4. QED BY <1>1, <1>2, <1>3 DEF Build

LEMMA CountsStep ==
    ASSUME ExecInv, [ExecNext]_allVars
    PROVE  Counts' /\ HeldBack'
<1>1. CASE Calm
  <2>1. HeldBack'
    BY <1>1 DEF Calm, ExecInv, GraphTypes, HeldBack
  <2>2. QED BY <1>1, <2>1, CalmCounts
<1>2. CASE Build
  BY <1>2, BuildCounts
<1>3. ASSUME NEW w \in Workers, ActionBody(w) PROVE Counts' /\ HeldBack'
  <2>1. HeldBack'
    BY <1>3 DEF ActionBody, graph, vars, ExecInv, HeldBack
  <2>2. QED BY <1>3, <2>1, BodyCounts
<1>4. ASSUME NEW w \in Workers, ActionChild(w) PROVE Counts' /\ HeldBack'
  BY <1>4, ChildCounts
<1>5. ASSUME NEW w \in Workers, Popping(w) PROVE Counts' /\ HeldBack'
  <2>1. tasks \in Seq(Tasks) /\ tasks # <<>> /\ status \in [Tasks -> Status]
        /\ status' = [status EXCEPT ![Head(tasks)] = "running"]
    BY <1>5 DEF Popping, WorkerPop, ExecInv, IInv, Types
  <2>2. status[Head(tasks)] = "queued"
    BY <2>1 DEF ExecInv, IInv, TaskPlaces
  <2>3. HeldBack'
    BY <1>5, <2>1, <2>2 DEF Popping, graph, ExecInv, HeldBack, GraphTypes
  <2>4. QED BY <1>5, <2>3, PopCounts
<1>6. ASSUME NEW w \in Workers, Finishing(w) PROVE Counts' /\ HeldBack'
  <2>1. current[w] \in Tasks /\ status \in [Tasks -> Status]
    BY <1>6 DEF Finishing, WorkerFinish, Goto, ExecInv, IInv, Types, Holdings
  <2>2. status[current[w]] = "running"
    BY <2>1, OneHolder DEF ExecInv
  <2>3. HeldBack'
    BY <1>6, <2>1, <2>2 DEF Finishing, WorkerFinish, graph, ExecInv, HeldBack, GraphTypes
  <2>4. QED BY <1>6, <2>3, FinishCounts
<1>7. QED BY StepCases, <1>1, <1>2, <1>3, <1>4, <1>5, <1>6

-----------------------------------------------------------------------------
(* The theorems.                                                           *)

LEMMA ExecInvInit == ExecInit => ExecInv
<1> SUFFICES ASSUME ExecInit PROVE ExecInv
  OBVIOUS
<1>1. IInv
  BY IInvInit DEF ExecInit
<1>2. GraphTypes /\ Linked
  BY DEF ExecInit, GraphTypes, Linked, Phases
<1>3. Untouched /\ BodyFirst
  BY DEF ExecInit, Init, Untouched, BodyFirst
<1>4. Counts /\ HeldBack
  BY DEF ExecInit, Counts, HeldBack
<1>5. QED BY <1>1, <1>2, <1>3, <1>4 DEF ExecInv

LEMMA ExecInvStep == ExecInv /\ [ExecNext]_allVars => ExecInv'
<1> SUFFICES ASSUME ExecInv, [ExecNext]_allVars PROVE ExecInv'
  OBVIOUS
<1>1. IInv'
  BY StepCases, IInvStep DEF ExecInv
<1>2. QED
  BY <1>1, GraphStep, UntouchedStep, BodyFirstStep, CountsStep DEF ExecInv

THEOREM ExecInvariance == ExecSpec => []ExecInv
  BY ExecInvInit, ExecInvStep, PTL DEF ExecSpec

(* An executor is a correct user of its pool: it behaves as ThreadPool     *)
(* allows, whatever the graph and the order in which the workers go.       *)
THEOREM ExecutorUsesPool == ExecSpec => Spec
<1>1. ExecInit => Init
  BY DEF ExecInit
<1>2. ExecInv /\ [ExecNext]_allVars => [Next]_vars
  BY StepCases
<1>3. QED BY <1>1, <1>2, ExecInvariance, PTL DEF ExecSpec, Spec

(* So what is proved of the pool holds of it under an executor: no task is *)
(* lost, the counter of run() is exact, stop() is final, and tasks start   *)
(* in the order in which they were pushed.                                 *)
THEOREM ExecutorKeepsPool ==
    ExecSpec => /\ []TaskPlaces /\ []RunningCount /\ []JoinedPoolIsQuiet
                /\ ImplementsTaskPool
  BY ExecutorUsesPool, NoTaskLost, CountCorrect, StopIsFinal,
     PoolImplementsTaskPool

(* The edges out of a task are as many as there are tasks, at most.        *)
LEMMA FewEdges ==
    ASSUME GraphTypes, Linked, NEW k \in Tasks
    PROVE  Len(childs[k]) \in Nat /\ Len(childs[k]) <= Cardinality(Nodes)
<1> DEFINE len == Len(childs[k])
<1>1. childs[k] \in [1 .. len -> Nodes] /\ len \in Nat
  BY DEF GraphTypes
<1>2. childs[k] \in Injection(1 .. len, Nodes)
  BY <1>1 DEF Linked, Injection, IsInjective
<1>3. Cardinality(1 .. len) <= Cardinality(Nodes)
  BY <1>2, NodesAreTasks, FS_Injection
<1>4. Cardinality(1 .. len) = len
  BY <1>1, FS_Interval
<1>5. QED BY <1>1, <1>3, <1>4

LEMMA PreInRange ==
    ASSUME GraphTypes, Counts, NEW k \in Tasks
    PROVE  pre[k] \in 0 .. Cardinality(Tasks)
<1>0. Cardinality(Nodes) \in Nat /\ Cardinality(Tasks) = Cardinality(Nodes) + 1
  BY NodesAreTasks, FS_CardinalityType
<1>1. CASE k \notin created
  BY <1>0, <1>1 DEF Counts
<1>2. CASE k \in created
  <2>1. /\ k \in Nodes /\ Left(k) \subseteq Tasks
        /\ Left(k) \subseteq EdgesInto(k) /\ Cardinality(Left(k)) \in Nat
    BY <1>2, LeftFinite DEF GraphTypes
  <2>2. Cardinality(Left(k)) <= Cardinality(Tasks)
    BY <2>1, NodesAreTasks, FS_Subset
  <2>3. CASE Root \in EdgesInto(k)
    BY <1>0, <1>2, <2>1, <2>2, <2>3 DEF Counts, Counted
  <2>4. CASE Root \notin EdgesInto(k)
    <3>1. Left(k) \subseteq Nodes
      BY <2>1, <2>4, ExecutorAssumption
    <3>2. Cardinality(Left(k)) <= Cardinality(Nodes)
      BY <3>1, NodesAreTasks, FS_Subset
    <3>3. QED BY <1>0, <1>2, <2>1, <2>4, <3>2 DEF Counts, Counted
  <2>5. QED BY <2>3, <2>4
<1>3. QED BY <1>1, <1>2

THEOREM ExecTypeCorrect == ExecSpec => []ExecTypeOK
<1>1. ASSUME ExecInv, TypeOK PROVE ExecTypeOK
  <2>0. GraphTypes /\ Linked /\ BodyFirst /\ Counts
    BY <1>1 DEF ExecInv
  <2>1. \A k \in Tasks : Len(childs[k]) <= Cardinality(Nodes)
    BY <2>0, FewEdges
  <2>2. pre \in [Tasks -> 0 .. Cardinality(Tasks)]
    BY <2>0, PreInRange DEF GraphTypes
  <2>3. ASSUME NEW w \in Workers PROVE next[w] \in 0 .. Cardinality(Nodes) + 1
    <3>1. next[w] \in Nat /\ Cardinality(Nodes) \in Nat
      BY <2>0, NodesAreTasks, FS_CardinalityType DEF GraphTypes
    <3>2. CASE next[w] = 0
      BY <3>1, <3>2
    <3>3. CASE next[w] > 0
      <4>1. current[w] \in Tasks /\ next[w] <= Len(childs[current[w]]) + 1
        BY <2>0, <3>3 DEF BodyFirst, GraphTypes
      <4>2. Len(childs[current[w]]) \in Nat
            /\ Len(childs[current[w]]) <= Cardinality(Nodes)
        BY <2>0, <4>1, FewEdges
      <4>3. QED BY <3>1, <4>1, <4>2
    <3>4. QED BY <3>1, <3>2, <3>3
  <2>4. QED BY <1>1, <2>0, <2>1, <2>2, <2>3 DEF ExecTypeOK, GraphTypes, Phases
<1>2. ExecSpec => []TypeOK
  BY ExecutorUsesPool, TypeCorrect
<1>3. QED BY <1>1, <1>2, ExecInvariance, PTL

(* pre_ is the number of the edges that are not handled yet, whatever the  *)
(* workers are in the middle of.                                           *)
THEOREM PreIsExact == ExecSpec => []PreCountsParents
<1>1. ASSUME ExecInv, ExecTypeOK PROVE PreCountsParents
  BY <1>1 DEF ExecInv, Counts, Counted, Left, PreCountsParents
<1>2. QED BY <1>1, ExecInvariance, ExecTypeCorrect, PTL

(* A task starts after all its parents: it is pushed only when its counter *)
(* is zero, then nothing is left, so each parent is done or is handled by  *)
(* a worker that has run its body.                                         *)
THEOREM ParentsFirst == ExecSpec => []ChildAfterParents
<1>1. ASSUME ExecInv PROVE ChildAfterParents
  <2>1. ASSUME NEW w \in Workers, current[w] # NoTask,
               NEW p \in EdgesInto(current[w])
        PROVE  p \in finished
    <3> DEFINE n == current[w]
    <3>1. n \in Tasks /\ p \in Tasks
      BY <1>1, <2>1 DEF ExecInv, IInv, Types, EdgesInto
    <3>2. n \in created /\ n \in Nodes
      BY <1>1, <2>1, <3>1 DEF ExecInv, Linked, GraphTypes, EdgesInto
    <3>3. status[n] = "running"
      BY <1>1, <3>1, OneHolder DEF ExecInv
    <3>4. ~(pre[n] > 0) /\ Counted(n)
      BY <1>1, <3>2, <3>3 DEF ExecInv, HeldBack, Counts
    <3>5. Cardinality(Left(n)) \in Nat /\ IsFiniteSet(Left(n))
      BY <3>2, LeftFinite
    <3>6. Cardinality(Left(n)) = 0
      BY <3>4, <3>5 DEF Counted
    <3>7. Left(n) = {}
      BY <3>5, <3>6, FS_EmptySet
    <3>8. Handled(p, n)
      BY <2>1, <3>7 DEF Left
    <3>9. CASE status[p] = "done"
      BY <1>1, <3>1, <3>9 DEF ExecInv, BodyFirst
    <3>10. ASSUME NEW v \in Workers, current[v] = p, NEW i \in 1 .. next[v] - 1
           PROVE  p \in finished
      <4>1. next[v] > 0
        BY <1>1, <3>10 DEF ExecInv, GraphTypes
      <4>2. QED BY <1>1, <3>10, <4>1 DEF ExecInv, BodyFirst
    <3>11. QED BY <3>8, <3>9, <3>10 DEF Handled
  <2>2. QED BY <1>1, <2>1 DEF ExecInv, HeldBack, ChildAfterParents
<1>2. QED BY <1>1, ExecInvariance, PTL
=============================================================================
