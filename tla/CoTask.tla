------------------------------- MODULE CoTask -------------------------------
(***************************************************************************)
(* ayr::coro::Task and Promise (include/ayr/coro/Task.hpp, Promise.hpp),   *)
(* driven by IoContext::run (coro/IoContext.hpp).                          *)
(*                                                                         *)
(* A Task owns the frame of a coroutine.  A coroutine keeps one Task in a  *)
(* local variable: it makes it, awaits it, overwrites it, lets it go.      *)
(* Which of this it does, and when it sleeps, returns or throws, is open.  *)
(* The loop appears as the set of frames that it is going to resume.       *)
(***************************************************************************)
EXTENDS Naturals

CONSTANTS
    Frames,     \* the addresses of frames
    Results     \* what coroutines return

VARIABLES
    frames,     \* what each frame holds
    running,    \* the frame that runs, or Nobody: the loop or main does
    handed,     \* the frames whose handles the loop has
    main,       \* "start", in run(), "over", or "terminated"
    task,       \* the frame of main's Task
    lost        \* frames whose Task was overwritten (history)

taskVars == <<frames, running, handed, main, task, lost>>

Nobody == "nobody"

ASSUME FrameAssumption == Nobody \notin Frames

(* result is value_ or exception_ of the promise, made what was put there  *)
(* (history), got what the last co_await of its Task gave to the frame.    *)
NoFrame == [state |-> "none", kind |-> "void", cont |-> Nobody, child |-> Nobody,
            result |-> "none", made |-> "none", got |-> "none"]

TaskInit ==
    /\ frames = [g \in Frames |-> NoFrame]
    /\ running = Nobody /\ handed = {} /\ main = "start" /\ task = Nobody /\ lost = {}

InUse == {g \in Frames : frames[g].state # "none"}

(* initial_suspend: the body has not begun.                                *)
Made(fs, g, kind) == [fs EXCEPT ![g] = [NoFrame EXCEPT !.state = "fresh", !.kind = kind]]

(* The destructor of a Task.                                               *)
Dropped(fs, g) == IF g = Nobody THEN fs ELSE [fs EXCEPT ![g] = NoFrame]

(* await_resume in f of a Task with the frame c.  A result is moved out of *)
(* the promise.  For Task<void> result() is not called.                    *)
Received(fs, f, c) ==
    [fs EXCEPT ![f].state = "running",
               ![f].got = IF fs[c].kind = "void" THEN "nothing" ELSE fs[c].result,
               ![c].result = IF fs[c].kind = "void" THEN @ ELSE "moved"]

(* What result() throws leaves a function that is noexcept.                *)
Throws(fs, c) == fs[c].kind = "value" /\ fs[c].result = "exception"

-----------------------------------------------------------------------------
(* main: IoContext::run(task).                                             *)
MainRun(g, kind) ==
    /\ main = "start" /\ g \notin InUse
    /\ frames' = Made(frames, g, kind)
    /\ main' = "run" /\ task' = g /\ handed' = {g}
    /\ UNCHANGED <<running, lost>>

(* The loop is empty: result() is returned or thrown.                      *)
MainGets ==
    /\ main = "run" /\ running = Nobody /\ handed = {}
    /\ main' = "over"
    /\ UNCHANGED <<frames, running, handed, task, lost>>

MainDrops ==
    /\ main = "over"
    /\ frames' = Dropped(frames, task)
    /\ main' = "start" /\ task' = Nobody
    /\ UNCHANGED <<running, handed, lost>>

LoopResumes(g) ==
    /\ main = "run" /\ running = Nobody /\ g \in handed
    /\ running' = g /\ handed' = handed \ {g}
    /\ frames' = [frames EXCEPT ![g].state = "running"]
    /\ UNCHANGED <<main, task, lost>>

-----------------------------------------------------------------------------
(* The coroutine f that runs.                                              *)
MakeTask(f, g, kind) ==
    /\ frames[f].child = Nobody /\ g \notin InUse
    /\ frames' = [Made(frames, g, kind) EXCEPT ![f].child = g, ![f].got = "none"]
    /\ UNCHANGED <<running, handed, main, task, lost>>

(* Move assignment: the frame that was owned is not destroyed.             *)
OverwriteTask(f, g, kind) ==
    /\ frames[f].child # Nobody /\ g \notin InUse
    /\ frames' = [Made(frames, g, kind) EXCEPT ![f].child = g, ![f].got = "none"]
    /\ lost' = lost \cup {frames[f].child}
    /\ UNCHANGED <<running, handed, main, task>>

DropTask(f) ==
    /\ frames[f].child # Nobody
    /\ frames' = [Dropped(frames, frames[f].child) EXCEPT ![f].child = Nobody, ![f].got = "none"]
    /\ UNCHANGED <<running, handed, main, task, lost>>

(* co_await of a Task that has not begun: it runs, f is its continuation.  *)
AwaitTask(f) ==
    LET c == frames[f].child
    IN  /\ c # Nobody /\ frames[c].state = "fresh"
        /\ frames' = [frames EXCEPT ![f].state = "waiting", ![c].cont = f, ![c].state = "running"]
        /\ running' = c
        /\ UNCHANGED <<handed, main, task, lost>>

(* co_await of a Task that is done is ready.                               *)
AwaitDone(f) ==
    LET c == frames[f].child
    IN  /\ c # Nobody /\ frames[c].state = "done"
        /\ frames' = Received(frames, f, c)
        /\ main' = IF Throws(frames, c) THEN "terminated" ELSE main
        /\ UNCHANGED <<running, handed, task, lost>>

(* co_await of a Sleep or an EventAwaiter.                                 *)
SuspendTask(f) ==
    /\ frames' = [frames EXCEPT ![f].state = "suspended"]
    /\ handed' = handed \cup {f} /\ running' = Nobody
    /\ UNCHANGED <<main, task, lost>>

(* The body of f ends with r: its locals are destroyed, r is kept in the   *)
(* promise.                                                                *)
Ended(f, r) ==
    [Dropped(frames, frames[f].child)
        EXCEPT ![f].state = "done", ![f].child = Nobody, ![f].result = r, ![f].made = r,
               ![f].got = "none"]

(* Mutated form: final_suspend goes back to the loop.                      *)
FinishTaskAlone(f, r) ==
    /\ frames' = Ended(f, r) /\ running' = Nobody
    /\ UNCHANGED <<handed, main, task, lost>>

(* final_suspend resumes the continuation, which takes the result.         *)
FinishTask(f, r) ==
    LET next == frames[f].cont
        ended == Ended(f, r)
    IN  /\ running' = next
        /\ frames' = IF next = Nobody THEN ended ELSE Received(ended, next, f)
        /\ main' = IF next # Nobody /\ Throws(ended, f) THEN "terminated" ELSE main
        /\ UNCHANGED <<handed, task, lost>>

Outcomes(f) == {"exception"} \cup IF frames[f].kind = "void" THEN {"nothing"} ELSE Results

TaskNext ==
    \/ \E g \in Frames, kind \in {"value", "void"} : MainRun(g, kind)
    \/ MainGets \/ MainDrops
    \/ \E g \in Frames : LoopResumes(g)
    \/ /\ running # Nobody /\ main = "run"
       /\ \/ \E g \in Frames, kind \in {"value", "void"} :
               MakeTask(running, g, kind) \/ OverwriteTask(running, g, kind)
          \/ DropTask(running) \/ AwaitTask(running) \/ AwaitDone(running)
          \/ SuspendTask(running)
          \/ \E r \in Outcomes(running) : FinishTask(running, r)

TaskSpec == TaskInit /\ [][TaskNext]_taskVars

-----------------------------------------------------------------------------
Owners(g) == {f \in Frames : frames[f].child = g} \cup (IF task = g THEN {Nobody} ELSE {})

(* A frame has one Task that will destroy it, except those whose Task was  *)
(* overwritten (Task.hpp line 33); no Task has a frame that is gone.       *)
FramesOwnedOnce ==
    \A g \in Frames :
        IF g \in InUse \ lost THEN \E o \in Frames \cup {Nobody} : Owners(g) = {o}
        ELSE Owners(g) = {}

(* A coroutine that waits is the continuation of the one it waits for,     *)
(* which is still to end; whoever is suspended otherwise is known to the   *)
(* loop, and nobody else is.                                               *)
WaitersAreCalled ==
    \A f \in Frames :
        /\ frames[f].state = "waiting" =>
             LET c == frames[f].child
             IN  c # Nobody /\ frames[c].cont = f
                 /\ frames[c].state \in {"running", "waiting", "suspended"}
        /\ frames[f].state = "running" <=> running = f
        /\ f \in handed <=> frames[f].state = "suspended" \/ (f = task /\ frames[f].state = "fresh")

(* The value of a child is received as it was returned, the first time;    *)
(* an exception is received by nobody.                                     *)
ResultsArrive ==
    \A f \in InUse :
        frames[f].got # "none" /\ main # "terminated" =>
            LET c == frames[f].child
            IN  frames[c].state = "done"
                /\ IF frames[c].kind = "void" THEN frames[c].made \in {"nothing", "exception"}
                   ELSE frames[f].got \in {frames[c].made, "moved"} /\ frames[c].made \in Results

(* When run() returns, the Task it was given has ended, with a result that *)
(* was not taken by anyone, and all that was awaited in it is destroyed.   *)
RunCompletesTask ==
    main = "over" =>
        /\ frames[task].state = "done" /\ frames[task].result = frames[task].made
        /\ InUse \subseteq {task} \cup lost

(* The frames of coroutines form a chain of calls: owned once, resumed in  *)
(* turn, with the result of the callee.  The exception of an awaited       *)
(* Task<void> is dropped and that of a Task with a value ends the process, *)
(* because await_resume is noexcept and does not call result() for void    *)
(* (Task.hpp line 47).                                                     *)
TasksReturnToCallers ==
    FramesOwnedOnce /\ WaitersAreCalled /\ ResultsArrive /\ RunCompletesTask
=============================================================================
