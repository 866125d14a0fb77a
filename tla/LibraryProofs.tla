--------------------------- MODULE LibraryProofs ----------------------------
(***************************************************************************)
(* Three parts of Library that no recursive operator reaches: tasks return *)
(* to their callers, for any number of frames and results, strings keep    *)
(* their texts, for any number of strings and any texts, and lines come    *)
(* back from their file, for all documents and every size of a block.      *)
(* The lists have DynListProofs.                                           *)
(***************************************************************************)
EXTENDS CoTask, StringStore, Lines, BufferProofs

(***************************************************************************)
(* TASKS.  The argument is a stack.  While run() is under way, the frames  *)
(* that are in the middle of their body form one chain of calls from the   *)
(* Task that run() was given to the frame that runs or is suspended; all   *)
(* other frames have not begun or have ended, and one of them at most is   *)
(* owned: by the frame at the end of the chain.                            *)
(***************************************************************************)
Kept == Results \cup {"none", "nothing", "exception", "moved"}

FrameType ==
    [state : {"none", "fresh", "running", "waiting", "suspended", "done"},
     kind : {"value", "void"}, cont : Frames \cup {Nobody}, child : Frames \cup {Nobody},
     result : Kept, made : Kept, got : Kept]

Types ==
    /\ frames \in [Frames -> FrameType]
    /\ running \in Frames \cup {Nobody}
    /\ handed \in SUBSET Frames
    /\ main \in {"start", "run", "over", "terminated"}
    /\ task \in Frames \cup {Nobody}
    /\ lost \in SUBSET InUse

(* What a frame that has ended keeps.  A value that was moved out is one   *)
(* that was returned, unless an exception has ended the process.           *)
ResultsKept ==
    \A g \in Frames : frames[g].state = "done" =>
        /\ frames[g].made \in Outcomes(g)
        /\ frames[g].result \in {frames[g].made, "moved"}
        /\ frames[g].kind = "value" /\ frames[g].result = "moved" /\ main # "terminated"
              => frames[g].made \in Results

(* A frame that is not in the middle of its body.                          *)
Resting(g) ==
    frames[g].state \in {"none", "fresh", "done"} /\ frames[g].child = Nobody
    /\ frames[g].got = "none"

(* Before and after run().                                                 *)
Idle ==
    /\ main = "start" /\ running = Nobody /\ handed = {} /\ task = Nobody
    /\ \A g \in Frames : Resting(g) /\ (g \in InUse => g \in lost)

Finished ==
    /\ main \in {"run", "over"} /\ running = Nobody /\ handed = {}
    /\ task \in Frames /\ task \notin lost
    /\ frames[task].state = "done" /\ frames[task].result = frames[task].made
    /\ \A g \in Frames : Resting(g) /\ (g \in InUse => g = task \/ g \in lost)

On(s, n) == {s[i] : i \in 1 .. n}

(* s[1] is the Task of main, s[i + 1] was called by s[i].                  *)
Stack(s, n) ==
    /\ n \in Nat \ {0} /\ s \in [1 .. n -> Frames]
    /\ s[1] = task /\ frames[task].cont = Nobody
    /\ \A i, j \in 1 .. n : s[i] = s[j] => i = j
    /\ \A i \in 1 .. n : s[i] \notin lost
    /\ \A i \in 1 .. n - 1 : /\ frames[s[i]].state = "waiting" /\ frames[s[i]].got = "none"
                             /\ frames[s[i]].child = s[i + 1] /\ frames[s[i + 1]].cont = s[i]

(* The frame at the end runs, or the loop has it.                          *)
Active(f) ==
    \/ running = f /\ handed = {} /\ frames[f].state = "running"
    \/ running = Nobody /\ handed = {f} /\ frames[f].state = "suspended"
    \/ running = Nobody /\ handed = {f} /\ frames[f].state = "fresh" /\ f = task
       /\ frames[f].child = Nobody

(* What it has received is from its child.                                 *)
GotFromChild(f) ==
    LET c == frames[f].child
    IN  frames[f].got # "none" /\ main # "terminated" =>
            /\ c # Nobody /\ frames[c].state = "done"
            /\ frames[c].kind = "value" =>
                  frames[f].got \in {frames[c].made, "moved"} /\ frames[c].made \in Results

Others(s, n) ==
    /\ \A g \in Frames \ On(s, n) :
          Resting(g) /\ (g \in InUse => g \in lost \/ g = frames[s[n]].child)
    /\ frames[s[n]].child # Nobody =>
          frames[s[n]].child \in InUse /\ frames[s[n]].child \notin lost \cup On(s, n)

Calling(s, n) ==
    /\ main \in {"run", "terminated"}
    /\ Stack(s, n) /\ Active(s[n]) /\ GotFromChild(s[n]) /\ Others(s, n)

IInv ==
    /\ Types /\ ResultsKept
    /\ Idle \/ Finished \/ \E n \in Nat : \E s \in [1 .. n -> Frames] : Calling(s, n)

-----------------------------------------------------------------------------
(* The invariant implies the property.                                     *)

LEMMA StackInUse ==
    ASSUME NEW n \in Nat, NEW s \in [1 .. n -> Frames], Types, Calling(s, n)
    PROVE  /\ n \in 1 .. n /\ s[n] \in Frames
           /\ \A i \in 1 .. n : s[i] \in InUse
           /\ \A i \in 1 .. n : i # n => frames[s[i]].state = "waiting"
           /\ frames[s[n]].state \in {"running", "suspended", "fresh"}
           /\ frames[s[n]].state = "fresh" => n = 1
<1>1. n \in Nat \ {0} /\ n \in 1 .. n
  BY DEF Calling, Stack
<1>2. \A i \in 1 .. n : i # n => i \in 1 .. n - 1
  BY <1>1
<1>3. \A i \in 1 .. n : i # n => frames[s[i]].state = "waiting"
  BY <1>2 DEF Calling, Stack
<1>4. frames[s[n]].state \in {"running", "suspended", "fresh"}
  BY DEF Calling, Active
<1>5. frames[s[n]].state = "fresh" => n = 1
  BY <1>1 DEF Calling, Active, Stack
<1>6. QED BY <1>1, <1>3, <1>4, <1>5 DEF InUse

LEMMA CallingOwned ==
    ASSUME NEW n \in Nat, NEW s \in [1 .. n -> Frames], Types, Calling(s, n)
    PROVE  FramesOwnedOnce
<1> USE FrameAssumption
<1>1. SUFFICES ASSUME NEW g \in Frames
               PROVE IF g \in InUse \ lost
                     THEN \E o \in Frames \cup {Nobody} : Owners(g) = {o} ELSE Owners(g) = {}
  BY DEF FramesOwnedOnce
<1>2. \A f \in Frames : f \notin On(s, n) => frames[f].child = Nobody
  BY DEF Calling, Others, Resting
<1>3. \A i \in 1 .. n : i # n => i \in 1 .. n - 1 /\ i + 1 \in 1 .. n /\ frames[s[i]].child = s[i + 1]
  BY DEF Calling, Stack
<1>4. s[1] = task /\ 1 \in 1 .. n /\ \A i, j \in 1 .. n : s[i] = s[j] => i = j
  BY StackInUse DEF Calling, Stack
<1>5. CASE g = task
  <2>1. ASSUME NEW f \in Frames, frames[f].child = g PROVE FALSE
    <3>1. PICK i \in 1 .. n : f = s[i]
      BY <1>2, <2>1 DEF On
    <3>2. i # n
      BY <1>4, <1>5, <2>1, <3>1 DEF Calling, Others, On
    <3>3. QED BY <1>3, <1>4, <1>5, <2>1, <3>1, <3>2
  <2>2. Owners(g) = {Nobody}
    BY <1>5, <2>1 DEF Owners
  <2>3. g \in InUse \ lost
    BY <1>4, <1>5, StackInUse DEF Calling, Stack
  <2>4. QED BY <2>2, <2>3
<1>6. CASE g \in On(s, n) /\ g # task
  <2>1. PICK i \in 1 .. n : g = s[i] /\ i # 1
    BY <1>4, <1>6 DEF On
  <2>2. i - 1 \in 1 .. n /\ i - 1 # n /\ frames[s[i - 1]].child = g
    BY <1>3, <2>1
  <2>3. ASSUME NEW f \in Frames, frames[f].child = g PROVE f = s[i - 1]
    <3>1. PICK j \in 1 .. n : f = s[j]
      BY <1>2, <2>3 DEF On
    <3>2. j # n
      BY <1>6, <2>3, <3>1 DEF Calling, Others
    <3>3. j + 1 = i
      BY <1>3, <1>4, <2>1, <2>3, <3>1, <3>2
    <3>4. QED BY <3>1, <3>3
  <2>4. Owners(g) = {s[i - 1]}
    BY <1>6, <2>2, <2>3 DEF Owners
  <2>5. g \in InUse \ lost
    BY <2>1, StackInUse DEF Calling, Stack
  <2>6. QED BY <2>2, <2>4, <2>5
<1>7. CASE g \notin On(s, n)
  <2>1. ASSUME NEW f \in Frames, frames[f].child = g PROVE f = s[n]
    <3>1. PICK j \in 1 .. n : f = s[j]
      BY <1>2, <2>1 DEF On
    <3>2. QED BY <1>3, <1>7, <2>1, <3>1 DEF On
  <2>2. g # task
    BY <1>4, <1>7 DEF On
  <2>3. frames[s[n]].child = g => g \in InUse \ lost
    BY DEF Calling, Others
  <2>4. g \in InUse \ lost => frames[s[n]].child = g
    BY <1>7 DEF Calling, Others
  <2>5. s[n] \in Frames
    BY StackInUse
  <2>6. QED BY <2>1, <2>2, <2>3, <2>4, <2>5 DEF Owners
<1>8. QED BY <1>5, <1>6, <1>7

LEMMA RestOwned ==
    ASSUME Types, Idle \/ Finished
    PROVE  FramesOwnedOnce
<1> USE FrameAssumption
<1>1. \A g \in Frames : {f \in Frames : frames[f].child = g} = {}
  BY DEF Idle, Finished, Resting
<1>2. \A g \in Frames : IF g \in InUse \ lost THEN Owners(g) = {Nobody} ELSE Owners(g) = {}
  BY <1>1 DEF Owners, Idle, Finished, InUse
<1>3. QED BY <1>2 DEF FramesOwnedOnce

LEMMA Consequence == IInv => TasksReturnToCallers
<1> USE FrameAssumption
<1> SUFFICES ASSUME IInv PROVE TasksReturnToCallers
  OBVIOUS
<1>0. Types /\ ResultsKept
  BY DEF IInv
<1>1. FramesOwnedOnce
  BY CallingOwned, RestOwned DEF IInv
<1>2. WaitersAreCalled
  <2>1. CASE Idle \/ Finished
    BY <2>1 DEF Idle, Finished, Resting, WaitersAreCalled
  <2>2. ASSUME NEW n \in Nat, NEW s \in [1 .. n -> Frames], Calling(s, n)
        PROVE  WaitersAreCalled
    <3>1. ASSUME NEW f \in Frames, f \notin On(s, n)
          PROVE  frames[f].state \in {"none", "fresh", "done"} /\ f # s[n] /\ f # task
      <4>1. n \in 1 .. n /\ 1 \in 1 .. n
        BY <1>0, <2>2, StackInUse
      <4>2. f # s[n] /\ f # task
        BY <2>2, <3>1, <4>1 DEF Calling, Stack, On
      <4>3. QED BY <2>2, <3>1, <4>2 DEF Calling, Others, Resting
    <3>2. ASSUME NEW i \in 1 .. n, i # n
          PROVE  /\ frames[s[i]].child = s[i + 1] /\ frames[s[i + 1]].cont = s[i]
                 /\ s[i + 1] \in Frames
                 /\ frames[s[i + 1]].state \in {"running", "waiting", "suspended"}
                 /\ s[i] # s[n] /\ frames[s[i]].state = "waiting"
      <4>1. i \in 1 .. n - 1 /\ i + 1 \in 1 .. n /\ n # 1 /\ n \in 1 .. n
        BY <3>2
      <4>2. s[i] # s[n] /\ s[i + 1] \in Frames /\ frames[s[i]].state = "waiting"
        BY <2>2, <3>2, <4>1 DEF Calling, Stack
      <4>3. frames[s[i]].child = s[i + 1] /\ frames[s[i + 1]].cont = s[i]
        BY <2>2, <4>1 DEF Calling, Stack
      <4>4. frames[s[i + 1]].state \in {"running", "waiting", "suspended"}
        BY <1>0, <2>2, <4>1, StackInUse
      <4>5. QED BY <4>2, <4>3, <4>4
    <3>3. SUFFICES ASSUME NEW f \in Frames
                   PROVE  /\ frames[f].state = "waiting" =>
                                /\ frames[f].child # Nobody
                                /\ frames[frames[f].child].cont = f
                                /\ frames[frames[f].child].state \in {"running", "waiting", "suspended"}
                          /\ frames[f].state = "running" <=> running = f
                          /\ f \in handed <=> frames[f].state = "suspended"
                                               \/ (f = task /\ frames[f].state = "fresh")
      BY DEF WaitersAreCalled
    <3>4. CASE f = s[n]
      BY <2>2, <3>4 DEF Calling, Active
    <3>5. CASE f # s[n] /\ f \in On(s, n)
      <4>1. PICK i \in 1 .. n : f = s[i] /\ i # n
        BY <3>5 DEF On
      <4>2. QED BY <2>2, <3>2, <3>5, <4>1 DEF Calling, Active
    <3>6. CASE f \notin On(s, n)
      BY <2>2, <3>1, <3>6 DEF Calling, Active
    <3>7. QED BY <3>4, <3>5, <3>6
  <2>3. QED BY <2>1, <2>2 DEF IInv
<1>3. ResultsArrive
  <2>1. CASE Idle \/ Finished
    BY <2>1 DEF Idle, Finished, Resting, ResultsArrive, InUse
  <2>2. ASSUME NEW n \in Nat, NEW s \in [1 .. n -> Frames], Calling(s, n)
        PROVE  ResultsArrive
    <3>1. \A f \in Frames : f # s[n] => frames[f].got = "none"
      <4>1. SUFFICES ASSUME NEW f \in Frames, f # s[n] PROVE frames[f].got = "none"
        OBVIOUS
      <4>2. CASE f \notin On(s, n)
        BY <2>2, <4>2 DEF Calling, Others, Resting
      <4>3. CASE f \in On(s, n)
        <5>1. PICK i \in 1 .. n : f = s[i] /\ i # n
          BY <4>1, <4>3 DEF On
        <5>2. i \in 1 .. n - 1
          BY <5>1
        <5>3. QED BY <2>2, <5>1, <5>2 DEF Calling, Stack
      <4>4. QED BY <4>2, <4>3
    <3>2. \A f \in InUse : f \in Frames
      BY DEF InUse
    <3>3. ASSUME frames[s[n]].got # "none", main # "terminated"
          PROVE  LET c == frames[s[n]].child
                 IN  /\ frames[c].state = "done"
                     /\ IF frames[c].kind = "void" THEN frames[c].made \in {"nothing", "exception"}
                        ELSE frames[s[n]].got \in {frames[c].made, "moved"} /\ frames[c].made \in Results
      <4> DEFINE c == frames[s[n]].child
      <4>1. c \in Frames /\ frames[c].state = "done"
        BY <1>0, <2>2, <3>3, StackInUse DEF Calling, GotFromChild, Types, FrameType
      <4>2. frames[c].kind \in {"value", "void"}
        BY <1>0, <4>1 DEF Types, FrameType
      <4>3. frames[c].made \in Outcomes(c)
        BY <1>0, <4>1 DEF ResultsKept
      <4>4. QED BY <2>2, <3>3, <4>1, <4>2, <4>3 DEF Calling, GotFromChild, Outcomes
    <3>4. QED BY <3>1, <3>2, <3>3 DEF ResultsArrive
  <2>3. QED BY <2>1, <2>2 DEF IInv
<1>4. RunCompletesTask
  BY DEF IInv, Idle, Finished, Calling, RunCompletesTask, InUse
<1>5. QED BY <1>1, <1>2, <1>3, <1>4 DEF TasksReturnToCallers
-----------------------------------------------------------------------------
(* Every step keeps the invariant.                                         *)

LEMMA SameStack ==
    ASSUME NEW n \in Nat, NEW s \in [1 .. n -> Frames], Stack(s, n), task' = task,
           \A i \in 1 .. n : i # n => frames'[s[i]] = frames[s[i]],
           frames'[s[n]].cont = frames[s[n]].cont,
           \A i \in 1 .. n : s[i] \notin lost'
    PROVE  Stack(s, n)'
<1>1. n \in Nat \ {0} /\ 1 \in 1 .. n /\ n \in 1 .. n
  BY DEF Stack
<1>2. \A i \in 1 .. n : frames'[s[i]].cont = frames[s[i]].cont
  OBVIOUS
<1>3. frames'[task].cont = Nobody
  BY <1>1, <1>2 DEF Stack
<1>4. ASSUME NEW i \in 1 .. n - 1
      PROVE  /\ frames'[s[i]].state = "waiting" /\ frames'[s[i]].got = "none"
             /\ frames'[s[i]].child = s[i + 1] /\ frames'[s[i + 1]].cont = s[i]
  <2>1. i \in 1 .. n /\ i # n /\ i + 1 \in 1 .. n
    BY <1>1
  <2>2. frames'[s[i]] = frames[s[i]] /\ frames'[s[i + 1]].cont = frames[s[i + 1]].cont
    BY <1>2, <2>1
  <2>3. QED BY <2>2 DEF Stack
<1>5. QED BY <1>1, <1>3, <1>4 DEF Stack

(* The frame that runs makes a new Task g, in place of the one that it     *)
(* had or of none.                                                         *)
LEMMA TaskMade ==
    ASSUME NEW n \in Nat, NEW s \in [1 .. n -> Frames], Types, ResultsKept,
           Calling(s, n), running = s[n], main = "run",
           NEW g \in Frames, NEW kind \in {"value", "void"},
           MakeTask(running, g, kind) \/ OverwriteTask(running, g, kind)
    PROVE  IInv'
<1> USE FrameAssumption
<1> DEFINE f == s[n]
<1>1. /\ n \in 1 .. n /\ f \in Frames /\ f # g /\ g \in Frames
      /\ frames[f].state = "running" /\ handed = {} /\ g \notin On(s, n) /\ g \notin lost
  <2>1. n \in 1 .. n /\ f \in Frames /\ f \in InUse /\ On(s, n) \subseteq InUse
    BY StackInUse DEF On
  <2>2. g \notin InUse
    BY DEF MakeTask, OverwriteTask
  <2>3. frames[f].state = "running" /\ handed = {}
    BY <2>1 DEF Calling, Active
  <2>4. QED BY <2>1, <2>2, <2>3 DEF Types
<1>2. /\ frames' = [frames EXCEPT ![g] = [NoFrame EXCEPT !.state = "fresh", !.kind = kind],
                                  ![f] = [frames[f] EXCEPT !.child = g, !.got = "none"]]
      /\ UNCHANGED <<running, handed, main, task>>
      /\ \/ lost' = lost
         \/ frames[f].child # Nobody /\ lost' = lost \cup {frames[f].child}
  BY <1>1 DEF MakeTask, OverwriteTask, Made, Types
<1>3. /\ frames'[g] = [NoFrame EXCEPT !.state = "fresh", !.kind = kind]
      /\ frames'[f] = [frames[f] EXCEPT !.child = g, !.got = "none"]
      /\ \A h \in Frames : h # f /\ h # g => frames'[h] = frames[h]
  BY <1>1, <1>2 DEF Types
<1>4. frames[f] \in FrameType /\ NoFrame \in FrameType
  BY <1>1 DEF Types, FrameType, NoFrame, Kept
<1>0. /\ frames'[f].state = "running" /\ frames'[f].child = g /\ frames'[f].got = "none"
      /\ frames'[f].cont = frames[f].cont
      /\ frames'[g].state = "fresh" /\ frames'[g].child = Nobody /\ frames'[g].got = "none"
  BY <1>1, <1>3, <1>4 DEF FrameType, NoFrame
<1>5. Types'
  <2>1. frames'[g] \in FrameType /\ frames'[f] \in FrameType
    <3>1. [NoFrame EXCEPT !.state = "fresh", !.kind = kind] \in FrameType
      BY <1>4 DEF FrameType
    <3>2. "none" \in Kept
      BY DEF Kept
    <3>3. [frames[f] EXCEPT !.child = g, !.got = "none"] \in FrameType
      BY <1>4, <3>2 DEF FrameType
    <3>4. QED BY <1>3, <3>1, <3>3
  <2>2. frames' \in [Frames -> FrameType]
    BY <1>1, <1>2, <1>3, <2>1 DEF Types
  <2>3. \A h \in InUse : h \in InUse'
    BY <1>0, <1>1, <1>3 DEF InUse
  <2>4. lost' \subseteq InUse
    BY <1>2 DEF Types, Calling, Others
  <2>5. QED BY <1>2, <2>2, <2>3, <2>4 DEF Types
<1>6. ResultsKept'
  <2>1. \A h \in Frames : frames'[h].state = "done" =>
           frames'[h] = frames[h] /\ frames[h].state = "done"
    BY <1>0, <1>1, <1>3
  <2>2. QED BY <1>2, <2>1 DEF ResultsKept, Outcomes
<1>7. \A i \in 1 .. n : s[i] \notin lost'
  BY <1>2 DEF Calling, Stack, Others, On
<1>8. \A i \in 1 .. n : s[i] # g
  BY <1>1 DEF On
<1>9. Stack(s, n)'
  <2>1. \A i \in 1 .. n : i # n => frames'[s[i]] = frames[s[i]]
    BY <1>1, <1>3, <1>8 DEF Calling, Stack
  <2>2. frames'[f].cont = frames[f].cont
    BY <1>0
  <2>3. QED BY <1>2, <1>7, <2>1, <2>2, SameStack DEF Calling
<1>10. Active(f)' /\ GotFromChild(f)'
  BY <1>0, <1>1, <1>2 DEF Active, GotFromChild
<1>11. Others(s, n)'
  <2>1. frames'[f].child = g /\ g \in InUse' /\ g \notin lost' \cup On(s, n)
    <3>1. g \in InUse'
      BY <1>0 DEF InUse
    <3>2. frames[f].child # g
      BY <1>1 DEF Calling, Others, MakeTask, OverwriteTask
    <3>3. QED BY <1>0, <1>1, <1>2, <3>1, <3>2
  <2>2. ASSUME NEW h \in Frames \ On(s, n)
        PROVE  Resting(h)' /\ (h \in InUse' => h \in lost' \/ h = frames'[f].child)
    <3>1. h # f
      BY <1>1, <2>2 DEF On
    <3>2. CASE h = g
      BY <1>0, <2>1, <3>2 DEF Resting
    <3>3. CASE h # g
      <4>1. frames'[h] = frames[h]
        BY <1>3, <3>1, <3>3
      <4>2. Resting(h) /\ (h \in InUse => h \in lost \/ h = frames[f].child)
        BY DEF Calling, Others
      <4>3. h = frames[f].child => h \in lost'
        BY <1>1, <3>1 DEF MakeTask, OverwriteTask
      <4>4. QED BY <1>2, <4>1, <4>2, <4>3 DEF Resting, InUse
    <3>4. QED BY <3>2, <3>3
  <2>3. QED BY <2>1, <2>2 DEF Others, On
<1>12. Calling(s, n)'
  BY <1>2, <1>9, <1>10, <1>11 DEF Calling
<1>13. QED BY <1>5, <1>6, <1>12 DEF IInv
(* What is known of the frame that runs.                                   *)
LEMMA RunningFrame ==
    ASSUME NEW n \in Nat, NEW s \in [1 .. n -> Frames], Types, Calling(s, n),
           running = s[n]
    PROVE  /\ n \in 1 .. n /\ s[n] \in Frames /\ s[n] # Nobody
           /\ frames[s[n]].state = "running" /\ handed = {} /\ frames[s[n]] \in FrameType
           /\ s[n] \notin lost
           /\ \A i \in 1 .. n : i # n => s[i] # s[n]
           /\ NoFrame \in FrameType
<1>1. n \in 1 .. n /\ s[n] \in Frames
  BY StackInUse
<1>2. frames[s[n]].state = "running" /\ handed = {} /\ frames[s[n]] \in FrameType
  BY <1>1, FrameAssumption DEF Calling, Active, Types
<1>3. s[n] # Nobody
  BY <1>1, FrameAssumption
<1>4. s[n] \notin lost /\ \A i \in 1 .. n : i # n => s[i] # s[n]
  BY <1>1 DEF Calling, Stack
<1>5. QED BY <1>1, <1>2, <1>3, <1>4 DEF NoFrame, FrameType, Kept

(* And of its child.                                                       *)
LEMMA ChildFrame ==
    ASSUME NEW n \in Nat, NEW s \in [1 .. n -> Frames], Types, Calling(s, n),
           frames[s[n]].child # Nobody, s[n] \in Frames
    PROVE  LET c == frames[s[n]].child
           IN  /\ c \in Frames /\ c \in InUse /\ c \notin lost /\ c \notin On(s, n) /\ c # s[n]
               /\ \A i \in 1 .. n : s[i] # c
               /\ frames[c] \in FrameType
               /\ Resting(c)
<1> DEFINE c == frames[s[n]].child
<1>1. n \in 1 .. n
  BY StackInUse
<1>2. c \in InUse /\ c \notin lost /\ c \notin On(s, n)
  BY DEF Calling, Others
<1>3. c \in Frames
  BY <1>2 DEF InUse
<1>4. Resting(c)
  BY <1>2, <1>3 DEF Calling, Others
<1>5. frames[c] \in FrameType
  BY <1>3 DEF Types
<1>6. QED BY <1>1, <1>2, <1>3, <1>4, <1>5 DEF On

LEMMA TaskDropped ==
    ASSUME NEW n \in Nat, NEW s \in [1 .. n -> Frames], Types, ResultsKept,
           Calling(s, n), running = s[n], main = "run", DropTask(running)
    PROVE  IInv'
<1> USE FrameAssumption
<1> DEFINE f == s[n]
           c == frames[f].child
<1>1. /\ f \in Frames /\ c \in Frames /\ c # f /\ c \notin lost /\ c \notin On(s, n)
      /\ frames[f].state = "running" /\ handed = {} /\ frames[f] \in FrameType
      /\ NoFrame \in FrameType /\ \A i \in 1 .. n : s[i] # c
  BY RunningFrame, ChildFrame DEF DropTask
<1>2. /\ frames' = [frames EXCEPT ![c] = NoFrame,
                                  ![f] = [frames[f] EXCEPT !.child = Nobody, !.got = "none"]]
      /\ UNCHANGED <<running, handed, main, task, lost>>
  BY <1>1 DEF DropTask, Dropped, Types
<1>3. /\ frames'[c] = NoFrame
      /\ frames'[f] = [frames[f] EXCEPT !.child = Nobody, !.got = "none"]
      /\ \A h \in Frames : h # f /\ h # c => frames'[h] = frames[h]
  BY <1>1, <1>2 DEF Types
<1>4. /\ frames'[f].state = "running" /\ frames'[f].child = Nobody /\ frames'[f].got = "none"
      /\ frames'[f].cont = frames[f].cont
      /\ frames'[c].state = "none" /\ frames'[c].child = Nobody /\ frames'[c].got = "none"
  BY <1>1, <1>3 DEF FrameType, NoFrame
<1>5. Types'
  <2>1. "none" \in Kept
    BY DEF Kept
  <2>2. [frames[f] EXCEPT !.child = Nobody, !.got = "none"] \in FrameType
    BY <1>1, <2>1 DEF FrameType
  <2>3. frames' \in [Frames -> FrameType]
    BY <1>1, <1>2, <2>2 DEF Types
  <2>4. \A h \in InUse : h # c => h \in InUse'
    BY <1>1, <1>3, <1>4 DEF InUse
  <2>5. QED BY <1>1, <1>2, <2>3, <2>4 DEF Types
<1>6. ResultsKept'
  <2>1. \A h \in Frames : frames'[h].state = "done" =>
           frames'[h] = frames[h] /\ frames[h].state = "done"
    BY <1>3, <1>4
  <2>2. QED BY <1>2, <2>1 DEF ResultsKept, Outcomes
<1>7. Stack(s, n)'
  <2>1. \A i \in 1 .. n : i # n => frames'[s[i]] = frames[s[i]]
    BY <1>1, <1>3, RunningFrame
  <2>2. \A i \in 1 .. n : s[i] \notin lost'
    BY <1>2 DEF Calling, Stack
  <2>3. QED BY <1>2, <1>4, <2>1, <2>2, SameStack DEF Calling
<1>8. Active(f)' /\ GotFromChild(f)'
  BY <1>1, <1>2, <1>4 DEF Active, GotFromChild
<1>9. Others(s, n)'
  <2>1. ASSUME NEW h \in Frames \ On(s, n)
        PROVE  Resting(h)' /\ (h \in InUse' => h \in lost')
    <3>1. h # f
      BY <2>1, RunningFrame DEF On
    <3>2. CASE h = c
      BY <1>4, <3>2 DEF Resting, InUse
    <3>3. CASE h # c
      <4>1. frames'[h] = frames[h]
        BY <1>3, <3>1, <3>3
      <4>2. Resting(h) /\ (h \in InUse => h \in lost)
        BY <3>3 DEF Calling, Others
      <4>3. QED BY <1>2, <4>1, <4>2 DEF Resting, InUse
    <3>4. QED BY <3>2, <3>3
  <2>2. QED BY <1>4, <2>1 DEF Others, On
<1>10. Calling(s, n)'
  BY <1>2, <1>7, <1>8, <1>9 DEF Calling
<1>11. QED BY <1>5, <1>6, <1>10 DEF IInv

(* The frame at the end of the stack is suspended, or resumed.             *)
LEMMA TaskSwitched ==
    ASSUME NEW n \in Nat, NEW s \in [1 .. n -> Frames], Types, ResultsKept,
           Calling(s, n), main = "run",
           \/ running = s[n] /\ SuspendTask(running)
           \/ \E g \in Frames : LoopResumes(g)
    PROVE  IInv'
<1> USE FrameAssumption
<1> DEFINE f == s[n]
<1>1. n \in 1 .. n /\ f \in Frames /\ frames[f] \in FrameType
      /\ frames[f].state \in {"running", "suspended", "fresh"}
  BY StackInUse DEF Types
<1>2. PICK state \in {"running", "suspended"} :
        /\ frames' = [frames EXCEPT ![f] = [frames[f] EXCEPT !.state = state]]
        /\ UNCHANGED <<main, task, lost>>
        /\ \/ state = "running" /\ running' = f /\ handed' = {}
           \/ state = "suspended" /\ running' = Nobody /\ handed' = {f}
  <2>1. CASE running = f /\ SuspendTask(running)
    BY <1>1, <2>1, RunningFrame DEF SuspendTask, Types
  <2>2. CASE \E g \in Frames : LoopResumes(g)
    <3>1. PICK g \in Frames : LoopResumes(g)
      BY <2>2
    <3>2. g = f /\ handed = {f}
      BY <1>1, <3>1 DEF LoopResumes, Calling, Active
    <3>3. QED BY <1>1, <3>1, <3>2 DEF LoopResumes, Types
  <2>3. QED BY <2>1, <2>2
<1>3. frames'[f] = [frames[f] EXCEPT !.state = state]
      /\ \A h \in Frames : h # f => frames'[h] = frames[h]
  BY <1>1, <1>2 DEF Types
<1>4. /\ frames'[f].state = state /\ frames'[f].child = frames[f].child
      /\ frames'[f].got = frames[f].got /\ frames'[f].cont = frames[f].cont
  BY <1>1, <1>3 DEF FrameType
<1>5. Types'
  <2>1. [frames[f] EXCEPT !.state = state] \in FrameType
    BY <1>1 DEF FrameType
  <2>2. frames' \in [Frames -> FrameType]
    BY <1>1, <1>2, <2>1 DEF Types
  <2>3. InUse' = InUse
    BY <1>1, <1>3, <1>4 DEF InUse
  <2>4. QED BY <1>1, <1>2, <2>2, <2>3 DEF Types
<1>6. ResultsKept'
  <2>1. \A h \in Frames : frames'[h].state = "done" =>
           frames'[h] = frames[h] /\ frames[h].state = "done"
    BY <1>3, <1>4
  <2>2. QED BY <1>2, <2>1 DEF ResultsKept, Outcomes
<1>7. Stack(s, n)'
  <2>1. \A i \in 1 .. n : i # n => frames'[s[i]] = frames[s[i]]
    BY <1>1, <1>3 DEF Calling, Stack
  <2>2. \A i \in 1 .. n : s[i] \notin lost'
    BY <1>2 DEF Calling, Stack
  <2>3. QED BY <1>2, <1>4, <2>1, <2>2, SameStack DEF Calling
<1>8. frames[f].child # Nobody => frames[f].child # f /\ frames[f].child \in Frames
  BY <1>1, ChildFrame
<1>9. Active(f)' /\ GotFromChild(f)'
  <2>1. Active(f)'
    BY <1>2, <1>4 DEF Active
  <2>2. frames[f].child # Nobody => frames'[frames[f].child] = frames[frames[f].child]
    BY <1>3, <1>8
  <2>3. QED BY <1>2, <1>4, <2>1, <2>2 DEF GotFromChild, Calling
<1>10. Others(s, n)'
  <2>1. InUse' = InUse
    BY <1>1, <1>3, <1>4 DEF InUse
  <2>2. \A h \in Frames \ On(s, n) : frames'[h] = frames[h]
    BY <1>1, <1>3 DEF On
  <2>3. ASSUME NEW h \in Frames \ On(s, n)
        PROVE  Resting(h)' /\ (h \in InUse' => h \in lost' \/ h = frames'[f].child)
    BY <1>2, <1>4, <2>1, <2>2 DEF Others, Calling, Resting
  <2>4. frames[f].child # Nobody =>
          frames[f].child \in InUse /\ frames[f].child \notin lost \cup On(s, n)
    BY DEF Calling, Others
  <2>5. QED BY <1>2, <1>4, <2>1, <2>3, <2>4 DEF Others, On
<1>11. Calling(s, n)'
  BY <1>2, <1>7, <1>9, <1>10 DEF Calling
<1>12. QED BY <1>5, <1>6, <1>11 DEF IInv
(* The frame that runs awaits a Task that has not begun: the stack grows.  *)
LEMMA TaskCalled ==
    ASSUME NEW n \in Nat, NEW s \in [1 .. n -> Frames], Types, ResultsKept,
           Calling(s, n), running = s[n], main = "run", AwaitTask(running)
    PROVE  IInv'
<1> USE FrameAssumption
<1> DEFINE f == s[n]
           c == frames[f].child
<1>1. /\ f \in Frames /\ c \in Frames /\ c # f /\ c \notin lost /\ c \notin On(s, n)
      /\ frames[f].state = "running" /\ handed = {} /\ frames[f] \in FrameType
      /\ frames[c] \in FrameType /\ \A i \in 1 .. n : s[i] # c
      /\ frames[c].state = "fresh" /\ Resting(c) /\ n \in 1 .. n
  BY RunningFrame, ChildFrame DEF AwaitTask
<1>2. /\ frames' = [frames EXCEPT ![f] = [frames[f] EXCEPT !.state = "waiting"],
                                  ![c] = [frames[c] EXCEPT !.cont = f, !.state = "running"]]
      /\ running' = c /\ UNCHANGED <<handed, main, task, lost>>
  BY <1>1 DEF AwaitTask, Types
<1>3. /\ frames'[f] = [frames[f] EXCEPT !.state = "waiting"]
      /\ frames'[c] = [frames[c] EXCEPT !.cont = f, !.state = "running"]
      /\ \A h \in Frames : h # f /\ h # c => frames'[h] = frames[h]
  BY <1>1, <1>2 DEF Types
<1>4. frames[f].got = "none"
  BY <1>1 DEF Calling, GotFromChild
<1>5. /\ frames'[f].state = "waiting" /\ frames'[f].child = c /\ frames'[f].got = "none"
      /\ frames'[f].cont = frames[f].cont
      /\ frames'[c].state = "running" /\ frames'[c].child = Nobody /\ frames'[c].got = "none"
      /\ frames'[c].cont = f
  BY <1>1, <1>3, <1>4 DEF FrameType, Resting
<1>6. Types'
  <2>1. [frames[f] EXCEPT !.state = "waiting"] \in FrameType
    BY <1>1 DEF FrameType
  <2>2. [frames[c] EXCEPT !.cont = f, !.state = "running"] \in FrameType
    BY <1>1 DEF FrameType
  <2>3. frames' \in [Frames -> FrameType]
    BY <1>1, <1>2, <2>1, <2>2 DEF Types
  <2>4. InUse' = InUse
    BY <1>1, <1>3, <1>5 DEF InUse
  <2>5. QED BY <1>1, <1>2, <2>3, <2>4 DEF Types
<1>7. ResultsKept'
  <2>1. \A h \in Frames : frames'[h].state = "done" =>
           frames'[h] = frames[h] /\ frames[h].state = "done"
    BY <1>3, <1>5
  <2>2. QED BY <1>2, <2>1 DEF ResultsKept, Outcomes
<1>8. PICK t \in [1 .. n + 1 -> Frames] :
        /\ n + 1 \in Nat \ {0} /\ t[n + 1] = c
        /\ \A i \in 1 .. n : t[i] = s[i]
        /\ \A i \in 1 .. n + 1 : i = n + 1 \/ i \in 1 .. n
  <2> DEFINE u == [i \in 1 .. n + 1 |-> IF i = n + 1 THEN c ELSE s[i]]
  <2>1. u \in [1 .. n + 1 -> Frames] /\ u[n + 1] = c /\ \A i \in 1 .. n : u[i] = s[i]
    BY <1>1
  <2>2. QED BY <1>1, <2>1
<1>9. Stack(t, n + 1)'
  <2>1. t[1] = task' /\ frames'[task].cont = Nobody
    <3>1. 1 \in 1 .. n /\ task = s[1] /\ frames[task].cont = Nobody /\ task \in Frames
      BY <1>1 DEF Calling, Stack
    <3>2. task # c
      BY <1>1, <3>1
    <3>3. frames'[task].cont = Nobody
      BY <1>3, <1>5, <3>1, <3>2
    <3>4. t[1] = s[1] /\ task' = task
      BY <1>2, <1>8, <3>1
    <3>5. QED BY <3>1, <3>3, <3>4
  <2>2. \A i, j \in 1 .. n + 1 : t[i] = t[j] => i = j
    <3>1. \A i, j \in 1 .. n : s[i] = s[j] => i = j
      BY DEF Calling, Stack
    <3>2. QED BY <1>1, <1>8, <3>1
  <2>3. \A i \in 1 .. n + 1 : t[i] \notin lost'
    BY <1>1, <1>2, <1>8 DEF Calling, Stack
  <2>4. ASSUME NEW i \in 1 .. (n + 1) - 1
        PROVE  /\ frames'[t[i]].state = "waiting" /\ frames'[t[i]].got = "none"
               /\ frames'[t[i]].child = t[i + 1] /\ frames'[t[i + 1]].cont = t[i]
    <3>0. i \in 1 .. n
      OBVIOUS
    <3>1. CASE i = n
      BY <1>1, <1>5, <1>8, <3>1
    <3>2. CASE i # n
      <4>1. i \in 1 .. n - 1 /\ i + 1 \in 1 .. n
        BY <3>0, <3>2
      <4>2. s[i] # f /\ s[i] # c /\ s[i + 1] # c /\ s[i] \in Frames /\ s[i + 1] \in Frames
        BY <1>1, <3>0, <3>2, <4>1 DEF Calling, Stack
      <4>3. frames'[s[i]] = frames[s[i]] /\ frames'[s[i + 1]].cont = frames[s[i + 1]].cont
        BY <1>3, <1>5, <4>2
      <4>4. QED BY <1>8, <3>0, <4>1, <4>3 DEF Calling, Stack
    <3>3. QED BY <3>1, <3>2
  <2>5. QED BY <1>2, <1>8, <2>1, <2>2, <2>3, <2>4 DEF Stack
<1>10. Active(t[n + 1])' /\ GotFromChild(t[n + 1])'
  BY <1>1, <1>2, <1>5, <1>8 DEF Active, GotFromChild
<1>11. Others(t, n + 1)'
  <2>1. ASSUME NEW h \in Frames \ On(t, n + 1)
        PROVE  Resting(h)' /\ (h \in InUse' => h \in lost')
    <3>1. h # c /\ h \notin On(s, n) /\ h # f
      BY <1>1, <1>8, <2>1 DEF On
    <3>2. frames'[h] = frames[h]
      BY <1>3, <3>1
    <3>3. Resting(h) /\ (h \in InUse => h \in lost)
      BY <3>1 DEF Calling, Others
    <3>4. QED BY <1>2, <3>2, <3>3 DEF Resting, InUse
  <2>2. QED BY <1>5, <1>8, <2>1 DEF Others, On
<1>12. Calling(t, n + 1)'
  BY <1>2, <1>9, <1>10, <1>11 DEF Calling
<1>13. \E m \in Nat : \E u \in [1 .. m -> Frames] : Calling(u, m)'
  BY <1>8, <1>12
<1>14. QED BY <1>6, <1>7, <1>13 DEF IInv

(* The frame that runs awaits a Task that has ended.                       *)
LEMMA TaskReceived ==
    ASSUME NEW n \in Nat, NEW s \in [1 .. n -> Frames], Types, ResultsKept,
           Calling(s, n), running = s[n], main = "run", AwaitDone(running)
    PROVE  IInv'
<1> USE FrameAssumption
<1> DEFINE f == s[n]
           c == frames[f].child
           gets == IF frames[c].kind = "void" THEN "nothing" ELSE frames[c].result
           left == IF frames[c].kind = "void" THEN frames[c].result ELSE "moved"
<1>1. /\ f \in Frames /\ c \in Frames /\ c # f /\ c \notin lost /\ c \notin On(s, n)
      /\ frames[f].state = "running" /\ handed = {} /\ frames[f] \in FrameType
      /\ frames[c] \in FrameType /\ \A i \in 1 .. n : s[i] # c
      /\ frames[c].state = "done" /\ Resting(c) /\ n \in 1 .. n
  BY RunningFrame, ChildFrame DEF AwaitDone
<1>2. /\ frames' = [frames EXCEPT ![f] = [frames[f] EXCEPT !.state = "running", !.got = gets],
                                  ![c] = [frames[c] EXCEPT !.result = left]]
      /\ UNCHANGED <<running, handed, task, lost>>
      /\ main' = IF Throws(frames, c) THEN "terminated" ELSE main
  BY <1>1 DEF AwaitDone, Received, Types
<1>3. /\ frames'[f] = [frames[f] EXCEPT !.state = "running", !.got = gets]
      /\ frames'[c] = [frames[c] EXCEPT !.result = left]
      /\ \A h \in Frames : h # f /\ h # c => frames'[h] = frames[h]
  BY <1>1, <1>2 DEF Types
<1>4. /\ frames'[f].state = "running" /\ frames'[f].child = c /\ frames'[f].got = gets
      /\ frames'[f].cont = frames[f].cont
      /\ frames'[c].state = "done" /\ frames'[c].child = Nobody /\ frames'[c].got = "none"
      /\ frames'[c].kind = frames[c].kind /\ frames'[c].made = frames[c].made
      /\ frames'[c].result = left
  BY <1>1, <1>3 DEF FrameType, Resting
<1>5. Types'
  <2>1. gets \in Kept /\ left \in Kept
    BY <1>1 DEF FrameType, Kept
  <2>2. [frames[f] EXCEPT !.state = "running", !.got = gets] \in FrameType
    BY <1>1, <2>1 DEF FrameType
  <2>3. [frames[c] EXCEPT !.result = left] \in FrameType
    BY <1>1, <2>1 DEF FrameType
  <2>4. frames' \in [Frames -> FrameType]
    BY <1>1, <1>2, <2>2, <2>3 DEF Types
  <2>5. InUse' = InUse
    BY <1>1, <1>3, <1>4 DEF InUse
  <2>6. QED BY <1>1, <1>2, <2>4, <2>5 DEF Types
<1>6. /\ frames[c].made \in Outcomes(c) /\ frames[c].result \in {frames[c].made, "moved"}
      /\ frames[c].kind = "value" /\ frames[c].result = "moved" => frames[c].made \in Results
  BY <1>1 DEF ResultsKept
<1>7. frames[c].kind = "value" /\ main' # "terminated" =>
        /\ gets \in {frames[c].made, "moved"} /\ frames[c].made \in Results
  BY <1>2, <1>6 DEF Throws, Outcomes
<1>8. ResultsKept'
  <2>1. ASSUME NEW h \in Frames, frames'[h].state = "done", h # c
        PROVE  frames'[h] = frames[h] /\ frames[h].state = "done"
    BY <1>3, <1>4, <2>1
  <2>2. main' # "terminated" => main # "terminated"
    BY <1>2
  <2>3. frames'[c].made \in Outcomes(c)' /\ frames'[c].result \in {frames'[c].made, "moved"}
    BY <1>4, <1>6 DEF Outcomes
  <2>4. ASSUME NEW h \in Frames, frames'[h].state = "done"
        PROVE  /\ frames'[h].made \in Outcomes(h)'
               /\ frames'[h].result \in {frames'[h].made, "moved"}
               /\ frames'[h].kind = "value" /\ frames'[h].result = "moved"
                     /\ main' # "terminated" => frames'[h].made \in Results
    <3>1. CASE h = c
      BY <1>4, <1>7, <2>3, <3>1
    <3>2. CASE h # c
      BY <2>1, <2>2, <2>4, <3>2 DEF ResultsKept, Outcomes
    <3>3. QED BY <3>1, <3>2
  <2>5. QED BY <2>4 DEF ResultsKept
<1>9. Stack(s, n)'
  <2>1. \A i \in 1 .. n : i # n => frames'[s[i]] = frames[s[i]]
    BY <1>1, <1>3, RunningFrame
  <2>2. \A i \in 1 .. n : s[i] \notin lost'
    BY <1>2 DEF Calling, Stack
  <2>3. QED BY <1>2, <1>4, <2>1, <2>2, SameStack DEF Calling
<1>10. Active(f)' /\ GotFromChild(f)'
  <2>1. c # Nobody
    BY <1>1
  <2>2. QED BY <1>1, <1>2, <1>4, <1>7, <2>1 DEF Active, GotFromChild
<1>11. Others(s, n)'
  <2>1. InUse' = InUse
    BY <1>1, <1>3, <1>4 DEF InUse
  <2>2. ASSUME NEW h \in Frames \ On(s, n)
        PROVE  Resting(h)' /\ (h \in InUse' => h \in lost' \/ h = frames'[f].child)
    <3>1. h # f
      BY <1>1, <2>2 DEF On
    <3>2. Resting(h) /\ (h \in InUse => h \in lost \/ h = c)
      BY DEF Calling, Others
    <3>3. Resting(h)'
      <4>1. CASE h = c
        BY <1>4, <4>1 DEF Resting
      <4>2. CASE h # c
        BY <1>3, <3>1, <3>2, <4>2 DEF Resting
      <4>3. QED BY <4>1, <4>2
    <3>4. QED BY <1>2, <1>4, <2>1, <3>2, <3>3
  <2>3. frames'[f].child \in InUse' /\ frames'[f].child \notin lost' \cup On(s, n)
    <3>1. c \in InUse'
      BY <1>1, <1>4 DEF InUse
    <3>2. frames'[f].child = c
      BY <1>4
    <3>3. c \notin lost' \cup On(s, n)
      BY <1>1, <1>2
    <3>4. QED BY <3>1, <3>2, <3>3
  <2>4. QED BY <2>2, <2>3 DEF Others, On
<1>12. main' \in {"run", "terminated"}
  BY <1>2
<1>13. Calling(s, n)'
  BY <1>9, <1>10, <1>11, <1>12 DEF Calling
<1>14. QED BY <1>5, <1>8, <1>13 DEF IInv
(* The frame that runs ends, and its Task is destroyed.                    *)
LEMMA FrameEnded ==
    ASSUME NEW n \in Nat, NEW s \in [1 .. n -> Frames], Types, Calling(s, n),
           running = s[n], NEW r \in Outcomes(s[n])
    PROVE  LET f == s[n]
               c == frames[f].child
               e == Ended(f, r)
           IN  /\ e \in [Frames -> FrameType]
               /\ e[f].state = "done" /\ e[f].child = Nobody /\ e[f].result = r
               /\ e[f].made = r /\ e[f].got = "none" /\ e[f].kind = frames[f].kind
               /\ e[f].cont = frames[f].cont
               /\ c # Nobody => e[c] = NoFrame
               /\ \A h \in Frames : h # f /\ h # c => e[h] = frames[h]
<1> USE FrameAssumption
<1> DEFINE f == s[n]
           c == frames[f].child
           e == Ended(f, r)
           d == Dropped(frames, c)
           last == [d[f] EXCEPT !.state = "done", !.child = Nobody, !.result = r, !.made = r,
                                !.got = "none"]
<1>1. /\ f \in Frames /\ frames[f] \in FrameType /\ NoFrame \in FrameType
      /\ c # Nobody => c \in Frames /\ c # f
  BY RunningFrame, ChildFrame
<1>2. /\ d \in [Frames -> FrameType] /\ d[f] = frames[f]
      /\ c # Nobody => d[c] = NoFrame
      /\ \A h \in Frames : h # c => d[h] = frames[h]
  BY <1>1 DEF Dropped, Types
<1>3. r \in Kept /\ "none" \in Kept
  BY DEF Outcomes, Kept
<1>4. e = [d EXCEPT ![f] = last]
  BY <1>1, <1>2 DEF Ended
<1>5. d[f] \in FrameType
  BY <1>1, <1>2
<1>6. last \in FrameType
  <2> HIDE DEF d
  <2>1. QED BY <1>3, <1>5 DEF FrameType
<1>7. /\ last.state = "done" /\ last.child = Nobody /\ last.result = r /\ last.made = r
      /\ last.got = "none" /\ last.kind = frames[f].kind /\ last.cont = frames[f].cont
  <2>1. last.kind = d[f].kind /\ last.cont = d[f].cont
    <3> HIDE DEF d
    <3>1. QED BY <1>5 DEF FrameType
  <2>2. /\ last.state = "done" /\ last.child = Nobody /\ last.result = r /\ last.made = r
        /\ last.got = "none"
    <3> HIDE DEF d
    <3>1. QED BY <1>5 DEF FrameType
  <2>3. QED BY <1>2, <2>1, <2>2
<1> HIDE DEF d, last
<1>8. e \in [Frames -> FrameType] /\ e[f] = last /\ \A h \in Frames : h # f => e[h] = d[h]
  BY <1>1, <1>2, <1>4, <1>6
<1> HIDE DEF e
<1>9. c # Nobody => e[c] = NoFrame
  BY <1>1, <1>2, <1>8
<1>10. \A h \in Frames : h # f /\ h # c => e[h] = frames[h]
  BY <1>2, <1>8
<1>11. QED BY <1>7, <1>8, <1>9, <1>10 DEF e

(* The Task of main ends.                                                  *)
LEMMA FirstFinished ==
    ASSUME NEW n \in Nat, NEW s \in [1 .. n -> Frames], Types, ResultsKept,
           Calling(s, n), running = s[n], main = "run",
           s[n] = task, On(s, n) = {task},
           NEW r \in Outcomes(s[n]), FinishTask(running, r)
    PROVE  IInv'
<1> USE FrameAssumption
<1> DEFINE f == s[n]
           c == frames[f].child
           e == Ended(f, r)
<1>1. /\ f \in Frames /\ f = task /\ frames[f].cont = Nobody /\ f \notin lost /\ handed = {}
      /\ c # Nobody => c \in Frames /\ c # f /\ c \notin lost
  BY RunningFrame, ChildFrame DEF Calling, Stack
<1>2. /\ e \in [Frames -> FrameType]
      /\ e[f].state = "done" /\ e[f].child = Nobody /\ e[f].result = r
      /\ e[f].made = r /\ e[f].got = "none" /\ e[f].kind = frames[f].kind
      /\ c # Nobody => e[c] = NoFrame
      /\ \A h \in Frames : h # f /\ h # c => e[h] = frames[h]
  BY FrameEnded
<1> HIDE DEF e
<1>3. frames' = e /\ running' = Nobody /\ main' = "run" /\ UNCHANGED <<handed, task, lost>>
  BY <1>1 DEF FinishTask, e
<1>4. InUse' \subseteq InUse \ {c} /\ lost \subseteq InUse'
  <2>1. \A h \in Frames : h # c => (h \in InUse' <=> h \in InUse)
    BY <1>1, <1>2, <1>3, RunningFrame DEF InUse
  <2>2. c \notin InUse'
    BY <1>1, <1>2, <1>3 DEF InUse, NoFrame
  <2>3. QED BY <1>1, <2>1, <2>2 DEF Types, InUse
<1>5. Types'
  BY <1>2, <1>3, <1>4 DEF Types
<1>6. ResultsKept'
  <2>1. r \in Outcomes(f)'
    BY <1>2, <1>3 DEF Outcomes
  <2>2. ASSUME NEW h \in Frames, frames'[h].state = "done", h # f
        PROVE  frames'[h] = frames[h]
    BY <1>1, <1>2, <1>3, <2>2 DEF NoFrame
  <2>3. ASSUME NEW h \in Frames, frames'[h].state = "done"
        PROVE  /\ frames'[h].made \in Outcomes(h)'
               /\ frames'[h].result \in {frames'[h].made, "moved"}
               /\ frames'[h].kind = "value" /\ frames'[h].result = "moved"
                     /\ main' # "terminated" => frames'[h].made \in Results
    <3>1. CASE h = f
      BY <1>2, <1>3, <2>1, <3>1 DEF Outcomes
    <3>2. CASE h # f
      BY <1>3, <2>2, <2>3, <3>2 DEF ResultsKept, Outcomes
    <3>3. QED BY <3>1, <3>2
  <2>4. QED BY <2>3 DEF ResultsKept
<1>7. Finished'
  <2>1. ASSUME NEW h \in Frames
        PROVE  Resting(h)' /\ (h \in InUse' => h = task' \/ h \in lost')
    <3>1. CASE h = f
      BY <1>1, <1>2, <1>3, <3>1 DEF Resting
    <3>2. CASE h = c
      BY <1>1, <1>2, <1>3, <1>4, <3>2 DEF Resting, NoFrame
    <3>3. CASE h # f /\ h # c
      <4>1. h \notin On(s, n)
        BY <3>3
      <4>2. Resting(h) /\ (h \in InUse => h \in lost)
        BY <3>3, <4>1 DEF Calling, Others
      <4>3. QED BY <1>2, <1>3, <3>3, <4>2 DEF Resting, InUse
    <3>4. QED BY <3>1, <3>2, <3>3
  <2>2. QED BY <1>1, <1>2, <1>3, <2>1 DEF Finished
<1>8. QED BY <1>5, <1>6, <1>7 DEF IInv

(* An awaited Task ends, and its caller goes on with the result.           *)
LEMMA CalleeFinished ==
    ASSUME NEW n \in Nat, NEW s \in [1 .. n -> Frames], Types, ResultsKept,
           Calling(s, n), running = s[n], main = "run", n # 1,
           NEW r \in Outcomes(s[n]), FinishTask(running, r)
    PROVE  IInv'
<1> USE FrameAssumption
<1> DEFINE f == s[n]
           p == s[n - 1]
           c == frames[f].child
           e == Ended(f, r)
           void == frames[f].kind = "void"
           gets == IF void THEN "nothing" ELSE r
           left == IF void THEN r ELSE "moved"
<1>0. n - 1 \in Nat \ {0} /\ n - 1 \in 1 .. n - 1 /\ n - 1 \in 1 .. n /\ (n - 1) + 1 = n /\ n - 1 # n
  BY RunningFrame
<1>1. /\ f \in Frames /\ f \notin lost /\ handed = {} /\ f \in InUse
      /\ p \in Frames /\ p # f /\ p \notin lost /\ frames[p].state = "waiting"
      /\ frames[p].child = f /\ frames[f].cont = p /\ frames[p] \in FrameType
      /\ frames[f].kind \in {"value", "void"} /\ p \in InUse
  <2>1. /\ f \in Frames /\ f \notin lost /\ handed = {} /\ f \in InUse
        /\ frames[f].kind \in {"value", "void"}
    BY RunningFrame DEF InUse, FrameType
  <2>2. p \in Frames /\ p # f /\ p \notin lost /\ frames[p].state = "waiting"
    BY <1>0, RunningFrame DEF Calling, Stack
  <2>3. frames[p].child = f /\ frames[f].cont = p
    BY <1>0 DEF Calling, Stack
  <2>4. QED BY <2>1, <2>2, <2>3 DEF Types, InUse
<1>2. c # Nobody => c \in Frames /\ c # f /\ c # p /\ c \notin lost /\ \A i \in 1 .. n : s[i] # c
  BY <1>0, <1>1, ChildFrame
<1>3. /\ e \in [Frames -> FrameType]
      /\ e[f].state = "done" /\ e[f].child = Nobody /\ e[f].result = r
      /\ e[f].made = r /\ e[f].got = "none" /\ e[f].kind = frames[f].kind
      /\ c # Nobody => e[c] = NoFrame
      /\ \A h \in Frames : h # f /\ h # c => e[h] = frames[h]
  BY FrameEnded
<1> HIDE DEF e
<1>4. e[p] = frames[p]
  BY <1>1, <1>2, <1>3
<1>5. /\ frames' = [e EXCEPT ![p] = [e[p] EXCEPT !.state = "running", !.got = gets],
                             ![f] = [e[f] EXCEPT !.result = left]]
      /\ running' = p /\ UNCHANGED <<handed, task, lost>>
      /\ main' = IF frames[f].kind = "value" /\ r = "exception" THEN "terminated" ELSE "run"
  <2>1. frames' = Received(e, p, f) /\ running' = p /\ UNCHANGED <<handed, task, lost>>
        /\ main' = IF Throws(e, f) THEN "terminated" ELSE "run"
    BY <1>1 DEF FinishTask, e
  <2>2. Received(e, p, f) = [e EXCEPT ![p] = [e[p] EXCEPT !.state = "running", !.got = gets],
                                      ![f] = [e[f] EXCEPT !.result = left]]
    BY <1>1, <1>3 DEF Received
  <2>3. Throws(e, f) <=> frames[f].kind = "value" /\ r = "exception"
    BY <1>3 DEF Throws
  <2>4. QED BY <2>1, <2>2, <2>3
<1>6. /\ frames'[p] = [e[p] EXCEPT !.state = "running", !.got = gets]
      /\ frames'[f] = [e[f] EXCEPT !.result = left]
      /\ c # Nobody => frames'[c] = NoFrame
      /\ \A h \in Frames : h # f /\ h # p /\ h # c => frames'[h] = frames[h]
  BY <1>1, <1>2, <1>3, <1>5
<1>7. e[p] \in FrameType /\ e[f] \in FrameType
  BY <1>1, <1>3
<1>8. /\ frames'[p].state = "running" /\ frames'[p].child = f /\ frames'[p].got = gets
      /\ frames'[p].cont = frames[p].cont
      /\ frames'[f].state = "done" /\ frames'[f].child = Nobody /\ frames'[f].got = "none"
      /\ frames'[f].made = r /\ frames'[f].result = left /\ frames'[f].kind = frames[f].kind
      /\ c # Nobody => /\ frames'[c].state = "none" /\ frames'[c].child = Nobody
                       /\ frames'[c].got = "none"
  <2>1. /\ frames'[p].state = "running" /\ frames'[p].child = f /\ frames'[p].got = gets
        /\ frames'[p].cont = frames[p].cont
    BY <1>1, <1>4, <1>6, <1>7 DEF FrameType
  <2>2. /\ frames'[f].state = "done" /\ frames'[f].child = Nobody /\ frames'[f].got = "none"
        /\ frames'[f].made = r /\ frames'[f].result = left /\ frames'[f].kind = frames[f].kind
    BY <1>3, <1>6, <1>7 DEF FrameType
  <2>3. QED BY <1>6, <2>1, <2>2 DEF NoFrame
<1>9. \A h \in Frames : h # c => (h \in InUse' <=> h \in InUse)
  BY <1>1, <1>6, <1>8 DEF InUse
<1>10. c # Nobody => c \notin InUse'
  BY <1>8 DEF InUse
<1>11. Types'
  <2>1. gets \in Kept /\ left \in Kept
    BY DEF Outcomes, Kept
  <2>2. [e[p] EXCEPT !.state = "running", !.got = gets] \in FrameType
    BY <1>7, <2>1 DEF FrameType
  <2>3. [e[f] EXCEPT !.result = left] \in FrameType
    BY <1>7, <2>1 DEF FrameType
  <2>4. frames' \in [Frames -> FrameType]
    BY <1>1, <1>3, <1>5, <2>2, <2>3
  <2>5. lost \subseteq InUse'
    BY <1>2, <1>9 DEF Types, InUse
  <2>6. QED BY <1>1, <1>5, <2>4, <2>5 DEF Types
<1>12. ResultsKept'
  <2>1. r \in Outcomes(f)' /\ (frames[f].kind = "value" /\ main' # "terminated" => r \in Results)
    BY <1>1, <1>5, <1>8 DEF Outcomes
  <2>2. ASSUME NEW h \in Frames, frames'[h].state = "done", h # f
        PROVE  frames'[h] = frames[h]
    BY <1>6, <1>8, <2>2
  <2>3. ASSUME NEW h \in Frames, frames'[h].state = "done"
        PROVE  /\ frames'[h].made \in Outcomes(h)'
               /\ frames'[h].result \in {frames'[h].made, "moved"}
               /\ frames'[h].kind = "value" /\ frames'[h].result = "moved"
                     /\ main' # "terminated" => frames'[h].made \in Results
    <3>1. CASE h = f
      BY <1>8, <2>1, <3>1
    <3>2. CASE h # f
      BY <2>2, <2>3, <3>2 DEF ResultsKept, Outcomes
    <3>3. QED BY <3>1, <3>2
  <2>4. QED BY <2>3 DEF ResultsKept
<1>13. PICK t \in [1 .. n - 1 -> Frames] : \A i \in 1 .. n - 1 : t[i] = s[i]
  <2> DEFINE u == [i \in 1 .. n - 1 |-> s[i]]
  <2>1. u \in [1 .. n - 1 -> Frames] /\ \A i \in 1 .. n - 1 : u[i] = s[i]
    BY <1>0
  <2>2. QED BY <2>1
<1>14. /\ t[n - 1] = p /\ \A i \in 1 .. n - 1 : i \in 1 .. n /\ t[i] = s[i] /\ t[i] # f
       /\ \A i \in 1 .. n - 1 : t[i] \in Frames /\ t[i] # c
  <2>1. \A i \in 1 .. n - 1 : i \in 1 .. n /\ i # n
    BY <1>0
  <2>2. \A i \in 1 .. n - 1 : s[i] # f /\ s[i] # c
    BY <1>2, <2>1, RunningFrame
  <2>3. QED BY <1>0, <1>13, <2>1, <2>2
<1>15. \A i \in 1 .. n - 1 : frames'[t[i]].cont = frames[t[i]].cont
                           /\ (i # n - 1 => frames'[t[i]] = frames[t[i]])
  <2>1. \A i \in 1 .. n - 1 : i # n - 1 => t[i] # p
    BY <1>0, <1>14 DEF Calling, Stack
  <2>2. ASSUME NEW i \in 1 .. n - 1
        PROVE  /\ frames'[t[i]].cont = frames[t[i]].cont
               /\ i # n - 1 => frames'[t[i]] = frames[t[i]]
    <3>1. CASE i = n - 1
      BY <1>8, <1>14, <3>1
    <3>2. CASE i # n - 1
      <4>1. t[i] \in Frames /\ t[i] # f /\ t[i] # p /\ t[i] # c
        BY <1>14, <2>1, <3>2
      <4>2. frames'[t[i]] = frames[t[i]]
        BY <1>6, <4>1
      <4>3. QED BY <4>2
    <3>3. QED BY <3>1, <3>2
  <2>3. QED BY <2>2
<1>16. Stack(t, n - 1)'
  <2>1. t[1] = task' /\ frames'[task'].cont = Nobody
    <3>1. 1 \in 1 .. n - 1
      BY <1>0
    <3>2. s[1] = task /\ frames[task].cont = Nobody
      BY DEF Calling, Stack
    <3>3. t[1] = task
      BY <1>14, <3>1, <3>2
    <3>4. frames'[t[1]].cont = frames[t[1]].cont
      BY <1>15, <3>1
    <3>5. frames'[task].cont = Nobody
      BY <3>2, <3>3, <3>4
    <3>6. task' = task
      BY <1>5
    <3>7. QED BY <3>3, <3>5, <3>6
  <2>2. \A i, j \in 1 .. n - 1 : t[i] = t[j] => i = j
    BY <1>14 DEF Calling, Stack
  <2>3. \A i \in 1 .. n - 1 : t[i] \notin lost'
    BY <1>5, <1>14 DEF Calling, Stack
  <2>4. ASSUME NEW i \in 1 .. (n - 1) - 1
        PROVE  /\ frames'[t[i]].state = "waiting" /\ frames'[t[i]].got = "none"
               /\ frames'[t[i]].child = t[i + 1] /\ frames'[t[i + 1]].cont = t[i]
    <3>1. i \in 1 .. n - 1 /\ i # n - 1 /\ i + 1 \in 1 .. n - 1
      BY <1>0
    <3>2. /\ frames'[t[i]] = frames[s[i]] /\ frames'[t[i + 1]].cont = frames[s[i + 1]].cont
          /\ t[i] = s[i] /\ t[i + 1] = s[i + 1]
      BY <1>14, <1>15, <3>1
    <3>3. QED BY <3>1, <3>2 DEF Calling, Stack
  <2>5. QED BY <1>0, <2>1, <2>2, <2>3, <2>4 DEF Stack
<1>17. Active(t[n - 1])' /\ GotFromChild(t[n - 1])'
  <2>1. Active(p)'
    BY <1>1, <1>5, <1>8 DEF Active
  <2>2. frames[f].kind = "value" /\ main' # "terminated" => r \in Results
    BY <1>5 DEF Outcomes
  <2>3. GotFromChild(p)'
    BY <1>1, <1>8, <2>2 DEF GotFromChild
  <2>4. QED BY <1>14, <2>1, <2>3
<1>18. Others(t, n - 1)'
  <2>1. ASSUME NEW h \in Frames \ On(t, n - 1)
        PROVE  Resting(h)' /\ (h \in InUse' => h \in lost' \/ h = f)
    <3>1. CASE h = f
      BY <1>8, <3>1 DEF Resting
    <3>2. CASE h = c
      BY <1>8, <1>10, <3>2 DEF Resting
    <3>3. CASE h # f /\ h # c
      <4>1. h # p
        BY <1>0, <1>14, <2>1 DEF On
      <4>2. h \notin On(s, n)
        <5>1. ASSUME NEW i \in 1 .. n, h = s[i] PROVE FALSE
          <6>1. i \in 1 .. n - 1
            BY <3>3, <5>1
          <6>2. QED BY <1>14, <2>1, <5>1, <6>1 DEF On
        <5>2. QED BY <5>1 DEF On
      <4>3. Resting(h) /\ (h \in InUse => h \in lost)
        BY <3>3, <4>2 DEF Calling, Others
      <4>4. frames'[h] = frames[h]
        BY <1>6, <3>3, <4>1
      <4>5. QED BY <1>5, <4>3, <4>4 DEF Resting, InUse
    <3>4. QED BY <3>1, <3>2, <3>3
  <2>2. f \in InUse' /\ f \notin lost' \cup On(t, n - 1)
    <3>1. f \in InUse'
      BY <1>1, <1>8 DEF InUse
    <3>2. f \notin On(t, n - 1)
      BY <1>14 DEF On
    <3>3. QED BY <1>1, <1>5, <3>1, <3>2
  <2>3. frames'[t[n - 1]].child = f
    BY <1>8, <1>14
  <2>4. QED BY <2>1, <2>2, <2>3 DEF Others, On
<1>19. main' \in {"run", "terminated"}
  BY <1>5
<1>20. Calling(t, n - 1)'
  BY <1>16, <1>17, <1>18, <1>19 DEF Calling
<1>21. \E m \in Nat : \E u \in [1 .. m -> Frames] : Calling(u, m)'
  BY <1>0, <1>20
<1>22. QED BY <1>11, <1>12, <1>21 DEF IInv

(* main hands a new Task to run(): a stack of one frame.                   *)
LEMMA TaskStarted ==
    ASSUME Types, ResultsKept, Idle, NEW g \in Frames, NEW kind \in {"value", "void"},
           MainRun(g, kind)
    PROVE  IInv'
<1> USE FrameAssumption
<1>1. NoFrame \in FrameType /\ [NoFrame EXCEPT !.state = "fresh", !.kind = kind] \in FrameType
  BY DEF NoFrame, FrameType, Kept
<1>2. /\ frames' = [frames EXCEPT ![g] = [NoFrame EXCEPT !.state = "fresh", !.kind = kind]]
      /\ main' = "run" /\ task' = g /\ handed' = {g} /\ running' = Nobody /\ lost' = lost
      /\ g \notin InUse /\ g \notin lost
  BY DEF MainRun, Made, Idle, Types
<1>3. /\ frames'[g] = [NoFrame EXCEPT !.state = "fresh", !.kind = kind]
      /\ \A h \in Frames : h # g => frames'[h] = frames[h]
  BY <1>2 DEF Types
<1>4. /\ frames'[g].state = "fresh" /\ frames'[g].child = Nobody /\ frames'[g].got = "none"
      /\ frames'[g].cont = Nobody
  BY <1>3 DEF NoFrame
<1>5. Types'
  <2>1. \A h \in InUse : h \in InUse'
    BY <1>2, <1>3 DEF InUse
  <2>2. QED BY <1>1, <1>2, <2>1 DEF Types
<1>6. ResultsKept'
  <2>1. \A h \in Frames : frames'[h].state = "done" =>
           frames'[h] = frames[h] /\ frames[h].state = "done"
    BY <1>3, <1>4
  <2>2. main # "terminated"
    BY DEF Idle
  <2>3. QED BY <2>1, <2>2 DEF ResultsKept, Outcomes
<1>7. PICK n \in Nat \ {0} : n = 1
  OBVIOUS
<1>8. PICK s \in [1 .. n -> Frames] : s[1] = g /\ s[n] = g
  <2> DEFINE u == [i \in 1 .. n |-> g]
  <2>1. u \in [1 .. n -> Frames] /\ u[1] = g /\ u[n] = g
    BY <1>7
  <2>2. QED BY <2>1
<1>9. \A i \in 1 .. n : i = 1 /\ s[i] = g
  BY <1>7, <1>8
<1>10. Stack(s, n)'
  <2>1. \A i, j \in 1 .. n : s[i] = s[j] => i = j
    BY <1>9
  <2>2. \A i \in 1 .. n : s[i] \notin lost'
    BY <1>2, <1>9
  <2>3. 1 .. n - 1 = {}
    BY <1>7
  <2>4. QED BY <1>2, <1>4, <1>8, <2>1, <2>2, <2>3 DEF Stack
<1>11. Active(g)' /\ GotFromChild(g)'
  BY <1>2, <1>4 DEF Active, GotFromChild
<1>12. Others(s, n)'
  <2>1. \A h \in Frames \ On(s, n) : h # g
    BY <1>7, <1>8 DEF On
  <2>2. \A h \in Frames \ On(s, n) : Resting(h)' /\ (h \in InUse' => h \in lost')
    BY <1>2, <1>3, <2>1 DEF Idle, Resting, InUse
  <2>3. QED BY <1>4, <1>8, <2>2 DEF Others, On
<1>13. Calling(s, n)'
  BY <1>2, <1>8, <1>10, <1>11, <1>12 DEF Calling
<1>14. QED BY <1>5, <1>6, <1>7, <1>13 DEF IInv

(* run() returns, and main lets its Task go.                               *)
LEMMA TaskOver ==
    ASSUME Types, ResultsKept, Finished, MainGets \/ MainDrops
    PROVE  IInv'
<1> USE FrameAssumption
<1>1. CASE MainGets
  <2>1. UNCHANGED <<frames, running, handed, task, lost>> /\ main' = "over"
    BY <1>1 DEF MainGets
  <2>2. main # "terminated" /\ InUse' = InUse
    BY <2>1 DEF Finished, InUse
  <2>3. Types'
    BY <2>1, <2>2 DEF Types
  <2>4. ResultsKept'
    BY <2>1, <2>2 DEF ResultsKept, Outcomes
  <2>5. Finished'
    BY <2>1, <2>2 DEF Finished, Resting
  <2>6. QED BY <2>3, <2>4, <2>5 DEF IInv
<1>2. CASE MainDrops
  <2>1. /\ frames' = [frames EXCEPT ![task] = NoFrame]
        /\ main' = "start" /\ task' = Nobody /\ UNCHANGED <<running, handed, lost>>
        /\ task \in Frames /\ task \notin lost
    BY <1>2 DEF MainDrops, Dropped, Finished
  <2>2. NoFrame \in FrameType
    BY DEF NoFrame, FrameType, Kept
  <2>3. /\ frames'[task] = NoFrame
        /\ \A h \in Frames : h # task => frames'[h] = frames[h]
    BY <2>1 DEF Types
  <2>4. frames'[task].state = "none" /\ frames'[task].child = Nobody /\ frames'[task].got = "none"
    BY <2>3 DEF NoFrame
  <2>5. Types'
    <3>1. \A h \in InUse : h # task => h \in InUse'
      BY <2>3 DEF InUse
    <3>2. QED BY <2>1, <2>2, <3>1 DEF Types
  <2>6. ResultsKept'
    <3>1. \A h \in Frames : frames'[h].state = "done" =>
             frames'[h] = frames[h] /\ frames[h].state = "done"
      BY <2>3, <2>4
    <3>2. main # "terminated"
      BY DEF Finished
    <3>3. QED BY <3>1, <3>2 DEF ResultsKept, Outcomes
  <2>7. Idle'
    <3>1. ASSUME NEW h \in Frames
          PROVE  Resting(h)' /\ (h \in InUse' => h \in lost')
      <4>1. CASE h = task
        BY <2>4, <4>1 DEF Resting, InUse
      <4>2. CASE h # task
        BY <2>1, <2>3, <4>2 DEF Finished, Resting, InUse
      <4>3. QED BY <4>1, <4>2
    <3>2. QED BY <2>1, <3>1 DEF Finished, Idle
  <2>8. QED BY <2>5, <2>6, <2>7 DEF IInv
<1>3. QED BY <1>1, <1>2

(* A step of the frame that runs.                                          *)
LEMMA TaskSteps ==
    ASSUME NEW n \in Nat, NEW s \in [1 .. n -> Frames], Types, ResultsKept,
           Calling(s, n), TaskNext
    PROVE  IInv'
<1> USE FrameAssumption
<1>1. n \in 1 .. n /\ s[n] \in Frames /\ n \in Nat \ {0}
  BY StackInUse
<1>2. main \in {"run", "terminated"} /\ (running = Nobody => handed = {s[n]})
      /\ (running # Nobody => running = s[n])
  BY <1>1 DEF Calling, Active
<1>3. ~MainGets /\ ~MainDrops /\ ~(\E g \in Frames, kind \in {"value", "void"} : MainRun(g, kind))
  BY <1>2 DEF MainGets, MainDrops, MainRun
<1>4. CASE \E g \in Frames : LoopResumes(g)
  <2>1. main = "run"
    BY <1>4 DEF LoopResumes
  <2>2. QED BY <1>4, <2>1, TaskSwitched
<1>5. ASSUME running # Nobody, main = "run", NEW r \in Outcomes(running), FinishTask(running, r)
      PROVE  IInv'
  <2>1. running = s[n] /\ r \in Outcomes(s[n])
    BY <1>2, <1>5
  <2>2. CASE n = 1
    <3>1. s[n] = task
      BY <2>2 DEF Calling, Stack
    <3>2. On(s, n) = {task}
      BY <2>2, <3>1 DEF On
    <3>3. QED BY <1>5, <2>1, <3>1, <3>2, FirstFinished
  <2>3. CASE n # 1
    BY <1>5, <2>1, <2>3, CalleeFinished
  <2>4. QED BY <2>2, <2>3
<1>6. CASE running # Nobody /\ main = "run" /\
           \E g \in Frames, kind \in {"value", "void"} :
               MakeTask(running, g, kind) \/ OverwriteTask(running, g, kind)
  BY <1>2, <1>6, TaskMade
<1>7. CASE running # Nobody /\ main = "run" /\ DropTask(running)
  BY <1>2, <1>7, TaskDropped
<1>8. CASE running # Nobody /\ main = "run" /\ AwaitTask(running)
  BY <1>2, <1>8, TaskCalled
<1>9. CASE running # Nobody /\ main = "run" /\ AwaitDone(running)
  BY <1>2, <1>9, TaskReceived
<1>10. CASE running # Nobody /\ main = "run" /\ SuspendTask(running)
  BY <1>2, <1>10, TaskSwitched
<1>11. QED BY <1>3, <1>4, <1>5, <1>6, <1>7, <1>8, <1>9, <1>10 DEF TaskNext

-----------------------------------------------------------------------------
LEMMA InitInv == TaskInit => IInv
<1> SUFFICES ASSUME TaskInit PROVE IInv
  OBVIOUS
<1>1. NoFrame \in FrameType /\ NoFrame.state = "none" /\ NoFrame.child = Nobody
      /\ NoFrame.got = "none"
  BY DEF NoFrame, FrameType, Kept
<1>2. \A g \in Frames : frames[g] = NoFrame
  BY DEF TaskInit
<1>3. Types
  BY <1>1 DEF TaskInit, Types
<1>4. ResultsKept
  BY <1>1, <1>2 DEF ResultsKept
<1>5. Idle
  BY <1>1, <1>2 DEF TaskInit, Idle, Resting, InUse
<1>6. QED BY <1>3, <1>4, <1>5 DEF IInv

LEMMA StepInv == IInv /\ [TaskNext]_taskVars => IInv'
<1> USE FrameAssumption
<1>1. SUFFICES ASSUME Types, ResultsKept, IInv, [TaskNext]_taskVars PROVE IInv'
  BY DEF IInv
<1>2. CASE UNCHANGED taskVars
  <2>1. UNCHANGED <<frames, running, handed, main, task, lost>>
    BY <1>2 DEF taskVars
  <2>2. Types' /\ ResultsKept'
    BY <1>1, <2>1 DEF Types, ResultsKept, InUse, Outcomes
  <2>3. CASE Idle
    <3>1. Idle'
      BY <2>1, <2>3 DEF Idle, Resting, InUse
    <3>2. QED BY <2>2, <3>1 DEF IInv
  <2>4. CASE Finished
    <3>1. Finished'
      BY <2>1, <2>4 DEF Finished, Resting, InUse
    <3>2. QED BY <2>2, <3>1 DEF IInv
  <2>5. ASSUME NEW n \in Nat, NEW s \in [1 .. n -> Frames], Calling(s, n)
        PROVE  IInv'
    <3>1. Stack(s, n)'
      BY <2>1, <2>5 DEF Calling, Stack
    <3>2. Active(s[n])' /\ GotFromChild(s[n])'
      BY <2>1, <2>5 DEF Calling, Active, GotFromChild
    <3>3. Others(s, n)'
      BY <2>1, <2>5 DEF Calling, Others, On, Resting, InUse
    <3>4. Calling(s, n)'
      BY <2>1, <2>5, <3>1, <3>2, <3>3 DEF Calling
    <3>5. QED BY <2>2, <3>4 DEF IInv
  <2>6. QED BY <1>1, <2>3, <2>4, <2>5 DEF IInv
<1>3. CASE TaskNext
  <2>1. CASE Idle
    <3>1. \E g \in Frames, kind \in {"value", "void"} : MainRun(g, kind)
      BY <1>3, <2>1 DEF Idle, TaskNext, MainGets, MainDrops, LoopResumes
    <3>2. QED BY <1>1, <2>1, <3>1, TaskStarted
  <2>2. CASE Finished
    <3>1. MainGets \/ MainDrops
      BY <1>3, <2>2 DEF Finished, TaskNext, MainRun, LoopResumes
    <3>2. QED BY <1>1, <2>2, <3>1, TaskOver
  <2>3. ASSUME NEW n \in Nat, NEW s \in [1 .. n -> Frames], Calling(s, n)
        PROVE  IInv'
    BY <1>1, <1>3, <2>3, TaskSteps
  <2>4. QED BY <1>1, <2>1, <2>2, <2>3 DEF IInv
<1>4. QED BY <1>1, <1>2, <1>3

(* Whatever the coroutines do, their frames form one chain of calls that   *)
(* begins with the Task given to IoContext::run (Task.hpp, Promise.hpp).   *)
THEOREM Invariance == TaskSpec => []IInv
<1>1. QED BY InitInv, StepInv, PTL DEF TaskSpec

(* Hence every frame has one owner, who waits is resumed by the one it     *)
(* waits for and with its result, and run() returns when its Task ended.   *)
THEOREM TasksCorrect == TaskSpec => []TasksReturnToCallers
<1>1. QED BY Invariance, Consequence, PTL

-----------------------------------------------------------------------------
(***************************************************************************)
(* STRINGS.  What a view reads depends on memory that another string keeps *)
(* or owns.  The argument says of every string that is in use where its    *)
(* text stands (Reads), of every block that lives that it has one owner    *)
(* (Owning), and of every step what memory it takes away (Loses): a string *)
(* keeps its text if it views none of that (Survives), and those that do   *)
(* are the ones that the step makes stale (StaleIs).                       *)
(***************************************************************************)

(* The characters of the program's texts.                                  *)
Code == UNION {Range(t) : t \in Literals}

BlockType == [text : Seq(Code), live : BOOLEAN]

(* t stands in base where h begins.                                        *)
Within(h, t, base) ==
    /\ h.off \in Nat /\ h.off + Len(t) <= Len(base)
    /\ \A i \in 1 .. Len(t) : t[i] = base[h.off + i]

(* Among the strings ss and the blocks bs, the handle h reads the text t.  *)
Reads(h, t, ss, bs) ==
    /\ h.len = Len(t)
    /\ \/ h = Sso(t)
       \/ /\ h.form \in {"owner", "view"}
          /\ \E b \in DOMAIN bs : /\ h.at = <<"block", b>> /\ bs[b].live
                                  /\ Within(h, t, bs[b].text)
       \/ /\ h.form = "view"
          /\ \E y \in Strings : /\ h.at = <<"inline", y>> /\ ss[y].form = "sso"
                                /\ Within(h, t, ss[y].short)
       \/ h = MovedFrom /\ t = <<>>

Owns(h, b) == h.form = "owner" /\ h.at = <<"block", b>>

(* Every owner has one of the blocks L, and each of them has one owner.    *)
Owning(ss, L) ==
    /\ \A x \in Strings : ss[x].form = "owner" => \E b \in L : ss[x].at = <<"block", b>>
    /\ \A b \in L : \E x \in Strings : Owns(ss[x], b)
    /\ \A x, y \in Strings, b \in L : Owns(ss[x], b) /\ Owns(ss[y], b) => x = y

Live(bs) == {b \in DOMAIN bs : bs[b].live}

Shape ==
    /\ DOMAIN strings = Strings /\ DOMAIN meant = Strings
    /\ \A x \in Strings : meant[x] \in Seq(Code)
    /\ blocks \in Seq(BlockType)
    /\ stale \subseteq Strings /\ \A x \in stale : strings[x].form = "view"

Reading == \A x \in Usable : Reads(strings[x], meant[x], strings, blocks)

StoreIInv == Shape /\ Reading /\ Owning(strings, Live(blocks))

-----------------------------------------------------------------------------
(* The texts that are put into the program.                                *)
LEMMA LiteralIs == \A t \in Literals : t \in Seq(Code)
<1>1. SUFFICES ASSUME NEW t \in Literals PROVE t \in Seq(Code)
  OBVIOUS
<1>2. t \in Seq(Range(t)) /\ Range(t) \subseteq Code
  BY StoreAssumption DEF Code
<1>3. QED BY <1>2, SeqMonotonic

(* vslice() gives t where t stands in base.                                *)
LEMMA SliceIs ==
    ASSUME NEW S, NEW base \in Seq(S), NEW t \in Seq(S), NEW o \in Nat,
           o + Len(t) <= Len(base), \A i \in 1 .. Len(t) : t[i] = base[o + i]
    PROVE  VSlice(base, o, o + Len(t)) = t
<1> DEFINE n == Len(t)
<1>1. n \in Nat /\ Len(base) \in Nat
  BY LenProperties
<1>2. CASE n = 0
  <2>1. t = <<>>
    BY <1>2, EmptySeq
  <2>2. QED BY <1>1, <1>2, <2>1 DEF VSlice
<1>3. CASE n > 0
  <2> DEFINE m == o + 1
             e == o + n
             s == SubSeq(base, m, e)
  <2>1. m \in Int /\ e \in Int /\ m <= e /\ e - m + 1 = n
        /\ \A i \in m .. e : i \in 1 .. Len(base)
    BY <1>1, <1>3
  <2>2. \A i \in m .. e : base[i] \in S
    BY <2>1, ElementOfSeq
  <2>3. \A i \in 1 .. n : m + i - 1 = o + i
    BY <1>1
  <2> HIDE DEF m, e
  <2>4. s \in Seq(S) /\ Len(s) = n /\ \A i \in 1 .. n : s[i] = base[m + i - 1]
    BY <2>1, <2>2, SubSeqProperties
  <2>5. \A i \in 1 .. n : s[i] = t[i]
    BY <2>3, <2>4
  <2> HIDE DEF s, n
  <2>6. s = t
    BY <2>4, <2>5, SeqEqual DEF n
  <2>7. VSlice(base, o, o + n) = SubSeq(base, m, e)
    BY <1>1, <1>3 DEF VSlice, m, e
  <2>8. QED BY <2>6, <2>7 DEF s, n
<1>4. QED BY <1>1, <1>2, <1>3

(* vslice() gives the characters from i to j.                              *)
LEMMA SliceAt ==
    ASSUME NEW S, NEW s \in Seq(S), NEW i \in 0 .. Len(s), NEW j \in 0 .. Len(s)
    PROVE  /\ VSlice(s, i, j) \in Seq(S)
           /\ Len(VSlice(s, i, j)) = IF j > i THEN j - i ELSE 0
           /\ \A k \in 1 .. Len(VSlice(s, i, j)) : VSlice(s, i, j)[k] = s[i + k]
<1>1. Len(s) \in Nat
  BY LenProperties
<1>2. CASE j > i
  <2> DEFINE m == i + 1
             v == SubSeq(s, m, j)
  <2>1. m \in Int /\ j \in Int /\ m <= j /\ j - m + 1 = j - i /\ j - i \in Nat
        /\ (\A k \in m .. j : k \in 1 .. Len(s)) /\ \A k \in 1 .. j - i : m + k - 1 = i + k
    BY <1>1, <1>2
  <2>2. \A k \in m .. j : s[k] \in S
    BY <2>1, ElementOfSeq
  <2> HIDE DEF m
  <2>3. v \in Seq(S) /\ Len(v) = j - i /\ \A k \in 1 .. j - i : v[k] = s[m + k - 1]
    BY <2>1, <2>2, SubSeqProperties
  <2>4. \A k \in 1 .. j - i : v[k] = s[i + k]
    BY <2>1, <2>3
  <2>5. VSlice(s, i, j) = v
    BY <1>2 DEF VSlice, m
  <2> HIDE DEF v
  <2>6. QED BY <1>2, <2>3, <2>4, <2>5
<1>3. CASE ~(j > i)
  <2>1. VSlice(s, i, j) = <<>>
    BY <1>3 DEF VSlice
  <2>2. <<>> \in Seq(S) /\ Len(<<>>) = 0
    BY EmptySeq
  <2>3. QED BY <1>3, <2>1, <2>2
<1>4. QED BY <1>2, <1>3

(* operator* gives a text of the same characters.                          *)
LEMMA RepeatIs ==
    ASSUME NEW S, NEW s \in Seq(S), NEW n \in 0 .. 2
    PROVE  Repeat(s, n) \in Seq(S)
<1> DEFINE ss == [i \in 1 .. n |-> s]
           good(f) == f = [i \in 1 .. Len(ss) |-> IF i = 1 THEN ss[i] ELSE f[i - 1] \o ss[i]]
           flat == CHOOSE f : good(f)
           w == [i \in 1 .. n |-> IF i = 1 THEN s ELSE s \o s]
<1>1. Len(ss) = n
  <2>1. ss \in Seq({s})
    BY IsASeq
  <2>2. Len(ss) \in Nat /\ DOMAIN ss = 1 .. Len(ss)
    BY <2>1, LenProperties
  <2>3. DOMAIN ss = 1 .. n
    OBVIOUS
  <2>4. QED BY <2>2, <2>3
<1>2. CASE n = 0
  <2>1. Repeat(s, n) = ss
    BY <1>1, <1>2 DEF Repeat, FlattenSeq
  <2>2. ss = <<>>
    BY <1>2
  <2>3. QED BY <2>1, <2>2, EmptySeq
<1>3. CASE n # 0
  <2>1. good(w)
    BY <1>1
  <2>2. good(flat)
    BY <2>1
  <2>3. Repeat(s, n) = flat[Len(ss)]
    BY <1>1, <1>3, ZenonT(30) DEF Repeat, FlattenSeq
  <2> HIDE DEF flat
  <2>4. flat = [i \in 1 .. n |-> IF i = 1 THEN s ELSE flat[i - 1] \o s]
    BY <1>1, <2>2
  <2>5. s \o s \in Seq(S)
    BY ConcatProperties
  <2>6. Repeat(s, n) = flat[n]
    BY <1>1, <2>3
  <2>7. CASE n = 1
    <3>1. flat[1] = s
      BY <2>4, <2>7
    <3>2. QED BY <2>6, <2>7, <3>1
  <2>8. CASE n = 2
    <3>1. 1 \in 1 .. n /\ 2 \in 1 .. n /\ 2 - 1 = 1
      BY <2>8
    <3>2. \A i \in 1 .. n : flat[i] = IF i = 1 THEN s ELSE flat[i - 1] \o s
      BY <2>4, Zenon
    <3>3. flat[2] = IF 2 = 1 THEN s ELSE flat[2 - 1] \o s
      BY <3>1, <3>2, Zenon
    <3>4. flat[1] = s
      BY <3>1, <3>2
    <3>5. flat[2] = flat[1] \o s
      BY <3>1, <3>3
    <3>6. QED BY <2>5, <2>6, <2>8, <3>4, <3>5
  <2>9. QED BY <1>3, <2>7, <2>8
<1>4. QED BY <1>2, <1>3

(* What a string reads that has its text.                                  *)
LEMMA ReadsText ==
    ASSUME Shape, NEW x \in Strings, NEW t \in Seq(Code),
           Reads(strings[x], t, strings, blocks),
           \A y \in Strings : strings[y].form = "sso" => strings[y].short \in Seq(Code)
    PROVE  TextOf(x) = t
<1> DEFINE h == strings[x]
<1>1. h.len = Len(t) /\ Len(t) \in Nat
  BY LenProperties DEF Reads
<1>2. CASE h = Sso(t)
  <2>1. h.form = "sso" /\ h.short = t /\ h.at[1] = "none"
    BY <1>2 DEF Sso, Handle, Nowhere
  <2>2. QED BY <2>1 DEF TextOf
<1>3. CASE /\ h.form \in {"owner", "view"}
           /\ \E b \in DOMAIN blocks : /\ h.at = <<"block", b>> /\ blocks[b].live
                                       /\ Within(h, t, blocks[b].text)
  <2>1. PICK b \in DOMAIN blocks : h.at = <<"block", b>> /\ Within(h, t, blocks[b].text)
    BY <1>3
  <2> DEFINE base == blocks[b].text
  <2>2. base \in Seq(Code)
    <3>1. blocks[b] \in BlockType
      BY <2>1, ElementOfSeq, LenProperties DEF Shape
    <3>2. QED BY <3>1 DEF BlockType
  <2>3. h.at[1] = "block" /\ h.at[2] = b /\ h.form # "sso"
    BY <1>3, <2>1
  <2>4. TextOf(x) = VSlice(base, h.off, h.off + h.len)
    BY <2>3 DEF TextOf
  <2>5. h.off \in Nat /\ h.off + Len(t) <= Len(base) /\ \A i \in 1 .. Len(t) : t[i] = base[h.off + i]
    BY <2>1 DEF Within
  <2> HIDE DEF base, h
  <2>6. VSlice(base, h.off, h.off + Len(t)) = t
    BY <2>2, <2>5, SliceIs
  <2>7. QED BY <1>1, <2>4, <2>6
<1>4. CASE /\ h.form = "view"
           /\ \E y \in Strings : /\ h.at = <<"inline", y>> /\ strings[y].form = "sso"
                                 /\ Within(h, t, strings[y].short)
  <2>1. PICK y \in Strings : /\ h.at = <<"inline", y>> /\ strings[y].form = "sso"
                             /\ Within(h, t, strings[y].short)
    BY <1>4
  <2> DEFINE base == strings[y].short
  <2>2. base \in Seq(Code)
    BY <2>1
  <2>3. h.at[1] = "inline" /\ h.at[2] = y /\ h.form # "sso"
    BY <1>4, <2>1
  <2>4. TextOf(x) = VSlice(base, h.off, h.off + h.len)
    BY <2>3 DEF TextOf
  <2>5. h.off \in Nat /\ h.off + Len(t) <= Len(base) /\ \A i \in 1 .. Len(t) : t[i] = base[h.off + i]
    BY <2>1 DEF Within
  <2> HIDE DEF base, h
  <2>6. VSlice(base, h.off, h.off + Len(t)) = t
    BY <2>2, <2>5, SliceIs
  <2>7. QED BY <1>1, <2>4, <2>6
<1>5. CASE h = MovedFrom /\ t = <<>>
  <2>1. h.form = "view" /\ h.at = <<"none", 0>>
    BY <1>5 DEF MovedFrom, Handle, Nowhere
  <2>2. h.at[1] = "none"
    BY <2>1
  <2>3. QED BY <1>5, <2>1, <2>2 DEF TextOf
<1>6. QED BY <1>2, <1>3, <1>4, <1>5 DEF Reads

(* The texts inside of strings are texts.                                  *)
LEMMA Inside ==
    ASSUME Shape, Reading
    PROVE  \A y \in Strings : strings[y].form = "sso" =>
               y \in Usable /\ strings[y] = Sso(meant[y]) /\ strings[y].short \in Seq(Code)
<1> SUFFICES ASSUME NEW y \in Strings, strings[y].form = "sso"
             PROVE  y \in Usable /\ strings[y] = Sso(meant[y]) /\ strings[y].short \in Seq(Code)
  OBVIOUS
<1>1. y \in Usable
  BY DEF Shape, Usable, Alive
<1>2. Reads(strings[y], meant[y], strings, blocks)
  BY <1>1 DEF Reading
<1>3. strings[y] # MovedFrom
  BY DEF MovedFrom, Handle
<1>4. strings[y] = Sso(meant[y])
  BY <1>2, <1>3 DEF Reads
<1>5. QED BY <1>1, <1>4 DEF Shape, Sso, Handle

LEMMA UsableReads ==
    ASSUME Shape, Reading, NEW x \in Usable
    PROVE  /\ TextOf(x) = meant[x] /\ meant[x] \in Seq(Code)
           /\ Reads(strings[x], meant[x], strings, blocks)
           /\ strings[x].len = Len(meant[x])
<1>1. x \in Strings /\ Reads(strings[x], meant[x], strings, blocks)
  BY DEF Reading, Usable, Alive
<1>2. meant[x] \in Seq(Code)
  BY <1>1 DEF Shape
<1>3. QED BY <1>1, <1>2, Inside, ReadsText DEF Reads

(* What blocks holds.                                                      *)
LEMMA BlockIs ==
    ASSUME Shape, NEW b \in DOMAIN blocks
    PROVE  blocks[b] \in BlockType /\ b \in 1 .. Len(blocks)
  BY ElementOfSeq, LenProperties DEF Shape

(* Where a part of a part begins.                                          *)
LEMMA OffsetsAdd ==
    ASSUME NEW a \in Nat, NEW i \in Nat, NEW j \in Nat, NEW l \in Nat, NEW m \in Nat,
           NEW n \in Nat, j - i = l, j <= m, a + m <= n
    PROVE  /\ a + i \in Nat /\ (a + i) + l <= n
           /\ \A k \in 1 .. l : i + k \in 1 .. m /\ a + (i + k) = (a + i) + k
  OBVIOUS

(* A part of what stands in base stands there, too.                         *)
LEMMA PartWithin ==
    ASSUME NEW h, NEW v, NEW m, NEW t, NEW base, NEW i \in Nat, NEW j \in Nat,
           Len(t) \in Nat, Len(m) \in Nat, Len(base) \in Nat, Within(h, m, base),
           j - i = Len(t), j <= Len(m), v.off = h.off + i, \A k \in 1 .. Len(t) : t[k] = m[i + k]
    PROVE  Within(v, t, base)
<1> DEFINE l == Len(t)
           n == Len(m)
           e == Len(base)
           o == h.off
           p == v.off
<1>1. l \in Nat /\ n \in Nat /\ e \in Nat /\ j - i = l /\ j <= n /\ p = o + i
  OBVIOUS
<1>2. o \in Nat /\ o + n <= e /\ \A k \in 1 .. n : m[k] = base[o + k]
  BY DEF Within
<1>3. \A k \in 1 .. l : t[k] = m[i + k]
  OBVIOUS
<1> HIDE DEF l, n, e, o, p
<1>4. /\ o + i \in Nat /\ (o + i) + l <= e
      /\ \A k \in 1 .. l : i + k \in 1 .. n /\ o + (i + k) = (o + i) + k
  BY <1>1, <1>2, OffsetsAdd
<1>5. ASSUME NEW k \in 1 .. l PROVE t[k] = base[p + k]
  <2>1. i + k \in 1 .. n /\ o + (i + k) = p + k
    BY <1>1, <1>4
  <2>2. t[k] = m[i + k] /\ m[i + k] = base[o + (i + k)]
    BY <1>2, <1>3, <2>1
  <2>3. QED BY <2>1, <2>2
<1>6. p \in Nat /\ p + l <= e
  BY <1>1, <1>4
<1>7. QED BY <1>5, <1>6 DEF Within, l, e, p

(* A view of a part of what y reads.                                       *)
LEMMA ViewReads ==
    ASSUME Shape, Reading, NEW y \in Usable, NEW t \in Seq(Code),
           NEW i \in Nat, NEW j \in Nat, j - i = Len(t), j <= Len(meant[y]), i <= j,
           \A k \in 1 .. Len(t) : t[k] = meant[y][i + k]
    PROVE  Reads(ViewOf(y, i, j), t, strings, blocks) /\ ViewOf(y, i, j).form = "view"
<1> DEFINE h == strings[y]
           v == ViewOf(y, i, j)
           m == meant[y]
<1>1. /\ v.form = "view" /\ v.at = Data(y) /\ v.off = h.off + i /\ v.len = Len(t)
      /\ v.short = <<>>
  BY DEF ViewOf, Handle
<1>2. Len(t) \in Nat /\ Len(m) \in Nat /\ y \in Strings /\ h.len = Len(m)
  BY UsableReads, LenProperties DEF Usable, Alive
<1>3. Reads(h, m, strings, blocks)
  BY UsableReads
<1> HIDE DEF v
<1>4. ASSUME NEW base, Within(h, m, base), Len(base) \in Nat PROVE Within(v, t, base)
  <2>1. /\ Len(t) \in Nat /\ Len(m) \in Nat /\ j - i = Len(t) /\ j <= Len(m)
        /\ v.off = h.off + i /\ \A k \in 1 .. Len(t) : t[k] = m[i + k]
    BY <1>1, <1>2
  <2> HIDE DEF h, m
  <2>2. QED BY <1>4, <2>1, PartWithin
<1>5. CASE h = Sso(m)
  <2>1. h.form = "sso" /\ h.off = 0 /\ h.short = m /\ Data(y) = <<"inline", y>>
    BY <1>5 DEF Sso, Handle, Data
  <2>2. Within(h, m, h.short)
    BY <1>2, <2>1 DEF Within
  <2>3. Within(v, t, h.short)
    BY <1>2, <1>4, <2>1, <2>2
  <2>4. QED BY <1>1, <1>2, <2>1, <2>3 DEF Reads, v
<1>6. CASE /\ h.form \in {"owner", "view"}
           /\ \E b \in DOMAIN blocks : /\ h.at = <<"block", b>> /\ blocks[b].live
                                       /\ Within(h, m, blocks[b].text)
  <2>1. PICK b \in DOMAIN blocks : /\ h.at = <<"block", b>> /\ blocks[b].live
                                   /\ Within(h, m, blocks[b].text)
    BY <1>6
  <2>2. Len(blocks[b].text) \in Nat
    BY BlockIs, LenProperties DEF BlockType
  <2>3. Within(v, t, blocks[b].text)
    BY <1>4, <2>1, <2>2
  <2>4. Data(y) = h.at
    BY <1>6 DEF Data
  <2>5. QED BY <1>1, <2>1, <2>3, <2>4 DEF Reads, v
<1>7. CASE /\ h.form = "view"
           /\ \E z \in Strings : /\ h.at = <<"inline", z>> /\ strings[z].form = "sso"
                                 /\ Within(h, m, strings[z].short)
  <2>1. PICK z \in Strings : /\ h.at = <<"inline", z>> /\ strings[z].form = "sso"
                             /\ Within(h, m, strings[z].short)
    BY <1>7
  <2>2. Len(strings[z].short) \in Nat
    BY <2>1, Inside, LenProperties
  <2>3. Within(v, t, strings[z].short)
    BY <1>4, <2>1, <2>2
  <2>4. Data(y) = h.at
    BY <1>7 DEF Data
  <2>5. QED BY <1>1, <2>1, <2>3, <2>4 DEF Reads, v
<1>8. CASE h = MovedFrom /\ m = <<>>
  <2>1. i = 0 /\ j = 0 /\ Len(t) = 0
    <3>1. Len(m) = 0
      BY <1>8
    <3>2. QED BY <1>2, <3>1 DEF m
  <2>2. t = <<>>
    BY <2>1, EmptySeq
  <2>3. v = MovedFrom
    BY <1>8, <2>1 DEF v, ViewOf, Data, MovedFrom, Handle
  <2>4. QED BY <1>1, <2>2, <2>3 DEF Reads, v
<1>9. QED BY <1>3, <1>5, <1>6, <1>7, <1>8 DEF Reads

(* The copy of a string reads its text.                                    *)
LEMMA CopyReads ==
    ASSUME Shape, Reading, NEW y \in Usable
    PROVE  Reads(CopyOf(y), meant[y], strings, blocks) /\ CopyOf(y).form \in {"sso", "view"}
<1>1. CASE family = "Atring" /\ strings[y].form = "sso"
  BY <1>1, UsableReads DEF CopyOf
<1>2. CASE ~(family = "Atring" /\ strings[y].form = "sso")
  <2> DEFINE m == meant[y]
             n == Len(m)
  <2>1. m \in Seq(Code) /\ n \in Nat /\ strings[y].len = n
    BY UsableReads, LenProperties
  <2>2. \A k \in 1 .. n : m[k] = m[0 + k]
    BY <2>1
  <2>3. CopyOf(y) = ViewOf(y, 0, n)
    BY <1>2, <2>1 DEF CopyOf
  <2>4. n - 0 = Len(m) /\ n <= Len(meant[y]) /\ 0 <= n /\ 0 \in Nat
    BY <2>1
  <2> HIDE DEF n
  <2>5. Reads(ViewOf(y, 0, n), m, strings, blocks) /\ ViewOf(y, 0, n).form = "view"
    BY <2>1, <2>2, <2>4, ViewReads DEF n
  <2>6. QED BY <2>3, <2>5
<1>3. QED BY <1>1, <1>2

(* The blocks with one more.                                               *)
Grown(bs, n, t) ==
    /\ bs \in Seq(BlockType)
    /\ DOMAIN bs = DOMAIN blocks \cup {n} /\ n \notin DOMAIN blocks
    /\ bs[n] = [text |-> t, live |-> TRUE]
    /\ \A b \in DOMAIN blocks : bs[b] = blocks[b]

(* Blocks that are given out and given back.                               *)
LEMMA AllocIs ==
    ASSUME Shape, NEW t \in Seq(Code), NEW n, n = Len(blocks) + 1,
           NEW bs, bs = AllocatedFor(Owner(n, Len(t)), t)
    PROVE  Grown(bs, n, t)
<1>1. blocks \in Seq(BlockType) /\ Len(blocks) \in Nat /\ DOMAIN blocks = 1 .. Len(blocks)
  BY LenProperties DEF Shape
<1> DEFINE e == [text |-> t, live |-> TRUE]
<1>2. bs = Append(blocks, e)
  <2>1. Owner(n, Len(t)).form = "owner"
    BY DEF Owner, Handle
  <2>2. QED BY <2>1 DEF AllocatedFor
<1>3. e \in BlockType
  BY DEF BlockType
<1> HIDE DEF e
<1>4. /\ bs \in Seq(BlockType) /\ Len(bs) = n
      /\ \A i \in 1 .. Len(blocks) : bs[i] = blocks[i]
      /\ bs[n] = e
  <2>1. /\ Append(blocks, e) \in Seq(BlockType) /\ Len(Append(blocks, e)) = Len(blocks) + 1
        /\ \A i \in 1 .. Len(blocks) : Append(blocks, e)[i] = blocks[i]
        /\ Append(blocks, e)[Len(blocks) + 1] = e
    BY <1>1, <1>3, AppendProperties
  <2>2. QED BY <1>2, <2>1
<1>5. DOMAIN bs = 1 .. n
  BY <1>4, LenProperties
<1>6. 1 .. n = (1 .. Len(blocks)) \cup {n} /\ n \notin 1 .. Len(blocks)
  BY <1>1
<1>7. QED BY <1>1, <1>4, <1>5, <1>6 DEF Grown, e

(* A short text takes no block.                                            *)
LEMMA SsoTakesNone == ASSUME NEW t PROVE AllocatedFor(Sso(t), t) = blocks
<1>1. Sso(t).form = "sso"
  BY DEF Sso, Handle
<1>2. QED BY <1>1 DEF AllocatedFor

(* Giving back the memory of x kills its block and no other.               *)
LEMMA FreedIs ==
    ASSUME NEW bs \in Seq(BlockType), NEW x \in Strings,
           strings[x].form = "owner" => \E b \in DOMAIN bs : strings[x].at = <<"block", b>>
    PROVE  /\ Freed(bs, x) \in Seq(BlockType) /\ DOMAIN Freed(bs, x) = DOMAIN bs
           /\ \A b \in DOMAIN bs : Freed(bs, x)[b] =
                  IF Owns(strings[x], b) THEN [text |-> <<>>, live |-> FALSE] ELSE bs[b]
<1>1. CASE strings[x].form # "owner"
  BY <1>1 DEF Freed, Owns
<1>2. CASE strings[x].form = "owner"
  <2>1. PICK b \in DOMAIN bs : strings[x].at = <<"block", b>>
    BY <1>2
  <2> DEFINE e == [text |-> <<>>, live |-> FALSE]
             fs == [bs EXCEPT ![b] = e]
  <2>2. strings[x].at[2] = b
    BY <2>1
  <2>3. Freed(bs, x) = fs
    BY <1>2, <2>2 DEF Freed
  <2>4. e \in BlockType
    BY EmptySeq DEF BlockType
  <2> HIDE DEF e
  <2>5. fs \in Seq(BlockType)
    <3>1. bs = [i \in 1 .. Len(bs) |-> bs[i]] /\ Len(bs) \in Nat /\ DOMAIN bs = 1 .. Len(bs)
      BY LenProperties
    <3>2. \A i \in 1 .. Len(bs) : bs[i] \in BlockType
      BY ElementOfSeq
    <3>3. fs = [i \in 1 .. Len(bs) |-> IF i = b THEN e ELSE bs[i]]
      BY <3>1
    <3>4. \A i \in 1 .. Len(bs) : (IF i = b THEN e ELSE bs[i]) \in BlockType
      BY <2>4, <3>2
    <3> HIDE DEF fs
    <3>5. QED BY <3>1, <3>3, <3>4, IsASeq
  <2>6. DOMAIN fs = DOMAIN bs /\ \A c \in DOMAIN bs : fs[c] = IF c = b THEN e ELSE bs[c]
    OBVIOUS
  <2>7. \A c \in DOMAIN bs : Owns(strings[x], c) <=> c = b
    BY <1>2, <2>1 DEF Owns
  <2> HIDE DEF fs
  <2>8. QED BY <2>3, <2>5, <2>6, <2>7 DEF e
<1>3. QED BY <1>1, <1>2

(* A string with memory of its own reads what was put there.               *)
LEMMA FreshReads ==
    ASSUME NEW t \in Seq(Code), NEW ss, NEW bs, NEW n
    PROVE  /\ Reads(Sso(t), t, ss, bs)
           /\ n \in DOMAIN bs /\ bs[n] = [text |-> t, live |-> TRUE]
                 => Reads(Owner(n, Len(t)), t, ss, bs)
<1>1. Sso(t).len = Len(t) /\ Len(t) \in Nat
  BY LenProperties DEF Sso, Handle
<1>2. ASSUME n \in DOMAIN bs, bs[n] = [text |-> t, live |-> TRUE]
      PROVE  Reads(Owner(n, Len(t)), t, ss, bs)
  <2> DEFINE h == Owner(n, Len(t))
  <2>1. /\ h.form = "owner" /\ h.at = <<"block", n>> /\ h.off = 0 /\ h.len = Len(t)
    BY DEF Owner, Handle
  <2>2. bs[n].live /\ bs[n].text = t
    BY <1>2
  <2> HIDE DEF h
  <2>3. Within(h, t, t)
    BY <1>1, <2>1 DEF Within
  <2>4. QED BY <1>2, <2>1, <2>2, <2>3 DEF Reads, h
<1>3. QED BY <1>1, <1>2 DEF Reads

-----------------------------------------------------------------------------
(* Owners.                                                                 *)

(* A string that owned nothing gets a handle that owns nothing.            *)
LEMMA OwnPlain ==
    ASSUME NEW ss, NEW ss2, NEW L, Owning(ss, L), NEW x \in Strings, ss[x].form # "owner",
           \A z \in Strings : z # x => ss2[z] = ss[z], ss2[x].form # "owner"
    PROVE  Owning(ss2, L)
<1>1. \A z \in Strings, b \in L : Owns(ss2[z], b) <=> Owns(ss[z], b)
  BY DEF Owns
<1>2. \A z \in Strings : ss2[z].form = "owner" => ss[z].form = "owner" /\ ss2[z] = ss[z]
  OBVIOUS
<1>3. QED BY <1>1, <1>2 DEF Owning

(* A string that owned nothing gets a new block.                           *)
LEMMA OwnAlloc ==
    ASSUME NEW ss, NEW ss2, NEW L, Owning(ss, L), NEW x \in Strings, ss[x].form # "owner",
           \A z \in Strings : z # x => ss2[z] = ss[z],
           NEW n, n \notin L, ss2[x].form = "owner", ss2[x].at = <<"block", n>>
    PROVE  Owning(ss2, L \cup {n})
<1>1. \A b : Owns(ss2[x], b) <=> b = n
  BY DEF Owns
<1>2. \A z \in Strings, b \in L : z # x => (Owns(ss2[z], b) <=> Owns(ss[z], b))
  OBVIOUS
<1>3. \A z \in Strings : z # x => ~Owns(ss2[z], n)
  <2> SUFFICES ASSUME NEW z \in Strings, z # x, Owns(ss[z], n) PROVE FALSE
    OBVIOUS
  <2>1. \E b \in L : ss[z].at = <<"block", b>>
    BY DEF Owning, Owns
  <2>2. QED BY <2>1 DEF Owns
<1>4. \A z \in Strings, b \in L : Owns(ss[z], b) => z # x
  BY DEF Owns
<1>5. ASSUME NEW z \in Strings, ss2[z].form = "owner"
      PROVE  \E b \in L \cup {n} : ss2[z].at = <<"block", b>>
  BY <1>5 DEF Owning
<1>6. ASSUME NEW b \in L \cup {n} PROVE \E z \in Strings : Owns(ss2[z], b)
  <2>1. CASE b = n
    BY <1>1, <2>1
  <2>2. CASE b \in L
    <3>1. PICK z \in Strings : Owns(ss[z], b)
      BY <2>2 DEF Owning
    <3>2. QED BY <1>2, <1>4, <2>2, <3>1
  <2>3. QED BY <2>1, <2>2
<1>7. ASSUME NEW y \in Strings, NEW z \in Strings, NEW b \in L \cup {n},
             Owns(ss2[y], b), Owns(ss2[z], b)
      PROVE  y = z
  <2>1. CASE b = n
    BY <1>3, <1>7, <2>1
  <2>2. CASE b # n
    <3>1. y # x /\ z # x /\ b \in L
      BY <1>1, <1>7, <2>2
    <3>2. Owns(ss[y], b) /\ Owns(ss[z], b)
      BY <1>2, <1>7, <3>1
    <3>3. QED BY <3>1, <3>2 DEF Owning
  <2>3. QED BY <2>1, <2>2
<1>8. QED BY <1>5, <1>6, <1>7 DEF Owning

(* A string gives back what it owns.                                       *)
LEMMA OwnFree ==
    ASSUME NEW ss, NEW ss2, NEW L, Owning(ss, L), NEW x \in Strings,
           \A z \in Strings : z # x => ss2[z] = ss[z], ss2[x].form # "owner"
    PROVE  Owning(ss2, {b \in L : ~Owns(ss[x], b)})
<1> DEFINE M == {b \in L : ~Owns(ss[x], b)}
<1>1. ASSUME NEW z \in Strings, ss2[z].form = "owner"
      PROVE  \E b \in M : ss2[z].at = <<"block", b>>
  <2>1. z # x /\ ss2[z] = ss[z]
    BY <1>1
  <2>2. PICK b \in L : ss[z].at = <<"block", b>>
    BY <1>1, <2>1 DEF Owning
  <2>3. Owns(ss[z], b)
    BY <1>1, <2>1, <2>2 DEF Owns
  <2>4. ~Owns(ss[x], b)
    BY <2>1, <2>3 DEF Owning
  <2>5. QED BY <2>1, <2>2, <2>4
<1>2. ASSUME NEW b \in M PROVE \E z \in Strings : Owns(ss2[z], b)
  <2>1. PICK z \in Strings : Owns(ss[z], b)
    BY DEF Owning
  <2>2. z # x
    BY <2>1
  <2>3. QED BY <2>1, <2>2
<1>3. ASSUME NEW y \in Strings, NEW z \in Strings, NEW b \in M,
             Owns(ss2[y], b), Owns(ss2[z], b)
      PROVE  y = z
  <2>1. y # x /\ z # x
    BY <1>3 DEF Owns
  <2>2. Owns(ss[y], b) /\ Owns(ss[z], b) /\ b \in L
    BY <1>3, <2>1
  <2>3. QED BY <2>2 DEF Owning
<1> HIDE DEF M
<1>4. Owning(ss2, M)
  BY <1>1, <1>2, <1>3 DEF Owning
<1>5. QED BY <1>4 DEF M

(* A string hands what it owns to one that owns nothing.                   *)
LEMMA OwnMove ==
    ASSUME NEW ss, NEW ss2, NEW L, Owning(ss, L), NEW x \in Strings, NEW y \in Strings,
           x # y, ss[x].form # "owner", ss2[x] = ss[y], ss2[y].form # "owner",
           \A z \in Strings : z # x /\ z # y => ss2[z] = ss[z]
    PROVE  Owning(ss2, L)
<1>1. \A b \in L : ~Owns(ss[x], b) /\ ~Owns(ss2[y], b) /\ (Owns(ss2[x], b) <=> Owns(ss[y], b))
  BY DEF Owns
<1>2. ASSUME NEW z \in Strings, ss2[z].form = "owner"
      PROVE  \E b \in L : ss2[z].at = <<"block", b>>
  <2>1. CASE z = x
    BY <1>2, <2>1 DEF Owning
  <2>2. CASE z # x
    BY <1>2, <2>2 DEF Owning
  <2>3. QED BY <2>1, <2>2
<1>3. ASSUME NEW b \in L PROVE \E z \in Strings : Owns(ss2[z], b)
  <2>1. PICK z \in Strings : Owns(ss[z], b)
    BY DEF Owning
  <2>2. CASE z = y
    BY <1>1, <2>1, <2>2
  <2>3. CASE z # y
    BY <1>1, <2>1, <2>3
  <2>4. QED BY <2>2, <2>3
<1>4. ASSUME NEW v \in Strings, NEW z \in Strings, NEW b \in L,
             Owns(ss2[v], b), Owns(ss2[z], b)
      PROVE  v = z
  <2>1. v # y /\ z # y
    BY <1>1, <1>4
  <2>2. \A w \in Strings : w # y /\ Owns(ss2[w], b) => Owns(ss[IF w = x THEN y ELSE w], b)
    BY <1>1
  <2>3. (IF v = x THEN y ELSE v) = (IF z = x THEN y ELSE z)
    <3> DEFINE p == IF v = x THEN y ELSE v
               r == IF z = x THEN y ELSE z
    <3>1. p \in Strings /\ r \in Strings /\ Owns(ss[p], b) /\ Owns(ss[r], b)
      BY <1>4, <2>1, <2>2
    <3> HIDE DEF p, r
    <3>2. p = r
      BY <3>1 DEF Owning
    <3>3. QED BY <3>2 DEF p, r
  <2>4. QED BY <2>1, <2>3
<1>5. QED BY <1>2, <1>3, <1>4 DEF Owning

(* A step that takes the memory of the strings xs away, and no other.      *)
Loses(xs) ==
    /\ \A y \in Strings : y \notin xs /\ strings[y].form = "sso" =>
          \/ strings'[y] = strings[y]
          \/ /\ strings'[y].form = "sso"
             /\ Len(strings'[y].short) \in Nat
             /\ Len(strings[y].short) <= Len(strings'[y].short)
             /\ \A i \in 1 .. Len(strings[y].short) :
                    strings'[y].short[i] = strings[y].short[i]
    /\ \A b \in DOMAIN blocks : blocks[b].live /\ <<"block", b>> \notin Lost(xs) =>
          b \in DOMAIN blocks' /\ blocks'[b] = blocks[b]

(* What reads none of the memory that is lost reads on.                    *)
LEMMA Survives ==
    ASSUME Shape, Reading, NEW xs, Loses(xs), NEW h, NEW t \in Seq(Code),
           Reads(h, t, strings, blocks), h.form \in {"owner", "view"} => h.at \notin Lost(xs)
    PROVE  Reads(h, t, strings', blocks')
<1>1. h.len = Len(t) /\ Len(t) \in Nat
  BY LenProperties DEF Reads
<1>2. CASE h = Sso(t)
  BY <1>1, <1>2 DEF Reads
<1>3. CASE /\ h.form \in {"owner", "view"}
           /\ \E b \in DOMAIN blocks : /\ h.at = <<"block", b>> /\ blocks[b].live
                                       /\ Within(h, t, blocks[b].text)
  <2>1. PICK b \in DOMAIN blocks : /\ h.at = <<"block", b>> /\ blocks[b].live
                                   /\ Within(h, t, blocks[b].text)
    BY <1>3
  <2>2. b \in DOMAIN blocks' /\ blocks'[b] = blocks[b]
    BY <1>3, <2>1 DEF Loses
  <2>3. QED BY <1>1, <1>3, <2>1, <2>2 DEF Reads
<1>4. CASE /\ h.form = "view"
           /\ \E y \in Strings : /\ h.at = <<"inline", y>> /\ strings[y].form = "sso"
                                 /\ Within(h, t, strings[y].short)
  <2>1. PICK y \in Strings : /\ h.at = <<"inline", y>> /\ strings[y].form = "sso"
                             /\ Within(h, t, strings[y].short)
    BY <1>4
  <2>2. y \notin xs
    BY <1>4, <2>1 DEF Lost
  <2> DEFINE s == strings[y].short
             u == strings'[y].short
  <2>3. strings'[y].form = "sso" /\ (u = s \/ /\ Len(u) \in Nat /\ Len(s) <= Len(u)
                                              /\ \A i \in 1 .. Len(s) : u[i] = s[i])
    BY <2>1, <2>2 DEF Loses
  <2>4. s \in Seq(Code) /\ Len(s) \in Nat
    BY <2>1, Inside, LenProperties
  <2>5. h.off \in Nat /\ h.off + Len(t) <= Len(s) /\ \A i \in 1 .. Len(t) : t[i] = s[h.off + i]
    BY <2>1 DEF Within
  <2> HIDE DEF s, u
  <2>6. Within(h, t, u)
    <3>1. CASE u = s
      BY <2>5, <3>1 DEF Within
    <3>2. CASE /\ Len(u) \in Nat /\ Len(s) <= Len(u)
               /\ \A i \in 1 .. Len(s) : u[i] = s[i]
      <4>1. h.off + Len(t) <= Len(u)
        BY <1>1, <2>4, <2>5, <3>2
      <4>2. \A i \in 1 .. Len(t) : h.off + i \in 1 .. Len(s)
        BY <1>1, <2>4, <2>5
      <4>3. QED BY <2>5, <3>2, <4>1, <4>2 DEF Within
    <3>3. QED BY <2>3, <3>1, <3>2
  <2>7. QED BY <1>1, <1>4, <2>1, <2>3, <2>6 DEF Reads, u
<1>5. CASE h = MovedFrom /\ t = <<>>
  BY <1>1, <1>5 DEF Reads
<1>6. QED BY <1>2, <1>3, <1>4, <1>5 DEF Reads

(* What an owner that is not one of xs owns is not lost with them.         *)
LEMMA OwnedStays ==
    ASSUME Owning(strings, Live(blocks)), NEW xs \in SUBSET Strings, NEW z \in Strings,
           strings[z].form = "owner", z \notin xs
    PROVE  strings[z].at \notin Lost(xs)
<1>1. PICK b \in Live(blocks) : strings[z].at = <<"block", b>>
  BY DEF Owning
<1>2. ASSUME NEW x \in xs, strings[x].form = "owner", strings[x].at = <<"block", b>> PROVE FALSE
  <2>1. x \in Strings /\ Owns(strings[x], b) /\ Owns(strings[z], b)
    BY <1>1, <1>2 DEF Owns
  <2>2. x = z
    BY <2>1 DEF Owning
  <2>3. QED BY <2>2
<1>3. QED BY <1>1, <1>2 DEF Lost

(* The strings C change, the others are as before or become stale.         *)
LEMMA ReadingStays ==
    ASSUME Shape, Reading, Owning(strings, Live(blocks)),
           NEW C, NEW xs \in SUBSET Strings, xs \subseteq C, Loses(xs),
           \A z \in Strings : z \notin C => strings'[z] = strings[z] /\ meant'[z] = meant[z],
           \A z \in Strings : z \notin C /\ z \notin stale' =>
               z \notin stale /\ (strings[z].form = "view" => strings[z].at \notin Lost(xs)),
           \A z \in Strings : z \in C /\ strings'[z].form # "gone" /\ z \notin stale' =>
               Reads(strings'[z], meant'[z], strings', blocks')
    PROVE  Reading'
<1> SUFFICES ASSUME NEW z \in Strings, strings'[z].form # "gone", z \notin stale'
             PROVE  Reads(strings'[z], meant'[z], strings', blocks')
  BY DEF Reading, Usable, Alive
<1>1. CASE z \in C
  BY <1>1
<1>2. CASE z \notin C
  <2>1. strings'[z] = strings[z] /\ meant'[z] = meant[z] /\ z \in Usable
    BY <1>2 DEF Usable, Alive
  <2>2. Reads(strings[z], meant[z], strings, blocks) /\ meant[z] \in Seq(Code)
    BY <2>1, UsableReads
  <2>3. strings[z].form \in {"owner", "view"} => strings[z].at \notin Lost(xs)
    BY <1>2, OwnedStays
  <2>4. Reads(strings[z], meant[z], strings', blocks')
    BY <2>2, <2>3, Survives
  <2>5. QED BY <2>1, <2>4
<1>3. QED BY <1>1, <1>2

(* StaleAfter names every view that reads what is lost.                    *)
LEMMA StaleIs ==
    ASSUME Shape, NEW x, NEW C, x \in C, NEW xs,
           \A z \in Strings : z \notin C => strings'[z] = strings[z],
           stale' = StaleAfter(x, xs, strings')
    PROVE  /\ stale' \subseteq Strings /\ \A v \in stale' : strings'[v].form = "view"
           /\ \A z \in Strings : z \notin C /\ z \notin stale' =>
                  z \notin stale /\ (strings[z].form = "view" => strings[z].at \notin Lost(xs))
           /\ \A z \in Strings : strings'[z].form = "view" /\ z \notin stale' =>
                  strings'[z].at \notin Lost(xs)
  BY DEF StaleAfter, Shape

(* The memory of the strings xs is given back.                             *)
LEMMA FreedLoses ==
    ASSUME Shape, NEW xs, NEW x \in Strings, x \in xs,
           strings[x].form = "owner" => \E b \in DOMAIN blocks : strings[x].at = <<"block", b>>
    PROVE  \A b \in DOMAIN blocks : blocks[b].live /\ <<"block", b>> \notin Lost(xs) =>
               b \in DOMAIN Freed(blocks, x) /\ Freed(blocks, x)[b] = blocks[b]
<1>1. \A b : <<"block", b>> \notin Lost(xs) => ~Owns(strings[x], b)
  BY DEF Lost, Owns
<1>2. QED BY <1>1, FreedIs DEF Shape

LEMMA OwnersBlock ==
    ASSUME Owning(strings, Live(blocks)), NEW x \in Strings, strings[x].form = "owner"
    PROVE  \E b \in DOMAIN blocks : strings[x].at = <<"block", b>>
<1>1. \E b \in Live(blocks) : strings[x].at = <<"block", b>>
  BY DEF Owning
<1>2. QED BY <1>1 DEF Live

(* The blocks that live when x has given its memory back.                  *)
LEMMA LiveFreed ==
    ASSUME NEW bs \in Seq(BlockType), NEW x \in Strings,
           strings[x].form = "owner" => \E b \in DOMAIN bs : strings[x].at = <<"block", b>>
    PROVE  Live(Freed(bs, x)) = {b \in Live(bs) : ~Owns(strings[x], b)}
<1>1. DOMAIN Freed(bs, x) = DOMAIN bs
  BY FreedIs
<1>2. \A b \in DOMAIN bs : Freed(bs, x)[b].live <=> bs[b].live /\ ~Owns(strings[x], b)
  <2>1. ASSUME NEW b \in DOMAIN bs, Owns(strings[x], b)
        PROVE  Freed(bs, x)[b].live = FALSE
    <3>1. Freed(bs, x)[b] = [text |-> <<>>, live |-> FALSE]
      BY <2>1, FreedIs
    <3>2. QED BY <3>1
  <2>2. ASSUME NEW b \in DOMAIN bs, ~Owns(strings[x], b) PROVE Freed(bs, x)[b] = bs[b]
    BY <2>2, FreedIs
  <2>3. QED BY <2>1, <2>2
<1>3. QED BY <1>1, <1>2 DEF Live

(* The blocks that live when one was allocated.                            *)
LEMMA LiveAlloc ==
    ASSUME Shape, NEW t \in Seq(Code), NEW n, n = Len(blocks) + 1,
           NEW bs, bs = AllocatedFor(Owner(n, Len(t)), t)
    PROVE  Live(bs) = Live(blocks) \cup {n} /\ n \notin Live(blocks)
<1>1. Grown(bs, n, t)
  BY AllocIs
<1>2. bs[n].live
  BY <1>1 DEF Grown
<1>3. QED BY <1>1, <1>2 DEF Live, Grown

(* What a step leaves of Shape, of the strings C.                          *)
LEMMA ShapeStays ==
    ASSUME Shape, NEW C, DOMAIN strings' = Strings, DOMAIN meant' = Strings,
           \A z \in Strings : z \notin C => meant'[z] = meant[z],
           \A z \in Strings : z \in C => meant'[z] \in Seq(Code),
           blocks' \in Seq(BlockType), stale' \subseteq Strings,
           \A z \in stale' : strings'[z].form = "view"
    PROVE  Shape'
  BY DEF Shape

(* A variable without a string.                                            *)
LEMMA NotAlive ==
    ASSUME Shape, NEW x \in Strings, x \notin Alive
    PROVE  strings[x].form = "gone" /\ x \notin stale
  BY DEF Shape, Alive

-----------------------------------------------------------------------------
(* The operations.                                                         *)

(* A new string in its own memory: the constructors, +, *, slice, clone.   *)
LEMMA NewString ==
    ASSUME StoreIInv, NEW x \in Strings, NEW t \in Seq(Code), NEW h,
           h = Sso(t) \/ h = Owner(Len(blocks) + 1, Len(t)), Constructed(x, h, t)
    PROVE  StoreIInv'
<1> DEFINE n == Len(blocks) + 1
<1>1. Shape /\ Reading /\ Owning(strings, Live(blocks))
  BY DEF StoreIInv
<1>2. strings[x].form = "gone" /\ x \notin stale /\ x \notin Alive
  BY <1>1, NotAlive DEF Constructed
<1>3. /\ strings' = [strings EXCEPT ![x] = h] /\ meant' = [meant EXCEPT ![x] = t]
      /\ blocks' = AllocatedFor(h, t) /\ stale' = stale
      /\ DOMAIN strings = Strings /\ DOMAIN meant = Strings
  BY <1>1 DEF Constructed, Shape
<1>4. /\ DOMAIN strings' = Strings /\ DOMAIN meant' = Strings
      /\ strings'[x] = h /\ meant'[x] = t
      /\ \A z \in Strings : z # x => strings'[z] = strings[z] /\ meant'[z] = meant[z]
  BY <1>3
<1> HIDE DEF n
<1>5. /\ h = Sso(t) => blocks' = blocks
      /\ h = Owner(n, Len(t)) =>
           /\ blocks' \in Seq(BlockType)
           /\ DOMAIN blocks' = DOMAIN blocks \cup {n} /\ n \notin DOMAIN blocks
           /\ blocks'[n] = [text |-> t, live |-> TRUE]
           /\ \A b \in DOMAIN blocks : blocks'[b] = blocks[b]
           /\ Live(blocks') = Live(blocks) \cup {n} /\ n \notin Live(blocks)
  <2>1. n = Len(blocks) + 1
    BY DEF n
  <2>2. CASE h = Sso(t)
    <3>1. blocks' = blocks
      BY <1>3, <2>2, SsoTakesNone
    <3>2. h.form # "owner" /\ Owner(n, Len(t)).form = "owner"
      BY <2>2 DEF Sso, Owner, Handle
    <3>3. QED BY <3>1, <3>2
  <2>3. CASE h = Owner(n, Len(t))
    <3>1. h.form = "owner" /\ Sso(t).form = "sso"
      BY <2>3 DEF Sso, Owner, Handle
    <3>2. h # Sso(t)
      BY <3>1
    <3>3. blocks' = AllocatedFor(Owner(n, Len(t)), t)
      BY <1>3, <2>3
    <3> DEFINE bs == blocks'
    <3>4. Shape /\ n = Len(blocks) + 1 /\ bs = AllocatedFor(Owner(n, Len(t)), t)
      BY <1>1, <2>1, <3>3
    <3> HIDE DEF bs
    <3>5. Grown(bs, n, t)
      BY <3>4, AllocIs
    <3>6. Live(bs) = Live(blocks) \cup {n} /\ n \notin Live(blocks)
      BY <3>4, LiveAlloc
    <3>7. QED BY <3>2, <3>5, <3>6 DEF bs, Grown
  <2>4. QED BY <2>1, <2>2, <2>3
<1>6. h = Sso(t) \/ h = Owner(n, Len(t))
  BY DEF n
<1>7. Loses({})
  BY <1>2, <1>4, <1>5, <1>6 DEF Loses
<1>8. Lost({}) = {}
  BY DEF Lost
<1>9. Reads(h, t, strings', blocks')
  <2>1. h = Owner(n, Len(t)) => n \in DOMAIN blocks' /\ blocks'[n] = [text |-> t, live |-> TRUE]
    BY <1>5
  <2>2. Reads(Sso(t), t, strings', blocks')
    BY FreshReads
  <2>3. h = Owner(n, Len(t)) => Reads(Owner(n, Len(t)), t, strings', blocks')
    BY <2>1, FreshReads
  <2>4. QED BY <1>6, <2>2, <2>3
<1>10. Reading'
  <2>1. \A z \in Strings : z \notin {x} => strings'[z] = strings[z] /\ meant'[z] = meant[z]
    BY <1>4
  <2>2. \A z \in Strings : z \notin {x} /\ z \notin stale' =>
               z \notin stale /\ (strings[z].form = "view" => strings[z].at \notin Lost({}))
    BY <1>3, <1>8
  <2>3. \A z \in Strings : z \in {x} /\ strings'[z].form # "gone" /\ z \notin stale' =>
               Reads(strings'[z], meant'[z], strings', blocks')
    BY <1>4, <1>9
  <2>4. {} \in SUBSET Strings /\ {} \subseteq {x}
    OBVIOUS
  <2>5. QED BY <1>1, <1>7, <2>1, <2>2, <2>3, <2>4, ReadingStays
<1>11. Owning(strings', Live(blocks'))
  <2>1. CASE h = Sso(t)
    <3>1. h.form # "owner"
      BY <2>1 DEF Sso, Handle
    <3>2. Owning(strings', Live(blocks))
      BY <1>1, <1>2, <1>4, <3>1, OwnPlain
    <3>3. QED BY <1>5, <2>1, <3>2
  <2>2. CASE h = Owner(n, Len(t))
    <3>1. h.form = "owner" /\ h.at = <<"block", n>>
      BY <2>2 DEF Owner, Handle
    <3>2. /\ strings[x].form # "owner" /\ strings'[x].form = "owner"
          /\ strings'[x].at = <<"block", n>> /\ n \notin Live(blocks)
          /\ \A z \in Strings : z # x => strings'[z] = strings[z]
      BY <1>2, <1>4, <1>5, <2>2, <3>1
    <3>3. Owning(strings', Live(blocks) \cup {n})
      BY <1>1, <3>2, OwnAlloc
    <3>4. QED BY <1>5, <2>2, <3>3
  <2>3. QED BY <1>6, <2>1, <2>2
<1>12. Shape'
  <2>1. blocks' \in Seq(BlockType)
    BY <1>1, <1>5, <1>6 DEF Shape
  <2>2. stale' \subseteq Strings /\ \A z \in stale' : strings'[z].form = "view"
    BY <1>1, <1>2, <1>3, <1>4 DEF Shape
  <2>3. /\ \A z \in Strings : z \notin {x} => meant'[z] = meant[z]
        /\ \A z \in Strings : z \in {x} => meant'[z] \in Seq(Code)
    BY <1>4
  <2>4. QED BY <1>1, <1>4, <2>1, <2>2, <2>3, ShapeStays
<1>13. QED BY <1>10, <1>11, <1>12 DEF StoreIInv

(* x gets the handle h, which owns nothing.                                *)
Viewing(x, h, t) ==
    /\ strings' = [strings EXCEPT ![x] = h] /\ meant' = [meant EXCEPT ![x] = t]
    /\ UNCHANGED <<blocks, stale>>

(* A new string that keeps its text in itself or views a usable one.       *)
LEMMA NewView ==
    ASSUME StoreIInv, NEW x \in Strings, x \notin Alive, NEW t \in Seq(Code), NEW h,
           Reads(h, t, strings, blocks), h.form \in {"sso", "view"},
           Viewing(x, h, t)
    PROVE  StoreIInv'
<1>1. Shape /\ Reading /\ Owning(strings, Live(blocks))
  BY DEF StoreIInv
<1>2. strings[x].form = "gone" /\ x \notin stale
  BY <1>1, NotAlive
<1>3. /\ DOMAIN strings = Strings /\ DOMAIN meant = Strings
      /\ blocks' = blocks /\ stale' = stale
  BY <1>1 DEF Shape, Viewing
<1>4. /\ DOMAIN strings' = Strings /\ DOMAIN meant' = Strings
      /\ strings'[x] = h /\ meant'[x] = t
      /\ \A z \in Strings : z # x => strings'[z] = strings[z] /\ meant'[z] = meant[z]
  BY <1>3 DEF Viewing
<1>5. Lost({}) = {}
  BY DEF Lost
<1>6. Loses({})
  BY <1>2, <1>3, <1>4 DEF Loses
<1>7. Reads(h, t, strings', blocks')
  BY <1>1, <1>5, <1>6, Survives
<1>8. Reading'
  <2>1. \A z \in Strings : z \notin {x} => strings'[z] = strings[z] /\ meant'[z] = meant[z]
    BY <1>4
  <2>2. \A z \in Strings : z \notin {x} /\ z \notin stale' =>
               z \notin stale /\ (strings[z].form = "view" => strings[z].at \notin Lost({}))
    BY <1>3, <1>5
  <2>3. \A z \in Strings : z \in {x} /\ strings'[z].form # "gone" /\ z \notin stale' =>
               Reads(strings'[z], meant'[z], strings', blocks')
    BY <1>4, <1>7
  <2>4. {} \in SUBSET Strings /\ {} \subseteq {x}
    OBVIOUS
  <2>5. QED BY <1>1, <1>6, <2>1, <2>2, <2>3, <2>4, ReadingStays
<1>9. Owning(strings', Live(blocks'))
  <2>1. /\ strings[x].form # "owner" /\ strings'[x].form # "owner"
        /\ \A z \in Strings : z # x => strings'[z] = strings[z]
    BY <1>2, <1>4
  <2>2. Owning(strings', Live(blocks))
    BY <1>1, <2>1, OwnPlain
  <2>3. QED BY <1>3, <2>2
<1>10. Shape'
  <2>1. blocks' \in Seq(BlockType) /\ stale' \subseteq Strings
        /\ \A z \in stale' : strings'[z].form = "view"
    BY <1>1, <1>2, <1>3, <1>4 DEF Shape
  <2>2. /\ \A z \in Strings : z \notin {x} => meant'[z] = meant[z]
        /\ \A z \in Strings : z \in {x} => meant'[z] \in Seq(Code)
    BY <1>4
  <2>3. QED BY <1>1, <1>4, <2>1, <2>2, ShapeStays
<1>11. QED BY <1>8, <1>9, <1>10 DEF StoreIInv

(* The parts of the invariant.                                             *)
LEMMA Unpacked ==
    ASSUME StoreIInv
    PROVE  /\ Shape /\ Reading /\ Owning(strings, Live(blocks))
           /\ DOMAIN strings = Strings /\ DOMAIN meant = Strings
           /\ blocks \in Seq(BlockType)
           /\ \A x \in Strings : strings[x].form = "owner"
                  => \E b \in DOMAIN blocks : strings[x].at = <<"block", b>>
  BY OwnersBlock DEF StoreIInv, Shape

(* The strings C change, the memory of xs is lost, and x is one of them.   *)
LEMMA Lossy ==
    ASSUME StoreIInv, NEW C, NEW xs \in SUBSET Strings, xs \subseteq C,
           NEW x \in Strings, x \in C, Loses(xs),
           DOMAIN strings' = Strings, DOMAIN meant' = Strings,
           \A z \in Strings : z \notin C => strings'[z] = strings[z] /\ meant'[z] = meant[z],
           \A z \in Strings : z \in C => meant'[z] \in Seq(Code),
           blocks' \in Seq(BlockType), stale' = StaleAfter(x, xs, strings'),
           Owning(strings', Live(blocks')),
           \A z \in Strings : z \in C /\ strings'[z].form # "gone" /\ z \notin stale' =>
               Reads(strings'[z], meant'[z], strings', blocks')
    PROVE  StoreIInv'
<1>1. Shape /\ Reading /\ Owning(strings, Live(blocks))
  BY DEF StoreIInv
<1>2. \A z \in Strings : z \notin C => strings'[z] = strings[z]
  OBVIOUS
<1>3. /\ stale' \subseteq Strings /\ \A v \in stale' : strings'[v].form = "view"
      /\ \A z \in Strings : z \notin C /\ z \notin stale' =>
             z \notin stale /\ (strings[z].form = "view" => strings[z].at \notin Lost(xs))
  BY <1>1, <1>2, StaleIs
<1>4. Reading'
  BY <1>1, <1>3, ReadingStays
<1>5. Shape'
  BY <1>1, <1>3, ShapeStays
<1>6. QED BY <1>4, <1>5 DEF StoreIInv

(* The move constructor.                                                   *)
LEMMA MoveKeeps ==
    ASSUME StoreIInv, NEW x \in Strings, NEW y \in Usable, MoveString(x, y)
    PROVE  StoreIInv'
<1> DEFINE C == {x, y}
           xs == IF strings[y].form = "sso" THEN {y} ELSE {}
<1>1. /\ Shape /\ Reading /\ Owning(strings, Live(blocks))
      /\ DOMAIN strings = Strings /\ DOMAIN meant = Strings /\ blocks \in Seq(BlockType)
  BY Unpacked
<1>2. y \in Strings /\ y \in Alive /\ strings[x].form = "gone" /\ x # y
  BY <1>1, NotAlive DEF Usable, Alive, MoveString
<1>3. /\ DOMAIN strings' = Strings /\ DOMAIN meant' = Strings
      /\ strings'[x] = strings[y] /\ meant'[x] = meant[y]
      /\ strings'[y] = MovedFrom /\ meant'[y] = <<>>
      /\ \A z \in Strings : z \notin C => strings'[z] = strings[z] /\ meant'[z] = meant[z]
      /\ blocks' = blocks /\ stale' = StaleAfter(x, xs, strings')
  BY <1>1, <1>2 DEF MoveString
<1>4. MovedFrom.form = "view" /\ MovedFrom.len = 0
  BY DEF MovedFrom, Handle
<1>5. xs \in SUBSET Strings /\ xs \subseteq C /\ x \in C
  BY <1>2
<1>6. Loses(xs)
  BY <1>2, <1>3 DEF Loses
<1>7. meant[y] \in Seq(Code) /\ Reads(strings[y], meant[y], strings, blocks)
  BY <1>1, UsableReads
<1>8. \A z \in Strings : z \in C => meant'[z] \in Seq(Code)
  <2>1. <<>> \in Seq(Code)
    BY EmptySeq
  <2>2. QED BY <1>3, <1>7, <2>1
<1>9. Owning(strings', Live(blocks'))
  <2>1. /\ strings[x].form # "owner" /\ strings'[y].form # "owner" /\ strings'[x] = strings[y]
        /\ \A z \in Strings : z # x /\ z # y => strings'[z] = strings[z]
    BY <1>2, <1>3, <1>4
  <2>2. Owning(strings', Live(blocks))
    BY <1>1, <1>2, <2>1, OwnMove
  <2>3. QED BY <1>3, <2>2
<1>10. Reads(strings'[y], meant'[y], strings', blocks')
  <2>1. Len(<<>>) = 0
    BY EmptySeq
  <2>2. QED BY <1>3, <1>4, <2>1 DEF Reads
<1>11. ASSUME x \notin stale' PROVE Reads(strings'[x], meant'[x], strings', blocks')
  <2>1. \A z \in Strings : z \notin C => strings'[z] = strings[z]
    BY <1>3
  <2> HIDE DEF C, xs
  <2>2. strings'[x].form = "view" => strings'[x].at \notin Lost(xs)
    BY <1>1, <1>3, <1>5, <1>11, <2>1, StaleIs
  <2>3. strings[y].form = "owner" => strings[y].at \notin Lost(xs)
    <3>1. strings[y].form = "owner" => y \notin xs
      BY DEF xs
    <3>2. QED BY <1>1, <1>2, <1>5, <3>1, OwnedStays
  <2>4. strings[y].form \in {"owner", "view"} => strings[y].at \notin Lost(xs)
    BY <1>3, <2>2, <2>3
  <2>5. Reads(strings[y], meant[y], strings', blocks')
    BY <1>1, <1>6, <1>7, <2>4, Survives
  <2>6. QED BY <1>3, <2>5
<1>12. \A z \in Strings : z \in C /\ strings'[z].form # "gone" /\ z \notin stale' =>
               Reads(strings'[z], meant'[z], strings', blocks')
  BY <1>10, <1>11
<1>13. blocks' \in Seq(BlockType)
  BY <1>1, <1>3
<1> HIDE DEF C, xs
<1>14. QED BY <1>3, <1>5, <1>6, <1>8, <1>9, <1>12, <1>13, Lossy

(* x gives its memory back.                                                *)
LEMMA FreeIs ==
    ASSUME StoreIInv, NEW x \in Strings
    PROVE  /\ Freed(blocks, x) \in Seq(BlockType)
           /\ Live(Freed(blocks, x)) = {b \in Live(blocks) : ~Owns(strings[x], b)}
           /\ \A xs : x \in xs => \A b \in DOMAIN blocks :
                  blocks[b].live /\ <<"block", b>> \notin Lost(xs) =>
                      b \in DOMAIN Freed(blocks, x) /\ Freed(blocks, x)[b] = blocks[b]
  BY Unpacked, FreedIs, LiveFreed, FreedLoses

(* x gives its memory back and gets the handle h.                          *)
Replacing(x, h, t) ==
    /\ strings' = [strings EXCEPT ![x] = h]
    /\ meant' = [meant EXCEPT ![x] = t]
    /\ blocks' = Freed(blocks, x)
    /\ stale' = StaleAfter(x, {x}, strings')

(* Assignment and destruction.                                             *)
LEMMA ReplaceKeeps ==
    ASSUME StoreIInv, NEW x \in Strings, NEW t \in Seq(Code), NEW h, Replacing(x, h, t),
           \/ h = Gone
           \/ Reads(h, t, strings, blocks) /\ h.form \in {"sso", "view"}
    PROVE  StoreIInv'
<1> DEFINE C == {x}
<1>1. /\ Shape /\ Reading /\ Owning(strings, Live(blocks))
      /\ DOMAIN strings = Strings /\ DOMAIN meant = Strings /\ blocks \in Seq(BlockType)
  BY Unpacked
<1>2. /\ DOMAIN strings' = Strings /\ DOMAIN meant' = Strings
      /\ strings'[x] = h /\ meant'[x] = t
      /\ \A z \in Strings : z \notin C => strings'[z] = strings[z] /\ meant'[z] = meant[z]
      /\ blocks' = Freed(blocks, x) /\ stale' = StaleAfter(x, C, strings')
  BY <1>1 DEF Replacing
<1>3. C \in SUBSET Strings /\ C \subseteq C /\ x \in C
  OBVIOUS
<1>4. Loses(C)
  <2>1. \A b \in DOMAIN blocks : blocks[b].live /\ <<"block", b>> \notin Lost(C) =>
          b \in DOMAIN blocks' /\ blocks'[b] = blocks[b]
    BY <1>2, <1>3, FreeIs
  <2>2. QED BY <1>2, <2>1 DEF Loses
<1>5. h.form \in {"gone", "sso", "view"} /\ Gone.form = "gone"
  BY DEF Gone, Handle
<1>6. Owning(strings', Live(blocks'))
  <2>1. (\A z \in Strings : z # x => strings'[z] = strings[z]) /\ strings'[x].form # "owner"
    BY <1>2, <1>5
  <2>2. Owning(strings', {b \in Live(blocks) : ~Owns(strings[x], b)})
    BY <1>1, <2>1, OwnFree
  <2>3. Live(blocks') = {b \in Live(blocks) : ~Owns(strings[x], b)}
    BY <1>2, FreeIs
  <2>4. QED BY <2>2, <2>3
<1>7. blocks' \in Seq(BlockType)
  BY <1>2, FreeIs
<1>8. ASSUME strings'[x].form # "gone", x \notin stale'
      PROVE  Reads(strings'[x], meant'[x], strings', blocks')
  <2>1. Reads(h, t, strings, blocks) /\ h.form \in {"sso", "view"}
    BY <1>2, <1>5, <1>8
  <2>2. \A z \in Strings : z \notin C => strings'[z] = strings[z]
    BY <1>2
  <2> HIDE DEF C
  <2>3. h.form = "view" => h.at \notin Lost(C)
    BY <1>1, <1>2, <1>3, <1>8, <2>2, StaleIs
  <2>4. h.form \in {"owner", "view"} => h.at \notin Lost(C)
    BY <2>1, <2>3
  <2>5. Reads(h, t, strings', blocks')
    BY <1>1, <1>4, <2>1, <2>4, Survives
  <2>6. QED BY <1>2, <2>5
<1>9. /\ \A z \in Strings : z \in C => meant'[z] \in Seq(Code)
      /\ \A z \in Strings : z \in C /\ strings'[z].form # "gone" /\ z \notin stale' =>
               Reads(strings'[z], meant'[z], strings', blocks')
  BY <1>2, <1>8
<1> HIDE DEF C
<1>10. QED BY <1>2, <1>3, <1>4, <1>6, <1>7, <1>9, Lossy

(* The destructor.                                                         *)
LEMMA DestroyKeeps ==
    ASSUME StoreIInv, NEW x \in Strings, Destroy(x)
    PROVE  StoreIInv'
<1>1. <<>> \in Seq(Code)
  BY EmptySeq
<1>2. Replacing(x, Gone, <<>>)
  BY DEF Destroy, Replacing
<1>3. QED BY <1>1, <1>2, ReplaceKeeps

(* Assignment of a copy.                                                   *)
LEMMA AssignKeeps ==
    ASSUME StoreIInv, NEW x \in Strings, NEW y \in Usable, AssignString(x, y)
    PROVE  StoreIInv'
<1>1. Shape /\ Reading
  BY Unpacked
<1>2. meant[y] \in Seq(Code)
  BY <1>1, UsableReads
<1>3. Reads(CopyOf(y), meant[y], strings, blocks) /\ CopyOf(y).form \in {"sso", "view"}
  BY <1>1, CopyReads
<1>4. Replacing(x, CopyOf(y), meant[y])
  BY DEF AssignString, Replacing
<1>5. QED BY <1>2, <1>3, <1>4, ReplaceKeeps

(* Assignment of a string that is moved from.                              *)
LEMMA MoveAssignKeeps ==
    ASSUME StoreIInv, NEW x \in Strings, NEW y \in Usable, MoveAssignString(x, y)
    PROVE  StoreIInv'
<1> DEFINE C == {x, y}
           xs == {x} \cup IF strings[y].form = "sso" THEN {y} ELSE {}
           M == {b \in Live(blocks) : ~Owns(strings[x], b)}
           mid == [z \in Strings |-> IF z = x THEN Gone ELSE strings[z]]
<1>1. /\ Shape /\ Reading /\ Owning(strings, Live(blocks))
      /\ DOMAIN strings = Strings /\ DOMAIN meant = Strings /\ blocks \in Seq(BlockType)
  BY Unpacked
<1>2. y \in Strings /\ x # y
  BY DEF Usable, Alive, MoveAssignString
<1>3. /\ DOMAIN strings' = Strings /\ DOMAIN meant' = Strings
      /\ strings'[x] = strings[y] /\ meant'[x] = meant[y]
      /\ strings'[y] = MovedFrom /\ meant'[y] = <<>>
      /\ \A z \in Strings : z \notin C => strings'[z] = strings[z] /\ meant'[z] = meant[z]
      /\ blocks' = Freed(blocks, x) /\ stale' = StaleAfter(x, xs, strings')
  BY <1>1, <1>2 DEF MoveAssignString
<1>4. MovedFrom.form = "view" /\ MovedFrom.len = 0 /\ Gone.form = "gone"
  BY DEF MovedFrom, Gone, Handle
<1>5. xs \in SUBSET Strings /\ xs \subseteq C /\ x \in C /\ x \in xs
  BY <1>2
<1>6. Loses(xs)
  <2>1. \A z \in Strings : z \notin xs /\ strings[z].form = "sso" => z \notin C
    OBVIOUS
  <2> HIDE DEF xs
  <2>2. \A b \in DOMAIN blocks : blocks[b].live /\ <<"block", b>> \notin Lost(xs) =>
          b \in DOMAIN blocks' /\ blocks'[b] = blocks[b]
    BY <1>3, <1>5, FreeIs
  <2>3. QED BY <1>3, <2>1, <2>2 DEF Loses
<1>7. meant[y] \in Seq(Code) /\ Reads(strings[y], meant[y], strings, blocks)
  BY <1>1, UsableReads
<1>8. \A z \in Strings : z \in C => meant'[z] \in Seq(Code)
  <2>1. <<>> \in Seq(Code)
    BY EmptySeq
  <2>2. QED BY <1>3, <1>7, <2>1
<1>9. Owning(strings', Live(blocks'))
  <2>1. mid[x] = Gone /\ \A z \in Strings : z # x => mid[z] = strings[z]
    OBVIOUS
  <2> HIDE DEF mid, M
  <2>2. mid[x].form # "owner"
    BY <1>4, <2>1
  <2>3. Owning(mid, M)
    BY <1>1, <2>1, <2>2, OwnFree DEF M
  <2>4. /\ strings'[y].form # "owner" /\ strings'[x] = mid[y]
        /\ \A z \in Strings : z # x /\ z # y => strings'[z] = mid[z]
    BY <1>2, <1>3, <1>4, <2>1
  <2>5. Owning(strings', M)
    BY <1>2, <2>2, <2>3, <2>4, OwnMove
  <2>6. Live(blocks') = M
    BY <1>3, FreeIs DEF M
  <2>7. QED BY <2>5, <2>6
<1>10. Reads(strings'[y], meant'[y], strings', blocks')
  <2>1. Len(<<>>) = 0
    BY EmptySeq
  <2>2. QED BY <1>3, <1>4, <2>1 DEF Reads
<1>11. ASSUME x \notin stale' PROVE Reads(strings'[x], meant'[x], strings', blocks')
  <2>1. \A z \in Strings : z \notin C => strings'[z] = strings[z]
    BY <1>3
  <2>2. strings[y].form = "owner" => y \notin xs
    BY <1>2
  <2> HIDE DEF C, xs
  <2>3. strings'[x].form = "view" => strings'[x].at \notin Lost(xs)
    BY <1>1, <1>3, <1>5, <1>11, <2>1, StaleIs
  <2>4. strings[y].form = "owner" => strings[y].at \notin Lost(xs)
    BY <1>1, <1>2, <1>5, <2>2, OwnedStays
  <2>5. strings[y].form \in {"owner", "view"} => strings[y].at \notin Lost(xs)
    BY <1>3, <2>3, <2>4
  <2>6. Reads(strings[y], meant[y], strings', blocks')
    BY <1>1, <1>6, <1>7, <2>5, Survives
  <2>7. QED BY <1>3, <2>6
<1>12. \A z \in Strings : z \in C /\ strings'[z].form # "gone" /\ z \notin stale' =>
               Reads(strings'[z], meant'[z], strings', blocks')
  BY <1>10, <1>11
<1>13. blocks' \in Seq(BlockType)
  BY <1>3, FreeIs
<1> HIDE DEF C, xs, M, mid
<1>14. QED BY <1>3, <1>5, <1>6, <1>8, <1>9, <1>12, <1>13, Lossy

-----------------------------------------------------------------------------
(* operator+=.                                                             *)

(* What both of its ways start from.                                       *)
LEMMA AppendIs ==
    ASSUME StoreIInv, NEW x \in Usable, NEW y \in Usable, AppendTo(x, y),
           NEW t, t = meant[x] \o meant[y]
    PROVE  /\ x \in Strings /\ t \in Seq(Code)
           /\ DOMAIN strings' = Strings /\ DOMAIN meant' = Strings
           /\ strings'[x] = Assigned(t) /\ meant'[x] = t
           /\ \A z \in Strings : z \notin {x} => strings'[z] = strings[z] /\ meant'[z] = meant[z]
           /\ blocks' = Freed(AllocatedFor(Assigned(t), t), x)
           /\ stale' = IF strings[x].form = "sso" /\ Len(t) <= SsoSize THEN stale
                       ELSE StaleAfter(x, {x}, strings')
<1>1. Shape /\ Reading /\ DOMAIN strings = Strings /\ DOMAIN meant = Strings
  BY Unpacked
<1>2. /\ x \in Strings /\ TextOf(x) \o TextOf(y) = t
      /\ meant[x] \in Seq(Code) /\ meant[y] \in Seq(Code)
  BY <1>1, UsableReads DEF Usable, Alive
<1>3. t \in Seq(Code)
  BY <1>2, ConcatProperties
<1>4. QED BY <1>1, <1>2, <1>3 DEF AppendTo

(* A text begins with the first of the two it was joined from.             *)
LEMMA JoinIs ==
    ASSUME NEW S, NEW s \in Seq(S), NEW u \in Seq(S), NEW t, t = s \o u
    PROVE  /\ t \in Seq(S) /\ Len(s) \in Nat /\ Len(t) \in Nat /\ Len(s) <= Len(t)
           /\ \A i \in 1 .. Len(s) : t[i] = s[i]
<1>1. Len(s) \in Nat /\ Len(u) \in Nat
  BY LenProperties
<1>2. /\ t \in Seq(S) /\ Len(t) = Len(s) + Len(u)
      /\ \A i \in 1 .. Len(s) + Len(u) : t[i] = IF i <= Len(s) THEN s[i] ELSE u[i - Len(s)]
  BY ConcatProperties
<1>3. QED BY <1>1, <1>2

(* += of a short text that stays short: views of it read on.               *)
LEMMA AppendInPlace ==
    ASSUME StoreIInv, NEW x \in Usable, NEW y \in Usable, AppendTo(x, y),
           strings[x].form = "sso", Len(meant[x] \o meant[y]) <= SsoSize
    PROVE  StoreIInv'
<1> DEFINE t == meant[x] \o meant[y]
           m == meant[x]
<1>1. /\ Shape /\ Reading /\ Owning(strings, Live(blocks)) /\ blocks \in Seq(BlockType)
  BY Unpacked
<1>2. /\ strings[x] = Sso(m) /\ m \in Seq(Code) /\ meant[y] \in Seq(Code)
  BY <1>1, Inside, UsableReads DEF Usable, Alive
<1>3. /\ t \in Seq(Code) /\ Len(m) \in Nat /\ Len(t) \in Nat /\ Len(m) <= Len(t)
      /\ \A i \in 1 .. Len(m) : t[i] = m[i]
  <2>1. t = m \o meant[y]
    OBVIOUS
  <2> HIDE DEF t, m
  <2>2. QED BY <1>2, <2>1, JoinIs
<1>6. Assigned(t) = Sso(t)
  BY DEF Assigned
<1>7. /\ x \in Strings
      /\ DOMAIN strings' = Strings /\ DOMAIN meant' = Strings
      /\ strings'[x] = Sso(t) /\ meant'[x] = t
      /\ \A z \in Strings : z \notin {x} => strings'[z] = strings[z] /\ meant'[z] = meant[z]
      /\ blocks' = Freed(AllocatedFor(Sso(t), t), x) /\ stale' = stale
  <2>1. t = meant[x] \o meant[y] /\ Len(t) <= SsoSize
    OBVIOUS
  <2> HIDE DEF t
  <2>2. QED BY <1>6, <2>1, AppendIs
<1> HIDE DEF t
<1>8. Sso(t).form = "sso" /\ Sso(t).short = t /\ Sso(m).form = "sso" /\ Sso(m).short = m
  BY DEF Sso, Handle
<1>9. blocks' = blocks
  BY <1>2, <1>7, <1>8 DEF AllocatedFor, Freed
<1>10. Loses({})
  <2>1. strings[x].short = m /\ strings'[x].short = t /\ strings'[x].form = "sso"
    BY <1>2, <1>7, <1>8
  <2> HIDE DEF m
  <2>2. /\ Len(strings'[x].short) \in Nat
        /\ Len(strings[x].short) <= Len(strings'[x].short)
        /\ \A i \in 1 .. Len(strings[x].short) : strings'[x].short[i] = strings[x].short[i]
    BY <1>3, <2>1
  <2>3. QED BY <1>7, <1>9, <2>1, <2>2 DEF Loses
<1>11. Lost({}) = {} /\ {} \in SUBSET Strings /\ {} \subseteq {x}
  BY DEF Lost
<1>12. Reading'
  <2>1. \A z \in Strings : z \notin {x} /\ z \notin stale' =>
               z \notin stale /\ (strings[z].form = "view" => strings[z].at \notin Lost({}))
    BY <1>7, <1>11
  <2>2. Reads(Sso(t), t, strings', blocks')
    BY <1>3, FreshReads
  <2>3. \A z \in Strings : z \in {x} /\ strings'[z].form # "gone" /\ z \notin stale' =>
               Reads(strings'[z], meant'[z], strings', blocks')
    BY <1>7, <2>2
  <2>4. QED BY <1>1, <1>7, <1>10, <1>11, <2>1, <2>3, ReadingStays
<1>13. Owning(strings', Live(blocks'))
  <2>1. /\ strings[x].form # "owner" /\ strings'[x].form # "owner"
        /\ \A z \in Strings : z # x => strings'[z] = strings[z]
    BY <1>7, <1>8
  <2>2. Owning(strings', Live(blocks))
    BY <1>1, <1>7, <2>1, OwnPlain
  <2>3. QED BY <1>9, <2>2
<1>14. Shape'
  <2>1. stale' \subseteq Strings /\ \A z \in stale' : strings'[z].form = "view"
    BY <1>1, <1>7 DEF Shape
  <2>2. \A z \in Strings : z \in {x} => meant'[z] \in Seq(Code)
    BY <1>3, <1>7
  <2>3. QED BY <1>1, <1>7, <1>9, <2>1, <2>2, ShapeStays
<1>15. QED BY <1>12, <1>13, <1>14 DEF StoreIInv

(* += through a temporary: views of the target become stale.               *)
LEMMA AppendAnew ==
    ASSUME StoreIInv, NEW x \in Usable, NEW y \in Usable, AppendTo(x, y),
           ~(strings[x].form = "sso" /\ Len(meant[x] \o meant[y]) <= SsoSize)
    PROVE  StoreIInv'
<1> DEFINE t == meant[x] \o meant[y]
           h == Assigned(t)
           n == Len(blocks) + 1
           bs == AllocatedFor(h, t)
           C == {x}
           M == {b \in Live(blocks) : ~Owns(strings[x], b)}
           mid == [z \in Strings |-> IF z = x THEN Gone ELSE strings[z]]
<1>1. /\ Shape /\ Reading /\ Owning(strings, Live(blocks))
      /\ DOMAIN strings = Strings /\ blocks \in Seq(BlockType)
  BY Unpacked
<1>2. /\ x \in Strings /\ t \in Seq(Code)
      /\ DOMAIN strings' = Strings /\ DOMAIN meant' = Strings
      /\ strings'[x] = h /\ meant'[x] = t
      /\ \A z \in Strings : z \notin C => strings'[z] = strings[z] /\ meant'[z] = meant[z]
      /\ blocks' = Freed(bs, x) /\ stale' = StaleAfter(x, C, strings')
  BY AppendIs
<1>3. h = Sso(t) \/ h = Owner(n, Len(t))
  BY DEF Assigned
<1>4. mid[x] = Gone /\ \A z \in Strings : z # x => mid[z] = strings[z]
  BY <1>2
<1> HIDE DEF t, h, mid
<1>5. mid[x].form # "owner"
  BY <1>4 DEF Gone, Handle
<1>6. Owning(mid, M)
  <2> HIDE DEF M
  <2>1. QED BY <1>1, <1>2, <1>4, <1>5, OwnFree DEF M
<1>7. /\ bs \in Seq(BlockType)
      /\ \A b \in DOMAIN blocks : b \in DOMAIN bs /\ bs[b] = blocks[b]
      /\ Reads(h, t, strings', Freed(bs, x))
      /\ Live(Freed(bs, x)) = IF h = Sso(t) THEN M ELSE M \cup {n}
      /\ h # Sso(t) => n \notin Live(blocks)
  <2>1. CASE h = Sso(t)
    <3>1. bs = blocks
      BY <2>1, SsoTakesNone
    <3>2. Reads(h, t, strings', Freed(bs, x))
      BY <1>2, <2>1, FreshReads
    <3>3. Live(Freed(blocks, x)) = M
      BY <1>2, FreeIs
    <3> HIDE DEF bs, M
    <3>4. QED BY <1>1, <2>1, <3>1, <3>2, <3>3
  <2>2. CASE h = Owner(n, Len(t))
    <3>0. Grown(bs, n, t)
      <4>1. Shape /\ t \in Seq(Code) /\ n = Len(blocks) + 1 /\ bs = AllocatedFor(Owner(n, Len(t)), t)
        BY <1>1, <1>2, <2>2
      <4> HIDE DEF n, bs
      <4>2. QED BY <4>1, AllocIs
    <3>2. Live(bs) = Live(blocks) \cup {n} /\ n \notin Live(blocks)
      <4>1. Shape /\ t \in Seq(Code) /\ n = Len(blocks) + 1 /\ bs = AllocatedFor(Owner(n, Len(t)), t)
        BY <1>1, <1>2, <2>2
      <4> HIDE DEF n, bs
      <4>2. QED BY <4>1, LiveAlloc
    <3>3. h # Sso(t)
      BY <2>2 DEF Owner, Sso, Handle
    <3> HIDE DEF bs, n
    <3>1. /\ bs \in Seq(BlockType)
          /\ DOMAIN bs = DOMAIN blocks \cup {n} /\ n \notin DOMAIN blocks
          /\ bs[n] = [text |-> t, live |-> TRUE]
          /\ \A b \in DOMAIN blocks : bs[b] = blocks[b]
      BY <3>0 DEF Grown
    <3>4. strings[x].form = "owner" => \E b \in DOMAIN blocks : strings[x].at = <<"block", b>>
      BY <1>2, Unpacked
    <3>5. strings[x].form = "owner" => \E b \in DOMAIN bs : strings[x].at = <<"block", b>>
      BY <3>1, <3>4
    <3>6. ~Owns(strings[x], n)
      BY <3>1, <3>4 DEF Owns
    <3>7. n \in DOMAIN bs /\ DOMAIN Freed(bs, x) = DOMAIN bs /\ Freed(bs, x)[n] = bs[n]
      <4>1. /\ DOMAIN Freed(bs, x) = DOMAIN bs
            /\ \A b \in DOMAIN bs : Freed(bs, x)[b] =
                   IF Owns(strings[x], b) THEN [text |-> <<>>, live |-> FALSE] ELSE bs[b]
        BY <1>2, <3>1, <3>5, FreedIs
      <4>2. n \in DOMAIN bs
        BY <3>1
      <4>3. QED BY <3>6, <4>1, <4>2
    <3>8. Reads(h, t, strings', Freed(bs, x))
      <4> DEFINE fs == Freed(bs, x)
      <4>1. n \in DOMAIN fs /\ fs[n] = [text |-> t, live |-> TRUE]
        BY <3>1, <3>7
      <4> HIDE DEF fs
      <4>2. Reads(Owner(n, Len(t)), t, strings', fs)
        BY <1>2, <4>1, FreshReads
      <4>3. QED BY <2>2, <4>2 DEF fs
    <3>9. Live(Freed(bs, x)) = {b \in Live(bs) : ~Owns(strings[x], b)}
      BY <1>2, <3>1, <3>5, LiveFreed
    <3>10. {b \in Live(bs) : ~Owns(strings[x], b)} = M \cup {n}
      BY <3>2, <3>6
    <3> HIDE DEF M
    <3>11. QED BY <3>1, <3>2, <3>3, <3>8, <3>9, <3>10
  <2>3. QED BY <1>3, <2>1, <2>2
<1>8. strings[x].form = "owner" => \E b \in DOMAIN bs : strings[x].at = <<"block", b>>
  <2> HIDE DEF bs
  <2>1. QED BY <1>2, <1>7, Unpacked
<1> HIDE DEF bs
<1>9. blocks' \in Seq(BlockType)
  BY <1>2, <1>7, <1>8, FreedIs
<1>10. Loses(C)
  <2>1. ASSUME NEW b \in DOMAIN blocks, <<"block", b>> \notin Lost(C)
        PROVE  b \in DOMAIN blocks' /\ blocks'[b] = blocks[b]
    <3>1. ~Owns(strings[x], b)
      BY <2>1 DEF Lost, Owns
    <3>2. b \in DOMAIN bs /\ bs[b] = blocks[b]
      BY <1>7
    <3>3. b \in DOMAIN Freed(bs, x) /\ Freed(bs, x)[b] = bs[b]
      BY <1>2, <1>7, <1>8, <3>1, <3>2, FreedIs
    <3>4. QED BY <1>2, <3>2, <3>3
  <2>2. QED BY <1>2, <2>1 DEF Loses
<1>11. Owning(strings', Live(blocks'))
  <2>1. CASE h = Sso(t)
    <3>1. (\A z \in Strings : z # x => strings'[z] = strings[z]) /\ strings'[x].form # "owner"
      BY <1>2, <2>1 DEF Sso, Handle
    <3>2. Owning(strings', M)
      BY <1>1, <1>2, <3>1, OwnFree
    <3> HIDE DEF M
    <3>3. Live(blocks') = M
      BY <1>2, <1>7, <2>1
    <3>4. QED BY <3>2, <3>3
  <2>2. CASE h # Sso(t)
    <3>1. n \notin M
      BY <1>7, <2>2
    <3>2. h.form = "owner" /\ h.at = <<"block", n>>
      BY <1>3, <2>2 DEF Owner, Handle
    <3> HIDE DEF M, n
    <3>3. /\ \A z \in Strings : z # x => strings'[z] = mid[z]
          /\ strings'[x].form = "owner" /\ strings'[x].at = <<"block", n>>
      BY <1>2, <1>4, <3>2
    <3>4. Owning(strings', M \cup {n})
      BY <1>2, <1>5, <1>6, <3>1, <3>3, OwnAlloc
    <3>5. Live(blocks') = M \cup {n}
      BY <1>2, <1>7, <2>2
    <3>6. QED BY <3>4, <3>5
  <2>3. QED BY <2>1, <2>2
<1>12. /\ \A z \in Strings : z \in C => meant'[z] \in Seq(Code)
       /\ \A z \in Strings : z \in C /\ strings'[z].form # "gone" /\ z \notin stale' =>
               Reads(strings'[z], meant'[z], strings', blocks')
  <2> HIDE DEF M, n
  <2>1. Reads(h, t, strings', blocks')
    BY <1>2, <1>7
  <2>2. QED BY <1>2, <2>1
<1>13. C \in SUBSET Strings /\ C \subseteq C /\ x \in C
  BY <1>2
<1> HIDE DEF C, M, n
<1>14. QED BY <1>2, <1>9, <1>10, <1>11, <1>12, <1>13, Lossy

(* += on either way.                                                       *)
LEMMA AppendKeeps ==
    ASSUME StoreIInv, NEW x \in Usable, NEW y \in Usable, AppendTo(x, y)
    PROVE  StoreIInv'
  BY AppendInPlace, AppendAnew

-----------------------------------------------------------------------------
(* The operations that make a new string.                                  *)

(* assign_ptr: short texts inside, others in a new block.                  *)
LEMMA AssignedKeeps ==
    ASSUME StoreIInv, NEW x \in Strings, NEW t \in Seq(Code), Constructed(x, Assigned(t), t)
    PROVE  StoreIInv'
<1>1. Assigned(t) = Sso(t) \/ Assigned(t) = Owner(Len(blocks) + 1, Len(t))
  BY DEF Assigned
<1>2. QED BY <1>1, NewString

(* The copy constructor.                                                   *)
LEMMA CopyKeeps ==
    ASSUME StoreIInv, NEW x \in Strings, NEW y \in Usable, CopyString(x, y)
    PROVE  StoreIInv'
<1>1. Shape /\ Reading
  BY Unpacked
<1>2. meant[y] \in Seq(Code)
  BY <1>1, UsableReads
<1>3. Reads(CopyOf(y), meant[y], strings, blocks) /\ CopyOf(y).form \in {"sso", "view"}
  BY <1>1, CopyReads
<1>4. x \notin Alive /\ Viewing(x, CopyOf(y), meant[y])
  BY DEF CopyString, Viewing
<1>5. QED BY <1>2, <1>3, <1>4, NewView

(* vslice(): a short part is copied, a longer one viewed.                  *)
LEMMA VSliceKeeps ==
    ASSUME StoreIInv, NEW z \in Strings, NEW x \in Usable,
           NEW i \in 0 .. strings[x].len, NEW j \in 0 .. strings[x].len
    PROVE  /\ VSlice(TextOf(x), i, j) \in Seq(Code)
           /\ CStringVSlice(z, x, i, j) => StoreIInv'
<1> DEFINE m == meant[x]
           t == VSlice(m, i, j)
           h == IF Len(t) <= SsoSize THEN Sso(t) ELSE ViewOf(x, i, j)
<1>1. Shape /\ Reading
  BY Unpacked
<1>2. m \in Seq(Code) /\ TextOf(x) = m /\ strings[x].len = Len(m) /\ Len(m) \in Nat
  BY <1>1, UsableReads, LenProperties
<1>3. i \in 0 .. Len(m) /\ j \in 0 .. Len(m)
  BY <1>2
<1> HIDE DEF m
<1>4. /\ t \in Seq(Code) /\ Len(t) = IF j > i THEN j - i ELSE 0
      /\ \A k \in 1 .. Len(t) : t[k] = m[i + k]
  BY <1>2, <1>3, SliceAt
<1> HIDE DEF t
<1>5. Reads(h, t, strings, blocks) /\ h.form \in {"sso", "view"}
  <2>1. CASE Len(t) <= SsoSize
    <3>1. Reads(Sso(t), t, strings, blocks)
      BY <1>4, FreshReads
    <3>2. Sso(t).form = "sso"
      BY DEF Sso, Handle
    <3>3. QED BY <2>1, <3>1, <3>2
  <2>2. CASE ~(Len(t) <= SsoSize)
    <3>1. j > i
      BY <1>3, <1>4, <2>2, StoreAssumption
    <3>2. i \in Nat /\ j \in Nat /\ j - i = Len(t) /\ j <= Len(meant[x]) /\ i <= j
      BY <1>2, <1>3, <1>4, <3>1 DEF m
    <3>3. \A k \in 1 .. Len(t) : t[k] = meant[x][i + k]
      BY <1>4 DEF m
    <3>4. Reads(ViewOf(x, i, j), t, strings, blocks) /\ ViewOf(x, i, j).form = "view"
      BY <1>1, <1>4, <3>2, <3>3, ViewReads
    <3>5. QED BY <2>2, <3>4
  <2>3. QED BY <2>1, <2>2
<1>6. VSlice(TextOf(x), i, j) = t
  BY <1>2 DEF t
<1>7. ASSUME CStringVSlice(z, x, i, j) PROVE StoreIInv'
  <2>1. z \notin Alive /\ Viewing(z, h, t)
    BY <1>6, <1>7 DEF CStringVSlice, Viewing
  <2> HIDE DEF h
  <2>2. QED BY <1>4, <1>5, <2>1, NewView
<1>8. QED BY <1>4, <1>6, <1>7

(* What a string in use reads is a text.                                   *)
LEMMA TextIs ==
    ASSUME StoreIInv, NEW x \in Usable
    PROVE  TextOf(x) \in Seq(Code)
  BY Unpacked, UsableReads

(* Every operation keeps the invariant.                                    *)
LEMMA StepKeeps ==
    ASSUME StoreIInv, [StoreNext]_storeVars
    PROVE  StoreIInv'
<1>1. ASSUME NEW x \in Strings, Dstr(x) PROVE StoreIInv'
  <2>1. PICK t \in Literals : Constructed(x, Assigned(t), t)
    BY <1>1 DEF Dstr
  <2>2. QED BY <2>1, LiteralIs, AssignedKeeps
<1>2. ASSUME NEW x \in Strings, FromBuffer(x) PROVE StoreIInv'
  <2>1. PICK t \in Literals : Constructed(x, Owner(Len(blocks) + 1, Len(t)), t)
    BY <1>2 DEF FromBuffer
  <2>2. QED BY <2>1, LiteralIs, NewString
<1>3. ASSUME NEW z \in Strings, NEW y \in Usable, Clone(z, y) PROVE StoreIInv'
  BY <1>3, TextIs, AssignedKeeps DEF Clone
<1>4. ASSUME NEW z \in Strings, NEW x \in Usable, NEW y \in Usable, Plus(z, x, y)
      PROVE  StoreIInv'
  <2> DEFINE t == TextOf(x) \o TextOf(y)
  <2>1. t \in Seq(Code)
    BY TextIs, ConcatProperties
  <2>2. Constructed(z, Assigned(t), t)
    BY <1>4 DEF Plus
  <2> HIDE DEF t
  <2>3. QED BY <2>1, <2>2, AssignedKeeps
<1>5. ASSUME NEW z \in Strings, NEW x \in Usable, NEW n \in 0 .. 2, Times(z, x, n)
      PROVE  StoreIInv'
  <2> DEFINE t == Repeat(TextOf(x), n)
  <2>1. t \in Seq(Code)
    BY TextIs, RepeatIs
  <2>2. Constructed(z, Assigned(t), t)
    BY <1>5 DEF Times
  <2> HIDE DEF t
  <2>3. QED BY <2>1, <2>2, AssignedKeeps
<1>6. ASSUME NEW z \in Strings, NEW x \in Usable,
             NEW i \in 0 .. strings[x].len, NEW j \in 0 .. strings[x].len,
             CStringVSlice(z, x, i, j) \/ CStringSlice(z, x, i, j)
      PROVE  StoreIInv'
  <2> DEFINE t == VSlice(TextOf(x), i, j)
  <2>1. t \in Seq(Code)
    BY VSliceKeeps
  <2>2. CASE CStringVSlice(z, x, i, j)
    BY <2>2, VSliceKeeps
  <2>3. CASE CStringSlice(z, x, i, j)
    <3>1. Constructed(z, Assigned(t), t)
      BY <2>3 DEF CStringSlice
    <3> HIDE DEF t
    <3>2. QED BY <2>1, <3>1, AssignedKeeps
  <2>4. QED BY <1>6, <2>2, <2>3
<1>7. ASSUME UNCHANGED storeVars PROVE StoreIInv'
  BY <1>7 DEF storeVars, StoreIInv, Shape, Reading, Usable, Alive
<1>8. Usable \subseteq Strings /\ Alive \subseteq Strings
  BY DEF Usable, Alive
<1>9. QED
  BY <1>1, <1>2, <1>3, <1>4, <1>5, <1>6, <1>7, <1>8, DestroyKeeps, CopyKeeps, MoveKeeps,
     AssignKeeps, MoveAssignKeeps, AppendKeeps DEF StoreNext

-----------------------------------------------------------------------------
(* The invariant holds before there is a string.                           *)
LEMMA StartsKept == StoreInit => StoreIInv
<1> SUFFICES ASSUME StoreInit PROVE StoreIInv
  OBVIOUS
<1>1. Gone.form = "gone"
  BY DEF Gone, Handle
<1>2. <<>> \in Seq(Code) /\ <<>> \in Seq(BlockType) /\ DOMAIN <<>> = {}
  BY EmptySeq, LenProperties
<1>3. Shape
  BY <1>2 DEF StoreInit, Shape
<1>4. Alive = {}
  BY <1>1 DEF StoreInit, Alive
<1>5. Reading
  BY <1>4 DEF Reading, Usable
<1>6. Live(blocks) = {}
  BY <1>2 DEF Live, StoreInit
<1>7. Owning(strings, {})
  BY <1>1 DEF Owning, StoreInit
<1>8. QED BY <1>3, <1>5, <1>6, <1>7 DEF StoreIInv

(* What follows for the texts.                                             *)
LEMMA TextsFollow == StoreIInv => TextsAreMeant
  BY Unpacked, UsableReads DEF TextsAreMeant

(* What follows for the blocks.                                            *)
LEMMA OwnersFollow == StoreIInv => BlocksOwnedOnce
<1> SUFFICES ASSUME StoreIInv, NEW b \in DOMAIN blocks
             PROVE  Cardinality({x \in Alive : strings[x].form = "owner" /\ strings[x].at[2] = b})
                        = IF blocks[b].live THEN 1 ELSE 0
  BY DEF BlocksOwnedOnce
<1> DEFINE owners == {x \in Alive : strings[x].form = "owner" /\ strings[x].at[2] = b}
<1>1. Owning(strings, Live(blocks)) /\ blocks[b].live \in BOOLEAN
  BY Unpacked, BlockIs DEF BlockType
<1>2. \A x : x \in owners <=> x \in Strings /\ Owns(strings[x], b)
  <2>1. ASSUME NEW x \in Strings, strings[x].form = "owner"
        PROVE  strings[x].at[2] = b <=> strings[x].at = <<"block", b>>
    <3>1. PICK c \in Live(blocks) : strings[x].at = <<"block", c>>
      BY <1>1, <2>1 DEF Owning
    <3>2. strings[x].at[2] = c
      BY <3>1
    <3>3. QED BY <3>1, <3>2
  <2>2. QED BY <2>1 DEF Owns, Alive
<1> HIDE DEF owners
<1>3. CASE blocks[b].live
  <2>1. b \in Live(blocks)
    BY <1>3 DEF Live
  <2>2. PICK x \in Strings : Owns(strings[x], b)
    BY <1>1, <2>1 DEF Owning
  <2>3. \A y \in Strings : Owns(strings[y], b) => y = x
    BY <1>1, <2>1, <2>2 DEF Owning
  <2>4. owners = {x}
    BY <1>2, <2>2, <2>3
  <2>5. QED BY <1>3, <2>4, FS_Singleton DEF owners
<1>4. CASE ~blocks[b].live
  <2>1. \A x \in Strings : ~Owns(strings[x], b)
    <3> SUFFICES ASSUME NEW x \in Strings, Owns(strings[x], b) PROVE FALSE
      OBVIOUS
    <3>1. PICK c \in Live(blocks) : strings[x].at = <<"block", c>>
      BY <1>1 DEF Owning, Owns
    <3>2. c = b
      BY <3>1 DEF Owns
    <3>3. QED BY <1>4, <3>1, <3>2 DEF Live
  <2>2. owners = {}
    BY <1>2, <2>1
  <2>3. QED BY <1>4, <2>2, FS_EmptySet DEF owners
<1>5. QED BY <1>1, <1>3, <1>4

(* Every string that is in use has its text where its handle says, and the *)
(* blocks that live have one owner each, after any calls of the            *)
(* constructors, slices, copies, moves, assignments, += and destructors of *)
(* CString and Atring, of any number of strings.                           *)
THEOREM StoreInvariance == StoreSpec => []StoreIInv
<1>1. StoreInit => StoreIInv
  BY StartsKept
<1>2. StoreIInv /\ [StoreNext]_storeVars => StoreIInv'
  BY StepKeeps
<1>3. QED BY <1>1, <1>2, PTL DEF StoreSpec

(* No block leaks or is freed twice, and a string reads the text that it   *)
(* was given as long as what it views is neither destroyed nor assigned    *)
(* to.                                                                     *)
THEOREM StringsKeep == StoreSpec => []StringsKeepTheirTexts
<1>1. StoreIInv => StringsKeepTheirTexts
  BY TextsFollow, OwnersFollow DEF StringsKeepTheirTexts
<1>2. QED BY <1>1, StoreInvariance, PTL

(***************************************************************************)
(* LINES.  The argument follows two places: Starts(document)[k], where the *)
(* line behind the first k begins, and the offset up to which the file has *)
(* been read.  What the buffer holds lies between them.                    *)
(***************************************************************************)

Byte == {Junk, EOL} \cup Characters

LEMMA DocumentIs ==
    ASSUME NEW d \in Documents
    PROVE  /\ d \in Seq(Seq(Byte))
           /\ \A k \in 1 .. Len(d) : \A i \in 1 .. Len(d[k]) : d[k][i] # EOL
<1> DEFINE C == Characters \ {EOL}
<1>1. d \in Seq(Seq(C))
  BY LinesAssumption
<1>2. C \subseteq Byte
  BY DEF Byte
<1> HIDE DEF C
<1>3. Seq(C) \subseteq Seq(Byte)
  BY <1>2, SeqMonotonic
<1>4. d \in Seq(Seq(Byte))
  <2> DEFINE A == Seq(C)
             B == Seq(Byte)
  <2>1. d \in Seq(A) /\ A \subseteq B
    BY <1>1, <1>3
  <2> HIDE DEF A, B
  <2>2. Seq(A) \subseteq Seq(B)
    BY <2>1, SeqMonotonic
  <2>3. d \in Seq(B)
    BY <2>1, <2>2
  <2>4. QED BY <2>3 DEF B
<1>5. ASSUME NEW k \in 1 .. Len(d), NEW i \in 1 .. Len(d[k]) PROVE d[k][i] # EOL
  <2>1. d[k] \in Seq(C)
    BY <1>1, ElementOfSeq
  <2>2. d[k][i] \in C
    BY <2>1, ElementOfSeq
  <2>3. QED BY <2>2 DEF C
<1>6. QED BY <1>4, <1>5

-----------------------------------------------------------------------------
(* The text of a file.                                                     *)

Pieces(lines) == [i \in DOMAIN lines |-> IF i = 1 THEN lines[i] ELSE <<EOL>> \o lines[i]]

LEMMA EndOfLine ==
    ASSUME NEW l \in Seq(Byte)
    PROVE  /\ <<EOL>> \o l \in Seq(Byte) /\ Len(<<EOL>> \o l) = Len(l) + 1
           /\ (<<EOL>> \o l)[1] = EOL
           /\ \A i \in 1 .. Len(l) : (<<EOL>> \o l)[i + 1] = l[i]
           /\ Len(l) \in Nat
<1> DEFINE e == <<EOL>>
<1>1. e \in Seq(Byte) /\ Len(e) = 1 /\ e[1] = EOL
  BY DEF Byte
<1> HIDE DEF e
<1>2. /\ e \o l \in Seq(Byte) /\ Len(e) \in Nat /\ Len(l) \in Nat
      /\ Len(e \o l) = Len(e) + Len(l)
      /\ \A i \in 1 .. Len(e) : (e \o l)[i] = e[i]
      /\ \A i \in 1 .. Len(l) : (e \o l)[Len(e) + i] = l[i]
  BY <1>1, Joins
<1>3. ASSUME NEW i \in 1 .. Len(l) PROVE (e \o l)[i + 1] = l[i]
  <2>1. Len(e) + i = i + 1
    BY <1>1, <1>2
  <2>2. QED BY <1>2, <2>1
<1>4. 1 \in 1 .. Len(e) /\ Len(e) + Len(l) = Len(l) + 1
  BY <1>1, <1>2
<1>5. QED BY <1>1, <1>2, <1>3, <1>4 DEF e

LEMMA PiecesAre ==
    ASSUME NEW lines \in Seq(Seq(Byte))
    PROVE  /\ Pieces(lines) \in Seq(Seq(Byte)) /\ Len(Pieces(lines)) = Len(lines)
           /\ \A i \in 1 .. Len(lines) :
                Pieces(lines)[i] = IF i = 1 THEN lines[i] ELSE <<EOL>> \o lines[i]
<1>1. Len(lines) \in Nat /\ DOMAIN lines = 1 .. Len(lines)
  BY LenProperties
<1>2. ASSUME NEW i \in 1 .. Len(lines)
      PROVE  /\ Pieces(lines)[i] = IF i = 1 THEN lines[i] ELSE <<EOL>> \o lines[i]
             /\ Pieces(lines)[i] \in Seq(Byte)
  <2>1. lines[i] \in Seq(Byte)
    BY ElementOfSeq
  <2>2. <<EOL>> \o lines[i] \in Seq(Byte)
    BY <2>1, EndOfLine
  <2>3. Pieces(lines)[i] = IF i = 1 THEN lines[i] ELSE <<EOL>> \o lines[i]
    BY <1>1 DEF Pieces
  <2>4. QED BY <2>1, <2>2, <2>3
<1>3. Pieces(lines) = [i \in 1 .. Len(lines) |-> Pieces(lines)[i]]
  BY <1>1 DEF Pieces
<1>4. Pieces(lines) \in Seq(Seq(Byte)) /\ Len(Pieces(lines)) = Len(lines)
  <2> DEFINE p == Pieces(lines)
             n == Len(lines)
             B == Seq(Byte)
  <2>1. n \in Nat /\ p = [i \in 1 .. n |-> p[i]] /\ \A i \in 1 .. n : p[i] \in B
    BY <1>1, <1>2, <1>3
  <2> HIDE DEF p, n, B
  <2>2. p \in Seq(B) /\ Len(p) = n
    BY <2>1
  <2>3. QED BY <2>2 DEF p, n, B
<1>5. QED BY <1>2, <1>4

LEMMA FileTextIs ==
    ASSUME NEW lines \in Seq(Seq(Byte))
    PROVE  FileText(lines) = FlattenSeq(Pieces(lines)) /\ FileText(lines) \in Seq(Byte)
<1>1. FileText(lines) = FlattenSeq(Pieces(lines))
  BY DEF FileText, Pieces
<1>2. QED BY <1>1, PiecesAre, FlattenPlaces

LEMMA FileAppend ==
    ASSUME NEW lines \in Seq(Seq(Byte)), NEW l \in Seq(Byte)
    PROVE  FileText(Append(lines, l)) =
               IF Len(lines) = 0 THEN l ELSE FileText(lines) \o (<<EOL>> \o l)
<1> DEFINE n == Len(lines)
           more == Append(lines, l)
           t == IF n = 0 THEN l ELSE <<EOL>> \o l
<1>1. /\ n \in Nat /\ more \in Seq(Seq(Byte)) /\ Len(more) = n + 1 /\ more[n + 1] = l
      /\ \A i \in 1 .. n : more[i] = lines[i]
  BY LenProperties, AppendProperties
<1>2. t \in Seq(Byte)
  BY EndOfLine
<1>3. Pieces(more) = Append(Pieces(lines), t)
  <2> DEFINE p == Pieces(lines)
             B == Seq(Byte)
  <2>1. p \in Seq(B) /\ Len(p) = n /\ t \in B
    BY <1>2, PiecesAre
  <2>2. Pieces(more) \in Seq(B) /\ Len(Pieces(more)) = n + 1
    BY <1>1, PiecesAre
  <2>3. \A i \in 1 .. n : p[i] = IF i = 1 THEN lines[i] ELSE <<EOL>> \o lines[i]
    BY PiecesAre
  <2>4. \A i \in 1 .. n + 1 :
            Pieces(more)[i] = IF i = 1 THEN more[i] ELSE <<EOL>> \o more[i]
    BY <1>1, PiecesAre
  <2>5. Pieces(more)[n + 1] = t
    <3>1. n + 1 \in 1 .. n + 1 /\ (n + 1 = 1 <=> n = 0)
      BY <1>1
    <3> HIDE DEF more
    <3>2. QED BY <1>1, <2>4, <3>1
  <2>6. \A i \in 1 .. n : Pieces(more)[i] = p[i]
    <3> HIDE DEF more, p, t
    <3>1. \A i \in 1 .. n : i \in 1 .. n + 1
      BY <1>1
    <3>2. QED BY <1>1, <2>3, <2>4, <3>1
  <2> HIDE DEF p, B, t, more
  <2>7. /\ Append(p, t) \in Seq(B) /\ Len(Append(p, t)) = n + 1
        /\ Append(p, t)[n + 1] = t /\ \A i \in 1 .. n : Append(p, t)[i] = p[i]
    BY <2>1, AppendProperties
  <2>8. \A i \in 1 .. n + 1 : Pieces(more)[i] = Append(p, t)[i]
    <3>1. \A i \in 1 .. n + 1 : i \in 1 .. n \/ i = n + 1
      BY <1>1
    <3>2. QED BY <2>5, <2>6, <2>7, <3>1
  <2>9. Pieces(more) = Append(p, t)
    BY <2>2, <2>7, <2>8, SeqEqual
  <2>10. QED BY <2>9 DEF p
<1>4. FlattenSeq(Append(Pieces(lines), t)) = FlattenSeq(Pieces(lines)) \o t
  <2> HIDE DEF t
  <2>1. Pieces(lines) \in Seq(Seq(Byte))
    BY PiecesAre
  <2>2. QED BY <1>2, <2>1, FlattenAppend
<1>5. FileText(more) = FileText(lines) \o t
  <2> HIDE DEF t, more
  <2>1. FileText(more) = FlattenSeq(Pieces(more))
    BY <1>1, FileTextIs
  <2>2. QED BY <1>3, <1>4, <2>1, FileTextIs
<1>6. CASE n = 0
  <2>1. lines = <<>>
    BY <1>6, EmptySeq
  <2>2. FileText(lines) = <<>>
    <3>1. Pieces(lines) = <<>>
      <4>1. Pieces(lines) \in Seq(Seq(Byte)) /\ Len(Pieces(lines)) = 0
        BY <1>6, PiecesAre
      <4>2. QED BY <4>1, EmptySeq
    <3>2. QED BY <3>1, FileTextIs DEF FlattenSeq
  <2>3. <<>> \o l = l
    BY ConcatEmptySeq
  <2>4. QED BY <1>5, <1>6, <2>2, <2>3
<1>7. QED BY <1>5, <1>6

(* Where the lines begin: line k + 1 behind the first off[k] bytes.        *)
Lie(off, lines, text) ==
    LET n == Len(lines)
    IN  /\ off \in [0 .. n -> Nat] /\ off[0] = 0
        /\ Len(text) = IF n = 0 THEN 0 ELSE off[n] - 1
        /\ \A k \in 1 .. n :
             /\ off[k] = off[k - 1] + Len(lines[k]) + 1
             /\ off[k] <= Len(text) + 1
             /\ \A i \in 1 .. Len(lines[k]) : text[off[k - 1] + i] = lines[k][i]
             /\ k < n => off[k] <= Len(text) /\ text[off[k]] = EOL

Starts(lines) == CHOOSE off : Lie(off, lines, FileText(lines))

LEMMA LinesLie ==
    ASSUME NEW lines \in Seq(Seq(Byte))
    PROVE  Lie(Starts(lines), lines, FileText(lines))
<1> DEFINE n == Len(lines)
           text == FileText(lines)
           p == Pieces(lines)
<1>1. n \in Nat /\ \A k \in 1 .. n : lines[k] \in Seq(Byte) /\ Len(lines[k]) \in Nat
  BY LenProperties, ElementOfSeq
<1>2. /\ p \in Seq(Seq(Byte)) /\ Len(p) = n
      /\ \A k \in 1 .. n : p[k] = IF k = 1 THEN lines[k] ELSE <<EOL>> \o lines[k]
  BY PiecesAre
<1>3. PICK o : Places(o, p, text)
  BY <1>2, FileTextIs, FlattenPlaces
<1>4. text \in Seq(Byte) /\ Len(text) \in Nat
  BY FileTextIs, LenProperties
<1> HIDE DEF n, text, p
<1>5. /\ o \in [0 .. n -> Nat] /\ o[0] = 0 /\ o[n] = Len(text)
      /\ \A k \in 1 .. n : o[k] = o[k - 1] + Len(p[k]) /\ o[k] <= Len(text)
      /\ \A k \in 1 .. n : \A i \in 1 .. Len(p[k]) : text[o[k - 1] + i] = p[k][i]
  BY <1>2, <1>3 DEF Places
<1> DEFINE off == [k \in 0 .. n |-> IF k = 0 THEN 0 ELSE o[k] + 1]
<1>6. /\ off \in [0 .. n -> Nat] /\ off[0] = 0
      /\ \A k \in 1 .. n : off[k] = o[k] + 1 /\ o[k] \in Nat
  BY <1>1, <1>5
<1> HIDE DEF off
<1>7. Len(text) = IF n = 0 THEN 0 ELSE off[n] - 1
  <2>1. CASE n = 0
    BY <1>5, <2>1
  <2>2. CASE n # 0
    <3>1. n \in 1 .. n
      BY <1>1, <2>2
    <3>2. QED BY <1>4, <1>5, <1>6, <2>2, <3>1
  <2>3. QED BY <2>1, <2>2
<1>8. ASSUME NEW k \in 1 .. n
      PROVE  /\ off[k] = off[k - 1] + Len(lines[k]) + 1
             /\ off[k] <= Len(text) + 1
             /\ \A i \in 1 .. Len(lines[k]) : text[off[k - 1] + i] = lines[k][i]
  <2> DEFINE l == lines[k]
  <2>1. l \in Seq(Byte) /\ Len(l) \in Nat /\ k \in Nat /\ k >= 1 /\ k <= n
    BY <1>1
  <2>2. /\ off[k] = o[k] + 1 /\ o[k] \in Nat
        /\ o[k] = o[k - 1] + Len(p[k]) /\ o[k] <= Len(text)
        /\ \A i \in 1 .. Len(p[k]) : text[o[k - 1] + i] = p[k][i]
    BY <1>5, <1>6
  <2> HIDE DEF l
  <2>3. CASE k = 1
    <3>1. p[k] = l
      BY <1>2, <2>3 DEF l
    <3>2. k - 1 = 0 /\ o[k - 1] = 0 /\ off[k - 1] = 0
      BY <1>5, <1>6, <2>3
    <3>3. QED BY <1>4, <2>1, <2>2, <3>1, <3>2 DEF l
  <2>4. CASE k # 1
    <3>1. p[k] = <<EOL>> \o l
      BY <1>2, <2>4 DEF l
    <3>2. /\ Len(p[k]) = Len(l) + 1 /\ \A i \in 1 .. Len(l) : p[k][i + 1] = l[i]
      BY <2>1, <3>1, EndOfLine
    <3>3. off[k - 1] = o[k - 1] + 1 /\ o[k - 1] \in Nat
      <4>1. k - 1 \in 1 .. n
        BY <1>1, <2>1, <2>4
      <4>2. QED BY <1>6, <4>1
    <3> DEFINE a == o[k - 1]
               b == off[k - 1]
               c == off[k]
               m == Len(l)
               e == Len(text)
    <3>4. /\ a \in Nat /\ m \in Nat /\ e \in Nat /\ b = a + 1
          /\ c = (a + (m + 1)) + 1 /\ a + (m + 1) <= e
      BY <1>4, <2>1, <2>2, <3>2, <3>3
    <3>5. /\ \A i \in 1 .. m + 1 : text[a + i] = p[k][i]
          /\ \A i \in 1 .. m : p[k][i + 1] = l[i]
      BY <2>2, <3>2
    <3> HIDE DEF a, b, c, m, e
    <3>6. ASSUME NEW i \in 1 .. m PROVE text[b + i] = l[i]
      <4>1. i + 1 \in 1 .. m + 1 /\ a + (i + 1) = b + i
        BY <3>4
      <4>2. QED BY <3>5, <4>1
    <3>7. c = b + m + 1 /\ c <= e + 1
      BY <3>4
    <3>8. QED BY <3>6, <3>7 DEF a, b, c, m, e, l
  <2>5. QED BY <2>3, <2>4
<1>9. ASSUME NEW k \in 1 .. n, k < n PROVE off[k] <= Len(text) /\ text[off[k]] = EOL
  <2>1. k + 1 \in 1 .. n /\ k + 1 # 1 /\ (k + 1) - 1 = k
    BY <1>1, <1>9
  <2>2. p[k + 1] = <<EOL>> \o lines[k + 1] /\ lines[k + 1] \in Seq(Byte)
    BY <1>1, <1>2, <2>1
  <2>3. /\ Len(p[k + 1]) = Len(lines[k + 1]) + 1 /\ Len(lines[k + 1]) \in Nat
        /\ p[k + 1][1] = EOL
    BY <2>2, EndOfLine
  <2>4. /\ o[k + 1] = o[k] + Len(p[k + 1]) /\ o[k + 1] <= Len(text)
        /\ \A i \in 1 .. Len(p[k + 1]) : text[o[k] + i] = p[k + 1][i]
    BY <1>5, <2>1
  <2>5. off[k] = o[k] + 1 /\ o[k] \in Nat /\ 1 \in 1 .. Len(p[k + 1])
    BY <1>6, <2>3
  <2>6. text[o[k] + 1] = EOL
    BY <2>3, <2>4, <2>5
  <2>7. o[k] + 1 <= Len(text)
    BY <1>4, <2>3, <2>4, <2>5
  <2>8. QED BY <2>5, <2>6, <2>7
<1>10. Lie(off, lines, text)
  BY <1>6, <1>7, <1>8, <1>9 DEF Lie, n
<1>11. QED BY <1>10 DEF Starts, text

-----------------------------------------------------------------------------
(* Parts of a text.                                                        *)

LEMMA Cut ==
    ASSUME NEW S, NEW s \in Seq(S), NEW a \in Nat, NEW e \in Nat, a <= e, e <= Len(s)
    PROVE  /\ SubSeq(s, a + 1, e) \in Seq(S) /\ Len(SubSeq(s, a + 1, e)) = e - a
           /\ \A i \in 1 .. e - a : SubSeq(s, a + 1, e)[i] = s[a + i]
<1> DEFINE m == a + 1
<1>1. Len(s) \in Nat /\ m \in Int /\ m >= 1
  BY LenProperties
<1>2. \A i \in m .. e : s[i] \in S
  BY <1>1, ElementOfSeq
<1> HIDE DEF m
<1>3. /\ SubSeq(s, m, e) \in Seq(S)
      /\ Len(SubSeq(s, m, e)) = IF m <= e THEN e - m + 1 ELSE 0
      /\ \A i \in 1 .. e - m + 1 : SubSeq(s, m, e)[i] = s[m + i - 1]
  BY <1>1, <1>2, SubSeqProperties
<1>4. Len(SubSeq(s, m, e)) = e - a
  BY <1>3 DEF m
<1>5. ASSUME NEW i \in 1 .. e - a PROVE SubSeq(s, m, e)[i] = s[a + i]
  <2>1. i \in 1 .. e - m + 1 /\ m + i - 1 = a + i
    BY DEF m
  <2>2. QED BY <1>3, <2>1
<1>6. QED BY <1>3, <1>4, <1>5 DEF m

LEMMA CutJoin ==
    ASSUME NEW S, NEW s \in Seq(S), NEW a \in Nat, NEW m \in Nat, NEW e \in Nat,
           a <= m, m <= e, e <= Len(s)
    PROVE  SubSeq(s, a + 1, m) \o SubSeq(s, m + 1, e) = SubSeq(s, a + 1, e)
<1>1. Len(s) \in Nat
  BY LenProperties
<1>2. a + 1 \in 1 .. Len(s) + 1 /\ m \in (a + 1) - 1 .. Len(s) /\ e \in m .. Len(s)
  BY <1>1
<1>3. QED BY <1>2, ConcatAdjacentSubSeq

(* The first lines, and one more.                                          *)
LEMMA OneMore ==
    ASSUME NEW S, NEW d \in Seq(S), NEW k \in Nat, k < Len(d)
    PROVE  /\ SubSeq(d, 1, k) \in Seq(S) /\ Len(SubSeq(d, 1, k)) = k
           /\ SubSeq(d, 1, k + 1) = Append(SubSeq(d, 1, k), d[k + 1])
<1> DEFINE s == SubSeq(d, 1, k)
           t == SubSeq(d, 1, k + 1)
<1>0. Len(d) \in Nat
  BY LenProperties
<1>1. /\ s \in Seq(S) /\ Len(s) = k /\ \A i \in 1 .. k : s[i] = d[i]
  <2>1. 0 + 1 = 1 /\ k - 0 = k /\ k <= Len(d) /\ \A i \in 1 .. k : 0 + i = i
    BY <1>0
  <2>2. /\ SubSeq(d, 0 + 1, k) \in Seq(S) /\ Len(SubSeq(d, 0 + 1, k)) = k - 0
        /\ \A i \in 1 .. k - 0 : SubSeq(d, 0 + 1, k)[i] = d[0 + i]
    BY <2>1, Cut
  <2>3. QED BY <2>1, <2>2
<1>2. /\ t \in Seq(S) /\ Len(t) = k + 1 /\ \A i \in 1 .. k + 1 : t[i] = d[i]
  <2> DEFINE m == k + 1
  <2>1. m \in Nat /\ 0 + 1 = 1 /\ m - 0 = m /\ m <= Len(d) /\ \A i \in 1 .. m : 0 + i = i
    BY <1>0
  <2> HIDE DEF m
  <2>2. /\ SubSeq(d, 0 + 1, m) \in Seq(S) /\ Len(SubSeq(d, 0 + 1, m)) = m - 0
        /\ \A i \in 1 .. m - 0 : SubSeq(d, 0 + 1, m)[i] = d[0 + i]
    BY <2>1, Cut
  <2>3. QED BY <2>1, <2>2 DEF m
<1> HIDE DEF s, t
<1>3. k + 1 \in 1 .. Len(d) /\ d[k + 1] \in S
  BY <1>0, ElementOfSeq
<1>4. /\ Append(s, d[k + 1]) \in Seq(S) /\ Len(Append(s, d[k + 1])) = k + 1
      /\ Append(s, d[k + 1])[k + 1] = d[k + 1]
      /\ \A i \in 1 .. k : Append(s, d[k + 1])[i] = s[i]
  BY <1>1, <1>3, AppendProperties
<1>5. \A i \in 1 .. k + 1 : t[i] = Append(s, d[k + 1])[i]
  <2>1. \A i \in 1 .. k + 1 : i \in 1 .. k \/ i = k + 1
    OBVIOUS
  <2>2. QED BY <1>1, <1>2, <1>4, <2>1
<1>6. t = Append(s, d[k + 1])
  BY <1>2, <1>4, <1>5, SeqEqual
<1>7. QED BY <1>1, <1>6 DEF s, t

-----------------------------------------------------------------------------
(* Where a line ends.                                                      *)

(* After the first k lines.                                                *)
Behind(d, k) == k \in 0 .. Len(d) /\ (k = 0 \/ k < Len(d))

LEMMA PlaceIs ==
    ASSUME NEW d \in Documents, NEW k, Behind(d, k)
    PROVE  /\ Starts(d)[k] \in Nat /\ Starts(d)[k] <= Len(FileText(d))
           /\ FileText(d) \in Seq(Byte) /\ Len(FileText(d)) \in Nat
           /\ Len(d) \in Nat /\ k \in Nat
           /\ Starts(d)[0] = 0 /\ (k > 0 => Starts(d)[k] > 0)
<1> DEFINE off == Starts(d)
           text == FileText(d)
           n == Len(d)
<1>1. d \in Seq(Seq(Byte)) /\ n \in Nat
  BY DocumentIs, LenProperties
<1>2. text \in Seq(Byte) /\ Len(text) \in Nat
  BY <1>1, FileTextIs, LenProperties
<1>3. Lie(off, d, text)
  BY <1>1, LinesLie
<1> HIDE DEF off, text, n
<1>4. /\ off \in [0 .. n -> Nat] /\ off[0] = 0
      /\ \A j \in 1 .. n : off[j] = off[j - 1] + Len(d[j]) + 1
      /\ \A j \in 1 .. n : j < n => off[j] <= Len(text)
  BY <1>3 DEF Lie, n
<1>5. k \in 0 .. n /\ (k = 0 \/ k < n)
  BY DEF Behind, n
<1>6. CASE k = 0
  BY <1>1, <1>2, <1>4, <1>6 DEF off, text, n
<1>7. CASE k # 0
  <2>1. k \in 1 .. n /\ k < n /\ k - 1 \in 0 .. n
    BY <1>1, <1>5, <1>7
  <2>2. off[k - 1] \in Nat /\ Len(d[k]) \in Nat
    <3>1. d[k] \in Seq(Byte)
      BY <1>1, <2>1, ElementOfSeq DEF n
    <3>2. QED BY <1>4, <2>1, <3>1, LenProperties
  <2>3. off[k] > 0 /\ off[k] <= Len(text) /\ off[k] \in Nat
    <3>1. off[k] \in Nat /\ off[k] <= Len(text) /\ off[k] = off[k - 1] + Len(d[k]) + 1
      BY <1>1, <1>4, <2>1
    <3>2. QED BY <2>2, <3>1
  <2>4. QED BY <1>1, <1>2, <1>4, <1>5, <2>3 DEF off, text, n
<1>8. QED BY <1>6, <1>7

(* What Lie says of the next line, if there is one.                        *)
LEMMA LineIs ==
    ASSUME NEW d \in Documents, NEW k, Behind(d, k), Len(d) > 0
    PROVE  LET off == Starts(d)
               text == FileText(d)
               l == d[k + 1]
           IN  /\ k + 1 \in 1 .. Len(d) /\ l \in Seq(Byte) /\ Len(l) \in Nat
               /\ off[k] \in Nat /\ off[k + 1] = off[k] + Len(l) + 1
               /\ \A i \in 1 .. Len(l) : l[i] # EOL /\ text[off[k] + i] = l[i]
               /\ off[k] + Len(l) <= Len(text)
               /\ k + 1 < Len(d) => /\ off[k] + Len(l) < Len(text)
                                    /\ text[off[k] + Len(l) + 1] = EOL
               /\ k + 1 = Len(d) => Len(text) = off[k] + Len(l)
<1> DEFINE off == Starts(d)
           text == FileText(d)
           n == Len(d)
           l == d[k + 1]
<1>1. /\ d \in Seq(Seq(Byte)) /\ n \in Nat /\ n > 0
      /\ \A j \in 1 .. n : \A i \in 1 .. Len(d[j]) : d[j][i] # EOL
  BY DocumentIs, LenProperties
<1>2. off[k] \in Nat /\ Len(text) \in Nat /\ k \in Nat
  BY PlaceIs
<1>3. Lie(off, d, text)
  BY <1>1, LinesLie
<1>4. k + 1 \in 1 .. n /\ (k + 1) - 1 = k
  BY <1>1 DEF Behind
<1>5. l \in Seq(Byte) /\ Len(l) \in Nat
  <2>1. l \in Seq(Byte)
    BY <1>1, <1>4, ElementOfSeq
  <2>2. QED BY <2>1, LenProperties
<1> HIDE DEF off, text, n, l
<1>6. /\ off[k + 1] = off[k] + Len(l) + 1 /\ off[k + 1] <= Len(text) + 1
      /\ \A i \in 1 .. Len(l) : text[off[k] + i] = l[i]
      /\ k + 1 < n => off[k + 1] <= Len(text) /\ text[off[k + 1]] = EOL
  BY <1>3, <1>4 DEF Lie, n, l
<1>7. k + 1 = n => Len(text) = off[k + 1] - 1
  BY <1>1, <1>3 DEF Lie, n
<1>8. \A i \in 1 .. Len(l) : l[i] # EOL
  BY <1>1, <1>4 DEF l
<1>9. off[k] + Len(l) <= Len(text) /\ (k + 1 = n => Len(text) = off[k] + Len(l))
  BY <1>2, <1>5, <1>6, <1>7
<1>10. k + 1 < n => /\ off[k] + Len(l) < Len(text)
                    /\ text[off[k] + Len(l) + 1] = EOL
  BY <1>2, <1>5, <1>6
<1>11. QED BY <1>2, <1>4, <1>5, <1>6, <1>8, <1>9, <1>10 DEF off, text, n, l

(* The first line end behind the first k lines ends the next line.         *)
LEMMA FirstEndIs ==
    ASSUME NEW d \in Documents, NEW k, Behind(d, k), NEW q \in Nat,
           Starts(d)[k] + q < Len(FileText(d)),
           FileText(d)[Starts(d)[k] + q + 1] = EOL,
           \A i \in 1 .. q : FileText(d)[Starts(d)[k] + i] # EOL
    PROVE  /\ Behind(d, k + 1) /\ Len(d[k + 1]) = q
           /\ Starts(d)[k + 1] = Starts(d)[k] + q + 1
           /\ d[k + 1] = SubSeq(FileText(d), Starts(d)[k] + 1, Starts(d)[k] + q)
<1> DEFINE a == Starts(d)[k]
           text == FileText(d)
           n == Len(d)
           l == d[k + 1]
<1>1. a \in Nat /\ text \in Seq(Byte) /\ Len(text) \in Nat /\ n \in Nat /\ k \in Nat
  BY PlaceIs
<1>2. n > 0
  <2>1. CASE n = 0
    <3>1. d \in Seq(Seq(Byte))
      BY DocumentIs
    <3>2. Lie(Starts(d), d, text)
      BY <3>1, LinesLie
    <3>3. Len(text) = 0
      BY <2>1, <3>2 DEF Lie
    <3>4. QED BY <1>1, <3>3
  <2>2. QED BY <1>1, <2>1
<1>3. /\ k + 1 \in 1 .. n /\ l \in Seq(Byte) /\ Len(l) \in Nat
      /\ Starts(d)[k + 1] = a + Len(l) + 1
      /\ \A i \in 1 .. Len(l) : l[i] # EOL /\ text[a + i] = l[i]
      /\ k + 1 < n => a + Len(l) < Len(text) /\ text[a + Len(l) + 1] = EOL
      /\ k + 1 = n => Len(text) = a + Len(l)
      /\ a + Len(l) <= Len(text)
  BY <1>2, LineIs
<1>4. /\ a + q < Len(text) /\ text[a + q + 1] = EOL
      /\ \A i \in 1 .. q : text[a + i] # EOL
  OBVIOUS
<1> HIDE DEF a, text, n, l
<1>5. q >= Len(l)
  <2>1. SUFFICES ASSUME q < Len(l) PROVE FALSE
    BY <1>3
  <2> DEFINE m == Len(l)
  <2>2. m \in Nat /\ a \in Nat /\ q < m
    BY <1>1, <1>3, <2>1
  <2> HIDE DEF m
  <2>3. q + 1 \in 1 .. m /\ a + (q + 1) = a + q + 1
    BY <2>2
  <2>4. QED BY <1>3, <1>4, <2>3 DEF m
<1>6. k + 1 < n
  BY <1>1, <1>3, <1>4, <1>5
<1>7. q = Len(l)
  <2>1. SUFFICES ASSUME q > Len(l) PROVE FALSE
    BY <1>3, <1>5
  <2> DEFINE m == Len(l)
  <2>2. m \in Nat /\ a \in Nat /\ m < q
    <3>1. m \in Nat
      BY <1>3
    <3>2. a \in Nat /\ m < q
      BY <1>1, <2>1
    <3>3. QED BY <3>1, <3>2
  <2> HIDE DEF m
  <2>3. m + 1 \in 1 .. q /\ a + (m + 1) = a + m + 1
    BY <2>2
  <2>4. QED BY <1>3, <1>4, <1>6, <2>3 DEF m
<1>8. l = SubSeq(text, a + 1, a + q)
  <2> DEFINE e == a + q
             s == SubSeq(text, a + 1, e)
  <2>1. e \in Nat /\ a <= e /\ e <= Len(text) /\ e - a = q
    BY <1>1, <1>4
  <2> HIDE DEF e
  <2>2. s \in Seq(Byte) /\ Len(s) = e - a /\ \A i \in 1 .. e - a : s[i] = text[a + i]
    BY <1>1, <2>1, Cut
  <2> HIDE DEF s
  <2>3. Len(s) = Len(l) /\ \A i \in 1 .. Len(l) : s[i] = l[i]
    BY <1>3, <1>7, <2>1, <2>2
  <2>4. s = l
    BY <1>3, <2>2, <2>3, SeqEqual
  <2>5. QED BY <2>4 DEF s, e
<1>9. Behind(d, k + 1)
  BY <1>1, <1>3, <1>6 DEF Behind, n
<1>10. QED BY <1>3, <1>7, <1>8, <1>9 DEF a, text, l

(* Without another line end, what follows is the last line.                *)
LEMMA LastLineIs ==
    ASSUME NEW d \in Documents, NEW k, Behind(d, k),
           \A i \in 1 .. Len(FileText(d)) - Starts(d)[k] : FileText(d)[Starts(d)[k] + i] # EOL
    PROVE  \/ d = <<>> /\ k = 0 /\ FileText(d) = <<>>
           \/ /\ k + 1 = Len(d)
              /\ d[k + 1] = SubSeq(FileText(d), Starts(d)[k] + 1, Len(FileText(d)))
<1> DEFINE a == Starts(d)[k]
           text == FileText(d)
           n == Len(d)
           l == d[k + 1]
<1>1. a \in Nat /\ text \in Seq(Byte) /\ Len(text) \in Nat /\ n \in Nat /\ k \in Nat
      /\ a <= Len(text)
  BY PlaceIs
<1>2. CASE n = 0
  <2>1. d \in Seq(Seq(Byte))
    BY DocumentIs
  <2>2. Lie(Starts(d), d, text)
    BY <2>1, LinesLie
  <2>3. Len(text) = 0
    BY <1>2, <2>2 DEF Lie
  <2>4. d = <<>>
    BY <1>2, <2>1, EmptySeq
  <2>5. text = <<>>
    BY <1>1, <2>3, EmptySeq
  <2>6. k = 0
    BY <1>2 DEF Behind
  <2>7. QED BY <2>4, <2>5, <2>6
<1>3. CASE n > 0
  <2>1. /\ k + 1 \in 1 .. n /\ l \in Seq(Byte) /\ Len(l) \in Nat
        /\ \A i \in 1 .. Len(l) : text[a + i] = l[i]
        /\ k + 1 < n => a + Len(l) < Len(text) /\ text[a + Len(l) + 1] = EOL
        /\ k + 1 = n => Len(text) = a + Len(l)
    BY <1>3, LineIs
  <2>2. \A i \in 1 .. Len(text) - a : text[a + i] # EOL
    OBVIOUS
  <2> HIDE DEF a, text, n, l
  <2>3. k + 1 = n
    <3>1. SUFFICES ASSUME k + 1 < n PROVE FALSE
      BY <1>1, <2>1
    <3>2. Len(l) + 1 \in 1 .. Len(text) - a /\ a + (Len(l) + 1) = a + Len(l) + 1
      BY <1>1, <2>1, <3>1
    <3>3. QED BY <2>1, <2>2, <3>1, <3>2
  <2>4. l = SubSeq(text, a + 1, Len(text))
    <3> DEFINE e == Len(text)
               s == SubSeq(text, a + 1, e)
    <3>1. e \in Nat /\ a <= e /\ e <= Len(text) /\ e - a = Len(l)
      BY <1>1, <2>1, <2>3
    <3> HIDE DEF e
    <3>2. s \in Seq(Byte) /\ Len(s) = e - a /\ \A i \in 1 .. e - a : s[i] = text[a + i]
      BY <1>1, <3>1, Cut
    <3> HIDE DEF s
    <3>3. Len(s) = Len(l) /\ \A i \in 1 .. Len(l) : s[i] = l[i]
      BY <2>1, <3>1, <3>2
    <3>4. s = l
      BY <2>1, <3>2, <3>3, SeqEqual
    <3>5. QED BY <3>4 DEF s, e
  <2>5. QED BY <2>3, <2>4 DEF a, text, n, l
<1>4. QED BY <1>1, <1>2, <1>3

(* The text of the first lines is the first part of the text.              *)
LEMMA FirstLinesText ==
    ASSUME NEW d \in Documents
    PROVE  \A k \in Nat : k > 0 /\ Behind(d, k) =>
               FileText(SubSeq(d, 1, k)) = SubSeq(FileText(d), 1, Starts(d)[k] - 1)
<1> DEFINE text == FileText(d)
           T == {k \in Nat : k > 0 /\ Behind(d, k) =>
                     FileText(SubSeq(d, 1, k)) = SubSeq(text, 1, Starts(d)[k] - 1)}
<1>1. d \in Seq(Seq(Byte)) /\ Len(d) \in Nat
  BY DocumentIs, LenProperties
<1>2. 0 \in T
  OBVIOUS
<1>3. ASSUME NEW k \in Nat, k \in T PROVE k + 1 \in T
  <2>1. SUFFICES ASSUME Behind(d, k + 1)
                 PROVE  FileText(SubSeq(d, 1, k + 1)) = SubSeq(text, 1, Starts(d)[k + 1] - 1)
    OBVIOUS
  <2>2. k + 1 < Len(d) /\ k < Len(d) /\ Behind(d, k) /\ Len(d) > 0
    BY <1>1, <2>1 DEF Behind
  <2> DEFINE a == Starts(d)[k]
             l == d[k + 1]
             s == SubSeq(d, 1, k)
             m == Len(l)
  <2>3. /\ l \in Seq(Byte) /\ m \in Nat /\ a \in Nat
        /\ Starts(d)[k + 1] = a + m + 1
        /\ \A i \in 1 .. m : text[a + i] = l[i]
        /\ a + m <= Len(text)
    BY <2>2, LineIs
  <2>4. /\ text \in Seq(Byte) /\ Len(text) \in Nat /\ Starts(d)[0] = 0
        /\ (k > 0 => a > 0)
    BY <2>2, PlaceIs
  <2>5. /\ s \in Seq(Seq(Byte)) /\ Len(s) = k
        /\ SubSeq(d, 1, k + 1) = Append(s, l)
    BY <1>1, <2>2, OneMore
  <2>6. FileText(Append(s, l)) = IF k = 0 THEN l ELSE FileText(s) \o (<<EOL>> \o l)
    <3> HIDE DEF s, l
    <3>1. QED BY <2>3, <2>5, FileAppend
  <2> HIDE DEF l, s, text
  <2>7. l = SubSeq(text, a + 1, a + m)
    <3> DEFINE e == a + m
               u == SubSeq(text, a + 1, e)
    <3>1. e \in Nat /\ a <= e /\ e <= Len(text) /\ e - a = m
      BY <2>3
    <3> HIDE DEF e, a
    <3>2. u \in Seq(Byte) /\ Len(u) = e - a /\ \A i \in 1 .. e - a : u[i] = text[a + i]
      BY <2>3, <2>4, <3>1, Cut
    <3> HIDE DEF u
    <3>3. Len(u) = Len(l) /\ \A i \in 1 .. Len(l) : u[i] = l[i]
      BY <2>3, <3>1, <3>2
    <3>4. u = l
      BY <2>3, <3>2, <3>3, SeqEqual
    <3>5. QED BY <3>4 DEF u, e
  <2>8. Starts(d)[k + 1] - 1 = a + m
    BY <2>3
  <2>9. CASE k = 0
    <3>1. a = 0
      BY <2>4, <2>9
    <3>2. l = SubSeq(text, 1, a + m)
      BY <2>7, <3>1
    <3>3. QED BY <2>5, <2>6, <2>8, <2>9, <3>2
  <2>10. CASE k > 0
    <3>1. FileText(s) = SubSeq(text, 1, a - 1)
      BY <1>3, <2>2, <2>10 DEF s
    <3>2. <<EOL>> = SubSeq(text, (a - 1) + 1, a)
      <4>1. a - 1 \in Nat /\ a - 1 <= a /\ a <= Len(text) /\ a - (a - 1) = 1
            /\ (a - 1) + 1 = a
        BY <2>3, <2>4, <2>10
      <4>2. text[a] = EOL
        <5>1. k - 1 \in Nat /\ Behind(d, k - 1) /\ (k - 1) + 1 = k /\ k < Len(d)
          BY <1>1, <2>2, <2>10 DEF Behind
        <5>2. /\ Starts(d)[(k - 1) + 1] = Starts(d)[k - 1] + Len(d[(k - 1) + 1]) + 1
              /\ text[Starts(d)[k - 1] + Len(d[(k - 1) + 1]) + 1] = EOL
          BY <2>2, <5>1, LineIs DEF text
        <5>3. QED BY <5>1, <5>2
      <4> DEFINE u == SubSeq(text, (a - 1) + 1, a)
                 b == a - 1
      <4> HIDE DEF a
      <4>3. u \in Seq(Byte) /\ Len(u) = 1 /\ u[1] = EOL
        <5>1. b \in Nat /\ b <= a /\ a <= Len(text) /\ a - b = 1 /\ b + 1 = a /\ a \in Nat
          BY <4>1, <2>3
        <5> HIDE DEF b
        <5>2. /\ SubSeq(text, b + 1, a) \in Seq(Byte) /\ Len(SubSeq(text, b + 1, a)) = a - b
              /\ \A i \in 1 .. a - b : SubSeq(text, b + 1, a)[i] = text[b + i]
          BY <2>4, <5>1, Cut
        <5>3. 1 \in 1 .. a - b
          BY <5>1
        <5>4. QED BY <4>2, <5>1, <5>2, <5>3 DEF b
      <4> HIDE DEF u
      <4>4. <<EOL>> \in Seq(Byte) /\ Len(<<EOL>>) = 1 /\ <<EOL>>[1] = EOL
        BY DEF Byte
      <4>5. \A i \in 1 .. Len(u) : u[i] = <<EOL>>[i]
        <5>1. \A i \in 1 .. Len(u) : i = 1
          BY <4>3
        <5>2. QED BY <4>3, <4>4, <5>1
      <4>6. u = <<EOL>>
        BY <4>3, <4>4, <4>5, SeqEqual
      <4>7. QED BY <4>6 DEF u, a
    <3>3. a - 1 \in Nat /\ a <= a + m /\ a + m \in Nat /\ a - 1 <= a + m /\ a - 1 <= a
      BY <2>3, <2>4, <2>10
    <3> DEFINE b == a - 1
               e == a + m
    <3> HIDE DEF a, b, e
    <3>4. <<EOL>> \o l = SubSeq(text, b + 1, e)
      <4>1. SubSeq(text, b + 1, a) \o SubSeq(text, a + 1, e) = SubSeq(text, b + 1, e)
        BY <2>3, <2>4, <3>3, CutJoin DEF b, e
      <4>2. QED BY <2>7, <3>2, <4>1 DEF b, e
    <3>5. SubSeq(text, 1, b) \o SubSeq(text, b + 1, e) = SubSeq(text, 1, e)
      <4>1. 0 \in Nat /\ b \in Nat /\ e \in Nat /\ 0 <= b /\ b <= e /\ e <= Len(text)
            /\ 0 + 1 = 1
        BY <2>3, <3>3 DEF b, e
      <4>2. SubSeq(text, 0 + 1, b) \o SubSeq(text, b + 1, e) = SubSeq(text, 0 + 1, e)
        BY <2>4, <4>1, CutJoin
      <4>3. QED BY <4>1, <4>2
    <3>6. FileText(Append(s, l)) = FileText(s) \o (<<EOL>> \o l)
      BY <2>6, <2>10
    <3>7. FileText(s) = SubSeq(text, 1, b)
      BY <3>1 DEF b
    <3>8. Starts(d)[k + 1] - 1 = e
      BY <2>8 DEF e
    <3>9. QED BY <2>5, <3>4, <3>5, <3>6, <3>7, <3>8
  <2>11. QED BY <2>9, <2>10
<1>4. QED
  <2> HIDE DEF T
  <2>1. \A k \in Nat : k \in T
    BY <1>2, <1>3, SetInduction
  <2>2. QED BY <2>1 DEF T

(* A part of a text that is cut in two.                                    *)
IsPart(u, text, a, e) == u = SubSeq(text, a + 1, e)

LEMMA CutInTwo ==
    ASSUME NEW S, NEW text \in Seq(S), NEW a \in Nat, NEW e \in Nat, a <= e, e <= Len(text),
           NEW s \in Seq(S), NEW t \in Seq(S), IsPart(s \o t, text, a, e)
    PROVE  /\ Len(s) \in Nat /\ a + Len(s) <= e
           /\ s = SubSeq(text, a + 1, a + Len(s)) /\ t = SubSeq(text, a + Len(s) + 1, e)
<1> DEFINE m == Len(s)
           n == Len(t)
           c == a + m
           u == SubSeq(text, a + 1, c)
           v == SubSeq(text, c + 1, e)
           st == s \o t
<1>1. /\ st \in Seq(S) /\ m \in Nat /\ n \in Nat /\ Len(st) = m + n
      /\ \A i \in 1 .. m : st[i] = s[i]
      /\ \A i \in 1 .. n : st[m + i] = t[i]
  <2>1. /\ s \o t \in Seq(S) /\ Len(s) \in Nat /\ Len(t) \in Nat
        /\ Len(s \o t) = Len(s) + Len(t)
        /\ \A i \in 1 .. Len(s) : (s \o t)[i] = s[i]
        /\ \A i \in 1 .. Len(t) : (s \o t)[Len(s) + i] = t[i]
    BY Joins
  <2>2. QED BY <2>1
<1>2. st = SubSeq(text, a + 1, e)
  BY DEF IsPart
<1> HIDE DEF st
<1>3. Len(st) = e - a /\ \A i \in 1 .. e - a : st[i] = text[a + i]
  BY <1>2, Cut
<1> HIDE DEF m, n
<1>4. c \in Nat /\ a <= c /\ c <= e /\ c <= Len(text) /\ c - a = m /\ e - c = n
  BY <1>1, <1>3, LenProperties
<1> HIDE DEF c
<1>5. u \in Seq(S) /\ Len(u) = m /\ \A i \in 1 .. m : u[i] = text[a + i]
  BY <1>4, Cut
<1>6. v \in Seq(S) /\ Len(v) = n /\ \A i \in 1 .. n : v[i] = text[c + i]
  BY <1>4, Cut
<1> HIDE DEF u, v
<1>7. \A i \in 1 .. m : s[i] = u[i]
  <2>1. \A i \in 1 .. m : i \in 1 .. e - a
    BY <1>1, <1>3
  <2>2. QED BY <1>1, <1>3, <1>5, <2>1
<1>8. ASSUME NEW i \in 1 .. n PROVE t[i] = v[i]
  <2>1. m + i \in 1 .. e - a /\ a + (m + i) = c + i
    BY <1>1, <1>3 DEF c
  <2>2. QED BY <1>1, <1>3, <1>6, <2>1
<1>9. s = u /\ t = v
  BY <1>5, <1>6, <1>7, <1>8, SeqEqual DEF m, n
<1>10. QED BY <1>1, <1>4, <1>9 DEF m, n, c, u, v

-----------------------------------------------------------------------------
(* The invariant, for a document d whose text is in the file, a frame f    *)
(* and the lines g that the program has got.                               *)

FrameOK(f, d) ==
    /\ DOMAIN f = {"buffer", "offset", "from", "num_read", "eol_pos"}
    /\ BufferOK(f.buffer, Byte)
    /\ f.offset \in 0 .. Len(FileText(d))
    /\ f.num_read \in 0 .. f.offset
    /\ f.from \in Nat /\ f.eol_pos \in Int

(* The buffer holds what was read behind the first k lines.                *)
HoldsBehind(f, d, k) ==
    /\ Behind(d, k) /\ Starts(d)[k] <= f.offset
    /\ Unread(f.buffer) = SubSeq(FileText(d), Starts(d)[k] + 1, f.offset)

Between(f, d, g) == g = SubSeq(d, 1, Len(g)) /\ HoldsBehind(f, d, Len(g))

(* No line end among the first n bytes.                                    *)
Searched(f, n) ==
    n \in 0 .. Readable(f.buffer) /\ \A i \in 1 .. n : Unread(f.buffer)[i] # EOL

(* The file has been read, or two blocks of it.                            *)
ReadEnough(f, d) == f.offset = Len(FileText(d)) \/ f.offset >= 2 * BlockSize

Scanning(f, d) == ReadEnough(f, d) \/ f.num_read = BlockSize

Found(f) ==
    /\ f.eol_pos \in 0 .. Readable(f.buffer) - 1
    /\ Searched(f, f.eol_pos) /\ Unread(f.buffer)[f.eol_pos + 1] = EOL

NoneLeft(f, d) == ReadEnough(f, d) /\ Searched(f, Readable(f.buffer))

LastLine(f, d, g) ==
    /\ Readable(f.buffer) > 0
    /\ \E k \in 0 .. Len(d) :
         HoldsBehind(f, d, k) /\ g = Append(SubSeq(d, 1, k), Unread(f.buffer))

Runs(a, f, d, g) ==
    \/ /\ a = "read" /\ Between(f, d, g) /\ Searched(f, f.from)
       /\ f = NewFrame \/ f.offset >= BlockSize
    \/ a = "scan" /\ Between(f, d, g) /\ Searched(f, f.from) /\ Scanning(f, d)
    \/ a = "yielded" /\ Between(f, d, g) /\ Found(f) /\ Scanning(f, d)
    \/ a = "end" /\ Between(f, d, g) /\ NoneLeft(f, d)
    \/ a = "returned" /\ Between(f, d, g) /\ NoneLeft(f, d) /\ Readable(f.buffer) > 0
    \/ /\ a = "done" /\ NoneLeft(f, d)
       /\ LastLine(f, d, g) \/ (Readable(f.buffer) = 0 /\ Between(f, d, g))
    \/ a = "undefined"

Writes ==
    /\ at = "write" /\ frame = NewFrame /\ got = <<>>
    /\ Len(file) <= Len(FileText(document))
    /\ file = SubSeq(FileText(document), 1, Len(file))

LinesIInv ==
    /\ document \in Documents
    /\ shifted \in BOOLEAN
    /\ ~shifted => \/ Writes
                   \/ /\ file = FileText(document) /\ FrameOK(frame, document)
                      /\ Runs(at, frame, document, got)

-----------------------------------------------------------------------------
(* The steps of the generator, one lemma for each.                         *)

LEMMA SizesAre ==
    ASSUME NEW d \in Documents, NEW f, FrameOK(f, d)
    PROVE  /\ BlockSize \in Nat /\ BlockSize > 0
           /\ FileText(d) \in Seq(Byte) /\ Len(FileText(d)) \in Nat
           /\ f.offset \in Nat /\ f.offset <= Len(FileText(d))
           /\ f.num_read \in Nat /\ f.num_read <= f.offset
           /\ BufferOK(f.buffer, Byte)
           /\ Readable(f.buffer) \in Nat /\ Unread(f.buffer) \in Seq(Byte)
           /\ Len(Unread(f.buffer)) = Readable(f.buffer)
<1>1. d \in Seq(Seq(Byte))
  BY DocumentIs
<1>2. FileText(d) \in Seq(Byte) /\ Len(FileText(d)) \in Nat
  BY <1>1, FileTextIs, LenProperties
<1>3. BlockSize \in Nat /\ BlockSize > 0
  BY LinesAssumption
<1>4. BufferOK(f.buffer, Byte)
  BY DEF FrameOK
<1>5. /\ Readable(f.buffer) \in Nat /\ Unread(f.buffer) \in Seq(Byte)
      /\ Len(Unread(f.buffer)) = Readable(f.buffer)
  BY <1>4, UnreadIs
<1>6. f.offset \in 0 .. Len(FileText(d)) /\ f.num_read \in 0 .. f.offset
  BY DEF FrameOK
<1>7. QED BY <1>2, <1>3, <1>4, <1>5, <1>6

LEMMA HeldIs ==
    ASSUME NEW d \in Documents, NEW f, FrameOK(f, d), NEW k, HoldsBehind(f, d, k)
    PROVE  /\ Behind(d, k) /\ Starts(d)[k] \in Nat /\ Starts(d)[k] <= f.offset
           /\ Readable(f.buffer) = f.offset - Starts(d)[k]
           /\ \A i \in 1 .. Readable(f.buffer) :
                Unread(f.buffer)[i] = FileText(d)[Starts(d)[k] + i]
<1> DEFINE a == Starts(d)[k]
           e == f.offset
           u == Unread(f.buffer)
           text == FileText(d)
<1>1. /\ Behind(d, k) /\ a <= e /\ u = SubSeq(text, a + 1, e)
  BY DEF HoldsBehind
<1>2. a \in Nat
  BY <1>1, PlaceIs
<1>3. /\ text \in Seq(Byte) /\ e \in Nat /\ e <= Len(text)
      /\ Len(u) = Readable(f.buffer)
  BY SizesAre
<1> HIDE DEF a, e, u, text
<1>4. Len(u) = e - a /\ \A i \in 1 .. e - a : u[i] = text[a + i]
  BY <1>1, <1>2, <1>3, Cut
<1>5. Readable(f.buffer) = e - a
  BY <1>3, <1>4
<1>6. QED BY <1>1, <1>2, <1>4, <1>5 DEF a, e, u, text

LEMMA FirstRead ==
    ASSUME NEW d \in Documents
    PROVE  /\ FrameOK(NewFrame, d) /\ Between(NewFrame, d, <<>>)
           /\ Searched(NewFrame, NewFrame.from)
<1> DEFINE f == NewFrame
           b == NewBuffer(BlockSize)
<1>1. /\ f.buffer = b /\ f.offset = 0 /\ f.from = 0 /\ f.num_read = 0 /\ f.eol_pos = -1
      /\ DOMAIN f = {"buffer", "offset", "from", "num_read", "eol_pos"}
  BY DEF NewFrame
<1>2. BlockSize \in Nat /\ BlockSize > 0 /\ Junk \in Byte
  BY LinesAssumption DEF Byte
<1>3. BufferOK(b, Byte) /\ Unread(b) = <<>>
  BY <1>2, NewIs
<1>4. d \in Seq(Seq(Byte)) /\ Len(d) \in Nat
  BY DocumentIs, LenProperties
<1>5. FileText(d) \in Seq(Byte) /\ Len(FileText(d)) \in Nat
  BY <1>4, FileTextIs, LenProperties
<1>6. Readable(b) = 0
  BY <1>3, UnreadIs, EmptySeq
<1> HIDE DEF f, b
<1>7. FrameOK(f, d)
  BY <1>1, <1>3, <1>5 DEF FrameOK
<1>8. Behind(d, 0) /\ Starts(d)[0] = 0
  <2>1. Behind(d, 0)
    BY <1>4 DEF Behind
  <2>2. QED BY <2>1, PlaceIs
<1>9. HoldsBehind(f, d, 0)
  <2>1. SubSeq(FileText(d), 0 + 1, 0) = <<>>
    BY SubSeqEmpty
  <2>2. QED BY <1>1, <1>3, <1>8, <2>1 DEF HoldsBehind
<1>10. Between(f, d, <<>>)
  <2>1. SubSeq(d, 1, 0) = <<>> /\ Len(<<>>) = 0
    BY SubSeqEmpty
  <2>2. QED BY <1>9, <2>1 DEF Between
<1>11. Searched(f, f.from)
  BY <1>1, <1>6 DEF Searched
<1>12. QED BY <1>7, <1>10, <1>11 DEF f

LEMMA ReadStep ==
    ASSUME NEW d \in Documents, NEW f, NEW g, FrameOK(f, d), Between(f, d, g),
           Searched(f, f.from), f = NewFrame \/ f.offset >= BlockSize,
           ~Compacts(f.buffer, BlockSize),
           NEW b, b = Adjust(f.buffer, BlockSize),
           NEW e, e = Min({Len(FileText(d)), f.offset + Writeable(b)}),
           NEW part, part = SubSeq(FileText(d), f.offset + 1, e),
           NEW h, h = [f EXCEPT !.buffer = Receive(b, part), !.offset = @ + Len(part),
                                !.num_read = Len(part)]
    PROVE  FrameOK(h, d) /\ Between(h, d, g) /\ Searched(h, h.from) /\ Scanning(h, d)
<1> DEFINE text == FileText(d)
           k == Len(g)
           a == Starts(d)[k]
           o == f.offset
           c == Receive(b, part)
<1>1. /\ BlockSize \in Nat /\ BlockSize > 0
      /\ text \in Seq(Byte) /\ Len(text) \in Nat /\ o \in Nat /\ o <= Len(text)
      /\ BufferOK(f.buffer, Byte)
  BY SizesAre
<1>2. /\ BufferOK(b, Byte) /\ Unread(b) = Unread(f.buffer) /\ BlockSize <= Writeable(b)
  BY <1>1, Adjusts
<1>3. Writeable(b) \in Int
  BY <1>2, WriteableIs
<1>4. /\ e \in Nat /\ o <= e /\ e <= Len(text) /\ e - o <= Writeable(b)
      /\ e = Len(text) \/ e = o + Writeable(b)
  <2>1. e = IF Len(text) <= o + Writeable(b) THEN Len(text) ELSE o + Writeable(b)
    <3> DEFINE x == Len(text)
               y == o + Writeable(b)
    <3>1. x \in Int /\ y \in Int
      BY <1>1, <1>3
    <3>2. e = Min({x, y})
      OBVIOUS
    <3> HIDE DEF x, y
    <3>3. Min({x, y}) = IF x <= y THEN x ELSE y
      BY <3>1, MinOfTwo
    <3>4. QED BY <3>2, <3>3 DEF x, y
  <2> HIDE DEF text, o
  <2>2. QED BY <1>1, <1>2, <1>3, <2>1
<1>5. part \in Seq(Byte) /\ Len(part) = e - o
  <2>1. part = SubSeq(text, o + 1, e)
    OBVIOUS
  <2>2. text \in Seq(Byte) /\ o \in Nat /\ e \in Nat /\ o <= e /\ e <= Len(text)
    BY <1>1, <1>4
  <2> HIDE DEF text, o
  <2>3. SubSeq(text, o + 1, e) \in Seq(Byte) /\ Len(SubSeq(text, o + 1, e)) = e - o
    BY <2>2, Cut
  <2>4. QED BY <2>1, <2>3
<1>6. BufferOK(c, Byte) /\ Unread(c) = Unread(b) \o part
  <2>1. Len(part) <= Writeable(b)
    BY <1>4, <1>5
  <2>2. QED BY <1>2, <1>5, <2>1, Receives
<1>7. /\ h.buffer = c /\ h.offset = e /\ h.num_read = e - o /\ h.from = f.from
      /\ h.eol_pos = f.eol_pos /\ DOMAIN h = DOMAIN f
  <2>1. /\ h.buffer = c /\ h.offset = o + Len(part) /\ h.num_read = Len(part)
        /\ h.from = f.from /\ h.eol_pos = f.eol_pos /\ DOMAIN h = DOMAIN f
    BY DEF FrameOK
  <2> HIDE DEF o, c
  <2>2. QED BY <1>1, <1>4, <1>5, <2>1
<1>8. FrameOK(h, d)
  <2>1. /\ DOMAIN f = {"buffer", "offset", "from", "num_read", "eol_pos"}
        /\ f.from \in Nat /\ f.eol_pos \in Int
    BY DEF FrameOK
  <2>2. e \in 0 .. Len(text) /\ e - o \in 0 .. e
    BY <1>1, <1>4
  <2> HIDE DEF o, c
  <2>3. QED BY <1>6, <1>7, <2>1, <2>2 DEF FrameOK
<1>9. /\ Behind(d, k) /\ a \in Nat /\ a <= o /\ Readable(f.buffer) = o - a
      /\ Unread(f.buffer) = SubSeq(text, a + 1, o) /\ g = SubSeq(d, 1, k)
  <2>1. HoldsBehind(f, d, k) /\ g = SubSeq(d, 1, k)
    BY DEF Between
  <2>2. QED BY <2>1, HeldIs DEF HoldsBehind
<1>10. Unread(c) = SubSeq(text, a + 1, e)
  <2>1. SubSeq(text, a + 1, o) \o SubSeq(text, o + 1, e) = SubSeq(text, a + 1, e)
    <3>1. /\ text \in Seq(Byte) /\ a \in Nat /\ o \in Nat /\ e \in Nat
          /\ a <= o /\ o <= e /\ e <= Len(text)
      BY <1>1, <1>4, <1>9
    <3> HIDE DEF a, o, text
    <3>2. QED BY <3>1, CutJoin, ZenonT(40)
  <2>2. QED BY <1>2, <1>6, <1>9, <2>1
<1>11. Between(h, d, g)
  <2>1. HoldsBehind(h, d, k)
    <3>1. a <= e
      BY <1>1, <1>4, <1>9
    <3> HIDE DEF c
    <3>2. QED BY <1>7, <1>9, <1>10, <3>1 DEF HoldsBehind
  <2>2. QED BY <1>9, <2>1 DEF Between
<1>12. Searched(h, h.from)
  <2> DEFINE n == f.from
             u == Unread(b)
  <2>1. /\ n \in 0 .. Readable(f.buffer) /\ \A i \in 1 .. n : u[i] # EOL
    BY <1>2 DEF Searched
  <2>2. u \in Seq(Byte) /\ Len(u) = Readable(f.buffer) /\ Len(u) \in Nat
    BY <1>1, <1>2, UnreadIs
  <2> HIDE DEF n, u, c
  <2>3. /\ Len(u \o part) = Len(u) + Len(part) /\ Len(part) \in Nat
        /\ \A i \in 1 .. Len(u) : (u \o part)[i] = u[i]
    BY <1>5, <2>2, Joins
  <2>4. Readable(c) = Len(u) + Len(part)
    BY <1>6, <2>3, UnreadIs DEF u
  <2>5. n \in 0 .. Readable(c)
    <3>1. n \in 0 .. Len(u) /\ Len(u) \in Nat
      BY <2>1, <2>2
    <3> DEFINE x == Len(u)
               y == Len(part)
    <3>2. x \in Nat /\ y \in Nat /\ n \in 0 .. x /\ Readable(c) = x + y
      BY <2>3, <2>4, <3>1
    <3> HIDE DEF x, y
    <3>3. QED BY <3>2
  <2>6. \A i \in 1 .. n : Unread(c)[i] # EOL
    <3>1. \A i \in 1 .. n : i \in 1 .. Len(u)
      BY <2>1, <2>2
    <3>2. Unread(c) = u \o part
      BY <1>6 DEF u
    <3>3. QED BY <2>1, <2>3, <3>1, <3>2
  <2>7. QED BY <1>7, <2>5, <2>6 DEF Searched, n
<1>13. Scanning(h, d)
  <2>1. CASE e = Len(text)
    BY <1>7, <2>1 DEF Scanning, ReadEnough
  <2>2. CASE e = o + Writeable(b) /\ o >= BlockSize
    <3>1. e >= 2 * BlockSize
      BY <1>1, <1>2, <1>3, <2>2
    <3>2. QED BY <1>7, <3>1 DEF Scanning, ReadEnough
  <2>3. CASE e = o + Writeable(b) /\ f = NewFrame
    <3> DEFINE z == NewBuffer(BlockSize)
    <3>1. f.buffer = z /\ o = 0
      BY <2>3 DEF NewFrame
    <3>2. z.open = TRUE /\ z.w = 0 /\ z.mem = Blank(BlockSize)
      BY DEF NewBuffer
    <3>3. Len(Blank(BlockSize)) = BlockSize
      <4>1. Junk \in Byte
        BY DEF Byte
      <4>2. QED BY <1>1, <4>1, BlankIs
    <3> HIDE DEF z
    <3>4. Writeable(z) = BlockSize
      BY <1>1, <3>2, <3>3 DEF Writeable
    <3>5. b = z
      <4>1. ~NeedsRoom(z, BlockSize)
        BY <1>1, <3>4 DEF NeedsRoom
      <4>2. QED BY <3>1, <4>1 DEF Adjust
    <3>6. e - o = BlockSize
      BY <1>1, <2>3, <3>1, <3>4, <3>5
    <3>7. QED BY <1>7, <3>6 DEF Scanning
  <2>4. QED BY <1>4, <2>1, <2>2, <2>3
<1>14. QED BY <1>8, <1>11, <1>12, <1>13

(* The search finds the next line end, or none is left.                    *)
LEMMA SearchStep ==
    ASSUME NEW d \in Documents, NEW f, NEW g, FrameOK(f, d), Between(f, d, g),
           Searched(f, f.from), NEW found, found = FindByte(f.buffer, EOL, f.from)
    PROVE  /\ found # -1 =>
                LET h == [f EXCEPT !.eol_pos = found]
                IN  FrameOK(h, d) /\ Between(h, d, g) /\ Found(h) /\ (Scanning(f, d) => Scanning(h, d))
           /\ found = -1 =>
                LET h == [f EXCEPT !.from = Readable(f.buffer)]
                IN  /\ FrameOK(h, d) /\ Between(h, d, g)
                    /\ Searched(h, h.from) /\ h.from = Readable(h.buffer)
                    /\ h.offset = f.offset
<1> DEFINE n == Readable(f.buffer)
           u == Unread(f.buffer)
<1>1. BufferOK(f.buffer, Byte) /\ n \in Nat
  BY SizesAre
<1>2. f.from \in 0 .. n /\ \A i \in 1 .. f.from : u[i] # EOL
  BY DEF Searched
<1>3. \/ found = -1 /\ \A i \in 1 .. n : u[i] # EOL
      \/ found \in 0 .. n - 1 /\ found # -1 /\ u[found + 1] = EOL /\ \A i \in 1 .. found : u[i] # EOL
  <2> DEFINE b == f.buffer
             pos == f.from
  <2>1. /\ BufferOK(b, Byte) /\ pos \in 0 .. Readable(b)
        /\ \A i \in 1 .. pos : Unread(b)[i] # EOL
        /\ found = FindByte(b, EOL, pos)
    BY <1>1, <1>2
  <2> HIDE DEF b, pos
  <2>2. \/ found = -1 /\ \A i \in 1 .. Readable(b) : Unread(b)[i] # EOL
        \/ /\ found \in 0 .. Readable(b) - 1 /\ found # -1
           /\ Unread(b)[found + 1] = EOL
           /\ \A i \in 1 .. found : Unread(b)[i] # EOL
    BY <2>1, Finds
  <2>3. QED BY <2>2 DEF b
<1>4. ASSUME found # -1, NEW h, h = [f EXCEPT !.eol_pos = found]
      PROVE  FrameOK(h, d) /\ Between(h, d, g) /\ Found(h) /\ (Scanning(f, d) => Scanning(h, d))
  <2>1. /\ h.buffer = f.buffer /\ h.offset = f.offset /\ h.num_read = f.num_read
        /\ h.from = f.from /\ h.eol_pos = found /\ DOMAIN h = DOMAIN f
    BY <1>4 DEF FrameOK
  <2>2. /\ found \in 0 .. n - 1 /\ u[found + 1] = EOL /\ \A i \in 1 .. found : u[i] # EOL
        /\ found \in Int /\ found \in 0 .. n
    BY <1>1, <1>3, <1>4
  <2>3. FrameOK(h, d)
    BY <2>1, <2>2 DEF FrameOK
  <2>4. Between(h, d, g)
    BY <2>1 DEF Between, HoldsBehind
  <2>5. Found(h)
    BY <2>1, <2>2 DEF Found, Searched
  <2>6. Scanning(f, d) => Scanning(h, d)
    BY <2>1 DEF Scanning, ReadEnough
  <2>7. QED BY <2>3, <2>4, <2>5, <2>6
<1>5. ASSUME found = -1, NEW h, h = [f EXCEPT !.from = Readable(f.buffer)]
      PROVE  /\ FrameOK(h, d) /\ Between(h, d, g)
             /\ Searched(h, h.from) /\ h.from = Readable(h.buffer)
             /\ h.offset = f.offset
  <2>1. /\ h.buffer = f.buffer /\ h.offset = f.offset /\ h.num_read = f.num_read
        /\ h.from = n /\ h.eol_pos = f.eol_pos /\ DOMAIN h = DOMAIN f
    BY <1>5 DEF FrameOK
  <2>2. \A i \in 1 .. n : u[i] # EOL
    BY <1>3, <1>5
  <2>3. FrameOK(h, d)
    BY <1>1, <2>1 DEF FrameOK
  <2>4. Between(h, d, g)
    BY <2>1 DEF Between, HoldsBehind
  <2>5. Searched(h, h.from)
    BY <1>1, <2>1, <2>2 DEF Searched
  <2>6. QED BY <2>1, <2>3, <2>4, <2>5
<1>6. QED BY <1>4, <1>5

(* What was yielded is the next line; behind it nothing has been searched. *)
LEMMA NextStep ==
    ASSUME NEW d \in Documents, NEW f, NEW g, FrameOK(f, d), Between(f, d, g),
           Found(f), Scanning(f, d),
           NEW line, line = Bytes(f.buffer, f.eol_pos),
           NEW h, h = [f EXCEPT !.buffer = Retrieve(f.buffer, f.eol_pos + 1), !.from = 0]
    PROVE  /\ FrameOK(h, d) /\ Between(h, d, Append(g, line))
           /\ Searched(h, h.from) /\ Scanning(h, d)
<1> DEFINE b == f.buffer
           q == f.eol_pos
           n == Readable(b)
           u == Unread(b)
           c == Retrieve(b, q + 1)
           k == Len(g)
           a == Starts(d)[k]
           o == f.offset
           text == FileText(d)
<1>1. /\ text \in Seq(Byte) /\ Len(text) \in Nat /\ o \in Nat /\ o <= Len(text)
      /\ BufferOK(b, Byte) /\ n \in Nat /\ u \in Seq(Byte) /\ Len(u) = n
  BY SizesAre
<1>2. /\ q \in 0 .. n - 1 /\ u[q + 1] = EOL /\ \A i \in 1 .. q : u[i] # EOL
  BY DEF Found, Searched
<1>3. /\ Behind(d, k) /\ a \in Nat /\ a <= o /\ n = o - a
      /\ \A i \in 1 .. n : u[i] = text[a + i]
      /\ u = SubSeq(text, a + 1, o) /\ g = SubSeq(d, 1, k)
  <2>1. HoldsBehind(f, d, k) /\ g = SubSeq(d, 1, k)
    BY DEF Between
  <2>2. u = SubSeq(text, a + 1, o)
    BY <2>1 DEF HoldsBehind
  <2>3. /\ Behind(d, k) /\ a \in Nat /\ a <= o /\ n = o - a
        /\ \A i \in 1 .. n : u[i] = text[a + i]
    <3> HIDE DEF k
    <3>1. QED BY <2>1, HeldIs
  <2>4. QED BY <2>1, <2>2, <2>3
<1> HIDE DEF b, q, n, u, a, o, text
<1>4. /\ q \in Nat /\ q \in 0 .. n /\ q + 1 \in 0 .. n /\ q + 1 \in 1 .. n
  <2>1. n \in Nat /\ q \in 0 .. n - 1
    BY <1>1, <1>2
  <2>2. QED BY <2>1
<1>5. /\ Behind(d, k + 1) /\ Len(d[k + 1]) = q /\ Starts(d)[k + 1] = a + q + 1
      /\ d[k + 1] = SubSeq(text, a + 1, a + q)
  <2>1. a + q < Len(text)
    <3>1. /\ a \in Nat /\ o \in Nat /\ Len(text) \in Nat /\ o <= Len(text)
          /\ q \in 0 .. n - 1 /\ n = o - a
      BY <1>1, <1>2, <1>3
    <3>2. QED BY <3>1
  <2>2. text[a + q + 1] = EOL
    <3>1. a + (q + 1) = a + q + 1
      BY <1>3, <1>4
    <3>2. QED BY <1>2, <1>3, <1>4, <3>1
  <2>3. \A i \in 1 .. q : text[a + i] # EOL
    <3>1. \A i \in 1 .. q : i \in 1 .. n
      BY <1>1, <1>4
    <3>2. QED BY <1>2, <1>3, <3>1
  <2> HIDE DEF k
  <2>4. QED BY <1>3, <1>4, <2>1, <2>2, <2>3, FirstEndIs DEF a, text
<1>6. /\ BufferOK(c, Byte) /\ Readable(c) = n - (q + 1)
      /\ Bytes(b, q + 1) \o Unread(c) = u
  BY <1>1, <1>4, RetrieveSplits DEF n, u
<1>7. /\ Bytes(b, q + 1) \in Seq(Byte) /\ Len(Bytes(b, q + 1)) = q + 1
      /\ Unread(c) \in Seq(Byte)
  BY <1>1, <1>4, <1>6, BytesAre, UnreadIs DEF n
<1>8. Unread(c) = SubSeq(text, a + (q + 1) + 1, o)
  <2> DEFINE s == Bytes(b, q + 1)
             t == Unread(c)
             m == Len(s)
  <2>1. s \in Seq(Byte) /\ t \in Seq(Byte) /\ m = q + 1
    BY <1>7
  <2>2. IsPart(s \o t, text, a, o)
    BY <1>3, <1>6 DEF IsPart
  <2> HIDE DEF s, t
  <2>3. t = SubSeq(text, a + Len(s) + 1, o)
    <3>1. text \in Seq(Byte) /\ a \in Nat /\ o \in Nat /\ a <= o /\ o <= Len(text)
      BY <1>1, <1>3
    <3>2. QED BY <2>1, <2>2, <3>1, CutInTwo
  <2>4. QED BY <2>1, <2>3 DEF t
<1>9. line = d[k + 1]
  <2>1. line \in Seq(Byte) /\ Len(line) = q
    BY <1>1, <1>4, BytesAre DEF n, b, q
  <2>2. \A i \in 1 .. q : line[i] = u[i]
    <3>1. /\ b.mem \in Seq(Byte) /\ Len(b.mem) \in Nat /\ b.r \in Nat /\ b.w \in Nat
          /\ b.r <= b.w /\ b.w <= Len(b.mem)
      BY <1>1, Parts
    <3>2. n = b.w - b.r
      BY DEF n, Readable
    <3> DEFINE r == b.r
               x == b.r + q
               mem == b.mem
    <3>3. line = SubSeq(mem, r + 1, x)
      BY <1>1, <1>4, BytesAre DEF n, b, q
    <3>4. /\ mem \in Seq(Byte) /\ r \in Nat /\ x \in Nat /\ r <= x /\ x <= Len(mem) /\ x - r = q
      BY <1>4, <3>1, <3>2
    <3>5. \A i \in 1 .. n : u[i] = mem[r + i]
      BY <1>1, UnreadAt DEF n, u
    <3> HIDE DEF r, x, mem
    <3>6. \A i \in 1 .. x - r : SubSeq(mem, r + 1, x)[i] = mem[r + i]
      BY <3>4, Cut
    <3>7. \A i \in 1 .. q : i \in 1 .. n
      BY <1>1, <1>4
    <3>8. QED BY <3>3, <3>4, <3>5, <3>6, <3>7
  <2>3. d[k + 1] \in Seq(Byte) /\ k + 1 \in 1 .. Len(d)
    <3>1. d \in Seq(Seq(Byte)) /\ Len(d) \in Nat
      BY DocumentIs, LenProperties
    <3>2. k + 1 \in 1 .. Len(d)
      BY <1>3, <1>5, <3>1 DEF Behind
    <3>3. QED BY <3>1, <3>2, ElementOfSeq
  <2>4. \A i \in 1 .. q : d[k + 1][i] = text[a + i]
    <3> DEFINE e == a + q
    <3>1. e \in Nat /\ a <= e /\ e <= Len(text) /\ e - a = q /\ a \in Nat
      <4>1. a \in Nat /\ q \in Nat /\ o \in Nat /\ Len(text) \in Nat /\ q <= o - a
            /\ o <= Len(text)
        BY <1>1, <1>3, <1>4
      <4>2. QED BY <4>1
    <3> HIDE DEF e
    <3>2. \A i \in 1 .. e - a : SubSeq(text, a + 1, e)[i] = text[a + i]
      <4>1. text \in Seq(Byte)
        BY <1>1
      <4>2. QED BY <3>1, <4>1, Cut
    <3>3. QED BY <1>5, <3>1, <3>2 DEF e
  <2>5. \A i \in 1 .. q : line[i] = d[k + 1][i]
    <3>1. \A i \in 1 .. q : i \in 1 .. n
      BY <1>1, <1>4
    <3>2. QED BY <1>3, <2>2, <2>4, <3>1
  <2>6. QED BY <1>5, <2>1, <2>3, <2>5, SeqEqual
<1>10. Append(g, line) = SubSeq(d, 1, k + 1) /\ Len(Append(g, line)) = k + 1
  <2>1. d \in Seq(Seq(Byte)) /\ k \in Nat /\ k < Len(d)
    <3>1. d \in Seq(Seq(Byte)) /\ Len(d) \in Nat
      BY DocumentIs, LenProperties
    <3>2. k \in Nat
      BY <1>3, PlaceIs
    <3>3. QED BY <1>3, <1>5, <3>1, <3>2 DEF Behind
  <2> HIDE DEF k
  <2>2. /\ SubSeq(d, 1, k) \in Seq(Seq(Byte)) /\ Len(SubSeq(d, 1, k)) = k
        /\ SubSeq(d, 1, k + 1) = Append(SubSeq(d, 1, k), d[k + 1])
    BY <2>1, OneMore
  <2>3. Append(g, line) = SubSeq(d, 1, k + 1)
    BY <1>3, <1>9, <2>2
  <2>4. Len(Append(g, line)) = Len(g) + 1
    <3>1. g \in Seq(Seq(Byte)) /\ line \in Seq(Byte)
      BY <1>1, <1>3, <1>4, <2>2, BytesAre DEF n, b, q
    <3>2. QED BY <3>1, AppendProperties
  <2>5. QED BY <2>3, <2>4 DEF k
<1>11. /\ h.buffer = c /\ h.offset = o /\ h.num_read = f.num_read /\ h.from = 0
       /\ h.eol_pos = q /\ DOMAIN h = DOMAIN f
  BY DEF FrameOK, o, q, b
<1> HIDE DEF c
<1>12. FrameOK(h, d)
  BY <1>6, <1>11 DEF FrameOK, o, q
<1>13. Between(h, d, Append(g, line))
  <2>1. Starts(d)[k + 1] <= o
    <3>1. /\ a \in Nat /\ q \in Nat /\ o \in Nat /\ n = o - a /\ q + 1 \in 0 .. n
          /\ Starts(d)[k + 1] = a + q + 1
      BY <1>1, <1>3, <1>4, <1>5
    <3>2. QED BY <3>1
  <2>2. a + (q + 1) + 1 = Starts(d)[k + 1] + 1
    BY <1>3, <1>4, <1>5
  <2>3. Unread(h.buffer) = SubSeq(FileText(d), Starts(d)[k + 1] + 1, h.offset)
    BY <1>8, <1>11, <2>2 DEF text
  <2>4. HoldsBehind(h, d, k + 1)
    BY <1>5, <1>11, <2>1, <2>3 DEF HoldsBehind
  <2>5. QED BY <1>10, <2>4 DEF Between
<1>14. Searched(h, h.from)
  <2>1. Readable(h.buffer) \in Nat
    BY <1>12, SizesAre
  <2>2. QED BY <1>11, <2>1 DEF Searched
<1>15. Scanning(h, d)
  BY <1>11 DEF Scanning, ReadEnough, o
<1>16. QED BY <1>12, <1>13, <1>14, <1>15

-----------------------------------------------------------------------------
(* What the program has got when readlines has ended.                      *)

LEMMA PartIsPrefix ==
    ASSUME NEW S, NEW text \in Seq(S), NEW e \in Nat, e <= Len(text)
    PROVE  /\ IsPrefix(SubSeq(text, 1, e), text) /\ Len(SubSeq(text, 1, e)) = e
<1> DEFINE s == SubSeq(text, 1, e)
<1>1. 0 + 1 = 1 /\ e - 0 = e /\ 0 <= e
  OBVIOUS
<1>2. s \in Seq(S) /\ Len(s) = e
  BY <1>1, Cut
<1>3. SubSeq(s, 1, Len(s)) = s
  <2> HIDE DEF s
  <2>1. QED BY <1>2, SubSeqFull
<1>4. SubSeq(s, 1, Len(s)) = SubSeq(text, 1, Len(s))
  BY <1>2, <1>3
<1> HIDE DEF s
<1>5. IsPrefix(s, text)
  BY <1>2, <1>4 DEF IsPrefix
<1>6. QED BY <1>2, <1>5 DEF s

LEMMA NoEndInLines ==
    ASSUME NEW d \in Documents, NEW k \in 0 .. Len(d)
    PROVE  \A i \in DOMAIN SubSeq(d, 1, k) : EOL \notin ToSet(SubSeq(d, 1, k)[i])
<1> DEFINE g == SubSeq(d, 1, k)
<1>1. /\ d \in Seq(Seq(Byte)) /\ Len(d) \in Nat
      /\ \A j \in 1 .. Len(d) : \A i \in 1 .. Len(d[j]) : d[j][i] # EOL
  BY DocumentIs, LenProperties
<1>2. g \in Seq(Seq(Byte)) /\ Len(g) = k /\ \A i \in 1 .. k : g[i] = d[i]
  <2>1. 0 + 1 = 1 /\ k - 0 = k /\ k \in Nat /\ k <= Len(d) /\ 0 <= k
        /\ \A i \in 1 .. k : 0 + i = i
    BY <1>1
  <2>2. /\ SubSeq(d, 0 + 1, k) \in Seq(Seq(Byte)) /\ Len(SubSeq(d, 0 + 1, k)) = k - 0
        /\ \A i \in 1 .. k - 0 : SubSeq(d, 0 + 1, k)[i] = d[0 + i]
    BY <1>1, <2>1, Cut
  <2>3. QED BY <2>1, <2>2
<1> HIDE DEF g
<1>3. ASSUME NEW i \in DOMAIN g PROVE EOL \notin ToSet(g[i])
  <2>1. i \in 1 .. k /\ i \in 1 .. Len(d)
    BY <1>1, <1>2, LenProperties
  <2>2. DOMAIN d[i] = 1 .. Len(d[i])
    <3>1. d[i] \in Seq(Byte)
      BY <1>1, <2>1, ElementOfSeq
    <3>2. QED BY <3>1, LenProperties
  <2>3. g[i] = d[i]
    BY <1>2, <2>1
  <2>4. QED BY <1>1, <2>1, <2>2, <2>3 DEF ToSet
<1>4. QED BY <1>3 DEF g

(* Nothing was left behind the last line end.                              *)
LEMMA FlowsOff ==
    ASSUME NEW d \in Documents, NEW f, NEW g, FrameOK(f, d), NoneLeft(f, d),
           Readable(f.buffer) = 0, Between(f, d, g)
    PROVE  /\ \A i \in DOMAIN g : EOL \notin ToSet(g[i])
           /\ f.offset = Len(FileText(d)) => d \in {g, Append(g, <<>>)}
           /\ f.offset >= 2 * BlockSize =>
                /\ IsPrefix(FileText(g), FileText(d))
                /\ Len(FileText(g)) >= 2 * BlockSize - 1
<1> DEFINE k == Len(g)
           a == Starts(d)[k]
           o == f.offset
           text == FileText(d)
<1>1. /\ text \in Seq(Byte) /\ Len(text) \in Nat /\ o \in Nat /\ o <= Len(text)
      /\ BlockSize \in Nat /\ BlockSize > 0
  BY SizesAre
<1>2. HoldsBehind(f, d, k) /\ g = SubSeq(d, 1, k)
  BY DEF Between
<1>3. Behind(d, k) /\ a \in Nat /\ a = o
  <2>1. Behind(d, k) /\ a \in Nat /\ 0 = o - a
    <3> HIDE DEF k
    <3>1. QED BY <1>2, HeldIs
  <2>2. QED BY <1>1, <2>1
<1>4. d \in Seq(Seq(Byte)) /\ Len(d) \in Nat /\ k \in 0 .. Len(d)
  BY <1>3, DocumentIs, LenProperties DEF Behind
<1> HIDE DEF k, a, o, text
<1>5. \A i \in DOMAIN g : EOL \notin ToSet(g[i])
  BY <1>2, <1>4, NoEndInLines
<1>6. ASSUME o = Len(text) PROVE d \in {g, Append(g, <<>>)}
  <2>1. \A i \in 1 .. Len(text) - a : text[a + i] # EOL
    BY <1>1, <1>3, <1>6
  <2>2. \/ d = <<>> /\ k = 0
        \/ k + 1 = Len(d) /\ d[k + 1] = SubSeq(text, a + 1, Len(text))
    BY <1>3, <2>1, LastLineIs DEF a, text
  <2>3. CASE d = <<>> /\ k = 0
    <3>1. g = <<>>
      BY <1>2, <2>3, SubSeqEmpty
    <3>2. QED BY <2>3, <3>1
  <2>4. CASE k + 1 = Len(d) /\ d[k + 1] = SubSeq(text, a + 1, Len(text))
    <3>1. SubSeq(text, a + 1, Len(text)) = <<>>
      BY <1>1, <1>3, <1>6, SubSeqEmpty
    <3>2. SubSeq(d, 1, k + 1) = Append(SubSeq(d, 1, k), d[k + 1])
      BY <1>4, <2>4, OneMore
    <3>3. SubSeq(d, 1, Len(d)) = d
      BY <1>4, SubSeqFull
    <3>4. QED BY <1>2, <2>4, <3>1, <3>2, <3>3
  <2>5. QED BY <2>2, <2>3, <2>4
<1>7. ASSUME o >= 2 * BlockSize
      PROVE  IsPrefix(FileText(g), text) /\ Len(FileText(g)) >= 2 * BlockSize - 1
  <2>1. k > 0 /\ k \in Nat
    <3>1. Starts(d)[0] = 0 /\ k \in Nat
      BY <1>3, PlaceIs
    <3>2. a > 0
      BY <1>1, <1>3, <1>7
    <3>3. QED BY <3>1, <3>2 DEF a
  <2>2. FileText(g) = SubSeq(text, 1, a - 1)
    BY <1>2, <1>3, <2>1, FirstLinesText DEF a, text
  <2> DEFINE e == a - 1
  <2>3. e \in Nat /\ e <= Len(text) /\ e >= 2 * BlockSize - 1
    BY <1>1, <1>3, <1>7
  <2> HIDE DEF e
  <2>4. IsPrefix(SubSeq(text, 1, e), text) /\ Len(SubSeq(text, 1, e)) = e
    BY <1>1, <2>3, PartIsPrefix
  <2>5. QED BY <2>2, <2>3, <2>4 DEF e
<1>8. QED BY <1>5, <1>6, <1>7 DEF o, text

(* A last line, or the part of a line that two blocks end with.            *)
LEMMA TakesLast ==
    ASSUME NEW d \in Documents, NEW f, NEW g, FrameOK(f, d), NoneLeft(f, d), LastLine(f, d, g)
    PROVE  /\ \A i \in DOMAIN g : EOL \notin ToSet(g[i])
           /\ f.offset = Len(FileText(d)) => d = g
           /\ f.offset >= 2 * BlockSize =>
                /\ IsPrefix(FileText(g), FileText(d))
                /\ Len(FileText(g)) >= 2 * BlockSize - 1
<1>1. PICK k \in 0 .. Len(d) :
          HoldsBehind(f, d, k) /\ g = Append(SubSeq(d, 1, k), Unread(f.buffer))
  BY DEF LastLine
<1> DEFINE a == Starts(d)[k]
           o == f.offset
           u == Unread(f.buffer)
           n == Readable(f.buffer)
           text == FileText(d)
           s == SubSeq(d, 1, k)
<1>2. /\ text \in Seq(Byte) /\ Len(text) \in Nat /\ o \in Nat /\ o <= Len(text)
      /\ BlockSize \in Nat /\ BlockSize > 0
      /\ u \in Seq(Byte) /\ Len(u) = n /\ n \in Nat
  BY SizesAre
<1>3. n > 0 /\ \A i \in 1 .. n : u[i] # EOL
  BY DEF NoneLeft, Searched, LastLine
<1>4. /\ Behind(d, k) /\ a \in Nat /\ a <= o /\ n = o - a
      /\ \A i \in 1 .. n : u[i] = text[a + i]
  BY <1>1, HeldIs
<1>5. u = SubSeq(text, a + 1, o)
  BY <1>1 DEF HoldsBehind
<1>6. /\ d \in Seq(Seq(Byte)) /\ Len(d) \in Nat /\ k \in Nat /\ k <= Len(d)
  BY DocumentIs, LenProperties
<1>7. k < Len(d) /\ Len(d) > 0
  <2>1. CASE k = 0 /\ Len(d) = 0
    <3>1. Lie(Starts(d), d, text)
      BY <1>6, LinesLie
    <3>2. Len(text) = 0
      BY <2>1, <3>1 DEF Lie
    <3> HIDE DEF a, o, n, text
    <3>3. QED BY <1>2, <1>3, <1>4, <3>2
  <2>2. QED BY <1>4, <1>6, <2>1 DEF Behind
<1>8. /\ s \in Seq(Seq(Byte)) /\ Len(s) = k
      /\ SubSeq(d, 1, k + 1) = Append(s, d[k + 1])
  BY <1>6, <1>7, OneMore
<1>9. g = Append(s, u)
  BY <1>1
<1> HIDE DEF a, o, u, n, text, s
<1>10. /\ g \in Seq(Seq(Byte)) /\ Len(g) = k + 1 /\ g[k + 1] = u
       /\ \A i \in 1 .. k : g[i] = s[i]
  BY <1>2, <1>8, <1>9, AppendProperties
<1>11. ASSUME NEW i \in DOMAIN g PROVE EOL \notin ToSet(g[i])
  <2>1. i \in 1 .. k \/ i = k + 1
    BY <1>6, <1>10, LenProperties
  <2>2. CASE i \in 1 .. k
    <3>1. i \in DOMAIN s
      BY <1>8, <2>2, LenProperties
    <3>2. EOL \notin ToSet(s[i])
      BY <3>1, NoEndInLines DEF s
    <3>3. QED BY <1>10, <2>2, <3>2
  <2>3. CASE i = k + 1
    <3>1. DOMAIN u = 1 .. n
      BY <1>2, LenProperties
    <3>2. QED BY <1>3, <1>10, <2>3, <3>1 DEF ToSet
  <2>4. QED BY <2>1, <2>2, <2>3
<1>12. ASSUME o = Len(text) PROVE d = g
  <2>1. \A i \in 1 .. Len(text) - a : text[a + i] # EOL
    BY <1>3, <1>4, <1>12
  <2>2. \/ d = <<>> /\ k = 0
        \/ k + 1 = Len(d) /\ d[k + 1] = SubSeq(text, a + 1, Len(text))
    BY <1>4, <2>1, LastLineIs DEF a, text
  <2>3. d # <<>>
    BY <1>6, <1>7, EmptySeq
  <2>4. k + 1 = Len(d) /\ d[k + 1] = u
    BY <1>5, <1>12, <2>2, <2>3
  <2>5. SubSeq(d, 1, Len(d)) = d
    BY <1>6, SubSeqFull
  <2>6. QED BY <1>8, <1>9, <2>4, <2>5
<1>13. FileText(g) = SubSeq(text, 1, o)
  <2>1. FileText(g) = IF k = 0 THEN u ELSE FileText(s) \o (<<EOL>> \o u)
    BY <1>2, <1>8, <1>9, FileAppend
  <2>2. CASE k = 0
    <3>1. a = 0
      BY <1>4, <2>2, PlaceIs DEF a
    <3>2. QED BY <1>5, <2>1, <2>2, <3>1
  <2>3. CASE k > 0
    <3>1. a > 0
      BY <1>4, <2>3, PlaceIs DEF a
    <3>2. FileText(s) = SubSeq(text, 1, a - 1)
      BY <1>4, <1>6, <2>3, FirstLinesText DEF a, text, s
    <3> DEFINE e == a - 1
    <3>3. /\ e \in Nat /\ e + 1 = a /\ a - e = 1 /\ e <= a /\ a <= Len(text) /\ 0 <= e
          /\ e <= o /\ 0 + 1 = 1 /\ 1 \in 1 .. a - e
      BY <1>2, <1>4, <3>1
    <3>4. text[a] = EOL
      <4>1. k - 1 \in Nat /\ Behind(d, k - 1) /\ (k - 1) + 1 = k
        BY <1>6, <1>7, <2>3 DEF Behind
      <4>2. /\ Starts(d)[(k - 1) + 1] = Starts(d)[k - 1] + Len(d[(k - 1) + 1]) + 1
            /\ text[Starts(d)[k - 1] + Len(d[(k - 1) + 1]) + 1] = EOL
        BY <1>7, <4>1, LineIs DEF text
      <4>3. QED BY <4>1, <4>2 DEF a
    <3> HIDE DEF e
    <3>5. SubSeq(text, e + 1, a) = <<EOL>>
      <4> DEFINE v == SubSeq(text, e + 1, a)
                 w == <<EOL>>
      <4>1. v \in Seq(Byte) /\ Len(v) = a - e /\ \A i \in 1 .. a - e : v[i] = text[e + i]
        BY <1>2, <1>4, <3>3, Cut
      <4> HIDE DEF v
      <4>2. Len(v) = 1 /\ v[1] = EOL
        BY <3>3, <3>4, <4>1
      <4>3. w \in Seq(Byte) /\ Len(w) = 1 /\ w[1] = EOL
        BY DEF Byte
      <4> HIDE DEF w
      <4>4. \A i \in 1 .. Len(v) : v[i] = w[i]
        <5>1. \A i \in 1 .. Len(v) : i = 1
          BY <4>2
        <5>2. QED BY <4>2, <4>3, <5>1
      <4>5. v = w
        BY <4>1, <4>2, <4>3, <4>4, SeqEqual
      <4>6. QED BY <4>5 DEF v, w
    <3>6. <<EOL>> \o u = SubSeq(text, e + 1, o)
      <4>1. SubSeq(text, e + 1, a) \o SubSeq(text, a + 1, o) = SubSeq(text, e + 1, o)
        BY <1>2, <1>4, <3>3, CutJoin
      <4>2. QED BY <1>5, <3>5, <4>1
    <3>7. SubSeq(text, 0 + 1, e) \o SubSeq(text, e + 1, o) = SubSeq(text, 0 + 1, o)
      BY <1>2, <3>3, CutJoin
    <3>8. FileText(s) = SubSeq(text, 0 + 1, e)
      BY <3>2, <3>3 DEF e
    <3>9. FileText(g) = FileText(s) \o (<<EOL>> \o u)
      BY <2>1, <2>3
    <3>10. QED BY <3>3, <3>6, <3>7, <3>8, <3>9
  <2>4. QED BY <1>6, <2>2, <2>3
<1>14. ASSUME o >= 2 * BlockSize
       PROVE  IsPrefix(FileText(g), text) /\ Len(FileText(g)) >= 2 * BlockSize - 1
  <2>1. IsPrefix(SubSeq(text, 1, o), text) /\ Len(SubSeq(text, 1, o)) = o
    BY <1>2, PartIsPrefix
  <2>2. o >= 2 * BlockSize - 1
    BY <1>2, <1>14
  <2>3. QED BY <1>13, <2>1, <2>2
<1>15. QED BY <1>11, <1>12, <1>14 DEF o, text

LEMMA Enough == LinesIInv => LinesComeBack
<1> SUFFICES ASSUME LinesIInv, at = "done", ~shifted
             PROVE  /\ \A i \in DOMAIN got : EOL \notin ToSet(got[i])
                    /\ IF Len(file) <= 2 * BlockSize
                       THEN document \in {got, Append(got, <<>>)}
                       ELSE /\ IsPrefix(FileText(got), file)
                            /\ Len(FileText(got)) >= 2 * BlockSize - 1
  BY DEF LinesComeBack
<1> DEFINE d == document
           f == frame
           g == got
<1>1. /\ d \in Documents /\ file = FileText(d) /\ FrameOK(f, d) /\ NoneLeft(f, d)
      /\ LastLine(f, d, g) \/ (Readable(f.buffer) = 0 /\ Between(f, d, g))
  BY DEF LinesIInv, Writes, Runs
<1> HIDE DEF d, f, g
<1>2. /\ \A i \in DOMAIN g : EOL \notin ToSet(g[i])
      /\ f.offset = Len(FileText(d)) => d \in {g, Append(g, <<>>)}
      /\ f.offset >= 2 * BlockSize =>
           /\ IsPrefix(FileText(g), FileText(d))
           /\ Len(FileText(g)) >= 2 * BlockSize - 1
  BY <1>1, FlowsOff, TakesLast
<1>3. /\ f.offset \in Nat /\ Len(FileText(d)) \in Nat /\ BlockSize \in Nat
      /\ f.offset <= Len(FileText(d))
      /\ f.offset = Len(FileText(d)) \/ f.offset >= 2 * BlockSize
  BY <1>1, SizesAre DEF NoneLeft, ReadEnough
<1>4. CASE Len(FileText(d)) <= 2 * BlockSize
  <2>1. f.offset = Len(FileText(d))
    BY <1>3, <1>4
  <2>2. QED BY <1>1, <1>2, <1>4, <2>1 DEF d, g
<1>5. CASE ~(Len(FileText(d)) <= 2 * BlockSize)
  <2>1. f.offset >= 2 * BlockSize
    BY <1>3, <1>5
  <2>2. QED BY <1>1, <1>2, <1>5, <2>1 DEF d, g
<1>6. QED BY <1>4, <1>5


-----------------------------------------------------------------------------
(* The invariant is inductive: one lemma for each action.                  *)

LEMMA LinesInitInv == LinesInit => LinesIInv
<1> SUFFICES ASSUME LinesInit PROVE LinesIInv
  OBVIOUS
<1>1. document \in Documents /\ shifted \in BOOLEAN /\ Len(file) = 0 /\ file = <<>>
  BY EmptySeq DEF LinesInit
<1>2. FileText(document) \in Seq(Byte) /\ Len(FileText(document)) \in Nat
  BY <1>1, DocumentIs, FileTextIs, LenProperties
<1>3. SubSeq(FileText(document), 1, 0) = <<>>
  BY SubSeqEmpty
<1>4. Writes
  BY <1>1, <1>2, <1>3 DEF LinesInit, Writes
<1>5. QED BY <1>1, <1>4 DEF LinesIInv

(* The invariant, taken apart and put together.                            *)
LEMMA Running ==
    ASSUME LinesIInv, ~shifted, at # "write"
    PROVE  /\ document \in Documents /\ file = FileText(document)
           /\ FrameOK(frame, document) /\ Runs(at, frame, document, got)
BY DEF LinesIInv, Writes

LEMMA RunsOn ==
    ASSUME document' = document, document \in Documents, shifted' \in BOOLEAN,
           ~shifted' => /\ file' = FileText(document) /\ FrameOK(frame', document)
                        /\ Runs(at', frame', document, got')
    PROVE  LinesIInv'
BY DEF LinesIInv

LEMMA WriteSomeStep == LinesIInv /\ WriteSome => LinesIInv'
<1> SUFFICES ASSUME LinesIInv, WriteSome PROVE LinesIInv'
  OBVIOUS
<1>1. document \in Documents /\ shifted \in BOOLEAN
  BY DEF LinesIInv
<1>2. /\ at = "write" /\ document' = document /\ at' = at /\ frame' = frame
      /\ got' = got /\ shifted' = shifted
  BY DEF WriteSome
<1> DEFINE text == FileText(document)
<1>3. text \in Seq(Byte) /\ Len(text) \in Nat
  BY <1>1, DocumentIs, FileTextIs, LenProperties
<1>4. ASSUME ~shifted PROVE Writes'
  <2>1. Writes
    BY <1>2, <1>4 DEF LinesIInv, Runs
  <2>2. PICK k \in Len(file) + 1 .. Len(text) : file' = SubSeq(text, 1, k)
    BY DEF WriteSome
  <2>3. k \in Nat /\ k <= Len(text)
    <3>1. file \in Seq(Byte)
      <4>1. file = SubSeq(text, 1, Len(file)) /\ Len(file) <= Len(text)
        BY <2>1 DEF Writes
      <4>2. QED BY <1>3, <4>1, SubSeqProperties
    <3>2. Len(file) \in Nat
      BY <3>1, LenProperties
    <3>3. QED BY <1>3, <2>2, <3>2
  <2>4. Len(file') = k
    <3> HIDE DEF text
    <3>1. 0 \in Nat /\ Len(SubSeq(text, 0 + 1, k)) = k - 0
      BY <1>3, <2>3, Cut
    <3>2. QED BY <2>2, <2>3, <3>1
  <2>5. document' = document
    BY <1>2
  <2>6. /\ at' = "write" /\ frame' = NewFrame /\ got' = <<>>
        /\ Len(file') <= Len(FileText(document'))
        /\ file' = SubSeq(FileText(document'), 1, Len(file'))
    BY <1>2, <2>1, <2>2, <2>3, <2>4 DEF Writes
  <2>7. QED BY <2>6 DEF Writes
<1>5. QED BY <1>1, <1>2, <1>4 DEF LinesIInv

LEMMA WriteReturnsStep == LinesIInv /\ WriteReturns => LinesIInv'
<1> SUFFICES ASSUME LinesIInv, WriteReturns PROVE LinesIInv'
  OBVIOUS
<1>1. document \in Documents /\ shifted \in BOOLEAN
  BY DEF LinesIInv
<1>2. /\ at = "write" /\ at' = "read" /\ Len(file) = Len(FileText(document))
      /\ document' = document /\ file' = file /\ frame' = frame
      /\ got' = got /\ shifted' = shifted
  BY DEF WriteReturns
<1>3. ASSUME ~shifted
      PROVE  /\ file = FileText(document) /\ FrameOK(frame, document)
             /\ Runs("read", frame, document, got)
  <2>1. Writes
    BY <1>2, <1>3 DEF LinesIInv, Runs
  <2>2. frame = NewFrame /\ got = <<>>
    BY <2>1 DEF Writes
  <2>3. file = FileText(document)
    <3> DEFINE text == FileText(document)
    <3>1. text \in Seq(Byte)
      BY <1>1, DocumentIs, FileTextIs
    <3>2. file = SubSeq(text, 1, Len(text))
      BY <1>2, <2>1 DEF Writes
    <3> HIDE DEF text
    <3>3. SubSeq(text, 1, Len(text)) = text
      BY <3>1, SubSeqFull
    <3>4. QED BY <3>2, <3>3 DEF text
  <2>4. /\ FrameOK(frame, document) /\ Between(frame, document, got)
        /\ Searched(frame, frame.from)
    BY <1>1, <2>2, FirstRead
  <2>5. QED BY <2>2, <2>3, <2>4 DEF Runs
<1>4. QED BY <1>1, <1>2, <1>3, RunsOn

LEMMA ReadBlockStep == LinesIInv /\ ReadBlock => LinesIInv'
<1> SUFFICES ASSUME LinesIInv, ReadBlock PROVE LinesIInv'
  OBVIOUS
<1> DEFINE b == Adjust(frame.buffer, BlockSize)
           e == Min({Len(file), frame.offset + Writeable(b)})
           part == SubSeq(file, frame.offset + 1, e)
           h == [frame EXCEPT !.buffer = Receive(b, part), !.offset = @ + Len(part),
                              !.num_read = Len(part)]
<1>1. document \in Documents /\ shifted \in BOOLEAN
  BY DEF LinesIInv
<1>2. /\ at = "read" /\ at' = "scan" /\ frame' = h
      /\ shifted' = (shifted \/ Compacts(frame.buffer, BlockSize))
      /\ document' = document /\ file' = file /\ got' = got
  BY DEF ReadBlock
<1>3. shifted' \in BOOLEAN
  BY <1>1, <1>2 DEF Compacts
<1>4. ASSUME ~shifted'
      PROVE  /\ file = FileText(document) /\ FrameOK(h, document)
             /\ Runs("scan", h, document, got)
  <2>1. ~shifted /\ ~Compacts(frame.buffer, BlockSize)
    BY <1>2, <1>4
  <2>2. /\ file = FileText(document) /\ FrameOK(frame, document)
        /\ Runs("read", frame, document, got)
    BY <1>2, <2>1, Running
  <2>3. /\ Between(frame, document, got) /\ Searched(frame, frame.from)
        /\ frame = NewFrame \/ frame.offset >= BlockSize
    BY <2>2 DEF Runs
  <2>4. /\ e = Min({Len(FileText(document)), frame.offset + Writeable(b)})
        /\ part = SubSeq(FileText(document), frame.offset + 1, e)
    BY <2>2
  <2>5. /\ b = Adjust(frame.buffer, BlockSize)
        /\ h = [frame EXCEPT !.buffer = Receive(b, part), !.offset = @ + Len(part),
                             !.num_read = Len(part)]
    OBVIOUS
  <2> HIDE DEF h, part, e, b
  <2>6. FrameOK(h, document) /\ Between(h, document, got) /\ Searched(h, h.from)
        /\ Scanning(h, document)
    BY <1>1, <2>1, <2>2, <2>3, <2>4, <2>5, ReadStep, ZenonT(60)
  <2>7. QED BY <2>2, <2>6 DEF Runs
<1> HIDE DEF h
<1>5. QED BY <1>1, <1>2, <1>3, <1>4, RunsOn

LEMMA YieldLineStep == LinesIInv /\ YieldLine => LinesIInv'
<1> SUFFICES ASSUME LinesIInv, YieldLine PROVE LinesIInv'
  OBVIOUS
<1> DEFINE found == FindByte(frame.buffer, EOL, frame.from)
           h == [frame EXCEPT !.eol_pos = found]
<1>1. document \in Documents /\ shifted \in BOOLEAN
  BY DEF LinesIInv
<1>2. /\ at = "scan" /\ at' = "yielded" /\ frame' = h /\ found # -1 /\ shifted' = shifted
      /\ document' = document /\ file' = file /\ got' = got
  BY DEF YieldLine
<1>3. ASSUME ~shifted
      PROVE  /\ file = FileText(document) /\ FrameOK(h, document)
             /\ Runs("yielded", h, document, got)
  <2>1. /\ file = FileText(document) /\ FrameOK(frame, document)
        /\ Runs("scan", frame, document, got)
    BY <1>2, <1>3, Running
  <2>2. /\ Between(frame, document, got) /\ Searched(frame, frame.from)
        /\ Scanning(frame, document)
    BY <2>1 DEF Runs
  <2>3. /\ FrameOK(h, document) /\ Between(h, document, got) /\ Found(h)
        /\ Scanning(h, document)
    <3>1. found = FindByte(frame.buffer, EOL, frame.from)
      OBVIOUS
    <3> HIDE DEF found
    <3>2. QED BY <1>1, <1>2, <2>1, <2>2, <3>1, SearchStep
  <2> HIDE DEF h
  <2>4. QED BY <2>1, <2>3 DEF Runs
<1> HIDE DEF h
<1>4. QED BY <1>1, <1>2, <1>3, RunsOn

LEMMA NoLineStep == LinesIInv /\ NoLine => LinesIInv'
<1> SUFFICES ASSUME LinesIInv, NoLine PROVE LinesIInv'
  OBVIOUS
<1> DEFINE found == FindByte(frame.buffer, EOL, frame.from)
           h == [frame EXCEPT !.from = Readable(frame.buffer)]
<1>1. document \in Documents /\ shifted \in BOOLEAN
  BY DEF LinesIInv
<1>2. /\ at = "scan" /\ frame' = h /\ found = -1 /\ shifted' = shifted
      /\ at' = IF frame.num_read = BlockSize THEN "read" ELSE "end"
      /\ document' = document /\ file' = file /\ got' = got
  BY DEF NoLine
<1>3. ASSUME ~shifted
      PROVE  /\ file = FileText(document) /\ FrameOK(h, document)
             /\ Runs(at', h, document, got)
  <2>1. /\ file = FileText(document) /\ FrameOK(frame, document)
        /\ Runs("scan", frame, document, got)
    BY <1>2, <1>3, Running
  <2>2. /\ Between(frame, document, got) /\ Searched(frame, frame.from)
        /\ Scanning(frame, document)
    BY <2>1 DEF Runs
  <2>3. /\ FrameOK(h, document) /\ Between(h, document, got)
        /\ Searched(h, h.from) /\ h.from = Readable(h.buffer)
        /\ h.offset = frame.offset
    <3>1. found = FindByte(frame.buffer, EOL, frame.from)
      OBVIOUS
    <3> HIDE DEF found
    <3>2. QED BY <1>1, <1>2, <2>1, <2>2, <3>1, SearchStep
  <2>4. /\ BlockSize \in Nat /\ frame.num_read <= frame.offset
        /\ frame.num_read \in Nat /\ frame.offset \in Nat
    BY <1>1, <2>1, SizesAre
  <2> HIDE DEF h
  <2>5. CASE frame.num_read = BlockSize
    <3>1. at' = "read" /\ h.offset >= BlockSize
      BY <1>2, <2>3, <2>4, <2>5
    <3>2. QED BY <2>1, <2>3, <3>1 DEF Runs
  <2>6. CASE frame.num_read # BlockSize
    <3>1. at' = "end"
      BY <1>2, <2>6
    <3>2. ReadEnough(h, document)
      BY <2>2, <2>3, <2>6 DEF Scanning, ReadEnough
    <3>3. NoneLeft(h, document)
      BY <2>3, <3>2 DEF NoneLeft
    <3>4. QED BY <2>1, <2>3, <3>1, <3>3 DEF Runs
  <2>7. QED BY <2>5, <2>6
<1> HIDE DEF h
<1>4. QED BY <1>1, <1>2, <1>3, RunsOn

LEMMA NextLineStep == LinesIInv /\ NextLine => LinesIInv'
<1> SUFFICES ASSUME LinesIInv, NextLine PROVE LinesIInv'
  OBVIOUS
<1> DEFINE line == Bytes(frame.buffer, frame.eol_pos)
           h == [frame EXCEPT !.buffer = Retrieve(frame.buffer, frame.eol_pos + 1), !.from = 0]
<1>1. document \in Documents /\ shifted \in BOOLEAN
  BY DEF LinesIInv
<1>2. /\ at = "yielded" /\ at' = "scan" /\ frame' = h /\ shifted' = shifted
      /\ document' = document /\ file' = file /\ got' = Append(got, line)
  BY DEF NextLine
<1>3. ASSUME ~shifted
      PROVE  /\ file = FileText(document) /\ FrameOK(h, document)
             /\ Runs("scan", h, document, Append(got, line))
  <2>1. /\ file = FileText(document) /\ FrameOK(frame, document)
        /\ Runs("yielded", frame, document, got)
    BY <1>2, <1>3, Running
  <2>2. /\ Between(frame, document, got) /\ Found(frame) /\ Scanning(frame, document)
    BY <2>1 DEF Runs
  <2>3. /\ line = Bytes(frame.buffer, frame.eol_pos)
        /\ h = [frame EXCEPT !.buffer = Retrieve(frame.buffer, frame.eol_pos + 1), !.from = 0]
    OBVIOUS
  <2> HIDE DEF h, line
  <2>4. /\ FrameOK(h, document) /\ Between(h, document, Append(got, line))
        /\ Searched(h, h.from) /\ Scanning(h, document)
    BY <1>1, <2>1, <2>2, <2>3, NextStep
  <2>5. QED BY <2>1, <2>4 DEF Runs
<1> HIDE DEF h, line
<1>4. QED BY <1>1, <1>2, <1>3, RunsOn

(* The generator's frame stays as it is from the end of the search on.     *)
LEMMA EndStep == LinesIInv /\ (ReturnLast \/ FlowOff \/ TakeLast) => LinesIInv'
<1> SUFFICES ASSUME LinesIInv, ReturnLast \/ FlowOff \/ TakeLast PROVE LinesIInv'
  OBVIOUS
<1>1. /\ document \in Documents /\ shifted \in BOOLEAN /\ at \in {"end", "returned"}
      /\ document' = document /\ file' = file /\ frame' = frame /\ shifted' = shifted
  BY DEF LinesIInv, ReturnLast, FlowOff, TakeLast
<1>2. ASSUME ~shifted
      PROVE  /\ file = FileText(document) /\ FrameOK(frame, document)
             /\ Runs(at', frame, document, got')
  <2>1. /\ file = FileText(document) /\ FrameOK(frame, document)
        /\ Runs(at, frame, document, got)
    BY <1>1, <1>2, Running
  <2>2. Between(frame, document, got) /\ NoneLeft(frame, document)
    BY <1>1, <2>1 DEF Runs
  <2>3. CASE ReturnLast
    BY <2>1, <2>2, <2>3 DEF ReturnLast, Runs
  <2>4. CASE FlowOff
    BY <2>1, <2>2, <2>4 DEF FlowOff, Runs
  <2>5. CASE TakeLast
    <3>1. at = "returned" /\ at' = "done" /\ got' = Append(got, Unread(frame.buffer))
      BY <2>5 DEF TakeLast
    <3>2. Readable(frame.buffer) > 0
      BY <2>1, <3>1 DEF Runs
    <3>3. got = SubSeq(document, 1, Len(got)) /\ HoldsBehind(frame, document, Len(got))
      BY <2>2 DEF Between
    <3>4. Len(got) \in 0 .. Len(document)
      BY <3>3 DEF HoldsBehind, Behind
    <3>5. LastLine(frame, document, got')
      BY <3>1, <3>2, <3>3, <3>4 DEF LastLine
    <3>6. QED BY <2>1, <2>2, <3>1, <3>5 DEF Runs
  <2>6. QED BY <2>3, <2>4, <2>5
<1>3. QED BY <1>1, <1>2, RunsOn

LEMMA LinesStep == LinesIInv /\ [LinesNext]_lineVars => LinesIInv'
<1> SUFFICES ASSUME LinesIInv, [LinesNext]_lineVars PROVE LinesIInv'
  OBVIOUS
<1>1. CASE WriteSome
  BY <1>1, WriteSomeStep
<1>2. CASE WriteReturns
  BY <1>2, WriteReturnsStep
<1>3. CASE ReadBlock
  BY <1>3, ReadBlockStep
<1>4. CASE YieldLine
  BY <1>4, YieldLineStep
<1>5. CASE NextLine
  BY <1>5, NextLineStep
<1>6. CASE NoLine
  BY <1>6, NoLineStep
<1>7. CASE ReturnLast \/ FlowOff \/ TakeLast
  BY <1>7, EndStep
<1>8. CASE UNCHANGED lineVars
  BY <1>8 DEF lineVars, LinesIInv, Writes
<1>9. QED BY <1>1, <1>2, <1>3, <1>4, <1>5, <1>6, <1>7, <1>8 DEF LinesNext

(* At every moment of writelines and readlines the buffer holds exactly    *)
(* the bytes of the file between the end of the last line that was yielded *)
(* and the place that was read to; every line that was given is the line   *)
(* of the document at its place; and the search behind eol_pos has missed  *)
(* no line end, until adjust_util moves the buffer in place.               *)
THEOREM LinesInvariance == LinesSpec => []LinesIInv
<1>1. LinesInit => LinesIInv
  BY LinesInitInv
<1>2. LinesIInv /\ [LinesNext]_lineVars => LinesIInv'
  BY LinesStep
<1>3. QED BY <1>1, <1>2, PTL DEF LinesSpec

(* What a program writes with writelines it reads back with readlines, for *)
(* all documents and every size of a block, of a file that is not longer   *)
(* than two blocks; of a longer one it gets the part that starts it.       *)
THEOREM LinesCorrect == LinesSpec => []LinesComeBack
<1>1. LinesIInv => LinesComeBack
  BY Enough
<1>2. QED BY <1>1, LinesInvariance, PTL
=============================================================================
