----------------------------- MODULE EventLoop -----------------------------
(***************************************************************************)
(* ayr::coro::IoContext with Sleep, EventAwaiter and the edge-triggered    *)
(* Epoll (coro/IoContext.hpp, coro/EventAwaiter.hpp,                       *)
(* net/Selector/Epoll.hpp): one thread that resumes coroutines when their  *)
(* timer is due or their socket has become readable.                       *)
(*                                                                         *)
(* Each coroutine owns one socket.  When it runs it may sleep, read from   *)
(* its socket, or end, at most MaxOps[c] operations; which one is free.    *)
(* A read is Socket::read, a coroutine of its own: it lives in a frame     *)
(* that is allocated when the read begins and freed when it ends, and the  *)
(* handle that the loop is given is the address of that frame.  The        *)
(* allocator may give any free address: the same one again, another, or    *)
(* one that the read of another coroutine had before.                      *)
(* Resuming an address that holds no coroutine suspended there is          *)
(* undefined behaviour: undefined becomes true and nothing more is said.   *)
(* Resuming one where another read is suspended by now is defined: that    *)
(* read tries again.                                                       *)
(***************************************************************************)
EXTENDS Integers, Sequences, FiniteSets

CONSTANTS
    Coros,      \* the coroutines added to the loop
    Sleepers,   \* those that may sleep
    Readers,    \* those that may read
    Addrs,      \* the addresses of the frames of reads
    Delays,     \* the durations slept for
    MaxTime,    \* bound of the clock
    MaxOps,     \* bound of the operations, per coroutine
    MaxSent,    \* bound of the messages, per socket
    Nil

ASSUME LoopAssumption ==
    /\ IsFiniteSet(Coros)
    /\ Coros \cap Addrs = {} /\ Nil \notin Coros \cup Addrs
    /\ Sleepers \subseteq Coros /\ Readers \subseteq Coros
    /\ Delays \subseteq Nat
    /\ MaxTime \in Nat
    /\ MaxOps \in [Coros -> Nat] /\ MaxSent \in [Coros -> Nat]

Handles == Coros \cup Addrs

VARIABLES
    loop,       \* where run() is: "timers", "drain", "wait" or "exit"
    ready,      \* ready_coros_
    timers,     \* wait_coros_, in its order
    now,        \* steady_clock
    running,    \* the coroutine that executes, or Nil
    at,         \* where each coroutine is: "start", "run", "sleep", "eagain" (its
                \* read found nothing and is about to wait), "read", "done"
    frame,      \* the frame of the read a coroutine is in, or Nil
    ops,        \* operations a coroutine has begun
    last,       \* last_coro_ of the EventAwaiter of its socket
    entry,      \* fd_events: the handle kept for its socket, or Nil if none
    edge,       \* the kernel has an event to report for the socket
    inbox,      \* messages the kernel holds for the socket
    sent,       \* messages the peer has sent
    stale,      \* history: the handles that a wait reported for a coroutine that
                \* did not wait under them
    undefined   \* a handle was resumed that nothing is suspended under

io == <<last, entry, edge, inbox, sent>>
vars == <<loop, ready, timers, now, running, at, frame, ops, last, entry,
          edge, inbox, sent, stale, undefined>>

Front == Head(ready)

Owner(h) == CHOOSE c \in Coros : c = h \/ frame[c] = h

(* A coroutine is suspended under that very handle.                        *)
Suspended(h) ==
    \E c \in Coros : \/ h = c /\ at[c] \in {"start", "sleep"}
                     \/ h = frame[c] /\ at[c] = "read"

Watched == {c \in Coros : entry[c] # Nil}

(* Mutated form: timers that are not due yet are forgotten.                *)
EmptyButTimers == ready = <<>> /\ Watched = {}

Empty == ready = <<>> /\ timers = <<>> /\ Watched = {}

(* Sequences that name each member of S once.                               *)
Orders(S) == {s \in [1 .. Cardinality(S) -> S] :
                  \A i, j \in DOMAIN s : s[i] = s[j] => i = j}

Init ==
    /\ loop = "timers" /\ now = 0 /\ timers = <<>> /\ running = Nil
    /\ ready \in Orders(Coros)
    /\ at = [c \in Coros |-> "start"]
    /\ frame = [c \in Coros |-> Nil]
    /\ ops = [c \in Coros |-> 0]
    /\ last = [c \in Coros |-> Nil]
    /\ entry = [c \in Coros |-> Nil]
    /\ edge = [c \in Coros |-> FALSE]
    /\ inbox = [c \in Coros |-> 0]
    /\ sent = [c \in Coros |-> 0]
    /\ stale = {} /\ undefined = FALSE

-----------------------------------------------------------------------------
(* IoContext::run, lines 97-138.                                           *)

(* Mutated form: a timer is taken one unit before it is due.               *)
DueEarly == {i \in 1 .. Len(timers) : timers[i].due <= now + 1}

(* The timers that are due; they are at the front of wait_coros_.          *)
Due == {i \in 1 .. Len(timers) : timers[i].due <= now}

(* Mutated form: the erase takes one timer too many.                       *)
TakeTimersTooMany ==
    /\ loop = "timers" /\ ~Empty
    /\ LET n == Cardinality(Due)
       IN  /\ ready' = ready \o [i \in 1 .. n |-> timers[i].coro]
           /\ timers' = SubSeq(timers, n + (IF n = 0 THEN 1 ELSE 2), Len(timers))
    /\ loop' = "drain"
    /\ UNCHANGED <<now, running, at, frame, ops, io, stale, undefined>>

(* Lines 102-111.                                                          *)
TakeTimers ==
    /\ loop = "timers" /\ ~Empty
    /\ LET n == Cardinality(Due)
       IN  /\ ready' = ready \o [i \in 1 .. n |-> timers[i].coro]
           /\ timers' = SubSeq(timers, n + 1, Len(timers))
    /\ loop' = "drain"
    /\ UNCHANGED <<now, running, at, frame, ops, io, stale, undefined>>

Exit ==
    /\ loop = "timers" /\ Empty
    /\ loop' = "exit"
    /\ UNCHANGED <<ready, timers, now, running, at, frame, ops, io, stale, undefined>>

(* ready_coros_.front().resume(), line 116.  A read that is resumed tries  *)
(* again: it returns to the coroutine that awaits it, or is about to       *)
(* suspend once more.                                                      *)
Resume ==
    /\ loop = "drain" /\ running = Nil /\ ready # <<>>
    /\ IF ~Suspended(Front)
       THEN /\ undefined' = TRUE
            /\ UNCHANGED <<running, at, frame, inbox>>
       ELSE LET c == Owner(Front) IN
            /\ UNCHANGED undefined
            /\ running' = c
            /\ IF at[c] = "read" /\ inbox[c] = 0
               THEN /\ at' = [at EXCEPT ![c] = "eagain"]
                    /\ UNCHANGED <<frame, inbox>>
               ELSE /\ at' = [at EXCEPT ![c] = "run"]
                    /\ frame' = [frame EXCEPT ![c] = Nil]
                    /\ inbox' = IF at[c] = "read"
                                THEN [inbox EXCEPT ![c] = @ - 1] ELSE inbox
    /\ UNCHANGED <<loop, ready, timers, now, ops, last, entry, edge, sent, stale>>

Drained ==
    /\ loop = "drain" /\ running = Nil /\ ready = <<>>
    /\ loop' = "wait"
    /\ UNCHANGED <<ready, timers, now, running, at, frame, ops, io, stale, undefined>>

(* Lines 120-130 without sockets: sleep until the first timer; with a      *)
(* clock that went on meanwhile or no timer at all, not at all.            *)
SleepFor ==
    /\ loop = "wait" /\ Watched = {}
    /\ timers # <<>> => timers[1].due <= now
    /\ loop' = "timers"
    /\ UNCHANGED <<ready, timers, now, running, at, frame, ops, io, stale, undefined>>

(* The entry of the socket is not the frame that its coroutine waits in:   *)
(* the read has ended, or another one waits.                               *)
Strayed(c) == at[c] # "done" /\ entry[c] # frame[c]

RecordStrayed(hit) ==
    stale' = stale \cup {entry[c] : c \in {d \in hit : Strayed(d)}}

(* Mutated form: the events of a wait that timed out are thrown away.      *)
EpollWaitDrops ==
    /\ loop = "wait" /\ Watched # {}
    /\ LET hit == {c \in Watched : edge[c]} IN
       /\ hit = {} => timers # <<>> /\ timers[1].due <= now
       /\ edge' = [c \in Coros |-> edge[c] /\ c \notin hit]
       /\ RecordStrayed(hit)
       /\ \E s \in Orders(hit) :
             ready' = IF timers = <<>> THEN [i \in DOMAIN s |-> entry[s[i]]]
                      ELSE ready
    /\ loop' = "timers"
    /\ UNCHANGED <<timers, now, running, at, frame, ops, last, entry, inbox,
                   sent, undefined>>

(* Lines 131-136 and Epoll::wait: block until a socket has an event or the *)
(* first timer is due, and queue the handle kept for each such socket.     *)
(* Edge-triggered: an event is reported once, at times after its data was  *)
(* read (a read then finds nothing and waits again).                       *)
EpollWait ==
    /\ loop = "wait" /\ Watched # {}
    /\ LET hit == {c \in Watched : edge[c]} IN
       /\ hit = {} => timers # <<>> /\ timers[1].due <= now
       /\ edge' = [c \in Coros |-> edge[c] /\ c \notin hit]
       /\ RecordStrayed(hit)
       /\ \E s \in Orders(hit) :
             ready' = [i \in DOMAIN s |-> entry[s[i]]]
    /\ loop' = "timers"
    /\ UNCHANGED <<timers, now, running, at, frame, ops, last, entry, inbox,
                   sent, undefined>>

-----------------------------------------------------------------------------
(* What the running coroutine does.  When it suspends, its handle leaves   *)
(* the front of ready (line 117).                                          *)

Begin(c) ==
    /\ running = c /\ at[c] = "run" /\ ops[c] < MaxOps[c]
    /\ ops' = [ops EXCEPT ![c] = @ + 1]

Yield(c, where) ==
    /\ at' = [at EXCEPT ![c] = where]
    /\ running' = Nil
    /\ ready' = Tail(ready)

(* Mutated form: a new timer goes to the front of the others.              *)
AddTimerFirst(t) == timers' = <<t>> \o timers

(* multimap::insert: after every timer that is due no later (line 88).     *)
AddTimer(t) ==
    LET before == Cardinality({i \in 1 .. Len(timers) : timers[i].due <= t.due})
    IN  timers' = SubSeq(timers, 1, before) \o <<t>>
                    \o SubSeq(timers, before + 1, Len(timers))

(* co_await Sleep(d): IoContext lines 85-91 and 161-175.                   *)
SleepAwait(c, d) ==
    /\ c \in Sleepers /\ Begin(c) /\ now + d <= MaxTime
    /\ Yield(c, "sleep")
    /\ AddTimer([due |-> now + d, coro |-> c])
    /\ UNCHANGED <<loop, now, frame, io, stale, undefined>>

(* Epoll::insert, lines 59-79: a socket that is known keeps its entry and  *)
(* is armed again, so that what can be read already is reported anew.      *)
EpollInsert(c, h) ==
    /\ entry' = IF entry[c] = Nil THEN [entry EXCEPT ![c] = h] ELSE entry
    /\ edge' = [edge EXCEPT ![c] = inbox[c] > 0]

(* Socket::read, lines 164-185: a message that is there is taken at once.  *)
ReadNow(c) ==
    /\ c \in Readers /\ Begin(c)
    /\ inbox[c] > 0 /\ inbox' = [inbox EXCEPT ![c] = @ - 1]
    /\ UNCHANGED <<loop, ready, timers, now, running, at, frame, last, entry,
                   edge, sent, stale, undefined>>

(* Otherwise, lines 178-180: the recv of a read in a new frame has failed. *)
ReadFails(c, a) ==
    /\ c \in Readers /\ Begin(c)
    /\ inbox[c] = 0 /\ \A b \in Coros : frame[b] # a
    /\ at' = [at EXCEPT ![c] = "eagain"]
    /\ frame' = [frame EXCEPT ![c] = a]
    /\ UNCHANGED <<loop, ready, timers, now, running, io, stale, undefined>>

(* It suspends on the EventAwaiter of the socket, lines 45-51, which       *)
(* registers a coroutine other than the last one.  A message may have come *)
(* since the recv failed.                                                  *)
ReadAwait(c) ==
    /\ running = c /\ at[c] = "eagain"
    /\ Yield(c, "read")
    /\ last' = [last EXCEPT ![c] = frame[c]]
    /\ IF last[c] = frame[c] THEN UNCHANGED <<entry, edge>>
       ELSE EpollInsert(c, frame[c])
    /\ UNCHANGED <<loop, timers, now, frame, ops, inbox, sent, stale, undefined>>

(* Mutated form: the socket stays registered when it is destroyed.         *)
FinishKeeps(c) ==
    /\ running = c /\ at[c] = "run"
    /\ Yield(c, "done")
    /\ UNCHANGED <<loop, timers, now, frame, ops, io, stale, undefined>>

(* The coroutine returns; its socket goes and ~EventAwaiter takes the      *)
(* socket out of the epoll (EventAwaiter line 35, Epoll lines 88-93).      *)
Finish(c) ==
    /\ running = c /\ at[c] = "run"
    /\ Yield(c, "done")
    /\ entry' = [entry EXCEPT ![c] = Nil]
    /\ edge' = [edge EXCEPT ![c] = FALSE]
    /\ UNCHANGED <<loop, timers, now, frame, ops, last, inbox, sent, stale,
                   undefined>>

-----------------------------------------------------------------------------
(* The outside: the clock and the peers.                                   *)

Tick ==
    /\ now < MaxTime /\ now' = now + 1
    /\ UNCHANGED <<loop, ready, timers, running, at, frame, ops, io, stale, undefined>>

Send(c) ==
    /\ sent[c] < MaxSent[c] /\ sent' = [sent EXCEPT ![c] = @ + 1]
    /\ inbox' = [inbox EXCEPT ![c] = @ + 1]
    /\ edge' = [edge EXCEPT ![c] = entry[c] # Nil]
    /\ UNCHANGED <<loop, ready, timers, now, running, at, frame, ops, last,
                   entry, stale, undefined>>

CoroStep(c) ==
    \/ \E d \in Delays : SleepAwait(c, d)
    \/ ReadNow(c)
    \/ \E a \in Addrs : ReadFails(c, a)
    \/ ReadAwait(c)
    \/ Finish(c)

LoopStep == TakeTimers \/ Exit \/ Resume \/ Drained \/ SleepFor \/ EpollWait

Next ==
    /\ ~undefined
    /\ \/ LoopStep
       \/ \E c \in Coros : CoroStep(c)
       \/ Tick
       \/ \E c \in Coros : Send(c)

(* The thread of the loop goes on whenever it can, and so do the           *)
(* coroutines, which do not run for ever; time passes.  A peer need never  *)
(* send anything.                                                          *)
Fairness ==
    /\ WF_vars(~undefined /\ LoopStep)
    /\ \A c \in Coros : WF_vars(~undefined /\ CoroStep(c))
    /\ WF_vars(~undefined /\ Tick)

Spec == Init /\ [][Next]_vars

FairSpec == Spec /\ Fairness

-----------------------------------------------------------------------------
(* Properties.                                                             *)

(* Every variable has the type of what it models.                          *)
TypeOK ==
    /\ loop \in {"timers", "drain", "wait", "exit"}
    /\ ready \in Seq(Handles)
    /\ timers \in Seq([due : Nat, coro : Coros])
    /\ now \in 0 .. MaxTime
    /\ running \in Coros \cup {Nil}
    /\ at \in [Coros -> {"start", "run", "sleep", "eagain", "read", "done"}]
    /\ frame \in [Coros -> Addrs \cup {Nil}]
    /\ ops \in [Coros -> Nat] /\ \A c \in Coros : ops[c] <= MaxOps[c]
    /\ last \in [Coros -> Addrs \cup {Nil}]
    /\ entry \in [Coros -> Addrs \cup {Nil}]
    /\ edge \in [Coros -> BOOLEAN]
    /\ inbox \in [Coros -> Nat] /\ \A c \in Coros : inbox[c] <= sent[c]
    /\ sent \in [Coros -> Nat] /\ \A c \in Coros : sent[c] <= MaxSent[c]
    /\ stale \subseteq Addrs /\ undefined \in BOOLEAN

InReady(h) == \E i \in 1 .. Len(ready) : ready[i] = h

(* A coroutine that sleeps is queued exactly once: as a timer until it is  *)
(* due, then as ready; timers are never early and stay in order.           *)
SleepersQueuedOnce ==
    /\ TypeOK
    /\ \A c \in Coros : at[c] = "sleep" =>
          Cardinality({i \in 1 .. Len(timers) : timers[i].coro = c})
            + Cardinality({i \in 1 .. Len(ready) : ready[i] = c}) = 1
    /\ \A i \in 1 .. Len(timers) : at[timers[i].coro] = "sleep"
    /\ \A i, j \in 1 .. Len(timers) : i < j => timers[i].due <= timers[j].due

(* No timer is taken before it is due.                                     *)
NeverEarly ==
    [][\A i \in 1 .. Len(timers) :
           timers[i].due > now => \E j \in 1 .. Len(timers') :
                                      timers'[j] = timers[i]]_vars

(* run() returns only when every coroutine has run to its end.             *)
ExitMeansDone == loop = "exit" => \A c \in Coros : at[c] = "done"

(* A handle that nothing is suspended under is resumed only after a wait   *)
(* has reported it for a coroutine that was not waiting under it (its read *)
(* had ended, or it waited in another frame).  Timers, initial coroutines, *)
(* sockets of coroutines that ended, events collected before other         *)
(* coroutines ran and addresses used again are never the reason.           *)
NoStrayResume == undefined => Front \in stale

(* The entry of the socket is the frame that a reader waits in.            *)
Registered(c) == at[c] = "read" /\ entry[c] = frame[c]

(* A registered reader for which a message lies in the kernel is woken: it *)
(* is in the ready queue or has an event to be reported.                   *)
NoWakeupMissed ==
    \A c \in Coros : Registered(c) /\ inbox[c] > 0 =>
        InReady(frame[c]) \/ edge[c]

(* Every coroutine that sleeps is woken in the end.                        *)
SleepersWake == \A c \in Coros : at[c] = "sleep" ~> at[c] # "sleep" \/ undefined

(* A registered reader gets every message sent to it.                      *)
ReadersWake ==
    \A c \in Coros :
        Registered(c) /\ inbox[c] > 0 ~> at[c] # "read" \/ undefined

-----------------------------------------------------------------------------
(* What the comments say and the code does not do.                         *)

(* Epoll.hpp line 52: insert updates the event of a socket that is already *)
(* registered.  The entry of a socket then is the coroutine that waits.    *)
EntryIsUpdated == \A c \in Coros : at[c] = "read" => Registered(c)
=============================================================================
