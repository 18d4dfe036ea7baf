------------------------------ MODULE IoContext ------------------------------
(***************************************************************************)
(* xcoro::net::io_context (net/io_context.hpp) with its timer_queue: the   *)
(* event loop, the ready queue, schedule(), sleep_for() with an optional   *)
(* cancellation_token, run() and stop().  Of the reactor only the eventfd  *)
(* that wake() writes is here; the module Reactor has the rest.            *)
(*                                                                         *)
(* A coroutine runs on the loop thread or on a thread of its own.  On a    *)
(* thread of its own its await_suspend goes through the steps of "thread"; *)
(* the loop thread cannot resume anybody meanwhile, so what it does in     *)
(* await_suspend after the last look at the token is one step.             *)
(*                                                                         *)
(* An awaiter lives in the frame of its coroutine, which may be resumed    *)
(* while its own thread is still in await_suspend.  What that thread reads *)
(* from the awaiter then is gone; here the memory keeps its last contents. *)
(*                                                                         *)
(* One thread calls run() and stop(), at most MaxRuns times run().  Time   *)
(* is a counter up to MaxTime; a deadline after MaxTime is never reached.  *)
(***************************************************************************)
EXTENDS Naturals, FiniteSetsExt, SequencesExt

CONSTANTS Coros,    \* coroutines
          Sources,  \* those that have a cancellation_source
          Timers,   \* addresses of timer_state objects
          Delays,   \* the arguments of sleep_for()
          MaxTime, MaxRuns,
          NoCoro, NoTimer

ASSUME IoAssumption ==
  /\ Sources \subseteq Coros
  /\ Delays \subseteq Nat /\ MaxTime \in Nat /\ MaxRuns \in Nat
  /\ NoCoro \notin Coros /\ NoTimer \notin Timers

VARIABLES
  ready,     \* io_context::ready_
  signalled, \* the counter of the reactor's eventfd is not zero
  stopped,   \* io_context::stopped_
  joinable,  \* io_context::loop_thread_ has a thread
  opc,       \* where the thread that calls run() and stop() is
  runs,      \* calls of run() that started the loop (bounded by MaxRuns)
  now,       \* steady_clock
  lpc,       \* where the loop is
  last,      \* the loop has left its while statement
  wakeAt,    \* when epoll_wait() times out
  due,       \* the local vector of resume_due_timers()
  batch,     \* the local queue of drain_ready()
  current,   \* the coroutine that the loop runs
  place,     \* where coroutine c is
  thread,    \* where c's own thread is in await_suspend
  timer,     \* timer_awaiter::state_ of c
  pushing,   \* state_ as c's own thread will read it
  heap,      \* timer_queue::heap_
  handle,    \* timer_state::handle
  deadline,  \* timer_awaiter::deadline_, copied into the heap
  completed, \* timer_state::completed
  cancelled, \* timer_state::cancelled
  requested, \* cancellation_state::cancelled_ of c's source
  callback,  \* cancellation_state::callbacks_ of c's source
  kpc,       \* where the thread that cancels c's source is
  kcb        \* the callback it moved out of callbacks_

ownerVars  == <<stopped, joinable, opc, runs>>
loopVars   == <<lpc, last, wakeAt, due, batch, current>>
threadVars == <<thread, pushing>>
timerVars  == <<handle, deadline, completed, cancelled>>
tokenVars  == <<requested, callback, kpc, kcb>>
vars == <<ready, signalled, ownerVars, now, loopVars, place, threadVars,
          timer, heap, timerVars, tokenVars>>

LoopPoints   == {"off", "test", "poll", "collect", "expire", "drain",
                 "resume", "running", "register", "exited"}
Places       == {"away", "waiting", "running"}
ThreadPoints == {"none", "register", "inline_wake", "push", "wake"}
CancelPoints == {"idle", "swap", "mark", "store", "wake", "done"}

Never == MaxTime + 1

Init ==
  /\ ready = <<>> /\ signalled = FALSE
  /\ stopped = FALSE /\ joinable = FALSE /\ opc = "idle" /\ runs = 0
  /\ now = 0
  /\ lpc = "off" /\ last = FALSE /\ wakeAt = Never
  /\ due = {} /\ batch = <<>> /\ current = NoCoro
  /\ place = [c \in Coros |-> "away"]
  /\ thread = [c \in Coros |-> "none"]
  /\ timer = [c \in Coros |-> NoTimer]
  /\ pushing = [c \in Coros |-> NoTimer]
  /\ heap = {}
  /\ handle = [s \in Timers |-> NoCoro]
  /\ deadline = [s \in Timers |-> 0]
  /\ completed = [s \in Timers |-> FALSE]
  /\ cancelled = [s \in Timers |-> FALSE]
  /\ requested = [c \in Coros |-> FALSE]
  /\ callback = [c \in Coros |-> NoTimer]
  /\ kpc = [c \in Coros |-> "idle"]
  /\ kcb = [c \in Coros |-> NoTimer]

EnqueueReady(c)     == ready' = Append(ready, c)
Wake                == signalled' = TRUE
Move(c, to)         == place' = [place EXCEPT ![c] = to]
ThreadGoto(c, to)   == thread' = [thread EXCEPT ![c] = to]
LoopGoto(to)        == lpc' = to

(* c runs on a thread of its own that has left its previous await_suspend. *)
RunsAway(c) == place[c] = "away" /\ thread[c] = "none"
(* c is the coroutine that the loop thread is running.                     *)
RunsOnLoop(c) == lpc = "running" /\ current = c

(* Addresses for make_shared<timer_state>(): those nobody points to.       *)
UsedTimers ==
  heap \cup due \cup {timer[c] : c \in Coros} \cup {pushing[c] : c \in Coros}
    \cup {callback[c] : c \in Coros} \cup {kcb[c] : c \in Coros}
FreeTimers == Timers \ UsedTimers
NewAddress == CHOOSE s \in FreeTimers : TRUE

-----------------------------------------------------------------------------
(* co_await ctx.schedule()                                                 *)

ScheduleOnLoop(c) ==
  /\ RunsOnLoop(c)
  /\ EnqueueReady(c)
  /\ Wake
  /\ Move(c, "waiting")
  /\ LoopGoto("resume")
  /\ current' = NoCoro
  /\ UNCHANGED <<ownerVars, now, last, wakeAt, due, batch, threadVars, timer,
                 heap, timerVars, tokenVars>>

(* Mutant of ScheduleAway: wake() is forgotten.                            *)
ScheduleQuietly(c) ==
  /\ RunsAway(c)
  /\ EnqueueReady(c)
  /\ Move(c, "waiting")
  /\ UNCHANGED <<signalled, ownerVars, now, loopVars, threadVars, timer, heap,
                 timerVars, tokenVars>>

ScheduleAway(c) ==
  /\ RunsAway(c)
  /\ EnqueueReady(c)
  /\ Move(c, "waiting")
  /\ ThreadGoto(c, "wake")
  /\ UNCHANGED <<signalled, ownerVars, now, loopVars, pushing, timer, heap,
                 timerVars, tokenVars>>

-----------------------------------------------------------------------------
(* co_await ctx.sleep_for(d) or sleep_for(d, token).  A token that is      *)
(* already cancelled makes it throw at once, which changes no state.       *)

NewTimer(c, s, d) ==
  /\ timer' = [timer EXCEPT ![c] = s]
  /\ handle' = [handle EXCEPT ![s] = c]
  /\ deadline' = [deadline EXCEPT ![s] = IF now + d > MaxTime THEN Never ELSE now + d]
  /\ completed' = [completed EXCEPT ![s] = FALSE]
  /\ cancelled' = [cancelled EXCEPT ![s] = FALSE]

PassesToken(c, tok) == tok \in BOOLEAN /\ (tok => c \in Sources /\ ~requested[c])

SleepAway(c) ==
  /\ RunsAway(c)
  /\ FreeTimers # {}
  /\ \E d \in Delays, tok \in BOOLEAN :
       /\ PassesToken(c, tok)
       /\ NewTimer(c, NewAddress, d)
       /\ ThreadGoto(c, IF tok THEN "register" ELSE "push")
  /\ pushing' = [pushing EXCEPT ![c] = NewAddress]
  /\ Move(c, "waiting")
  /\ UNCHANGED <<ready, signalled, ownerVars, now, loopVars, heap, tokenVars>>

(* The cancellation callback, run inline because the token was cancelled   *)
(* after await_suspend had looked at it.  Nobody else can have completed   *)
(* the timer yet.                                                          *)
InlineCallback(c, s) ==
  /\ completed' = [completed EXCEPT ![s] = TRUE]
  /\ cancelled' = [cancelled EXCEPT ![s] = TRUE]
  /\ EnqueueReady(c)
  /\ UNCHANGED callback

RegisterAway(c) ==
  /\ thread[c] = "register"
  /\ \/ /\ requested[c]
        /\ InlineCallback(c, pushing[c])
        /\ ThreadGoto(c, "inline_wake")
     \/ /\ ~requested[c]
        /\ callback' = [callback EXCEPT ![c] = pushing[c]]
        /\ ThreadGoto(c, "push")
        /\ UNCHANGED <<ready, completed, cancelled>>
  /\ UNCHANGED <<signalled, ownerVars, now, loopVars, place, timer, pushing,
                 heap, handle, deadline, requested, kpc, kcb>>

PushAway(c) ==
  /\ thread[c] = "push"
  /\ heap' = heap \cup {pushing[c]}
  /\ pushing' = [pushing EXCEPT ![c] = NoTimer]
  /\ ThreadGoto(c, "wake")
  /\ UNCHANGED <<ready, signalled, ownerVars, now, loopVars, place, timer,
                 timerVars, tokenVars>>

(* wake(), at the end of await_suspend and of the inline callback.         *)
WakeAway(c) ==
  /\ thread[c] \in {"inline_wake", "wake"}
  /\ Wake
  /\ ThreadGoto(c, IF thread[c] = "inline_wake" THEN "push" ELSE "none")
  /\ UNCHANGED <<ready, ownerVars, now, loopVars, place, timer, pushing, heap,
                 timerVars, tokenVars>>

ThreadStep(c) == RegisterAway(c) \/ PushAway(c) \/ WakeAway(c)

(* On the loop thread: up to the token check, and the rest.                *)
SleepOnLoop(c) ==
  /\ RunsOnLoop(c)
  /\ FreeTimers # {}
  /\ \E d \in Delays, tok \in BOOLEAN :
       /\ PassesToken(c, tok)
       /\ NewTimer(c, NewAddress, d)
       /\ IF tok
            THEN LoopGoto("register") /\ UNCHANGED <<heap, signalled, current>>
            ELSE /\ heap' = heap \cup {NewAddress}
                 /\ Wake
                 /\ LoopGoto("resume")
                 /\ current' = NoCoro
  /\ Move(c, "waiting")
  /\ UNCHANGED <<ready, ownerVars, now, last, wakeAt, due, batch, threadVars, tokenVars>>

RegisterOnLoop ==
  LET c == current IN
  /\ lpc = "register"
  /\ \/ requested[c] /\ InlineCallback(c, timer[c])
     \/ /\ ~requested[c]
        /\ callback' = [callback EXCEPT ![c] = timer[c]]
        /\ UNCHANGED <<ready, completed, cancelled>>
  /\ heap' = heap \cup {timer[c]}
  /\ Wake
  /\ LoopGoto("resume")
  /\ current' = NoCoro
  /\ UNCHANGED <<ownerVars, now, last, wakeAt, due, batch, place, threadVars, timer,
                 handle, deadline, requested, kpc, kcb>>

(* The coroutine goes on elsewhere or waits for something else.            *)
LeaveLoop(c) ==
  /\ RunsOnLoop(c)
  /\ Move(c, "away")
  /\ LoopGoto("resume")
  /\ current' = NoCoro
  /\ UNCHANGED <<ready, signalled, ownerVars, now, last, wakeAt, due, batch,
                 threadVars, timer, heap, timerVars, tokenVars>>

CoroSuspends(c) == ScheduleOnLoop(c) \/ SleepOnLoop(c) \/ LeaveLoop(c)

-----------------------------------------------------------------------------
(* event_loop()                                                            *)

LoopTest ==
  /\ lpc = "test"
  /\ \/ /\ stopped
        /\ last' = TRUE
        /\ LoopGoto("collect")
        /\ UNCHANGED wakeAt
     \/ /\ ~stopped
        /\ wakeAt' = Min({deadline[s] : s \in heap} \cup {Never})
        /\ LoopGoto("poll")
        /\ UNCHANGED last
  /\ UNCHANGED <<ready, signalled, ownerVars, now, due, batch, current, place,
                 threadVars, timer, heap, timerVars, tokenVars>>

(* epoll_wait() has an event of the eventfd, which is drained, or times    *)
(* out.                                                                    *)
PollOnce ==
  /\ lpc = "poll"
  /\ signalled \/ wakeAt <= now
  /\ signalled' = FALSE
  /\ LoopGoto("collect")
  /\ UNCHANGED <<ready, ownerVars, now, last, wakeAt, due, batch, current, place,
                 threadVars, timer, heap, timerVars, tokenVars>>

(* epoll_wait() returns early: a signal, a descriptor's event, or the      *)
(* timeout that timeout_ms() has rounded down.                             *)
PollEarly ==
  /\ lpc = "poll"
  /\ ~signalled
  /\ LoopGoto("collect")
  /\ UNCHANGED <<ready, signalled, ownerVars, now, last, wakeAt, due, batch,
                 current, place, threadVars, timer, heap, timerVars, tokenVars>>

(* Mutant of CollectDue: the whole heap is collected.                      *)
CollectAll ==
  /\ lpc = "collect"
  /\ due' = heap
  /\ heap' = {}
  /\ LoopGoto("expire")
  /\ UNCHANGED <<ready, signalled, ownerVars, now, last, wakeAt, batch, current,
                 place, threadVars, timer, timerVars, tokenVars>>

(* timers_.collect_due()                                                   *)
CollectDue ==
  /\ lpc = "collect"
  /\ due' = {s \in heap : deadline[s] <= now}
  /\ heap' = heap \ due'
  /\ LoopGoto("expire")
  /\ UNCHANGED <<ready, signalled, ownerVars, now, last, wakeAt, batch, current,
                 place, threadVars, timer, timerVars, tokenVars>>

(* Mutant of ExpireTimer: completed is set but not looked at.              *)
ExpireAlways ==
  /\ lpc = "expire"
  /\ \/ /\ due = {}
        /\ LoopGoto("drain")
        /\ UNCHANGED <<ready, due, completed>>
     \/ \E s \in due :
          /\ EnqueueReady(handle[s])
          /\ completed' = [completed EXCEPT ![s] = TRUE]
          /\ due' = due \ {s}
          /\ UNCHANGED lpc
  /\ UNCHANGED <<signalled, ownerVars, now, last, wakeAt, batch, current, place,
                 threadVars, timer, heap, handle, deadline, cancelled, tokenVars>>

(* The rest of resume_due_timers(): one due timer, earliest first.         *)
ExpireTimer ==
  /\ lpc = "expire"
  /\ \/ /\ due = {}
        /\ LoopGoto("drain")
        /\ UNCHANGED <<ready, due, completed>>
     \/ \E s \in due :
          /\ \A t \in due : deadline[s] <= deadline[t]
          /\ IF completed[s] THEN UNCHANGED ready ELSE EnqueueReady(handle[s])
          /\ completed' = [completed EXCEPT ![s] = TRUE]
          /\ due' = due \ {s}
          /\ UNCHANGED lpc
  /\ UNCHANGED <<signalled, ownerVars, now, last, wakeAt, batch, current, place,
                 threadVars, timer, heap, handle, deadline, cancelled, tokenVars>>

(* drain_ready(): the swap ...                                             *)
DrainReady ==
  /\ lpc = "drain"
  /\ batch' = ready
  /\ ready' = <<>>
  /\ LoopGoto("resume")
  /\ UNCHANGED <<signalled, ownerVars, now, last, wakeAt, due, current, place,
                 threadVars, timer, heap, timerVars, tokenVars>>

(* ... and one resume() after the other.  A resumed sleeper looks whether  *)
(* it was cancelled and destroys its awaiter, which completes its timer    *)
(* and withdraws its callback.                                             *)
ResumeNext ==
  /\ lpc = "resume"
  /\ batch # <<>>
  /\ LET c == Head(batch) IN
       /\ current' = c
       /\ Move(c, "running")
       /\ timer' = [timer EXCEPT ![c] = NoTimer]
       /\ completed' = [s \in Timers |-> s = timer[c] \/ completed[s]]
       /\ callback' = [callback EXCEPT ![c] = NoTimer]
  /\ batch' = Tail(batch)
  /\ LoopGoto("running")
  /\ UNCHANGED <<ready, signalled, ownerVars, now, last, wakeAt, due, threadVars,
                 heap, handle, deadline, cancelled, requested, kpc, kcb>>

DrainDone ==
  /\ lpc = "resume"
  /\ batch = <<>>
  /\ LoopGoto(IF last THEN "exited" ELSE "test")
  /\ UNCHANGED <<ready, signalled, ownerVars, now, last, wakeAt, due, batch, current,
                 place, threadVars, timer, heap, timerVars, tokenVars>>

LoopStep ==
  \/ LoopTest \/ PollOnce \/ CollectDue \/ ExpireTimer \/ DrainReady
  \/ ResumeNext \/ DrainDone \/ RegisterOnLoop

-----------------------------------------------------------------------------
(* run() and stop(), also called by the destructor.                        *)

Run ==
  /\ opc = "idle" /\ ~joinable
  /\ runs < MaxRuns
  /\ runs' = runs + 1
  /\ stopped' = FALSE
  /\ joinable' = TRUE
  /\ LoopGoto("test")
  /\ last' = FALSE
  /\ UNCHANGED <<ready, signalled, opc, now, wakeAt, due, batch, current, place,
                 threadVars, timer, heap, timerVars, tokenVars>>

Stop ==
  /\ opc = "idle"
  /\ ~stopped
  /\ stopped' = TRUE
  /\ opc' = "wake"
  /\ UNCHANGED <<ready, signalled, joinable, runs, now, loopVars, place, threadVars,
                 timer, heap, timerVars, tokenVars>>

(* Mutant of StopWake: epoll_wait() is not interrupted.                    *)
StopQuietly ==
  /\ opc = "wake"
  /\ opc' = IF joinable THEN "join" ELSE "idle"
  /\ UNCHANGED <<ready, signalled, stopped, joinable, runs, now, loopVars, place,
                 threadVars, timer, heap, timerVars, tokenVars>>

StopWake ==
  /\ opc = "wake"
  /\ Wake
  /\ opc' = IF joinable THEN "join" ELSE "idle"
  /\ UNCHANGED <<ready, stopped, joinable, runs, now, loopVars, place, threadVars,
                 timer, heap, timerVars, tokenVars>>

StopJoin ==
  /\ opc = "join"
  /\ lpc = "exited"
  /\ LoopGoto("off")
  /\ joinable' = FALSE
  /\ opc' = "idle"
  /\ UNCHANGED <<ready, signalled, stopped, runs, now, last, wakeAt, due, batch,
                 current, place, threadVars, timer, heap, timerVars, tokenVars>>

StopStep == StopWake \/ StopJoin

-----------------------------------------------------------------------------
(* request_cancellation() on c's source.                                   *)
RequestCancellation(c) ==
  /\ c \in Sources /\ kpc[c] = "idle"
  /\ requested' = [requested EXCEPT ![c] = TRUE]
  /\ kpc' = [kpc EXCEPT ![c] = "swap"]
  /\ UNCHANGED <<ready, signalled, ownerVars, now, loopVars, place, threadVars,
                 timer, heap, timerVars, callback, kcb>>

SwapCallbacks(c) ==
  /\ kpc[c] = "swap"
  /\ kcb' = [kcb EXCEPT ![c] = callback[c]]
  /\ callback' = [callback EXCEPT ![c] = NoTimer]
  /\ kpc' = [kpc EXCEPT ![c] = IF callback[c] = NoTimer THEN "done" ELSE "mark"]
  /\ UNCHANGED <<ready, signalled, ownerVars, now, loopVars, place, threadVars,
                 timer, heap, timerVars, requested>>

(* The callback: claim the timer, mark it cancelled and queue its          *)
(* coroutine (nobody reads the mark before that), wake the loop.           *)
InvokeCallback(c) ==
  LET s == kcb[c] IN
  /\ \/ /\ kpc[c] = "mark"
        /\ completed' = [completed EXCEPT ![s] = TRUE]
        /\ kpc' = [kpc EXCEPT ![c] = IF completed[s] THEN "done" ELSE "store"]
        /\ kcb' = [kcb EXCEPT ![c] = IF completed[s] THEN NoTimer ELSE s]
        /\ UNCHANGED <<ready, signalled, cancelled>>
     \/ /\ kpc[c] = "store"
        /\ cancelled' = [cancelled EXCEPT ![s] = TRUE]
        /\ EnqueueReady(handle[s])
        /\ kpc' = [kpc EXCEPT ![c] = "wake"]
        /\ UNCHANGED <<signalled, completed, kcb>>
     \/ /\ kpc[c] = "wake"
        /\ Wake
        /\ kpc' = [kpc EXCEPT ![c] = "done"]
        /\ kcb' = [kcb EXCEPT ![c] = NoTimer]
        /\ UNCHANGED <<ready, completed, cancelled>>
  /\ UNCHANGED <<ownerVars, now, loopVars, place, threadVars, timer, heap, handle,
                 deadline, requested, callback>>

CancelStep(c) == SwapCallbacks(c) \/ InvokeCallback(c)

Tick ==
  /\ now < MaxTime
  /\ now' = now + 1
  /\ UNCHANGED <<ready, signalled, ownerVars, loopVars, place, threadVars, timer,
                 heap, timerVars, tokenVars>>

Next ==
  \/ LoopStep \/ PollEarly \/ Run \/ Stop \/ StopStep \/ Tick
  \/ \E c \in Coros :
       \/ ScheduleAway(c) \/ SleepAway(c) \/ ThreadStep(c)
       \/ CoroSuspends(c)
       \/ RequestCancellation(c) \/ CancelStep(c)

Spec == Init /\ [][Next]_vars

(* Threads go on, time passes, and no coroutine occupies the loop for      *)
(* ever.  Nobody has to run, stop, cancel or wait.                         *)
FairSpec ==
  /\ Spec
  /\ WF_vars(LoopStep) /\ WF_vars(StopStep) /\ WF_vars(Tick)
  /\ \A c \in Coros :
       /\ WF_vars(ThreadStep(c)) /\ WF_vars(CancelStep(c))
       /\ WF_vars(CoroSuspends(c))

-----------------------------------------------------------------------------
(* The types of the code's variables; a coroutine runs on the loop exactly *)
(* while the loop is inside its resume().                                  *)
TypeOK ==
  /\ ready \in Seq(Coros) /\ batch \in Seq(Coros)
  /\ signalled \in BOOLEAN /\ stopped \in BOOLEAN /\ joinable \in BOOLEAN
  /\ opc \in {"idle", "wake", "join"} /\ runs \in 0..MaxRuns
  /\ now \in 0..MaxTime /\ wakeAt \in 0..Never
  /\ lpc \in LoopPoints /\ last \in BOOLEAN
  /\ due \subseteq Timers /\ heap \subseteq Timers
  /\ current \in Coros \cup {NoCoro}
  /\ place \in [Coros -> Places]
  /\ \A c \in Coros : place[c] = "running" <=> RunsOnLoop(c)
  /\ thread \in [Coros -> ThreadPoints]
  /\ timer \in [Coros -> Timers \cup {NoTimer}]
  /\ pushing \in [Coros -> Timers \cup {NoTimer}]
  /\ handle \in [Timers -> Coros \cup {NoCoro}]
  /\ deadline \in [Timers -> 0..Never]
  /\ completed \in [Timers -> BOOLEAN] /\ cancelled \in [Timers -> BOOLEAN]
  /\ requested \in [Coros -> BOOLEAN]
  /\ callback \in [Coros -> Timers \cup {NoTimer}]
  /\ kpc \in [Coros -> CancelPoints]
  /\ kcb \in [Coros -> Timers \cup {NoTimer}]

(* Whoever is about to write the eventfd.                                  *)
WakePending ==
  \/ opc = "wake"
  \/ \E c \in Coros : thread[c] \in {"inline_wake", "push", "wake"} \/ kpc[c] = "wake"

(* No wake-up is lost: while the loop sits in epoll_wait(), a queued       *)
(* coroutine, a stop() or a timer earlier than the timeout means that the  *)
(* eventfd is set or about to be.                                          *)
SleepIsJustified ==
  lpc = "poll" /\ ~signalled /\ ~WakePending =>
    /\ ready = <<>>
    /\ ~stopped
    /\ \A s \in heap : wakeAt <= deadline[s]

(* A coroutine is queued for resumption at most once, and only while it    *)
(* waits: expiry, cancellation and schedule() never both resume one wait.  *)
ResumeOnlyWaiting ==
  /\ IsInjective(batch \o ready)
  /\ \A c \in ToSet(batch \o ready) : place[c] = "waiting"

(* A waiting coroutine is queued, or its timer is alive where the loop or  *)
(* a cancellation will find it.                                            *)
Reachable(c) ==
  \/ c \in ToSet(batch \o ready)
  \/ timer[c] # NoTimer /\ ~completed[timer[c]] /\ timer[c] \in heap \cup due
  \/ kpc[c] = "store" /\ kcb[c] = timer[c]
  \/ thread[c] \in {"register", "push"} /\ pushing[c] = timer[c]
  \/ lpc = "register" /\ current = c

NobodyForgotten == \A c \in Coros : place[c] = "waiting" => Reachable(c)

(* sleep_for() does not return before its deadline; it throws before it    *)
(* only when its source was cancelled.                                     *)
Resumes(c) == place[c] = "waiting" /\ place'[c] = "running"

SleepsLongEnough ==
  [][\A c \in Coros :
       Resumes(c) /\ timer[c] # NoTimer =>
         IF cancelled[timer[c]] THEN requested[c] ELSE deadline[timer[c]] <= now]_vars

(* While the loop is not stopped, a wait ends: one that was scheduled, one *)
(* whose deadline can come, one whose callback saw the cancellation.       *)
CanEnd(c) ==
  \/ timer[c] = NoTimer
  \/ deadline[timer[c]] <= MaxTime
  \/ cancelled[timer[c]]
  \/ callback[c] = timer[c] /\ requested[c]

WaitEnds ==
  \A c \in Coros :
    place[c] = "waiting" /\ CanEnd(c) /\ lpc \notin {"off", "exited"}
      ~> place[c] # "waiting" \/ stopped

(* stop() returns: the loop is woken, ends its round and is joined.        *)
StopReturns == opc = "wake" ~> opc = "idle"

(* Comment at the end of event_loop(): before the loop exits, all work in  *)
(* the ready queue is done.                                                *)
LoopExitsDrained == [][lpc = "resume" /\ lpc' = "exited" => ready = <<>>]_vars

(* What holds of the loop and its queue in every state: a coroutine is     *)
(* queued once at most, and only while it waits, and none is forgotten.    *)
IoInvariant ==
  /\ TypeOK
  /\ ResumeOnlyWaiting
  /\ NobodyForgotten
=============================================================================
