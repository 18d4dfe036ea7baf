--------------------------- MODULE CancellableWait ---------------------------
(***************************************************************************)
(* The part that xcoro::mutex and xcoro::counting_semaphore share: a       *)
(* coroutine that awaits a resource with an optional cancellation_token,   *)
(* the waiter_state object it leaves in the resource's queue, and the      *)
(* thread that requests cancellation of the token.  The resource itself    *)
(* (a flag or a counter, its queue and its std::mutex) is in the modules   *)
(* that extend this one.                                                   *)
(*                                                                         *)
(* A step is one access to shared memory: an atomic load, store, exchange  *)
(* or compare-exchange, or one critical section of a std::mutex that does  *)
(* nothing else.  A coroutine c in Sources has a cancellation source of    *)
(* its own, which one thread may cancel once; each wait of c either passes *)
(* the token of that source or none.                                       *)
(*                                                                         *)
(* A waiter_state is held by std::shared_ptr, so an element of Waiters is  *)
(* free for reuse exactly when no queue, awaiter, callback or releasing    *)
(* thread refers to it.                                                    *)
(***************************************************************************)
EXTENDS Naturals, Sequences, FiniteSets

CONSTANTS Coros,    \* the coroutines that use the resource
          Sources,  \* those that have a cancellation_source
          Waiters,  \* addresses of waiter_state objects
          NoCoro,   \* the null coroutine_handle
          NoWaiter  \* the null shared_ptr

ASSUME SourcesAssumption == Sources \subseteq Coros
ASSUME NullAssumption == NoCoro \notin Coros /\ NoWaiter \notin Waiters

VARIABLES
  pc,         \* where coroutine c is
  state,      \* awaiter::state_ of c
  withToken,  \* whether c's current wait passes its token
  immediate,  \* awaiter::cancelled_immediate_ of c
  handle,     \* waiter_state::handle
  resumed,    \* waiter_state::resumed
  cancelled,  \* waiter_state::cancelled
  phase,      \* waiter_state::suspend_phase
  requested,  \* cancellation_state::cancelled_ of c's source
  callback,   \* cancellation_state::callbacks_ of c's source (0 or 1 entry)
  kpc,        \* where the thread that cancels c's source is
  kcb         \* the callback that thread moved out of callbacks_

awaiterVars == <<state, withToken, immediate>>
waiterVars  == <<handle, resumed, cancelled, phase>>
cancelVars  == <<requested, callback, kpc, kcb>>
waitVars    == <<pc, awaiterVars, waiterVars, cancelVars>>

Phases == {"waiting_await_suspend", "suspended", "wake_requested"}

(* The program points of an awaiting coroutine; a resource adds its own.   *)
WaitPoints == {"idle", "ready", "try", "suspend", "enqueue", "register",
               "cb_mark", "cb_store", "cb_wake", "mark", "suspended",
               "resume"}

CancelPoints == {"idle", "swap", "cb_mark", "cb_store", "cb_wake",
                 "resume", "done"}

WaitInit ==
  /\ pc = [c \in Coros |-> "idle"]
  /\ state = [c \in Coros |-> NoWaiter]
  /\ withToken = [c \in Coros |-> FALSE]
  /\ immediate = [c \in Coros |-> FALSE]
  /\ handle = [w \in Waiters |-> NoCoro]
  /\ resumed = [w \in Waiters |-> FALSE]
  /\ cancelled = [w \in Waiters |-> FALSE]
  /\ phase = [w \in Waiters |-> "waiting_await_suspend"]
  /\ requested = [c \in Coros |-> FALSE]
  /\ callback = [c \in Coros |-> NoWaiter]
  /\ kpc = [c \in Coros |-> "idle"]
  /\ kcb = [c \in Coros |-> NoWaiter]

-----------------------------------------------------------------------------
(* The awaiter, run by the thread that executes c.                         *)

Goto(c, point) == pc' = [pc EXCEPT ![c] = point]

(* token_.can_be_cancelled() && token_.is_cancellation_requested()         *)
TokenCancelled(c) == withToken[c] /\ requested[c]

(* co_await lock(token) or co_await lock(): the awaiter is constructed.    *)
BeginWait(c) ==
  /\ pc[c] = "idle"
  /\ \E tok \in BOOLEAN :
       /\ tok => c \in Sources
       /\ withToken' = [withToken EXCEPT ![c] = tok]
  /\ Goto(c, "ready")
  /\ UNCHANGED <<state, immediate, waiterVars, cancelVars>>

(* A token check of await_ready (next = "try") or of await_suspend         *)
(* (next = "enqueue"): a cancelled token skips the wait altogether.        *)
CheckToken(c, at, next) ==
  /\ pc[c] = at
  /\ immediate' = [immediate EXCEPT ![c] = TokenCancelled(c)]
  /\ Goto(c, IF TokenCancelled(c) THEN "resume" ELSE next)
  /\ UNCHANGED <<state, withToken, waiterVars, cancelVars>>

AwaitReadyToken(c)   == CheckToken(c, "ready", "try")
AwaitSuspendToken(c) == CheckToken(c, "suspend", "enqueue")

(* make_shared<waiter_state>, pushed on the queue by the caller.           *)
NewWaiter(c, w) ==
  /\ state' = [state EXCEPT ![c] = w]
  /\ handle' = [handle EXCEPT ![w] = c]
  /\ resumed' = [resumed EXCEPT ![w] = FALSE]
  /\ cancelled' = [cancelled EXCEPT ![w] = FALSE]
  /\ phase' = [phase EXCEPT ![w] = "waiting_await_suspend"]
  /\ Goto(c, IF withToken[c] THEN "register" ELSE "mark")
  /\ UNCHANGED <<withToken, immediate, cancelVars>>

(* cancellation_registration(token_, callback): try_add_callback, or the   *)
(* callback is invoked at once by this thread.                             *)
Register(c) ==
  /\ pc[c] = "register"
  /\ \/ /\ requested[c]
        /\ Goto(c, "cb_mark")
        /\ UNCHANGED callback
     \/ /\ ~requested[c]
        /\ callback' = [callback EXCEPT ![c] = state[c]]
        /\ Goto(c, "mark")
  /\ UNCHANGED <<awaiterVars, waiterVars, requested, kpc, kcb>>

(* The first access of the cancellation callback: try_mark_resumed().      *)
MarkResumed(w) == resumed' = [resumed EXCEPT ![w] = TRUE]

(* Mutants: should_resume_now() answers yes to a waiter that is still in   *)
(* await_suspend; it leaves no wake request behind.                        *)
ResumeUnlessWakeRequested(w) == phase[w] # "wake_requested"
KeepPhase(w) == phase' = phase

(* should_resume_now(): a compare-exchange that leaves a wake request for  *)
(* a waiter still inside await_suspend; only a suspended one is resumed.   *)
ShouldResumeNow(w) == phase[w] = "suspended"
RequestWake(w) ==
  phase' = IF phase[w] = "waiting_await_suspend"
             THEN [phase EXCEPT ![w] = "wake_requested"] ELSE phase

(* The cancellation callback run inline by Register.                       *)
InlineCallback(c) ==
  /\ UNCHANGED <<awaiterVars, handle, cancelVars>>
  /\ \/ /\ pc[c] = "cb_mark"
        /\ MarkResumed(state[c])
        /\ Goto(c, IF resumed[state[c]] THEN "mark" ELSE "cb_store")
        /\ UNCHANGED <<cancelled, phase>>
     \/ /\ pc[c] = "cb_store"
        /\ cancelled' = [cancelled EXCEPT ![state[c]] = TRUE]
        /\ Goto(c, "cb_wake")
        /\ UNCHANGED <<resumed, phase>>
     \/ /\ pc[c] = "cb_wake"
        /\ RequestWake(state[c])
        /\ Goto(c, "mark")
        /\ UNCHANGED <<resumed, cancelled>>

(* return state->try_mark_suspended(): suspend, or go on without having    *)
(* suspended because a wake was requested meanwhile.                       *)
TryMarkSuspended(c) ==
  LET w == state[c] IN
  /\ pc[c] = "mark"
  /\ \/ /\ phase[w] = "waiting_await_suspend"
        /\ phase' = [phase EXCEPT ![w] = "suspended"]
        /\ Goto(c, "suspended")
     \/ /\ phase[w] # "waiting_await_suspend"
        /\ Goto(c, "resume")
        /\ UNCHANGED phase
  /\ UNCHANGED <<awaiterVars, handle, resumed, cancelled, cancelVars>>

(* What await_resume() decides.                                            *)
Throws(c) ==
  immediate[c] \/ (state[c] # NoWaiter /\ cancelled[state[c]])

(* await_resume() and the destruction of the awaiter, whose registration   *)
(* takes its callback out of callbacks_ if it is still there.              *)
AwaitResume(c, granted) ==
  /\ pc[c] = "resume"
  /\ Goto(c, IF Throws(c) THEN "idle" ELSE granted)
  /\ callback' = [callback EXCEPT ![c] = NoWaiter]
  /\ state' = [state EXCEPT ![c] = NoWaiter]
  /\ withToken' = [withToken EXCEPT ![c] = FALSE]
  /\ immediate' = [immediate EXCEPT ![c] = FALSE]
  /\ UNCHANGED <<waiterVars, requested, kpc, kcb>>

AwaiterStep(c) ==
  \/ AwaitReadyToken(c) \/ AwaitSuspendToken(c)
  \/ Register(c) \/ InlineCallback(c) \/ TryMarkSuspended(c)

-----------------------------------------------------------------------------
(* request_cancellation() on c's source, run by a thread of its own.       *)

KGoto(c, point) == kpc' = [kpc EXCEPT ![c] = point]

RequestCancellation(c) ==
  /\ c \in Sources
  /\ kpc[c] = "idle" /\ ~requested[c]
  /\ requested' = [requested EXCEPT ![c] = TRUE]
  /\ KGoto(c, "swap")
  /\ UNCHANGED <<pc, awaiterVars, waiterVars, callback, kcb>>

(* callbacks.swap(callbacks_) under the lock of the cancellation_state.    *)
SwapCallbacks(c) ==
  /\ kpc[c] = "swap"
  /\ kcb' = [kcb EXCEPT ![c] = callback[c]]
  /\ callback' = [callback EXCEPT ![c] = NoWaiter]
  /\ KGoto(c, IF callback[c] = NoWaiter THEN "done" ELSE "cb_mark")
  /\ UNCHANGED <<pc, awaiterVars, waiterVars, requested>>

(* The callback, invoked by the cancelling thread.                         *)
InvokeCallback(c) ==
  LET w == kcb[c] IN
  /\ UNCHANGED <<pc, awaiterVars, handle, requested, callback>>
  /\ \/ /\ kpc[c] = "cb_mark"
        /\ MarkResumed(w)
        /\ IF resumed[w]
             THEN /\ KGoto(c, "done")
                  /\ kcb' = [kcb EXCEPT ![c] = NoWaiter]
             ELSE KGoto(c, "cb_store") /\ UNCHANGED kcb
        /\ UNCHANGED <<cancelled, phase>>
     \/ /\ kpc[c] = "cb_store"
        /\ cancelled' = [cancelled EXCEPT ![w] = TRUE]
        /\ KGoto(c, "cb_wake")
        /\ UNCHANGED <<resumed, phase, kcb>>
     \/ /\ kpc[c] = "cb_wake"
        /\ RequestWake(w)
        /\ IF ShouldResumeNow(w)
             THEN KGoto(c, "resume") /\ UNCHANGED kcb
             ELSE /\ KGoto(c, "done")
                  /\ kcb' = [kcb EXCEPT ![c] = NoWaiter]
        /\ UNCHANGED <<resumed, cancelled>>

(* state->handle.resume() on the cancelling thread.                        *)
CancelResume(c) ==
  /\ kpc[c] = "resume"
  /\ Goto(handle[kcb[c]], "resume")
  /\ KGoto(c, "done")
  /\ kcb' = [kcb EXCEPT ![c] = NoWaiter]
  /\ UNCHANGED <<awaiterVars, waiterVars, requested, callback>>

CancelStep(c) == SwapCallbacks(c) \/ InvokeCallback(c) \/ CancelResume(c)

-----------------------------------------------------------------------------
(* The cancellation callback has claimed c's waiter (try_mark_resumed) but *)
(* has not stored cancelled yet.                                           *)
CancelClaimed(c) ==
  \/ pc[c] = "cb_store"
  \/ kpc[c] = "cb_store" /\ kcb[c] = state[c]

(* c's waiter has been claimed by whoever gave the resource away.          *)
Granted(c) ==
  /\ state[c] # NoWaiter
  /\ resumed[state[c]] /\ ~cancelled[state[c]]
  /\ ~CancelClaimed(c)

(* References to waiters that this module holds.                           *)
AwaitReferences == {state[c] : c \in Coros} \cup {callback[c] : c \in Coros}
                     \cup {kcb[c] : c \in Coros}

WaitTypeOK(points) ==
  /\ pc \in [Coros -> points]
  /\ state \in [Coros -> Waiters \cup {NoWaiter}]
  /\ withToken \in [Coros -> BOOLEAN]
  /\ immediate \in [Coros -> BOOLEAN]
  /\ handle \in [Waiters -> Coros \cup {NoCoro}]
  /\ resumed \in [Waiters -> BOOLEAN]
  /\ cancelled \in [Waiters -> BOOLEAN]
  /\ phase \in [Waiters -> Phases]
  /\ requested \in [Coros -> BOOLEAN]
  /\ callback \in [Coros -> Waiters \cup {NoWaiter}]
  /\ kpc \in [Coros -> CancelPoints]
  /\ kcb \in [Coros -> Waiters \cup {NoWaiter}]
=============================================================================
