--------------------------- MODULE ManualResetEvent ---------------------------
(***************************************************************************)
(* xcoro::manual_reset_event (manual_reset_event.hpp): set() and co_await. *)
(* An event's atomic pointer is null, itself (set), or the newest of a     *)
(* list of awaiters; nothing in the class ever unsets it.                  *)
(*                                                                         *)
(* resume() returns to its caller when the coroutine suspends or finishes: *)
(* "callee" keeps who is inside whose resume().                            *)
(***************************************************************************)
EXTENDS SequencesExt

CONSTANTS Events, Coros, Threads, None

VARIABLES
  state,   \* manual_reset_event::state_
  point,   \* where each coroutine is
  seen,    \* old_value, in await_suspend()
  waking,  \* waiters, in set(): who is still to be resumed
  callee   \* whose resume() a coroutine or thread is inside

eventVars == <<state, point, seen, waking, callee>>

Callers     == Coros \cup Threads
Unset       == [set |-> FALSE, waiters |-> <<>>]
AwaitPoints == {"ready", "load", "push", "suspended", "resume"}

EventInit(start) ==
  /\ state = [e \in Events |-> Unset]
  /\ point = start
  /\ seen = [c \in Coros |-> Unset]
  /\ waking = [x \in Callers |-> <<>>]
  /\ callee = [x \in Callers |-> None]

Goto(c, to) == point' = [point EXCEPT ![c] = to]

(* Control goes back to whoever resumed c.                                 *)
Returned(c) == callee' = [x \in Callers |-> IF callee[x] = c THEN None ELSE callee[x]]

-----------------------------------------------------------------------------
AwaitReady(c, e) ==
  /\ point[c] = "ready"
  /\ Goto(c, IF state[e].set THEN "resume" ELSE "load")
  /\ UNCHANGED <<state, seen, waking, callee>>

LoadState(c, e) ==
  /\ point[c] = "load"
  /\ seen' = [seen EXCEPT ![c] = state[e]]
  /\ Goto(c, "push")
  /\ UNCHANGED <<state, waking, callee>>

(* Mutant of Push: await_suspend() answers false after a successful push.  *)
PushAndGoOn(c, e) ==
  /\ ~seen[c].set /\ state[e] = seen[c]
  /\ state' = [state EXCEPT ![e].waiters = <<c>> \o @]
  /\ Goto(c, "resume")
  /\ UNCHANGED <<seen, waking, callee>>

(* compare_exchange_weak(): c becomes the head of the list and suspends.   *)
Push(c, e) ==
  /\ ~seen[c].set /\ state[e] = seen[c]
  /\ state' = [state EXCEPT ![e].waiters = <<c>> \o @]
  /\ Goto(c, "suspended")
  /\ Returned(c)
  /\ UNCHANGED <<seen, waking>>

(* The pointer has changed: the loop tries again with what it is now.      *)
PushAgain(c, e) ==
  /\ ~seen[c].set /\ state[e] # seen[c]
  /\ seen' = [seen EXCEPT ![c] = state[e]]
  /\ UNCHANGED <<state, point, waking, callee>>

(* await_suspend() answers false: the event is set.                        *)
DoNotSuspend(c) ==
  /\ seen[c].set
  /\ Goto(c, "resume")
  /\ UNCHANGED <<state, seen, waking, callee>>

AwaiterStep(c, e) ==
  \/ AwaitReady(c, e)
  \/ LoadState(c, e)
  \/ point[c] = "push" /\ (Push(c, e) \/ PushAgain(c, e) \/ DoNotSuspend(c))

-----------------------------------------------------------------------------
(* Mutant of TakeWaiters: only the newest awaiter.                         *)
TakeHead(e) == IF state[e].waiters = <<>> THEN <<>> ELSE <<Head(state[e].waiters)>>

(* The list that set() walks, newest first; an event that is set has none. *)
TakeWaiters(e) == state[e].waiters

SetEvent(x, e) ==
  /\ waking' = [waking EXCEPT ![x] = TakeWaiters(e)]
  /\ state' = [state EXCEPT ![e] = [set |-> TRUE, waiters |-> <<>>]]
  /\ UNCHANGED <<seen, callee>>

ResumeNext(x) ==
  /\ callee[x] = None /\ waking[x] # <<>>
  /\ LET c == Head(waking[x]) IN Goto(c, "resume") /\ callee' = [callee EXCEPT ![x] = c]
  /\ waking' = [waking EXCEPT ![x] = Tail(@)]
  /\ UNCHANGED <<state, seen>>

SetReturns(x) == callee[x] = None /\ waking[x] = <<>>
=============================================================================
