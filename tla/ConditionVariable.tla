-------------------------- MODULE ConditionVariable --------------------------
(***************************************************************************)
(* xcoro::condition_variable (condition_variable.hpp) over one mutex: wait *)
(* with an optional cancellation_token, notify_one() and notify_all().     *)
(*                                                                         *)
(* The mutex is the first-come first-served lock that Mutex is shown to    *)
(* implement: unlock() hands over in one step, and the coroutine it        *)
(* resumes goes on concurrently.  Its own cancellation plays no part here: *)
(* wait() takes the mutex back with lock_or_enqueue(), which has no token. *)
(*                                                                         *)
(* A critical section of the condition variable's std::mutex is one step;  *)
(* claims in it only ever go from unclaimed to claimed.                    *)
(***************************************************************************)
EXTENDS CancellableWait, SequencesExt

CONSTANT Notifiers  \* threads that call notify_one() and notify_all()

VARIABLES
  waiters,  \* condition_variable::waiters_
  owner,    \* who holds the mutex, or NoCoro
  line,     \* who waits for the mutex
  claimed,  \* w or to_resume of a notifier: claimed and not dealt with
  relock    \* the coroutine a notifier calls lock_and_resume() for

lockVars   == <<owner, line>>
notifyVars == <<claimed, relock>>
vars       == <<waitVars, waiters, lockVars, notifyVars>>

Points == WaitPoints \cup {"holding", "locking"}

Init ==
  /\ WaitInit
  /\ waiters = <<>>
  /\ owner = NoCoro /\ line = <<>>
  /\ claimed = [n \in Notifiers |-> <<>>]
  /\ relock = [n \in Notifiers |-> NoCoro]

-----------------------------------------------------------------------------
(* The mutex.                                                              *)

(* lock_or_enqueue(): c goes on with the mutex, or joins the queue.        *)
(* lock_and_resume() does the same and resumes c, for its caller.          *)
LockAndResume(c) ==
  \/ /\ owner = NoCoro
     /\ owner' = c
     /\ Goto(c, "resume")
     /\ UNCHANGED line
  \/ /\ owner # NoCoro
     /\ line' = Append(line, c)
     /\ Goto(c, "locking")
     /\ UNCHANGED owner

(* mutex::unlock() in code that then continues at "to".                    *)
Unlock(c, to) ==
  IF line = <<>>
    THEN owner' = NoCoro /\ Goto(c, to) /\ UNCHANGED line
    ELSE /\ owner' = Head(line)
         /\ line' = Tail(line)
         /\ pc' = [pc EXCEPT ![c] = to, ![Head(line)] = "resume"]

(* co_await m.lock()                                                       *)
Lock(c) ==
  /\ pc[c] = "idle"
  /\ LockAndResume(c)
  /\ UNCHANGED <<awaiterVars, waiterVars, cancelVars, waiters, notifyVars>>

Release(c) ==
  /\ pc[c] = "holding"
  /\ Unlock(c, "idle")
  /\ UNCHANGED <<awaiterVars, waiterVars, cancelVars, waiters, notifyVars>>

-----------------------------------------------------------------------------
(* co_await cv.wait(m) or cv.wait(m, token), by the owner of the mutex.    *)
Wait(c) ==
  /\ pc[c] = "holding"
  /\ \E tok \in BOOLEAN :
       /\ tok => c \in Sources
       /\ withToken' = [withToken EXCEPT ![c] = tok]
  /\ Goto(c, "ready")
  /\ UNCHANGED <<state, immediate, waiterVars, cancelVars, waiters, lockVars, notifyVars>>

WaitToken(c) ==
  /\ CheckToken(c, "ready", "suspend") \/ CheckToken(c, "suspend", "enqueue")
  /\ UNCHANGED <<waiters, lockVars, notifyVars>>

FreeWaiters ==
  Waiters \ (AwaitReferences \cup ToSet(waiters)
               \cup UNION {ToSet(claimed[n]) : n \in Notifiers})
NewAddress == CHOOSE w \in FreeWaiters : TRUE

EnqueueWaiter(c) ==
  /\ pc[c] = "enqueue"
  /\ FreeWaiters # {}
  /\ NewWaiter(c, NewAddress)
  /\ waiters' = Append(waiters, NewAddress)
  /\ UNCHANGED <<lockVars, notifyVars>>

(* mutex_.unlock() in await_suspend: c is at "register" or "mark" and      *)
(* still owns the mutex.                                                   *)
WaitUnlock(c) ==
  /\ pc[c] \in {"register", "mark"} /\ owner = c
  /\ Unlock(c, pc[c])
  /\ UNCHANGED <<awaiterVars, waiterVars, cancelVars, waiters, notifyVars>>

WaitRegister(c) ==
  /\ owner # c
  /\ Register(c) \/ InlineCallback(c)
  /\ UNCHANGED <<waiters, lockVars, notifyVars>>

(* try_mark_suspended(): suspend or, if a wake-up came meanwhile, take the *)
(* mutex back, perhaps suspending in its queue.                            *)
WaitSuspend(c) ==
  /\ pc[c] = "mark" /\ owner # c
  /\ IF phase[state[c]] = "waiting_await_suspend"
       THEN TryMarkSuspended(c) /\ UNCHANGED lockVars
       ELSE LockAndResume(c) /\ UNCHANGED <<awaiterVars, waiterVars, cancelVars>>
  /\ UNCHANGED <<waiters, notifyVars>>

(* await_resume(), of wait() or lock(), and the end of the awaiter.  After *)
(* operation_cancelled c owns the mutex too.                               *)
Resume(c) ==
  /\ pc[c] = "resume"
  /\ Goto(c, "holding")
  /\ callback' = [callback EXCEPT ![c] = NoWaiter]
  /\ state' = [state EXCEPT ![c] = NoWaiter]
  /\ withToken' = [withToken EXCEPT ![c] = FALSE]
  /\ immediate' = [immediate EXCEPT ![c] = FALSE]
  /\ UNCHANGED <<waiterVars, requested, kpc, kcb, waiters, lockVars, notifyVars>>

CoroStep(c) ==
  \/ WaitToken(c) \/ EnqueueWaiter(c) \/ WaitUnlock(c) \/ WaitRegister(c)
  \/ WaitSuspend(c) \/ Resume(c)

-----------------------------------------------------------------------------
(* notify_one() and notify_all().                                          *)

(* Mutants of NotifyOne: the head is claimed even if a cancellation was    *)
(* first; an abandoned head ends the search.                               *)
NotifyHead(n) ==
  /\ claimed[n] = <<>> /\ relock[n] = NoCoro
  /\ waiters # <<>>
  /\ MarkResumed(Head(waiters))
  /\ claimed' = [claimed EXCEPT ![n] = <<Head(waiters)>>]
  /\ waiters' = Tail(waiters)
  /\ UNCHANGED <<pc, awaiterVars, handle, cancelled, phase, cancelVars, lockVars, relock>>

NotifyAtMostHead(n) ==
  /\ claimed[n] = <<>> /\ relock[n] = NoCoro
  /\ waiters # <<>>
  /\ MarkResumed(Head(waiters))
  /\ claimed' = [claimed EXCEPT ![n] =
       SelectSeq(<<Head(waiters)>>, LAMBDA w : ~resumed[w])]
  /\ waiters' = Tail(waiters)
  /\ UNCHANGED <<pc, awaiterVars, handle, cancelled, phase, cancelVars, lockVars, relock>>

(* Where the loop of notify_one() stops: at the first waiter in q that no  *)
(* cancellation has claimed, or at 0 if there is none.                     *)
FirstUnclaimed(q) == SelectInSeq(q, LAMBDA w : ~resumed[w])

(* That waiter and all before it leave the queue.                          *)
NotifyOne(n) ==
  /\ claimed[n] = <<>> /\ relock[n] = NoCoro
  /\ LET i == FirstUnclaimed(waiters) IN
       IF i = 0
         THEN waiters' = <<>> /\ UNCHANGED <<resumed, claimed>>
         ELSE /\ MarkResumed(waiters[i])
              /\ claimed' = [claimed EXCEPT ![n] = <<waiters[i]>>]
              /\ waiters' = SubSeq(waiters, i + 1, Len(waiters))
  /\ UNCHANGED <<pc, awaiterVars, handle, cancelled, phase, cancelVars, lockVars, relock>>

(* to_resume of notify_all(): of the waiters in q, in their order, those   *)
(* that nobody had claimed.                                                *)
Unclaimed(q) ==
  LET toResume[i \in 0..Len(q)] ==
        IF i = 0 THEN <<>>
        ELSE IF resumed[q[i]] THEN toResume[i - 1] ELSE Append(toResume[i - 1], q[i])
  IN  toResume[Len(q)]

NotifyAll(n) ==
  /\ claimed[n] = <<>> /\ relock[n] = NoCoro
  /\ resumed' = [w \in Waiters |-> resumed[w] \/ w \in ToSet(waiters)]
  /\ claimed' = [claimed EXCEPT ![n] = Unclaimed(waiters)]
  /\ waiters' = <<>>
  /\ UNCHANGED <<pc, awaiterVars, handle, cancelled, phase, cancelVars, lockVars, relock>>

(* should_resume_now() for the next of the claimed waiters.                *)
NotifyWake(n) ==
  /\ claimed[n] # <<>> /\ relock[n] = NoCoro
  /\ LET w == Head(claimed[n]) IN
       /\ RequestWake(w)
       /\ relock' = [relock EXCEPT ![n] = IF ShouldResumeNow(w) THEN handle[w] ELSE NoCoro]
  /\ claimed' = [claimed EXCEPT ![n] = Tail(@)]
  /\ UNCHANGED <<pc, awaiterVars, handle, resumed, cancelled, cancelVars, waiters, lockVars>>

NotifyRelock(n) ==
  /\ relock[n] # NoCoro
  /\ LockAndResume(relock[n])
  /\ relock' = [relock EXCEPT ![n] = NoCoro]
  /\ UNCHANGED <<awaiterVars, waiterVars, cancelVars, waiters, claimed>>

NotifyStep(n) == NotifyWake(n) \/ NotifyRelock(n)

-----------------------------------------------------------------------------
(* The cancellation callback ends with lock_and_resume().                  *)
CancelRelock(c) ==
  /\ kpc[c] = "resume"
  /\ LockAndResume(handle[kcb[c]])
  /\ KGoto(c, "done")
  /\ kcb' = [kcb EXCEPT ![c] = NoWaiter]
  /\ UNCHANGED <<awaiterVars, waiterVars, requested, callback, waiters, notifyVars>>

CancellerStep(c) ==
  \/ CancelRelock(c)
  \/ (SwapCallbacks(c) \/ InvokeCallback(c)) /\ UNCHANGED <<waiters, lockVars, notifyVars>>

CancelRequest(c) ==
  RequestCancellation(c) /\ UNCHANGED <<waiters, lockVars, notifyVars>>

Next ==
  \/ \E c \in Coros :
       \/ Lock(c) \/ Release(c) \/ Wait(c) \/ CoroStep(c)
       \/ CancelRequest(c) \/ CancellerStep(c)
  \/ \E n \in Notifiers : NotifyOne(n) \/ NotifyAll(n) \/ NotifyStep(n)

Spec == Init /\ [][Next]_vars

(* Threads go on, and an owner unlocks sooner or later, even if each of    *)
(* its waits throws at once; nobody has to lock, notify or cancel.         *)
FairSpec ==
  /\ Spec
  /\ \A c \in Coros :
       /\ WF_vars(CoroStep(c)) /\ WF_vars(CancellerStep(c))
       /\ SF_vars(Release(c))
  /\ \A n \in Notifiers : WF_vars(NotifyStep(n))

-----------------------------------------------------------------------------
(* The types of the code's variables.                                      *)
TypeOK ==
  /\ WaitTypeOK(Points)
  /\ waiters \in Seq(Waiters)
  /\ owner \in Coros \cup {NoCoro}
  /\ line \in Seq(Coros) /\ IsInjective(line)
  /\ claimed \in [Notifiers -> Seq(Waiters)]
  /\ relock \in [Notifiers -> Coros \cup {NoCoro}]

(* wait() returns, or throws, with the mutex held by its caller alone,     *)
(* whether it was notified while suspended, notified before it had         *)
(* suspended, or cancelled at any of those points.                         *)
HoldsMutexOnReturn ==
  \A c \in Coros :
    /\ pc[c] \in {"resume", "holding", "ready", "suspend", "enqueue"} => owner = c
    /\ pc[c] = "locking" <=> c \in ToSet(line)

(* A notification is never spent on a wait that throws: what notify_one()  *)
(* has claimed, no cancellation has.                                       *)
NotificationsReachWaiters ==
  \A n \in Notifiers : \A w \in ToSet(claimed[n]) : resumed[w] /\ ~cancelled[w]

(* Whoever is about to wake the suspended coroutine c.                     *)
Resumers(c) ==
  {n \in Notifiers : relock[n] = c \/ state[c] \in ToSet(claimed[n])}
  \cup
  {d \in Coros : kpc[d] \in {"cb_store", "cb_wake", "resume"} /\ kcb[d] = state[c]}

(* A suspended coroutine is unclaimed in the queue, where the next         *)
(* notification finds it, or exactly one thread is about to wake it.       *)
OneResumerPerSuspension ==
  \A c \in Coros :
    pc[c] = "suspended" =>
      IF resumed[state[c]] THEN Cardinality(Resumers(c)) = 1
                           ELSE state[c] \in ToSet(waiters) /\ Resumers(c) = {}

(* lock_and_resume() is only called for a coroutine that is suspended in   *)
(* wait(): never for one that is on its way into or out of it.             *)
ResumeOnlySuspended ==
  /\ \A n \in Notifiers : relock[n] # NoCoro => pc[relock[n]] = "suspended"
  /\ \A c \in Coros : kpc[c] = "resume" => pc[handle[kcb[c]]] = "suspended"

(* A wait that has been notified or whose cancellation callback has run    *)
(* ends, as long as owners release the mutex.                              *)
WokenWaitReturns ==
  \A c \in Coros :
    state[c] # NoWaiter /\ resumed[state[c]] ~> pc[c] = "holding"

(* c waits: it has given up the mutex and nobody has claimed its waiter.   *)
Waiting(c) == state[c] # NoWaiter /\ ~resumed[state[c]] /\ owner # c

(* notify_one() wakes one coroutine if any has released the mutex in       *)
(* wait() and is not being cancelled: a notification between the release   *)
(* and the suspension is not lost.                                         *)
NotifyOneWakesOne ==
  [][\A n \in Notifiers :
       NotifyOne(n) /\ (\E c \in Coros : Waiting(c)) => claimed'[n] # <<>>]_vars

(* What holds of the waiters in every state: each suspension has its one   *)
(* resumer, nobody is resumed who is not suspended, and who returns holds  *)
(* the mutex.                                                              *)
ConditionVariableInvariant ==
  /\ TypeOK
  /\ HoldsMutexOnReturn
  /\ OneResumerPerSuspension
  /\ ResumeOnlySuspended
=============================================================================
