-------------------------------- MODULE Mutex --------------------------------
(***************************************************************************)
(* xcoro::mutex (mutex.hpp): an asynchronous mutex whose lock() suspends   *)
(* the coroutine instead of the thread, with ownership handed over in the  *)
(* order of the queue and waits that a cancellation_token can abandon.     *)
(*                                                                         *)
(* Each coroutine runs on a thread of its own choice, so coroutines        *)
(* interleave freely.  A coroutine that unlock() resumes may run before    *)
(* the resumer returns from resume(): every order of the nested execution  *)
(* in the code is one of the interleavings here.                           *)
(***************************************************************************)
EXTENDS CancellableWait, WaitQueue, SequencesExt

VARIABLES
  locked,   \* mutex::locked_
  waiters,  \* mutex::waiters_
  guard,    \* the coroutine inside unlock()'s critical section of mutex_
  waiter,   \* the waiter that unlock() has just claimed, while it has guard
  next      \* unlock()'s local variable next, after the critical section

lockVars == <<locked, waiters, guard, waiter, next>>
vars     == <<waitVars, lockVars>>

Points == WaitPoints \cup
            {"critical", "unlock", "unlock_pop", "unlock_wake", "unlock_resume"}

Init ==
  /\ WaitInit
  /\ locked = FALSE
  /\ waiters = <<>>
  /\ guard = NoCoro
  /\ waiter = NoWaiter
  /\ next = [c \in Coros |-> NoCoro]

-----------------------------------------------------------------------------
(* try_lock(), called by a coroutine that does not wait.                   *)
TryLock(c) ==
  /\ pc[c] = "idle"
  /\ guard = NoCoro
  /\ ~locked
  /\ locked' = TRUE
  /\ Goto(c, "critical")
  /\ UNCHANGED <<awaiterVars, waiterVars, cancelVars, waiters, guard, waiter, next>>

(* await_ready(): the try_lock() after the token check.                    *)
AwaitReady(c) ==
  /\ pc[c] = "try"
  /\ guard = NoCoro
  /\ locked' = TRUE
  /\ Goto(c, IF locked THEN "suspend" ELSE "resume")
  /\ UNCHANGED <<awaiterVars, waiterVars, cancelVars, waiters, guard, waiter, next>>

(* The addresses at which make_shared() may create a waiter_state: those   *)
(* nobody points to.  Which one it takes does not matter to the program.   *)
FreeWaiters == Waiters \ (AwaitReferences \cup ToSet(waiters) \cup {waiter})
NewAddress  == CHOOSE w \in FreeWaiters : TRUE

(* Mutants of EnqueueWaiter: the free lock is taken without setting        *)
(* locked_; locked_ is not read again; the queue is a stack.               *)
EnqueueWithoutLocking(c) ==
  /\ pc[c] = "enqueue" /\ guard = NoCoro
  /\ IF ~locked
       THEN /\ Goto(c, "resume")
            /\ UNCHANGED <<awaiterVars, waiterVars, cancelVars, waiters>>
       ELSE NewWaiter(c, NewAddress) /\ waiters' = Append(waiters, NewAddress)
  /\ UNCHANGED <<locked, guard, waiter, next>>

EnqueueWithoutRecheck(c) ==
  /\ pc[c] = "enqueue" /\ guard = NoCoro
  /\ NewWaiter(c, NewAddress)
  /\ waiters' = Append(waiters, NewAddress)
  /\ UNCHANGED <<locked, guard, waiter, next>>

EnqueueInFront(c) ==
  /\ pc[c] = "enqueue" /\ guard = NoCoro
  /\ locked' = TRUE
  /\ IF ~locked
       THEN /\ Goto(c, "resume")
            /\ UNCHANGED <<awaiterVars, waiterVars, cancelVars, waiters>>
       ELSE NewWaiter(c, NewAddress) /\ waiters' = <<NewAddress>> \o waiters
  /\ UNCHANGED <<guard, waiter, next>>

(* enqueue_waiter(): under mutex_, take the lock if it has been released   *)
(* since await_ready(), otherwise join the queue.                          *)
EnqueueWaiter(c) ==
  /\ pc[c] = "enqueue"
  /\ guard = NoCoro
  /\ \/ /\ ~locked
        /\ locked' = TRUE
        /\ Goto(c, "resume")
        /\ UNCHANGED <<awaiterVars, waiterVars, cancelVars, waiters>>
     \/ /\ locked
        /\ FreeWaiters # {}
        /\ NewWaiter(c, NewAddress)
        /\ waiters' = Append(waiters, NewAddress)
        /\ UNCHANGED locked
  /\ UNCHANGED <<guard, waiter, next>>

-----------------------------------------------------------------------------
(* unlock(), in the order of its accesses.                                 *)

(* The owner leaves its critical section and calls unlock().               *)
Unlock(c) ==
  /\ pc[c] = "critical"
  /\ Goto(c, "unlock")
  /\ UNCHANGED <<awaiterVars, waiterVars, cancelVars, lockVars>>

UnlockGuard(c) ==
  /\ pc[c] = "unlock"
  /\ guard = NoCoro
  /\ guard' = c
  /\ Goto(c, "unlock_pop")
  /\ UNCHANGED <<awaiterVars, waiterVars, cancelVars, locked, waiters, waiter, next>>

(* Mutants of UnlockPop: the answer of try_mark_resumed() is ignored; the  *)
(* loop stops at the first abandoned waiter.                               *)
UnlockPopAnyWaiter(c) ==
  /\ pc[c] = "unlock_pop"
  /\ IF waiters = <<>>
       THEN /\ locked' = FALSE /\ guard' = NoCoro /\ Goto(c, "idle")
            /\ UNCHANGED <<waiterVars, waiters, waiter>>
       ELSE /\ MarkResumed(Head(waiters)) /\ waiters' = Tail(waiters)
            /\ waiter' = Head(waiters) /\ Goto(c, "unlock_wake")
            /\ UNCHANGED <<handle, cancelled, phase, locked, guard>>
  /\ UNCHANGED <<awaiterVars, cancelVars, next>>

UnlockPopOnce(c) ==
  /\ pc[c] = "unlock_pop"
  /\ IF waiters = <<>> \/ resumed[Head(waiters)]
       THEN /\ locked' = FALSE /\ guard' = NoCoro /\ Goto(c, "idle")
            /\ waiters' = IF waiters = <<>> THEN <<>> ELSE Tail(waiters)
            /\ UNCHANGED <<waiterVars, waiter>>
       ELSE /\ MarkResumed(Head(waiters)) /\ waiters' = Tail(waiters)
            /\ waiter' = Head(waiters) /\ Goto(c, "unlock_wake")
            /\ UNCHANGED <<handle, cancelled, phase, locked, guard>>
  /\ UNCHANGED <<awaiterVars, cancelVars, next>>

(* One round of the loop: pop the head and claim it; a waiter that a       *)
(* cancellation has claimed is dropped.  With the queue empty the mutex    *)
(* becomes free.                                                           *)
UnlockPop(c) ==
  /\ pc[c] = "unlock_pop"
  /\ \/ /\ waiters = <<>>
        /\ locked' = FALSE
        /\ guard' = NoCoro
        /\ Goto(c, "idle")
        /\ UNCHANGED <<waiterVars, waiters, waiter>>
     \/ /\ waiters # <<>>
        /\ waiters' = Tail(waiters)
        /\ MarkResumed(Head(waiters))
        /\ IF resumed[Head(waiters)]
             THEN UNCHANGED <<pc, waiter>>
             ELSE waiter' = Head(waiters) /\ Goto(c, "unlock_wake")
        /\ UNCHANGED <<handle, cancelled, phase, locked, guard>>
  /\ UNCHANGED <<awaiterVars, cancelVars, next>>

(* should_resume_now(), and the end of the critical section.               *)
UnlockWake(c) ==
  /\ pc[c] = "unlock_wake"
  /\ RequestWake(waiter)
  /\ IF ShouldResumeNow(waiter)
       THEN /\ next' = [next EXCEPT ![c] = handle[waiter]]
            /\ Goto(c, "unlock_resume")
       ELSE /\ Goto(c, "idle")
            /\ UNCHANGED next
  /\ waiter' = NoWaiter
  /\ guard' = NoCoro
  /\ UNCHANGED <<awaiterVars, handle, resumed, cancelled, cancelVars, locked, waiters>>

(* next.resume(), outside the critical section.                            *)
UnlockResume(c) ==
  /\ pc[c] = "unlock_resume"
  /\ pc' = [pc EXCEPT ![c] = "idle", ![next[c]] = "resume"]
  /\ next' = [next EXCEPT ![c] = NoCoro]
  /\ UNCHANGED <<awaiterVars, waiterVars, cancelVars, locked, waiters, guard, waiter>>

UnlockStep(c) ==
  UnlockGuard(c) \/ UnlockPop(c) \/ UnlockWake(c) \/ UnlockResume(c)

-----------------------------------------------------------------------------
Lock(c)       == BeginWait(c) /\ UNCHANGED lockVars
LockAwait(c)  == AwaiterStep(c) /\ UNCHANGED lockVars
LockResume(c) == AwaitResume(c, "critical") /\ UNCHANGED lockVars

(* A step of the program after the decision to lock, unlock or cancel.     *)
CoroStep(c) ==
  \/ LockAwait(c) \/ AwaitReady(c) \/ EnqueueWaiter(c) \/ LockResume(c)
  \/ UnlockStep(c)

CancelRequest(c) == RequestCancellation(c) /\ UNCHANGED lockVars
CancellerStep(c) == CancelStep(c) /\ UNCHANGED lockVars

Next ==
  \E c \in Coros :
    \/ Lock(c) \/ TryLock(c) \/ Unlock(c) \/ CoroStep(c)
    \/ CancelRequest(c) \/ CancellerStep(c)

Spec == Init /\ [][Next]_vars

(* A running thread goes on, and critical sections of the program end;     *)
(* nobody has to ask for the lock or to cancel.                            *)
Fairness ==
  \A c \in Coros :
    /\ WF_vars(CoroStep(c))
    /\ WF_vars(Unlock(c))
    /\ WF_vars(CancellerStep(c))

FairSpec == Spec /\ Fairness

-----------------------------------------------------------------------------
(* c owns the mutex: it runs the critical section, has it to itself on its *)
(* way there without having queued, or was handed it through its waiter.   *)
Owner(c) ==
  \/ pc[c] \in {"critical", "unlock", "unlock_pop"}
  \/ pc[c] = "resume" /\ ~immediate[c] /\ state[c] = NoWaiter
  \/ Granted(c)

(* Every variable keeps the type its declaration in the code gives it, and *)
(* whatever is in the queue knows the coroutine to resume.                 *)
TypeOK ==
  /\ WaitTypeOK(Points)
  /\ locked \in BOOLEAN
  /\ waiters \in Seq(Waiters)
  /\ guard \in Coros \cup {NoCoro}
  /\ waiter \in Waiters \cup {NoWaiter}
  /\ next \in [Coros -> Coros \cup {NoCoro}]
  /\ \A w \in ToSet(waiters) : handle[w] # NoCoro

(* Two coroutines never own the mutex at once, whatever mixture of         *)
(* try_lock(), hand-over and cancellation made them owners: in particular  *)
(* a cancelled waiter that unlock() met never is one.                      *)
MutualExclusion ==
  \A c, d \in Coros : Owner(c) /\ Owner(d) => c = d

(* locked_ is set exactly while somebody owns the mutex: a hand-over to a  *)
(* waiter that is being cancelled never leaves it locked by nobody.        *)
LockedIffOwned == locked <=> \E c \in Coros : Owner(c)

(* While the mutex is free its queue holds abandoned waiters only, so that *)
(* try_lock() never barges past, or strands, a coroutine that waits.       *)
FreeMeansNobodyWaits ==
  ~locked => \A w \in ToSet(waiters) : resumed[w]

(* Whoever will resume the suspended coroutine c: the unlock() or the      *)
(* cancellation that has claimed its waiter.                               *)
Resumers(c) ==
  {<<"unlock", d>> : d \in {d \in Coros :
     next[d] = c \/ (guard = d /\ pc[d] = "unlock_wake" /\ waiter = state[c])}}
  \cup
  {<<"cancel", d>> : d \in {d \in Coros :
     kpc[d] \in {"cb_store", "cb_wake", "resume"} /\ kcb[d] = state[c]}}

(* A suspended coroutine either is still unclaimed in the queue, or has    *)
(* exactly one thread that is about to resume it; unlock(), the cancelling *)
(* thread and await_suspend() never both drop the wake-up, and never       *)
(* resume one suspension twice.                                            *)
OneResumerPerSuspension ==
  \A c \in Coros :
    pc[c] = "suspended" =>
      IF resumed[state[c]] THEN Cardinality(Resumers(c)) = 1
                           ELSE state[c] \in ToSet(waiters) /\ Resumers(c) = {}

(* Refinement: the owner, and the coroutines whose waiter is unclaimed.    *)
CurrentOwner ==
  IF \E c \in Coros : Owner(c) THEN CHOOSE c \in Coros : Owner(c) ELSE NoCoro

WaitingLine == Remaining(waiters, resumed, handle)

Abstract == INSTANCE FifoLock WITH
              Clients <- Coros, Nobody <- NoCoro,
              owner <- CurrentOwner, line <- WaitingLine,
              quitters <- {c \in Coros : TokenCancelled(c)}

(* The mutex implements a first-come first-served lock: it is never taken  *)
(* past a waiting coroutine, hand-over follows the order of arrival, and a *)
(* cancellation only ever takes its own coroutine out of the line.         *)
ImplementsFifoLock == Abstract!Spec

(* A coroutine that waits for the mutex gets it or is told of its          *)
(* cancellation, as long as owners unlock.                                 *)
EveryWaitEnds ==
  \A c \in Coros : pc[c] = "suspended" ~> pc[c] = "resume"

(* handle.resume() is only ever called on a coroutine that is suspended.   *)
ResumeOnlySuspended ==
  \A c \in Coros :
    /\ pc[c] = "unlock_resume" => pc[next[c]] = "suspended"
    /\ kpc[c] = "resume" => pc[handle[kcb[c]]] = "suspended"
=============================================================================
