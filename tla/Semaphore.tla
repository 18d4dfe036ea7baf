------------------------------ MODULE Semaphore ------------------------------
(***************************************************************************)
(* xcoro::counting_semaphore (semaphore.hpp).  A permit does not belong to *)
(* whoever acquired it: any coroutine may release any number of permits,   *)
(* as when the semaphore is used as a signal.  The waiting side is the     *)
(* same protocol as the mutex's.                                           *)
(*                                                                         *)
(* The runs bound the permits ever issued with MaxIssued.                  *)
(***************************************************************************)
EXTENDS CancellableWait, WaitQueue, SequencesExt

CONSTANTS InitialCount,   \* the constructor's argument
          LeastMaxValue,  \* max()
          Updates,        \* the arguments of release()
          MaxIssued       \* bound on the permits issued

ASSUME CountAssumption ==
  /\ InitialCount \in Nat /\ LeastMaxValue \in Nat /\ MaxIssued \in Nat
  /\ InitialCount <= LeastMaxValue
  /\ Updates \subseteq Nat \ {0}

(* A program has finitely many coroutines.                                 *)
ASSUME CorosAssumption == IsFiniteSet(Coros)

VARIABLES
  count,     \* counting_semaphore::count_
  waiters,   \* counting_semaphore::waiters_
  guard,     \* the coroutine inside release()'s critical section of mtx_
  waiter,    \* the waiter that release() has just claimed, while it has guard
  left,      \* update - i of the loop in release()
  toResume,  \* to_resume of release()
  issued,    \* permits ever released, and the initial ones (history)
  used,      \* permits whose acquire() has returned (history)
  dropped    \* permits lost because the count was at max() (history)

permitVars == <<issued, used, dropped>>
semVars    == <<count, waiters, guard, waiter, left, toResume, permitVars>>
vars       == <<waitVars, semVars>>

Points == WaitPoints \cup {"release", "release_loop", "release_wake", "release_resume"}

Init ==
  /\ WaitInit
  /\ count = InitialCount
  /\ waiters = <<>>
  /\ guard = NoCoro
  /\ waiter = NoWaiter
  /\ left = [c \in Coros |-> 0]
  /\ toResume = [c \in Coros |-> <<>>]
  /\ issued = InitialCount
  /\ used = 0
  /\ dropped = 0

-----------------------------------------------------------------------------
(* try_acquire(), called by a coroutine that does not wait.                *)
TryAcquire(c) ==
  /\ pc[c] = "idle"
  /\ guard = NoCoro
  /\ count > 0
  /\ count' = count - 1
  /\ used' = used + 1
  /\ UNCHANGED <<waitVars, waiters, guard, waiter, left, toResume, issued, dropped>>

(* await_ready(): the try_acquire() after the token check.                 *)
AwaitReady(c) ==
  /\ pc[c] = "try"
  /\ guard = NoCoro
  /\ \/ count > 0 /\ count' = count - 1 /\ Goto(c, "resume")
     \/ count = 0 /\ UNCHANGED count /\ Goto(c, "suspend")
  /\ UNCHANGED <<awaiterVars, waiterVars, cancelVars, waiters, guard, waiter,
                 left, toResume, permitVars>>

(* The addresses at which make_shared() may create a waiter_state.         *)
FreeWaiters == Waiters \ (AwaitReferences \cup ToSet(waiters) \cup {waiter})
NewAddress  == CHOOSE w \in FreeWaiters : TRUE

(* Mutant of EnqueueWaiter: the count is not read again.                   *)
EnqueueWithoutRecheck(c) ==
  /\ pc[c] = "enqueue" /\ guard = NoCoro
  /\ FreeWaiters # {}
  /\ NewWaiter(c, NewAddress) /\ waiters' = Append(waiters, NewAddress)
  /\ UNCHANGED <<count, guard, waiter, left, toResume, permitVars>>

(* enqueue_waiter(): take a permit released since await_ready(), or queue. *)
EnqueueWaiter(c) ==
  /\ pc[c] = "enqueue"
  /\ guard = NoCoro
  /\ \/ /\ count > 0
        /\ count' = count - 1
        /\ Goto(c, "resume")
        /\ UNCHANGED <<awaiterVars, waiterVars, cancelVars, waiters>>
     \/ /\ count = 0
        /\ FreeWaiters # {}
        /\ NewWaiter(c, NewAddress)
        /\ waiters' = Append(waiters, NewAddress)
        /\ UNCHANGED count
  /\ UNCHANGED <<guard, waiter, left, toResume, permitVars>>

(* await_resume(): acquire() throws, or its permit counts as used.         *)
AcquireResume(c) ==
  /\ AwaitResume(c, "idle")
  /\ used' = IF Throws(c) THEN used ELSE used + 1
  /\ UNCHANGED <<count, waiters, guard, waiter, left, toResume, issued, dropped>>

-----------------------------------------------------------------------------
(* release(update), in the order of its accesses.                          *)
Release(c) ==
  /\ pc[c] = "idle"
  /\ \E update \in Updates :
       /\ issued + update <= MaxIssued
       /\ left' = [left EXCEPT ![c] = update]
       /\ issued' = issued + update
  /\ Goto(c, "release")
  /\ UNCHANGED <<awaiterVars, waiterVars, cancelVars, count, waiters, guard,
                 waiter, toResume, used, dropped>>

ReleaseGuard(c) ==
  /\ pc[c] = "release"
  /\ guard = NoCoro
  /\ guard' = c
  /\ Goto(c, "release_loop")
  /\ UNCHANGED <<awaiterVars, waiterVars, cancelVars, count, waiters, waiter,
                 left, toResume, permitVars>>

(* Nobody waits: the permit is stored, or dropped if the count is at       *)
(* max() (the assertion there is compiled out with NDEBUG).                *)
StorePermit(c) ==
  /\ waiters = <<>>
  /\ left' = [left EXCEPT ![c] = @ - 1]
  /\ IF count = LeastMaxValue
       THEN dropped' = dropped + 1 /\ UNCHANGED count
       ELSE count' = count + 1 /\ UNCHANGED dropped
  /\ UNCHANGED <<pc, waiters, waiter, waiterVars>>

(* Mutant of ClaimWaiter: the youngest waiter is served.                   *)
ClaimLastWaiter(c) ==
  /\ waiters # <<>>
  /\ waiters' = Front(waiters)
  /\ MarkResumed(Last(waiters))
  /\ IF resumed[Last(waiters)]
       THEN UNCHANGED <<pc, waiter>>
       ELSE waiter' = Last(waiters) /\ Goto(c, "release_wake")
  /\ UNCHANGED <<left, handle, cancelled, phase, count, dropped>>

(* Mutant of ClaimWaiter: a cancelled waiter uses up the permit.           *)
ClaimAnyWaiter(c) ==
  /\ waiters # <<>>
  /\ waiters' = Tail(waiters)
  /\ MarkResumed(Head(waiters))
  /\ waiter' = Head(waiters) /\ Goto(c, "release_wake")
  /\ UNCHANGED <<left, handle, cancelled, phase, count, dropped>>

(* The head of the queue is popped and claimed, or dropped if a            *)
(* cancellation has claimed it.                                            *)
ClaimWaiter(c) ==
  /\ waiters # <<>>
  /\ waiters' = Tail(waiters)
  /\ MarkResumed(Head(waiters))
  /\ IF resumed[Head(waiters)]
       THEN UNCHANGED <<pc, waiter>>
       ELSE waiter' = Head(waiters) /\ Goto(c, "release_wake")
  /\ UNCHANGED <<left, handle, cancelled, phase, count, dropped>>

ReleaseLoop(c) ==
  /\ pc[c] = "release_loop"
  /\ left[c] > 0
  /\ StorePermit(c) \/ ClaimWaiter(c)
  /\ UNCHANGED <<awaiterVars, cancelVars, guard, toResume, issued, used>>

(* should_resume_now() of the claimed waiter, which uses one permit.       *)
ReleaseWake(c) ==
  /\ pc[c] = "release_wake"
  /\ RequestWake(waiter)
  /\ toResume' = IF ShouldResumeNow(waiter)
                   THEN [toResume EXCEPT ![c] = Append(@, handle[waiter])] ELSE toResume
  /\ left' = [left EXCEPT ![c] = @ - 1]
  /\ waiter' = NoWaiter
  /\ Goto(c, "release_loop")
  /\ UNCHANGED <<awaiterVars, handle, resumed, cancelled, cancelVars, count,
                 waiters, guard, permitVars>>

ReleaseUnguard(c) ==
  /\ pc[c] = "release_loop"
  /\ left[c] = 0
  /\ guard' = NoCoro
  /\ Goto(c, "release_resume")
  /\ UNCHANGED <<awaiterVars, waiterVars, cancelVars, count, waiters, waiter,
                 left, toResume, permitVars>>

(* h.resume() for each handle of to_resume, outside the critical section.  *)
ReleaseResume(c) ==
  /\ pc[c] = "release_resume"
  /\ \/ /\ toResume[c] = <<>>
        /\ Goto(c, "idle")
        /\ UNCHANGED toResume
     \/ /\ toResume[c] # <<>>
        /\ Goto(Head(toResume[c]), "resume")
        /\ toResume' = [toResume EXCEPT ![c] = Tail(@)]
  /\ UNCHANGED <<awaiterVars, waiterVars, cancelVars, count, waiters, guard,
                 waiter, left, permitVars>>

ReleaseStep(c) ==
  \/ ReleaseGuard(c) \/ ReleaseLoop(c) \/ ReleaseWake(c)
  \/ ReleaseUnguard(c) \/ ReleaseResume(c)

-----------------------------------------------------------------------------
Acquire(c)      == BeginWait(c) /\ UNCHANGED semVars
AcquireAwait(c) == AwaiterStep(c) /\ UNCHANGED semVars

CoroStep(c) ==
  \/ AcquireAwait(c) \/ AwaitReady(c) \/ EnqueueWaiter(c) \/ AcquireResume(c)
  \/ ReleaseStep(c)

CancelRequest(c) == RequestCancellation(c) /\ UNCHANGED semVars
CancellerStep(c) == CancelStep(c) /\ UNCHANGED semVars

Next ==
  \E c \in Coros :
    \/ Acquire(c) \/ TryAcquire(c) \/ Release(c) \/ CoroStep(c)
    \/ CancelRequest(c) \/ CancellerStep(c)

Spec == Init /\ [][Next]_vars

(* A running thread goes on; nobody has to acquire, release or cancel.     *)
FairSpec ==
  Spec /\ \A c \in Coros : WF_vars(CoroStep(c)) /\ WF_vars(CancellerStep(c))

-----------------------------------------------------------------------------
(* c has a permit that its acquire() has not returned yet: taken from the  *)
(* count without queueing, or handed over through its waiter.              *)
HasPermit(c) ==
  \/ pc[c] = "resume" /\ ~immediate[c] /\ state[c] = NoWaiter
  \/ Granted(c)

(* The permits release() has still to give away; the one whose waiter it   *)
(* has claimed is the waiter's already.                                    *)
Unreleased ==
  [c \in Coros |-> left[c] - (IF pc[c] = "release_wake" THEN 1 ELSE 0)]

(* The types of the code's variables; the count stays within its limits.   *)
TypeOK ==
  /\ WaitTypeOK(Points)
  /\ count \in 0..LeastMaxValue
  /\ waiters \in Seq(Waiters)
  /\ guard \in Coros \cup {NoCoro}
  /\ waiter \in Waiters \cup {NoWaiter}
  /\ left \in [Coros -> Nat]
  /\ toResume \in [Coros -> Seq(Coros)]
  /\ issued \in Nat /\ used \in Nat /\ dropped \in Nat

(* Every permit ever issued is in the count, in the hands of a release(),  *)
(* of one acquire(), was used, or was dropped at max(): cancellation       *)
(* neither loses one nor hands one out twice.                              *)
PermitsConserved ==
  issued = count + used + dropped
             + Cardinality({c \in Coros : HasPermit(c)})
             + SumFunction(Unreleased)

(* A permit is stored only when no coroutine waits, so nobody waits while  *)
(* try_acquire() would succeed.                                            *)
PermitMeansNobodyWaits ==
  count > 0 => \A w \in ToSet(waiters) : resumed[w]

(* Whoever will resume the suspended coroutine c.                          *)
Resumers(c) ==
  {<<"release", d>> : d \in {d \in Coros :
     \/ c \in ToSet(toResume[d])
     \/ guard = d /\ pc[d] = "release_wake" /\ waiter = state[c]}}
  \cup
  {<<"cancel", d>> : d \in {d \in Coros :
     kpc[d] \in {"cb_store", "cb_wake", "resume"} /\ kcb[d] = state[c]}}

(* A suspended coroutine is unclaimed in the queue or about to be resumed  *)
(* by exactly one thread, also when one release() claims several waiters.  *)
OneResumerPerSuspension ==
  \A c \in Coros :
    pc[c] = "suspended" =>
      IF resumed[state[c]] THEN Cardinality(Resumers(c)) = 1
                           ELSE state[c] \in ToSet(waiters) /\ Resumers(c) = {}

(* handle.resume() is only ever called on a coroutine that is suspended,   *)
(* and to_resume holds no coroutine twice.                                 *)
ResumeOnlySuspended ==
  \A c \in Coros :
    /\ pc[c] = "release_resume" =>
         /\ IsInjective(toResume[c])
         /\ \A d \in ToSet(toResume[c]) : pc[d] = "suspended"
    /\ kpc[c] = "resume" => pc[handle[kcb[c]]] = "suspended"

(* Refinement: the coroutines whose waiter is unclaimed, in queue order.   *)
WaitingLine == Remaining(waiters, resumed, handle)

Abstract == INSTANCE FifoSemaphore WITH
              Clients <- Coros, Initial <- InitialCount,
              Maximum <- LeastMaxValue, permits <- count, line <- WaitingLine,
              granted <- {c \in Coros : HasPermit(c)},
              quitters <- {c \in Coros : TokenCancelled(c)}

(* The semaphore implements a first-come first-served one: nobody acquires *)
(* past a waiting coroutine, permits are handed out in the order of        *)
(* arrival, and a cancellation only takes its own coroutine out of line.   *)
ImplementsFifoSemaphore == Abstract!Spec

(* A waiter that somebody has claimed, to hand it a permit or to cancel    *)
(* it, is resumed.                                                         *)
ClaimedWaiterResumes ==
  \A c \in Coros :
    (pc[c] = "suspended" /\ resumed[state[c]]) ~> pc[c] = "resume"

(* What holds of the count and of the waiters in every state: nobody waits *)
(* past a stored permit, each suspension has its one resumer, and nobody   *)
(* is resumed who is not suspended.                                        *)
SemaphoreInvariant ==
  /\ TypeOK
  /\ PermitMeansNobodyWaits
  /\ OneResumerPerSuspension
  /\ ResumeOnlySuspended
=============================================================================
