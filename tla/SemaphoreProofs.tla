---------------------------- MODULE SemaphoreProofs ----------------------------
(***************************************************************************)
(* Proofs about xcoro::counting_semaphore for any coroutines, cancellation *)
(* sources and waiter addresses, any initial count and maximum and any     *)
(* arguments of release().  The inductive invariant is the mutex's, except *)
(* that one release() may claim several waiters before it resumes the      *)
(* first: it has to say that its list of handles never overlaps another    *)
(* one, and that the waiter in its hands is in none of them.  Then come    *)
(* the permits: the ledger of PermitsConserved is itself inductive, given  *)
(* that invariant and that release() has nothing left to give away outside *)
(* its loop.  The last part shows that every step is one of the            *)
(* first-come first-served semaphore, or not seen by it.                   *)
(***************************************************************************)
EXTENDS Semaphore, DataLemmas

(* Points between the creation of a waiter and the end of its suspension.  *)
Waiting == {"register", "cb_mark", "cb_store", "cb_wake", "mark", "suspended"}

(* At most one thread is inside release()'s critical section; the waiter   *)
(* it has claimed is there, and so is the permit for it.                   *)
GuardInv ==
  \A c \in Coros :
    /\ pc[c] \in {"release_loop", "release_wake"} => guard = c
    /\ pc[c] = "release_wake" => waiter # NoWaiter /\ left[c] > 0

(* A coroutine has a waiter exactly while it waits; its callback and its   *)
(* canceller only ever hold waiters it made.                               *)
OwnWaiterInv ==
  \A c \in Coros :
    /\ pc[c] \in Waiting => state[c] # NoWaiter
    /\ state[c] # NoWaiter =>
         pc[c] \in Waiting \cup {"resume"} /\ handle[state[c]] = c
    /\ immediate[c] => pc[c] = "resume" /\ state[c] = NoWaiter
    /\ callback[c] # NoWaiter => handle[callback[c]] = c
    /\ kcb[c] # NoWaiter => handle[kcb[c]] = c
    /\ kpc[c] \in {"cb_mark", "cb_store", "cb_wake", "resume"} => kcb[c] # NoWaiter

(* The suspend_phase of a waiter agrees with its coroutine; nobody goes on *)
(* from a wait, and no wake-up is requested, before the waiter is claimed. *)
PhaseInv ==
  /\ \A w \in Waiters : cancelled[w] => resumed[w]
  /\ \A c \in Coros : state[c] # NoWaiter =>
       /\ phase[state[c]] = "wake_requested" => resumed[state[c]]
       /\ pc[c] = "suspended" => phase[state[c]] = "suspended"
       /\ phase[state[c]] = "suspended" => pc[c] \in {"suspended", "resume"}
       /\ pc[c] = "resume" => resumed[state[c]]

(* An unclaimed waiter somebody can still reach is the one its coroutine   *)
(* waits with.                                                             *)
UnclaimedInv ==
  /\ \A w \in ToSet(waiters) : handle[w] \in Coros /\ (~resumed[w] => state[handle[w]] = w)
  /\ \A c \in Coros :
       /\ callback[c] # NoWaiter /\ ~resumed[callback[c]] => state[c] = callback[c]
       /\ kcb[c] # NoWaiter /\ ~resumed[kcb[c]] => state[c] = kcb[c]

(* A callback that has claimed a waiter has it to itself until it has      *)
(* requested the wake-up.                                                  *)
CancelInv ==
  \A c \in Coros :
    /\ pc[c] \in {"cb_store", "cb_wake"} =>
         resumed[state[c]] /\ phase[state[c]] = "waiting_await_suspend"
    /\ pc[c] = "cb_wake" => cancelled[state[c]]
    /\ callback[c] # NoWaiter /\ callback[c] = state[c] =>
         pc[c] \in {"mark", "suspended", "resume"}
    /\ kcb[c] # NoWaiter /\ kcb[c] = state[c] =>
         pc[c] \in {"mark", "suspended", "resume"}
    /\ kpc[c] \in {"cb_store", "cb_wake"} =>
         /\ resumed[kcb[c]] /\ state[c] = kcb[c]
         /\ phase[kcb[c]] # "wake_requested"
         /\ pc[c] \in {"mark", "suspended"}
    /\ kpc[c] = "cb_wake" => cancelled[kcb[c]]
    /\ kpc[c] = "resume" =>
         state[c] = kcb[c] /\ pc[c] = "suspended" /\ cancelled[kcb[c]]

(* The coroutine whose waiter release() has just claimed has the permit,   *)
(* and nobody is going to resume it yet.                                   *)
ClaimInv ==
  \A d \in Coros : pc[d] = "release_wake" =>
    /\ handle[waiter] \in Coros
    /\ state[handle[waiter]] = waiter
    /\ Granted(handle[waiter])
    /\ phase[waiter] # "wake_requested"
    /\ pc[handle[waiter]] # "resume"
    /\ \A e \in Coros : handle[waiter] \notin ToSet(toResume[e])

(* A coroutine of to_resume has a permit and is suspended, and it is in no *)
(* other place of any to_resume.                                           *)
ResumeInv ==
  \A d \in Coros :
    /\ pc[d] \notin {"release_loop", "release_wake", "release_resume"} => toResume[d] = <<>>
    /\ IsInjective(toResume[d])
    /\ \A c \in ToSet(toResume[d]) :
         /\ pc[c] = "suspended" /\ Granted(c)
         /\ \A e \in Coros \ {d} : c \notin ToSet(toResume[e])

(* A thread that has claimed c's waiter and is on its way to wake c.       *)
ReleaseWakes(c)   == \E d \in Coros : pc[d] = "release_wake" /\ waiter = state[c]
ReleaseResumes(c) == \E d \in Coros : c \in ToSet(toResume[d])
CancelWakes(c)    == kpc[c] \in {"cb_store", "cb_wake", "resume"} /\ kcb[c] = state[c]

(* Nobody's waiter leaves the queue unclaimed.                             *)
QueuedInv ==
  \A c \in Coros : state[c] # NoWaiter /\ ~resumed[state[c]] => state[c] \in ToSet(waiters)

(* A waiter that is claimed is being woken, or its wake-up has been        *)
(* requested, or its coroutine goes on.                                    *)
WokenInv ==
  \A c \in Coros : state[c] # NoWaiter /\ resumed[state[c]] =>
    \/ pc[c] \in {"resume", "cb_store", "cb_wake"}
    \/ phase[state[c]] = "wake_requested"
    \/ ReleaseWakes(c) \/ ReleaseResumes(c) \/ CancelWakes(c)

(* The inductive invariant: every part holds in every reachable state.     *)
SemaphoreInductive ==
  /\ TypeOK
  /\ GuardInv
  /\ OwnWaiterInv
  /\ PhaseInv
  /\ UnclaimedInv
  /\ CancelInv
  /\ ClaimInv
  /\ ResumeInv
  /\ QueuedInv
  /\ WokenInv
  /\ PermitMeansNobodyWaits

-----------------------------------------------------------------------------
(* The address of a new waiter is one that nothing refers to.              *)
LEMMA NewAddressIsFree ==
  ASSUME FreeWaiters # {}
  PROVE  /\ NewAddress \in Waiters
         /\ NewAddress \notin ToSet(waiters) /\ NewAddress # waiter
         /\ \A c \in Coros : /\ state[c] # NewAddress /\ callback[c] # NewAddress
                             /\ kcb[c] # NewAddress
  BY DEF NewAddress, FreeWaiters, AwaitReferences

(* The invariant holds of a new semaphore.                                 *)
LEMMA InvariantInit == Init => SemaphoreInductive
<1> SUFFICES ASSUME Init PROVE SemaphoreInductive
  OBVIOUS
<1> USE DEF Init, WaitInit
<1>1. WaitTypeOK(Points)
  BY DEF WaitTypeOK, Points, WaitPoints, CancelPoints, Phases
<1>2. TypeOK
  <2>1. <<>> \in Seq(Waiters) /\ <<>> \in Seq(Coros)
    OBVIOUS
  <2>2. count \in 0..LeastMaxValue /\ issued \in Nat
    BY CountAssumption
  <2> QED BY <1>1, <2>2 DEF TypeOK
<1>3. GuardInv /\ OwnWaiterInv /\ PhaseInv /\ CancelInv /\ ClaimInv
  BY DEF GuardInv, OwnWaiterInv, PhaseInv, CancelInv, ClaimInv, Waiting
<1>4. UnclaimedInv /\ QueuedInv /\ WokenInv /\ PermitMeansNobodyWaits
  BY ToSetEmpty DEF UnclaimedInv, QueuedInv, WokenInv, PermitMeansNobodyWaits
<1>5. ResumeInv
  <2>1. IsInjective(<<>>)
    BY DEF IsInjective
  <2> QED BY <2>1, ToSetEmpty DEF ResumeInv
<1> QED BY <1>2, <1>3, <1>4, <1>5 DEF SemaphoreInductive

(* The coroutine whose waiter release() has just claimed is inside its     *)
(* wait.                                                                   *)
LEMMA ClaimedWaits ==
  ASSUME ClaimInv, GuardInv, OwnWaiterInv, NEW d \in Coros, pc[d] = "release_wake"
  PROVE  pc[handle[waiter]] \in {"register", "cb_mark", "cb_store", "cb_wake", "mark",
                                 "suspended", "resume"}
<1>1. /\ handle[waiter] \in Coros /\ state[handle[waiter]] = waiter
      /\ waiter # NoWaiter
  BY DEF ClaimInv, GuardInv
<1> QED BY <1>1 DEF OwnWaiterInv, Waiting

(* The invariant is inductive: one step per action (or branch of one), and *)
(* under it what the action changes (<2>0), then a step per part.          *)
LEMMA InvariantStep ==
  ASSUME SemaphoreInductive, [Next]_vars
  PROVE  SemaphoreInductive'
<1> USE DEF SemaphoreInductive, TypeOK, WaitTypeOK
<1>1. ASSUME NEW c \in Coros, Acquire(c)
      PROVE  SemaphoreInductive'
  <2>0. /\ pc[c] = "idle" /\ pc' = [pc EXCEPT ![c] = "ready"]
        /\ withToken' \in [Coros -> BOOLEAN]
        /\ UNCHANGED <<state, immediate, handle, resumed, cancelled, phase,
             requested, callback, kpc, kcb, count, waiters, guard, waiter,
             left, toResume, issued, used, dropped>>
    BY <1>1
       DEF Acquire, BeginWait, Goto, KGoto, semVars, permitVars, waitVars,
           awaiterVars, waiterVars, cancelVars
  <2>2. TypeOK'
    BY <2>0 DEF Points, WaitPoints
  <2>3. GuardInv'
    BY <2>0 DEF GuardInv
  <2>4. OwnWaiterInv'
    BY <2>0 DEF OwnWaiterInv, Waiting
  <2>5. PhaseInv'
    BY <2>0 DEF PhaseInv
  <2>6. UnclaimedInv' /\ QueuedInv' /\ PermitMeansNobodyWaits'
    BY <2>0 DEF UnclaimedInv, QueuedInv, PermitMeansNobodyWaits
  <2>7. CancelInv'
    BY <2>0 DEF CancelInv
  <2>8. ClaimInv'
    BY <2>0 DEF ClaimInv, Granted, CancelClaimed
  <2>9. ResumeInv'
    BY <2>0 DEF ResumeInv, GuardInv, Granted, CancelClaimed
  <2>11. WokenInv'
    <3>1. \A f \in Coros : /\ ReleaseWakes(f) => ReleaseWakes(f)'
                           /\ ReleaseResumes(f) => ReleaseResumes(f)'
                           /\ CancelWakes(f) => CancelWakes(f)'
      BY <2>0 DEF ReleaseWakes, ReleaseResumes, CancelWakes
    <3> QED
      BY <2>0, <3>1 DEF WokenInv
  <2> QED BY <2>2, <2>3, <2>4, <2>5, <2>6, <2>7, <2>8, <2>9, <2>11
       DEF SemaphoreInductive
<1>2. ASSUME NEW c \in Coros, TryAcquire(c)
      PROVE  SemaphoreInductive'
  <2>0. /\ guard = NoCoro
        /\ UNCHANGED <<pc, state, withToken, immediate, handle, resumed,
             cancelled, phase, requested, callback, kpc, kcb, waiters, guard,
             waiter, left, toResume, issued, dropped>>
    BY <1>2
       DEF TryAcquire, Goto, KGoto, semVars, permitVars, waitVars, awaiterVars,
           waiterVars, cancelVars
  <2>1. count > 0 /\ count' \in 0..LeastMaxValue /\ used' \in Nat
    BY <1>2, CountAssumption DEF TryAcquire, semVars, permitVars
  <2>2. TypeOK'
    BY <2>0, <2>1
  <2>3. /\ GuardInv' /\ OwnWaiterInv' /\ PhaseInv' /\ UnclaimedInv'
        /\ CancelInv' /\ ClaimInv' /\ ResumeInv' /\ QueuedInv'
        /\ WokenInv'
    BY <2>0
       DEF GuardInv, OwnWaiterInv, PhaseInv, UnclaimedInv, CancelInv, ClaimInv,
           Granted, CancelClaimed, ResumeInv, QueuedInv, WokenInv, ReleaseWakes,
           ReleaseResumes, CancelWakes
  <2>12. PermitMeansNobodyWaits'
    BY <2>0, <2>1 DEF PermitMeansNobodyWaits
  <2> QED BY <2>2, <2>3, <2>12 DEF SemaphoreInductive
<1>3. ASSUME NEW c \in Coros, AwaitReadyToken(c), TokenCancelled(c), UNCHANGED semVars
      PROVE  SemaphoreInductive'
  <2>0. /\ pc[c] = "ready" /\ pc' = [pc EXCEPT ![c] = "resume"]
        /\ immediate' = [immediate EXCEPT ![c] = TRUE]
        /\ UNCHANGED <<state, withToken, handle, resumed, cancelled, phase,
             requested, callback, kpc, kcb, count, waiters, guard, waiter,
             left, toResume, issued, used, dropped>>
    BY <1>3
       DEF AwaitReadyToken, CheckToken, Goto, KGoto, semVars, permitVars, waitVars,
           awaiterVars, waiterVars, cancelVars
  <2>2. TypeOK'
    BY <2>0 DEF Points, WaitPoints
  <2>3. GuardInv'
    BY <2>0 DEF GuardInv
  <2>4. OwnWaiterInv'
    BY <2>0 DEF OwnWaiterInv, Waiting
  <2>5. PhaseInv'
    <3>1. state[c] = NoWaiter
      BY <2>0 DEF OwnWaiterInv, Waiting
    <3> QED BY <2>0, <3>1 DEF PhaseInv
  <2>6. UnclaimedInv' /\ QueuedInv' /\ PermitMeansNobodyWaits'
    BY <2>0 DEF UnclaimedInv, QueuedInv, PermitMeansNobodyWaits
  <2>7. CancelInv'
    BY <2>0 DEF CancelInv
  <2>8. ClaimInv'
    <3>1. \A e \in Coros : Granted(e) => Granted(e)'
      BY <2>0 DEF Granted, CancelClaimed
    <3>2. \A d \in Coros : pc[d] = "release_wake" => handle[waiter] # c
      BY <2>0, ClaimedWaits
    <3> QED BY <2>0, <3>1, <3>2 DEF ClaimInv
  <2>9. ResumeInv'
    BY <2>0, NullAssumption
       DEF ResumeInv, OwnWaiterInv, GuardInv, Granted, CancelClaimed
  <2>11. WokenInv'
    <3>1. \A f \in Coros : /\ ReleaseWakes(f) => ReleaseWakes(f)'
                           /\ ReleaseResumes(f) => ReleaseResumes(f)'
                           /\ CancelWakes(f) => CancelWakes(f)'
      BY <2>0 DEF ReleaseWakes, ReleaseResumes, CancelWakes
    <3> QED
      BY <2>0, <3>1 DEF WokenInv
  <2> QED BY <2>2, <2>3, <2>4, <2>5, <2>6, <2>7, <2>8, <2>9, <2>11
       DEF SemaphoreInductive
<1>4. ASSUME NEW c \in Coros, AwaitReadyToken(c), ~TokenCancelled(c), UNCHANGED semVars
      PROVE  SemaphoreInductive'
  <2>0. /\ pc[c] = "ready" /\ pc' = [pc EXCEPT ![c] = "try"]
        /\ immediate' = [immediate EXCEPT ![c] = FALSE]
        /\ UNCHANGED <<state, withToken, handle, resumed, cancelled, phase,
             requested, callback, kpc, kcb, count, waiters, guard, waiter,
             left, toResume, issued, used, dropped>>
    BY <1>4
       DEF AwaitReadyToken, CheckToken, TokenCancelled, Goto, KGoto, semVars,
           permitVars, waitVars, awaiterVars, waiterVars, cancelVars
  <2>2. TypeOK'
    BY <2>0 DEF Points, WaitPoints
  <2>3. GuardInv'
    BY <2>0 DEF GuardInv
  <2>4. OwnWaiterInv'
    BY <2>0 DEF OwnWaiterInv, Waiting
  <2>5. PhaseInv'
    BY <2>0 DEF PhaseInv
  <2>6. UnclaimedInv' /\ QueuedInv' /\ PermitMeansNobodyWaits'
    BY <2>0 DEF UnclaimedInv, QueuedInv, PermitMeansNobodyWaits
  <2>7. CancelInv'
    BY <2>0 DEF CancelInv
  <2>8. ClaimInv'
    BY <2>0 DEF ClaimInv, Granted, CancelClaimed
  <2>9. ResumeInv'
    BY <2>0, NullAssumption
       DEF ResumeInv, OwnWaiterInv, GuardInv, Granted, CancelClaimed
  <2>11. WokenInv'
    <3>1. \A f \in Coros : /\ ReleaseWakes(f) => ReleaseWakes(f)'
                           /\ ReleaseResumes(f) => ReleaseResumes(f)'
                           /\ CancelWakes(f) => CancelWakes(f)'
      BY <2>0 DEF ReleaseWakes, ReleaseResumes, CancelWakes
    <3> QED
      BY <2>0, <3>1 DEF WokenInv
  <2> QED BY <2>2, <2>3, <2>4, <2>5, <2>6, <2>7, <2>8, <2>9, <2>11
       DEF SemaphoreInductive
<1>5. ASSUME NEW c \in Coros, AwaitSuspendToken(c), TokenCancelled(c), UNCHANGED semVars
      PROVE  SemaphoreInductive'
  <2>0. /\ pc[c] = "suspend" /\ pc' = [pc EXCEPT ![c] = "resume"]
        /\ immediate' = [immediate EXCEPT ![c] = TRUE]
        /\ UNCHANGED <<state, withToken, handle, resumed, cancelled, phase,
             requested, callback, kpc, kcb, count, waiters, guard, waiter,
             left, toResume, issued, used, dropped>>
    BY <1>5
       DEF AwaitSuspendToken, CheckToken, Goto, KGoto, semVars, permitVars,
           waitVars, awaiterVars, waiterVars, cancelVars
  <2>2. TypeOK'
    BY <2>0 DEF Points, WaitPoints
  <2>3. GuardInv'
    BY <2>0 DEF GuardInv
  <2>4. OwnWaiterInv'
    BY <2>0 DEF OwnWaiterInv, Waiting
  <2>5. PhaseInv'
    <3>1. state[c] = NoWaiter
      BY <2>0 DEF OwnWaiterInv, Waiting
    <3> QED BY <2>0, <3>1 DEF PhaseInv
  <2>6. UnclaimedInv' /\ QueuedInv' /\ PermitMeansNobodyWaits'
    BY <2>0 DEF UnclaimedInv, QueuedInv, PermitMeansNobodyWaits
  <2>7. CancelInv'
    BY <2>0 DEF CancelInv
  <2>8. ClaimInv'
    <3>1. \A e \in Coros : Granted(e) => Granted(e)'
      BY <2>0 DEF Granted, CancelClaimed
    <3>2. \A d \in Coros : pc[d] = "release_wake" => handle[waiter] # c
      BY <2>0, ClaimedWaits
    <3> QED BY <2>0, <3>1, <3>2 DEF ClaimInv
  <2>9. ResumeInv'
    BY <2>0 DEF ResumeInv, GuardInv, Granted, CancelClaimed
  <2>11. WokenInv'
    <3>1. \A f \in Coros : /\ ReleaseWakes(f) => ReleaseWakes(f)'
                           /\ ReleaseResumes(f) => ReleaseResumes(f)'
                           /\ CancelWakes(f) => CancelWakes(f)'
      BY <2>0 DEF ReleaseWakes, ReleaseResumes, CancelWakes
    <3> QED
      BY <2>0, <3>1 DEF WokenInv
  <2> QED BY <2>2, <2>3, <2>4, <2>5, <2>6, <2>7, <2>8, <2>9, <2>11
       DEF SemaphoreInductive
<1>6. ASSUME NEW c \in Coros, AwaitSuspendToken(c), ~TokenCancelled(c), UNCHANGED semVars
      PROVE  SemaphoreInductive'
  <2>0. /\ pc[c] = "suspend" /\ pc' = [pc EXCEPT ![c] = "enqueue"]
        /\ immediate' = [immediate EXCEPT ![c] = FALSE]
        /\ UNCHANGED <<state, withToken, handle, resumed, cancelled, phase,
             requested, callback, kpc, kcb, count, waiters, guard, waiter,
             left, toResume, issued, used, dropped>>
    BY <1>6
       DEF AwaitSuspendToken, CheckToken, TokenCancelled, Goto, KGoto, semVars,
           permitVars, waitVars, awaiterVars, waiterVars, cancelVars
  <2>2. TypeOK'
    BY <2>0 DEF Points, WaitPoints
  <2>3. GuardInv'
    BY <2>0 DEF GuardInv
  <2>4. OwnWaiterInv'
    BY <2>0 DEF OwnWaiterInv, Waiting
  <2>5. PhaseInv'
    BY <2>0 DEF PhaseInv
  <2>6. UnclaimedInv' /\ QueuedInv' /\ PermitMeansNobodyWaits'
    BY <2>0 DEF UnclaimedInv, QueuedInv, PermitMeansNobodyWaits
  <2>7. CancelInv'
    BY <2>0 DEF CancelInv
  <2>8. ClaimInv'
    BY <2>0 DEF ClaimInv, Granted, CancelClaimed
  <2>9. ResumeInv'
    BY <2>0 DEF ResumeInv, GuardInv, Granted, CancelClaimed
  <2>11. WokenInv'
    <3>1. \A f \in Coros : /\ ReleaseWakes(f) => ReleaseWakes(f)'
                           /\ ReleaseResumes(f) => ReleaseResumes(f)'
                           /\ CancelWakes(f) => CancelWakes(f)'
      BY <2>0 DEF ReleaseWakes, ReleaseResumes, CancelWakes
    <3> QED
      BY <2>0, <3>1 DEF WokenInv
  <2> QED BY <2>2, <2>3, <2>4, <2>5, <2>6, <2>7, <2>8, <2>9, <2>11
       DEF SemaphoreInductive
<1>7. ASSUME NEW c \in Coros, Register(c), requested[c], UNCHANGED semVars
      PROVE  SemaphoreInductive'
  <2>0. /\ pc[c] = "register" /\ pc' = [pc EXCEPT ![c] = "cb_mark"]
        /\ UNCHANGED <<state, withToken, immediate, handle, resumed,
             cancelled, phase, requested, callback, kpc, kcb, count, waiters,
             guard, waiter, left, toResume, issued, used, dropped>>
    BY <1>7
       DEF Register, Goto, KGoto, semVars, permitVars, waitVars, awaiterVars,
           waiterVars, cancelVars
  <2>2. TypeOK'
    BY <2>0 DEF Points, WaitPoints
  <2>3. GuardInv'
    BY <2>0 DEF GuardInv
  <2>4. OwnWaiterInv'
    BY <2>0 DEF OwnWaiterInv, Waiting
  <2>5. PhaseInv'
    BY <2>0 DEF PhaseInv
  <2>6. UnclaimedInv' /\ QueuedInv' /\ PermitMeansNobodyWaits'
    BY <2>0 DEF UnclaimedInv, QueuedInv, PermitMeansNobodyWaits
  <2>7. CancelInv'
    BY <2>0 DEF CancelInv
  <2>8. ClaimInv'
    BY <2>0 DEF ClaimInv, Granted, CancelClaimed
  <2>9. ResumeInv'
    BY <2>0 DEF ResumeInv, GuardInv, Granted, CancelClaimed
  <2>11. WokenInv'
    <3>1. \A f \in Coros : /\ ReleaseWakes(f) => ReleaseWakes(f)'
                           /\ ReleaseResumes(f) => ReleaseResumes(f)'
                           /\ CancelWakes(f) => CancelWakes(f)'
      BY <2>0 DEF ReleaseWakes, ReleaseResumes, CancelWakes
    <3> QED
      BY <2>0, <3>1 DEF WokenInv
  <2> QED BY <2>2, <2>3, <2>4, <2>5, <2>6, <2>7, <2>8, <2>9, <2>11
       DEF SemaphoreInductive
<1>8. ASSUME NEW c \in Coros, Register(c), ~requested[c], UNCHANGED semVars
      PROVE  SemaphoreInductive'
  <2>0. /\ pc[c] = "register" /\ pc' = [pc EXCEPT ![c] = "mark"]
        /\ callback' = [callback EXCEPT ![c] = state[c]]
        /\ UNCHANGED <<state, withToken, immediate, handle, resumed,
             cancelled, phase, requested, kpc, kcb, count, waiters, guard,
             waiter, left, toResume, issued, used, dropped>>
    BY <1>8
       DEF Register, Goto, KGoto, semVars, permitVars, waitVars, awaiterVars,
           waiterVars, cancelVars
  <2>2. TypeOK'
    BY <2>0 DEF Points, WaitPoints
  <2>3. GuardInv'
    BY <2>0 DEF GuardInv
  <2>4. OwnWaiterInv'
    BY <2>0 DEF OwnWaiterInv, Waiting
  <2>5. PhaseInv'
    BY <2>0 DEF PhaseInv
  <2>6. UnclaimedInv'
    BY <2>0 DEF UnclaimedInv
  <2>7. CancelInv'
    BY <2>0 DEF CancelInv
  <2>8. ClaimInv'
    BY <2>0 DEF ClaimInv, Granted, CancelClaimed
  <2>9. ResumeInv'
    BY <2>0 DEF ResumeInv, Granted, CancelClaimed
  <2>10. QueuedInv' /\ PermitMeansNobodyWaits'
    BY <2>0 DEF QueuedInv, PermitMeansNobodyWaits
  <2>11. WokenInv'
    <3>1. \A f \in Coros : /\ ReleaseWakes(f) => ReleaseWakes(f)'
                           /\ ReleaseResumes(f) => ReleaseResumes(f)'
                           /\ CancelWakes(f) => CancelWakes(f)'
      BY <2>0 DEF ReleaseWakes, ReleaseResumes, CancelWakes
    <3> QED
      BY <2>0, <3>1 DEF WokenInv
  <2> QED BY <2>2, <2>3, <2>4, <2>5, <2>6, <2>7, <2>8, <2>9, <2>10, <2>11
       DEF SemaphoreInductive
<1>9. ASSUME NEW c \in Coros, InlineCallback(c), pc[c] = "cb_mark", UNCHANGED semVars
      PROVE  SemaphoreInductive'
  <2>0. /\ pc[c] = "cb_mark"
        /\ pc' = [pc EXCEPT ![c] = IF resumed[state[c]] THEN "mark" ELSE "cb_store"]
        /\ resumed' = [resumed EXCEPT ![state[c]] = TRUE]
        /\ UNCHANGED <<state, withToken, immediate, handle, cancelled, phase,
             requested, callback, kpc, kcb, count, waiters, guard, waiter,
             left, toResume, issued, used, dropped>>
    BY <1>9
       DEF InlineCallback, MarkResumed, Goto, KGoto, semVars, permitVars, waitVars,
           awaiterVars, waiterVars, cancelVars
  <2>2. TypeOK'
    BY <2>0 DEF Points, WaitPoints
  <2>3. GuardInv'
    BY <2>0 DEF GuardInv
  <2>4. OwnWaiterInv'
    BY <2>0 DEF OwnWaiterInv, Waiting
  <2>5. PhaseInv'
    BY <2>0 DEF PhaseInv
  <2>6. UnclaimedInv'
    BY <2>0 DEF UnclaimedInv
  <2>7. CancelInv'
    BY <2>0 DEF CancelInv, OwnWaiterInv, PhaseInv, Phases, Waiting
  <2>8. ClaimInv'
    BY <2>0 DEF ClaimInv, Granted, CancelClaimed
  <2>9. ResumeInv'
    BY <2>0 DEF ResumeInv, GuardInv, Granted, CancelClaimed
  <2>10. QueuedInv'
    BY <2>0 DEF QueuedInv
  <2>11. WokenInv'
    <3>1. \A f \in Coros : /\ ReleaseWakes(f) => ReleaseWakes(f)'
                           /\ ReleaseResumes(f) => ReleaseResumes(f)'
                           /\ CancelWakes(f) => CancelWakes(f)'
      BY <2>0 DEF ReleaseWakes, ReleaseResumes, CancelWakes
    <3> QED
      BY <2>0, <3>1 DEF WokenInv, OwnWaiterInv
  <2>12. PermitMeansNobodyWaits'
    BY <2>0 DEF PermitMeansNobodyWaits
  <2> QED BY <2>2, <2>3, <2>4, <2>5, <2>6, <2>7, <2>8, <2>9, <2>10, <2>11, <2>12
       DEF SemaphoreInductive
<1>10. ASSUME NEW c \in Coros, InlineCallback(c), pc[c] = "cb_store", UNCHANGED semVars
      PROVE  SemaphoreInductive'
  <2>0. /\ pc[c] = "cb_store" /\ pc' = [pc EXCEPT ![c] = "cb_wake"]
        /\ cancelled' = [cancelled EXCEPT ![state[c]] = TRUE]
        /\ UNCHANGED <<state, withToken, immediate, handle, resumed, phase,
             requested, callback, kpc, kcb, count, waiters, guard, waiter,
             left, toResume, issued, used, dropped>>
    BY <1>10
       DEF InlineCallback, Goto, KGoto, semVars, permitVars, waitVars, awaiterVars,
           waiterVars, cancelVars
  <2>2. TypeOK'
    BY <2>0 DEF Points, WaitPoints
  <2>3. GuardInv'
    BY <2>0 DEF GuardInv
  <2>4. OwnWaiterInv'
    BY <2>0 DEF OwnWaiterInv, Waiting
  <2>5. PhaseInv'
    BY <2>0 DEF PhaseInv, CancelInv
  <2>6. UnclaimedInv' /\ QueuedInv' /\ PermitMeansNobodyWaits'
    BY <2>0 DEF UnclaimedInv, QueuedInv, PermitMeansNobodyWaits
  <2>7. CancelInv'
    BY <2>0 DEF CancelInv, OwnWaiterInv, Waiting
  <2>8. ClaimInv'
    <3>1. \A e \in Coros \ {c} : Granted(e) => Granted(e)'
      BY <2>0 DEF Granted, CancelClaimed, OwnWaiterInv
    <3>2. \A d \in Coros : pc[d] = "release_wake" => handle[waiter] # c
      BY <2>0 DEF ClaimInv, Granted, CancelClaimed
    <3> QED BY <2>0, <3>1, <3>2 DEF ClaimInv
  <2>9. ResumeInv'
    <3>1. \A e \in Coros \ {c} : Granted(e) => Granted(e)'
      BY <2>0 DEF Granted, CancelClaimed, OwnWaiterInv
    <3>2. \A d \in Coros : c \notin ToSet(toResume[d])
      BY <2>0 DEF ResumeInv
    <3> QED BY <2>0, <3>1, ToSetType DEF ResumeInv
  <2>11. WokenInv'
    <3>1. \A f \in Coros : /\ ReleaseWakes(f) => ReleaseWakes(f)'
                           /\ ReleaseResumes(f) => ReleaseResumes(f)'
                           /\ CancelWakes(f) => CancelWakes(f)'
      BY <2>0 DEF ReleaseWakes, ReleaseResumes, CancelWakes
    <3> QED
      BY <2>0, <3>1 DEF WokenInv
  <2> QED BY <2>2, <2>3, <2>4, <2>5, <2>6, <2>7, <2>8, <2>9, <2>11
       DEF SemaphoreInductive
<1>11. ASSUME NEW c \in Coros, InlineCallback(c), pc[c] = "cb_wake", UNCHANGED semVars
      PROVE  SemaphoreInductive'
  <2>0. /\ pc[c] = "cb_wake" /\ pc' = [pc EXCEPT ![c] = "mark"]
        /\ phase' = [phase EXCEPT ![state[c]] = "wake_requested"]
        /\ UNCHANGED <<state, withToken, immediate, handle, resumed,
             cancelled, requested, callback, kpc, kcb, count, waiters, guard,
             waiter, left, toResume, issued, used, dropped>>
    BY <1>11
       DEF InlineCallback, RequestWake, CancelInv, Goto, KGoto, semVars, permitVars,
           waitVars, awaiterVars, waiterVars, cancelVars
  <2>2. TypeOK'
    BY <2>0 DEF Points, WaitPoints, Phases
  <2>3. GuardInv'
    BY <2>0 DEF GuardInv
  <2>4. OwnWaiterInv'
    BY <2>0 DEF OwnWaiterInv, Waiting
  <2>5. PhaseInv'
    BY <2>0 DEF PhaseInv, CancelInv
  <2>6. UnclaimedInv' /\ QueuedInv' /\ PermitMeansNobodyWaits'
    BY <2>0 DEF UnclaimedInv, QueuedInv, PermitMeansNobodyWaits
  <2>7. CancelInv'
    BY <2>0 DEF CancelInv, OwnWaiterInv, Waiting
  <2>8. ClaimInv'
    BY <2>0 DEF ClaimInv, CancelInv, Granted, CancelClaimed
  <2>9. ResumeInv'
    BY <2>0 DEF ResumeInv, CancelInv, GuardInv, Granted, CancelClaimed
  <2>11. WokenInv'
    <3>1. \A f \in Coros : /\ ReleaseWakes(f) => ReleaseWakes(f)'
                           /\ ReleaseResumes(f) => ReleaseResumes(f)'
                           /\ CancelWakes(f) => CancelWakes(f)'
      BY <2>0 DEF ReleaseWakes, ReleaseResumes, CancelWakes
    <3> QED
      BY <2>0, <3>1 DEF WokenInv
  <2> QED BY <2>2, <2>3, <2>4, <2>5, <2>6, <2>7, <2>8, <2>9, <2>11
       DEF SemaphoreInductive
<1>12. ASSUME NEW c \in Coros, TryMarkSuspended(c),
              phase[state[c]] = "waiting_await_suspend",
             UNCHANGED semVars
      PROVE  SemaphoreInductive'
  <2>0. /\ pc[c] = "mark" /\ pc' = [pc EXCEPT ![c] = "suspended"]
        /\ phase[state[c]] = "waiting_await_suspend"
        /\ phase' = [phase EXCEPT ![state[c]] = "suspended"]
        /\ UNCHANGED <<state, withToken, immediate, handle, resumed,
             cancelled, requested, callback, kpc, kcb, count, waiters, guard,
             waiter, left, toResume, issued, used, dropped>>
    BY <1>12
       DEF TryMarkSuspended, Goto, KGoto, semVars, permitVars, waitVars,
           awaiterVars, waiterVars, cancelVars
  <2>2. TypeOK'
    BY <2>0 DEF Points, WaitPoints, Phases
  <2>3. GuardInv'
    BY <2>0 DEF GuardInv
  <2>4. OwnWaiterInv'
    BY <2>0 DEF OwnWaiterInv, Waiting
  <2>5. PhaseInv'
    BY <2>0 DEF PhaseInv, OwnWaiterInv
  <2>6. UnclaimedInv' /\ QueuedInv' /\ PermitMeansNobodyWaits'
    BY <2>0 DEF UnclaimedInv, QueuedInv, PermitMeansNobodyWaits
  <2>7. CancelInv'
    BY <2>0, NullAssumption DEF CancelInv, OwnWaiterInv
  <2>8. ClaimInv'
    BY <2>0 DEF ClaimInv, Granted, CancelClaimed
  <2>9. ResumeInv'
    BY <2>0 DEF ResumeInv, GuardInv, Granted, CancelClaimed
  <2>11. WokenInv'
    <3>1. \A f \in Coros : /\ ReleaseWakes(f) => ReleaseWakes(f)'
                           /\ ReleaseResumes(f) => ReleaseResumes(f)'
                           /\ CancelWakes(f) => CancelWakes(f)'
      BY <2>0 DEF ReleaseWakes, ReleaseResumes, CancelWakes
    <3> QED
      BY <2>0, <3>1 DEF WokenInv
  <2> QED BY <2>2, <2>3, <2>4, <2>5, <2>6, <2>7, <2>8, <2>9, <2>11
       DEF SemaphoreInductive
<1>13. ASSUME NEW c \in Coros, TryMarkSuspended(c),
              phase[state[c]] # "waiting_await_suspend",
             UNCHANGED semVars
      PROVE  SemaphoreInductive'
  <2>0. /\ pc[c] = "mark" /\ pc' = [pc EXCEPT ![c] = "resume"]
        /\ phase[state[c]] # "waiting_await_suspend"
        /\ UNCHANGED <<state, withToken, immediate, handle, resumed,
             cancelled, phase, requested, callback, kpc, kcb, count, waiters,
             guard, waiter, left, toResume, issued, used, dropped>>
    BY <1>13
       DEF TryMarkSuspended, Goto, KGoto, semVars, permitVars, waitVars,
           awaiterVars, waiterVars, cancelVars
  <2>2. TypeOK'
    BY <2>0 DEF Points, WaitPoints
  <2>3. GuardInv'
    BY <2>0 DEF GuardInv
  <2>4. OwnWaiterInv'
    BY <2>0 DEF OwnWaiterInv, Waiting
  <2>5. PhaseInv'
    BY <2>0 DEF PhaseInv, Phases
  <2>6. UnclaimedInv' /\ QueuedInv' /\ PermitMeansNobodyWaits'
    BY <2>0 DEF UnclaimedInv, QueuedInv, PermitMeansNobodyWaits
  <2>7. CancelInv'
    BY <2>0 DEF CancelInv, OwnWaiterInv, PhaseInv, Phases
  <2>8. ClaimInv'
    <3>1. \A e \in Coros : Granted(e) => Granted(e)'
      BY <2>0 DEF Granted, CancelClaimed
    <3>2. \A d \in Coros : pc[d] = "release_wake" => handle[waiter] # c
      BY <2>0 DEF ClaimInv, GuardInv, PhaseInv, Phases
    <3> QED BY <2>0, <3>1, <3>2 DEF ClaimInv
  <2>9. ResumeInv'
    BY <2>0 DEF ResumeInv, GuardInv, Granted, CancelClaimed
  <2>11. WokenInv'
    <3>1. \A f \in Coros : /\ ReleaseWakes(f) => ReleaseWakes(f)'
                           /\ ReleaseResumes(f) => ReleaseResumes(f)'
                           /\ CancelWakes(f) => CancelWakes(f)'
      BY <2>0 DEF ReleaseWakes, ReleaseResumes, CancelWakes
    <3> QED
      BY <2>0, <3>1 DEF WokenInv
  <2> QED BY <2>2, <2>3, <2>4, <2>5, <2>6, <2>7, <2>8, <2>9, <2>11
       DEF SemaphoreInductive
<1>14. ASSUME NEW c \in Coros, AwaitReady(c), count > 0
      PROVE  SemaphoreInductive'
  <2>0. /\ pc[c] = "try" /\ pc' = [pc EXCEPT ![c] = "resume"]
        /\ UNCHANGED <<state, withToken, immediate, handle, resumed,
             cancelled, phase, requested, callback, kpc, kcb, waiters, guard,
             waiter, left, toResume, issued, used, dropped>>
    BY <1>14
       DEF AwaitReady, Goto, KGoto, semVars, permitVars, waitVars, awaiterVars,
           waiterVars, cancelVars
  <2>1. count > 0 /\ count' \in 0..LeastMaxValue
    BY <1>14, CountAssumption DEF AwaitReady
  <2>2. TypeOK'
    BY <2>0, <2>1 DEF Points, WaitPoints
  <2>3. GuardInv'
    BY <2>0 DEF GuardInv
  <2>4. OwnWaiterInv'
    BY <2>0 DEF OwnWaiterInv, Waiting
  <2>5. PhaseInv'
    <3>1. state[c] = NoWaiter
      BY <2>0 DEF OwnWaiterInv, Waiting
    <3> QED BY <2>0, <3>1 DEF PhaseInv
  <2>6. UnclaimedInv' /\ QueuedInv'
    BY <2>0 DEF UnclaimedInv, QueuedInv
  <2>7. CancelInv'
    BY <2>0 DEF CancelInv
  <2>8. ClaimInv'
    <3>1. \A e \in Coros : Granted(e) => Granted(e)'
      BY <2>0 DEF Granted, CancelClaimed
    <3>2. \A d \in Coros : pc[d] = "release_wake" => handle[waiter] # c
      BY <2>0, ClaimedWaits
    <3> QED BY <2>0, <3>1, <3>2 DEF ClaimInv
  <2>9. ResumeInv'
    BY <2>0 DEF ResumeInv, GuardInv, Granted, CancelClaimed
  <2>11. WokenInv'
    <3>1. \A f \in Coros : /\ ReleaseWakes(f) => ReleaseWakes(f)'
                           /\ ReleaseResumes(f) => ReleaseResumes(f)'
                           /\ CancelWakes(f) => CancelWakes(f)'
      BY <2>0 DEF ReleaseWakes, ReleaseResumes, CancelWakes
    <3> QED
      BY <2>0, <3>1 DEF WokenInv
  <2>12. PermitMeansNobodyWaits'
    BY <2>0, <2>1 DEF PermitMeansNobodyWaits
  <2> QED BY <2>2, <2>3, <2>4, <2>5, <2>6, <2>7, <2>8, <2>9, <2>11, <2>12
       DEF SemaphoreInductive
<1>15. ASSUME NEW c \in Coros, AwaitReady(c), count = 0
      PROVE  SemaphoreInductive'
  <2>0. /\ pc[c] = "try" /\ pc' = [pc EXCEPT ![c] = "suspend"]
        /\ UNCHANGED <<state, withToken, immediate, handle, resumed,
             cancelled, phase, requested, callback, kpc, kcb, count, waiters,
             guard, waiter, left, toResume, issued, used, dropped>>
    BY <1>15
       DEF AwaitReady, Goto, KGoto, semVars, permitVars, waitVars, awaiterVars,
           waiterVars, cancelVars
  <2>2. TypeOK'
    BY <2>0 DEF Points, WaitPoints
  <2>3. GuardInv'
    BY <2>0 DEF GuardInv
  <2>4. OwnWaiterInv'
    BY <2>0 DEF OwnWaiterInv, Waiting
  <2>5. PhaseInv'
    BY <2>0 DEF PhaseInv
  <2>6. UnclaimedInv' /\ QueuedInv' /\ PermitMeansNobodyWaits'
    BY <2>0 DEF UnclaimedInv, QueuedInv, PermitMeansNobodyWaits
  <2>7. CancelInv'
    BY <2>0 DEF CancelInv
  <2>8. ClaimInv'
    BY <2>0 DEF ClaimInv, Granted, CancelClaimed
  <2>9. ResumeInv'
    BY <2>0 DEF ResumeInv, GuardInv, Granted, CancelClaimed
  <2>11. WokenInv'
    <3>1. \A f \in Coros : /\ ReleaseWakes(f) => ReleaseWakes(f)'
                           /\ ReleaseResumes(f) => ReleaseResumes(f)'
                           /\ CancelWakes(f) => CancelWakes(f)'
      BY <2>0 DEF ReleaseWakes, ReleaseResumes, CancelWakes
    <3> QED
      BY <2>0, <3>1 DEF WokenInv
  <2> QED BY <2>2, <2>3, <2>4, <2>5, <2>6, <2>7, <2>8, <2>9, <2>11
       DEF SemaphoreInductive
<1>16. ASSUME NEW c \in Coros, EnqueueWaiter(c), count > 0
      PROVE  SemaphoreInductive'
  <2>0. /\ pc[c] = "enqueue" /\ pc' = [pc EXCEPT ![c] = "resume"]
        /\ UNCHANGED <<state, withToken, immediate, handle, resumed,
             cancelled, phase, requested, callback, kpc, kcb, waiters, guard,
             waiter, left, toResume, issued, used, dropped>>
    BY <1>16
       DEF EnqueueWaiter, Goto, KGoto, semVars, permitVars, waitVars, awaiterVars,
           waiterVars, cancelVars
  <2>1. count > 0 /\ count' \in 0..LeastMaxValue
    BY <1>16, CountAssumption DEF EnqueueWaiter
  <2>2. TypeOK'
    BY <2>0, <2>1 DEF Points, WaitPoints
  <2>3. GuardInv'
    BY <2>0 DEF GuardInv
  <2>4. OwnWaiterInv'
    BY <2>0 DEF OwnWaiterInv, Waiting
  <2>5. PhaseInv'
    <3>1. state[c] = NoWaiter
      BY <2>0 DEF OwnWaiterInv, Waiting
    <3> QED BY <2>0, <3>1 DEF PhaseInv
  <2>6. UnclaimedInv' /\ QueuedInv'
    BY <2>0 DEF UnclaimedInv, QueuedInv
  <2>7. CancelInv'
    BY <2>0 DEF CancelInv
  <2>8. ClaimInv'
    <3>1. \A e \in Coros : Granted(e) => Granted(e)'
      BY <2>0 DEF Granted, CancelClaimed
    <3>2. \A d \in Coros : pc[d] = "release_wake" => handle[waiter] # c
      BY <2>0, ClaimedWaits
    <3> QED BY <2>0, <3>1, <3>2 DEF ClaimInv
  <2>9. ResumeInv'
    BY <2>0 DEF ResumeInv, PhaseInv, Granted, CancelClaimed
  <2>11. WokenInv'
    <3>1. \A f \in Coros : /\ ReleaseWakes(f) => ReleaseWakes(f)'
                           /\ ReleaseResumes(f) => ReleaseResumes(f)'
                           /\ CancelWakes(f) => CancelWakes(f)'
      BY <2>0 DEF ReleaseWakes, ReleaseResumes, CancelWakes
    <3> QED
      BY <2>0, <3>1 DEF WokenInv
  <2>12. PermitMeansNobodyWaits'
    BY <2>0, <2>1 DEF PermitMeansNobodyWaits
  <2> QED BY <2>2, <2>3, <2>4, <2>5, <2>6, <2>7, <2>8, <2>9, <2>11, <2>12
       DEF SemaphoreInductive
<1>17. ASSUME NEW c \in Coros, EnqueueWaiter(c), count = 0
      PROVE  SemaphoreInductive'
  <2> DEFINE w == NewAddress
  <2>w. /\ w \in Waiters /\ w \notin ToSet(waiters) /\ w # waiter
        /\ \A e \in Coros : state[e] # w /\ callback[e] # w /\ kcb[e] # w
    BY <1>17, NewAddressIsFree DEF EnqueueWaiter
  <2>0. /\ pc[c] = "enqueue" /\ count = 0
        /\ pc' = [pc EXCEPT ![c] = IF withToken[c] THEN "register" ELSE "mark"]
        /\ state' = [state EXCEPT ![c] = w]
        /\ handle' = [handle EXCEPT ![w] = c]
        /\ resumed' = [resumed EXCEPT ![w] = FALSE]
        /\ cancelled' = [cancelled EXCEPT ![w] = FALSE]
        /\ phase' = [phase EXCEPT ![w] = "waiting_await_suspend"]
        /\ waiters' \in Seq(Waiters) /\ ToSet(waiters') = ToSet(waiters) \cup {w}
        /\ UNCHANGED <<withToken, immediate, requested, callback, kpc, kcb,
             count, guard, waiter, left, toResume, issued, used, dropped>>
    <3>1. /\ Append(waiters, w) \in Seq(Waiters)
          /\ ToSet(Append(waiters, w)) = ToSet(waiters) \cup {w}
      BY <2>w, ToSetAppend
    <3>2. /\ NewWaiter(c, w) /\ waiters' = Append(waiters, w) /\ pc[c] = "enqueue"
          /\ UNCHANGED count
          /\ UNCHANGED <<guard, waiter, left, toResume, permitVars>>
      BY <1>17 DEF EnqueueWaiter
    <3> HIDE DEF w
    <3> QED
      BY <1>17, <3>1, <3>2 DEF NewWaiter, permitVars, cancelVars, Goto
  <2> HIDE DEF w
  <2>2. TypeOK'
    BY <2>w, <2>0 DEF Points, WaitPoints, Phases
  <2>3. GuardInv'
    BY <2>0 DEF GuardInv
  <2>4. OwnWaiterInv'
    BY <2>w, <2>0 DEF OwnWaiterInv, Waiting
  <2>5. PhaseInv'
    BY <2>w, <2>0 DEF PhaseInv
  <2>6. UnclaimedInv'
    <3>1. \A v \in ToSet(waiters) : v \in Waiters \ {w} /\ handle'[v] = handle[v]
      BY <2>w, <2>0, ToSetType
    <3>2. state[c] = NoWaiter
      BY <2>0 DEF OwnWaiterInv, Waiting
    <3>3. \A v \in ToSet(waiters) : ~resumed[v] => handle[v] # c
      BY <3>1, <3>2, NullAssumption DEF UnclaimedInv
    <3>4. \A v \in ToSet(waiters') : handle'[v] \in Coros /\ (~resumed'[v] => state'[handle'[v]] = v)
      BY <2>w, <2>0, <3>3 DEF UnclaimedInv
    <3>5. \A d \in Coros :
            /\ callback'[d] # NoWaiter /\ ~resumed'[callback'[d]] => state'[d] = callback'[d]
            /\ kcb'[d] # NoWaiter /\ ~resumed'[kcb'[d]] => state'[d] = kcb'[d]
      BY <2>w, <2>0, <3>2 DEF UnclaimedInv
    <3> QED BY <3>4, <3>5 DEF UnclaimedInv
  <2>7. CancelInv'
    BY <2>w, <2>0 DEF CancelInv
  <2>8. ClaimInv'
    <3>1. \A e \in Coros \ {c} : Granted(e) => Granted(e)'
      BY <2>w, <2>0 DEF Granted, CancelClaimed
    <3>2. \A d \in Coros : pc[d] = "release_wake" => handle[waiter] # c
      BY <2>0, ClaimedWaits
    <3> QED BY <2>w, <2>0, <3>1, <3>2 DEF ClaimInv
  <2>9. ResumeInv'
    <3>1. \A e \in Coros \ {c} : Granted(e) => Granted(e)'
      BY <2>w, <2>0 DEF Granted, CancelClaimed
    <3>2. \A d \in Coros : c \notin ToSet(toResume[d])
      BY <2>0 DEF ResumeInv, Waiting
    <3> QED BY <2>0, <3>1, ToSetType DEF ResumeInv
  <2>10. QueuedInv'
    BY <2>0 DEF QueuedInv
  <2>11. WokenInv'
    <3>1. \A f \in Coros \ {c} : /\ ReleaseWakes(f) => ReleaseWakes(f)'
                                 /\ ReleaseResumes(f) => ReleaseResumes(f)'
                                 /\ CancelWakes(f) => CancelWakes(f)'
      BY <2>0 DEF ReleaseWakes, ReleaseResumes, CancelWakes
    <3> QED
      BY <2>w, <2>0, <3>1 DEF WokenInv
  <2>12. PermitMeansNobodyWaits'
    BY <2>0 DEF PermitMeansNobodyWaits
  <2> QED BY <2>2, <2>3, <2>4, <2>5, <2>6, <2>7, <2>8, <2>9, <2>10, <2>11, <2>12
       DEF SemaphoreInductive
<1>18. ASSUME NEW c \in Coros, AcquireResume(c)
      PROVE  SemaphoreInductive'
  <2>0. /\ pc[c] = "resume" /\ pc' = [pc EXCEPT ![c] = "idle"]
        /\ callback' = [callback EXCEPT ![c] = NoWaiter]
        /\ state' = [state EXCEPT ![c] = NoWaiter]
        /\ withToken' = [withToken EXCEPT ![c] = FALSE]
        /\ immediate' = [immediate EXCEPT ![c] = FALSE]
        /\ UNCHANGED <<handle, resumed, cancelled, phase, requested, kpc, kcb,
             count, waiters, guard, waiter, left, toResume, issued, dropped>>
    BY <1>18
       DEF AcquireResume, AwaitResume, Goto, KGoto, semVars, permitVars, waitVars,
           awaiterVars, waiterVars, cancelVars
  <2>1. used' \in Nat
    BY <1>18 DEF AcquireResume
  <2>2. TypeOK'
    BY <2>0, <2>1 DEF Points, WaitPoints
  <2>3. GuardInv'
    BY <2>0 DEF GuardInv
  <2>4. OwnWaiterInv'
    BY <2>0 DEF OwnWaiterInv, Waiting
  <2>5. PhaseInv'
    BY <2>0 DEF PhaseInv
  <2>6. UnclaimedInv'
    BY <2>0 DEF UnclaimedInv, PhaseInv
  <2>7. CancelInv'
    BY <2>0 DEF CancelInv
  <2>8. ClaimInv'
    BY <2>0 DEF ClaimInv, Granted, CancelClaimed
  <2>9. ResumeInv'
    BY <2>0, NullAssumption
       DEF ResumeInv, OwnWaiterInv, GuardInv, Granted, CancelClaimed, Waiting
  <2>10. QueuedInv'
    BY <2>0 DEF QueuedInv
  <2>11. WokenInv'
    <3>1. \A f \in Coros \ {c} : /\ ReleaseWakes(f) => ReleaseWakes(f)'
                                 /\ ReleaseResumes(f) => ReleaseResumes(f)'
                                 /\ CancelWakes(f) => CancelWakes(f)'
      BY <2>0 DEF ReleaseWakes, ReleaseResumes, CancelWakes
    <3> QED
      BY <2>0, <3>1 DEF WokenInv
  <2>12. PermitMeansNobodyWaits'
    BY <2>0 DEF PermitMeansNobodyWaits
  <2> QED BY <2>2, <2>3, <2>4, <2>5, <2>6, <2>7, <2>8, <2>9, <2>10, <2>11, <2>12
       DEF SemaphoreInductive
<1>19. ASSUME NEW c \in Coros, Release(c)
      PROVE  SemaphoreInductive'
  <2>0. /\ pc[c] = "idle" /\ pc' = [pc EXCEPT ![c] = "release"]
        /\ \A d \in Coros \ {c} : left'[d] = left[d]
        /\ UNCHANGED <<state, withToken, immediate, handle, resumed,
             cancelled, phase, requested, callback, kpc, kcb, count, waiters,
             guard, waiter, toResume, used, dropped>>
    BY <1>19
       DEF Release, Goto, KGoto, semVars, permitVars, waitVars, awaiterVars,
           waiterVars, cancelVars
  <2>1. left' \in [Coros -> Nat] /\ issued' \in Nat
    BY <1>19, CountAssumption DEF Release, semVars, permitVars
  <2>2. TypeOK'
    BY <2>0, <2>1 DEF Points
  <2>3. GuardInv'
    BY <2>0 DEF GuardInv
  <2>4. OwnWaiterInv'
    BY <2>0 DEF OwnWaiterInv, Waiting
  <2>5. PhaseInv'
    BY <2>0 DEF PhaseInv
  <2>6. UnclaimedInv' /\ QueuedInv' /\ PermitMeansNobodyWaits'
    BY <2>0 DEF UnclaimedInv, QueuedInv, PermitMeansNobodyWaits
  <2>7. CancelInv'
    BY <2>0 DEF CancelInv
  <2>8. ClaimInv'
    BY <2>0 DEF ClaimInv, Granted, CancelClaimed
  <2>9. ResumeInv'
    BY <2>0, NullAssumption DEF ResumeInv, OwnWaiterInv, Granted, CancelClaimed
  <2>11. WokenInv'
    <3>1. \A f \in Coros : /\ ReleaseWakes(f) => ReleaseWakes(f)'
                           /\ ReleaseResumes(f) => ReleaseResumes(f)'
                           /\ CancelWakes(f) => CancelWakes(f)'
      BY <2>0 DEF ReleaseWakes, ReleaseResumes, CancelWakes
    <3> QED
      BY <2>0, <3>1 DEF WokenInv
  <2> QED BY <2>2, <2>3, <2>4, <2>5, <2>6, <2>7, <2>8, <2>9, <2>11
       DEF SemaphoreInductive
<1>20. ASSUME NEW c \in Coros, ReleaseGuard(c)
      PROVE  SemaphoreInductive'
  <2>0. /\ pc[c] = "release" /\ pc' = [pc EXCEPT ![c] = "release_loop"]
        /\ guard = NoCoro /\ guard' = c
        /\ UNCHANGED <<state, withToken, immediate, handle, resumed,
             cancelled, phase, requested, callback, kpc, kcb, count, waiters,
             waiter, left, toResume, issued, used, dropped>>
    BY <1>20
       DEF ReleaseGuard, Goto, KGoto, semVars, permitVars, waitVars, awaiterVars,
           waiterVars, cancelVars
  <2>2. TypeOK'
    BY <2>0 DEF Points
  <2>3. GuardInv'
    BY <2>0, NullAssumption DEF GuardInv
  <2>4. OwnWaiterInv'
    BY <2>0 DEF OwnWaiterInv, Waiting
  <2>5. PhaseInv'
    BY <2>0 DEF PhaseInv
  <2>6. UnclaimedInv' /\ QueuedInv' /\ PermitMeansNobodyWaits'
    BY <2>0 DEF UnclaimedInv, QueuedInv, PermitMeansNobodyWaits
  <2>7. CancelInv'
    BY <2>0 DEF CancelInv
  <2>8. ClaimInv'
    BY <2>0 DEF ClaimInv, Granted, CancelClaimed
  <2>9. ResumeInv'
    BY <2>0 DEF ResumeInv, Granted, CancelClaimed
  <2>11. WokenInv'
    <3>1. \A f \in Coros : /\ ReleaseWakes(f) => ReleaseWakes(f)'
                           /\ ReleaseResumes(f) => ReleaseResumes(f)'
                           /\ CancelWakes(f) => CancelWakes(f)'
      BY <2>0 DEF ReleaseWakes, ReleaseResumes, CancelWakes
    <3> QED
      BY <2>0, <3>1 DEF WokenInv
  <2> QED BY <2>2, <2>3, <2>4, <2>5, <2>6, <2>7, <2>8, <2>9, <2>11
       DEF SemaphoreInductive
<1>21. ASSUME NEW c \in Coros, ReleaseLoop(c), waiters = <<>>
      PROVE  SemaphoreInductive'
  <2>0. /\ pc[c] = "release_loop" /\ waiters = <<>>
        /\ UNCHANGED <<pc, state, withToken, immediate, handle, resumed,
             cancelled, phase, requested, callback, kpc, kcb, waiters, guard,
             waiter, toResume, issued, used>>
    BY <1>21
       DEF ReleaseLoop, StorePermit, ClaimWaiter, awaiterVars, waiterVars,
           cancelVars
  <2>1. /\ left' \in [Coros -> Nat] /\ \A d \in Coros \ {c} : left'[d] = left[d]
        /\ count' \in 0..LeastMaxValue /\ dropped' \in Nat
    <3>1. left[c] > 0 /\ left' = [left EXCEPT ![c] = left[c] - 1]
      BY <1>21 DEF ReleaseLoop, StorePermit, ClaimWaiter
    <3>2. left[c] - 1 \in Nat
      BY <3>1
    <3>3. \/ count # LeastMaxValue /\ count' = count + 1 /\ dropped' = dropped
          \/ count' = count /\ dropped' = dropped + 1
      BY <1>21 DEF ReleaseLoop, StorePermit, ClaimWaiter
    <3>4. count' \in 0..LeastMaxValue /\ dropped' \in Nat
      BY <3>3, CountAssumption
    <3> QED BY <3>1, <3>4
  <2>2. TypeOK'
    BY <2>0, <2>1
  <2>3. GuardInv'
    BY <2>0 DEF GuardInv
  <2>4. /\ OwnWaiterInv' /\ PhaseInv' /\ UnclaimedInv' /\ CancelInv'
        /\ ClaimInv' /\ ResumeInv' /\ QueuedInv' /\ WokenInv'
    BY <2>0, SMTT(60)
       DEF OwnWaiterInv, PhaseInv, UnclaimedInv, CancelInv, ClaimInv, Granted,
           CancelClaimed, ResumeInv, QueuedInv, WokenInv, ReleaseWakes,
           ReleaseResumes, CancelWakes
  <2>12. PermitMeansNobodyWaits'
    BY <2>0, ToSetEmpty DEF PermitMeansNobodyWaits
  <2> QED BY <2>2, <2>3, <2>4, <2>12 DEF SemaphoreInductive
<1>22. ASSUME NEW c \in Coros, ReleaseLoop(c), waiters # <<>>, resumed[Head(waiters)]
      PROVE  SemaphoreInductive'
  <2> DEFINE w == Head(waiters)
  <2>w. /\ w \in Waiters /\ Tail(waiters) \in Seq(Waiters)
        /\ ToSet(waiters) = ToSet(Tail(waiters)) \cup {w}
    BY <1>22, ToSetTail
  <2>0. /\ pc[c] = "release_loop" /\ resumed[w]
        /\ waiters' \in Seq(Waiters) /\ ToSet(waiters) = ToSet(waiters') \cup {w}
        /\ UNCHANGED <<pc, state, withToken, immediate, handle, resumed,
             cancelled, phase, requested, callback, kpc, kcb, count, guard,
             waiter, left, toResume, issued, used, dropped>>
    BY <1>22, <2>w
       DEF ReleaseLoop, StorePermit, ClaimWaiter, MarkResumed, semVars, permitVars,
           awaiterVars, cancelVars
  <2> HIDE DEF w
  <2>2. TypeOK'
    BY <2>0
  <2>3. /\ GuardInv' /\ OwnWaiterInv' /\ PhaseInv' /\ CancelInv'
        /\ ClaimInv' /\ ResumeInv' /\ WokenInv'
    BY <2>0, SMTT(60)
       DEF GuardInv, OwnWaiterInv, PhaseInv, CancelInv, ClaimInv, Granted,
           CancelClaimed, ResumeInv, WokenInv, ReleaseWakes, ReleaseResumes,
           CancelWakes
  <2>6. UnclaimedInv'
    BY <2>0 DEF UnclaimedInv
  <2>10. QueuedInv'
    <3>1. \A v \in ToSet(waiters) : ~resumed[v] => v \in ToSet(waiters')
      BY <2>0
    <3> QED BY <2>0 DEF QueuedInv
  <2>12. PermitMeansNobodyWaits'
    BY <2>0 DEF PermitMeansNobodyWaits
  <2> QED BY <2>2, <2>3, <2>6, <2>10, <2>12 DEF SemaphoreInductive
<1>23. ASSUME NEW c \in Coros, ReleaseLoop(c), waiters # <<>>, ~resumed[Head(waiters)]
      PROVE  SemaphoreInductive'
  <2> DEFINE w == Head(waiters)
  <2>w. /\ w \in Waiters /\ Tail(waiters) \in Seq(Waiters)
        /\ ToSet(waiters) = ToSet(Tail(waiters)) \cup {w}
    BY <1>23, ToSetTail
  <2>0. /\ pc[c] = "release_loop" /\ pc' = [pc EXCEPT ![c] = "release_wake"]
        /\ left[c] > 0 /\ ~resumed[w]
        /\ resumed' = [resumed EXCEPT ![w] = TRUE]
        /\ waiter' = w
        /\ waiters' \in Seq(Waiters) /\ ToSet(waiters) = ToSet(waiters') \cup {w}
        /\ UNCHANGED <<state, withToken, immediate, handle, cancelled, phase,
             requested, callback, kpc, kcb, count, guard, left, toResume,
             issued, used, dropped>>
    BY <1>23, <2>w
       DEF ReleaseLoop, StorePermit, ClaimWaiter, MarkResumed, semVars, permitVars,
           awaiterVars, cancelVars, Goto
  <2> HIDE DEF w
  <2>2. TypeOK'
    BY <2>w, <2>0 DEF Points
  <2>3. GuardInv'
    BY <2>w, <2>0, NullAssumption DEF GuardInv
  <2>4. OwnWaiterInv'
    BY <2>0 DEF OwnWaiterInv, Waiting
  <2>5. PhaseInv'
    BY <2>0 DEF PhaseInv
  <2>6. UnclaimedInv'
    BY <2>0 DEF UnclaimedInv
  <2>7. CancelInv'
    BY <2>0 DEF CancelInv
  <2>8. ClaimInv'
    BY <2>w, <2>0, NullAssumption
       DEF ClaimInv, PhaseInv, UnclaimedInv, ResumeInv, CancelInv, Granted,
           CancelClaimed
  <2>9. ResumeInv'
    BY <2>0 DEF ResumeInv, GuardInv, Granted, CancelClaimed
  <2>10. QueuedInv'
    BY <2>0 DEF QueuedInv
  <2>11. WokenInv'
    <3>1. \A f \in Coros : ~ReleaseWakes(f) /\ (state[f] = w => ReleaseWakes(f)')
      BY <2>0 DEF ReleaseWakes, GuardInv
    <3>2. \A f \in Coros : ReleaseResumes(f) => ReleaseResumes(f)'
      BY <2>0 DEF ReleaseResumes
    <3>3. \A f \in Coros : CancelWakes(f) => CancelWakes(f)'
      BY <2>0 DEF CancelWakes
    <3> QED
      BY <2>0, <3>1, <3>2, <3>3 DEF WokenInv
  <2>12. PermitMeansNobodyWaits'
    BY <2>0 DEF PermitMeansNobodyWaits
  <2> QED BY <2>2, <2>3, <2>4, <2>5, <2>6, <2>7, <2>8, <2>9, <2>10, <2>11, <2>12
       DEF SemaphoreInductive
<1>24. ASSUME NEW c \in Coros, ReleaseWake(c), phase[waiter] = "suspended"
      PROVE  SemaphoreInductive'
  <2> DEFINE w == waiter
             e == handle[waiter]
  <2>w. /\ w = waiter /\ w \in Waiters /\ e \in Coros /\ state[e] = w /\ handle[w] = e
        /\ Granted(e) /\ resumed[w]
        /\ pc[e] # "resume" /\ phase[w] # "wake_requested"
        /\ pc[c] = "release_wake" /\ left[c] > 0
        /\ \A d \in Coros : e \notin ToSet(toResume[d])
    BY <1>24 DEF ReleaseWake, GuardInv, ClaimInv, Granted
  <2>0. /\ pc[c] = "release_wake" /\ pc' = [pc EXCEPT ![c] = "release_loop"]
        /\ left[c] > 0 /\ left' = [left EXCEPT ![c] = @ - 1]
        /\ waiter' = NoWaiter
        /\ phase[w] = "suspended" /\ pc[e] = "suspended" /\ e # c
        /\ toResume' = [toResume EXCEPT ![c] = Append(toResume[c], e)]
        /\ toResume'[c] \in Seq(Coros) /\ ToSet(toResume'[c]) = ToSet(toResume[c]) \cup {e}
        /\ IsInjective(toResume'[c])
        /\ UNCHANGED <<state, withToken, immediate, handle, resumed,
             cancelled, phase, requested, callback, kpc, kcb, count, waiters,
             guard, issued, used, dropped>>
    <3>1. toResume[c] \in Seq(Coros) /\ IsInjective(toResume[c])
      BY DEF ResumeInv
    <3>2. /\ Append(toResume[c], e) \in Seq(Coros)
          /\ ToSet(Append(toResume[c], e)) = ToSet(toResume[c]) \cup {e}
          /\ IsInjective(Append(toResume[c], e))
      BY <2>w, <3>1, ToSetAppend, InjectiveAppend
    <3>3. toResume' = [toResume EXCEPT ![c] = Append(toResume[c], e)]
      BY <1>24 DEF ReleaseWake, ShouldResumeNow
    <3>4. toResume'[c] = Append(toResume[c], e)
      BY <3>3
    <3>5. phase' = phase /\ phase[w] = "suspended"
      BY <1>24 DEF ReleaseWake, RequestWake
    <3>6. pc[e] = "suspended"
      BY <2>w, <3>5, NullAssumption DEF PhaseInv
    <3> QED BY <1>24, <2>w, <3>2, <3>4, <3>5, <3>6
         DEF ReleaseWake, permitVars, awaiterVars, cancelVars, Goto
  <2> HIDE DEF w, e
  <2>2. TypeOK'
    BY <2>w, <2>0, NullAssumption DEF Points, WaitPoints, CancelPoints, Phases
  <2>3. GuardInv'
    BY <2>0 DEF GuardInv
  <2>4. OwnWaiterInv'
    BY <2>0 DEF OwnWaiterInv, Waiting
  <2>5. PhaseInv'
    BY <2>0 DEF PhaseInv, GuardInv
  <2>6. UnclaimedInv' /\ QueuedInv' /\ PermitMeansNobodyWaits'
    BY <2>0 DEF UnclaimedInv, QueuedInv, PermitMeansNobodyWaits
  <2>7. CancelInv'
    BY <2>0 DEF CancelInv, Granted
  <2>8. ClaimInv'
    BY <2>0 DEF ClaimInv, GuardInv
  <2>9. ResumeInv'
    BY <2>w, <2>0, NullAssumption
       DEF ResumeInv, OwnWaiterInv, ClaimInv, CancelInv, GuardInv, Granted,
           CancelClaimed, Waiting
  <2>11. WokenInv'
    <3>1. \A f \in Coros : ReleaseWakes(f) => f = e
      BY <2>w DEF ReleaseWakes, OwnWaiterInv, GuardInv
    <3>2. \A f \in Coros : ReleaseResumes(f) \/ f = e => ReleaseResumes(f)'
      BY <2>0 DEF ReleaseResumes
    <3>3. \A f \in Coros : CancelWakes(f) => CancelWakes(f)'
      BY <2>0 DEF CancelWakes
    <3> QED
      BY <2>0, <3>1, <3>2, <3>3 DEF WokenInv
  <2> QED BY <2>2, <2>3, <2>4, <2>5, <2>6, <2>7, <2>8, <2>9, <2>11
       DEF SemaphoreInductive
<1>25. ASSUME NEW c \in Coros, ReleaseWake(c), phase[waiter] # "suspended"
      PROVE  SemaphoreInductive'
  <2> DEFINE w == waiter
             e == handle[waiter]
  <2>w. /\ w = waiter /\ w \in Waiters /\ e \in Coros /\ state[e] = w /\ handle[w] = e
        /\ Granted(e) /\ resumed[w]
        /\ pc[e] # "resume" /\ phase[w] # "wake_requested"
        /\ pc[c] = "release_wake" /\ left[c] > 0
        /\ \A d \in Coros : e \notin ToSet(toResume[d])
    BY <1>25 DEF ReleaseWake, GuardInv, ClaimInv, Granted
  <2>0. /\ pc[c] = "release_wake" /\ pc' = [pc EXCEPT ![c] = "release_loop"]
        /\ left[c] > 0 /\ left' = [left EXCEPT ![c] = @ - 1]
        /\ waiter' = NoWaiter
        /\ phase[w] = "waiting_await_suspend"
        /\ phase' = [phase EXCEPT ![w] = "wake_requested"]
        /\ UNCHANGED <<state, withToken, immediate, handle, resumed,
             cancelled, requested, callback, kpc, kcb, count, waiters, guard,
             toResume, issued, used, dropped>>
    BY <1>25, <2>w
       DEF ReleaseWake, RequestWake, ShouldResumeNow, Phases, permitVars,
           awaiterVars, cancelVars, Goto
  <2> HIDE DEF w, e
  <2>2. TypeOK'
    BY <2>w, <2>0 DEF Points, CancelPoints, Phases
  <2>3. GuardInv'
    BY <2>0 DEF GuardInv
  <2>4. OwnWaiterInv'
    BY <2>0 DEF OwnWaiterInv, Waiting
  <2>5. PhaseInv'
    BY <2>w, <2>0 DEF PhaseInv
  <2>6. UnclaimedInv' /\ QueuedInv' /\ PermitMeansNobodyWaits'
    BY <2>0 DEF UnclaimedInv, QueuedInv, PermitMeansNobodyWaits
  <2>7. CancelInv'
    BY <2>w, <2>0, NullAssumption
       DEF CancelInv, OwnWaiterInv, Granted, CancelClaimed, Waiting
  <2>8. ClaimInv'
    BY <2>0 DEF ClaimInv, GuardInv
  <2>9. ResumeInv'
    BY <2>0, NullAssumption
       DEF ResumeInv, OwnWaiterInv, Granted, CancelClaimed, Waiting
  <2>11. WokenInv'
    <3>1. \A f \in Coros : ReleaseWakes(f) => f = e
      BY <2>w DEF ReleaseWakes, OwnWaiterInv, GuardInv
    <3>2. \A f \in Coros : ReleaseResumes(f) => ReleaseResumes(f)'
      BY <2>0 DEF ReleaseResumes
    <3>3. \A f \in Coros : CancelWakes(f) => CancelWakes(f)'
      BY <2>0 DEF CancelWakes
    <3> QED
      BY <2>w, <2>0, <3>1, <3>2, <3>3 DEF WokenInv
  <2> QED BY <2>2, <2>3, <2>4, <2>5, <2>6, <2>7, <2>8, <2>9, <2>11
       DEF SemaphoreInductive
<1>26. ASSUME NEW c \in Coros, ReleaseUnguard(c)
      PROVE  SemaphoreInductive'
  <2>0. /\ pc[c] = "release_loop" /\ pc' = [pc EXCEPT ![c] = "release_resume"]
        /\ guard' = NoCoro
        /\ UNCHANGED <<state, withToken, immediate, handle, resumed,
             cancelled, phase, requested, callback, kpc, kcb, count, waiters,
             waiter, left, toResume, issued, used, dropped>>
    BY <1>26
       DEF ReleaseUnguard, Goto, KGoto, semVars, permitVars, waitVars, awaiterVars,
           waiterVars, cancelVars
  <2>2. TypeOK'
    BY <2>0 DEF Points
  <2>3. GuardInv'
    BY <2>0 DEF GuardInv
  <2>4. OwnWaiterInv'
    BY <2>0 DEF OwnWaiterInv, Waiting
  <2>5. PhaseInv'
    BY <2>0 DEF PhaseInv
  <2>6. UnclaimedInv' /\ QueuedInv' /\ PermitMeansNobodyWaits'
    BY <2>0 DEF UnclaimedInv, QueuedInv, PermitMeansNobodyWaits
  <2>7. CancelInv'
    BY <2>0 DEF CancelInv
  <2>8. ClaimInv'
    BY <2>0 DEF ClaimInv, Granted, CancelClaimed
  <2>9. ResumeInv'
    BY <2>0 DEF ResumeInv, Granted, CancelClaimed
  <2>11. WokenInv'
    <3>1. \A f \in Coros : /\ ReleaseWakes(f) => ReleaseWakes(f)'
                           /\ ReleaseResumes(f) => ReleaseResumes(f)'
                           /\ CancelWakes(f) => CancelWakes(f)'
      BY <2>0 DEF ReleaseWakes, ReleaseResumes, CancelWakes
    <3> QED
      BY <2>0, <3>1 DEF WokenInv
  <2> QED BY <2>2, <2>3, <2>4, <2>5, <2>6, <2>7, <2>8, <2>9, <2>11
       DEF SemaphoreInductive
<1>27. ASSUME NEW c \in Coros, ReleaseResume(c), toResume[c] = <<>>
      PROVE  SemaphoreInductive'
  <2>0. /\ pc[c] = "release_resume" /\ pc' = [pc EXCEPT ![c] = "idle"]
        /\ toResume[c] = <<>>
        /\ UNCHANGED <<state, withToken, immediate, handle, resumed,
             cancelled, phase, requested, callback, kpc, kcb, count, waiters,
             guard, waiter, left, toResume, issued, used, dropped>>
    BY <1>27
       DEF ReleaseResume, Goto, KGoto, semVars, permitVars, waitVars, awaiterVars,
           waiterVars, cancelVars
  <2>2. TypeOK'
    BY <2>0 DEF Points, WaitPoints
  <2>3. GuardInv'
    BY <2>0 DEF GuardInv
  <2>4. OwnWaiterInv'
    BY <2>0 DEF OwnWaiterInv, Waiting
  <2>5. PhaseInv'
    BY <2>0 DEF PhaseInv
  <2>6. UnclaimedInv' /\ QueuedInv' /\ PermitMeansNobodyWaits'
    BY <2>0 DEF UnclaimedInv, QueuedInv, PermitMeansNobodyWaits
  <2>7. CancelInv'
    BY <2>0 DEF CancelInv
  <2>8. ClaimInv'
    BY <2>0 DEF ClaimInv, Granted, CancelClaimed
  <2>9. ResumeInv'
    BY <2>0, NullAssumption, ToSetEmpty, SMTT(60)
       DEF ResumeInv, OwnWaiterInv, PhaseInv, UnclaimedInv, ClaimInv, CancelInv,
           GuardInv, Granted, CancelClaimed, Waiting
  <2>11. WokenInv'
    <3>1. \A f \in Coros : /\ ReleaseWakes(f) => ReleaseWakes(f)'
                           /\ ReleaseResumes(f) => ReleaseResumes(f)'
                           /\ CancelWakes(f) => CancelWakes(f)'
      BY <2>0 DEF ReleaseWakes, ReleaseResumes, CancelWakes
    <3> QED
      BY <2>0, <3>1 DEF WokenInv
  <2> QED BY <2>2, <2>3, <2>4, <2>5, <2>6, <2>7, <2>8, <2>9, <2>11
       DEF SemaphoreInductive
<1>28. ASSUME NEW c \in Coros, ReleaseResume(c), toResume[c] # <<>>
      PROVE  SemaphoreInductive'
  <2> DEFINE e == Head(toResume[c])
  <2>w. /\ e \in Coros /\ e \in ToSet(toResume[c]) /\ pc[e] = "suspended" /\ Granted(e)
        /\ \A d \in Coros \ {c} : e \notin ToSet(toResume[d])
        /\ Tail(toResume[c]) \in Seq(Coros) /\ IsInjective(Tail(toResume[c]))
        /\ ToSet(toResume[c]) = ToSet(Tail(toResume[c])) \cup {e}
        /\ e \notin ToSet(Tail(toResume[c]))
    BY <1>28, ToSetTail, InjectiveTail DEF ResumeInv
  <2>0. /\ pc[c] = "release_resume" /\ pc[e] = "suspended"
        /\ pc' = [pc EXCEPT ![e] = "resume"]
        /\ toResume' = [toResume EXCEPT ![c] = Tail(toResume[c])]
        /\ toResume'[c] \in Seq(Coros) /\ IsInjective(toResume'[c])
        /\ ToSet(toResume[c]) = ToSet(toResume'[c]) \cup {e} /\ e \notin ToSet(toResume'[c])
        /\ UNCHANGED <<state, withToken, immediate, handle, resumed,
             cancelled, phase, requested, callback, kpc, kcb, count, waiters,
             guard, waiter, left, issued, used, dropped>>
    BY <1>28, <2>w
       DEF ReleaseResume, semVars, permitVars, awaiterVars, waiterVars, cancelVars,
           Goto
  <2> HIDE DEF e
  <2>2. TypeOK'
    BY <2>0 DEF Points, WaitPoints
  <2>3. GuardInv'
    BY <2>0 DEF GuardInv
  <2>4. OwnWaiterInv'
    BY <2>0, NullAssumption
       DEF OwnWaiterInv, ClaimInv, ResumeInv, CancelInv, Granted, Waiting
  <2>5. PhaseInv'
    BY <2>w, <2>0 DEF PhaseInv, Granted
  <2>6. UnclaimedInv' /\ QueuedInv' /\ PermitMeansNobodyWaits'
    BY <2>0 DEF UnclaimedInv, QueuedInv, PermitMeansNobodyWaits
  <2>7. CancelInv'
    BY <2>0, NullAssumption, SMTT(60)
       DEF CancelInv, OwnWaiterInv, PhaseInv, UnclaimedInv, ClaimInv, ResumeInv,
           GuardInv, Granted, CancelClaimed, Waiting
  <2>8. ClaimInv'
    BY <2>w, <2>0, NullAssumption, SMTT(60)
       DEF ClaimInv, OwnWaiterInv, PhaseInv, UnclaimedInv, ResumeInv, CancelInv,
           GuardInv, Granted, CancelClaimed, Waiting
  <2>9. ResumeInv'
    BY <2>w, <2>0, NullAssumption, SMTT(60)
       DEF ResumeInv, OwnWaiterInv, PhaseInv, UnclaimedInv, ClaimInv, CancelInv,
           GuardInv, Granted, CancelClaimed, Waiting
  <2>11. WokenInv'
    <3>1. \A f \in Coros : ReleaseWakes(f) => ReleaseWakes(f)'
      BY <2>0 DEF ReleaseWakes
    <3>2. \A f \in Coros \ {e} : ReleaseResumes(f) => ReleaseResumes(f)'
      BY <2>0 DEF ReleaseResumes
    <3>3. \A f \in Coros : CancelWakes(f) => CancelWakes(f)'
      BY <2>0 DEF CancelWakes
    <3> QED
      BY <2>0, <3>1, <3>2, <3>3 DEF WokenInv
  <2> QED BY <2>2, <2>3, <2>4, <2>5, <2>6, <2>7, <2>8, <2>9, <2>11
       DEF SemaphoreInductive
<1>29. ASSUME NEW c \in Coros, CancelRequest(c)
      PROVE  SemaphoreInductive'
  <2>0. /\ kpc[c] = "idle" /\ kpc' = [kpc EXCEPT ![c] = "swap"]
        /\ requested' = [requested EXCEPT ![c] = TRUE]
        /\ UNCHANGED <<pc, state, withToken, immediate, handle, resumed,
             cancelled, phase, callback, kcb, count, waiters, guard, waiter,
             left, toResume, issued, used, dropped>>
    BY <1>29
       DEF CancelRequest, RequestCancellation, Goto, KGoto, semVars, permitVars,
           waitVars, awaiterVars, waiterVars, cancelVars
  <2>2. TypeOK'
    BY <2>0 DEF CancelPoints
  <2>3. GuardInv' /\ PhaseInv' /\ UnclaimedInv' /\ QueuedInv' /\ PermitMeansNobodyWaits'
    BY <2>0 DEF GuardInv, PhaseInv, UnclaimedInv, QueuedInv, PermitMeansNobodyWaits
  <2>4. OwnWaiterInv'
    BY <2>0 DEF OwnWaiterInv
  <2>7. CancelInv'
    BY <2>0 DEF CancelInv
  <2>8. ClaimInv'
    BY <2>0 DEF ClaimInv, Granted, CancelClaimed
  <2>9. ResumeInv'
    BY <2>0 DEF ResumeInv, Granted, CancelClaimed
  <2>11. WokenInv'
    <3>1. \A f \in Coros : /\ ReleaseWakes(f) => ReleaseWakes(f)'
                           /\ ReleaseResumes(f) => ReleaseResumes(f)'
                           /\ CancelWakes(f) => CancelWakes(f)'
      BY <2>0 DEF ReleaseWakes, ReleaseResumes, CancelWakes
    <3> QED
      BY <2>0, <3>1 DEF WokenInv
  <2> QED BY <2>2, <2>3, <2>4, <2>7, <2>8, <2>9, <2>11 DEF SemaphoreInductive
<1>30. ASSUME NEW c \in Coros, SwapCallbacks(c), UNCHANGED semVars
      PROVE  SemaphoreInductive'
  <2>0. /\ kpc[c] = "swap"
        /\ kpc' = [kpc EXCEPT ![c] = IF callback[c] = NoWaiter THEN "done" ELSE "cb_mark"]
        /\ kcb' = [kcb EXCEPT ![c] = callback[c]]
        /\ callback' = [callback EXCEPT ![c] = NoWaiter]
        /\ UNCHANGED <<pc, state, withToken, immediate, handle, resumed,
             cancelled, phase, requested, count, waiters, guard, waiter, left,
             toResume, issued, used, dropped>>
    BY <1>30
       DEF SwapCallbacks, Goto, KGoto, semVars, permitVars, waitVars, awaiterVars,
           waiterVars, cancelVars
  <2>2. TypeOK'
    BY <2>0 DEF CancelPoints
  <2>3. GuardInv' /\ PhaseInv' /\ QueuedInv' /\ PermitMeansNobodyWaits'
    BY <2>0 DEF GuardInv, PhaseInv, QueuedInv, PermitMeansNobodyWaits
  <2>4. OwnWaiterInv'
    BY <2>0 DEF OwnWaiterInv
  <2>6. UnclaimedInv'
    BY <2>0 DEF UnclaimedInv
  <2>7. CancelInv'
    BY <2>0 DEF CancelInv
  <2>8. ClaimInv'
    BY <2>0 DEF ClaimInv, Granted, CancelClaimed
  <2>9. ResumeInv'
    BY <2>0 DEF ResumeInv, Granted, CancelClaimed
  <2>11. WokenInv'
    <3>1. \A f \in Coros : /\ ReleaseWakes(f) => ReleaseWakes(f)'
                           /\ ReleaseResumes(f) => ReleaseResumes(f)'
                           /\ CancelWakes(f) => CancelWakes(f)'
      BY <2>0 DEF ReleaseWakes, ReleaseResumes, CancelWakes
    <3> QED
      BY <2>0, <3>1 DEF WokenInv
  <2> QED BY <2>2, <2>3, <2>4, <2>6, <2>7, <2>8, <2>9, <2>11 DEF SemaphoreInductive
<1>31. ASSUME NEW c \in Coros, InvokeCallback(c), kpc[c] = "cb_mark", resumed[kcb[c]],
             UNCHANGED semVars
      PROVE  SemaphoreInductive'
  <2>0. /\ kpc[c] = "cb_mark" /\ kpc' = [kpc EXCEPT ![c] = "done"]
        /\ kcb' = [kcb EXCEPT ![c] = NoWaiter]
        /\ resumed[kcb[c]] /\ resumed' = [resumed EXCEPT ![kcb[c]] = TRUE]
        /\ UNCHANGED <<pc, state, withToken, immediate, handle, cancelled,
             phase, requested, callback, count, waiters, guard, waiter, left,
             toResume, issued, used, dropped>>
    BY <1>31
       DEF InvokeCallback, MarkResumed, Goto, KGoto, semVars, permitVars, waitVars,
           awaiterVars, waiterVars, cancelVars
  <2>2. TypeOK'
    BY <2>0 DEF CancelPoints
  <2>3. GuardInv'
    BY <2>0 DEF GuardInv
  <2>4. OwnWaiterInv'
    BY <2>0 DEF OwnWaiterInv
  <2>5. PhaseInv'
    BY <2>0 DEF PhaseInv
  <2>6. UnclaimedInv'
    BY <2>0 DEF UnclaimedInv
  <2>7. CancelInv'
    BY <2>0 DEF CancelInv
  <2>8. ClaimInv'
    BY <2>0 DEF ClaimInv, Granted, CancelClaimed
  <2>9. ResumeInv'
    BY <2>0 DEF ResumeInv, Granted, CancelClaimed
  <2>10. QueuedInv'
    BY <2>0 DEF QueuedInv
  <2>11. WokenInv'
    <3>1. \A f \in Coros : /\ ReleaseWakes(f) => ReleaseWakes(f)'
                           /\ ReleaseResumes(f) => ReleaseResumes(f)'
                           /\ CancelWakes(f) => CancelWakes(f)'
      BY <2>0 DEF ReleaseWakes, ReleaseResumes, CancelWakes
    <3> QED
      BY <2>0, <3>1 DEF WokenInv
  <2>12. PermitMeansNobodyWaits'
    BY <2>0 DEF PermitMeansNobodyWaits
  <2> QED BY <2>2, <2>3, <2>4, <2>5, <2>6, <2>7, <2>8, <2>9, <2>10, <2>11, <2>12
       DEF SemaphoreInductive
<1>32. ASSUME NEW c \in Coros, InvokeCallback(c), kpc[c] = "cb_mark", ~resumed[kcb[c]],
             UNCHANGED semVars
      PROVE  SemaphoreInductive'
  <2>0. /\ kpc[c] = "cb_mark" /\ kpc' = [kpc EXCEPT ![c] = "cb_store"]
        /\ ~resumed[kcb[c]] /\ resumed' = [resumed EXCEPT ![kcb[c]] = TRUE]
        /\ UNCHANGED <<pc, state, withToken, immediate, handle, cancelled,
             phase, requested, callback, kcb, count, waiters, guard, waiter,
             left, toResume, issued, used, dropped>>
    BY <1>32
       DEF InvokeCallback, MarkResumed, Goto, KGoto, semVars, permitVars, waitVars,
           awaiterVars, waiterVars, cancelVars
  <2>2. TypeOK'
    BY <2>0 DEF CancelPoints
  <2>3. GuardInv'
    BY <2>0 DEF GuardInv
  <2>4. OwnWaiterInv'
    BY <2>0 DEF OwnWaiterInv
  <2>5. PhaseInv'
    BY <2>0 DEF PhaseInv
  <2>6. UnclaimedInv'
    BY <2>0 DEF UnclaimedInv
  <2>7. CancelInv'
    BY <2>0, NullAssumption DEF CancelInv, OwnWaiterInv, PhaseInv, UnclaimedInv
  <2>8. ClaimInv'
    BY <2>0 DEF ClaimInv, Granted, CancelClaimed
  <2>9. ResumeInv'
    BY <2>0 DEF ResumeInv, OwnWaiterInv, Granted, CancelClaimed
  <2>10. QueuedInv'
    BY <2>0 DEF QueuedInv
  <2>11. WokenInv'
    <3>1. \A f \in Coros : /\ ReleaseWakes(f) => ReleaseWakes(f)'
                           /\ ReleaseResumes(f) => ReleaseResumes(f)'
                           /\ CancelWakes(f) => CancelWakes(f)'
      BY <2>0 DEF ReleaseWakes, ReleaseResumes, CancelWakes
    <3> QED
      BY <2>0, <3>1 DEF WokenInv, OwnWaiterInv, CancelWakes
  <2>12. PermitMeansNobodyWaits'
    BY <2>0 DEF PermitMeansNobodyWaits
  <2> QED BY <2>2, <2>3, <2>4, <2>5, <2>6, <2>7, <2>8, <2>9, <2>10, <2>11, <2>12
       DEF SemaphoreInductive
<1>33. ASSUME NEW c \in Coros, InvokeCallback(c), kpc[c] = "cb_store", UNCHANGED semVars
      PROVE  SemaphoreInductive'
  <2>0. /\ kpc[c] = "cb_store" /\ kpc' = [kpc EXCEPT ![c] = "cb_wake"]
        /\ cancelled' = [cancelled EXCEPT ![kcb[c]] = TRUE]
        /\ UNCHANGED <<pc, state, withToken, immediate, handle, resumed,
             phase, requested, callback, kcb, count, waiters, guard, waiter,
             left, toResume, issued, used, dropped>>
    BY <1>33
       DEF InvokeCallback, Goto, KGoto, semVars, permitVars, waitVars, awaiterVars,
           waiterVars, cancelVars
  <2>2. TypeOK'
    BY <2>0 DEF CancelPoints
  <2>3. GuardInv' /\ UnclaimedInv' /\ QueuedInv' /\ PermitMeansNobodyWaits'
    BY <2>0 DEF GuardInv, UnclaimedInv, QueuedInv, PermitMeansNobodyWaits
  <2>4. OwnWaiterInv'
    BY <2>0 DEF OwnWaiterInv
  <2>5. PhaseInv'
    BY <2>0 DEF PhaseInv, CancelInv
  <2>7. CancelInv'
    BY <2>0 DEF CancelInv, OwnWaiterInv
  <2>8. ClaimInv'
    <3>1. \A e \in Coros \ {c} : Granted(e) => Granted(e)'
      BY <2>0 DEF Granted, CancelClaimed, OwnWaiterInv
    <3>2. \A d \in Coros : pc[d] = "release_wake" => handle[waiter] # c
      BY <2>0 DEF ClaimInv, Granted, CancelClaimed, CancelInv
    <3> QED BY <2>0, <3>1, <3>2 DEF ClaimInv
  <2>9. ResumeInv'
    <3>1. \A e \in Coros \ {c} : Granted(e) => Granted(e)'
      BY <2>0 DEF Granted, CancelClaimed, OwnWaiterInv
    <3>2. \A d \in Coros : c \notin ToSet(toResume[d])
      BY <2>0 DEF ResumeInv, Granted, CancelClaimed, CancelInv
    <3> QED BY <2>0, <3>1, <3>2, ToSetType DEF ResumeInv
  <2>11. WokenInv'
    <3>1. \A f \in Coros : /\ ReleaseWakes(f) => ReleaseWakes(f)'
                           /\ ReleaseResumes(f) => ReleaseResumes(f)'
                           /\ CancelWakes(f) => CancelWakes(f)'
      BY <2>0 DEF ReleaseWakes, ReleaseResumes, CancelWakes
    <3> QED
      BY <2>0, <3>1 DEF WokenInv
  <2> QED BY <2>2, <2>3, <2>4, <2>5, <2>7, <2>8, <2>9, <2>11 DEF SemaphoreInductive
<1>34. ASSUME NEW c \in Coros, InvokeCallback(c), kpc[c] = "cb_wake",
              phase[kcb[c]] = "suspended",
             UNCHANGED semVars
      PROVE  SemaphoreInductive'
  <2>0. /\ kpc[c] = "cb_wake" /\ kpc' = [kpc EXCEPT ![c] = "resume"]
        /\ phase[kcb[c]] = "suspended"
        /\ UNCHANGED <<pc, state, withToken, immediate, handle, resumed,
             cancelled, phase, requested, callback, kcb, count, waiters,
             guard, waiter, left, toResume, issued, used, dropped>>
    BY <1>34
       DEF InvokeCallback, RequestWake, ShouldResumeNow, Goto, KGoto, semVars,
           permitVars, waitVars, awaiterVars, waiterVars, cancelVars
  <2>2. TypeOK'
    BY <2>0 DEF CancelPoints
  <2>3. GuardInv' /\ PhaseInv' /\ UnclaimedInv' /\ QueuedInv' /\ PermitMeansNobodyWaits'
    BY <2>0 DEF GuardInv, PhaseInv, UnclaimedInv, QueuedInv, PermitMeansNobodyWaits
  <2>4. OwnWaiterInv'
    BY <2>0 DEF OwnWaiterInv
  <2>7. CancelInv'
    BY <2>0 DEF CancelInv, OwnWaiterInv, PhaseInv
  <2>8. ClaimInv'
    BY <2>0 DEF ClaimInv, Granted, CancelClaimed
  <2>9. ResumeInv'
    BY <2>0, NullAssumption DEF ResumeInv, OwnWaiterInv, Granted, CancelClaimed
  <2>11. WokenInv'
    <3>1. \A f \in Coros : /\ ReleaseWakes(f) => ReleaseWakes(f)'
                           /\ ReleaseResumes(f) => ReleaseResumes(f)'
                           /\ CancelWakes(f) => CancelWakes(f)'
      BY <2>0 DEF ReleaseWakes, ReleaseResumes, CancelWakes
    <3> QED
      BY <2>0, <3>1 DEF WokenInv
  <2> QED BY <2>2, <2>3, <2>4, <2>7, <2>8, <2>9, <2>11 DEF SemaphoreInductive
<1>35. ASSUME NEW c \in Coros, InvokeCallback(c), kpc[c] = "cb_wake",
              phase[kcb[c]] # "suspended",
             UNCHANGED semVars
      PROVE  SemaphoreInductive'
  <2>0. /\ kpc[c] = "cb_wake" /\ kpc' = [kpc EXCEPT ![c] = "done"]
        /\ phase[kcb[c]] # "suspended"
        /\ kcb' = [kcb EXCEPT ![c] = NoWaiter]
        /\ phase' = [phase EXCEPT ![kcb[c]] = "wake_requested"]
        /\ UNCHANGED <<pc, state, withToken, immediate, handle, resumed,
             cancelled, requested, callback, count, waiters, guard, waiter,
             left, toResume, issued, used, dropped>>
    BY <1>35
       DEF InvokeCallback, RequestWake, ShouldResumeNow, Phases, KGoto, semVars,
           permitVars, awaiterVars
  <2>2. TypeOK'
    BY <2>0 DEF CancelPoints, Phases
  <2>3. GuardInv' /\ QueuedInv' /\ PermitMeansNobodyWaits'
    BY <2>0 DEF GuardInv, QueuedInv, PermitMeansNobodyWaits
  <2>4. OwnWaiterInv'
    BY <2>0 DEF OwnWaiterInv
  <2>5. PhaseInv'
    <3>1. \A e \in Coros \ {c} : state[e] # NoWaiter => state[e] # kcb[c]
      BY <2>0 DEF OwnWaiterInv
    <3>2. state[c] = kcb[c] /\ resumed[kcb[c]] /\ kcb[c] \in Waiters /\ state[c] # NoWaiter
      BY <2>0 DEF OwnWaiterInv, CancelInv
    <3>3. pc[c] = "mark"
      BY <2>0, <3>2 DEF CancelInv, PhaseInv
    <3> QED BY <2>0, <3>2 DEF PhaseInv
  <2>6. UnclaimedInv'
    BY <2>0 DEF UnclaimedInv
  <2>7. CancelInv'
    BY <2>0, NullAssumption DEF CancelInv, OwnWaiterInv
  <2>8. ClaimInv'
    BY <2>0 DEF ClaimInv, CancelInv, Granted, CancelClaimed
  <2>9. ResumeInv'
    BY <2>0 DEF ResumeInv, OwnWaiterInv, Granted, CancelClaimed
  <2>11. WokenInv'
    <3>1. \A f \in Coros : ReleaseWakes(f) => ReleaseWakes(f)'
      BY <2>0 DEF ReleaseWakes
    <3>2. \A f \in Coros : ReleaseResumes(f) => ReleaseResumes(f)'
      BY <2>0 DEF ReleaseResumes
    <3>3. \A f \in Coros \ {c} : CancelWakes(f) => CancelWakes(f)'
      BY <2>0 DEF CancelWakes
    <3> QED
      BY <2>0, <3>1, <3>2, <3>3 DEF WokenInv, CancelInv
  <2> QED BY <2>2, <2>3, <2>4, <2>5, <2>6, <2>7, <2>8, <2>9, <2>11
       DEF SemaphoreInductive
<1>36. ASSUME NEW c \in Coros, CancelResume(c), UNCHANGED semVars
      PROVE  SemaphoreInductive'
  <2>0. /\ kpc[c] = "resume" /\ kpc' = [kpc EXCEPT ![c] = "done"]
        /\ kcb' = [kcb EXCEPT ![c] = NoWaiter]
        /\ pc[c] = "suspended" /\ pc' = [pc EXCEPT ![c] = "resume"]
        /\ UNCHANGED <<state, withToken, immediate, handle, resumed,
             cancelled, phase, requested, callback, count, waiters, guard,
             waiter, left, toResume, issued, used, dropped>>
    BY <1>36
       DEF CancelResume, OwnWaiterInv, CancelInv, Goto, KGoto, semVars, permitVars,
           waitVars, awaiterVars, waiterVars, cancelVars
  <2>2. TypeOK'
    BY <2>0 DEF Points, WaitPoints, CancelPoints
  <2>3. GuardInv'
    BY <2>0 DEF GuardInv
  <2>4. OwnWaiterInv'
    BY <2>0 DEF OwnWaiterInv, Waiting
  <2>5. PhaseInv'
    BY <2>0 DEF PhaseInv, OwnWaiterInv, CancelInv
  <2>6. UnclaimedInv'
    BY <2>0 DEF UnclaimedInv
  <2>7. CancelInv'
    BY <2>0 DEF CancelInv
  <2>8. ClaimInv'
    BY <2>0 DEF ClaimInv, CancelInv, Granted, CancelClaimed
  <2>9. ResumeInv'
    BY <2>0, NullAssumption
       DEF ResumeInv, OwnWaiterInv, CancelInv, GuardInv, Granted, CancelClaimed
  <2>10. QueuedInv' /\ PermitMeansNobodyWaits'
    BY <2>0 DEF QueuedInv, PermitMeansNobodyWaits
  <2>11. WokenInv'
    <3>1. \A f \in Coros : ReleaseWakes(f) => ReleaseWakes(f)'
      BY <2>0 DEF ReleaseWakes
    <3>2. \A f \in Coros : ReleaseResumes(f) => ReleaseResumes(f)'
      BY <2>0 DEF ReleaseResumes
    <3>3. \A f \in Coros \ {c} : CancelWakes(f) => CancelWakes(f)'
      BY <2>0 DEF CancelWakes
    <3> QED
      BY <2>0, <3>1, <3>2, <3>3 DEF WokenInv
  <2> QED BY <2>2, <2>3, <2>4, <2>5, <2>6, <2>7, <2>8, <2>9, <2>10, <2>11
       DEF SemaphoreInductive
<1>37. ASSUME UNCHANGED vars
      PROVE  SemaphoreInductive'
  <2>0. UNCHANGED <<pc, state, withToken, immediate, handle, resumed, cancelled,
                    phase, requested, callback, kpc, kcb, count,
                    waiters, guard, waiter, left, toResume,
                    issued, used, dropped>>
    BY <1>37
       DEF vars, waitVars, semVars, permitVars, awaiterVars, waiterVars, cancelVars
  <2>2. /\ TypeOK' /\ GuardInv' /\ OwnWaiterInv' /\ PhaseInv'
        /\ UnclaimedInv' /\ CancelInv' /\ ClaimInv' /\ ResumeInv'
        /\ QueuedInv' /\ WokenInv' /\ PermitMeansNobodyWaits'
    BY <2>0, SMTT(60)
       DEF TypeOK, WaitTypeOK, GuardInv, OwnWaiterInv, PhaseInv, UnclaimedInv,
           CancelInv, ClaimInv, Granted, CancelClaimed, ResumeInv, QueuedInv,
           WokenInv, ReleaseWakes, ReleaseResumes, CancelWakes,
           PermitMeansNobodyWaits
  <2> QED BY <2>2 DEF SemaphoreInductive
<1> QED
  BY <1>1, <1>2, <1>3, <1>4, <1>5, <1>6, <1>7, <1>8, <1>9, <1>10, <1>11, <1>12,
     <1>13, <1>14, <1>15, <1>16, <1>17, <1>18, <1>19, <1>20, <1>21, <1>22, <1>23,
     <1>24, <1>25, <1>26, <1>27, <1>28, <1>29, <1>30, <1>31, <1>32, <1>33, <1>34,
     <1>35, <1>36, <1>37
     DEF Next, CoroStep, AcquireAwait, AwaiterStep, ReleaseStep, CancellerStep,
         CancelStep, InlineCallback, InvokeCallback, AwaitReady, EnqueueWaiter

(* So it holds throughout.                                                 *)
LEMMA Invariance == Spec => []SemaphoreInductive
<1>1. Init => SemaphoreInductive
  BY InvariantInit
<1>2. SemaphoreInductive /\ [Next]_vars => SemaphoreInductive'
  BY InvariantStep
<1> QED BY <1>1, <1>2, PTL DEF Spec

-----------------------------------------------------------------------------
(* Whoever claims the waiter of a suspended coroutine resumes it, and      *)
(* nobody else does.                                                       *)
LEMMA OneResumer ==
  ASSUME SemaphoreInductive
  PROVE  OneResumerPerSuspension
<1> USE DEF SemaphoreInductive, TypeOK, WaitTypeOK
<1> SUFFICES ASSUME NEW c \in Coros, pc[c] = "suspended"
             PROVE  IF resumed[state[c]] THEN Cardinality(Resumers(c)) = 1
                    ELSE state[c] \in ToSet(waiters) /\ Resumers(c) = {}
  BY DEF OneResumerPerSuspension
<1>1. state[c] \in Waiters /\ handle[state[c]] = c /\ phase[state[c]] = "suspended"
  BY DEF OwnWaiterInv, PhaseInv, Waiting
<1>2. \A d \in Coros : kpc[d] \in {"cb_store", "cb_wake", "resume"} /\ kcb[d] = state[c] => d = c
  BY <1>1 DEF OwnWaiterInv
<1> DEFINE U(d) == \/ c \in ToSet(toResume[d])
                   \/ guard = d /\ pc[d] = "release_wake" /\ waiter = state[c]
           K(d) == kpc[d] \in {"cb_store", "cb_wake", "resume"} /\ kcb[d] = state[c]
<1>3. Resumers(c) = {<<"release", d>> : d \in {d \in Coros : U(d)}}
                      \cup {<<"cancel", d>> : d \in {d \in Coros : K(d)}}
  BY DEF Resumers
<1>4. \A d, e \in Coros : U(d) /\ U(e) => d = e
  BY <1>1 DEF ClaimInv, ResumeInv
<1>5. \A d \in Coros : U(d) => Granted(c)
  BY <1>1 DEF ClaimInv, ResumeInv
<1>6. K(c) => resumed[state[c]] /\ ~Granted(c)
  BY <1>1 DEF CancelInv, PhaseInv, Granted, CancelClaimed
<1>7. \A d \in Coros : K(d) => d = c
  BY <1>2
<1>8. ASSUME resumed[state[c]] PROVE \E d \in Coros : U(d) \/ K(d)
  <2>1. ReleaseWakes(c) \/ ReleaseResumes(c) \/ CancelWakes(c)
    BY <1>1, <1>8, NullAssumption DEF WokenInv
  <2>2. ReleaseWakes(c) => \E d \in Coros : U(d)
    BY DEF ReleaseWakes, GuardInv
  <2>3. ReleaseResumes(c) => \E d \in Coros : U(d)
    BY DEF ReleaseResumes
  <2>4. CancelWakes(c) => K(c)
    BY DEF CancelWakes
  <2> QED BY <2>1, <2>2, <2>3, <2>4
<1> HIDE DEF U, K
<1>9. CASE resumed[state[c]]
  <2>1. PICK d \in Coros : U(d) \/ K(d)
    BY <1>8, <1>9
  <2>2. \E x : Resumers(c) = {x}
    <3>1. ASSUME U(d) PROVE Resumers(c) = {<<"release", d>>}
      BY <1>3, <1>4, <1>5, <1>6, <1>7, <3>1
    <3>2. ASSUME K(d) PROVE Resumers(c) = {<<"cancel", c>>}
      BY <1>3, <1>5, <1>6, <1>7, <3>2
    <3> QED BY <2>1, <3>1, <3>2
  <2> QED BY <1>9, <2>2, FS_Singleton
<1>10. CASE ~resumed[state[c]]
  <2>1. state[c] \in ToSet(waiters)
    BY <1>1, <1>10, NullAssumption DEF QueuedInv
  <2>2. Resumers(c) = {}
    BY <1>3, <1>5, <1>6, <1>7, <1>10 DEF Granted
  <2> QED BY <1>10, <2>1, <2>2
<1> QED BY <1>9, <1>10

(* handle.resume() is only called on suspended coroutines, and release()   *)
(* resumes nobody twice.                                                   *)
LEMMA ResumesSuspended ==
  ASSUME SemaphoreInductive
  PROVE  ResumeOnlySuspended
  BY DEF SemaphoreInductive, ResumeOnlySuspended, ResumeInv, CancelInv, OwnWaiterInv

(* release() never stores a permit that a queued coroutine still waits     *)
(* for, so nobody waits while try_acquire() would succeed.                 *)
THEOREM NobodyWaitsPastAPermit == Spec => []PermitMeansNobodyWaits
<1>1. SemaphoreInductive => PermitMeansNobodyWaits
  BY DEF SemaphoreInductive
<1> QED BY <1>1, Invariance, PTL

(* Every property of SemaphoreInvariant: beside the above, the count stays *)
(* within its limits, release() and the cancelling threads resume each     *)
(* suspended coroutine exactly once, also when one release() claims        *)
(* several waiters, and never one that is not suspended.                   *)
THEOREM NoWakeupIsLostOrSentTwice == Spec => []SemaphoreInvariant
<1>1. SemaphoreInductive => SemaphoreInvariant
  BY OneResumer, ResumesSuspended DEF SemaphoreInductive, SemaphoreInvariant
<1> QED BY <1>1, Invariance, PTL

-----------------------------------------------------------------------------
(* The acquire()s that have a permit.                                      *)
Permits == {c \in Coros : HasPermit(c)}

(* release() has nothing to give away outside its loop.                    *)
LeftInv ==
  \A c \in Coros : pc[c] \notin {"release", "release_loop", "release_wake"} => left[c] = 0

(* A permit taken by one acquire() adds one to those that have one, and a  *)
(* permit used takes one away.                                             *)
LEMMA CountPermits ==
  ASSUME NEW P \in SUBSET Coros, NEW c \in Coros
  PROVE  /\ Cardinality(P) \in Nat
         /\ c \notin P => Cardinality(P \cup {c}) = Cardinality(P) + 1
         /\ c \in P => Cardinality(P \ {c}) = Cardinality(P) - 1
<1>1. IsFiniteSet(P)
  BY CorosAssumption, FS_Subset
<1> QED BY <1>1, FS_CardinalityType, FS_AddElement, FS_RemoveElement

(* What one coroutine's release() has to give away.                        *)
LEMMA UnreleasedType ==
  ASSUME left \in [Coros -> Nat]
  PROVE  Unreleased \in [Coros -> Int] /\ SumFunction(Unreleased) \in Int
<1>1. Unreleased \in [Coros -> Int]
  BY DEF Unreleased
<1>2. ASSUME NEW x \in Coros PROVE SumFunction(Unreleased) \in Int
  BY <1>1, CorosAssumption, SumChange
<1>3. ASSUME Coros = {} PROVE SumFunction(Unreleased) \in Int
  <2>1. \A x \in Coros : Unreleased[x] = 0
    BY <1>3
  <2>2. SumFunction(Unreleased) = 0
    BY <1>1, <2>1, CorosAssumption, SumOfZeros
  <2> QED BY <2>2
<1> QED BY <1>1, <1>2, <1>3

(* The sum over all of them, when one changes by k.                        *)
LEMMA UnreleasedChanges ==
  ASSUME left \in [Coros -> Nat], left' \in [Coros -> Nat],
         NEW c \in Coros, NEW k \in Int, Unreleased'[c] = Unreleased[c] + k,
         \A d \in Coros \ {c} : Unreleased'[d] = Unreleased[d]
  PROVE  /\ SumFunction(Unreleased) \in Int
         /\ SumFunction(Unreleased') = SumFunction(Unreleased) + k
<1>1. Unreleased \in [Coros -> Int] /\ Unreleased' \in [Coros -> Int]
  BY DEF Unreleased
<1> DEFINE f == Unreleased
           g == Unreleased'
<1>2. \A d \in Coros \ {c} : g[d] = f[d]
  OBVIOUS
<1>3. g[c] = f[c] + k /\ f[c] \in Int /\ g[c] \in Int
  BY <1>1
<1>4. f \in [Coros -> Int] /\ g \in [Coros -> Int]
  BY <1>1
<1> HIDE DEF f, g
<1>5. /\ SumFunction(f) \in Int /\ SumFunction(g) \in Int
      /\ SumFunction(g) = SumFunction(f) + g[c] - f[c]
  BY <1>2, <1>4, CorosAssumption, SumChange
<1>6. SumFunction(g) = SumFunction(f) + k
  BY <1>3, <1>5
<1> QED BY <1>5, <1>6 DEF f, g

(* A step that moves no permit.                                            *)
LEMMA NoPermitMoves ==
  ASSUME left \in [Coros -> Nat], PermitsConserved, LeftInv,
         UNCHANGED <<count, left, issued, used, dropped>>,
         \A c \in Coros :
           /\ HasPermit(c)' <=> HasPermit(c)
           /\ pc'[c] = "release_wake" <=> pc[c] = "release_wake"
           /\ pc'[c] \notin {"release", "release_loop", "release_wake"} => left[c] = 0
  PROVE  PermitsConserved' /\ LeftInv'
<1>1. Permits' = Permits
  BY DEF Permits
<1>2. Unreleased' = Unreleased
  BY DEF Unreleased
<1>3. SumFunction(Unreleased)' = SumFunction(Unreleased)
  BY <1>2
<1>4. LeftInv'
  BY DEF LeftInv
<1> QED BY <1>1, <1>3, <1>4 DEF PermitsConserved, Permits

(* A step keeps the balance when what it issues is what the parts gain.    *)
LEMMA LedgerBalances ==
  ASSUME PermitsConserved,
         issued \in Int, count \in Int, used \in Int, dropped \in Int,
         count' \in Int, used' \in Int, dropped' \in Int,
         Cardinality(Permits) \in Int, Cardinality(Permits') \in Int,
         SumFunction(Unreleased) \in Int, SumFunction(Unreleased') \in Int,
         issued' = issued + (count' - count) + (used' - used) + (dropped' - dropped)
                     + (Cardinality(Permits') - Cardinality(Permits))
                     + (SumFunction(Unreleased') - SumFunction(Unreleased))
  PROVE  PermitsConserved'
<1>1. issued = count + used + dropped + Cardinality(Permits) + SumFunction(Unreleased)
  BY DEF PermitsConserved, Permits
<1>2. issued' = count' + used' + dropped' + Cardinality(Permits')
                  + SumFunction(Unreleased')
  BY <1>1
<1> QED BY <1>2 DEF PermitsConserved, Permits

(* A new semaphore has all of its permits in the count.                    *)
LEMMA PermitsInit == Init => PermitsConserved /\ LeftInv
<1> SUFFICES ASSUME Init PROVE PermitsConserved /\ LeftInv
  OBVIOUS
<1> USE DEF Init, WaitInit
<1>1. Permits = {}
  BY DEF Permits, HasPermit, Granted
<1>2. Unreleased \in [Coros -> Int] /\ \A c \in Coros : Unreleased[c] = 0
  BY DEF Unreleased
<1>3. SumFunction(Unreleased) = 0
  BY <1>2, CorosAssumption, SumOfZeros
<1>4. Cardinality(Permits) = 0
  BY <1>1, FS_EmptySet
<1>5. PermitsConserved
  BY <1>3, <1>4, CountAssumption DEF PermitsConserved, Permits
<1> QED BY <1>5 DEF LeftInv

(* Conservation is preserved: most steps move no permit, and those that do *)
(* take it from one place and put it in another.                           *)
LEMMA PermitsStep ==
  ASSUME SemaphoreInductive, PermitsConserved, LeftInv, [Next]_vars
  PROVE  PermitsConserved' /\ LeftInv'
<1> USE DEF SemaphoreInductive, TypeOK, WaitTypeOK
<1>1. ASSUME NEW c \in Coros, Acquire(c)
      PROVE  PermitsConserved' /\ LeftInv'
  <2>0. /\ pc[c] = "idle" /\ pc' = [pc EXCEPT ![c] = "ready"]
        /\ UNCHANGED <<state, immediate, resumed, cancelled, kpc, kcb, count, left,
             issued, used, dropped>>
    BY <1>1
       DEF Acquire, BeginWait, Goto, KGoto, semVars, permitVars, waitVars,
           awaiterVars, waiterVars, cancelVars
  <2>1. \A e \in Coros : HasPermit(e)' <=> HasPermit(e)
    BY <2>0, NullAssumption
       DEF HasPermit, Granted, CancelClaimed, OwnWaiterInv, PhaseInv, CancelInv,
           Waiting
  <2> QED BY <2>0, <2>1, NoPermitMoves DEF LeftInv
<1>2. ASSUME NEW c \in Coros, AwaitReadyToken(c) \/ AwaitSuspendToken(c), UNCHANGED semVars
      PROVE  PermitsConserved' /\ LeftInv'
  <2> PICK p \in {"try", "enqueue", "resume"}, b \in BOOLEAN :
        /\ pc[c] \in {"ready", "suspend"} /\ pc' = [pc EXCEPT ![c] = p]
        /\ immediate' = [immediate EXCEPT ![c] = b] /\ (p = "resume" => b)
        /\ UNCHANGED <<state, resumed, cancelled, kpc, kcb, count, left, issued,
                       used, dropped>>
    <3>1. TokenCancelled(c) \in BOOLEAN
      BY DEF TokenCancelled
    <3>2. CASE TokenCancelled(c)
      BY <1>2, <3>2
         DEF AwaitReadyToken, AwaitSuspendToken, CheckToken, Goto, semVars,
             permitVars, waiterVars, cancelVars
    <3>3. ASSUME ~TokenCancelled(c)
          PROVE  /\ pc[c] \in {"ready", "suspend"}
                 /\ \E p \in {"try", "enqueue"} : pc' = [pc EXCEPT ![c] = p]
                 /\ immediate' = [immediate EXCEPT ![c] = FALSE]
                 /\ UNCHANGED <<state, resumed, cancelled, kpc, kcb, count, left,
                                issued, used, dropped>>
      <4>1. TokenCancelled(c) = FALSE
        BY <3>1, <3>3
      <4>2. CASE AwaitReadyToken(c)
        BY <1>2, <4>1, <4>2 DEF AwaitReadyToken, CheckToken, Goto, semVars,
                                permitVars, waiterVars, cancelVars
      <4>3. CASE AwaitSuspendToken(c)
        BY <1>2, <4>1, <4>3 DEF AwaitSuspendToken, CheckToken, Goto, semVars,
                                permitVars, waiterVars, cancelVars
      <4> QED BY <1>2, <4>2, <4>3
    <3> QED BY <3>2, <3>3
  <2>1. \A e \in Coros : HasPermit(e)' <=> HasPermit(e)
    BY NullAssumption
       DEF HasPermit, Granted, CancelClaimed, OwnWaiterInv, PhaseInv, CancelInv,
           Waiting
  <2> QED BY <2>1, NoPermitMoves DEF LeftInv
<1>3. ASSUME NEW c \in Coros, Register(c), UNCHANGED semVars
      PROVE  PermitsConserved' /\ LeftInv'
  <2>0. /\ pc[c] = "register"
        /\ \E p \in {"cb_mark", "mark"} : pc' = [pc EXCEPT ![c] = p]
        /\ UNCHANGED <<state, immediate, resumed, cancelled, kpc, kcb, count, left,
             issued, used, dropped>>
    BY <1>3
       DEF Register, Goto, KGoto, semVars, permitVars, waitVars, awaiterVars,
           waiterVars, cancelVars
  <2>1. \A e \in Coros : HasPermit(e)' <=> HasPermit(e)
    BY <2>0, NullAssumption
       DEF HasPermit, Granted, CancelClaimed, OwnWaiterInv, PhaseInv, CancelInv,
           Waiting
  <2> QED BY <2>0, <2>1, NoPermitMoves DEF LeftInv
<1>4. ASSUME NEW c \in Coros, InlineCallback(c), pc[c] = "cb_mark", UNCHANGED semVars
      PROVE  PermitsConserved' /\ LeftInv'
  <2>0. /\ pc[c] = "cb_mark"
        /\ pc' = [pc EXCEPT ![c] = IF resumed[state[c]] THEN "mark" ELSE "cb_store"]
        /\ resumed' = [resumed EXCEPT ![state[c]] = TRUE]
        /\ UNCHANGED <<state, immediate, cancelled, kpc, kcb, count, left, issued,
             used, dropped>>
    BY <1>4
       DEF InlineCallback, MarkResumed, Goto, KGoto, semVars, permitVars, waitVars,
           awaiterVars, waiterVars, cancelVars
  <2>1. \A e \in Coros : HasPermit(e)' <=> HasPermit(e)
    BY <2>0, NullAssumption
       DEF HasPermit, Granted, CancelClaimed, OwnWaiterInv, PhaseInv, CancelInv,
           Waiting
  <2> QED BY <2>0, <2>1, NoPermitMoves DEF LeftInv
<1>5. ASSUME NEW c \in Coros, InlineCallback(c), pc[c] = "cb_store", UNCHANGED semVars
      PROVE  PermitsConserved' /\ LeftInv'
  <2>0. /\ pc[c] = "cb_store" /\ pc' = [pc EXCEPT ![c] = "cb_wake"]
        /\ cancelled' = [cancelled EXCEPT ![state[c]] = TRUE]
        /\ UNCHANGED <<state, immediate, resumed, kpc, kcb, count, left, issued,
             used, dropped>>
    BY <1>5
       DEF InlineCallback, Goto, KGoto, semVars, permitVars, waitVars, awaiterVars,
           waiterVars, cancelVars
  <2>1. \A e \in Coros : HasPermit(e)' <=> HasPermit(e)
    BY <2>0, NullAssumption
       DEF HasPermit, Granted, CancelClaimed, OwnWaiterInv, PhaseInv, CancelInv,
           Waiting
  <2> QED BY <2>0, <2>1, NoPermitMoves DEF LeftInv
<1>6. ASSUME NEW c \in Coros, InlineCallback(c), pc[c] = "cb_wake", UNCHANGED semVars
      PROVE  PermitsConserved' /\ LeftInv'
  <2>0. /\ pc[c] = "cb_wake" /\ pc' = [pc EXCEPT ![c] = "mark"]
        /\ UNCHANGED <<state, immediate, resumed, cancelled, kpc, kcb, count, left,
             issued, used, dropped>>
    BY <1>6
       DEF InlineCallback, Goto, KGoto, semVars, permitVars, waitVars, awaiterVars,
           waiterVars, cancelVars
  <2>1. \A e \in Coros : HasPermit(e)' <=> HasPermit(e)
    BY <2>0, NullAssumption
       DEF HasPermit, Granted, CancelClaimed, OwnWaiterInv, PhaseInv, CancelInv,
           Waiting
  <2> QED BY <2>0, <2>1, NoPermitMoves DEF LeftInv
<1>7. ASSUME NEW c \in Coros, TryMarkSuspended(c), UNCHANGED semVars
      PROVE  PermitsConserved' /\ LeftInv'
  <2>0. /\ pc[c] = "mark"
        /\ \E p \in {"suspended", "resume"} : pc' = [pc EXCEPT ![c] = p]
        /\ UNCHANGED <<state, immediate, resumed, cancelled, kpc, kcb, count, left,
             issued, used, dropped>>
    BY <1>7
       DEF TryMarkSuspended, Goto, KGoto, semVars, permitVars, waitVars,
           awaiterVars, waiterVars, cancelVars
  <2>1. \A e \in Coros : HasPermit(e)' <=> HasPermit(e)
    BY <2>0, NullAssumption
       DEF HasPermit, Granted, CancelClaimed, OwnWaiterInv, PhaseInv, CancelInv,
           Waiting
  <2> QED BY <2>0, <2>1, NoPermitMoves DEF LeftInv
<1>8. ASSUME NEW c \in Coros, AwaitReady(c), count = 0
      PROVE  PermitsConserved' /\ LeftInv'
  <2>0. /\ pc[c] = "try" /\ pc' = [pc EXCEPT ![c] = "suspend"]
        /\ UNCHANGED <<state, immediate, resumed, cancelled, kpc, kcb, count, left,
             issued, used, dropped>>
    BY <1>8
       DEF AwaitReady, Goto, KGoto, semVars, permitVars, waitVars, awaiterVars,
           waiterVars, cancelVars
  <2>1. \A e \in Coros : HasPermit(e)' <=> HasPermit(e)
    BY <2>0, NullAssumption
       DEF HasPermit, Granted, CancelClaimed, OwnWaiterInv, PhaseInv, CancelInv,
           Waiting
  <2> QED BY <2>0, <2>1, NoPermitMoves DEF LeftInv
<1>9. ASSUME NEW c \in Coros, AwaitReady(c), count > 0
      PROVE  PermitsConserved' /\ LeftInv'
  <2>0. /\ pc[c] = "try" /\ pc' = [pc EXCEPT ![c] = "resume"]
        /\ count > 0 /\ count' = count - 1
        /\ UNCHANGED <<state, immediate, resumed, cancelled, kpc, kcb, left, issued,
                       used, dropped>>
    BY <1>9 DEF AwaitReady, Goto, permitVars, awaiterVars, waiterVars, cancelVars
  <2>1. Permits' = Permits \cup {c} /\ c \notin Permits
    <3>1. \A d \in Coros \ {c} : HasPermit(d)' <=> HasPermit(d)
      BY <2>0 DEF HasPermit, Granted, CancelClaimed
    <3>2. HasPermit(c)' /\ ~HasPermit(c)
      BY <2>0 DEF HasPermit, Granted, OwnWaiterInv, Waiting
    <3> QED BY <3>1, <3>2 DEF Permits
  <2>2. Unreleased' = Unreleased
    BY <2>0 DEF Unreleased
  <2>3. Permits \in SUBSET Coros
    BY DEF Permits
  <2>4. Cardinality(Permits') = Cardinality(Permits) + 1 /\ Cardinality(Permits) \in Nat
    BY <2>1, <2>3, CountPermits
  <2>5. /\ SumFunction(Unreleased') = SumFunction(Unreleased)
        /\ SumFunction(Unreleased) \in Int
    BY <2>2, UnreleasedType
  <2>6. PermitsConserved'
    BY <2>0, <2>4, <2>5 DEF PermitsConserved, Permits
  <2> QED BY <2>0, <2>6 DEF LeftInv
<1>10. ASSUME NEW c \in Coros, EnqueueWaiter(c), count > 0
      PROVE  PermitsConserved' /\ LeftInv'
  <2>0. /\ pc[c] = "enqueue" /\ pc' = [pc EXCEPT ![c] = "resume"]
        /\ count > 0 /\ count' = count - 1
        /\ UNCHANGED <<state, immediate, resumed, cancelled, kpc, kcb, left, issued,
                       used, dropped>>
    BY <1>10 DEF EnqueueWaiter, Goto, permitVars, awaiterVars, waiterVars, cancelVars
  <2>1. Permits' = Permits \cup {c} /\ c \notin Permits
    <3>1. \A d \in Coros \ {c} : HasPermit(d)' <=> HasPermit(d)
      BY <2>0 DEF HasPermit, Granted, CancelClaimed
    <3>2. HasPermit(c)' /\ ~HasPermit(c)
      BY <2>0 DEF HasPermit, Granted, OwnWaiterInv, Waiting
    <3> QED BY <3>1, <3>2 DEF Permits
  <2>2. Unreleased' = Unreleased
    BY <2>0 DEF Unreleased
  <2>3. Permits \in SUBSET Coros
    BY DEF Permits
  <2>4. Cardinality(Permits') = Cardinality(Permits) + 1 /\ Cardinality(Permits) \in Nat
    BY <2>1, <2>3, CountPermits
  <2>5. /\ SumFunction(Unreleased') = SumFunction(Unreleased)
        /\ SumFunction(Unreleased) \in Int
    BY <2>2, UnreleasedType
  <2>6. PermitsConserved'
    BY <2>0, <2>4, <2>5 DEF PermitsConserved, Permits
  <2> QED BY <2>0, <2>6 DEF LeftInv
<1>11. ASSUME NEW c \in Coros, EnqueueWaiter(c), count = 0
      PROVE  PermitsConserved' /\ LeftInv'
  <2> DEFINE w == NewAddress
  <2>w. /\ w \in Waiters
        /\ \A e \in Coros : state[e] # w /\ kcb[e] # w
    BY <1>11, NewAddressIsFree DEF EnqueueWaiter
  <2>1. /\ NewWaiter(c, w) /\ pc[c] = "enqueue"
        /\ UNCHANGED <<count, left, issued, used, dropped>>
    BY <1>11 DEF EnqueueWaiter, permitVars
  <2> HIDE DEF w
  <2>2. PICK p \in {"register", "mark"} : pc' = [pc EXCEPT ![c] = p]
    BY <2>1 DEF NewWaiter, Goto
  <2>0. /\ state[c] = NoWaiter
        /\ state' = [state EXCEPT ![c] = w]
        /\ resumed' = [resumed EXCEPT ![w] = FALSE]
        /\ cancelled' = [cancelled EXCEPT ![w] = FALSE]
        /\ UNCHANGED <<immediate, kpc, kcb>>
    BY <2>1 DEF NewWaiter, OwnWaiterInv, Waiting, cancelVars
  <2>3. \A d \in Coros \ {c} : HasPermit(d)' <=> HasPermit(d)
    BY <2>w, <2>0, <2>2, NullAssumption DEF HasPermit, Granted, CancelClaimed
  <2>4. ~HasPermit(c)' /\ ~HasPermit(c)
    BY <2>w, <2>0, <2>1, <2>2 DEF HasPermit, Granted
  <2>5. \A d \in Coros : HasPermit(d)' <=> HasPermit(d)
    BY <2>3, <2>4
  <2> QED BY <2>1, <2>2, <2>5, NoPermitMoves DEF LeftInv
<1>12. ASSUME NEW c \in Coros, TryAcquire(c)
      PROVE  PermitsConserved' /\ LeftInv'
  <2>0. /\ count > 0 /\ count' = count - 1 /\ used' = used + 1
        /\ UNCHANGED <<pc, state, immediate, resumed, cancelled, kpc, kcb, left,
                       issued, dropped>>
    BY <1>12 DEF TryAcquire, waitVars, awaiterVars, waiterVars, cancelVars
  <2>1. Permits' = Permits /\ Unreleased' = Unreleased
    BY <2>0 DEF Permits, HasPermit, Granted, CancelClaimed, Unreleased
  <2>2. Permits \in SUBSET Coros
    BY DEF Permits
  <2>3. Cardinality(Permits) \in Nat /\ SumFunction(Unreleased) \in Int
    BY <2>2, CountPermits, UnreleasedType
  <2>4. PermitsConserved'
    BY <2>0, <2>1, <2>3, LedgerBalances
  <2> QED BY <2>0, <2>4 DEF LeftInv
<1>13. ASSUME NEW c \in Coros, AcquireResume(c), Throws(c)
      PROVE  PermitsConserved' /\ LeftInv'
  <2>0. /\ pc[c] = "resume" /\ pc' = [pc EXCEPT ![c] = "idle"]
        /\ state' = [state EXCEPT ![c] = NoWaiter]
        /\ immediate' = [immediate EXCEPT ![c] = FALSE]
        /\ UNCHANGED <<resumed, cancelled, kpc, kcb, count, left, issued, used, dropped>>
    BY <1>13 DEF AcquireResume, AwaitResume, Goto, waiterVars
  <2>1. \A d \in Coros : HasPermit(d)' <=> HasPermit(d)
    <3>1. \A d \in Coros \ {c} : HasPermit(d)' <=> HasPermit(d)
      BY <2>0 DEF HasPermit, Granted, CancelClaimed
    <3>2. ~HasPermit(c)' /\ ~HasPermit(c)
      BY <1>13, <2>0 DEF HasPermit, Granted, Throws, OwnWaiterInv
    <3> QED BY <3>1, <3>2
  <2> QED BY <2>0, <2>1, NoPermitMoves DEF LeftInv
<1>14. ASSUME NEW c \in Coros, AcquireResume(c), ~Throws(c)
      PROVE  PermitsConserved' /\ LeftInv'
  <2>0. /\ pc[c] = "resume" /\ pc' = [pc EXCEPT ![c] = "idle"]
        /\ state' = [state EXCEPT ![c] = NoWaiter]
        /\ immediate' = [immediate EXCEPT ![c] = FALSE]
        /\ used' = used + 1
        /\ UNCHANGED <<resumed, cancelled, kpc, kcb, count, left, issued, dropped>>
    BY <1>14 DEF AcquireResume, AwaitResume, Goto, waiterVars
  <2>1. Permits' = Permits \ {c} /\ c \in Permits
    <3>1. \A d \in Coros \ {c} : HasPermit(d)' <=> HasPermit(d)
      BY <2>0 DEF HasPermit, Granted, CancelClaimed
    <3>2. ~HasPermit(c)' /\ HasPermit(c)
      BY <1>14, <2>0 DEF HasPermit, Granted, Throws, CancelClaimed, PhaseInv, CancelInv
    <3> QED BY <3>1, <3>2 DEF Permits
  <2>2. Unreleased' = Unreleased
    BY <2>0 DEF Unreleased
  <2>3. Permits \in SUBSET Coros
    BY DEF Permits
  <2>4. Cardinality(Permits') = Cardinality(Permits) - 1 /\ Cardinality(Permits) \in Nat
    BY <2>1, <2>3, CountPermits
  <2>5. /\ SumFunction(Unreleased') = SumFunction(Unreleased)
        /\ SumFunction(Unreleased) \in Int
    BY <2>2, UnreleasedType
  <2>6. PermitsConserved'
    BY <2>0, <2>4, <2>5 DEF PermitsConserved, Permits
  <2> QED BY <2>0, <2>6 DEF LeftInv
<1>15. ASSUME NEW c \in Coros, Release(c)
      PROVE  PermitsConserved' /\ LeftInv'
  <2> PICK update \in Nat :
        /\ pc[c] = "idle" /\ pc' = [pc EXCEPT ![c] = "release"]
        /\ left' = [left EXCEPT ![c] = update] /\ issued' = issued + update
        /\ UNCHANGED <<state, immediate, resumed, cancelled, kpc, kcb, count, used,
                       dropped>>
    BY <1>15, CountAssumption DEF Release, Goto, awaiterVars, waiterVars, cancelVars
  <2>1. Permits' = Permits
    BY DEF Permits, HasPermit, Granted, CancelClaimed
  <2>2. left[c] = 0
    BY DEF LeftInv
  <2>3. SumFunction(Unreleased') = SumFunction(Unreleased) + update
        /\ SumFunction(Unreleased) \in Int
    <3>1. Unreleased'[c] = Unreleased[c] + update
      BY <2>2 DEF Unreleased
    <3>2. \A d \in Coros \ {c} : Unreleased'[d] = Unreleased[d]
      BY DEF Unreleased
    <3> QED BY <3>1, <3>2, UnreleasedChanges
  <2>4. Cardinality(Permits) \in Nat
    <3>1. Permits \in SUBSET Coros
      BY DEF Permits
    <3> QED BY <3>1, CountPermits
  <2>5. PermitsConserved'
    BY <2>1, <2>3, <2>4, LedgerBalances
  <2> QED BY <2>5 DEF LeftInv
<1>16. ASSUME NEW c \in Coros, ReleaseGuard(c)
      PROVE  PermitsConserved' /\ LeftInv'
  <2>0. /\ pc[c] = "release" /\ pc' = [pc EXCEPT ![c] = "release_loop"]
        /\ UNCHANGED <<state, immediate, resumed, cancelled, kpc, kcb, count, left,
             issued, used, dropped>>
    BY <1>16
       DEF ReleaseGuard, Goto, KGoto, semVars, permitVars, waitVars, awaiterVars,
           waiterVars, cancelVars
  <2>1. \A e \in Coros : HasPermit(e)' <=> HasPermit(e)
    BY <2>0, NullAssumption
       DEF HasPermit, Granted, CancelClaimed, OwnWaiterInv, PhaseInv, CancelInv,
           Waiting
  <2> QED BY <2>0, <2>1, NoPermitMoves DEF LeftInv
<1>17. ASSUME NEW c \in Coros, ReleaseLoop(c), waiters = <<>>
      PROVE  PermitsConserved' /\ LeftInv'
  <2>0. /\ pc[c] = "release_loop" /\ left[c] > 0 /\ left' = [left EXCEPT ![c] = left[c] - 1]
        /\ UNCHANGED <<pc, state, immediate, resumed, cancelled, kpc, kcb, issued, used>>
    BY <1>17 DEF ReleaseLoop, StorePermit, ClaimWaiter, awaiterVars, waiterVars, cancelVars
  <2>s. StorePermit(c)
    BY <1>17 DEF ReleaseLoop, ClaimWaiter
  <2>1. \/ count' = count + 1 /\ dropped' = dropped
        \/ count' = count /\ dropped' = dropped + 1
    BY <2>s DEF StorePermit
  <2>2. Permits' = Permits
    BY <2>0 DEF Permits, HasPermit, Granted, CancelClaimed
  <2>3. SumFunction(Unreleased') = SumFunction(Unreleased) - 1
        /\ SumFunction(Unreleased) \in Int
    <3>1. Unreleased'[c] = Unreleased[c] + (-1)
      BY <2>0 DEF Unreleased
    <3>2. \A d \in Coros \ {c} : Unreleased'[d] = Unreleased[d]
      BY <2>0 DEF Unreleased
    <3>3. left' \in [Coros -> Nat] /\ -1 \in Int
      BY <2>0
    <3>4. /\ SumFunction(Unreleased') = SumFunction(Unreleased) + (-1)
          /\ SumFunction(Unreleased) \in Int
      BY <3>1, <3>2, <3>3, UnreleasedChanges
    <3> QED BY <3>4
  <2>4. Cardinality(Permits) \in Nat
    <3>1. Permits \in SUBSET Coros
      BY DEF Permits
    <3> QED BY <3>1, CountPermits
  <2>5. PermitsConserved'
    <3>1. issued' = issued /\ used' = used
      BY <2>0
    <3>2. CASE count' = count + 1 /\ dropped' = dropped
      BY <2>2, <2>3, <2>4, <3>1, <3>2, LedgerBalances
    <3>3. CASE count' = count /\ dropped' = dropped + 1
      BY <2>2, <2>3, <2>4, <3>1, <3>3, LedgerBalances
    <3> QED BY <2>1, <3>2, <3>3
  <2> QED BY <2>0, <2>5 DEF LeftInv
<1>18. ASSUME NEW c \in Coros, ReleaseLoop(c), waiters # <<>>, resumed[Head(waiters)]
      PROVE  PermitsConserved' /\ LeftInv'
  <2> DEFINE w == Head(waiters)
  <2>w. w \in Waiters /\ w \in ToSet(waiters)
    BY <1>18, ToSetTail
  <2>0. UNCHANGED <<pc, state, immediate, resumed, cancelled, kpc, kcb, count, left,
                    issued, used, dropped>>
    <3>1. ClaimWaiter(c) /\ UNCHANGED <<awaiterVars, cancelVars, issued, used>>
      BY <1>18 DEF ReleaseLoop, StorePermit
    <3>2. /\ resumed' = [resumed EXCEPT ![w] = TRUE]
          /\ UNCHANGED <<pc, cancelled, count, left, dropped>>
      BY <1>18, <3>1 DEF ClaimWaiter, MarkResumed
    <3>3. resumed' = resumed
      BY <1>18, <2>w, <3>2
    <3> QED BY <3>1, <3>2, <3>3 DEF awaiterVars, cancelVars
  <2>1. \A d \in Coros : HasPermit(d)' <=> HasPermit(d)
    BY <2>0 DEF HasPermit, Granted, CancelClaimed
  <2> QED BY <2>0, <2>1, NoPermitMoves DEF LeftInv
<1>19. ASSUME NEW c \in Coros, ReleaseLoop(c), waiters # <<>>, ~resumed[Head(waiters)]
      PROVE  PermitsConserved' /\ LeftInv'
  <2> DEFINE w == Head(waiters)
  <2>w. w \in Waiters /\ w \in ToSet(waiters)
    BY <1>19, ToSetTail
  <2>0. /\ pc[c] = "release_loop" /\ pc' = [pc EXCEPT ![c] = "release_wake"]
        /\ ~resumed[w] /\ resumed' = [resumed EXCEPT ![w] = TRUE]
        /\ UNCHANGED <<state, immediate, cancelled, kpc, kcb, count, left, issued,
                       used, dropped>>
    BY <1>19
       DEF ReleaseLoop, StorePermit, ClaimWaiter, MarkResumed, awaiterVars, cancelVars, Goto
  <2> HIDE DEF w
  <2>e. PICK e \in Coros : state[e] = w /\ handle[w] = e
    BY <2>w, <2>0 DEF UnclaimedInv
  <2>1. Permits' = Permits \cup {e} /\ e \notin Permits
    <3>1. \A d \in Coros \ {e} : state[d] # w
      BY <2>w, <2>e, NullAssumption DEF OwnWaiterInv
    <3>2. \A d \in Coros \ {e} : HasPermit(d)' <=> HasPermit(d)
      BY <2>0, <3>1 DEF HasPermit, Granted, CancelClaimed
    <3>3. w # NoWaiter /\ ~cancelled[w] /\ ~CancelClaimed(e)
      BY <2>w, <2>0, <2>e, NullAssumption DEF PhaseInv, CancelInv, CancelClaimed
    <3>4. ~HasPermit(e)
      BY <2>w, <2>0, <2>e, <3>3 DEF HasPermit, Granted
    <3>5. pc[e] # "release_loop"
      BY <2>e, <3>3 DEF OwnWaiterInv, Waiting
    <3>6. HasPermit(e)'
      BY <2>w, <2>0, <2>e, <3>3, <3>5 DEF HasPermit, Granted, CancelClaimed
    <3> QED BY <3>2, <3>4, <3>6 DEF Permits
  <2>2. SumFunction(Unreleased') = SumFunction(Unreleased) - 1
        /\ SumFunction(Unreleased) \in Int
    <3>1. Unreleased'[c] = Unreleased[c] + (-1)
      BY <2>0 DEF Unreleased
    <3>2. \A d \in Coros \ {c} : Unreleased'[d] = Unreleased[d]
      BY <2>0 DEF Unreleased
    <3>3. left' \in [Coros -> Nat] /\ -1 \in Int
      BY <2>0
    <3>4. /\ SumFunction(Unreleased') = SumFunction(Unreleased) + (-1)
          /\ SumFunction(Unreleased) \in Int
      BY <3>1, <3>2, <3>3, UnreleasedChanges
    <3> QED BY <3>4
  <2>3. Permits \in SUBSET Coros
    BY DEF Permits
  <2>4. Cardinality(Permits') = Cardinality(Permits) + 1 /\ Cardinality(Permits) \in Nat
    BY <2>1, <2>3, CountPermits
  <2>5. PermitsConserved'
    BY <2>0, <2>2, <2>4 DEF PermitsConserved, Permits
  <2> QED BY <2>0, <2>5 DEF LeftInv
<1>20. ASSUME NEW c \in Coros, ReleaseWake(c)
      PROVE  PermitsConserved' /\ LeftInv'
  <2>0. /\ pc[c] = "release_wake" /\ pc' = [pc EXCEPT ![c] = "release_loop"]
        /\ left[c] > 0 /\ left' = [left EXCEPT ![c] = left[c] - 1]
        /\ UNCHANGED <<state, immediate, resumed, cancelled, kpc, kcb, count, issued,
                       used, dropped>>
    BY <1>20 DEF ReleaseWake, GuardInv, Goto, permitVars, awaiterVars, cancelVars
  <2>1. Permits' = Permits
    BY <2>0 DEF Permits, HasPermit, Granted, CancelClaimed
  <2>2. Unreleased' = Unreleased
    BY <2>0 DEF Unreleased
  <2>3. PermitsConserved'
    BY <2>0, <2>1, <2>2 DEF PermitsConserved, Permits
  <2> QED BY <2>0, <2>3 DEF LeftInv
<1>21. ASSUME NEW c \in Coros, ReleaseUnguard(c)
      PROVE  PermitsConserved' /\ LeftInv'
  <2>0. /\ pc[c] = "release_loop" /\ left[c] = 0
        /\ pc' = [pc EXCEPT ![c] = "release_resume"]
        /\ UNCHANGED <<state, immediate, resumed, cancelled, kpc, kcb, count, left,
             issued, used, dropped>>
    BY <1>21
       DEF ReleaseUnguard, Goto, KGoto, semVars, permitVars, waitVars, awaiterVars,
           waiterVars, cancelVars
  <2>1. \A e \in Coros : HasPermit(e)' <=> HasPermit(e)
    BY <2>0, NullAssumption
       DEF HasPermit, Granted, CancelClaimed, OwnWaiterInv, PhaseInv, CancelInv,
           Waiting
  <2> QED BY <2>0, <2>1, NoPermitMoves DEF LeftInv
<1>22. ASSUME NEW c \in Coros, ReleaseResume(c), toResume[c] = <<>>
      PROVE  PermitsConserved' /\ LeftInv'
  <2>0. /\ pc[c] = "release_resume" /\ pc' = [pc EXCEPT ![c] = "idle"]
        /\ UNCHANGED <<state, immediate, resumed, cancelled, kpc, kcb, count, left,
             issued, used, dropped>>
    BY <1>22
       DEF ReleaseResume, Goto, KGoto, semVars, permitVars, waitVars, awaiterVars,
           waiterVars, cancelVars
  <2>1. \A e \in Coros : HasPermit(e)' <=> HasPermit(e)
    BY <2>0, NullAssumption
       DEF HasPermit, Granted, CancelClaimed, OwnWaiterInv, PhaseInv, CancelInv,
           Waiting
  <2> QED BY <2>0, <2>1, NoPermitMoves DEF LeftInv
<1>23. ASSUME NEW c \in Coros, ReleaseResume(c), toResume[c] # <<>>
      PROVE  PermitsConserved' /\ LeftInv'
  <2> DEFINE d == Head(toResume[c])
  <2>w. d \in Coros /\ pc[d] = "suspended"
    BY <1>23, ToSetTail DEF ResumeInv
  <2>0. /\ pc[d] = "suspended" /\ pc' = [pc EXCEPT ![d] = "resume"]
        /\ UNCHANGED <<state, immediate, resumed, cancelled, kpc, kcb, count, left,
             issued, used, dropped>>
    BY <1>23, <2>w
       DEF ReleaseResume, Goto, KGoto, semVars, permitVars, waitVars, awaiterVars,
           waiterVars, cancelVars
  <2> HIDE DEF d
  <2>1. \A e \in Coros : HasPermit(e)' <=> HasPermit(e)
    BY <2>w, <2>0, NullAssumption
       DEF HasPermit, Granted, CancelClaimed, OwnWaiterInv, PhaseInv, CancelInv,
           Waiting
  <2> QED BY <2>w, <2>0, <2>1, NoPermitMoves DEF LeftInv
<1>24. ASSUME NEW c \in Coros, CancelRequest(c)
      PROVE  PermitsConserved' /\ LeftInv'
  <2>0. /\ kpc[c] = "idle" /\ kpc' = [kpc EXCEPT ![c] = "swap"]
        /\ UNCHANGED <<pc, state, immediate, resumed, cancelled, kcb, count, left,
             issued, used, dropped>>
    BY <1>24
       DEF CancelRequest, RequestCancellation, Goto, KGoto, semVars, permitVars,
           waitVars, awaiterVars, waiterVars, cancelVars
  <2>1. \A e \in Coros : HasPermit(e)' <=> HasPermit(e)
    BY <2>0, NullAssumption
       DEF HasPermit, Granted, CancelClaimed, OwnWaiterInv, PhaseInv, CancelInv,
           Waiting
  <2> QED BY <2>0, <2>1, NoPermitMoves DEF LeftInv
<1>25. ASSUME NEW c \in Coros, SwapCallbacks(c), UNCHANGED semVars
      PROVE  PermitsConserved' /\ LeftInv'
  <2>0. /\ kpc[c] = "swap"
        /\ \E p \in {"done", "cb_mark"} : kpc' = [kpc EXCEPT ![c] = p]
        /\ kcb' = [kcb EXCEPT ![c] = callback[c]]
        /\ UNCHANGED <<pc, state, immediate, resumed, cancelled, count, left,
             issued, used, dropped>>
    BY <1>25
       DEF SwapCallbacks, Goto, KGoto, semVars, permitVars, waitVars, awaiterVars,
           waiterVars, cancelVars
  <2>1. \A e \in Coros : HasPermit(e)' <=> HasPermit(e)
    BY <2>0, NullAssumption
       DEF HasPermit, Granted, CancelClaimed, OwnWaiterInv, PhaseInv, CancelInv,
           Waiting
  <2> QED BY <2>0, <2>1, NoPermitMoves DEF LeftInv
<1>26. ASSUME NEW c \in Coros, InvokeCallback(c), kpc[c] = "cb_mark", resumed[kcb[c]],
              UNCHANGED semVars
      PROVE  PermitsConserved' /\ LeftInv'
  <2>0. /\ kpc[c] = "cb_mark" /\ kpc' = [kpc EXCEPT ![c] = "done"]
        /\ kcb' = [kcb EXCEPT ![c] = NoWaiter]
        /\ resumed[kcb[c]] /\ resumed' = [resumed EXCEPT ![kcb[c]] = TRUE]
        /\ UNCHANGED <<pc, state, immediate, cancelled, count, left, issued,
             used, dropped>>
    BY <1>26
       DEF InvokeCallback, MarkResumed, OwnWaiterInv, Goto, KGoto, semVars,
           permitVars, waitVars, awaiterVars, waiterVars, cancelVars
  <2>1. \A e \in Coros : HasPermit(e)' <=> HasPermit(e)
    BY <2>0, NullAssumption
       DEF HasPermit, Granted, CancelClaimed, OwnWaiterInv, PhaseInv, CancelInv,
           Waiting
  <2> QED BY <2>0, <2>1, NoPermitMoves DEF LeftInv
<1>27. ASSUME NEW c \in Coros, InvokeCallback(c), kpc[c] = "cb_mark", ~resumed[kcb[c]],
              UNCHANGED semVars
      PROVE  PermitsConserved' /\ LeftInv'
  <2>0. /\ kpc[c] = "cb_mark" /\ kpc' = [kpc EXCEPT ![c] = "cb_store"]
        /\ ~resumed[kcb[c]] /\ resumed' = [resumed EXCEPT ![kcb[c]] = TRUE]
        /\ UNCHANGED <<pc, state, immediate, cancelled, kcb, count, left, issued,
             used, dropped>>
    BY <1>27
       DEF InvokeCallback, MarkResumed, Goto, KGoto, semVars, permitVars, waitVars,
           awaiterVars, waiterVars, cancelVars
  <2>1. \A e \in Coros : HasPermit(e)' <=> HasPermit(e)
    BY <2>0, NullAssumption
       DEF HasPermit, Granted, CancelClaimed, OwnWaiterInv, PhaseInv, CancelInv,
           Waiting, UnclaimedInv
  <2> QED BY <2>0, <2>1, NoPermitMoves DEF LeftInv
<1>28. ASSUME NEW c \in Coros, InvokeCallback(c), kpc[c] = "cb_store", UNCHANGED semVars
      PROVE  PermitsConserved' /\ LeftInv'
  <2>0. /\ kpc[c] = "cb_store" /\ kpc' = [kpc EXCEPT ![c] = "cb_wake"]
        /\ cancelled' = [cancelled EXCEPT ![kcb[c]] = TRUE]
        /\ UNCHANGED <<pc, state, immediate, resumed, kcb, count, left, issued,
             used, dropped>>
    BY <1>28
       DEF InvokeCallback, Goto, KGoto, semVars, permitVars, waitVars, awaiterVars,
           waiterVars, cancelVars
  <2>1. \A e \in Coros : HasPermit(e)' <=> HasPermit(e)
    BY <2>0, NullAssumption
       DEF HasPermit, Granted, CancelClaimed, OwnWaiterInv, PhaseInv, CancelInv,
           Waiting
  <2> QED BY <2>0, <2>1, NoPermitMoves DEF LeftInv
<1>29. ASSUME NEW c \in Coros, InvokeCallback(c), kpc[c] = "cb_wake", UNCHANGED semVars
      PROVE  PermitsConserved' /\ LeftInv'
  <2>0. /\ kpc[c] = "cb_wake"
        /\ \E p \in {"done", "resume"} : kpc' = [kpc EXCEPT ![c] = p]
        /\ \A d \in Coros \ {c} : kcb'[d] = kcb[d]
        /\ UNCHANGED <<pc, state, immediate, resumed, cancelled, count, left,
             issued, used, dropped>>
    BY <1>29
       DEF InvokeCallback, Goto, KGoto, semVars, permitVars, waitVars, awaiterVars,
           waiterVars, cancelVars
  <2>1. \A e \in Coros : HasPermit(e)' <=> HasPermit(e)
    BY <2>0, NullAssumption
       DEF HasPermit, Granted, CancelClaimed, OwnWaiterInv, PhaseInv, CancelInv,
           Waiting
  <2> QED BY <2>0, <2>1, NoPermitMoves DEF LeftInv
<1>30. ASSUME NEW c \in Coros, CancelResume(c), UNCHANGED semVars
      PROVE  PermitsConserved' /\ LeftInv'
  <2>0. /\ kpc[c] = "resume" /\ kpc' = [kpc EXCEPT ![c] = "done"]
        /\ kcb' = [kcb EXCEPT ![c] = NoWaiter]
        /\ pc[c] = "suspended" /\ pc' = [pc EXCEPT ![c] = "resume"]
        /\ UNCHANGED <<state, immediate, resumed, cancelled, count, left, issued,
             used, dropped>>
    BY <1>30
       DEF CancelResume, OwnWaiterInv, CancelInv, Goto, KGoto, semVars, permitVars,
           waitVars, awaiterVars, waiterVars, cancelVars
  <2>1. \A e \in Coros : HasPermit(e)' <=> HasPermit(e)
    BY <2>0, NullAssumption
       DEF HasPermit, Granted, CancelClaimed, OwnWaiterInv, PhaseInv, CancelInv,
           Waiting
  <2> QED BY <2>0, <2>1, NoPermitMoves DEF LeftInv
<1>31. CASE UNCHANGED vars
  <2>0. UNCHANGED <<pc, state, immediate, resumed, cancelled, kpc, kcb, count, left,
                    issued, used, dropped>>
    BY <1>31 DEF vars, waitVars, semVars, permitVars, awaiterVars, waiterVars, cancelVars
  <2>1. \A e \in Coros : HasPermit(e)' <=> HasPermit(e)
    BY <2>0 DEF HasPermit, Granted, CancelClaimed
  <2> QED BY <2>0, <2>1, NoPermitMoves DEF LeftInv
<1>32. ASSUME NEW c \in Coros, AcquireAwait(c) PROVE PermitsConserved' /\ LeftInv'
  BY <1>32, <1>2, <1>3, <1>4, <1>5, <1>6, <1>7
     DEF AcquireAwait, AwaiterStep, InlineCallback
<1>33. ASSUME NEW c \in Coros, AwaitReady(c) \/ EnqueueWaiter(c) \/ AcquireResume(c)
       PROVE  PermitsConserved' /\ LeftInv'
  <2>1. count = 0 \/ count > 0
    OBVIOUS
  <2> QED BY <1>33, <2>1, <1>8, <1>9, <1>10, <1>11, <1>13, <1>14
<1>34. ASSUME NEW c \in Coros, ReleaseStep(c) PROVE PermitsConserved' /\ LeftInv'
  BY <1>34, <1>16, <1>17, <1>18, <1>19, <1>20, <1>21, <1>22, <1>23 DEF ReleaseStep
<1>35. ASSUME NEW c \in Coros, CancellerStep(c) PROVE PermitsConserved' /\ LeftInv'
  BY <1>35, <1>25, <1>26, <1>27, <1>28, <1>29, <1>30
     DEF CancellerStep, CancelStep, InvokeCallback
<1> QED
  BY <1>1, <1>12, <1>15, <1>24, <1>31, <1>32, <1>33, <1>34, <1>35 DEF Next, CoroStep

(* No permit is lost and none is handed out twice: every one issued is in  *)
(* the count, in the hands of a release(), of one acquire(), was used, or  *)
(* was dropped at max().                                                   *)
THEOREM EveryPermitAccountedFor == Spec => []PermitsConserved
<1>1. Init => PermitsConserved /\ LeftInv
  BY PermitsInit
<1>2. SemaphoreInductive /\ PermitsConserved /\ LeftInv /\ [Next]_vars
        => PermitsConserved' /\ LeftInv'
  BY PermitsStep
<1> QED BY <1>1, <1>2, Invariance, PTL DEF Spec

-----------------------------------------------------------------------------
(* The refinement of the first-come first-served semaphore.                *)

(* Who may leave the line: a callback is there only for a wait that passes *)
(* its token, and runs only after the request.                             *)
TokenInv ==
  \A c \in Coros :
    /\ pc[c] \in {"register", "cb_mark", "cb_store", "cb_wake"} => withToken[c]
    /\ pc[c] \in {"cb_mark", "cb_store", "cb_wake"} => requested[c]
    /\ callback[c] # NoWaiter => withToken[c] /\ state[c] # NoWaiter
    /\ kpc[c] # "idle" => requested[c]
    /\ kcb[c] # NoWaiter /\ kcb[c] = state[c] => withToken[c]

(* And nobody is in the queue twice.                                       *)
LineInv == TokenInv /\ IsInjective(waiters)

(* A new semaphore has nobody in its queue.                                *)
LEMMA LineStarts == Init => LineInv
  BY DEF Init, WaitInit, LineInv, TokenInv, IsInjective

(* The queue of waiters changes at its ends, by what is not in it.         *)
LEMMA QueueStaysInjective ==
  ASSUME SemaphoreInductive, IsInjective(waiters), [Next]_vars
  PROVE  IsInjective(waiters)'
<1>1. waiters \in Seq(Waiters)
  BY DEF SemaphoreInductive, TypeOK
<1>2. CASE UNCHANGED waiters
  BY <1>2 DEF IsInjective
<1>3. ASSUME NEW c \in Coros, EnqueueWaiter(c) PROVE IsInjective(waiters)'
  <2>1. CASE FreeWaiters # {} /\ waiters' = Append(waiters, NewAddress)
    <3>1. NewAddress \in Waiters /\ NewAddress \notin ToSet(waiters)
      BY <2>1, NewAddressIsFree
    <3> HIDE DEF NewAddress
    <3>2. IsInjective(Append(waiters, NewAddress))
      BY <1>1, <3>1, InjectiveAppend
    <3> QED BY <2>1, <3>2
  <2> QED BY <1>2, <1>3, <2>1 DEF EnqueueWaiter
<1>4. ASSUME NEW c \in Coros, ReleaseLoop(c) PROVE IsInjective(waiters)'
  <2>1. CASE waiters # <<>> /\ waiters' = Tail(waiters)
    <3>1. IsInjective(Tail(waiters))
      BY <1>1, <2>1, InjectiveTail
    <3> QED BY <2>1, <3>1
  <2> QED BY <1>2, <1>4, <2>1 DEF ReleaseLoop, StorePermit, ClaimWaiter
<1>5. CASE UNCHANGED vars
  BY <1>2, <1>5 DEF vars, semVars
<1>6. ASSUME NEW c \in Coros,
             Acquire(c) \/ TryAcquire(c) \/ Release(c) \/ AcquireAwait(c) \/ AwaitReady(c)
               \/ AcquireResume(c) \/ ReleaseGuard(c) \/ ReleaseWake(c) \/ ReleaseUnguard(c)
               \/ ReleaseResume(c) \/ CancelRequest(c) \/ CancellerStep(c)
      PROVE  UNCHANGED waiters
  BY <1>6 DEF Acquire, TryAcquire, Release, AcquireAwait, AwaitReady, AcquireResume, ReleaseGuard,
              ReleaseWake, ReleaseUnguard, ReleaseResume, CancelRequest, CancellerStep, semVars
<1> QED BY <1>2, <1>3, <1>4, <1>5, <1>6 DEF Next, CoroStep, ReleaseStep

(* No step gives a wait a token that it did not pass.                      *)
LEMMA TokenStep ==
  ASSUME SemaphoreInductive, TokenInv, [Next]_vars
  PROVE  TokenInv'
<1> USE DEF TokenInv, Goto, KGoto
<1>0. WaitTypeOK(Points) /\ OwnWaiterInv /\ NoWaiter \notin Waiters /\ CancelInv
  BY NullAssumption DEF SemaphoreInductive, TypeOK
<1>1. ASSUME NEW c \in Coros, Acquire(c) PROVE TokenInv'
  BY <1>0, <1>1 DEF Acquire, BeginWait, waiterVars, cancelVars, OwnWaiterInv, Waiting, WaitTypeOK
<1>2. ASSUME NEW c \in Coros, TryAcquire(c) \/ Release(c) \/ AwaitReady(c) PROVE TokenInv'
  BY <1>0, <1>2 DEF TryAcquire, Release, AwaitReady, waitVars, awaiterVars, waiterVars, cancelVars,
                   WaitTypeOK
<1>3. ASSUME NEW c \in Coros, EnqueueWaiter(c) PROVE TokenInv'
  <2>1. CASE UNCHANGED <<awaiterVars, cancelVars>> /\ Goto(c, "resume")
    BY <1>0, <2>1 DEF awaiterVars, cancelVars, WaitTypeOK
  <2>2. CASE FreeWaiters # {} /\ NewWaiter(c, NewAddress)
    <3>1. NewAddress \in Waiters /\ \A d \in Coros : kcb[d] # NewAddress
      BY <2>2, NewAddressIsFree
    <3> HIDE DEF NewAddress
    <3> QED BY <1>0, <2>2, <3>1 DEF NewWaiter, cancelVars, WaitTypeOK
  <2> QED BY <1>3, <2>1, <2>2 DEF EnqueueWaiter
<1>4. ASSUME NEW c \in Coros, AcquireAwait(c) PROVE TokenInv'
  <2>1. CASE AwaitReadyToken(c) \/ AwaitSuspendToken(c)
    BY <1>0, <2>1 DEF AwaitReadyToken, AwaitSuspendToken, CheckToken, waiterVars, cancelVars,
                     WaitTypeOK
  <2>2. CASE Register(c)
    BY <1>0, <2>2 DEF Register, awaiterVars, waiterVars, OwnWaiterInv, Waiting, WaitTypeOK
  <2>3. CASE InlineCallback(c)
    BY <1>0, <2>3 DEF InlineCallback, awaiterVars, cancelVars, WaitTypeOK
  <2>4. CASE TryMarkSuspended(c)
    BY <1>0, <2>4 DEF TryMarkSuspended, awaiterVars, cancelVars, WaitTypeOK
  <2> QED BY <1>4, <2>1, <2>2, <2>3, <2>4 DEF AcquireAwait, AwaiterStep
<1>5. ASSUME NEW c \in Coros, AcquireResume(c) PROVE TokenInv'
  BY <1>0, <1>5 DEF AcquireResume, AwaitResume, waiterVars, WaitTypeOK
<1>6. ASSUME NEW c \in Coros, ReleaseGuard(c) \/ ReleaseWake(c) \/ ReleaseUnguard(c)
      PROVE  TokenInv'
  BY <1>0, <1>6 DEF ReleaseGuard, ReleaseWake, ReleaseUnguard, awaiterVars, waiterVars,
                   cancelVars, WaitTypeOK
<1>7. ASSUME NEW c \in Coros, ReleaseLoop(c) PROVE TokenInv'
  <2>1. UNCHANGED <<awaiterVars, cancelVars>>
        /\ (pc' = pc \/ pc' = [pc EXCEPT ![c] = "release_wake"])
    BY <1>7 DEF ReleaseLoop, StorePermit, ClaimWaiter
  <2> QED BY <1>0, <2>1 DEF awaiterVars, cancelVars, WaitTypeOK
<1>8. ASSUME NEW c \in Coros, ReleaseResume(c) PROVE TokenInv'
  <2>1. /\ UNCHANGED <<awaiterVars, cancelVars>>
        /\ pc' = [pc EXCEPT ![c] = "idle"] \/ \E d : pc' = [pc EXCEPT ![d] = "resume"]
    BY <1>8 DEF ReleaseResume
  <2> QED BY <1>0, <2>1 DEF awaiterVars, cancelVars, WaitTypeOK
<1>9. ASSUME NEW c \in Coros, CancelRequest(c) PROVE TokenInv'
  BY <1>0, <1>9 DEF CancelRequest, RequestCancellation, awaiterVars, waiterVars, WaitTypeOK
<1>10. ASSUME NEW c \in Coros, CancellerStep(c) PROVE TokenInv'
  <2>1. CASE SwapCallbacks(c)
    BY <1>0, <2>1 DEF SwapCallbacks, awaiterVars, waiterVars, WaitTypeOK
  <2>2. CASE InvokeCallback(c)
    BY <1>0, <2>2 DEF InvokeCallback, awaiterVars, WaitTypeOK
  <2>3. CASE CancelResume(c)
    BY <1>0, <2>3 DEF CancelResume, awaiterVars, waiterVars, WaitTypeOK
  <2> QED BY <1>10, <2>1, <2>2, <2>3 DEF CancellerStep, CancelStep
<1>11. CASE UNCHANGED vars
  BY <1>11 DEF vars, waitVars, awaiterVars, cancelVars
<1> QED BY <1>1, <1>2, <1>3, <1>4, <1>5, <1>6, <1>7, <1>8, <1>9, <1>10, <1>11
        DEF Next, CoroStep, ReleaseStep

(* A step of the semaphore that the abstract one does not see.             *)
StutterStep == UNCHANGED <<count, WaitingLine, {c \in Coros : HasPermit(c)}>>

(* The same coroutines have a permit before and after.                     *)
SamePermits == \A d \in Coros : HasPermit(d)' <=> HasPermit(d)

(* The line is made of coroutines, those that have an unclaimed waiter;    *)
(* nobody is in it while a permit is stored.                               *)
LEMMA LineType ==
  ASSUME SemaphoreInductive
  PROVE  /\ WaitingLine \in Seq(Coros)
         /\ \A c \in ToSet(WaitingLine) : state[c] # NoWaiter
         /\ count > 0 => WaitingLine = <<>>
<1>1. waiters \in Seq(Waiters) /\ ToSet(waiters) \subseteq Waiters
  BY ToSetType DEF SemaphoreInductive, TypeOK
<1>2. \A w \in ToSet(waiters) : handle[w] \in Coros /\ (~resumed[w] => state[handle[w]] = w)
  BY DEF SemaphoreInductive, UnclaimedInv
<1>3. /\ WaitingLine \in Seq(Coros)
      /\ ToSet(WaitingLine) = {handle[w] : w \in {w \in ToSet(waiters) : ~resumed[w]}}
  BY <1>1, <1>2, RemainingNames DEF WaitingLine
<1>4. \A c \in ToSet(WaitingLine) : state[c] # NoWaiter
  BY <1>1, <1>2, <1>3, NullAssumption
<1>5. ASSUME count > 0, WaitingLine # <<>> PROVE FALSE
  <2>1. ToSet(WaitingLine) = {}
    BY <1>3, <1>5 DEF SemaphoreInductive, PermitMeansNobodyWaits
  <2>2. Head(WaitingLine) \in ToSet(WaitingLine)
    BY <1>3, <1>5, ToSetTail
  <2> QED BY <2>1, <2>2
<1> QED BY <1>3, <1>4, <1>5

(* The line stays while the queue stays and nobody in it is claimed.       *)
LEMMA SameLine ==
  ASSUME SemaphoreInductive, UNCHANGED <<waiters, resumed, handle>>
  PROVE  WaitingLine' = WaitingLine
  BY DEF WaitingLine

(* Most steps change neither the count nor who has a permit, nor the queue *)
(* or its waiters.                                                         *)
LEMMA Stutters ==
  ASSUME SemaphoreInductive, SamePermits, UNCHANGED <<count, waiters, resumed, handle>>
  PROVE  StutterStep
<1>1. WaitingLine' = WaitingLine
  BY SameLine
<1> QED BY <1>1 DEF StutterStep, SamePermits

(* A callback that claims the waiter of its coroutine takes it out of the  *)
(* line.                                                                   *)
LEMMA LeavesLine ==
  ASSUME SemaphoreInductive, LineInv, NEW c \in Coros, state[c] # NoWaiter,
         ~resumed[state[c]], TokenCancelled(c), MarkResumed(state[c]),
         UNCHANGED <<count, handle, waiters>>, SamePermits
  PROVE  Abstract!Leave(c)
<1> DEFINE w == state[c]
<1>1. waiters \in Seq(Waiters) /\ w \in Waiters /\ resumed' = [resumed EXCEPT ![w] = TRUE]
      /\ resumed \in [Waiters -> BOOLEAN] /\ ToSet(waiters) \subseteq Waiters
  BY ToSetType DEF SemaphoreInductive, TypeOK, WaitTypeOK, MarkResumed
<1>2. w \in ToSet(waiters)
  BY DEF SemaphoreInductive, QueuedInv
<1>3. handle[w] = c
  BY DEF SemaphoreInductive, OwnWaiterInv
<1>4. IsInjective(waiters)
  BY DEF LineInv
<1>5. ~resumed[w] /\ resumed'[w] /\ \A x \in ToSet(waiters) \ {w} : resumed'[x] <=> resumed[x]
  BY <1>1
<1> HIDE DEF w
<1>6. IsWithout(Remaining(waiters, resumed', handle), Remaining(waiters, resumed, handle), handle[w])
  <2> DEFINE now == resumed'
  <2>1. ~resumed[w] /\ now[w] /\ \A x \in ToSet(waiters) \ {w} : now[x] <=> resumed[x]
    BY <1>5
  <2> HIDE DEF now
  <2>2. IsWithout(Remaining(waiters, now, handle), Remaining(waiters, resumed, handle), handle[w])
    BY <1>1, <1>2, <1>4, <2>1, RemainingWithout
  <2> QED BY <2>2 DEF now
<1>7. IsWithout(WaitingLine', WaitingLine, c)
  BY <1>3, <1>6 DEF WaitingLine
<1>8. {d \in Coros : HasPermit(d)}' = {d \in Coros : HasPermit(d)}
  BY DEF SamePermits
<1> QED BY <1>7, <1>8 DEF Abstract!Leave, Abstract!RemoveAt, RemoveAt, IsWithout

(* Whoever finds a permit stored takes it, and finds nobody in the line.   *)
LEMMA TakesPermit ==
  ASSUME SemaphoreInductive, NEW c \in Coros, count > 0, count' = count - 1,
         UNCHANGED <<waiters, resumed, handle>>,
         \/ SamePermits
         \/ HasPermit(c)' /\ \A d \in Coros \ {c} : HasPermit(d)' <=> HasPermit(d)
  PROVE  Abstract!Take(c)
<1>1. WaitingLine = <<>> /\ WaitingLine' = WaitingLine
  BY LineType, SameLine
<1> DEFINE old == {d \in Coros : HasPermit(d)}
           new == {d \in Coros : HasPermit(d)'}
<1>2. new = old \/ new = old \cup {c}
  BY DEF SamePermits
<1> QED BY <1>1, <1>2 DEF Abstract!Take

(* A coroutine that finds no permit joins the line.                        *)
LEMMA JoinsLine ==
  ASSUME SemaphoreInductive, NEW c \in Coros, count = 0, count' = count, state[c] = NoWaiter,
         NEW w \in Waiters, w \notin ToSet(waiters), waiters' = Append(waiters, w),
         handle' = [handle EXCEPT ![w] = c], resumed' = [resumed EXCEPT ![w] = FALSE],
         SamePermits
  PROVE  Abstract!Join(c)
<1>1. /\ waiters \in Seq(Waiters) /\ ToSet(waiters) \subseteq Waiters
      /\ handle \in [Waiters -> Coros \cup {NoCoro}] /\ resumed \in [Waiters -> BOOLEAN]
  BY ToSetType DEF SemaphoreInductive, TypeOK, WaitTypeOK
<1> DEFINE gone == resumed'
           name == handle'
<1>2. /\ name[w] = c /\ ~gone[w]
      /\ \A x \in ToSet(waiters) : (resumed[x] <=> gone[x]) /\ (~resumed[x] => handle[x] = name[x])
  BY <1>1
<1> HIDE DEF gone, name
<1>3. Remaining(waiters, resumed, handle) = Remaining(waiters, gone, name)
  BY <1>1, <1>2, RemainingSame
<1>4. Remaining(Append(waiters, w), gone, name) = Append(Remaining(waiters, gone, name), c)
  BY <1>1, <1>2, RemainingAppend
<1>5. WaitingLine' = Append(WaitingLine, c)
  BY <1>3, <1>4 DEF WaitingLine, gone, name
<1>6. c \notin ToSet(WaitingLine)
  BY LineType
<1>7. {d \in Coros : HasPermit(d)}' = {d \in Coros : HasPermit(d)}
  BY DEF SamePermits
<1> QED BY <1>5, <1>6, <1>7 DEF Abstract!Join, Abstract!ToSet, ToSet

(* release() gives a permit to the first in the line, stores it if there   *)
(* is none and room for it, or drops it; an abandoned waiter that it pops  *)
(* is not in the line.                                                     *)
LEMMA ReleaseRefines ==
  ASSUME SemaphoreInductive, LineInv, NEW c \in Coros, ReleaseLoop(c)
  PROVE  Abstract!Give \/ Abstract!Store \/ StutterStep
<1> USE NullAssumption
<1>0. /\ waiters \in Seq(Waiters) /\ ToSet(waiters) \subseteq Waiters
      /\ resumed \in [Waiters -> BOOLEAN] /\ WaitTypeOK(Points) /\ OwnWaiterInv
      /\ count \in 0..LeastMaxValue /\ LeastMaxValue \in Nat
      /\ pc[c] = "release_loop" /\ UNCHANGED <<awaiterVars, cancelVars>>
  BY ToSetType, CountAssumption DEF SemaphoreInductive, TypeOK, WaitTypeOK, ReleaseLoop
<1>1. state[c] = NoWaiter
  BY <1>0 DEF OwnWaiterInv, Waiting
<1>2. CASE StorePermit(c)
  <2>1. waiters = <<>> /\ UNCHANGED <<pc, waiters, resumed, handle, cancelled>>
    BY <1>2 DEF StorePermit, waiterVars
  <2>2. WaitingLine = <<>> /\ WaitingLine' = WaitingLine
    BY <2>1, NothingRemains DEF WaitingLine
  <2>3. SamePermits
    BY <1>0, <2>1 DEF SamePermits, HasPermit, Granted, CancelClaimed, awaiterVars, cancelVars
  <2>4. CASE count = LeastMaxValue /\ UNCHANGED count
    BY <2>1, <2>3, <2>4, Stutters
  <2>5. CASE count # LeastMaxValue /\ count' = count + 1
    BY <1>0, <2>2, <2>3, <2>5 DEF Abstract!Store, SamePermits
  <2> QED BY <1>2, <2>4, <2>5 DEF StorePermit
<1>3. CASE ClaimWaiter(c)
  <2> DEFINE w == Head(waiters)
  <2>1. /\ waiters # <<>> /\ waiters' = Tail(waiters) /\ resumed' = [resumed EXCEPT ![w] = TRUE]
        /\ UNCHANGED <<handle, cancelled, count>>
        /\ w \in Waiters /\ w \in ToSet(waiters) /\ w \notin ToSet(Tail(waiters))
        /\ Tail(waiters) \in Seq(Waiters) /\ ToSet(Tail(waiters)) \subseteq Waiters
    <3>0. waiters # <<>>
      BY <1>3 DEF ClaimWaiter
    <3>1. /\ w \in Waiters /\ w \in ToSet(waiters) /\ Tail(waiters) \in Seq(Waiters)
          /\ ToSet(Tail(waiters)) \subseteq Waiters
      BY <1>0, <3>0, ToSetTail, ToSetType
    <3>2. w \notin ToSet(Tail(waiters))
      BY <1>0, <3>0, InjectiveTail DEF LineInv
    <3> QED BY <1>3, <3>0, <3>1, <3>2 DEF ClaimWaiter, MarkResumed
  <2>2. IF resumed[w] THEN pc' = pc ELSE pc' = [pc EXCEPT ![c] = "release_wake"]
    BY <1>3 DEF ClaimWaiter, Goto
  <2>3. LET old == Remaining(waiters, resumed, handle)
            new == Remaining(Tail(waiters), resumed, handle)
        IN  IF resumed[w] THEN new = old
            ELSE old # <<>> /\ Head(old) = handle[w] /\ Tail(old) = new
    BY <1>0, <2>1, RemainingTail
  <2>4. WaitingLine' = Remaining(Tail(waiters), resumed, handle)
    <3> DEFINE gone == resumed'
               rest == Tail(waiters)
    <3>1. /\ rest \in Seq(Waiters)
          /\ \A x \in ToSet(rest) : (gone[x] <=> resumed[x]) /\ (~gone[x] => handle[x] = handle[x])
      BY <1>0, <2>1
    <3> HIDE DEF gone, rest
    <3>2. Remaining(rest, gone, handle) = Remaining(rest, resumed, handle)
      BY <3>1, RemainingSame
    <3> QED BY <2>1, <3>2 DEF WaitingLine, gone, rest
  <2> HIDE DEF w
  <2>5. CASE resumed[w]
    <3>1. WaitingLine' = WaitingLine
      BY <2>3, <2>4, <2>5 DEF WaitingLine
    <3>2. resumed' = resumed /\ pc' = pc
      BY <1>0, <2>1, <2>2, <2>5
    <3>3. SamePermits
      BY <1>0, <2>1, <3>2 DEF SamePermits, HasPermit, Granted, CancelClaimed, awaiterVars, cancelVars
    <3> QED BY <2>1, <3>1, <3>3 DEF StutterStep, SamePermits
  <2>6. CASE ~resumed[w]
    <3>1. PICK d \in Coros : d = handle[w] /\ state[d] = w
      BY <2>1, <2>6 DEF SemaphoreInductive, UnclaimedInv
    <3>2. WaitingLine # <<>> /\ Head(WaitingLine) = d /\ Tail(WaitingLine) = WaitingLine'
      BY <2>3, <2>4, <2>6, <3>1 DEF WaitingLine
    <3>3. HasPermit(d)'
      <4>1. ~cancelled[w] /\ pc[d] # "cb_store" /\ ~(kpc[d] = "cb_store" /\ kcb[d] = w)
        BY <2>1, <2>6, <3>1 DEF SemaphoreInductive, PhaseInv, CancelInv
      <4>2. /\ state'[d] = state[d] /\ state[d] # NoWaiter
            /\ resumed'[state[d]] /\ ~cancelled'[state[d]]
        BY <1>0, <2>1, <3>1, <4>1 DEF awaiterVars
      <4>3. pc'[d] # "cb_store"
        BY <1>0, <2>2, <2>6, <3>1, <4>1 DEF WaitTypeOK
      <4>4. Granted(d)'
        BY <1>0, <2>1, <3>1, <4>1, <4>2, <4>3 DEF Granted, CancelClaimed, cancelVars
      <4> QED BY <4>4 DEF HasPermit
    <3>4. ASSUME NEW e \in Coros, e # d PROVE HasPermit(e)' <=> HasPermit(e)
      <4>1. state[e] # NoWaiter => state[e] # w
        BY <1>0, <3>1, <3>4 DEF OwnWaiterInv
      <4>2. pc'[e] = pc[e] \/ e = c
        BY <1>0, <2>2 DEF WaitTypeOK
      <4>3. state[e] # NoWaiter => state[e] \in Waiters /\ (resumed'[state[e]] <=> resumed[state[e]])
        BY <1>0, <2>1, <4>1 DEF WaitTypeOK
      <4>4. pc'[c] = "release_wake"
        BY <1>0, <2>2, <2>6 DEF WaitTypeOK
      <4> QED BY <1>0, <1>1, <2>1, <4>2, <4>3, <4>4
              DEF HasPermit, Granted, CancelClaimed, awaiterVars, cancelVars
    <3> DEFINE old == {e \in Coros : HasPermit(e)}
               new == {e \in Coros : HasPermit(e)'}
    <3>5. new = old \cup {d}
      BY <3>3, <3>4
    <3> QED BY <2>1, <3>2, <3>5 DEF Abstract!Give
  <2> QED BY <2>5, <2>6
<1> QED BY <1>2, <1>3 DEF ReleaseLoop

(* What a cancellation callback does on a thread of the coroutine or of    *)
(* the canceller: claim the waiter, which takes the coroutine out of the   *)
(* line, or find it claimed.                                               *)
LEMMA CallbackRefines ==
  ASSUME SemaphoreInductive, LineInv, NEW c \in Coros,
         InlineCallback(c) \/ InvokeCallback(c), UNCHANGED semVars
  PROVE  Abstract!Leave(c) \/ StutterStep
<1> USE NullAssumption DEF semVars, Goto, KGoto, SamePermits
<1>0. WaitTypeOK(Points) /\ OwnWaiterInv /\ PhaseInv /\ CancelInv /\ UnclaimedInv /\ TokenInv
  BY DEF SemaphoreInductive, TypeOK, LineInv
<1>1. CASE InlineCallback(c) /\ pc[c] = "cb_mark" /\ ~resumed[state[c]]
  <2>1. /\ MarkResumed(state[c]) /\ pc' = [pc EXCEPT ![c] = "cb_store"]
        /\ UNCHANGED <<awaiterVars, handle, cancelVars, cancelled, waiters, count>>
    BY <1>1 DEF InlineCallback
  <2>2. state[c] # NoWaiter /\ TokenCancelled(c)
    BY <1>0, <1>1 DEF OwnWaiterInv, Waiting, TokenInv, TokenCancelled
  <2>3. SamePermits
    <3>1. \A d \in Coros : d # c /\ state[d] # NoWaiter => state[d] # state[c]
      BY <1>0, <2>2 DEF OwnWaiterInv
    <3> QED BY <1>0, <1>1, <2>1, <2>2, <3>1
            DEF HasPermit, Granted, CancelClaimed, MarkResumed, awaiterVars, cancelVars, WaitTypeOK
  <2> QED BY <1>1, <2>1, <2>2, <2>3, LeavesLine
<1>2. CASE InvokeCallback(c) /\ kpc[c] = "cb_mark" /\ ~resumed[kcb[c]]
  <2>1. kcb[c] # NoWaiter /\ state[c] = kcb[c] /\ TokenCancelled(c)
    BY <1>0, <1>2 DEF OwnWaiterInv, UnclaimedInv, TokenInv, TokenCancelled
  <2>2. /\ MarkResumed(state[c]) /\ kpc' = [kpc EXCEPT ![c] = "cb_store"]
        /\ UNCHANGED <<pc, awaiterVars, handle, kcb, cancelled, waiters, count>>
    BY <1>2, <2>1 DEF InvokeCallback
  <2>3. SamePermits
    <3>1. \A d \in Coros : d # c /\ state[d] # NoWaiter => state[d] # state[c]
      BY <1>0, <2>1 DEF OwnWaiterInv
    <3>2. pc[c] \in {"mark", "suspended", "resume"}
      BY <1>0, <2>1 DEF CancelInv
    <3> QED BY <1>0, <1>2, <2>1, <2>2, <3>1, <3>2
            DEF HasPermit, Granted, CancelClaimed, MarkResumed, awaiterVars, WaitTypeOK
  <2> QED BY <1>2, <2>1, <2>2, <2>3, LeavesLine
<1>3. CASE InlineCallback(c) /\ ~(pc[c] = "cb_mark" /\ ~resumed[state[c]])
  <2>1. state[c] \in Waiters
    BY <1>0, <1>3 DEF InlineCallback, OwnWaiterInv, Waiting, WaitTypeOK
  <2>2. UNCHANGED <<count, waiters, resumed, handle>>
    <3>1. /\ UNCHANGED <<count, waiters, handle>>
          /\ resumed' = resumed \/ (resumed[state[c]] /\ resumed' = [resumed EXCEPT ![state[c]] = TRUE])
      BY <1>3 DEF InlineCallback, MarkResumed
    <3>2. resumed \in [Waiters -> BOOLEAN]
      BY <1>0 DEF WaitTypeOK
    <3>3. resumed' = resumed
      BY <2>1, <3>1, <3>2
    <3> QED BY <3>1, <3>3
  <2>3. \A d \in Coros : d # c /\ state[d] # NoWaiter => state[d] # state[c]
    BY <1>0, <2>1 DEF OwnWaiterInv
  <2>4. SamePermits
    BY <1>0, <1>3, <2>1, <2>2, <2>3
       DEF InlineCallback, HasPermit, Granted, CancelClaimed, CancelInv, awaiterVars, cancelVars,
           WaitTypeOK
  <2> QED BY <2>2, <2>4, Stutters
<1>4. CASE InvokeCallback(c) /\ ~(kpc[c] = "cb_mark" /\ ~resumed[kcb[c]])
  <2>1. kcb[c] \in Waiters
    BY <1>0, <1>4 DEF InvokeCallback, OwnWaiterInv, WaitTypeOK
  <2>2. UNCHANGED <<count, waiters, resumed, handle>>
    <3>1. /\ UNCHANGED <<count, waiters, handle>>
          /\ resumed' = resumed \/ (resumed[kcb[c]] /\ resumed' = [resumed EXCEPT ![kcb[c]] = TRUE])
      BY <1>4 DEF InvokeCallback, MarkResumed
    <3>2. resumed \in [Waiters -> BOOLEAN]
      BY <1>0 DEF WaitTypeOK
    <3>3. resumed' = resumed
      BY <2>1, <3>1, <3>2
    <3> QED BY <3>1, <3>3
  <2>3. \A d \in Coros : d # c /\ state[d] # NoWaiter => state[d] # kcb[c]
    BY <1>0, <2>1 DEF OwnWaiterInv
  <2>4. SamePermits
    BY <1>0, <1>4, <2>1, <2>2, <2>3
       DEF InvokeCallback, HasPermit, Granted, CancelClaimed, CancelInv, awaiterVars, WaitTypeOK
  <2> QED BY <2>2, <2>4, Stutters
<1> QED BY <1>1, <1>2, <1>3, <1>4

(* Every step of the semaphore is one of the abstract one, or is not seen  *)
(* by it.                                                                  *)
LEMMA RefinementStep ==
  ASSUME SemaphoreInductive, LineInv, [Next]_vars
  PROVE  [Abstract!Next]_<<count, WaitingLine, {c \in Coros : HasPermit(c)}>>
<1> USE NullAssumption DEF Goto, KGoto, SamePermits
<1>0. WaitTypeOK(Points) /\ OwnWaiterInv /\ PhaseInv /\ CancelInv /\ ResumeInv
      /\ count \in Nat
  BY CountAssumption DEF SemaphoreInductive, TypeOK
<1> SUFFICES (\E c \in Coros :
                Abstract!Take(c) \/ Abstract!Use(c) \/ Abstract!Join(c) \/ Abstract!Leave(c))
               \/ Abstract!Give \/ Abstract!Store \/ StutterStep
  BY DEF Abstract!Next, StutterStep
<1>1. ASSUME NEW c \in Coros, Acquire(c) \/ Release(c) PROVE StutterStep
  <2>1. UNCHANGED <<count, waiters, resumed, handle>>
    BY <1>1 DEF Acquire, Release, BeginWait, waiterVars, semVars
  <2>2. SamePermits
    BY <1>0, <1>1 DEF Acquire, Release, BeginWait, waiterVars, awaiterVars, cancelVars,
         HasPermit, Granted, CancelClaimed, OwnWaiterInv, Waiting, WaitTypeOK
  <2> QED BY <2>1, <2>2, Stutters
<1>2. ASSUME NEW c \in Coros, TryAcquire(c) PROVE Abstract!Take(c)
  <2>1. /\ count > 0 /\ count' = count - 1
        /\ UNCHANGED <<pc, state, immediate, resumed, cancelled, kpc, kcb, handle, waiters>>
    BY <1>2 DEF TryAcquire, waitVars, waiterVars, awaiterVars, cancelVars
  <2>2. SamePermits
    BY <2>1 DEF HasPermit, Granted, CancelClaimed
  <2> QED BY <2>1, <2>2, TakesPermit
<1>3. ASSUME NEW c \in Coros, AwaitReady(c) PROVE Abstract!Take(c) \/ StutterStep
  <2>1. UNCHANGED <<waiters, resumed, handle>> /\ state[c] = NoWaiter /\ ~immediate[c]
    BY <1>0, <1>3 DEF AwaitReady, waiterVars, OwnWaiterInv, Waiting
  <2>2. CASE count > 0 /\ count' = count - 1 /\ pc' = [pc EXCEPT ![c] = "resume"]
    <3>1. HasPermit(c)'
      BY <1>0, <1>3, <2>1, <2>2 DEF AwaitReady, awaiterVars, HasPermit, WaitTypeOK
    <3>2. \A d \in Coros \ {c} : HasPermit(d)' <=> HasPermit(d)
      BY <1>0, <1>3, <2>2 DEF AwaitReady, waiterVars, awaiterVars, cancelVars,
           HasPermit, Granted, CancelClaimed, WaitTypeOK
    <3> QED BY <2>1, <2>2, <3>1, <3>2, TakesPermit
  <2>3. CASE UNCHANGED count /\ pc' = [pc EXCEPT ![c] = "suspend"]
    <3>1. SamePermits
      BY <1>0, <1>3, <2>1, <2>3 DEF AwaitReady, waiterVars, awaiterVars, cancelVars,
           HasPermit, Granted, CancelClaimed, WaitTypeOK
    <3> QED BY <2>1, <2>3, <3>1, Stutters
  <2> QED BY <1>3, <2>2, <2>3 DEF AwaitReady
<1>4. ASSUME NEW c \in Coros, EnqueueWaiter(c) PROVE Abstract!Take(c) \/ Abstract!Join(c)
  <2>1. pc[c] = "enqueue" /\ state[c] = NoWaiter /\ ~immediate[c] /\ ~HasPermit(c)
    BY <1>0, <1>4 DEF EnqueueWaiter, OwnWaiterInv, Waiting, HasPermit, Granted
  <2>2. CASE /\ count > 0 /\ count' = count - 1 /\ pc' = [pc EXCEPT ![c] = "resume"]
             /\ UNCHANGED <<awaiterVars, waiterVars, cancelVars, waiters>>
    <3>1. HasPermit(c)'
      BY <1>0, <2>1, <2>2 DEF awaiterVars, HasPermit, WaitTypeOK
    <3>2. \A d \in Coros \ {c} : HasPermit(d)' <=> HasPermit(d)
      BY <1>0, <2>2 DEF waiterVars, awaiterVars, cancelVars, HasPermit, Granted, CancelClaimed,
           WaitTypeOK
    <3>3. UNCHANGED <<waiters, resumed, handle>>
      BY <2>2 DEF waiterVars
    <3> QED BY <2>2, <3>1, <3>2, <3>3, TakesPermit
  <2>3. CASE /\ count = 0 /\ UNCHANGED count /\ FreeWaiters # {} /\ NewWaiter(c, NewAddress)
             /\ waiters' = Append(waiters, NewAddress)
    <3>1. PICK w \in Waiters : w = NewAddress
      BY <2>3, NewAddressIsFree
    <3>2. /\ w \notin ToSet(waiters)
          /\ \A d \in Coros : state[d] # w /\ callback[d] # w /\ kcb[d] # w
      BY <2>3, <3>1, NewAddressIsFree
    <3>3. NewWaiter(c, w) /\ waiters' = Append(waiters, w) /\ count = 0 /\ count' = count
      BY <2>3, <3>1
    <3>4. SamePermits
      <4>1. ASSUME NEW d \in Coros, d # c PROVE HasPermit(d)' <=> HasPermit(d)
        BY <1>0, <3>2, <3>3, <4>1
           DEF NewWaiter, cancelVars, HasPermit, Granted, CancelClaimed, WaitTypeOK
      <4>2. ~HasPermit(c)'
        BY <1>0, <3>3 DEF NewWaiter, cancelVars, HasPermit, Granted, WaitTypeOK
      <4> QED BY <2>1, <4>1, <4>2
    <3>5. handle' = [handle EXCEPT ![w] = c] /\ resumed' = [resumed EXCEPT ![w] = FALSE]
      BY <3>3 DEF NewWaiter
    <3>6. Abstract!Join(c)
      BY <2>1, <3>2, <3>3, <3>4, <3>5, JoinsLine
    <3> QED BY <3>6
  <2> QED BY <1>4, <2>2, <2>3 DEF EnqueueWaiter
<1>5. ASSUME NEW c \in Coros, AcquireAwait(c) PROVE Abstract!Leave(c) \/ StutterStep
  <2>0. UNCHANGED <<count, waiters, semVars>>
    BY <1>5 DEF AcquireAwait, semVars
  <2>1. CASE InlineCallback(c)
    BY <2>0, <2>1, CallbackRefines
  <2>2. CASE AwaitReadyToken(c) \/ AwaitSuspendToken(c)
    <3>1. UNCHANGED <<count, waiters, resumed, handle>>
      BY <2>0, <2>2 DEF AwaitReadyToken, AwaitSuspendToken, CheckToken, waiterVars
    <3>2. state[c] = NoWaiter
      BY <1>0, <2>2 DEF AwaitReadyToken, AwaitSuspendToken, CheckToken, OwnWaiterInv, Waiting
    <3>3. SamePermits
      BY <1>0, <2>2, <3>2 DEF AwaitReadyToken, AwaitSuspendToken, CheckToken, waiterVars,
           cancelVars, HasPermit, Granted, CancelClaimed, WaitTypeOK
    <3> QED BY <3>1, <3>3, Stutters
  <2>3. CASE Register(c) \/ TryMarkSuspended(c)
    <3>1. UNCHANGED <<count, waiters, resumed, handle>>
      BY <2>0, <2>3 DEF Register, TryMarkSuspended, waiterVars
    <3>2. state[c] # NoWaiter
      BY <1>0, <2>3 DEF Register, TryMarkSuspended, OwnWaiterInv, Waiting
    <3>3. SamePermits
      BY <1>0, <2>3, <3>2 DEF Register, TryMarkSuspended, waiterVars, awaiterVars,
           cancelVars, HasPermit, Granted, CancelClaimed, WaitTypeOK
    <3> QED BY <3>1, <3>3, Stutters
  <2> QED BY <1>5, <2>1, <2>2, <2>3 DEF AcquireAwait, AwaiterStep
<1>6. ASSUME NEW c \in Coros, AcquireResume(c) PROVE Abstract!Use(c) \/ StutterStep
  <2>1. UNCHANGED <<count, waiters, resumed, handle, cancelled>> /\ pc[c] = "resume"
    BY <1>6 DEF AcquireResume, AwaitResume, waiterVars
  <2>2. HasPermit(c) <=> ~Throws(c)
    <3>1. state[c] # NoWaiter => resumed[state[c]] /\ ~CancelClaimed(c)
      BY <1>0, <2>1 DEF PhaseInv, CancelInv, CancelClaimed
    <3>2. immediate[c] => state[c] = NoWaiter
      BY <1>0 DEF OwnWaiterInv
    <3> QED BY <2>1, <3>1, <3>2 DEF HasPermit, Granted, Throws
  <2>3. ~HasPermit(c)'
    BY <1>0, <1>6 DEF AcquireResume, AwaitResume, HasPermit, Granted, WaitTypeOK
  <2>4. ASSUME NEW d \in Coros, d # c PROVE HasPermit(d)' <=> HasPermit(d)
    BY <1>0, <1>6, <2>4 DEF AcquireResume, AwaitResume, waiterVars, HasPermit, Granted,
         CancelClaimed, WaitTypeOK
  <2>5. CASE Throws(c)
    <3>1. SamePermits
      BY <2>2, <2>3, <2>4, <2>5
    <3> QED BY <2>1, <3>1, Stutters
  <2>6. CASE ~Throws(c)
    <3> DEFINE old == {d \in Coros : HasPermit(d)}
               new == {d \in Coros : HasPermit(d)'}
    <3>1. c \in old /\ new = old \ {c}
      BY <2>2, <2>3, <2>4, <2>6
    <3>2. WaitingLine' = WaitingLine
      BY <2>1, SameLine
    <3> QED BY <2>1, <3>1, <3>2 DEF Abstract!Use
  <2> QED BY <2>5, <2>6
<1>7. ASSUME NEW c \in Coros,
             ReleaseGuard(c) \/ ReleaseWake(c) \/ ReleaseUnguard(c) \/ ReleaseResume(c)
      PROVE  StutterStep
  <2>1. /\ UNCHANGED <<count, waiters, resumed, handle, cancelled, state, immediate, kpc, kcb>>
        /\ pc[c] \in {"release", "release_loop", "release_wake", "release_resume"}
    BY <1>7 DEF ReleaseGuard, ReleaseWake, ReleaseUnguard, ReleaseResume, waiterVars,
                awaiterVars, cancelVars
  <2>2. state[c] = NoWaiter
    BY <1>0, <2>1 DEF OwnWaiterInv, Waiting
  <2>3. CASE \E p \in {"release_loop", "release_resume", "idle"} : pc' = [pc EXCEPT ![c] = p]
    <3>1. SamePermits
      BY <1>0, <2>1, <2>2, <2>3 DEF HasPermit, Granted, CancelClaimed, WaitTypeOK
    <3> QED BY <2>1, <3>1, Stutters
  <2>4. CASE ReleaseResume(c) /\ toResume[c] # <<>>
    <3>1. PICK e \in Coros : e = Head(toResume[c]) /\ e \in ToSet(toResume[c])
      BY <2>4, ToSetTail DEF SemaphoreInductive, TypeOK
    <3>2. pc[e] = "suspended" /\ state[e] # NoWaiter /\ pc' = [pc EXCEPT ![e] = "resume"]
      BY <1>0, <2>4, <3>1 DEF ResumeInv, ReleaseResume, OwnWaiterInv, Waiting
    <3>3. SamePermits
      BY <1>0, <2>1, <3>2 DEF HasPermit, Granted, CancelClaimed, WaitTypeOK
    <3> QED BY <2>1, <3>3, Stutters
  <2> QED BY <1>7, <2>3, <2>4 DEF ReleaseGuard, ReleaseWake, ReleaseUnguard, ReleaseResume
<1>8. ASSUME NEW c \in Coros, ReleaseLoop(c)
      PROVE  Abstract!Give \/ Abstract!Store \/ StutterStep
  BY <1>8, ReleaseRefines
<1>9. ASSUME NEW c \in Coros, CancelRequest(c) \/ CancellerStep(c)
      PROVE  Abstract!Leave(c) \/ StutterStep
  <2>0. UNCHANGED <<count, waiters, semVars>>
    BY <1>9 DEF CancelRequest, CancellerStep, semVars
  <2>1. CASE InvokeCallback(c)
    BY <2>0, <2>1, CallbackRefines
  <2>2. CASE RequestCancellation(c) \/ SwapCallbacks(c)
    <3>1. UNCHANGED <<count, waiters, resumed, handle>>
      BY <2>0, <2>2 DEF RequestCancellation, SwapCallbacks, waiterVars
    <3>2. SamePermits
      BY <1>0, <2>2 DEF RequestCancellation, SwapCallbacks, waiterVars, awaiterVars,
           HasPermit, Granted, CancelClaimed, WaitTypeOK
    <3> QED BY <3>1, <3>2, Stutters
  <2>3. CASE CancelResume(c)
    <3>1. UNCHANGED <<count, waiters, resumed, handle>>
      BY <2>0, <2>3 DEF CancelResume, waiterVars
    <3>2. kpc[c] = "resume" /\ state[c] = kcb[c] /\ kcb[c] # NoWaiter /\ handle[kcb[c]] = c
      BY <1>0, <2>3 DEF CancelResume, OwnWaiterInv, CancelInv
    <3>3. pc[c] = "suspended" /\ pc' = [pc EXCEPT ![c] = "resume"]
      BY <1>0, <2>3, <3>2 DEF CancelResume, CancelInv
    <3>4. SamePermits
      BY <1>0, <2>3, <3>2, <3>3 DEF CancelResume, waiterVars, awaiterVars,
           HasPermit, Granted, CancelClaimed, WaitTypeOK
    <3> QED BY <3>1, <3>4, Stutters
  <2> QED BY <1>9, <2>1, <2>2, <2>3 DEF CancelRequest, CancellerStep, CancelStep
<1>10. CASE UNCHANGED vars
  <2>1. UNCHANGED <<count, waiters, resumed, handle>>
    BY <1>10 DEF vars, waitVars, waiterVars, semVars
  <2>2. SamePermits
    BY <1>10 DEF vars, waitVars, waiterVars, awaiterVars, cancelVars, HasPermit, Granted,
         CancelClaimed
  <2> QED BY <2>1, <2>2, Stutters
<1> QED BY <1>1, <1>2, <1>3, <1>4, <1>5, <1>6, <1>7, <1>8, <1>9, <1>10
        DEF Next, CoroStep, ReleaseStep

(* The semaphore implements a first-come first-served one, for any         *)
(* coroutines, tokens, initial count and maximum and arguments of          *)
(* release(): nobody acquires past a coroutine that waits, permits are     *)
(* handed out in the order of arrival, and a cancellation takes only its   *)
(* own coroutine out of the line.                                          *)
THEOREM SemaphoreIsFifo == Spec => ImplementsFifoSemaphore
<1>1. Init => Abstract!Init
  <2> SUFFICES ASSUME Init PROVE Abstract!Init
    OBVIOUS
  <2>1. count = InitialCount /\ WaitingLine = <<>>
    BY NothingRemains DEF Init, WaitingLine
  <2>2. {c \in Coros : HasPermit(c)} = {}
    BY DEF Init, WaitInit, HasPermit, Granted
  <2> QED BY <2>1, <2>2 DEF Abstract!Init
<1>2. Init => LineInv
  BY LineStarts
<1>3. SemaphoreInductive /\ LineInv /\ [Next]_vars => LineInv'
  BY QueueStaysInjective, TokenStep DEF LineInv
<1>4. SemaphoreInductive /\ LineInv /\ [Next]_vars
        => [Abstract!Next]_<<count, WaitingLine, {c \in Coros : HasPermit(c)}>>
  BY RefinementStep
<1> QED BY <1>1, <1>2, <1>3, <1>4, Invariance, PTL DEF Spec, ImplementsFifoSemaphore, Abstract!Spec
=============================================================================
