----------------------------- MODULE MutexProofs -----------------------------
(***************************************************************************)
(* Proofs about xcoro::mutex for any set of coroutines, cancellation       *)
(* sources and waiter addresses: MutexInvariant is inductive, and implies  *)
(* the safety properties of the module Mutex; with what WakeInvariant adds *)
(* to it, no wake-up is lost or sent twice; with LineInv, every step is    *)
(* one of a first-come first-served lock, or leaves that lock as it was.   *)
(***************************************************************************)
EXTENDS MutexInv, DataLemmas

(* The empty queue is a queue of anything.                                 *)
LEMMA EmptyQueue == \A S : <<>> \in Seq(S)
  OBVIOUS

-----------------------------------------------------------------------------
(* A new mutex has the types of its declarations.                          *)
LEMMA TypeInit == Init => TypeOK
<1> SUFFICES ASSUME Init PROVE TypeOK
  OBVIOUS
<1>1. WaitTypeOK(Points)
  BY DEF Init, WaitInit, WaitTypeOK, Points, WaitPoints, CancelPoints, Phases
<1>2. waiters \in Seq(Waiters) /\ ToSet(waiters) = {}
  BY ToSetEmpty DEF Init
<1> QED
  BY <1>1, <1>2 DEF Init, TypeOK

(* Every step keeps the types; UnlockWake needs the waiter that GuardInv    *)
(* says it has.                                                            *)
LEMMA TypeStep ==
  ASSUME TypeOK, GuardInv, [Next]_vars
  PROVE  TypeOK'
<1> USE DEF TypeOK, WaitTypeOK, Points, WaitPoints, CancelPoints, Phases,
            Goto, KGoto, vars, waitVars, lockVars, awaiterVars, waiterVars, cancelVars
<1>1. ASSUME NEW c \in Coros, Lock(c)
      PROVE  TypeOK'
  <2>1. withToken' \in [Coros -> BOOLEAN]
    BY <1>1 DEF Lock, BeginWait
  <2> QED BY <1>1, <2>1 DEF Lock, BeginWait
<1>2. ASSUME NEW c \in Coros, TryLock(c)
      PROVE  TypeOK'
  BY <1>2 DEF TryLock
<1>3. ASSUME NEW c \in Coros, Unlock(c)
      PROVE  TypeOK'
  BY <1>3 DEF Unlock
<1>4. ASSUME NEW c \in Coros, AwaitReadyToken(c), UNCHANGED lockVars
      PROVE  TypeOK'
  <2>1. immediate' \in [Coros -> BOOLEAN]
    BY <1>4 DEF AwaitReadyToken, CheckToken, TokenCancelled
  <2> QED BY <1>4, <2>1 DEF AwaitReadyToken, CheckToken
<1>5. ASSUME NEW c \in Coros, AwaitSuspendToken(c), UNCHANGED lockVars
      PROVE  TypeOK'
  <2>1. immediate' \in [Coros -> BOOLEAN]
    BY <1>5 DEF AwaitSuspendToken, CheckToken, TokenCancelled
  <2> QED BY <1>5, <2>1 DEF AwaitSuspendToken, CheckToken
<1>6. ASSUME NEW c \in Coros, Register(c), UNCHANGED lockVars
      PROVE  TypeOK'
  BY <1>6 DEF Register
<1>7. ASSUME NEW c \in Coros, InlineCallback(c), UNCHANGED lockVars
      PROVE  TypeOK'
  <2>1. CASE pc[c] = "cb_mark"
    BY <1>7, <2>1 DEF InlineCallback, MarkResumed
  <2>2. CASE pc[c] = "cb_store"
    BY <1>7, <2>2 DEF InlineCallback, MarkResumed
  <2>3. CASE pc[c] = "cb_wake"
    BY <1>7, <2>3 DEF InlineCallback, RequestWake
  <2> QED BY <1>7, <2>1, <2>2, <2>3 DEF InlineCallback
<1>8. ASSUME NEW c \in Coros, TryMarkSuspended(c), UNCHANGED lockVars
      PROVE  TypeOK'
  BY <1>8 DEF TryMarkSuspended
<1>9. ASSUME NEW c \in Coros, AwaitReady(c)
      PROVE  TypeOK'
  BY <1>9 DEF AwaitReady
<1>10. ASSUME NEW c \in Coros, EnqueueWaiter(c)
      PROVE  TypeOK'
  <2>1. CASE ~locked
    BY <1>10, <2>1 DEF EnqueueWaiter
  <2>2. CASE locked
    <3>1. NewAddress \in Waiters
      BY <1>10, <2>2 DEF EnqueueWaiter, NewAddress, FreeWaiters
    <3>2. NewAddress \notin ToSet(waiters)
      BY <1>10, <2>2 DEF EnqueueWaiter, NewAddress, FreeWaiters
    <3>0. waiters' = Append(waiters, NewAddress) /\ NewWaiter(c, NewAddress)
      BY <1>10, <2>2 DEF EnqueueWaiter
    <3>3. waiters' \in Seq(Waiters) /\ ToSet(waiters') = ToSet(waiters) \cup {NewAddress}
      BY <3>0, <3>1, ToSetAppend
    <3>4. \A w \in ToSet(waiters) : handle'[w] = handle[w]
      BY <3>0, <3>1, <3>2 DEF NewWaiter
    <3>6. WaitTypeOK(Points)'
      BY <3>0, <3>1 DEF NewWaiter
    <3>5. handle'[NewAddress] # NoCoro
      BY <1>10, <2>2, <3>1, NullAssumption DEF EnqueueWaiter, NewWaiter
    <3> QED BY <1>10, <2>2, <3>3, <3>4, <3>5, <3>6 DEF EnqueueWaiter
  <2> QED BY <1>10, <2>1, <2>2 DEF EnqueueWaiter
<1>11. ASSUME NEW c \in Coros, LockResume(c)
      PROVE  TypeOK'
  BY <1>11 DEF LockResume, AwaitResume
<1>12. ASSUME NEW c \in Coros, UnlockGuard(c)
      PROVE  TypeOK'
  BY <1>12 DEF UnlockGuard
<1>13. ASSUME NEW c \in Coros, UnlockPop(c)
      PROVE  TypeOK'
  <2>1. CASE waiters = <<>>
    BY <1>13, <2>1 DEF UnlockPop
  <2>2. CASE waiters # <<>>
    <3>1. Tail(waiters) \in Seq(Waiters) /\ Head(waiters) \in Waiters
          /\ ToSet(Tail(waiters)) \subseteq ToSet(waiters)
      BY <2>2, ToSetTail
    <3> QED BY <1>13, <2>2, <3>1 DEF UnlockPop, MarkResumed
  <2> QED BY <2>1, <2>2
<1>14. ASSUME NEW c \in Coros, UnlockWake(c)
      PROVE  TypeOK'
  <2>1. waiter \in Waiters
    BY <1>14 DEF UnlockWake, GuardInv
  <2>2. next' \in [Coros -> Coros \cup {NoCoro}]
    BY <1>14, <2>1 DEF UnlockWake
  <2>3. phase' \in [Waiters -> Phases]
    BY <1>14 DEF UnlockWake, RequestWake
  <2> QED BY <1>14, <2>2, <2>3 DEF UnlockWake
<1>15. ASSUME NEW c \in Coros, UnlockResume(c)
      PROVE  TypeOK'
  BY <1>15 DEF UnlockResume
<1>16. ASSUME NEW c \in Coros, CancelRequest(c)
      PROVE  TypeOK'
  BY <1>16 DEF CancelRequest, RequestCancellation
<1>17. ASSUME NEW c \in Coros, SwapCallbacks(c), UNCHANGED lockVars
      PROVE  TypeOK'
  BY <1>17 DEF SwapCallbacks
<1>18. ASSUME NEW c \in Coros, InvokeCallback(c), UNCHANGED lockVars
      PROVE  TypeOK'
  <2>1. CASE kpc[c] = "cb_mark"
    <3>1. kcb[c] \in Waiters \cup {NoWaiter} /\ resumed' = [resumed EXCEPT ![kcb[c]] = TRUE]
      BY <1>18, <2>1 DEF InvokeCallback, MarkResumed
    <3>2. kpc' \in [Coros -> CancelPoints] /\ kcb' \in [Coros -> Waiters \cup {NoWaiter}]
      BY <1>18, <2>1 DEF InvokeCallback, CancelPoints
    <3>3. UNCHANGED <<pc, awaiterVars, handle, requested, callback, cancelled, phase>>
      BY <1>18, <2>1 DEF InvokeCallback
    <3> QED BY <1>18, <3>1, <3>2, <3>3
  <2>2. CASE kpc[c] = "cb_store"
    BY <1>18, <2>2 DEF InvokeCallback
  <2>3. CASE kpc[c] = "cb_wake"
    <3>1. phase' \in [Waiters -> Phases]
      BY <1>18, <2>3 DEF InvokeCallback, RequestWake
    <3>2. kpc' \in [Coros -> CancelPoints] /\ kcb' \in [Coros -> Waiters \cup {NoWaiter}]
      BY <1>18, <2>3 DEF InvokeCallback
    <3> QED BY <1>18, <2>3, <3>1, <3>2 DEF InvokeCallback
  <2> QED BY <1>18, <2>1, <2>2, <2>3 DEF InvokeCallback
<1>19. ASSUME NEW c \in Coros, CancelResume(c), UNCHANGED lockVars
      PROVE  TypeOK'
  BY <1>19 DEF CancelResume
<1>20. CASE UNCHANGED vars
  BY <1>20
<1> QED
  BY <1>1, <1>2, <1>3, <1>4, <1>5, <1>6, <1>7, <1>8, <1>9, <1>10, <1>11,
       <1>12, <1>13, <1>14, <1>15, <1>16, <1>17, <1>18, <1>19, <1>20 DEF Next,
       CoroStep, LockAwait, AwaiterStep, UnlockStep, CancellerStep, CancelStep

-----------------------------------------------------------------------------
(* The address of a new waiter is one that nothing refers to.              *)
LEMMA NewAddressIsFree ==
  ASSUME FreeWaiters # {}
  PROVE  /\ NewAddress \in Waiters
         /\ NewAddress \notin ToSet(waiters) /\ NewAddress # waiter
         /\ \A c \in Coros : /\ state[c] # NewAddress /\ callback[c] # NewAddress
                             /\ kcb[c] # NewAddress
  BY DEF NewAddress, FreeWaiters, AwaitReferences

(* The invariant holds of a new mutex.                                     *)
LEMMA InvariantInit == Init => MutexInvariant
<1> SUFFICES ASSUME Init PROVE MutexInvariant
  OBVIOUS
<1> USE DEF Init, WaitInit
<1>1. TypeOK
  BY TypeInit
<1>2. GuardInv /\ OwnWaiterInv /\ PhaseInv /\ CancelInv /\ HandOverInv
  BY DEF GuardInv, OwnWaiterInv, PhaseInv, CancelInv, HandOverInv, Waiting
<1>3. UnclaimedInv
  BY ToSetEmpty DEF UnclaimedInv
<1>4. OwnerInv
  <2>1. \A c \in Coros : ~Owner(c)
    BY DEF Owner, Granted
  <2> QED BY <2>1, ToSetEmpty DEF OwnerInv, LockedIffOwned, MutualExclusion, FreeMeansNobodyWaits
<1> QED BY <1>1, <1>2, <1>3, <1>4 DEF MutexInvariant

(* The invariant is inductive: one step per action, and under it one step  *)
(* per part of the invariant.                                              *)
LEMMA InvariantStep ==
  ASSUME MutexInvariant, [Next]_vars
  PROVE  MutexInvariant'
<1>0. TypeOK'
  BY TypeStep DEF MutexInvariant
<1> USE DEF MutexInvariant, TypeOK, WaitTypeOK, Goto,
            lockVars, awaiterVars, waiterVars, cancelVars
<1>1. ASSUME NEW c \in Coros, Lock(c)
      PROVE  MutexInvariant'
  <2>1. GuardInv'
    BY <1>0, <1>1, NullAssumption DEF Lock, BeginWait, GuardInv
  <2>2. OwnWaiterInv'
    BY <1>0, <1>1, NullAssumption DEF Lock, BeginWait, OwnWaiterInv,
         HandOverInv, CancelInv, Granted, CancelClaimed, Waiting
  <2>3. PhaseInv'
    BY <1>0, <1>1, NullAssumption DEF Lock, BeginWait, PhaseInv, OwnWaiterInv,
         HandOverInv, CancelInv, Granted, CancelClaimed, Phases, Waiting,
         GuardInv
  <2>4. UnclaimedInv'
    BY <1>0, <1>1, NullAssumption, ToSetType DEF Lock, BeginWait,
         UnclaimedInv, OwnWaiterInv, PhaseInv, CancelInv, GuardInv, Waiting
  <2>5. CancelInv'
    BY <1>0, <1>1, NullAssumption DEF Lock, BeginWait, CancelInv,
         OwnWaiterInv, PhaseInv, UnclaimedInv, HandOverInv, GuardInv, Granted,
         CancelClaimed, Phases, Waiting
  <2>6. HandOverInv'
    BY <1>0, <1>1, NullAssumption DEF Lock, BeginWait, HandOverInv,
         OwnWaiterInv, PhaseInv, UnclaimedInv, CancelInv, GuardInv, OwnerInv,
         Granted, CancelClaimed, Waiting
  <2>7. OwnerInv'
    BY <1>0, <1>1, NullAssumption, ToSetType DEF Lock, BeginWait, OwnerInv,
         LockedIffOwned, MutualExclusion, FreeMeansNobodyWaits, Owner,
         OwnWaiterInv, PhaseInv, UnclaimedInv, CancelInv, HandOverInv,
         GuardInv, Granted, CancelClaimed, Waiting, Phases
  <2> QED BY <1>0, <2>1, <2>2, <2>3, <2>4, <2>5, <2>6, <2>7
<1>2. ASSUME NEW c \in Coros, TryLock(c)
      PROVE  MutexInvariant'
  <2>1. GuardInv'
    BY <1>0, <1>2, NullAssumption DEF TryLock, GuardInv
  <2>2. OwnWaiterInv'
    BY <1>0, <1>2, NullAssumption DEF TryLock, OwnWaiterInv, HandOverInv,
         CancelInv, Granted, CancelClaimed, Waiting
  <2>3. PhaseInv'
    BY <1>0, <1>2, NullAssumption DEF TryLock, PhaseInv, OwnWaiterInv,
         HandOverInv, CancelInv, Granted, CancelClaimed, Phases, Waiting,
         GuardInv
  <2>4. UnclaimedInv'
    BY <1>0, <1>2, NullAssumption, ToSetType DEF TryLock, UnclaimedInv,
         OwnWaiterInv, PhaseInv, CancelInv, GuardInv, Waiting
  <2>5. CancelInv'
    BY <1>0, <1>2, NullAssumption DEF TryLock, CancelInv, OwnWaiterInv,
         PhaseInv, UnclaimedInv, HandOverInv, GuardInv, Granted,
         CancelClaimed, Phases, Waiting
  <2>6. HandOverInv'
    BY <1>0, <1>2, NullAssumption DEF TryLock, HandOverInv, OwnWaiterInv,
         PhaseInv, UnclaimedInv, CancelInv, GuardInv, OwnerInv, Granted,
         CancelClaimed, Waiting
  <2>7. OwnerInv'
    BY <1>0, <1>2, NullAssumption, ToSetType DEF TryLock, OwnerInv,
         LockedIffOwned, MutualExclusion, FreeMeansNobodyWaits, Owner,
         OwnWaiterInv, PhaseInv, UnclaimedInv, CancelInv, HandOverInv,
         GuardInv, Granted, CancelClaimed, Waiting, Phases
  <2> QED BY <1>0, <2>1, <2>2, <2>3, <2>4, <2>5, <2>6, <2>7
<1>3. ASSUME NEW c \in Coros, Unlock(c)
      PROVE  MutexInvariant'
  <2>1. GuardInv'
    BY <1>0, <1>3, NullAssumption DEF Unlock, GuardInv
  <2>2. OwnWaiterInv'
    BY <1>0, <1>3, NullAssumption DEF Unlock, OwnWaiterInv, HandOverInv,
         CancelInv, Granted, CancelClaimed, Waiting
  <2>3. PhaseInv'
    BY <1>0, <1>3, NullAssumption DEF Unlock, PhaseInv, OwnWaiterInv,
         HandOverInv, CancelInv, Granted, CancelClaimed, Phases, Waiting,
         GuardInv
  <2>4. UnclaimedInv'
    BY <1>0, <1>3, NullAssumption, ToSetType DEF Unlock, UnclaimedInv,
         OwnWaiterInv, PhaseInv, CancelInv, GuardInv, Waiting
  <2>5. CancelInv'
    BY <1>0, <1>3, NullAssumption DEF Unlock, CancelInv, OwnWaiterInv,
         PhaseInv, UnclaimedInv, HandOverInv, GuardInv, Granted,
         CancelClaimed, Phases, Waiting
  <2>6. HandOverInv'
    <3>1. HandOverInv
      BY DEF MutexInvariant
    <3>2. UNCHANGED <<state, handle, phase, waiter, next>>
      BY <1>3 DEF Unlock
    <3>3. \A d \in Coros :
            /\ Granted(d) => Granted(d)'
            /\ pc'[d] # "unlock" => pc'[d] = pc[d]
            /\ pc[d] # "critical" => pc'[d] = pc[d]
      BY <1>3 DEF Unlock, Granted, CancelClaimed
    <3> HIDE DEF MutexInvariant, TypeOK, WaitTypeOK, Goto
    <3> QED
      BY <3>1, <3>2, <3>3 DEF HandOverInv
  <2>7. OwnerInv'
    BY <1>0, <1>3, NullAssumption, ToSetType DEF Unlock, OwnerInv,
         LockedIffOwned, MutualExclusion, FreeMeansNobodyWaits, Owner,
         OwnWaiterInv, PhaseInv, UnclaimedInv, CancelInv, HandOverInv,
         GuardInv, Granted, CancelClaimed, Waiting, Phases
  <2> QED BY <1>0, <2>1, <2>2, <2>3, <2>4, <2>5, <2>6, <2>7
<1>4. ASSUME NEW c \in Coros, AwaitReadyToken(c), UNCHANGED lockVars
      PROVE  MutexInvariant'
  <2>1. GuardInv'
    BY <1>0, <1>4, NullAssumption DEF AwaitReadyToken, CheckToken,
         TokenCancelled, GuardInv
  <2>2. OwnWaiterInv'
    BY <1>0, <1>4, NullAssumption DEF AwaitReadyToken, CheckToken,
         TokenCancelled, OwnWaiterInv, HandOverInv, CancelInv, Granted,
         CancelClaimed, Waiting
  <2>3. PhaseInv'
    BY <1>0, <1>4, NullAssumption DEF AwaitReadyToken, CheckToken,
         TokenCancelled, PhaseInv, OwnWaiterInv, HandOverInv, CancelInv,
         Granted, CancelClaimed, Phases, Waiting, GuardInv
  <2>4. UnclaimedInv'
    BY <1>0, <1>4, NullAssumption, ToSetType DEF AwaitReadyToken, CheckToken,
         TokenCancelled, UnclaimedInv, OwnWaiterInv, PhaseInv, CancelInv,
         GuardInv, Waiting
  <2>5. CancelInv'
    BY <1>0, <1>4, NullAssumption DEF AwaitReadyToken, CheckToken,
         TokenCancelled, CancelInv, OwnWaiterInv, PhaseInv, UnclaimedInv,
         HandOverInv, GuardInv, Granted, CancelClaimed, Phases, Waiting
  <2>6. HandOverInv'
    BY <1>0, <1>4, NullAssumption DEF AwaitReadyToken, CheckToken,
         TokenCancelled, HandOverInv, OwnWaiterInv, PhaseInv, UnclaimedInv,
         CancelInv, GuardInv, OwnerInv, Granted, CancelClaimed, Waiting
  <2>7. OwnerInv'
    BY <1>0, <1>4, NullAssumption, ToSetType DEF AwaitReadyToken, CheckToken,
         TokenCancelled, OwnerInv, LockedIffOwned, MutualExclusion,
         FreeMeansNobodyWaits, Owner, OwnWaiterInv, PhaseInv, UnclaimedInv,
         CancelInv, HandOverInv, GuardInv, Granted, CancelClaimed, Waiting,
         Phases
  <2> QED BY <1>0, <2>1, <2>2, <2>3, <2>4, <2>5, <2>6, <2>7
<1>5. ASSUME NEW c \in Coros, AwaitSuspendToken(c), UNCHANGED lockVars
      PROVE  MutexInvariant'
  <2>1. GuardInv'
    BY <1>0, <1>5, NullAssumption DEF AwaitSuspendToken, CheckToken,
         TokenCancelled, GuardInv
  <2>2. OwnWaiterInv'
    BY <1>0, <1>5, NullAssumption DEF AwaitSuspendToken, CheckToken,
         TokenCancelled, OwnWaiterInv, HandOverInv, CancelInv, Granted,
         CancelClaimed, Waiting
  <2>3. PhaseInv'
    BY <1>0, <1>5, NullAssumption DEF AwaitSuspendToken, CheckToken,
         TokenCancelled, PhaseInv, OwnWaiterInv, HandOverInv, CancelInv,
         Granted, CancelClaimed, Phases, Waiting, GuardInv
  <2>4. UnclaimedInv'
    BY <1>0, <1>5, NullAssumption, ToSetType DEF AwaitSuspendToken,
         CheckToken, TokenCancelled, UnclaimedInv, OwnWaiterInv, PhaseInv,
         CancelInv, GuardInv, Waiting
  <2>5. CancelInv'
    BY <1>0, <1>5, NullAssumption DEF AwaitSuspendToken, CheckToken,
         TokenCancelled, CancelInv, OwnWaiterInv, PhaseInv, UnclaimedInv,
         HandOverInv, GuardInv, Granted, CancelClaimed, Phases, Waiting
  <2>6. HandOverInv'
    BY <1>0, <1>5, NullAssumption DEF AwaitSuspendToken, CheckToken,
         TokenCancelled, HandOverInv, OwnWaiterInv, PhaseInv, UnclaimedInv,
         CancelInv, GuardInv, OwnerInv, Granted, CancelClaimed, Waiting
  <2>7. OwnerInv'
    BY <1>0, <1>5, NullAssumption, ToSetType DEF AwaitSuspendToken,
         CheckToken, TokenCancelled, OwnerInv, LockedIffOwned,
         MutualExclusion, FreeMeansNobodyWaits, Owner, OwnWaiterInv, PhaseInv,
         UnclaimedInv, CancelInv, HandOverInv, GuardInv, Granted,
         CancelClaimed, Waiting, Phases
  <2> QED BY <1>0, <2>1, <2>2, <2>3, <2>4, <2>5, <2>6, <2>7
<1>6. ASSUME NEW c \in Coros, Register(c), UNCHANGED lockVars
      PROVE  MutexInvariant'
  <2>1. GuardInv'
    BY <1>0, <1>6, NullAssumption DEF Register, GuardInv
  <2>2. OwnWaiterInv'
    BY <1>0, <1>6, NullAssumption DEF Register, OwnWaiterInv, HandOverInv,
         CancelInv, Granted, CancelClaimed, Waiting
  <2>3. PhaseInv'
    BY <1>0, <1>6, NullAssumption DEF Register, PhaseInv, OwnWaiterInv,
         HandOverInv, CancelInv, Granted, CancelClaimed, Phases, Waiting,
         GuardInv
  <2>4. UnclaimedInv'
    BY <1>0, <1>6, NullAssumption, ToSetType DEF Register, UnclaimedInv,
         OwnWaiterInv, PhaseInv, CancelInv, GuardInv, Waiting
  <2>5. CancelInv'
    BY <1>0, <1>6, NullAssumption DEF Register, CancelInv, OwnWaiterInv,
         PhaseInv, UnclaimedInv, HandOverInv, GuardInv, Granted,
         CancelClaimed, Phases, Waiting
  <2>6. HandOverInv'
    BY <1>0, <1>6, NullAssumption DEF Register, HandOverInv, OwnWaiterInv,
         PhaseInv, UnclaimedInv, CancelInv, GuardInv, OwnerInv, Granted,
         CancelClaimed, Waiting
  <2>7. OwnerInv'
    BY <1>0, <1>6, NullAssumption, ToSetType DEF Register, OwnerInv,
         LockedIffOwned, MutualExclusion, FreeMeansNobodyWaits, Owner,
         OwnWaiterInv, PhaseInv, UnclaimedInv, CancelInv, HandOverInv,
         GuardInv, Granted, CancelClaimed, Waiting, Phases
  <2> QED BY <1>0, <2>1, <2>2, <2>3, <2>4, <2>5, <2>6, <2>7
<1>7. ASSUME NEW c \in Coros, InlineCallback(c), pc[c] = "cb_mark", UNCHANGED lockVars
      PROVE  MutexInvariant'
  <2>1. GuardInv'
    BY <1>0, <1>7, NullAssumption DEF InlineCallback, MarkResumed, GuardInv
  <2>2. OwnWaiterInv'
    BY <1>0, <1>7, NullAssumption DEF InlineCallback, MarkResumed,
         OwnWaiterInv, HandOverInv, CancelInv, Granted, CancelClaimed, Waiting
  <2>3. PhaseInv'
    BY <1>0, <1>7, NullAssumption DEF InlineCallback, MarkResumed, PhaseInv,
         OwnWaiterInv, HandOverInv, CancelInv, Granted, CancelClaimed, Phases,
         Waiting, GuardInv
  <2>4. UnclaimedInv'
    BY <1>0, <1>7, NullAssumption, ToSetType DEF InlineCallback, MarkResumed,
         UnclaimedInv, OwnWaiterInv, PhaseInv, CancelInv, GuardInv, Waiting
  <2>5. CancelInv'
    BY <1>0, <1>7, NullAssumption DEF InlineCallback, MarkResumed, CancelInv,
         OwnWaiterInv, PhaseInv, UnclaimedInv, HandOverInv, GuardInv, Granted,
         CancelClaimed, Phases, Waiting
  <2>6. HandOverInv'
    <3>1. /\ pc'[c] \in {"mark", "cb_store"} /\ \A e \in Coros \ {c} : pc'[e] = pc[e]
          /\ resumed' = [resumed EXCEPT ![state[c]] = TRUE]
          /\ resumed[state[c]] => pc'[c] = "mark"
          /\ UNCHANGED <<awaiterVars, handle, cancelVars, cancelled, phase, waiter, next>>
      BY <1>7 DEF InlineCallback, MarkResumed, Goto
    <3>2. \A e \in Coros : Granted(e) => Granted(e)'
      BY <1>7, <3>1 DEF Granted, CancelClaimed
    <3>3. ASSUME NEW e \in Coros, pc'[e] = "unlock_wake"
          PROVE  /\ handle'[waiter'] \in Coros /\ state'[handle'[waiter']] = waiter'
                 /\ Granted(handle[waiter])' /\ phase'[waiter'] # "wake_requested"
                 /\ pc'[handle'[waiter']] # "resume"
      <4>1. pc[e] = "unlock_wake" /\ handle[waiter] \in Coros
        BY <3>1, <3>3 DEF HandOverInv
      <4> QED BY <3>1, <3>2, <4>1 DEF HandOverInv
    <3>4. ASSUME NEW e \in Coros, pc'[e] = "unlock_resume"
          PROVE  /\ next'[e] \in Coros /\ Granted(next[e])' /\ pc'[next'[e]] = "suspended"
                 /\ \A f \in Coros :
                      /\ pc'[f] = "unlock_resume" /\ next'[f] = next'[e] => f = e
                      /\ pc'[f] = "unlock_wake" => handle'[waiter'] # next'[e]
      <4>1. pc[e] = "unlock_resume" /\ next[e] \in Coros /\ next[e] # c
        BY <1>7, <3>1, <3>4 DEF HandOverInv
      <4> QED BY <3>1, <3>2, <4>1 DEF HandOverInv
    <3> QED BY <3>1, <3>3, <3>4 DEF HandOverInv
  <2>7. OwnerInv'
    BY <1>0, <1>7, NullAssumption, ToSetType, SMTT(60) DEF InlineCallback, MarkResumed,
         OwnerInv, LockedIffOwned, MutualExclusion, FreeMeansNobodyWaits,
         Owner, OwnWaiterInv, PhaseInv, CancelInv,
         Granted, CancelClaimed
  <2> QED BY <1>0, <2>1, <2>2, <2>3, <2>4, <2>5, <2>6, <2>7
<1>8. ASSUME NEW c \in Coros, InlineCallback(c), pc[c] = "cb_store", UNCHANGED lockVars
      PROVE  MutexInvariant'
  <2>1. GuardInv'
    BY <1>0, <1>8, NullAssumption DEF InlineCallback, GuardInv
  <2>2. OwnWaiterInv'
    BY <1>0, <1>8, NullAssumption DEF InlineCallback, OwnWaiterInv,
         HandOverInv, CancelInv, Granted, CancelClaimed, Waiting
  <2>3. PhaseInv'
    BY <1>0, <1>8, NullAssumption DEF InlineCallback, PhaseInv, OwnWaiterInv,
         HandOverInv, CancelInv, Granted, CancelClaimed, Phases, Waiting,
         GuardInv
  <2>4. UnclaimedInv'
    BY <1>0, <1>8, NullAssumption, ToSetType DEF InlineCallback, UnclaimedInv,
         OwnWaiterInv, PhaseInv, CancelInv, GuardInv, Waiting
  <2>5. CancelInv'
    BY <1>0, <1>8, NullAssumption DEF InlineCallback, CancelInv, OwnWaiterInv,
         PhaseInv, UnclaimedInv, HandOverInv, GuardInv, Granted,
         CancelClaimed, Phases, Waiting
  <2>6. HandOverInv'
    BY <1>0, <1>8, NullAssumption DEF InlineCallback, HandOverInv,
         OwnWaiterInv, PhaseInv, UnclaimedInv, CancelInv, GuardInv, OwnerInv,
         Granted, CancelClaimed, Waiting
  <2>7. OwnerInv'
    <3>1. \A d \in Coros : Owner(d)' <=> Owner(d)
      BY <1>8 DEF InlineCallback, Owner, Granted, CancelClaimed, OwnWaiterInv, Waiting
    <3> QED BY <1>8, <3>1 DEF InlineCallback, OwnerInv, LockedIffOwned, MutualExclusion, FreeMeansNobodyWaits
  <2> QED BY <1>0, <2>1, <2>2, <2>3, <2>4, <2>5, <2>6, <2>7
<1>9. ASSUME NEW c \in Coros, InlineCallback(c), pc[c] = "cb_wake", UNCHANGED lockVars
      PROVE  MutexInvariant'
  <2>1. GuardInv'
    BY <1>0, <1>9, NullAssumption DEF InlineCallback, RequestWake, GuardInv
  <2>2. OwnWaiterInv'
    BY <1>0, <1>9, NullAssumption DEF InlineCallback, RequestWake,
         OwnWaiterInv, HandOverInv, CancelInv, Granted, CancelClaimed, Waiting
  <2>3. PhaseInv'
    BY <1>0, <1>9, NullAssumption DEF InlineCallback, RequestWake, PhaseInv,
         OwnWaiterInv, HandOverInv, CancelInv, Granted, CancelClaimed, Phases,
         Waiting, GuardInv
  <2>4. UnclaimedInv'
    BY <1>0, <1>9, NullAssumption, ToSetType DEF InlineCallback, RequestWake,
         UnclaimedInv, OwnWaiterInv, PhaseInv, CancelInv, GuardInv, Waiting
  <2>5. CancelInv'
    BY <1>0, <1>9, NullAssumption DEF InlineCallback, RequestWake, CancelInv,
         OwnWaiterInv, PhaseInv, UnclaimedInv, HandOverInv, GuardInv, Granted,
         CancelClaimed, Phases, Waiting
  <2>6. HandOverInv'
    <3>1. /\ pc' = [pc EXCEPT ![c] = "mark"] /\ cancelled[state[c]]
          /\ UNCHANGED <<state, handle, resumed, cancelled, kpc, kcb, waiter, next>>
          /\ \A w \in Waiters : w # state[c] => phase'[w] = phase[w]
          /\ state[c] \in Waiters
      BY <1>9 DEF InlineCallback, RequestWake, CancelInv, OwnWaiterInv, Waiting
    <3>2. \A d \in Coros : Granted(d) => d # c /\ Granted(d)'
      BY <3>1 DEF Granted, CancelClaimed
    <3>3. ASSUME NEW e \in Coros, pc'[e] = "unlock_wake"
          PROVE  /\ handle[waiter] \in Coros /\ state[handle[waiter]] = waiter
                 /\ Granted(handle[waiter])' /\ phase'[waiter] # "wake_requested"
                 /\ pc'[handle[waiter]] # "resume"
      <4>1. pc[e] = "unlock_wake"
        BY <3>1, <3>3
      <4>2. /\ handle[waiter] \in Coros /\ state[handle[waiter]] = waiter
            /\ Granted(handle[waiter]) /\ phase[waiter] # "wake_requested"
            /\ pc[handle[waiter]] # "resume"
        BY <4>1 DEF HandOverInv
      <4>3. waiter \in Waiters
        BY <4>1 DEF GuardInv
      <4>4. handle[waiter] # c /\ Granted(handle[waiter])'
        BY <3>1, <3>2, <4>2 DEF Granted, CancelClaimed
      <4>5. waiter # state[c]
        BY <1>9, <4>2, <4>4 DEF OwnWaiterInv, Waiting
      <4> QED BY <3>1, <4>2, <4>3, <4>4, <4>5
    <3>4. \A e \in Coros : /\ pc'[e] = "unlock_resume" => pc[e] = "unlock_resume"
                           /\ pc'[e] = "unlock_wake" => pc[e] = "unlock_wake"
                           /\ e # c => pc'[e] = pc[e]
      BY <3>1
    <3> QED BY <3>1, <3>2, <3>3, <3>4 DEF HandOverInv
  <2>7. OwnerInv'
    BY <1>0, <1>9, NullAssumption, ToSetType DEF InlineCallback, RequestWake,
         OwnerInv, LockedIffOwned, MutualExclusion, FreeMeansNobodyWaits,
         Owner, OwnWaiterInv, PhaseInv, UnclaimedInv, CancelInv, HandOverInv,
         GuardInv, Granted, CancelClaimed, Waiting, Phases
  <2> QED BY <1>0, <2>1, <2>2, <2>3, <2>4, <2>5, <2>6, <2>7
<1>10. ASSUME NEW c \in Coros, TryMarkSuspended(c), UNCHANGED lockVars
      PROVE  MutexInvariant'
  <2>1. GuardInv'
    BY <1>0, <1>10, NullAssumption DEF TryMarkSuspended, GuardInv
  <2>2. OwnWaiterInv'
    BY <1>0, <1>10, NullAssumption DEF TryMarkSuspended, OwnWaiterInv,
         HandOverInv, CancelInv, Granted, CancelClaimed, Waiting
  <2>3. PhaseInv'
    BY <1>0, <1>10, NullAssumption DEF TryMarkSuspended, PhaseInv,
         OwnWaiterInv, HandOverInv, CancelInv, Granted, CancelClaimed, Phases,
         Waiting, GuardInv
  <2>4. UnclaimedInv'
    BY <1>0, <1>10, NullAssumption, ToSetType DEF TryMarkSuspended,
         UnclaimedInv, OwnWaiterInv, PhaseInv, CancelInv, GuardInv, Waiting
  <2>5. CancelInv'
    BY <1>0, <1>10, NullAssumption DEF TryMarkSuspended, CancelInv,
         OwnWaiterInv, PhaseInv, UnclaimedInv, HandOverInv, GuardInv, Granted,
         CancelClaimed, Phases, Waiting
  <2>6. HandOverInv'
    BY <1>0, <1>10, NullAssumption DEF TryMarkSuspended, HandOverInv,
         OwnWaiterInv, PhaseInv, UnclaimedInv, CancelInv, GuardInv, OwnerInv,
         Granted, CancelClaimed, Waiting, Phases
  <2>7. OwnerInv'
    BY <1>0, <1>10, NullAssumption, ToSetType DEF TryMarkSuspended, OwnerInv,
         LockedIffOwned, MutualExclusion, FreeMeansNobodyWaits, Owner,
         OwnWaiterInv, PhaseInv, UnclaimedInv, CancelInv, HandOverInv,
         GuardInv, Granted, CancelClaimed, Waiting, Phases
  <2> QED BY <1>0, <2>1, <2>2, <2>3, <2>4, <2>5, <2>6, <2>7
<1>11. ASSUME NEW c \in Coros, AwaitReady(c)
      PROVE  MutexInvariant'
  <2>1. GuardInv'
    BY <1>0, <1>11, NullAssumption DEF AwaitReady, GuardInv
  <2>2. OwnWaiterInv'
    BY <1>0, <1>11, NullAssumption DEF AwaitReady, OwnWaiterInv, HandOverInv,
         CancelInv, Granted, CancelClaimed, Waiting
  <2>3. PhaseInv'
    BY <1>0, <1>11, NullAssumption DEF AwaitReady, PhaseInv, OwnWaiterInv,
         HandOverInv, CancelInv, Granted, CancelClaimed, Phases, Waiting,
         GuardInv
  <2>4. UnclaimedInv'
    BY <1>0, <1>11, NullAssumption, ToSetType DEF AwaitReady, UnclaimedInv,
         OwnWaiterInv, PhaseInv, CancelInv, GuardInv, Waiting
  <2>5. CancelInv'
    BY <1>0, <1>11, NullAssumption DEF AwaitReady, CancelInv, OwnWaiterInv,
         PhaseInv, UnclaimedInv, HandOverInv, GuardInv, Granted,
         CancelClaimed, Phases, Waiting
  <2>6. HandOverInv'
    BY <1>0, <1>11, NullAssumption DEF AwaitReady, HandOverInv, OwnWaiterInv,
         PhaseInv, UnclaimedInv, CancelInv, GuardInv, OwnerInv, Granted,
         CancelClaimed, Waiting
  <2>7. OwnerInv'
    BY <1>0, <1>11, NullAssumption, ToSetType DEF AwaitReady, OwnerInv,
         LockedIffOwned, MutualExclusion, FreeMeansNobodyWaits, Owner,
         OwnWaiterInv, PhaseInv, UnclaimedInv, CancelInv, HandOverInv,
         GuardInv, Granted, CancelClaimed, Waiting, Phases
  <2> QED BY <1>0, <2>1, <2>2, <2>3, <2>4, <2>5, <2>6, <2>7
<1>12. ASSUME NEW c \in Coros, EnqueueWaiter(c), ~locked
      PROVE  MutexInvariant'
  <2>1. GuardInv'
    BY <1>0, <1>12, NullAssumption DEF EnqueueWaiter, GuardInv
  <2>2. OwnWaiterInv'
    BY <1>0, <1>12, NullAssumption DEF EnqueueWaiter, OwnWaiterInv,
         HandOverInv, CancelInv, Granted, CancelClaimed, Waiting
  <2>3. PhaseInv'
    BY <1>0, <1>12, NullAssumption DEF EnqueueWaiter, PhaseInv, OwnWaiterInv,
         HandOverInv, CancelInv, Granted, CancelClaimed, Phases, Waiting,
         GuardInv
  <2>4. UnclaimedInv'
    BY <1>0, <1>12, NullAssumption, ToSetType DEF EnqueueWaiter, UnclaimedInv,
         OwnWaiterInv, PhaseInv, CancelInv, GuardInv, Waiting
  <2>5. CancelInv'
    BY <1>0, <1>12, NullAssumption DEF EnqueueWaiter, CancelInv, OwnWaiterInv,
         PhaseInv, UnclaimedInv, HandOverInv, GuardInv, Granted,
         CancelClaimed, Phases, Waiting
  <2>6. HandOverInv'
    BY <1>0, <1>12, NullAssumption DEF EnqueueWaiter, HandOverInv,
         OwnWaiterInv, PhaseInv, UnclaimedInv, CancelInv, GuardInv, OwnerInv,
         Granted, CancelClaimed, Waiting
  <2>7. OwnerInv'
    BY <1>0, <1>12, NullAssumption, ToSetType DEF EnqueueWaiter, OwnerInv,
         LockedIffOwned, MutualExclusion, FreeMeansNobodyWaits, Owner,
         OwnWaiterInv, PhaseInv, UnclaimedInv, CancelInv, HandOverInv,
         GuardInv, Granted, CancelClaimed, Waiting, Phases
  <2> QED BY <1>0, <2>1, <2>2, <2>3, <2>4, <2>5, <2>6, <2>7
<1>13. ASSUME NEW c \in Coros, EnqueueWaiter(c), locked
      PROVE  MutexInvariant'
  <2>1. GuardInv'
    BY <1>0, <1>13, NullAssumption, NewAddressIsFree, ToSetAppend DEF
         EnqueueWaiter, NewWaiter, GuardInv
  <2>2. OwnWaiterInv'
    BY <1>0, <1>13, NullAssumption, NewAddressIsFree, ToSetAppend DEF
         EnqueueWaiter, NewWaiter, OwnWaiterInv, HandOverInv, CancelInv,
         Granted, CancelClaimed, Waiting
  <2>3. PhaseInv'
    <3>1. NewWaiter(c, NewAddress) /\ FreeWaiters # {} /\ pc[c] = "enqueue"
      BY <1>13 DEF EnqueueWaiter
    <3>2. NewAddress \in Waiters /\ \A d \in Coros : state[d] # NewAddress
      BY <3>1, NewAddressIsFree
    <3>3. /\ state' = [state EXCEPT ![c] = NewAddress]
          /\ pc'[c] \in {"register", "mark"} /\ phase'[NewAddress] = "waiting_await_suspend"
          /\ ~cancelled'[NewAddress]
          /\ \A d \in Coros \ {c} : pc'[d] = pc[d]
          /\ \A w \in Waiters \ {NewAddress} :
               phase'[w] = phase[w] /\ resumed'[w] = resumed[w] /\ cancelled'[w] = cancelled[w]
      BY <3>1, <3>2 DEF NewWaiter, Goto
    <3>4. ASSUME NEW w \in Waiters PROVE cancelled'[w] => resumed'[w]
      BY <3>3 DEF PhaseInv
    <3>5. ASSUME NEW d \in Coros, state'[d] # NoWaiter
          PROVE  /\ phase'[state'[d]] = "wake_requested" => resumed'[state'[d]]
                 /\ pc'[d] = "suspended" => phase'[state'[d]] = "suspended"
                 /\ phase'[state'[d]] = "suspended" => pc'[d] \in {"suspended", "resume"}
                 /\ pc'[d] = "resume" => resumed'[state'[d]]
      <4>1. CASE d = c
        <5>1. state'[d] = NewAddress
          BY <3>3, <4>1
        <5> QED BY <3>3, <4>1, <5>1
      <4>2. CASE d # c
        <5>1. state'[d] = state[d] /\ state[d] \in Waiters \ {NewAddress}
          BY <3>2, <3>3, <3>5, <4>2
        <5> QED BY <3>3, <3>5, <4>2, <5>1 DEF PhaseInv
      <4> QED BY <4>1, <4>2
    <3> QED BY <3>4, <3>5 DEF PhaseInv
  <2>4. UnclaimedInv'
    <3>1. /\ NewWaiter(c, NewAddress) /\ waiters' = Append(waiters, NewAddress)
          /\ FreeWaiters # {}
      BY <1>13 DEF EnqueueWaiter
    <3>2. /\ NewAddress \in Waiters
          /\ ToSet(waiters') = ToSet(waiters) \cup {NewAddress}
          /\ ToSet(waiters) \subseteq Waiters
      BY <3>1, NewAddressIsFree, ToSetAppend, ToSetType
    <3>3. /\ \A w \in Waiters \ {NewAddress} : handle'[w] = handle[w] /\ resumed'[w] = resumed[w]
          /\ handle'[NewAddress] = c /\ state'[c] = NewAddress
          /\ \A d \in Coros \ {c} : state'[d] = state[d]
          /\ UNCHANGED <<callback, kcb>>
      BY <3>1, <3>2 DEF NewWaiter
    <3>4. state[c] = NoWaiter
      BY <1>13 DEF EnqueueWaiter, OwnWaiterInv, Waiting
    <3>5. ASSUME NEW w \in ToSet(waiters')
          PROVE  handle'[w] \in Coros /\ (~resumed'[w] => state'[handle'[w]] = w)
      <4>1. CASE w = NewAddress
        BY <3>3, <4>1
      <4>2. CASE w # NewAddress
        BY <3>2, <3>3, <3>4, <4>2, NullAssumption DEF UnclaimedInv
      <4> QED BY <4>1, <4>2
    <3>6. ASSUME NEW d \in Coros
          PROVE  /\ callback'[d] # NoWaiter /\ ~resumed'[callback'[d]] => state'[d] = callback'[d]
                 /\ kcb'[d] # NoWaiter /\ ~resumed'[kcb'[d]] => state'[d] = kcb'[d]
      <4>1. callback[d] # NewAddress /\ kcb[d] # NewAddress
        BY <3>1, NewAddressIsFree
      <4> QED BY <3>3, <3>4, <4>1 DEF UnclaimedInv
    <3> QED BY <3>5, <3>6 DEF UnclaimedInv
  <2>5. CancelInv'
    BY <1>0, <1>13, NullAssumption, NewAddressIsFree, ToSetAppend DEF
         EnqueueWaiter, NewWaiter, CancelInv, OwnWaiterInv, PhaseInv,
         UnclaimedInv, HandOverInv, GuardInv, Granted, CancelClaimed, Phases,
         Waiting
  <2>6. HandOverInv'
    BY <1>0, <1>13, NullAssumption, NewAddressIsFree, ToSetAppend DEF
         EnqueueWaiter, NewWaiter, HandOverInv, OwnWaiterInv, PhaseInv,
         UnclaimedInv, CancelInv, GuardInv, OwnerInv, Granted, CancelClaimed,
         Waiting
  <2>7. OwnerInv'
    <3>1. /\ NewWaiter(c, NewAddress) /\ UNCHANGED locked
          /\ FreeWaiters # {} /\ pc[c] = "enqueue"
      BY <1>13 DEF EnqueueWaiter
    <3>2. /\ state[c] = NoWaiter /\ ~immediate[c]
      BY <3>1 DEF OwnWaiterInv, Waiting
    <3>3. /\ NewAddress \in Waiters
          /\ \A d \in Coros : state[d] # NewAddress /\ kcb[d] # NewAddress
      BY <3>1, NewAddressIsFree
    <3>4. ~Owner(c) /\ ~Owner(c)'
      BY <3>1, <3>2, <3>3 DEF Owner, Granted, CancelClaimed, NewWaiter
    <3>5. \A d \in Coros \ {c} : Owner(d)' <=> Owner(d)
      BY <3>1, <3>3 DEF Owner, Granted, CancelClaimed, NewWaiter
    <3> QED BY <1>13, <3>1, <3>4, <3>5 DEF OwnerInv, LockedIffOwned, MutualExclusion, FreeMeansNobodyWaits
  <2> QED BY <1>0, <2>1, <2>2, <2>3, <2>4, <2>5, <2>6, <2>7
<1>14. ASSUME NEW c \in Coros, LockResume(c)
      PROVE  MutexInvariant'
  <2>1. GuardInv'
    BY <1>0, <1>14, NullAssumption DEF LockResume, AwaitResume, Throws,
         GuardInv
  <2>2. OwnWaiterInv'
    BY <1>0, <1>14, NullAssumption DEF LockResume, AwaitResume, Throws,
         OwnWaiterInv, HandOverInv, CancelInv, Granted, CancelClaimed, Waiting
  <2>3. PhaseInv'
    BY <1>0, <1>14, NullAssumption DEF LockResume, AwaitResume, Throws,
         PhaseInv, OwnWaiterInv, HandOverInv, CancelInv, Granted,
         CancelClaimed, Phases, Waiting, GuardInv
  <2>4. UnclaimedInv'
    BY <1>0, <1>14, NullAssumption, ToSetType DEF LockResume, AwaitResume,
         Throws, UnclaimedInv, OwnWaiterInv, PhaseInv, CancelInv, GuardInv,
         Waiting
  <2>5. CancelInv'
    BY <1>0, <1>14, NullAssumption, SMTT(60) DEF LockResume, AwaitResume, Throws,
         CancelInv, OwnWaiterInv, PhaseInv, UnclaimedInv, HandOverInv,
         GuardInv, Granted, CancelClaimed, Phases, Waiting
  <2>6. HandOverInv'
    BY <1>0, <1>14, NullAssumption, SMTT(60) DEF LockResume, AwaitResume, Throws,
         HandOverInv, OwnWaiterInv, PhaseInv, UnclaimedInv, CancelInv,
         GuardInv, OwnerInv, Granted, CancelClaimed, Waiting
  <2>7. OwnerInv'
    BY <1>0, <1>14, NullAssumption, ToSetType, SMTT(60) DEF LockResume, AwaitResume,
         Throws, OwnerInv, LockedIffOwned, MutualExclusion,
         FreeMeansNobodyWaits, Owner, OwnWaiterInv, PhaseInv, UnclaimedInv,
         CancelInv, HandOverInv, GuardInv, Granted, CancelClaimed, Waiting,
         Phases
  <2> QED BY <1>0, <2>1, <2>2, <2>3, <2>4, <2>5, <2>6, <2>7
<1>15. ASSUME NEW c \in Coros, UnlockGuard(c)
      PROVE  MutexInvariant'
  <2>1. GuardInv'
    BY <1>0, <1>15, NullAssumption DEF UnlockGuard, GuardInv
  <2>2. OwnWaiterInv'
    BY <1>0, <1>15, NullAssumption DEF UnlockGuard, OwnWaiterInv, HandOverInv,
         CancelInv, Granted, CancelClaimed, Waiting
  <2>3. PhaseInv'
    BY <1>0, <1>15, NullAssumption DEF UnlockGuard, PhaseInv, OwnWaiterInv,
         HandOverInv, CancelInv, Granted, CancelClaimed, Phases, Waiting,
         GuardInv
  <2>4. UnclaimedInv'
    BY <1>0, <1>15, NullAssumption, ToSetType DEF UnlockGuard, UnclaimedInv,
         OwnWaiterInv, PhaseInv, CancelInv, GuardInv, Waiting
  <2>5. CancelInv'
    BY <1>0, <1>15, NullAssumption DEF UnlockGuard, CancelInv, OwnWaiterInv,
         PhaseInv, UnclaimedInv, HandOverInv, GuardInv, Granted,
         CancelClaimed, Phases, Waiting
  <2>6. HandOverInv'
    BY <1>0, <1>15, NullAssumption DEF UnlockGuard, HandOverInv, OwnWaiterInv,
         PhaseInv, UnclaimedInv, CancelInv, GuardInv, OwnerInv, Granted,
         CancelClaimed, Waiting
  <2>7. OwnerInv'
    BY <1>0, <1>15, NullAssumption, ToSetType DEF UnlockGuard, OwnerInv,
         LockedIffOwned, MutualExclusion, FreeMeansNobodyWaits, Owner,
         OwnWaiterInv, PhaseInv, UnclaimedInv, CancelInv, HandOverInv,
         GuardInv, Granted, CancelClaimed, Waiting, Phases
  <2> QED BY <1>0, <2>1, <2>2, <2>3, <2>4, <2>5, <2>6, <2>7
<1>16. ASSUME NEW c \in Coros, UnlockPop(c), waiters = <<>>
      PROVE  MutexInvariant'
  <2>1. GuardInv'
    BY <1>0, <1>16, NullAssumption DEF UnlockPop, GuardInv
  <2>2. OwnWaiterInv'
    BY <1>0, <1>16, NullAssumption DEF UnlockPop, OwnWaiterInv, HandOverInv,
         CancelInv, Granted, CancelClaimed, Waiting
  <2>3. PhaseInv'
    BY <1>0, <1>16, NullAssumption DEF UnlockPop, PhaseInv, OwnWaiterInv,
         HandOverInv, CancelInv, Granted, CancelClaimed, Phases, Waiting,
         GuardInv
  <2>4. UnclaimedInv'
    BY <1>0, <1>16, NullAssumption, ToSetType DEF UnlockPop, UnclaimedInv,
         OwnWaiterInv, PhaseInv, CancelInv, GuardInv, Waiting
  <2>5. CancelInv'
    BY <1>0, <1>16, NullAssumption DEF UnlockPop, CancelInv, OwnWaiterInv,
         PhaseInv, UnclaimedInv, HandOverInv, GuardInv, Granted,
         CancelClaimed, Phases, Waiting
  <2>6. HandOverInv'
    BY <1>0, <1>16, NullAssumption DEF UnlockPop, HandOverInv, OwnWaiterInv,
         PhaseInv, UnclaimedInv, CancelInv, GuardInv, OwnerInv, Granted,
         CancelClaimed, Waiting
  <2>7. OwnerInv'
    <3>1. /\ pc[c] = "unlock_pop" /\ pc' = [pc EXCEPT ![c] = "idle"] /\ ~locked'
          /\ UNCHANGED <<state, immediate, resumed, cancelled, kpc, kcb, waiters>>
      BY <1>16 DEF UnlockPop
    <3>2. \A d \in Coros \ {c} : ~Owner(d)
      BY <3>1 DEF Owner, OwnerInv, MutualExclusion
    <3>3. \A d \in Coros \ {c} : ~Owner(d)'
      BY <3>1, <3>2 DEF Owner, Granted, CancelClaimed
    <3>4. ~Owner(c)'
      BY <3>1, NullAssumption DEF Owner, Granted, OwnWaiterInv, Waiting
    <3> QED BY <1>16, <3>1, <3>3, <3>4, ToSetEmpty DEF OwnerInv, LockedIffOwned, MutualExclusion, FreeMeansNobodyWaits
  <2> QED BY <1>0, <2>1, <2>2, <2>3, <2>4, <2>5, <2>6, <2>7
<1>17. ASSUME NEW c \in Coros, UnlockPop(c), waiters # <<>>
      PROVE  MutexInvariant'
  <2>1. GuardInv'
    BY <1>0, <1>17, NullAssumption, ToSetTail DEF UnlockPop, MarkResumed,
         GuardInv
  <2>2. OwnWaiterInv'
    BY <1>0, <1>17, NullAssumption, ToSetTail DEF UnlockPop, MarkResumed,
         OwnWaiterInv, HandOverInv, CancelInv, Granted, CancelClaimed, Waiting
  <2>3. PhaseInv'
    BY <1>0, <1>17, NullAssumption, ToSetTail DEF UnlockPop, MarkResumed,
         PhaseInv, OwnWaiterInv, HandOverInv, CancelInv, Granted,
         CancelClaimed, Phases, Waiting, GuardInv
  <2>4. UnclaimedInv'
    <3>0. waiters' = Tail(waiters)
      BY <1>17 DEF UnlockPop
    <3>1. /\ ToSet(waiters') \subseteq ToSet(waiters) /\ ToSet(waiters) \subseteq Waiters
          /\ Head(waiters) \in Waiters
      BY <1>17, <3>0, ToSetTail, ToSetType
    <3>2. /\ \A w \in Waiters : ~resumed'[w] => ~resumed[w]
          /\ UNCHANGED <<handle, state, callback, kcb>>
      BY <1>17, <3>1 DEF UnlockPop, MarkResumed
    <3> QED BY <3>1, <3>2 DEF UnclaimedInv
  <2>5. CancelInv'
    BY <1>0, <1>17, NullAssumption, ToSetTail DEF UnlockPop, MarkResumed,
         CancelInv, OwnWaiterInv, PhaseInv, UnclaimedInv, HandOverInv,
         GuardInv, Granted, CancelClaimed, Phases, Waiting
  <2>6. HandOverInv'
    BY <1>0, <1>17, NullAssumption, ToSetTail, SMTT(60) DEF UnlockPop, MarkResumed,
         HandOverInv, OwnWaiterInv, PhaseInv, UnclaimedInv, CancelInv,
         GuardInv, OwnerInv, Granted, CancelClaimed, Waiting
  <2>7. OwnerInv'
    BY <1>0, <1>17, NullAssumption, ToSetTail, ToSetType, SMTT(60) DEF UnlockPop,
         MarkResumed, OwnerInv, LockedIffOwned, MutualExclusion,
         FreeMeansNobodyWaits, Owner, OwnWaiterInv, PhaseInv, UnclaimedInv,
         CancelInv, HandOverInv, GuardInv, Granted, CancelClaimed, Waiting,
         Phases
  <2> QED BY <1>0, <2>1, <2>2, <2>3, <2>4, <2>5, <2>6, <2>7
<1>18. ASSUME NEW c \in Coros, UnlockWake(c)
      PROVE  MutexInvariant'
  <2>1. GuardInv'
    BY <1>0, <1>18, NullAssumption DEF UnlockWake, RequestWake,
         ShouldResumeNow, GuardInv
  <2>2. OwnWaiterInv'
    BY <1>0, <1>18, NullAssumption DEF UnlockWake, RequestWake,
         ShouldResumeNow, OwnWaiterInv, HandOverInv, CancelInv, Granted,
         CancelClaimed, Waiting
  <2>3. PhaseInv'
    BY <1>0, <1>18, NullAssumption DEF UnlockWake, RequestWake,
         ShouldResumeNow, PhaseInv, OwnWaiterInv, HandOverInv, CancelInv,
         Granted, CancelClaimed, Phases, Waiting, GuardInv
  <2>4. UnclaimedInv'
    BY <1>0, <1>18, NullAssumption, ToSetType DEF UnlockWake, RequestWake,
         ShouldResumeNow, UnclaimedInv, OwnWaiterInv, PhaseInv, CancelInv,
         GuardInv, Waiting
  <2>5. CancelInv'
    BY <1>0, <1>18, NullAssumption DEF UnlockWake, RequestWake,
         ShouldResumeNow, CancelInv, OwnWaiterInv, PhaseInv, UnclaimedInv,
         HandOverInv, GuardInv, Granted, CancelClaimed, Phases, Waiting
  <2>6. HandOverInv'
    BY <1>0, <1>18, NullAssumption, SMTT(60) DEF UnlockWake, RequestWake,
         ShouldResumeNow, HandOverInv, OwnWaiterInv, PhaseInv, GuardInv,
         Granted, CancelClaimed, Waiting
  <2>7. OwnerInv'
    BY <1>0, <1>18, NullAssumption, ToSetType DEF UnlockWake, RequestWake,
         ShouldResumeNow, OwnerInv, LockedIffOwned, MutualExclusion,
         FreeMeansNobodyWaits, Owner, OwnWaiterInv, PhaseInv, UnclaimedInv,
         CancelInv, HandOverInv, GuardInv, Granted, CancelClaimed, Waiting,
         Phases
  <2> QED BY <1>0, <2>1, <2>2, <2>3, <2>4, <2>5, <2>6, <2>7
<1>19. ASSUME NEW c \in Coros, UnlockResume(c)
      PROVE  MutexInvariant'
  <2>1. GuardInv'
    BY <1>0, <1>19, NullAssumption DEF UnlockResume, GuardInv
  <2>2. OwnWaiterInv'
    BY <1>0, <1>19, NullAssumption DEF UnlockResume, OwnWaiterInv,
         HandOverInv, CancelInv, Granted, CancelClaimed, Waiting
  <2>3. PhaseInv'
    BY <1>0, <1>19, NullAssumption DEF UnlockResume, PhaseInv, OwnWaiterInv,
         HandOverInv, CancelInv, Granted, CancelClaimed, Phases, Waiting,
         GuardInv
  <2>4. UnclaimedInv'
    BY <1>0, <1>19, NullAssumption, ToSetType DEF UnlockResume, UnclaimedInv,
         OwnWaiterInv, PhaseInv, CancelInv, GuardInv, Waiting
  <2>5. CancelInv'
    BY <1>0, <1>19, NullAssumption DEF UnlockResume, CancelInv, OwnWaiterInv,
         PhaseInv, UnclaimedInv, HandOverInv, GuardInv, Granted,
         CancelClaimed, Phases, Waiting
  <2>6. HandOverInv'
    BY <1>0, <1>19, NullAssumption, SMTT(60) DEF UnlockResume, HandOverInv,
         OwnWaiterInv, PhaseInv, UnclaimedInv, CancelInv, GuardInv, OwnerInv,
         Granted, CancelClaimed, Waiting
  <2>7. OwnerInv'
    BY <1>0, <1>19, NullAssumption, ToSetType, SMTT(60) DEF UnlockResume, OwnerInv,
         LockedIffOwned, MutualExclusion, FreeMeansNobodyWaits, Owner,
         OwnWaiterInv, PhaseInv, UnclaimedInv, CancelInv, HandOverInv,
         GuardInv, Granted, CancelClaimed, Waiting, Phases
  <2> QED BY <1>0, <2>1, <2>2, <2>3, <2>4, <2>5, <2>6, <2>7
<1>20. ASSUME NEW c \in Coros, CancelRequest(c)
      PROVE  MutexInvariant'
  <2>1. GuardInv'
    BY <1>0, <1>20, NullAssumption DEF CancelRequest, RequestCancellation,
         KGoto, GuardInv
  <2>2. OwnWaiterInv'
    BY <1>0, <1>20, NullAssumption DEF CancelRequest, RequestCancellation,
         KGoto, OwnWaiterInv, HandOverInv, CancelInv, Granted, CancelClaimed,
         Waiting
  <2>3. PhaseInv'
    BY <1>0, <1>20, NullAssumption DEF CancelRequest, RequestCancellation,
         KGoto, PhaseInv, OwnWaiterInv, HandOverInv, CancelInv, Granted,
         CancelClaimed, Phases, Waiting, GuardInv
  <2>4. UnclaimedInv'
    BY <1>0, <1>20, NullAssumption, ToSetType DEF CancelRequest,
         RequestCancellation, KGoto, UnclaimedInv, OwnWaiterInv, PhaseInv,
         CancelInv, GuardInv, Waiting
  <2>5. CancelInv'
    BY <1>0, <1>20, NullAssumption DEF CancelRequest, RequestCancellation,
         KGoto, CancelInv, OwnWaiterInv, PhaseInv, UnclaimedInv, HandOverInv,
         GuardInv, Granted, CancelClaimed, Phases, Waiting
  <2>6. HandOverInv'
    BY <1>0, <1>20, NullAssumption DEF CancelRequest, RequestCancellation,
         KGoto, HandOverInv, OwnWaiterInv, PhaseInv, UnclaimedInv, CancelInv,
         GuardInv, OwnerInv, Granted, CancelClaimed, Waiting
  <2>7. OwnerInv'
    BY <1>0, <1>20, NullAssumption, ToSetType, SMTT(60) DEF CancelRequest,
         RequestCancellation, KGoto, OwnerInv, LockedIffOwned,
         MutualExclusion, FreeMeansNobodyWaits, Owner, OwnWaiterInv, PhaseInv,
         UnclaimedInv, CancelInv, HandOverInv, GuardInv, Granted,
         CancelClaimed, Waiting, Phases
  <2> QED BY <1>0, <2>1, <2>2, <2>3, <2>4, <2>5, <2>6, <2>7
<1>21. ASSUME NEW c \in Coros, SwapCallbacks(c), UNCHANGED lockVars
      PROVE  MutexInvariant'
  <2>1. GuardInv'
    BY <1>0, <1>21, NullAssumption DEF SwapCallbacks, KGoto, GuardInv
  <2>2. OwnWaiterInv'
    BY <1>0, <1>21, NullAssumption DEF SwapCallbacks, KGoto, OwnWaiterInv,
         HandOverInv, CancelInv, Granted, CancelClaimed, Waiting
  <2>3. PhaseInv'
    BY <1>0, <1>21, NullAssumption DEF SwapCallbacks, KGoto, PhaseInv,
         OwnWaiterInv, HandOverInv, CancelInv, Granted, CancelClaimed, Phases,
         Waiting, GuardInv
  <2>4. UnclaimedInv'
    BY <1>0, <1>21, NullAssumption, ToSetType DEF SwapCallbacks, KGoto,
         UnclaimedInv, OwnWaiterInv, PhaseInv, CancelInv, GuardInv, Waiting
  <2>5. CancelInv'
    BY <1>0, <1>21, NullAssumption, SMTT(60) DEF SwapCallbacks, KGoto, CancelInv,
         OwnWaiterInv, PhaseInv, UnclaimedInv, HandOverInv, GuardInv, Granted,
         CancelClaimed, Phases, Waiting
  <2>6. HandOverInv'
    BY <1>0, <1>21, NullAssumption, SMTT(60) DEF SwapCallbacks, KGoto, HandOverInv,
         OwnWaiterInv, PhaseInv, UnclaimedInv, CancelInv, GuardInv, OwnerInv,
         Granted, CancelClaimed, Waiting
  <2>7. OwnerInv'
    BY <1>0, <1>21, NullAssumption, ToSetType, SMTT(60) DEF SwapCallbacks, KGoto,
         OwnerInv, LockedIffOwned, MutualExclusion, FreeMeansNobodyWaits,
         Owner, OwnWaiterInv, PhaseInv, UnclaimedInv, CancelInv, HandOverInv,
         GuardInv, Granted, CancelClaimed, Waiting, Phases
  <2> QED BY <1>0, <2>1, <2>2, <2>3, <2>4, <2>5, <2>6, <2>7
<1>22. ASSUME NEW c \in Coros, InvokeCallback(c), kpc[c] = "cb_mark", UNCHANGED lockVars
      PROVE  MutexInvariant'
  <2>1. GuardInv'
    BY <1>0, <1>22, NullAssumption DEF InvokeCallback, KGoto, MarkResumed,
         GuardInv
  <2>2. OwnWaiterInv'
    BY <1>0, <1>22, NullAssumption DEF InvokeCallback, KGoto, MarkResumed,
         OwnWaiterInv, HandOverInv, CancelInv, Granted, CancelClaimed, Waiting
  <2>3. PhaseInv'
    BY <1>0, <1>22, NullAssumption DEF InvokeCallback, KGoto, MarkResumed,
         PhaseInv, OwnWaiterInv, HandOverInv, CancelInv, Granted,
         CancelClaimed, Phases, Waiting, GuardInv
  <2>4. UnclaimedInv'
    <3>1. /\ \A w \in Waiters : ~resumed'[w] => ~resumed[w]
          /\ \A d \in Coros : kcb'[d] # NoWaiter => kcb'[d] = kcb[d]
          /\ UNCHANGED <<handle, state, callback, waiters>>
      BY <1>22 DEF InvokeCallback, MarkResumed
    <3> QED BY <3>1, ToSetType DEF UnclaimedInv
  <2>5. CancelInv'
    BY <1>0, <1>22, NullAssumption DEF InvokeCallback, KGoto, MarkResumed,
         CancelInv, OwnWaiterInv, PhaseInv, UnclaimedInv, HandOverInv,
         GuardInv, Granted, CancelClaimed, Phases, Waiting
  <2>6. HandOverInv'
    BY <1>0, <1>22, NullAssumption DEF InvokeCallback, KGoto, MarkResumed,
         HandOverInv, OwnWaiterInv, PhaseInv, UnclaimedInv, CancelInv,
         GuardInv, OwnerInv, Granted, CancelClaimed, Waiting
  <2>7. OwnerInv'
    BY <1>0, <1>22, NullAssumption, ToSetType, SMTT(60) DEF InvokeCallback, KGoto,
         MarkResumed, OwnerInv, LockedIffOwned, MutualExclusion,
         FreeMeansNobodyWaits, Owner, OwnWaiterInv, PhaseInv, UnclaimedInv,
         CancelInv, HandOverInv, GuardInv, Granted, CancelClaimed, Waiting,
         Phases
  <2> QED BY <1>0, <2>1, <2>2, <2>3, <2>4, <2>5, <2>6, <2>7
<1>23. ASSUME NEW c \in Coros, InvokeCallback(c), kpc[c] = "cb_store", UNCHANGED lockVars
      PROVE  MutexInvariant'
  <2>1. GuardInv'
    BY <1>0, <1>23, NullAssumption DEF InvokeCallback, KGoto, GuardInv
  <2>2. OwnWaiterInv'
    BY <1>0, <1>23, NullAssumption DEF InvokeCallback, KGoto, OwnWaiterInv,
         HandOverInv, CancelInv, Granted, CancelClaimed, Waiting
  <2>3. PhaseInv'
    BY <1>0, <1>23, NullAssumption DEF InvokeCallback, KGoto, PhaseInv,
         OwnWaiterInv, HandOverInv, CancelInv, Granted, CancelClaimed, Phases,
         Waiting, GuardInv
  <2>4. UnclaimedInv'
    BY <1>0, <1>23, NullAssumption, ToSetType DEF InvokeCallback, KGoto,
         UnclaimedInv, OwnWaiterInv, PhaseInv, CancelInv, GuardInv, Waiting
  <2>5. CancelInv'
    BY <1>0, <1>23, NullAssumption DEF InvokeCallback, KGoto, CancelInv,
         OwnWaiterInv, PhaseInv, UnclaimedInv, HandOverInv, GuardInv, Granted,
         CancelClaimed, Phases, Waiting
  <2>6. HandOverInv'
    BY <1>0, <1>23, NullAssumption DEF InvokeCallback, KGoto, HandOverInv,
         OwnWaiterInv, PhaseInv, UnclaimedInv, CancelInv, GuardInv, OwnerInv,
         Granted, CancelClaimed, Waiting
  <2>7. OwnerInv'
    BY <1>0, <1>23, NullAssumption, ToSetType, SMTT(60) DEF InvokeCallback, KGoto,
         OwnerInv, LockedIffOwned, MutualExclusion, FreeMeansNobodyWaits,
         Owner, OwnWaiterInv, PhaseInv, UnclaimedInv, CancelInv, HandOverInv,
         GuardInv, Granted, CancelClaimed, Waiting, Phases
  <2> QED BY <1>0, <2>1, <2>2, <2>3, <2>4, <2>5, <2>6, <2>7
<1>24. ASSUME NEW c \in Coros, InvokeCallback(c), kpc[c] = "cb_wake", UNCHANGED lockVars
      PROVE  MutexInvariant'
  <2>1. GuardInv'
    BY <1>0, <1>24, NullAssumption DEF InvokeCallback, KGoto, RequestWake,
         ShouldResumeNow, GuardInv
  <2>2. OwnWaiterInv'
    BY <1>0, <1>24, NullAssumption DEF InvokeCallback, KGoto, RequestWake,
         ShouldResumeNow, OwnWaiterInv, HandOverInv, CancelInv, Granted,
         CancelClaimed, Waiting
  <2>3. PhaseInv'
    BY <1>0, <1>24, NullAssumption DEF InvokeCallback, KGoto, RequestWake,
         ShouldResumeNow, PhaseInv, OwnWaiterInv, HandOverInv, CancelInv,
         Granted, CancelClaimed, Phases, Waiting, GuardInv
  <2>4. UnclaimedInv'
    BY <1>0, <1>24, NullAssumption, ToSetType DEF InvokeCallback, KGoto,
         RequestWake, ShouldResumeNow, UnclaimedInv, OwnWaiterInv, PhaseInv,
         CancelInv, GuardInv, Waiting
  <2>5. CancelInv'
    BY <1>0, <1>24, NullAssumption DEF InvokeCallback, KGoto, RequestWake,
         ShouldResumeNow, CancelInv, OwnWaiterInv, PhaseInv, UnclaimedInv,
         HandOverInv, GuardInv, Granted, CancelClaimed, Phases, Waiting
  <2>6. HandOverInv'
    BY <1>0, <1>24, NullAssumption DEF InvokeCallback, KGoto, RequestWake,
         ShouldResumeNow, HandOverInv, OwnWaiterInv, PhaseInv, UnclaimedInv,
         CancelInv, GuardInv, OwnerInv, Granted, CancelClaimed, Waiting,
         Phases
  <2>7. OwnerInv'
    BY <1>0, <1>24, NullAssumption, ToSetType, SMTT(60) DEF InvokeCallback, KGoto,
         RequestWake, ShouldResumeNow, OwnerInv, LockedIffOwned,
         MutualExclusion, FreeMeansNobodyWaits, Owner, OwnWaiterInv, PhaseInv,
         UnclaimedInv, CancelInv, HandOverInv, GuardInv, Granted,
         CancelClaimed, Waiting, Phases
  <2> QED BY <1>0, <2>1, <2>2, <2>3, <2>4, <2>5, <2>6, <2>7
<1>25. ASSUME NEW c \in Coros, CancelResume(c), UNCHANGED lockVars
      PROVE  MutexInvariant'
  <2>1. GuardInv'
    BY <1>0, <1>25, NullAssumption DEF CancelResume, KGoto, GuardInv
  <2>2. OwnWaiterInv'
    BY <1>0, <1>25, NullAssumption DEF CancelResume, KGoto, OwnWaiterInv,
         HandOverInv, CancelInv, Granted, CancelClaimed, Waiting
  <2>3. PhaseInv'
    BY <1>0, <1>25, NullAssumption DEF CancelResume, KGoto, PhaseInv,
         OwnWaiterInv, HandOverInv, CancelInv, Granted, CancelClaimed, Phases,
         Waiting, GuardInv
  <2>4. UnclaimedInv'
    BY <1>0, <1>25, NullAssumption, ToSetType DEF CancelResume, KGoto,
         UnclaimedInv, OwnWaiterInv, PhaseInv, CancelInv, GuardInv, Waiting
  <2>5. CancelInv'
    BY <1>0, <1>25, NullAssumption, SMTT(60) DEF CancelResume, KGoto, CancelInv,
         OwnWaiterInv, PhaseInv, UnclaimedInv, HandOverInv, GuardInv, Granted,
         CancelClaimed, Phases, Waiting
  <2>6. HandOverInv'
    BY <1>0, <1>25, NullAssumption, SMTT(60) DEF CancelResume, KGoto, HandOverInv,
         OwnWaiterInv, CancelInv, Granted, CancelClaimed
  <2>7. OwnerInv'
    BY <1>0, <1>25, NullAssumption, ToSetType, SMTT(60) DEF CancelResume, KGoto,
         OwnerInv, LockedIffOwned, MutualExclusion, FreeMeansNobodyWaits,
         Owner, OwnWaiterInv, PhaseInv, UnclaimedInv, CancelInv, HandOverInv,
         GuardInv, Granted, CancelClaimed, Waiting, Phases
  <2> QED BY <1>0, <2>1, <2>2, <2>3, <2>4, <2>5, <2>6, <2>7
<1>26. ASSUME UNCHANGED vars
      PROVE  MutexInvariant'
  <2> USE <1>26 DEF vars, waitVars
  <2>1. \A c \in Coros : Granted(c)' = Granted(c) /\ Owner(c)' = Owner(c)
    BY DEF Granted, CancelClaimed, Owner
  <2>2. GuardInv' /\ OwnWaiterInv' /\ PhaseInv' /\ UnclaimedInv' /\ CancelInv'
    BY DEF GuardInv, OwnWaiterInv, PhaseInv, UnclaimedInv, CancelInv
  <2>3. HandOverInv'
    BY <2>1 DEF HandOverInv
  <2>4. OwnerInv'
    BY <2>1 DEF OwnerInv, LockedIffOwned, MutualExclusion, FreeMeansNobodyWaits
  <2> QED BY <1>0, <2>2, <2>3, <2>4
<1> QED
  BY <1>1, <1>2, <1>3, <1>4, <1>5, <1>6, <1>7, <1>8, <1>9, <1>10, <1>11,
       <1>12, <1>13, <1>14, <1>15, <1>16, <1>17, <1>18, <1>19, <1>20, <1>21,
       <1>22, <1>23, <1>24, <1>25, <1>26 DEF Next, CoroStep, LockAwait,
       AwaiterStep, UnlockStep, CancellerStep, CancelStep, InlineCallback,
       InvokeCallback

(* The inductive invariant holds in every reachable state.                 *)
THEOREM Invariance == Spec => []MutexInvariant
  BY InvariantInit, InvariantStep, PTL DEF Spec

(* Every variable keeps the type its declaration in the code gives it.     *)
THEOREM TypeCorrect == Spec => []TypeOK
  BY Invariance, PTL DEF MutexInvariant

(* Two coroutines never own the mutex at once, for any number of           *)
(* coroutines, tokens and threads that cancel them.                        *)
THEOREM MutexIsExclusive == Spec => []MutualExclusion
<1>1. MutexInvariant => MutualExclusion
  BY DEF MutexInvariant, OwnerInv
<1> QED BY <1>1, Invariance, PTL

(* The mutex is locked exactly while somebody owns it: no cancellation     *)
(* leaves it locked for ever.                                              *)
THEOREM MutexIsNeverOrphaned == Spec => []LockedIffOwned
<1>1. MutexInvariant => LockedIffOwned
  BY DEF MutexInvariant, OwnerInv
<1> QED BY <1>1, Invariance, PTL

(* While the mutex is free, nobody waits for it.                           *)
THEOREM NobodyIsStranded == Spec => []FreeMeansNobodyWaits
<1>1. MutexInvariant => FreeMeansNobodyWaits
  BY DEF MutexInvariant, OwnerInv
<1> QED BY <1>1, Invariance, PTL

(* unlock() and the cancelling thread only call resume() on a coroutine    *)
(* that is suspended.                                                      *)
THEOREM ResumeIsSafe == Spec => []ResumeOnlySuspended
<1>1. MutexInvariant => ResumeOnlySuspended
  BY DEF MutexInvariant, HandOverInv, CancelInv, OwnWaiterInv, ResumeOnlySuspended
<1> QED BY <1>1, Invariance, PTL

-----------------------------------------------------------------------------
(* A thread that has claimed c's waiter and is on its way to wake c.       *)
UnlockWakes(c)   == \E d \in Coros : pc[d] = "unlock_wake" /\ waiter = state[c]
UnlockResumes(c) == pc[c] = "suspended" /\ \E d \in Coros : pc[d] = "unlock_resume" /\ next[d] = c
CancelWakes(c)   == kpc[c] \in {"cb_store", "cb_wake", "resume"} /\ kcb[c] = state[c]

(* The handle an unlock() has taken out of its critical section is there   *)
(* until it is resumed.                                                    *)
NextInv == \A d \in Coros : next[d] # NoCoro => pc[d] = "unlock_resume"

(* Nobody's waiter leaves the queue unclaimed.                             *)
QueuedInv ==
  \A c \in Coros : state[c] # NoWaiter /\ ~resumed[state[c]] => state[c] \in ToSet(waiters)

(* A waiter that is claimed is being woken, or its wake-up has been        *)
(* requested, or its coroutine goes on.                                    *)
WokenInv ==
  \A c \in Coros : state[c] # NoWaiter /\ resumed[state[c]] =>
    \/ pc[c] \in {"resume", "cb_store", "cb_wake"}
    \/ phase[state[c]] = "wake_requested"
    \/ UnlockWakes(c) \/ UnlockResumes(c) \/ CancelWakes(c)

(* No wake-up is lost; inductive with MutexInvariant.                      *)
WakeInvariant == NextInv /\ QueuedInv /\ WokenInv

-----------------------------------------------------------------------------
(* The first state has no waiters and no handles.                          *)
LEMMA WakeStarts == Init => WakeInvariant
  BY DEF Init, WaitInit, WakeInvariant, NextInv, QueuedInv, WokenInv

(* No step loses a wake-up; a step per action, as in InvariantStep.        *)
LEMMA WakeStep ==
  ASSUME MutexInvariant, WakeInvariant, [Next]_vars
  PROVE  WakeInvariant'
<1> USE DEF MutexInvariant, WakeInvariant, TypeOK, WaitTypeOK, Goto, lockVars,
            awaiterVars, waiterVars, cancelVars
<1>1. ASSUME NEW c \in Coros, Lock(c)
      PROVE  WakeInvariant'
  <2>1. NextInv'
    BY <1>1, NullAssumption DEF Lock, BeginWait, NextInv
  <2>2. QueuedInv'
    BY <1>1, NullAssumption DEF Lock, BeginWait, QueuedInv, OwnWaiterInv, PhaseInv
  <2>3. WokenInv'
    BY <1>1, NullAssumption DEF Lock, BeginWait, WokenInv, UnlockWakes, UnlockResumes,
       CancelWakes, OwnWaiterInv, PhaseInv, UnclaimedInv, CancelInv, HandOverInv,
       GuardInv, Granted, CancelClaimed, Waiting, Phases
  <2> QED BY <2>1, <2>2, <2>3
<1>2. ASSUME NEW c \in Coros, TryLock(c)
      PROVE  WakeInvariant'
  <2>1. NextInv'
    BY <1>2, NullAssumption DEF TryLock, NextInv
  <2>2. QueuedInv'
    BY <1>2, NullAssumption DEF TryLock, QueuedInv, OwnWaiterInv, PhaseInv
  <2>3. WokenInv'
    BY <1>2, NullAssumption DEF TryLock, WokenInv, UnlockWakes, UnlockResumes,
       CancelWakes, OwnWaiterInv, PhaseInv, UnclaimedInv, CancelInv, HandOverInv,
       GuardInv, Granted, CancelClaimed, Waiting, Phases
  <2> QED BY <2>1, <2>2, <2>3
<1>3. ASSUME NEW c \in Coros, Unlock(c)
      PROVE  WakeInvariant'
  <2>1. NextInv'
    BY <1>3, NullAssumption DEF Unlock, NextInv
  <2>2. QueuedInv'
    BY <1>3, NullAssumption DEF Unlock, QueuedInv, OwnWaiterInv, PhaseInv
  <2>3. WokenInv'
    BY <1>3, NullAssumption DEF Unlock, WokenInv, UnlockWakes, UnlockResumes,
       CancelWakes, OwnWaiterInv, PhaseInv, UnclaimedInv, CancelInv, HandOverInv,
       GuardInv, Granted, CancelClaimed, Waiting, Phases
  <2> QED BY <2>1, <2>2, <2>3
<1>4. ASSUME NEW c \in Coros, AwaitReadyToken(c), UNCHANGED lockVars
      PROVE  WakeInvariant'
  <2>1. NextInv'
    BY <1>4, NullAssumption DEF AwaitReadyToken, CheckToken, NextInv
  <2>2. QueuedInv'
    BY <1>4, NullAssumption DEF AwaitReadyToken, CheckToken, QueuedInv, OwnWaiterInv,
       PhaseInv
  <2>3. WokenInv'
    BY <1>4, NullAssumption DEF AwaitReadyToken, CheckToken, WokenInv, UnlockWakes,
       UnlockResumes, CancelWakes, OwnWaiterInv, PhaseInv, UnclaimedInv, CancelInv,
       HandOverInv, GuardInv, Granted, CancelClaimed, Waiting, Phases
  <2> QED BY <2>1, <2>2, <2>3
<1>5. ASSUME NEW c \in Coros, AwaitSuspendToken(c), UNCHANGED lockVars
      PROVE  WakeInvariant'
  <2>1. NextInv'
    BY <1>5, NullAssumption DEF AwaitSuspendToken, CheckToken, NextInv
  <2>2. QueuedInv'
    BY <1>5, NullAssumption DEF AwaitSuspendToken, CheckToken, QueuedInv,
       OwnWaiterInv, PhaseInv
  <2>3. WokenInv'
    BY <1>5, NullAssumption DEF AwaitSuspendToken, CheckToken, WokenInv, UnlockWakes,
       UnlockResumes, CancelWakes, OwnWaiterInv, PhaseInv, UnclaimedInv, CancelInv,
       HandOverInv, GuardInv, Granted, CancelClaimed, Waiting, Phases
  <2> QED BY <2>1, <2>2, <2>3
<1>6. ASSUME NEW c \in Coros, Register(c), UNCHANGED lockVars
      PROVE  WakeInvariant'
  <2>1. NextInv'
    BY <1>6, NullAssumption DEF Register, NextInv
  <2>2. QueuedInv'
    BY <1>6, NullAssumption DEF Register, QueuedInv, OwnWaiterInv, PhaseInv
  <2>3. WokenInv'
    BY <1>6, NullAssumption DEF Register, WokenInv, UnlockWakes, UnlockResumes,
       CancelWakes, OwnWaiterInv, PhaseInv, UnclaimedInv, CancelInv, HandOverInv,
       GuardInv, Granted, CancelClaimed, Waiting, Phases
  <2> QED BY <2>1, <2>2, <2>3
<1>7. ASSUME NEW c \in Coros, InlineCallback(c), pc[c] = "cb_mark", UNCHANGED lockVars
      PROVE  WakeInvariant'
  <2>1. NextInv'
    BY <1>7, NullAssumption DEF InlineCallback, MarkResumed, NextInv
  <2>2. QueuedInv'
    BY <1>7, NullAssumption DEF InlineCallback, MarkResumed, QueuedInv, OwnWaiterInv,
       PhaseInv
  <2>3. WokenInv'
    BY <1>7, NullAssumption DEF InlineCallback, MarkResumed, WokenInv, UnlockWakes,
       UnlockResumes, CancelWakes, OwnWaiterInv, PhaseInv, UnclaimedInv, CancelInv,
       HandOverInv, GuardInv, Granted, CancelClaimed, Waiting, Phases
  <2> QED BY <2>1, <2>2, <2>3
<1>8. ASSUME NEW c \in Coros, InlineCallback(c), pc[c] = "cb_store", UNCHANGED lockVars
      PROVE  WakeInvariant'
  <2>1. NextInv'
    BY <1>8, NullAssumption DEF InlineCallback, NextInv
  <2>2. QueuedInv'
    BY <1>8, NullAssumption DEF InlineCallback, QueuedInv, OwnWaiterInv, PhaseInv
  <2>3. WokenInv'
    BY <1>8, NullAssumption DEF InlineCallback, WokenInv, UnlockWakes, UnlockResumes,
       CancelWakes, OwnWaiterInv, PhaseInv, UnclaimedInv, CancelInv, HandOverInv,
       GuardInv, Granted, CancelClaimed, Waiting, Phases
  <2> QED BY <2>1, <2>2, <2>3
<1>9. ASSUME NEW c \in Coros, InlineCallback(c), pc[c] = "cb_wake", UNCHANGED lockVars
      PROVE  WakeInvariant'
  <2>1. NextInv'
    BY <1>9, NullAssumption DEF InlineCallback, RequestWake, NextInv
  <2>2. QueuedInv'
    BY <1>9, NullAssumption DEF InlineCallback, RequestWake, QueuedInv, OwnWaiterInv,
       PhaseInv
  <2>3. WokenInv'
    BY <1>9, NullAssumption DEF InlineCallback, RequestWake, WokenInv, UnlockWakes,
       UnlockResumes, CancelWakes, OwnWaiterInv, PhaseInv, UnclaimedInv, CancelInv,
       HandOverInv, GuardInv, Granted, CancelClaimed, Waiting, Phases
  <2> QED BY <2>1, <2>2, <2>3
<1>10. ASSUME NEW c \in Coros, TryMarkSuspended(c), UNCHANGED lockVars
      PROVE  WakeInvariant'
  <2>1. NextInv'
    BY <1>10, NullAssumption DEF TryMarkSuspended, NextInv
  <2>2. QueuedInv'
    BY <1>10, NullAssumption DEF TryMarkSuspended, QueuedInv, OwnWaiterInv, PhaseInv
  <2>3. WokenInv'
    BY <1>10, NullAssumption DEF TryMarkSuspended, WokenInv, UnlockWakes,
       UnlockResumes, CancelWakes, OwnWaiterInv, PhaseInv, UnclaimedInv, CancelInv,
       HandOverInv, GuardInv, Granted, CancelClaimed, Waiting, Phases
  <2> QED BY <2>1, <2>2, <2>3
<1>11. ASSUME NEW c \in Coros, AwaitReady(c)
      PROVE  WakeInvariant'
  <2>1. NextInv'
    BY <1>11, NullAssumption DEF AwaitReady, NextInv
  <2>2. QueuedInv'
    BY <1>11, NullAssumption DEF AwaitReady, QueuedInv, OwnWaiterInv, PhaseInv
  <2>3. WokenInv'
    BY <1>11, NullAssumption DEF AwaitReady, WokenInv, UnlockWakes, UnlockResumes,
       CancelWakes, OwnWaiterInv, PhaseInv, UnclaimedInv, CancelInv, HandOverInv,
       GuardInv, Granted, CancelClaimed, Waiting, Phases
  <2> QED BY <2>1, <2>2, <2>3
<1>12. ASSUME NEW c \in Coros, EnqueueWaiter(c), ~locked
      PROVE  WakeInvariant'
  <2>1. NextInv'
    BY <1>12, NullAssumption DEF EnqueueWaiter, NextInv
  <2>2. QueuedInv'
    BY <1>12, NullAssumption DEF EnqueueWaiter, QueuedInv, OwnWaiterInv, PhaseInv
  <2>3. WokenInv'
    BY <1>12, NullAssumption DEF EnqueueWaiter, WokenInv, UnlockWakes, UnlockResumes,
       CancelWakes, OwnWaiterInv, PhaseInv, UnclaimedInv, CancelInv, HandOverInv,
       GuardInv, Granted, CancelClaimed, Waiting, Phases
  <2> QED BY <2>1, <2>2, <2>3
<1>13. ASSUME NEW c \in Coros, LockResume(c)
      PROVE  WakeInvariant'
  <2>1. NextInv'
    BY <1>13, NullAssumption DEF LockResume, AwaitResume, NextInv
  <2>2. QueuedInv'
    BY <1>13, NullAssumption DEF LockResume, AwaitResume, QueuedInv, OwnWaiterInv,
       PhaseInv
  <2>3. WokenInv'
    BY <1>13, NullAssumption DEF LockResume, AwaitResume, WokenInv, UnlockWakes,
       UnlockResumes, CancelWakes, OwnWaiterInv, PhaseInv, UnclaimedInv, CancelInv,
       HandOverInv, GuardInv, Granted, CancelClaimed, Waiting, Phases
  <2> QED BY <2>1, <2>2, <2>3
<1>14. ASSUME NEW c \in Coros, UnlockGuard(c)
      PROVE  WakeInvariant'
  <2>1. NextInv'
    BY <1>14, NullAssumption DEF UnlockGuard, NextInv
  <2>2. QueuedInv'
    BY <1>14, NullAssumption DEF UnlockGuard, QueuedInv, OwnWaiterInv, PhaseInv
  <2>3. WokenInv'
    BY <1>14, NullAssumption DEF UnlockGuard, WokenInv, UnlockWakes, UnlockResumes,
       CancelWakes, OwnWaiterInv, PhaseInv, UnclaimedInv, CancelInv, HandOverInv,
       GuardInv, Granted, CancelClaimed, Waiting, Phases
  <2> QED BY <2>1, <2>2, <2>3
<1>15. ASSUME NEW c \in Coros, UnlockPop(c), waiters = <<>>
      PROVE  WakeInvariant'
  <2>1. NextInv'
    BY <1>15, NullAssumption DEF UnlockPop, NextInv
  <2>2. QueuedInv'
    BY <1>15, NullAssumption DEF UnlockPop, QueuedInv, OwnWaiterInv, PhaseInv
  <2>3. WokenInv'
    BY <1>15, NullAssumption DEF UnlockPop, WokenInv, UnlockWakes, UnlockResumes,
       CancelWakes, OwnWaiterInv, PhaseInv, UnclaimedInv, CancelInv, HandOverInv,
       GuardInv, Granted, CancelClaimed, Waiting, Phases
  <2> QED BY <2>1, <2>2, <2>3
<1>16. ASSUME NEW c \in Coros, CancelRequest(c)
      PROVE  WakeInvariant'
  <2>1. NextInv'
    BY <1>16, NullAssumption DEF CancelRequest, RequestCancellation, KGoto, NextInv
  <2>2. QueuedInv'
    BY <1>16, NullAssumption DEF CancelRequest, RequestCancellation, KGoto, QueuedInv,
       OwnWaiterInv, PhaseInv
  <2>3. WokenInv'
    BY <1>16, NullAssumption DEF CancelRequest, RequestCancellation, KGoto, WokenInv,
       UnlockWakes, UnlockResumes, CancelWakes, OwnWaiterInv, PhaseInv, UnclaimedInv,
       CancelInv, HandOverInv, GuardInv, Granted, CancelClaimed, Waiting, Phases
  <2> QED BY <2>1, <2>2, <2>3
<1>17. ASSUME NEW c \in Coros, SwapCallbacks(c), UNCHANGED lockVars
      PROVE  WakeInvariant'
  <2>1. NextInv'
    BY <1>17, NullAssumption DEF SwapCallbacks, KGoto, NextInv
  <2>2. QueuedInv'
    BY <1>17, NullAssumption DEF SwapCallbacks, KGoto, QueuedInv, OwnWaiterInv, PhaseInv
  <2>3. WokenInv'
    BY <1>17, NullAssumption DEF SwapCallbacks, KGoto, WokenInv, UnlockWakes,
       UnlockResumes, CancelWakes, OwnWaiterInv, PhaseInv, UnclaimedInv, CancelInv,
       HandOverInv, GuardInv, Granted, CancelClaimed, Waiting, Phases
  <2> QED BY <2>1, <2>2, <2>3
<1>18. ASSUME NEW c \in Coros, InvokeCallback(c), kpc[c] = "cb_mark", UNCHANGED lockVars
      PROVE  WakeInvariant'
  <2>1. NextInv'
    BY <1>18, NullAssumption DEF InvokeCallback, KGoto, MarkResumed, NextInv
  <2>2. QueuedInv'
    BY <1>18, NullAssumption DEF InvokeCallback, KGoto, MarkResumed, QueuedInv,
       OwnWaiterInv, PhaseInv
  <2>3. WokenInv'
    BY <1>18, NullAssumption DEF InvokeCallback, KGoto, MarkResumed, WokenInv,
       UnlockWakes, UnlockResumes, CancelWakes, OwnWaiterInv, PhaseInv, UnclaimedInv,
       CancelInv, HandOverInv, GuardInv, Granted, CancelClaimed, Waiting, Phases
  <2> QED BY <2>1, <2>2, <2>3
<1>19. ASSUME NEW c \in Coros, InvokeCallback(c), kpc[c] = "cb_store", UNCHANGED lockVars
      PROVE  WakeInvariant'
  <2>1. NextInv'
    BY <1>19, NullAssumption DEF InvokeCallback, KGoto, NextInv
  <2>2. QueuedInv'
    BY <1>19, NullAssumption DEF InvokeCallback, KGoto, QueuedInv, OwnWaiterInv,
       PhaseInv
  <2>3. WokenInv'
    BY <1>19, NullAssumption DEF InvokeCallback, KGoto, WokenInv, UnlockWakes,
       UnlockResumes, CancelWakes, OwnWaiterInv, PhaseInv, UnclaimedInv, CancelInv,
       HandOverInv, GuardInv, Granted, CancelClaimed, Waiting, Phases
  <2> QED BY <2>1, <2>2, <2>3
<1>20. ASSUME NEW c \in Coros, InvokeCallback(c), kpc[c] = "cb_wake", UNCHANGED lockVars
      PROVE  WakeInvariant'
  <2>1. NextInv'
    BY <1>20, NullAssumption DEF InvokeCallback, KGoto, RequestWake, ShouldResumeNow,
       NextInv
  <2>2. QueuedInv'
    BY <1>20, NullAssumption DEF InvokeCallback, KGoto, RequestWake, ShouldResumeNow,
       QueuedInv, OwnWaiterInv, PhaseInv
  <2>3. WokenInv'
    BY <1>20, NullAssumption DEF InvokeCallback, KGoto, RequestWake, ShouldResumeNow,
       WokenInv, UnlockWakes, UnlockResumes, CancelWakes, OwnWaiterInv, PhaseInv,
       UnclaimedInv, CancelInv, HandOverInv, GuardInv, Granted, CancelClaimed,
       Waiting, Phases
  <2> QED BY <2>1, <2>2, <2>3
<1>21. ASSUME NEW c \in Coros, CancelResume(c), UNCHANGED lockVars
      PROVE  WakeInvariant'
  <2>1. /\ kpc[c] = "resume" /\ pc[c] = "suspended" /\ handle[kcb[c]] = c /\ kcb[c] = state[c]
        /\ pc' = [pc EXCEPT ![c] = "resume"]
        /\ kpc' = [kpc EXCEPT ![c] = "done"] /\ kcb' = [kcb EXCEPT ![c] = NoWaiter]
        /\ UNCHANGED <<state, resumed, phase, waiters, waiter, next>>
    BY <1>21 DEF CancelResume, KGoto, OwnWaiterInv, CancelInv
  <2>2. NextInv' /\ QueuedInv'
    BY <2>1 DEF NextInv, QueuedInv
  <2>3. \A e \in Coros \ {c} :
          /\ UnlockWakes(e) => UnlockWakes(e)'
          /\ UnlockResumes(e) => UnlockResumes(e)'
          /\ CancelWakes(e) => CancelWakes(e)'
    BY <2>1 DEF UnlockWakes, UnlockResumes, CancelWakes
  <2>4. WokenInv'
    BY <2>1, <2>3 DEF WokenInv
  <2> QED BY <2>2, <2>4
<1>22. ASSUME NEW c \in Coros, UnlockWake(c)
      PROVE  WakeInvariant'
  <2>1. NextInv'
    BY <1>22, NullAssumption DEF UnlockWake, RequestWake, ShouldResumeNow, NextInv
  <2>2. QueuedInv'
    BY <1>22, NullAssumption DEF UnlockWake, RequestWake, ShouldResumeNow, QueuedInv,
       OwnWaiterInv, PhaseInv
  <2>3. WokenInv'
    BY <1>22, NullAssumption DEF UnlockWake, RequestWake, ShouldResumeNow, WokenInv,
       UnlockWakes, UnlockResumes, CancelWakes, OwnWaiterInv, PhaseInv, UnclaimedInv,
       CancelInv, HandOverInv, GuardInv, Granted, CancelClaimed, Waiting, Phases
  <2> QED BY <2>1, <2>2, <2>3
<1>23. ASSUME NEW c \in Coros, UnlockResume(c)
      PROVE  WakeInvariant'
  <2>1. /\ pc[c] = "unlock_resume" /\ next[c] \in Coros /\ pc[next[c]] = "suspended"
        /\ pc' = [pc EXCEPT ![c] = "idle", ![next[c]] = "resume"]
        /\ next' = [next EXCEPT ![c] = NoCoro]
        /\ UNCHANGED <<state, resumed, phase, kpc, kcb, waiters, waiter>>
    BY <1>23 DEF UnlockResume, HandOverInv
  <2>2. NextInv' /\ QueuedInv'
    BY <2>1, NullAssumption DEF NextInv, QueuedInv
  <2>3. state[c] = NoWaiter
    BY <2>1 DEF OwnWaiterInv, Waiting
  <2>4. \A e \in Coros \ {c, next[c]} :
          /\ UnlockWakes(e) => UnlockWakes(e)'
          /\ UnlockResumes(e) => UnlockResumes(e)'
          /\ CancelWakes(e) => CancelWakes(e)'
    BY <2>1 DEF UnlockWakes, UnlockResumes, CancelWakes
  <2>5. WokenInv'
    BY <2>1, <2>3, <2>4 DEF WokenInv
  <2> QED BY <2>2, <2>5
<1>24. ASSUME NEW c \in Coros, EnqueueWaiter(c), locked
      PROVE  WakeInvariant'
  <2> DEFINE w == NewAddress
  <2>1. /\ w \in Waiters /\ w # waiter
        /\ \A e \in Coros : w # state[e] /\ w # callback[e] /\ w # kcb[e]
    BY <1>24, NewAddressIsFree DEF EnqueueWaiter, FreeWaiters, AwaitReferences
  <2>2. /\ pc[c] = "enqueue" /\ NewWaiter(c, w) /\ waiters' = Append(waiters, w)
        /\ UNCHANGED <<waiter, next>>
    BY <1>24 DEF EnqueueWaiter
  <2> HIDE DEF w
  <2>3. ToSet(waiters') = ToSet(waiters) \cup {w}
    BY <2>1, <2>2, ToSetAppend
  <2>4. /\ pc' = [pc EXCEPT ![c] = IF withToken[c] THEN "register" ELSE "mark"]
        /\ state' = [state EXCEPT ![c] = w] /\ ~resumed'[w]
        /\ \A v \in Waiters \ {w} : resumed'[v] = resumed[v] /\ phase'[v] = phase[v]
        /\ UNCHANGED <<kpc, kcb>>
    BY <2>1, <2>2 DEF NewWaiter
  <2>5. NextInv' /\ QueuedInv'
    BY <2>1, <2>2, <2>3, <2>4 DEF NextInv, QueuedInv
  <2>6. \A e \in Coros \ {c} :
          /\ UnlockWakes(e) => UnlockWakes(e)'
          /\ UnlockResumes(e) => UnlockResumes(e)'
          /\ CancelWakes(e) => CancelWakes(e)'
    BY <2>2, <2>4 DEF UnlockWakes, UnlockResumes, CancelWakes
  <2>7. WokenInv'
    BY <2>1, <2>4, <2>6 DEF WokenInv
  <2> QED BY <2>5, <2>7
<1>25. ASSUME NEW c \in Coros, UnlockPop(c), waiters # <<>>
      PROVE  WakeInvariant'
  <2> DEFINE w == Head(waiters)
  <2>1. w \in Waiters /\ ToSet(waiters) = ToSet(waiters') \cup {w}
    BY <1>25, ToSetTail DEF UnlockPop
  <2>2. /\ pc[c] = "unlock_pop" /\ resumed' = [resumed EXCEPT ![w] = TRUE]
        /\ IF resumed[w] THEN UNCHANGED <<pc, waiter>>
           ELSE waiter' = w /\ pc' = [pc EXCEPT ![c] = "unlock_wake"]
        /\ UNCHANGED <<state, phase, kpc, kcb, next>>
    BY <1>25 DEF UnlockPop, MarkResumed
  <2> HIDE DEF w
  <2>3. NextInv'
    BY <2>2 DEF NextInv
  <2>4. QueuedInv'
    BY <2>1, <2>2 DEF QueuedInv
  <2>5. state[c] = NoWaiter /\ \A d \in Coros : pc[d] # "unlock_wake"
    BY <2>2 DEF OwnWaiterInv, Waiting, GuardInv
  <2>6. \A e \in Coros \ {c} :
          /\ ~UnlockWakes(e)
          /\ UnlockResumes(e) => UnlockResumes(e)'
          /\ CancelWakes(e) => CancelWakes(e)'
    BY <2>2, <2>5 DEF UnlockWakes, UnlockResumes, CancelWakes
  <2>7. ~resumed[w] => \A e \in Coros : state[e] = w => UnlockWakes(e)'
    BY <2>1, <2>2 DEF UnlockWakes
  <2>8. WokenInv'
    BY <2>1, <2>2, <2>5, <2>6, <2>7 DEF WokenInv
  <2> QED BY <2>3, <2>4, <2>8
<1>26. ASSUME UNCHANGED vars
      PROVE  WakeInvariant'
  BY <1>26 DEF vars, waitVars, NextInv, QueuedInv, WokenInv, UnlockWakes,
     UnlockResumes, CancelWakes
<1> QED
  BY <1>1, <1>2, <1>3, <1>4, <1>5, <1>6, <1>7, <1>8, <1>9, <1>10, <1>11, <1>12, <1>13,
     <1>14, <1>15, <1>16, <1>17, <1>18, <1>19, <1>20, <1>21, <1>22, <1>23, <1>24,
     <1>25, <1>26
     DEF Next, CoroStep, LockAwait, AwaiterStep, UnlockStep, CancellerStep, CancelStep,
         InlineCallback, InvokeCallback

(* From both invariants: whoever claims the waiter of a suspended          *)
(* coroutine resumes it, and nobody else does.                             *)
LEMMA OneResumer ==
  ASSUME MutexInvariant, WakeInvariant
  PROVE  OneResumerPerSuspension
<1> USE DEF MutexInvariant, WakeInvariant, TypeOK, WaitTypeOK
<1> SUFFICES ASSUME NEW c \in Coros, pc[c] = "suspended"
             PROVE  IF resumed[state[c]] THEN Cardinality(Resumers(c)) = 1
                    ELSE state[c] \in ToSet(waiters) /\ Resumers(c) = {}
  BY DEF OneResumerPerSuspension
<1>1. state[c] \in Waiters /\ handle[state[c]] = c /\ phase[state[c]] = "suspended"
  BY DEF OwnWaiterInv, PhaseInv, Waiting
<1>2. \A d \in Coros :
        /\ kpc[d] \in {"cb_store", "cb_wake", "resume"} /\ kcb[d] = state[c] => d = c
        /\ next[d] = c => pc[d] = "unlock_resume"
        /\ guard = d /\ pc[d] = "unlock_wake" <=> pc[d] = "unlock_wake"
  BY <1>1, NullAssumption DEF OwnWaiterInv, NextInv, GuardInv
<1> DEFINE U(d) == next[d] = c \/ (guard = d /\ pc[d] = "unlock_wake" /\ waiter = state[c])
           K(d) == kpc[d] \in {"cb_store", "cb_wake", "resume"} /\ kcb[d] = state[c]
<1>3. Resumers(c) = {<<"unlock", d>> : d \in {d \in Coros : U(d)}}
                      \cup {<<"cancel", d>> : d \in {d \in Coros : K(d)}}
  BY DEF Resumers
<1>4. \A d, e \in Coros : U(d) /\ U(e) => d = e
  BY <1>1, <1>2 DEF HandOverInv, GuardInv
<1>5. \A d \in Coros : U(d) => Granted(c)
  BY <1>1, <1>2 DEF HandOverInv
<1>6. K(c) => resumed[state[c]] /\ ~Granted(c)
  BY <1>1 DEF CancelInv, PhaseInv, Granted, CancelClaimed
<1>7. \A d \in Coros : K(d) => d = c
  BY <1>2
<1>8. ASSUME resumed[state[c]] PROVE \E d \in Coros : U(d) \/ K(d)
  <2>1. UnlockWakes(c) \/ UnlockResumes(c) \/ CancelWakes(c)
    BY <1>1, <1>8, NullAssumption DEF WokenInv
  <2>2. UnlockWakes(c) => \E d \in Coros : U(d)
    BY <1>2 DEF UnlockWakes
  <2>3. UnlockResumes(c) => \E d \in Coros : U(d)
    BY DEF UnlockResumes
  <2>4. CancelWakes(c) => K(c)
    BY DEF CancelWakes
  <2> QED BY <2>1, <2>2, <2>3, <2>4
<1> HIDE DEF U, K
<1>9. CASE resumed[state[c]]
  <2>1. PICK d \in Coros : U(d) \/ K(d)
    BY <1>8, <1>9
  <2>2. \E x : Resumers(c) = {x}
    <3>1. ASSUME U(d) PROVE Resumers(c) = {<<"unlock", d>>}
      BY <1>3, <1>4, <1>5, <1>6, <1>7, <3>1
    <3>2. ASSUME K(d) PROVE Resumers(c) = {<<"cancel", c>>}
      BY <1>3, <1>5, <1>6, <1>7, <3>2
    <3> QED BY <2>1, <3>1, <3>2
  <2> QED BY <1>9, <2>2, FS_Singleton
<1>10. CASE ~resumed[state[c]]
  <2>1. state[c] \in ToSet(waiters)
    BY <1>1, <1>10, NullAssumption DEF QueuedInv
  <2>2. Resumers(c) = {}
    BY <1>3, <1>5, <1>6, <1>7, <1>10 DEF Granted
  <2> QED BY <1>10, <2>1, <2>2
<1> QED BY <1>9, <1>10

(* unlock(), the cancelling thread and await_suspend() never both drop the *)
(* wake-up of a suspended coroutine, and never resume it twice.            *)
THEOREM NoWakeupIsLostOrSentTwice == Spec => []OneResumerPerSuspension
<1>1. Init => WakeInvariant
  BY WakeStarts
<1> QED BY <1>1, Invariance, WakeStep, OneResumer, PTL DEF Spec

-----------------------------------------------------------------------------
(* The refinement of the first-come first-served lock.                     *)

(* Who may leave the line: a callback is there only for a wait that passes *)
(* its token, and runs only after the request.                             *)
TokenInv ==
  \A c \in Coros :
    /\ pc[c] \in {"register", "cb_mark", "cb_store", "cb_wake"} => withToken[c]
    /\ pc[c] \in {"cb_mark", "cb_store", "cb_wake"} => requested[c]
    /\ callback[c] # NoWaiter => withToken[c] /\ state[c] # NoWaiter
    /\ kpc[c] # "idle" => requested[c]
    /\ kcb[c] # NoWaiter /\ kcb[c] = state[c] => withToken[c]

(* And nobody is in the queue twice.                                       *)
LineInv == TokenInv /\ IsInjective(waiters)

(* A new mutex has nobody in its queue.                                    *)
LEMMA LineStarts == Init => LineInv
  BY DEF Init, WaitInit, LineInv, TokenInv, IsInjective

(* The queue of the lock changes at its ends, by what is not in it.        *)
LEMMA QueueStaysInjective ==
  ASSUME MutexInvariant, IsInjective(waiters), [Next]_vars
  PROVE  IsInjective(waiters)'
<1>1. waiters \in Seq(Waiters)
  BY DEF MutexInvariant, TypeOK
<1>2. CASE UNCHANGED waiters
  BY <1>2 DEF IsInjective
<1>3. ASSUME NEW c \in Coros, EnqueueWaiter(c) PROVE IsInjective(waiters)'
  <2>1. CASE FreeWaiters # {} /\ waiters' = Append(waiters, NewAddress)
    <3>1. NewAddress \in Waiters /\ NewAddress \notin ToSet(waiters)
      BY <2>1, NewAddressIsFree
    <3> HIDE DEF NewAddress
    <3>2. IsInjective(Append(waiters, NewAddress))
      BY <1>1, <3>1, InjectiveAppend
    <3> QED BY <2>1, <3>2
  <2> QED BY <1>2, <1>3, <2>1 DEF EnqueueWaiter
<1>4. ASSUME NEW c \in Coros, UnlockPop(c) PROVE IsInjective(waiters)'
  <2>1. CASE waiters # <<>> /\ waiters' = Tail(waiters)
    <3>1. IsInjective(Tail(waiters))
      BY <1>1, <2>1, InjectiveTail
    <3> QED BY <2>1, <3>1
  <2> QED BY <1>2, <1>4, <2>1 DEF UnlockPop
<1>5. CASE UNCHANGED vars
  BY <1>2, <1>5 DEF vars, lockVars
<1>6. ASSUME NEW c \in Coros,
             Lock(c) \/ TryLock(c) \/ Unlock(c) \/ LockAwait(c) \/ AwaitReady(c) \/ LockResume(c)
               \/ UnlockGuard(c) \/ UnlockWake(c) \/ UnlockResume(c)
               \/ CancelRequest(c) \/ CancellerStep(c)
      PROVE  UNCHANGED waiters
  BY <1>6 DEF Lock, TryLock, Unlock, LockAwait, AwaitReady, LockResume, UnlockGuard, UnlockWake,
              UnlockResume, CancelRequest, CancellerStep, lockVars
<1> QED BY <1>2, <1>3, <1>4, <1>5, <1>6 DEF Next, CoroStep, UnlockStep

(* No step gives a wait a token that it did not pass.                      *)
LEMMA TokenStep ==
  ASSUME MutexInvariant, TokenInv, [Next]_vars
  PROVE  TokenInv'
<1> USE DEF TokenInv, Goto, KGoto
<1>0. WaitTypeOK(Points) /\ OwnWaiterInv /\ NoWaiter \notin Waiters /\ CancelInv
  BY NullAssumption DEF MutexInvariant, TypeOK
<1>1. ASSUME NEW c \in Coros, Lock(c) PROVE TokenInv'
  BY <1>0, <1>1 DEF Lock, BeginWait, waiterVars, cancelVars, OwnWaiterInv, Waiting, WaitTypeOK
<1>2. ASSUME NEW c \in Coros, TryLock(c) \/ Unlock(c) \/ AwaitReady(c) PROVE TokenInv'
  BY <1>0, <1>2 DEF TryLock, Unlock, AwaitReady, awaiterVars, waiterVars, cancelVars, WaitTypeOK
<1>3. ASSUME NEW c \in Coros, EnqueueWaiter(c) PROVE TokenInv'
  <2>1. CASE UNCHANGED <<awaiterVars, cancelVars>> /\ Goto(c, "resume")
    BY <1>0, <2>1 DEF awaiterVars, cancelVars, WaitTypeOK
  <2>2. CASE FreeWaiters # {} /\ NewWaiter(c, NewAddress)
    <3>1. NewAddress \in Waiters /\ \A d \in Coros : kcb[d] # NewAddress
      BY <2>2, NewAddressIsFree
    <3> HIDE DEF NewAddress
    <3> QED BY <1>0, <2>2, <3>1 DEF NewWaiter, cancelVars, WaitTypeOK
  <2> QED BY <1>3, <2>1, <2>2 DEF EnqueueWaiter
<1>4. ASSUME NEW c \in Coros, LockAwait(c) PROVE TokenInv'
  <2>1. CASE AwaitReadyToken(c) \/ AwaitSuspendToken(c)
    BY <1>0, <2>1 DEF AwaitReadyToken, AwaitSuspendToken, CheckToken, waiterVars, cancelVars,
                     WaitTypeOK
  <2>2. CASE Register(c)
    BY <1>0, <2>2 DEF Register, awaiterVars, waiterVars, OwnWaiterInv, Waiting, WaitTypeOK
  <2>3. CASE InlineCallback(c)
    BY <1>0, <2>3 DEF InlineCallback, awaiterVars, cancelVars, WaitTypeOK
  <2>4. CASE TryMarkSuspended(c)
    BY <1>0, <2>4 DEF TryMarkSuspended, awaiterVars, cancelVars, WaitTypeOK
  <2> QED BY <1>4, <2>1, <2>2, <2>3, <2>4 DEF LockAwait, AwaiterStep
<1>5. ASSUME NEW c \in Coros, LockResume(c) PROVE TokenInv'
  BY <1>0, <1>5 DEF LockResume, AwaitResume, waiterVars, WaitTypeOK
<1>6. ASSUME NEW c \in Coros, UnlockStep(c) PROVE TokenInv'
  BY <1>0, <1>6 DEF UnlockStep, UnlockGuard, UnlockPop, UnlockWake, UnlockResume,
                   awaiterVars, waiterVars, cancelVars, WaitTypeOK
<1>7. ASSUME NEW c \in Coros, CancelRequest(c) PROVE TokenInv'
  BY <1>0, <1>7 DEF CancelRequest, RequestCancellation, awaiterVars, waiterVars, WaitTypeOK
<1>8. ASSUME NEW c \in Coros, CancellerStep(c) PROVE TokenInv'
  <2>1. CASE SwapCallbacks(c)
    BY <1>0, <2>1 DEF SwapCallbacks, awaiterVars, waiterVars, WaitTypeOK
  <2>2. CASE InvokeCallback(c)
    BY <1>0, <2>2 DEF InvokeCallback, awaiterVars, WaitTypeOK
  <2>3. CASE CancelResume(c)
    BY <1>0, <2>3 DEF CancelResume, awaiterVars, waiterVars, WaitTypeOK
  <2> QED BY <1>8, <2>1, <2>2, <2>3 DEF CancellerStep, CancelStep
<1>9. CASE UNCHANGED vars
  BY <1>9 DEF vars, waitVars, awaiterVars, cancelVars
<1> QED BY <1>1, <1>2, <1>3, <1>4, <1>5, <1>6, <1>7, <1>8, <1>9 DEF Next, CoroStep

(* The owner is the one coroutine that owns the mutex, in each state.      *)
LEMMA OwnerNamed ==
  ASSUME MutexInvariant, MutexInvariant'
  PROVE  /\ \A c \in Coros : Owner(c) => CurrentOwner = c
         /\ \A c \in Coros : Owner(c)' => CurrentOwner' = c
         /\ locked <=> CurrentOwner # NoCoro
         /\ locked' <=> CurrentOwner' # NoCoro
         /\ ~locked => CurrentOwner = NoCoro
         /\ ~locked' => CurrentOwner' = NoCoro
<1> USE NullAssumption DEF CurrentOwner
<1>1. MutualExclusion /\ LockedIffOwned
  BY DEF MutexInvariant, OwnerInv
<1>2. MutualExclusion' /\ LockedIffOwned'
  BY DEF MutexInvariant, OwnerInv
<1>3. \A c \in Coros : Owner(c) => CurrentOwner = c
  BY <1>1 DEF MutualExclusion
<1>4. \A c \in Coros : Owner(c)' => CurrentOwner' = c
  BY <1>2 DEF MutualExclusion
<1>5. ~locked => CurrentOwner = NoCoro
  BY <1>1 DEF LockedIffOwned
<1>6. ~locked' => CurrentOwner' = NoCoro
  BY <1>2 DEF LockedIffOwned
<1>7. locked => \E c \in Coros : Owner(c) /\ c # NoCoro
  BY <1>1 DEF LockedIffOwned
<1>8. locked' => \E c \in Coros : Owner(c)' /\ c # NoCoro
  BY <1>2 DEF LockedIffOwned
<1> HIDE DEF CurrentOwner
<1> QED BY <1>3, <1>4, <1>5, <1>6, <1>7, <1>8

(* If the same coroutines own the mutex, the owner is the same.            *)
LEMMA SameOwner ==
  ASSUME MutexInvariant, MutexInvariant', \A c \in Coros : Owner(c)' <=> Owner(c)
  PROVE  CurrentOwner' = CurrentOwner
<1>1. /\ locked <=> \E c \in Coros : Owner(c)
      /\ locked' <=> \E c \in Coros : Owner(c)'
  BY DEF MutexInvariant, OwnerInv, LockedIffOwned
<1>2. CASE locked
  <2>1. PICK c \in Coros : Owner(c) /\ Owner(c)'
    BY <1>1, <1>2
  <2> QED BY <2>1, OwnerNamed
<1>3. CASE ~locked
  BY <1>1, <1>3, OwnerNamed
<1> QED BY <1>2, <1>3

(* The line is made of coroutines, those that have an unclaimed waiter.    *)
LEMMA LineType ==
  ASSUME MutexInvariant
  PROVE  /\ WaitingLine \in Seq(Coros)
         /\ \A c \in ToSet(WaitingLine) : state[c] # NoWaiter
         /\ (\A w \in ToSet(waiters) : resumed[w]) => WaitingLine = <<>>
<1>1. waiters \in Seq(Waiters) /\ ToSet(waiters) \subseteq Waiters
  BY ToSetType DEF MutexInvariant, TypeOK
<1>2. \A w \in ToSet(waiters) : handle[w] \in Coros /\ (~resumed[w] => state[handle[w]] = w)
  BY DEF MutexInvariant, UnclaimedInv
<1>3. /\ WaitingLine \in Seq(Coros)
      /\ ToSet(WaitingLine) = {handle[w] : w \in {w \in ToSet(waiters) : ~resumed[w]}}
  BY <1>1, <1>2, RemainingNames DEF WaitingLine
<1>4. \A c \in ToSet(WaitingLine) : state[c] # NoWaiter
  BY <1>1, <1>2, <1>3, NullAssumption
<1>5. ASSUME \A w \in ToSet(waiters) : resumed[w], WaitingLine # <<>> PROVE FALSE
  <2>1. ToSet(WaitingLine) = {}
    BY <1>3, <1>5
  <2>2. Head(WaitingLine) \in ToSet(WaitingLine)
    BY <1>3, <1>5, ToSetTail
  <2> QED BY <2>1, <2>2
<1> QED BY <1>3, <1>4, <1>5

(* The line stays while the queue stays and nobody in it is claimed.       *)
LEMMA SameLine ==
  ASSUME MutexInvariant, waiters' = waiters,
         \A w \in ToSet(waiters) : /\ resumed'[w] <=> resumed[w]
                                   /\ ~resumed[w] => handle'[w] = handle[w]
  PROVE  WaitingLine' = WaitingLine
<1>1. waiters \in Seq(Waiters)
  BY DEF MutexInvariant, TypeOK
<1>2. Remaining(waiters, resumed, handle) = Remaining(waiters, resumed', handle')
  BY <1>1, RemainingSame
<1> QED BY <1>2 DEF WaitingLine

(* A callback that claims the waiter of its coroutine takes it out of the  *)
(* line.                                                                   *)
LEMMA LeavesLine ==
  ASSUME MutexInvariant, MutexInvariant', WakeInvariant, LineInv,
         NEW c \in Coros, state[c] # NoWaiter, ~resumed[state[c]], TokenCancelled(c),
         MarkResumed(state[c]), UNCHANGED <<handle, waiters>>,
         \A d \in Coros : Owner(d)' <=> Owner(d)
  PROVE  Abstract!Leave(c)
<1> DEFINE w == state[c]
<1>1. waiters \in Seq(Waiters) /\ w \in Waiters /\ resumed' = [resumed EXCEPT ![w] = TRUE]
      /\ resumed \in [Waiters -> BOOLEAN] /\ ToSet(waiters) \subseteq Waiters
  BY ToSetType DEF MutexInvariant, TypeOK, WaitTypeOK, MarkResumed
<1>2. w \in ToSet(waiters)
  BY DEF WakeInvariant, QueuedInv
<1>3. handle[w] = c
  BY DEF MutexInvariant, OwnWaiterInv
<1>4. IsInjective(waiters)
  BY DEF LineInv
<1>5. ~resumed[w] /\ resumed'[w] /\ \A x \in ToSet(waiters) \ {w} : resumed'[x] <=> resumed[x]
  BY <1>1
<1> HIDE DEF w
<1>6. IsWithout(Remaining(waiters, resumed', handle), Remaining(waiters, resumed, handle), handle[w])
  <2> DEFINE now == resumed'
  <2>1. ~resumed[w] /\ now[w] /\ \A x \in ToSet(waiters) \ {w} : now[x] <=> resumed[x]
    BY <1>5
  <2> HIDE DEF now
  <2>2. IsWithout(Remaining(waiters, now, handle), Remaining(waiters, resumed, handle), handle[w])
    BY <1>1, <1>2, <1>4, <2>1, RemainingWithout
  <2> QED BY <2>2 DEF now
<1>7. IsWithout(WaitingLine', WaitingLine, c)
  BY <1>3, <1>6 DEF WaitingLine
<1>8. CurrentOwner' = CurrentOwner
  BY SameOwner
<1> QED BY <1>7, <1>8 DEF Abstract!Leave, Abstract!RemoveAt, RemoveAt, IsWithout

(* Whoever finds the mutex free takes it, and finds nobody in the line.    *)
LEMMA TakesLock ==
  ASSUME MutexInvariant, MutexInvariant', NEW c \in Coros, ~locked, Owner(c)',
         UNCHANGED <<waiters, resumed, handle>>
  PROVE  Abstract!Take(c)
<1>1. WaitingLine = <<>>
  BY LineType DEF MutexInvariant, OwnerInv, FreeMeansNobodyWaits
<1>2. WaitingLine' = WaitingLine
  BY SameLine
<1>3. CurrentOwner = NoCoro /\ CurrentOwner' = c
  BY OwnerNamed
<1> QED BY <1>1, <1>2, <1>3 DEF Abstract!Take

(* A coroutine that finds it locked and is not its owner joins the line.   *)
LEMMA JoinsLine ==
  ASSUME MutexInvariant, MutexInvariant', NEW c \in Coros, locked, state[c] = NoWaiter, ~Owner(c),
         NEW w \in Waiters, w \notin ToSet(waiters), waiters' = Append(waiters, w),
         handle' = [handle EXCEPT ![w] = c], resumed' = [resumed EXCEPT ![w] = FALSE],
         \A d \in Coros : Owner(d)' <=> Owner(d)
  PROVE  Abstract!Join(c)
<1>1. /\ waiters \in Seq(Waiters) /\ ToSet(waiters) \subseteq Waiters
      /\ handle \in [Waiters -> Coros \cup {NoCoro}] /\ resumed \in [Waiters -> BOOLEAN]
  BY ToSetType DEF MutexInvariant, TypeOK, WaitTypeOK
<1> DEFINE gone == resumed'
           name == handle'
<1>2. /\ name[w] = c /\ ~gone[w]
      /\ \A x \in ToSet(waiters) : (resumed[x] <=> gone[x]) /\ (~resumed[x] => handle[x] = name[x])
  BY <1>1
<1> HIDE DEF gone, name
<1>3. Remaining(waiters, resumed, handle) = Remaining(waiters, gone, name)
  BY <1>1, <1>2, RemainingSame
<1>4. Remaining(Append(waiters, w), gone, name) = Append(Remaining(waiters, gone, name), c)
  BY <1>1, <1>2, RemainingAppend
<1>5. WaitingLine' = Append(WaitingLine, c)
  BY <1>3, <1>4 DEF WaitingLine, gone, name
<1>6. c \notin ToSet(WaitingLine)
  BY LineType
<1>7. CurrentOwner # NoCoro /\ CurrentOwner' = CurrentOwner
  BY OwnerNamed, SameOwner
<1>8. CurrentOwner # c
  <2>1. PICK d \in Coros : Owner(d)
    BY DEF MutexInvariant, OwnerInv, LockedIffOwned
  <2> QED BY <2>1, OwnerNamed
<1> QED BY <1>5, <1>6, <1>7, <1>8 DEF Abstract!Join, Abstract!ToSet, ToSet

(* A step of the mutex that neither changes owner nor line.                *)
StutterStep == UNCHANGED <<CurrentOwner, WaitingLine>>

(* Most steps are of this kind: they change neither who owns the mutex nor *)
(* the queue or its waiters.                                               *)
LEMMA Stutters ==
  ASSUME MutexInvariant, MutexInvariant', \A d \in Coros : Owner(d)' <=> Owner(d),
         UNCHANGED <<waiters, resumed, handle>>
  PROVE  StutterStep
  BY SameOwner, SameLine DEF StutterStep

(* unlock() hands the mutex to the first in the line, or makes it free if  *)
(* there is none; an abandoned waiter that it pops is not in the line.     *)
LEMMA UnlockRefines ==
  ASSUME MutexInvariant, MutexInvariant', LineInv, NEW c \in Coros, UnlockPop(c)
  PROVE  Abstract!HandOver \/ Abstract!Release \/ StutterStep
<1> USE NullAssumption
<1>0. /\ waiters \in Seq(Waiters) /\ ToSet(waiters) \subseteq Waiters
      /\ resumed \in [Waiters -> BOOLEAN] /\ WaitTypeOK(Points) /\ WaitTypeOK(Points)'
  BY ToSetType DEF MutexInvariant, TypeOK, WaitTypeOK
<1>1. pc[c] = "unlock_pop" /\ Owner(c) /\ CurrentOwner # NoCoro
  <2>1. pc[c] = "unlock_pop"
    BY DEF UnlockPop
  <2>2. Owner(c) /\ CurrentOwner = c
    BY <2>1, OwnerNamed DEF Owner
  <2> QED BY <2>1, <2>2
<1>2. CASE waiters = <<>> /\ locked' = FALSE /\ UNCHANGED <<waiters, resumed, handle>>
  <2>1. WaitingLine = <<>> /\ WaitingLine' = WaitingLine
    BY <1>2, NothingRemains DEF WaitingLine
  <2>2. CurrentOwner' = NoCoro
    BY <1>2, OwnerNamed
  <2> QED BY <1>1, <2>1, <2>2 DEF Abstract!Release
<1>3. CASE waiters # <<>>
  <2> DEFINE w == Head(waiters)
  <2>1. /\ waiters' = Tail(waiters) /\ resumed' = [resumed EXCEPT ![w] = TRUE]
        /\ UNCHANGED <<handle, cancelled, awaiterVars, cancelVars>>
        /\ w \in Waiters /\ w \in ToSet(waiters) /\ w \notin ToSet(Tail(waiters))
        /\ Tail(waiters) \in Seq(Waiters) /\ ToSet(Tail(waiters)) \subseteq Waiters
    <3>1. /\ w \in Waiters /\ w \in ToSet(waiters) /\ Tail(waiters) \in Seq(Waiters)
          /\ ToSet(Tail(waiters)) \subseteq Waiters
      BY <1>0, <1>3, ToSetTail, ToSetType
    <3>2. w \notin ToSet(Tail(waiters))
      BY <1>0, <1>3, InjectiveTail DEF LineInv
    <3> QED BY <1>3, <3>1, <3>2 DEF UnlockPop, MarkResumed
  <2>2. IF resumed[w] THEN pc' = pc ELSE pc' = [pc EXCEPT ![c] = "unlock_wake"]
    BY <1>3 DEF UnlockPop, Goto
  <2>3. LET old == Remaining(waiters, resumed, handle)
            new == Remaining(Tail(waiters), resumed, handle)
        IN  IF resumed[w] THEN new = old
            ELSE old # <<>> /\ Head(old) = handle[w] /\ Tail(old) = new
    BY <1>0, <1>3, RemainingTail
  <2>4. WaitingLine' = Remaining(Tail(waiters), resumed, handle)
    <3> DEFINE gone == resumed'
               rest == Tail(waiters)
    <3>1. /\ rest \in Seq(Waiters)
          /\ \A x \in ToSet(rest) : (gone[x] <=> resumed[x]) /\ (~gone[x] => handle[x] = handle[x])
      BY <1>0, <2>1
    <3> HIDE DEF gone, rest
    <3>2. Remaining(rest, gone, handle) = Remaining(rest, resumed, handle)
      BY <3>1, RemainingSame
    <3> QED BY <2>1, <3>2 DEF WaitingLine, gone, rest
  <2> HIDE DEF w
  <2>5. CASE resumed[w]
    <3>1. WaitingLine' = WaitingLine
      BY <2>3, <2>4, <2>5 DEF WaitingLine
    <3>2. resumed' = resumed /\ pc' = pc
      BY <1>0, <2>1, <2>2, <2>5
    <3>3. \A d \in Coros : Owner(d)' <=> Owner(d)
      BY <2>1, <3>2 DEF Owner, Granted, CancelClaimed, awaiterVars, cancelVars
    <3> QED BY <3>1, <3>3, SameOwner DEF StutterStep
  <2>6. CASE ~resumed[w]
    <3>1. PICK d \in Coros : d = handle[w] /\ state[d] = w
      BY <2>1, <2>6 DEF MutexInvariant, UnclaimedInv
    <3>2. WaitingLine # <<>> /\ Head(WaitingLine) = d /\ Tail(WaitingLine) = WaitingLine'
      BY <2>3, <2>4, <2>6, <3>1 DEF WaitingLine
    <3>3. Owner(d)'
      <4>1. ~cancelled[w] /\ pc[d] # "cb_store" /\ ~(kpc[d] = "cb_store" /\ kcb[d] = w)
        BY <2>1, <2>6, <3>1 DEF MutexInvariant, PhaseInv, CancelInv
      <4>2. /\ state'[d] = state[d] /\ state[d] # NoWaiter
            /\ resumed'[state[d]] /\ ~cancelled'[state[d]]
        BY <1>0, <2>1, <3>1, <4>1 DEF awaiterVars
      <4>3. pc'[d] # "cb_store"
        BY <1>0, <2>2, <2>6, <3>1, <4>1 DEF WaitTypeOK
      <4>4. Granted(d)'
        BY <2>1, <3>1, <4>1, <4>2, <4>3 DEF Granted, CancelClaimed, cancelVars
      <4> QED BY <4>4 DEF Owner
    <3>4. CurrentOwner' = d
      BY <3>1, <3>3, OwnerNamed
    <3> QED BY <1>1, <3>2, <3>4 DEF Abstract!HandOver
  <2> QED BY <2>5, <2>6
<1> QED BY <1>2, <1>3 DEF UnlockPop, waiterVars

(* What a cancellation callback does on a thread of the coroutine or of    *)
(* the canceller: claim the waiter, which takes the coroutine out of the   *)
(* line, or find it claimed.                                               *)
LEMMA CallbackRefines ==
  ASSUME MutexInvariant, MutexInvariant', WakeInvariant, LineInv, NEW c \in Coros,
         InlineCallback(c) \/ InvokeCallback(c), UNCHANGED lockVars
  PROVE  Abstract!Leave(c) \/ StutterStep
<1> USE NullAssumption DEF lockVars, Goto, KGoto
<1>0. /\ WaitTypeOK(Points) /\ OwnWaiterInv /\ PhaseInv /\ CancelInv /\ UnclaimedInv /\ TokenInv
  BY DEF MutexInvariant, TypeOK, LineInv
<1>1. CASE InlineCallback(c) /\ pc[c] = "cb_mark" /\ ~resumed[state[c]]
  <2>1. /\ MarkResumed(state[c]) /\ pc' = [pc EXCEPT ![c] = "cb_store"]
        /\ UNCHANGED <<awaiterVars, handle, cancelVars, cancelled, waiters>>
    BY <1>1 DEF InlineCallback
  <2>2. state[c] # NoWaiter /\ TokenCancelled(c)
    BY <1>0, <1>1 DEF OwnWaiterInv, Waiting, TokenInv, TokenCancelled
  <2>3. \A d \in Coros : Owner(d)' <=> Owner(d)
    <3>1. \A d \in Coros : d # c /\ state[d] # NoWaiter => state[d] # state[c]
      BY <1>0, <2>2 DEF OwnWaiterInv
    <3> QED BY <1>0, <1>1, <2>1, <2>2, <3>1
            DEF Owner, Granted, CancelClaimed, MarkResumed, awaiterVars, cancelVars, WaitTypeOK
  <2> QED BY <1>1, <2>1, <2>2, <2>3, LeavesLine
<1>2. CASE InvokeCallback(c) /\ kpc[c] = "cb_mark" /\ ~resumed[kcb[c]]
  <2>1. kcb[c] # NoWaiter /\ state[c] = kcb[c] /\ TokenCancelled(c)
    BY <1>0, <1>2 DEF OwnWaiterInv, UnclaimedInv, TokenInv, TokenCancelled
  <2>2. /\ MarkResumed(state[c]) /\ kpc' = [kpc EXCEPT ![c] = "cb_store"]
        /\ UNCHANGED <<pc, awaiterVars, handle, kcb, cancelled, waiters>>
    BY <1>2, <2>1 DEF InvokeCallback
  <2>3. \A d \in Coros : Owner(d)' <=> Owner(d)
    <3>1. \A d \in Coros : d # c /\ state[d] # NoWaiter => state[d] # state[c]
      BY <1>0, <2>1 DEF OwnWaiterInv
    <3>2. pc[c] \in {"mark", "suspended", "resume"}
      BY <1>0, <2>1 DEF CancelInv
    <3> QED BY <1>0, <1>2, <2>1, <2>2, <3>1, <3>2
            DEF Owner, Granted, CancelClaimed, MarkResumed, awaiterVars, WaitTypeOK
  <2> QED BY <1>2, <2>1, <2>2, <2>3, LeavesLine
<1>3. CASE InlineCallback(c) /\ ~(pc[c] = "cb_mark" /\ ~resumed[state[c]])
  <2>1. state[c] \in Waiters
    BY <1>0, <1>3 DEF InlineCallback, OwnWaiterInv, Waiting, WaitTypeOK
  <2>2. UNCHANGED <<waiters, resumed, handle>>
    <3>1. /\ UNCHANGED <<waiters, handle>>
          /\ resumed' = resumed \/ (resumed[state[c]] /\ resumed' = [resumed EXCEPT ![state[c]] = TRUE])
      BY <1>3 DEF InlineCallback, MarkResumed
    <3>2. resumed \in [Waiters -> BOOLEAN]
      BY <1>0 DEF WaitTypeOK
    <3>3. resumed' = resumed
      BY <2>1, <3>1, <3>2
    <3> QED BY <3>1, <3>3
  <2>3. \A d \in Coros : d # c /\ state[d] # NoWaiter => state[d] # state[c]
    BY <1>0, <2>1 DEF OwnWaiterInv
  <2>4. \A d \in Coros : Owner(d)' <=> Owner(d)
    BY <1>0, <1>3, <2>1, <2>2, <2>3
       DEF InlineCallback, Owner, Granted, CancelClaimed, CancelInv, awaiterVars, cancelVars, WaitTypeOK
  <2> QED BY <2>2, <2>4, Stutters
<1>4. CASE InvokeCallback(c) /\ ~(kpc[c] = "cb_mark" /\ ~resumed[kcb[c]])
  <2>1. kcb[c] \in Waiters
    BY <1>0, <1>4 DEF InvokeCallback, OwnWaiterInv, WaitTypeOK
  <2>2. UNCHANGED <<waiters, resumed, handle>>
    <3>1. /\ UNCHANGED <<waiters, handle>>
          /\ resumed' = resumed \/ (resumed[kcb[c]] /\ resumed' = [resumed EXCEPT ![kcb[c]] = TRUE])
      BY <1>4 DEF InvokeCallback, MarkResumed
    <3>2. resumed \in [Waiters -> BOOLEAN]
      BY <1>0 DEF WaitTypeOK
    <3>3. resumed' = resumed
      BY <2>1, <3>1, <3>2
    <3> QED BY <3>1, <3>3
  <2>3. \A d \in Coros : d # c /\ state[d] # NoWaiter => state[d] # kcb[c]
    BY <1>0, <2>1 DEF OwnWaiterInv
  <2>4. \A d \in Coros : Owner(d)' <=> Owner(d)
    BY <1>0, <1>4, <2>1, <2>2, <2>3
       DEF InvokeCallback, Owner, Granted, CancelClaimed, CancelInv, awaiterVars, WaitTypeOK
  <2> QED BY <2>2, <2>4, Stutters
<1> QED BY <1>1, <1>2, <1>3, <1>4

(* Every step of the mutex is one of the lock, or changes neither its      *)
(* owner nor its line.                                                     *)
LEMMA RefinementStep ==
  ASSUME MutexInvariant, MutexInvariant', WakeInvariant, LineInv, [Next]_vars
  PROVE  [Abstract!Next]_<<CurrentOwner, WaitingLine>>
<1> USE NullAssumption DEF lockVars, Goto, KGoto
<1>0. /\ WaitTypeOK(Points) /\ OwnWaiterInv /\ PhaseInv /\ CancelInv /\ locked \in BOOLEAN
  BY DEF MutexInvariant, TypeOK
<1> SUFFICES (\E c \in Coros : Abstract!Take(c) \/ Abstract!Join(c) \/ Abstract!Leave(c))
               \/ Abstract!HandOver \/ Abstract!Release \/ StutterStep
  BY DEF Abstract!Next, StutterStep
<1>1. ASSUME NEW c \in Coros, Lock(c) \/ Unlock(c) PROVE StutterStep
  <2>1. UNCHANGED <<waiters, resumed, handle>>
    BY <1>1 DEF Lock, Unlock, BeginWait, waiterVars
  <2>2. \A d \in Coros : Owner(d)' <=> Owner(d)
    BY <1>0, <1>1 DEF Lock, Unlock, BeginWait, waiterVars, awaiterVars, cancelVars,
         Owner, Granted, CancelClaimed, OwnWaiterInv, Waiting, WaitTypeOK
  <2> QED BY <2>1, <2>2, Stutters
<1>2. ASSUME NEW c \in Coros, TryLock(c) PROVE Abstract!Take(c)
  <2>1. ~locked /\ UNCHANGED <<waiters, resumed, handle>>
    BY <1>2 DEF TryLock, waiterVars
  <2>2. Owner(c)'
    BY <1>0, <1>2 DEF TryLock, Owner, WaitTypeOK
  <2> QED BY <2>1, <2>2, TakesLock
<1>3. ASSUME NEW c \in Coros, AwaitReady(c) PROVE Abstract!Take(c) \/ StutterStep
  <2>1. UNCHANGED <<waiters, resumed, handle>> /\ state[c] = NoWaiter /\ ~immediate[c]
    BY <1>0, <1>3 DEF AwaitReady, waiterVars, OwnWaiterInv, Waiting
  <2>2. CASE ~locked
    <3>1. Owner(c)'
      BY <1>0, <1>3, <2>1, <2>2 DEF AwaitReady, awaiterVars, Owner, WaitTypeOK
    <3> QED BY <2>1, <2>2, <3>1, TakesLock
  <2>3. CASE locked
    <3>1. \A d \in Coros : Owner(d)' <=> Owner(d)
      BY <1>0, <1>3, <2>1, <2>3 DEF AwaitReady, waiterVars, awaiterVars, cancelVars,
           Owner, Granted, CancelClaimed, WaitTypeOK
    <3> QED BY <2>1, <3>1, Stutters
  <2> QED BY <2>2, <2>3
<1>4. ASSUME NEW c \in Coros, EnqueueWaiter(c) PROVE Abstract!Take(c) \/ Abstract!Join(c)
  <2>1. pc[c] = "enqueue" /\ state[c] = NoWaiter /\ ~immediate[c] /\ ~Owner(c)
    BY <1>0, <1>4 DEF EnqueueWaiter, OwnWaiterInv, Waiting, Owner, Granted
  <2>2. CASE /\ ~locked /\ pc' = [pc EXCEPT ![c] = "resume"]
             /\ UNCHANGED <<awaiterVars, waiterVars, cancelVars, waiters>>
    <3>1. Owner(c)'
      BY <1>0, <2>1, <2>2 DEF awaiterVars, Owner, WaitTypeOK
    <3>2. ~locked /\ UNCHANGED <<waiters, resumed, handle>>
      BY <2>2 DEF waiterVars
    <3> QED BY <3>1, <3>2, TakesLock
  <2>3. CASE /\ locked /\ FreeWaiters # {} /\ NewWaiter(c, NewAddress)
             /\ waiters' = Append(waiters, NewAddress)
    <3>1. PICK w \in Waiters : w = NewAddress
      BY <2>3, NewAddressIsFree
    <3>2. /\ w \notin ToSet(waiters)
          /\ \A d \in Coros : state[d] # w /\ callback[d] # w /\ kcb[d] # w
      BY <2>3, <3>1, NewAddressIsFree
    <3>3. NewWaiter(c, w) /\ waiters' = Append(waiters, w) /\ locked
      BY <2>3, <3>1
    <3>4. \A d \in Coros : Owner(d)' <=> Owner(d)
      <4>1. ASSUME NEW d \in Coros, d # c PROVE Owner(d)' <=> Owner(d)
        BY <1>0, <3>2, <3>3, <4>1 DEF NewWaiter, cancelVars, Owner, Granted, CancelClaimed, WaitTypeOK
      <4>2. ~Owner(c)'
        BY <1>0, <3>3 DEF NewWaiter, cancelVars, Owner, Granted, WaitTypeOK
      <4> QED BY <2>1, <4>1, <4>2
    <3>5. handle' = [handle EXCEPT ![w] = c] /\ resumed' = [resumed EXCEPT ![w] = FALSE]
      BY <3>3 DEF NewWaiter
    <3>6. Abstract!Join(c)
      BY <2>1, <3>2, <3>3, <3>4, <3>5, JoinsLine
    <3> QED BY <3>6
  <2> QED BY <1>4, <2>2, <2>3 DEF EnqueueWaiter
<1>5. ASSUME NEW c \in Coros, LockAwait(c) PROVE Abstract!Leave(c) \/ StutterStep
  <2>1. CASE InlineCallback(c)
    BY <1>5, <2>1, CallbackRefines DEF LockAwait
  <2>2. CASE AwaitReadyToken(c) \/ AwaitSuspendToken(c)
    <3>1. UNCHANGED <<waiters, resumed, handle>>
      BY <1>5, <2>2 DEF LockAwait, AwaitReadyToken, AwaitSuspendToken, CheckToken, waiterVars
    <3>2. state[c] = NoWaiter
      BY <1>0, <2>2 DEF AwaitReadyToken, AwaitSuspendToken, CheckToken, OwnWaiterInv, Waiting
    <3>3. \A d \in Coros : Owner(d)' <=> Owner(d)
      BY <1>0, <2>2, <3>2 DEF AwaitReadyToken, AwaitSuspendToken, CheckToken, waiterVars,
           cancelVars, Owner, Granted, CancelClaimed, WaitTypeOK
    <3> QED BY <3>1, <3>3, Stutters
  <2>3. CASE Register(c) \/ TryMarkSuspended(c)
    <3>1. UNCHANGED <<waiters, resumed, handle>>
      BY <1>5, <2>3 DEF LockAwait, Register, TryMarkSuspended, waiterVars
    <3>2. state[c] # NoWaiter
      BY <1>0, <2>3 DEF Register, TryMarkSuspended, OwnWaiterInv, Waiting
    <3>3. \A d \in Coros : Owner(d)' <=> Owner(d)
      BY <1>0, <2>3, <3>2 DEF Register, TryMarkSuspended, waiterVars, awaiterVars,
           cancelVars, Owner, Granted, CancelClaimed, WaitTypeOK
    <3> QED BY <3>1, <3>3, Stutters
  <2> QED BY <1>5, <2>1, <2>2, <2>3 DEF LockAwait, AwaiterStep
<1>6. ASSUME NEW c \in Coros, LockResume(c) PROVE StutterStep
  <2>1. UNCHANGED <<waiters, resumed, handle, cancelled>> /\ pc[c] = "resume"
    BY <1>6 DEF LockResume, AwaitResume, waiterVars
  <2>2. Owner(c) <=> ~Throws(c)
    <3>1. state[c] # NoWaiter => resumed[state[c]] /\ ~CancelClaimed(c)
      BY <1>0, <2>1 DEF PhaseInv, CancelInv, CancelClaimed
    <3>2. immediate[c] => state[c] = NoWaiter
      BY <1>0 DEF OwnWaiterInv
    <3> QED BY <2>1, <3>1, <3>2 DEF Owner, Granted, Throws
  <2>3. Owner(c)' <=> ~Throws(c)
    BY <1>0, <1>6 DEF LockResume, AwaitResume, Owner, Granted, WaitTypeOK
  <2>4. ASSUME NEW d \in Coros, d # c PROVE Owner(d)' <=> Owner(d)
    BY <1>0, <1>6, <2>4 DEF LockResume, AwaitResume, waiterVars, Owner, Granted, CancelClaimed,
         WaitTypeOK
  <2>5. \A d \in Coros : Owner(d)' <=> Owner(d)
    BY <2>2, <2>3, <2>4
  <2> QED BY <2>1, <2>5, Stutters
<1>7. ASSUME NEW c \in Coros, UnlockGuard(c) \/ UnlockWake(c) \/ UnlockResume(c) PROVE StutterStep
  <2>1. UNCHANGED <<waiters, resumed, handle>>
    BY <1>7 DEF UnlockGuard, UnlockWake, UnlockResume, waiterVars
  <2>2. CASE UnlockGuard(c)
    <3>1. \A d \in Coros : Owner(d)' <=> Owner(d)
      BY <1>0, <2>2 DEF UnlockGuard, waiterVars, awaiterVars, cancelVars, Owner, Granted,
           CancelClaimed, WaitTypeOK
    <3> QED BY <2>1, <3>1, Stutters
  <2>3. CASE UnlockWake(c)
    <3>1. pc[c] = "unlock_wake" /\ state[c] = NoWaiter
      BY <1>0, <2>3 DEF UnlockWake, OwnWaiterInv, Waiting
    <3>2. pc' = [pc EXCEPT ![c] = "unlock_resume"] \/ pc' = [pc EXCEPT ![c] = "idle"]
      BY <2>3 DEF UnlockWake
    <3>3. UNCHANGED <<state, immediate, cancelled, kpc, kcb>>
      BY <2>3 DEF UnlockWake, awaiterVars, cancelVars
    <3>4. \A d \in Coros : Owner(d)' <=> Owner(d)
      BY <1>0, <2>1, <3>1, <3>2, <3>3 DEF Owner, Granted, CancelClaimed, WaitTypeOK
    <3> QED BY <2>1, <3>4, Stutters
  <2>4. CASE UnlockResume(c)
    <3>1. PICK e \in Coros : e = next[c]
      BY <2>4 DEF MutexInvariant, HandOverInv, UnlockResume
    <3>2. /\ pc[c] = "unlock_resume" /\ pc[e] = "suspended" /\ state[c] = NoWaiter
          /\ state[e] # NoWaiter /\ pc' = [pc EXCEPT ![c] = "idle", ![e] = "resume"]
      BY <1>0, <2>4, <3>1
         DEF MutexInvariant, HandOverInv, UnlockResume, OwnWaiterInv, Waiting
    <3>3. UNCHANGED <<state, immediate, cancelled, kpc, kcb>>
      BY <2>4 DEF UnlockResume, awaiterVars, waiterVars, cancelVars
    <3>4. \A d \in Coros : Owner(d)' <=> Owner(d)
      BY <1>0, <2>1, <3>2, <3>3 DEF Owner, Granted, CancelClaimed, WaitTypeOK
    <3> QED BY <2>1, <3>4, Stutters
  <2> QED BY <1>7, <2>2, <2>3, <2>4
<1>8. ASSUME NEW c \in Coros, UnlockPop(c)
      PROVE  Abstract!HandOver \/ Abstract!Release \/ StutterStep
  BY <1>8, UnlockRefines
<1>9. ASSUME NEW c \in Coros, CancelRequest(c) \/ CancellerStep(c)
      PROVE  Abstract!Leave(c) \/ StutterStep
  <2>1. CASE InvokeCallback(c)
    BY <1>9, <2>1, CallbackRefines DEF CancelRequest, CancellerStep
  <2>2. CASE CancelRequest(c) \/ (SwapCallbacks(c) /\ UNCHANGED lockVars)
    <3>1. UNCHANGED <<waiters, resumed, handle>>
      BY <2>2 DEF CancelRequest, RequestCancellation, SwapCallbacks, waiterVars
    <3>2. \A d \in Coros : Owner(d)' <=> Owner(d)
      BY <1>0, <2>2 DEF CancelRequest, RequestCancellation, SwapCallbacks, waiterVars, awaiterVars,
           Owner, Granted, CancelClaimed, WaitTypeOK
    <3> QED BY <3>1, <3>2, Stutters
  <2>3. CASE CancelResume(c) /\ UNCHANGED lockVars
    <3>1. UNCHANGED <<waiters, resumed, handle>>
      BY <2>3 DEF CancelResume, waiterVars
    <3>2. kpc[c] = "resume" /\ state[c] = kcb[c] /\ kcb[c] # NoWaiter /\ handle[kcb[c]] = c
      BY <1>0, <2>3 DEF CancelResume, OwnWaiterInv, CancelInv
    <3>3. pc[c] = "suspended" /\ pc' = [pc EXCEPT ![c] = "resume"]
      BY <1>0, <2>3, <3>2 DEF CancelResume, CancelInv
    <3>4. \A d \in Coros : Owner(d)' <=> Owner(d)
      BY <1>0, <2>3, <3>2, <3>3 DEF CancelResume, waiterVars, awaiterVars,
           Owner, Granted, CancelClaimed, WaitTypeOK
    <3> QED BY <3>1, <3>4, Stutters
  <2> QED BY <1>9, <2>1, <2>2, <2>3 DEF CancelRequest, CancellerStep, CancelStep
<1>10. CASE UNCHANGED vars
  <2>1. UNCHANGED <<waiters, resumed, handle>>
    BY <1>10 DEF vars, waitVars, waiterVars
  <2>2. \A d \in Coros : Owner(d)' <=> Owner(d)
    BY <1>10 DEF vars, waitVars, waiterVars, awaiterVars, cancelVars, Owner, Granted, CancelClaimed
  <2> QED BY <2>1, <2>2, Stutters
<1> QED BY <1>1, <1>2, <1>3, <1>4, <1>5, <1>6, <1>7, <1>8, <1>9, <1>10
        DEF Next, CoroStep, UnlockStep

(* The mutex implements a first-come first-served lock, for any            *)
(* coroutines, tokens and threads that cancel them: nobody takes it past a *)
(* coroutine that waits, it is handed over in the order of arrival, and a  *)
(* cancellation takes only its own coroutine out of the line.              *)
THEOREM MutexIsFifoLock == Spec => ImplementsFifoLock
<1>1. Init => Abstract!Init
  <2> SUFFICES ASSUME Init PROVE Abstract!Init
    OBVIOUS
  <2>1. MutexInvariant
    BY InvariantInit
  <2>2. ~locked /\ waiters = <<>>
    BY DEF Init
  <2>3. WaitingLine = <<>>
    BY <2>2, NothingRemains DEF WaitingLine
  <2>4. CurrentOwner = NoCoro
    BY <2>1, <2>2 DEF MutexInvariant, OwnerInv, LockedIffOwned, CurrentOwner
  <2> QED BY <2>3, <2>4 DEF Abstract!Init
<1>2. Init => WakeInvariant /\ LineInv
  BY WakeStarts, LineStarts
<1>3. MutexInvariant /\ MutexInvariant' /\ LineInv /\ [Next]_vars => LineInv'
  BY QueueStaysInjective, TokenStep DEF LineInv
<1>4. MutexInvariant /\ WakeInvariant /\ [Next]_vars => WakeInvariant'
  BY WakeStep
<1>5. MutexInvariant /\ MutexInvariant' /\ WakeInvariant /\ LineInv /\ [Next]_vars
        => [Abstract!Next]_<<CurrentOwner, WaitingLine>>
  BY RefinementStep
<1> QED BY <1>1, <1>2, <1>3, <1>4, <1>5, Invariance, PTL DEF Spec, ImplementsFifoLock, Abstract!Spec
=============================================================================
