------------------------ MODULE ConditionVariableProofs ------------------------
(***************************************************************************)
(* Proofs about xcoro::condition_variable for any coroutines, notifiers,   *)
(* cancellation sources and waiter addresses.  A waiter may be claimed by  *)
(* notify_one(), by notify_all() or by its cancellation callback, and its  *)
(* coroutine may meanwhile be anywhere between creating it and being       *)
(* suspended: the invariant says who has a waiter to deal with, and that   *)
(* nobody else has it.                                                     *)
(***************************************************************************)
EXTENDS ConditionVariable, DataLemmas

(* Points between the creation of a waiter and the end of its suspension.  *)
WaitingPoints == {"register", "cb_mark", "cb_store", "cb_wake", "mark", "suspended"}

(* Points at which a coroutine may hold the mutex; it does at those of     *)
(* HoldsMutexOnReturn, and at the other two until wait() has released it.  *)
OwnerInv ==
  /\ HoldsMutexOnReturn
  /\ \A c \in Coros : owner = c =>
       pc[c] \in {"resume", "holding", "ready", "suspend", "enqueue", "register", "mark"}

(* A coroutine has a waiter exactly while it waits; its callback and its   *)
(* canceller only ever hold waiters it made.                               *)
OwnWaiterInv ==
  \A c \in Coros :
    /\ pc[c] \in WaitingPoints => state[c] # NoWaiter
    /\ state[c] # NoWaiter =>
         pc[c] \in WaitingPoints \cup {"resume", "locking"} /\ handle[state[c]] = c
    /\ immediate[c] => pc[c] = "resume" /\ state[c] = NoWaiter
    /\ callback[c] # NoWaiter => handle[callback[c]] = c
    /\ kcb[c] # NoWaiter => handle[kcb[c]] = c
    /\ kpc[c] \in {"cb_mark", "cb_store", "cb_wake", "resume"} => kcb[c] # NoWaiter

(* The suspend_phase of a waiter agrees with its coroutine; nobody goes on *)
(* from a wait, and no wake-up is requested, before the waiter is claimed. *)
PhaseInv ==
  /\ \A w \in Waiters : cancelled[w] => resumed[w]
  /\ \A c \in Coros : state[c] # NoWaiter =>
       /\ phase[state[c]] = "wake_requested" => resumed[state[c]]
       /\ pc[c] = "suspended" => phase[state[c]] = "suspended"
       /\ phase[state[c]] = "suspended" => pc[c] \in {"suspended", "locking", "resume"}
       /\ pc[c] \in {"locking", "resume"} => resumed[state[c]]

(* An unclaimed waiter somebody can still reach is the one its coroutine   *)
(* waits with; the queue holds no waiter twice.                            *)
UnclaimedInv ==
  /\ IsInjective(waiters)
  /\ \A w \in ToSet(waiters) : handle[w] \in Coros /\ (~resumed[w] => state[handle[w]] = w)
  /\ \A c \in Coros :
       /\ callback[c] # NoWaiter /\ ~resumed[callback[c]] => state[c] = callback[c]
       /\ kcb[c] # NoWaiter /\ ~resumed[kcb[c]] => state[c] = kcb[c]

(* A callback that has claimed a waiter has it to itself until it has      *)
(* requested the wake-up.                                                  *)
CancelInv ==
  \A c \in Coros :
    /\ pc[c] \in {"cb_store", "cb_wake"} =>
         resumed[state[c]] /\ phase[state[c]] = "waiting_await_suspend"
    /\ pc[c] = "cb_wake" => cancelled[state[c]]
    /\ callback[c] # NoWaiter /\ callback[c] = state[c] =>
         pc[c] \in {"mark", "suspended", "locking", "resume"}
    /\ kcb[c] # NoWaiter /\ kcb[c] = state[c] =>
         pc[c] \in {"mark", "suspended", "locking", "resume"}
    /\ kpc[c] \in {"cb_store", "cb_wake"} =>
         /\ resumed[kcb[c]] /\ state[c] = kcb[c]
         /\ phase[kcb[c]] # "wake_requested"
         /\ pc[c] \in {"mark", "suspended"}
    /\ kpc[c] = "cb_wake" => cancelled[kcb[c]]
    /\ kpc[c] = "resume" =>
         state[c] = kcb[c] /\ pc[c] = "suspended" /\ cancelled[kcb[c]]

(* A waiter that a notifier has claimed was not claimed by a cancellation, *)
(* its coroutine has not been woken, and no other notifier has it.         *)
ClaimInv ==
  \A n \in Notifiers :
    /\ IsInjective(claimed[n])
    /\ \A w \in ToSet(claimed[n]) :
         /\ handle[w] \in Coros /\ state[handle[w]] = w
         /\ Granted(handle[w])
         /\ phase[w] # "wake_requested"
         /\ pc[handle[w]] \notin {"locking", "resume"}
         /\ \A m \in Notifiers : /\ relock[m] # handle[w]
                                 /\ m # n => w \notin ToSet(claimed[m])

(* The coroutine that a notifier is going to resume is suspended, and no   *)
(* other notifier is going to resume it.                                   *)
RelockInv ==
  \A n \in Notifiers : relock[n] # NoCoro =>
    /\ pc[relock[n]] = "suspended" /\ Granted(relock[n])
    /\ \A m \in Notifiers : relock[m] = relock[n] => m = n

(* Nobody's waiter leaves the queue unclaimed.                             *)
QueuedInv ==
  \A c \in Coros : state[c] # NoWaiter /\ ~resumed[state[c]] => state[c] \in ToSet(waiters)

(* A thread that has claimed c's waiter and is on its way to wake c.       *)
NotifyWakes(c)   == \E n \in Notifiers : state[c] \in ToSet(claimed[n])
NotifyRelocks(c) == \E n \in Notifiers : relock[n] = c
CancelWakes(c)   == kpc[c] \in {"cb_store", "cb_wake", "resume"} /\ kcb[c] = state[c]

(* A waiter that is claimed is being woken, or its wake-up has been        *)
(* requested, or its coroutine goes on.                                    *)
WokenInv ==
  \A c \in Coros : state[c] # NoWaiter /\ resumed[state[c]] =>
    \/ pc[c] \in {"locking", "resume", "cb_store", "cb_wake"}
    \/ phase[state[c]] = "wake_requested"
    \/ NotifyWakes(c) \/ NotifyRelocks(c) \/ CancelWakes(c)

(* The inductive invariant: every part holds in every reachable state.     *)
ConditionVariableInductive ==
  /\ TypeOK
  /\ OwnerInv
  /\ OwnWaiterInv
  /\ PhaseInv
  /\ UnclaimedInv
  /\ CancelInv
  /\ ClaimInv
  /\ RelockInv
  /\ QueuedInv
  /\ WokenInv

-----------------------------------------------------------------------------
(* The list that notify_all() builds, step by step, exists.                *)
LEMMA CollectExists ==
  ASSUME NEW S, NEW q \in Seq(S), NEW f
  PROVE  \E F : F = [i \in 0..Len(q) |->
                       IF i = 0 THEN <<>>
                       ELSE IF f[q[i]] THEN F[i - 1] ELSE Append(F[i - 1], q[i])]
<1> DEFINE Step(F, i) == IF f[q[i]] THEN F[i - 1] ELSE Append(F[i - 1], q[i])
           Upto(F, n) == /\ F = [i \in 0..n |-> F[i]] /\ F[0] = <<>>
                         /\ \A i \in 1..n : F[i] = Step(F, i)
           Bad == {n \in 0..Len(q) : ~\E F : Upto(F, n)}
<1>1. Len(q) \in Nat
  OBVIOUS
<1>2. Bad = {}
  <2> SUFFICES ASSUME Bad # {} PROVE FALSE
    OBVIOUS
  <2>1. PICK n \in Bad : \A m \in Bad : n <= m
    <3>1. Bad \in SUBSET Nat
      BY <1>1
    <3> HIDE DEF Bad
    <3> QED BY <3>1, LeastNatural
  <2>2. n \in 0..Len(q) /\ ~\E F : Upto(F, n)
    OBVIOUS
  <2>3. n # 0
    <3>1. Upto([i \in 0..0 |-> <<>>], 0)
      OBVIOUS
    <3> QED BY <2>2, <3>1
  <2>4. n - 1 \in 0..Len(q) /\ ~(n <= n - 1)
    BY <2>3
  <2>5. n - 1 \notin Bad
    BY <2>1
  <2>6. PICK F : Upto(F, n - 1)
    BY <2>4, <2>5
  <2> DEFINE G == [i \in 0..n |-> IF i = n THEN Step(F, n) ELSE F[i]]
  <2>7. Upto(G, n)
    <3>1. n \in Nat /\ n # 0
      BY <2>3
    <3>2. G = [i \in 0..n |-> G[i]]
      OBVIOUS
    <3>3. G[0] = <<>>
      BY <2>6, <3>1
    <3>4. ASSUME NEW i \in 1..n PROVE G[i] = Step(G, i)
      <4>1. i \in 0..n /\ i - 1 \in 0..n /\ i - 1 # n
        BY <3>1
      <4>2. G[i - 1] = F[i - 1]
        BY <4>1
      <4>3. CASE i = n
        BY <4>3
      <4>4. CASE i # n
        <5>1. i \in 1..(n - 1)
          BY <4>4
        <5>2. F[i] = Step(F, i)
          BY <2>6, <5>1
        <5> QED BY <5>2
      <4> QED BY <4>4
    <3> QED BY <3>3, <3>4
  <2> QED BY <2>7
<1>3. PICK F : Upto(F, Len(q))
  BY <1>2
<1>4. F = [i \in 0..Len(q) |-> IF i = 0 THEN <<>> ELSE Step(F, i)]
  BY <1>1, <1>3
<1> QED BY <1>4

(* notify_all() claims the waiters that were in the queue unclaimed, each  *)
(* once.                                                                   *)
LEMMA UnclaimedOf ==
  ASSUME NEW S, NEW q \in Seq(S), NEW f, NEW F, F[0] = <<>>,
         \A i \in 1..Len(q) : F[i] = IF f[q[i]] THEN F[i - 1] ELSE Append(F[i - 1], q[i])
  PROVE  /\ F[Len(q)] \in Seq(S)
         /\ ToSet(F[Len(q)]) = {w \in ToSet(q) : ~f[w]}
         /\ IsInjective(q) => IsInjective(F[Len(q)])
<1> DEFINE Kept(n) == {q[j] : j \in {j \in 1..n : ~f[q[j]]}}
           Good(n) == /\ F[n] \in Seq(S) /\ ToSet(F[n]) = Kept(n)
                      /\ IsInjective(q) => IsInjective(F[n])
           Bad == {n \in 0..Len(q) : ~Good(n)}
<1>1. Len(q) \in Nat /\ DOMAIN q = 1..Len(q) /\ \A i \in 1..Len(q) : q[i] \in S
  OBVIOUS
<1>2. Bad = {}
  <2> SUFFICES ASSUME Bad # {} PROVE FALSE
    OBVIOUS
  <2>1. PICK n \in Bad : \A m \in Bad : n <= m
    <3>1. Bad \in SUBSET Nat
      BY <1>1
    <3> HIDE DEF Bad
    <3> QED BY <3>1, LeastNatural
  <2>2. n \in 0..Len(q) /\ ~Good(n)
    OBVIOUS
  <2>3. CASE n = 0
    <3>1. F[0] = <<>>
      BY <1>1
    <3>2. Kept(0) = {} /\ IsInjective(<<>>)
      BY DEF IsInjective
    <3>3. Good(0)
      BY <3>2, ToSetEmpty
    <3> QED BY <2>3, <3>3
  <2>4. CASE n # 0
    <3>1. n \in 1..Len(q) /\ n - 1 \in 0..Len(q) /\ ~(n <= n - 1)
      BY <2>4
    <3>2. Good(n - 1)
      BY <2>1, <3>1
    <3>3. F[n] = IF f[q[n]] THEN F[n - 1] ELSE Append(F[n - 1], q[n])
      BY <2>4
    <3>4. Kept(n) = IF f[q[n]] THEN Kept(n - 1) ELSE Kept(n - 1) \cup {q[n]}
      <4>1. \A j \in 1..n : j \in 1..(n - 1) \/ j = n
        BY <3>1
      <4>2. n \in 1..n /\ \A j \in 1..(n - 1) : j \in 1..n
        BY <3>1
      <4>3. CASE f[q[n]]
        BY <4>3
      <4>4. CASE ~f[q[n]]
        BY <4>2
      <4> QED BY <4>3, <4>4
    <3>5. IsInjective(q) => q[n] \notin Kept(n - 1)
      <4>1. \A j \in 1..(n - 1) : j \in 1..Len(q) /\ j # n
        OBVIOUS
      <4> QED BY DEF IsInjective
    <3> HIDE DEF Kept
    <3>6. CASE f[q[n]]
      BY <3>2, <3>3, <3>4, <3>6
    <3>7. CASE ~f[q[n]]
      <4>0. q[n] \in S /\ F[n - 1] \in Seq(S)
        BY <3>1, <3>2
      <4>1. /\ F[n] \in Seq(S) /\ ToSet(F[n]) = ToSet(F[n - 1]) \cup {q[n]}
        BY <3>3, <3>7, <4>0, ToSetAppend
      <4>2. IsInjective(q) => IsInjective(F[n])
        BY <3>2, <3>3, <3>5, <3>7, InjectiveAppend
      <4> QED BY <3>2, <3>4, <3>7, <4>1, <4>2
    <3> QED BY <3>6, <3>7
  <2> QED BY <2>3, <2>4
<1> HIDE DEF Good
<1>3. Good(Len(q))
  <2>1. Len(q) \in 0..Len(q)
    BY <1>1
  <2> QED BY <1>2
<1>4. Kept(Len(q)) = {w \in ToSet(q) : ~f[w]}
  BY <1>1 DEF ToSet
<1> QED BY <1>3, <1>4 DEF Good

(* notify_all() claims the waiters that were in the queue unclaimed, each  *)
(* of them once.                                                           *)
LEMMA UnclaimedWaiters ==
  ASSUME NEW q \in Seq(Waiters)
  PROVE  /\ Unclaimed(q) \in Seq(Waiters)
         /\ ToSet(Unclaimed(q)) = {w \in ToSet(q) : ~resumed[w]}
         /\ IsInjective(q) => IsInjective(Unclaimed(q))
<1> DEFINE F == CHOOSE F : F = [i \in 0..Len(q) |->
                  IF i = 0 THEN <<>>
                  ELSE IF resumed[q[i]] THEN F[i - 1] ELSE Append(F[i - 1], q[i])]
<1>1. Unclaimed(q) = F[Len(q)]
  BY DEF Unclaimed
<1>2. F = [i \in 0..Len(q) |->
             IF i = 0 THEN <<>>
             ELSE IF resumed[q[i]] THEN F[i - 1] ELSE Append(F[i - 1], q[i])]
  <2>1. \E G : G = [i \in 0..Len(q) |->
                     IF i = 0 THEN <<>>
                     ELSE IF resumed[q[i]] THEN G[i - 1] ELSE Append(G[i - 1], q[i])]
    BY CollectExists, ZenonT(60)
  <2> QED BY <2>1
<1> HIDE DEF F
<1>3. /\ F[0] = <<>>
      /\ \A i \in 1..Len(q) : F[i] = IF resumed[q[i]] THEN F[i - 1] ELSE Append(F[i - 1], q[i])
  <2>1. Len(q) \in Nat
    OBVIOUS
  <2>2. F[0] = <<>>
    BY <1>2, <2>1
  <2>3. ASSUME NEW i \in 1..Len(q)
        PROVE  F[i] = IF resumed[q[i]] THEN F[i - 1] ELSE Append(F[i - 1], q[i])
    <3>1. i \in 0..Len(q) /\ i # 0
      BY <2>1
    <3> QED BY <1>2, <3>1
  <2> QED BY <2>2, <2>3
<1>4. /\ F[Len(q)] \in Seq(Waiters)
      /\ ToSet(F[Len(q)]) = {w \in ToSet(q) : ~resumed[w]}
      /\ IsInjective(q) => IsInjective(F[Len(q)])
  BY <1>3, UnclaimedOf
<1> QED BY <1>1, <1>4

(* The waiter notify_one() looks for is the first that is unclaimed.       *)
LEMMA FirstOfQueue ==
  ASSUME NEW q \in Seq(Waiters), NEW i, i = FirstUnclaimed(q)
  PROVE  \/ i = 0 /\ \A w \in ToSet(q) : resumed[w]
         \/ /\ i \in 1..Len(q) /\ ~resumed[q[i]]
            /\ \A j \in 1..Len(q) : j < i => resumed[q[j]]
<1> DEFINE I == {j \in 1..Len(q) : ~resumed[q[j]]}
<1>1. Len(q) \in Nat /\ I \in SUBSET Nat
  OBVIOUS
<1>2. i = IF I # {} THEN Min(I) ELSE 0
  BY DEF FirstUnclaimed, SelectInSeq
<1>3. CASE I = {}
  BY <1>2, <1>3 DEF ToSet
<1>4. CASE I # {}
  <2> HIDE DEF I
  <2>1. i \in I /\ \A j \in I : i <= j
    BY <1>1, <1>2, <1>4, MinIsLeast
  <2>2. \A j \in 1..Len(q) : j < i => j \notin I
    BY <1>1, <2>1
  <2> QED BY <2>1 DEF I
<1> QED BY <1>3, <1>4

(* What is left of a queue after the element at i has been popped.         *)
LEMMA RestOfQueue ==
  ASSUME NEW S, NEW s \in Seq(S), NEW i \in 1..Len(s), IsInjective(s)
  PROVE  LET rest == SubSeq(s, i + 1, Len(s)) IN
         /\ rest \in Seq(S) /\ IsInjective(rest) /\ ToSet(rest) \subseteq ToSet(s)
         /\ \A j \in 1..Len(s) : j > i => s[j] \in ToSet(rest)
<1> DEFINE rest == SubSeq(s, i + 1, Len(s))
<1>1. Len(s) \in Nat /\ DOMAIN s = 1..Len(s) /\ \A j, k \in DOMAIN s : s[j] = s[k] => j = k
  BY DEF IsInjective
<1>2. /\ rest \in Seq(S) /\ Len(rest) = Len(s) - i /\ DOMAIN rest = 1..(Len(s) - i)
      /\ \A j \in 1..(Len(s) - i) : rest[j] = s[i + j]
  <2>1. /\ i + 1 \in Int /\ Len(s) \in Int /\ i \in Nat /\ i <= Len(s)
        /\ \A j \in (i + 1)..Len(s) : s[j] \in S
    BY <1>1
  <2>2. /\ rest \in Seq(S)
        /\ Len(rest) = IF i + 1 <= Len(s) THEN Len(s) - (i + 1) + 1 ELSE 0
        /\ \A j \in 1..(Len(s) - (i + 1) + 1) : rest[j] = s[i + 1 + j - 1]
    BY <2>1
  <2> HIDE DEF rest
  <2>3. rest \in Seq(S) /\ Len(rest) = Len(s) - i
    BY <2>2
  <2>4. \A j \in 1..(Len(s) - i) : rest[j] = s[i + j]
    BY <2>2
  <2> QED BY <2>3, <2>4
<1> HIDE DEF rest
<1>3. \A j \in DOMAIN rest : i + j \in DOMAIN s
  BY <1>2
<1>4. IsInjective(rest)
  BY <1>1, <1>2, <1>3 DEF IsInjective
<1>5. ToSet(rest) \subseteq ToSet(s)
  BY <1>2, <1>3 DEF ToSet
<1>6. ASSUME NEW j \in 1..Len(s), j > i PROVE s[j] \in ToSet(rest)
  <2>1. j - i \in DOMAIN rest /\ i + (j - i) = j
    BY <1>2, <1>6
  <2>2. rest[j - i] = s[j]
    BY <1>2, <2>1
  <2> QED BY <2>1, <2>2 DEF ToSet
<1> QED BY <1>4, <1>5, <1>6 DEF rest

(* The address of a new waiter is one that nothing refers to.              *)
LEMMA NewAddressIsFree ==
  ASSUME FreeWaiters # {}
  PROVE  /\ NewAddress \in Waiters /\ NewAddress \notin ToSet(waiters)
         /\ \A n \in Notifiers : NewAddress \notin ToSet(claimed[n])
         /\ \A c \in Coros : /\ state[c] # NewAddress /\ callback[c] # NewAddress
                             /\ kcb[c] # NewAddress
  BY DEF NewAddress, FreeWaiters, AwaitReferences

-----------------------------------------------------------------------------
(* The invariant holds of a new condition variable.                        *)
LEMMA InvariantInit == Init => ConditionVariableInductive
<1> SUFFICES ASSUME Init PROVE ConditionVariableInductive
  OBVIOUS
<1> USE DEF Init, WaitInit
<1>1. WaitTypeOK(Points)
  BY DEF WaitTypeOK, Points, WaitPoints, CancelPoints, Phases
<1>2. <<>> \in Seq(Waiters) /\ <<>> \in Seq(Coros) /\ IsInjective(<<>>)
  BY DEF IsInjective
<1>3. TypeOK
  BY <1>1, <1>2 DEF TypeOK
<1>4. OwnerInv
  BY NullAssumption, ToSetEmpty DEF OwnerInv, HoldsMutexOnReturn
<1>5. OwnWaiterInv /\ PhaseInv /\ CancelInv /\ RelockInv /\ QueuedInv /\ WokenInv
  BY DEF OwnWaiterInv, PhaseInv, CancelInv, RelockInv, QueuedInv, WokenInv,
         WaitingPoints
<1>6. UnclaimedInv /\ ClaimInv
  BY <1>2, ToSetEmpty DEF UnclaimedInv, ClaimInv
<1> QED BY <1>3, <1>4, <1>5, <1>6 DEF ConditionVariableInductive

(* The invariant is inductive: one step per action (or branch of one), and *)
(* under it what the action changes (<2>0), then a step per part.          *)
LEMMA InvariantStep ==
  ASSUME ConditionVariableInductive, [Next]_vars
  PROVE  ConditionVariableInductive'
<1> USE DEF ConditionVariableInductive, TypeOK, WaitTypeOK
<1>1. ASSUME NEW c \in Coros, Lock(c), owner = NoCoro
      PROVE  ConditionVariableInductive'
  <2>0. /\ pc[c] = "idle"
        /\ owner = NoCoro /\ owner' = c
        /\ pc' = [pc EXCEPT ![c] = "resume"]
        /\ UNCHANGED <<state, withToken, immediate, handle, resumed,
             cancelled, phase, requested, callback, kpc, kcb, waiters, line,
             claimed, relock>>
    BY <1>1
       DEF Lock, LockAndResume, Goto, KGoto, lockVars, notifyVars, waitVars,
           awaiterVars, waiterVars, cancelVars
  <2>1. TypeOK'
    BY <2>0 DEF Points, WaitPoints
  <2>2. OwnerInv'
    BY <2>0, NullAssumption DEF OwnerInv, HoldsMutexOnReturn
  <2>3. OwnWaiterInv'
    BY <2>0 DEF OwnWaiterInv, WaitingPoints
  <2>4. PhaseInv'
    <3>1. state[c] = NoWaiter
      BY <2>0 DEF OwnWaiterInv, WaitingPoints
    <3> QED BY <2>0, <3>1 DEF PhaseInv
  <2>5. UnclaimedInv' /\ QueuedInv'
    BY <2>0 DEF UnclaimedInv, QueuedInv
  <2>6. CancelInv'
    BY <2>0 DEF CancelInv
  <2>7. ClaimInv'
    <3>0. state[c] = NoWaiter
      BY <2>0 DEF OwnWaiterInv, WaitingPoints
    <3>1. \A f \in Coros : Granted(f) => Granted(f)'
      BY <2>0 DEF Granted, CancelClaimed
    <3>2. \A m \in Notifiers : \A v \in ToSet(claimed[m]) : v \in Waiters /\ handle[v] # c
      BY <3>0 DEF ClaimInv, Granted
    <3> QED
      BY <2>0, <3>1, <3>2 DEF ClaimInv
  <2>8. RelockInv'
    BY <2>0 DEF RelockInv, Granted, CancelClaimed
  <2>10. WokenInv'
    <3>1. \A f \in Coros : /\ NotifyWakes(f) => NotifyWakes(f)'
                           /\ NotifyRelocks(f) => NotifyRelocks(f)'
                           /\ CancelWakes(f) => CancelWakes(f)'
      BY <2>0 DEF NotifyWakes, NotifyRelocks, CancelWakes
    <3> QED
      BY <2>0, <3>1 DEF WokenInv
  <2> QED BY <2>1, <2>2, <2>3, <2>4, <2>5, <2>6, <2>7, <2>8, <2>10
       DEF ConditionVariableInductive
<1>2. ASSUME NEW c \in Coros, Lock(c), owner # NoCoro
      PROVE  ConditionVariableInductive'
  <2>w. c \notin ToSet(line) /\ Append(line, c) \in Seq(Coros) /\ IsInjective(Append(line, c))
        /\ ToSet(Append(line, c)) = ToSet(line) \cup {c}
    BY <1>2, ToSetAppend, InjectiveAppend DEF OwnerInv, HoldsMutexOnReturn, Lock
  <2>0. /\ pc[c] = "idle"
        /\ owner # NoCoro
        /\ pc' = [pc EXCEPT ![c] = "locking"]
        /\ line' \in Seq(Coros) /\ IsInjective(line') /\ ToSet(line') = ToSet(line) \cup {c}
        /\ UNCHANGED <<state, withToken, immediate, handle, resumed,
             cancelled, phase, requested, callback, kpc, kcb, waiters, owner,
             claimed, relock>>
    BY <1>2, <2>w
       DEF Lock, LockAndResume, Goto, KGoto, lockVars, notifyVars, waitVars,
           awaiterVars, waiterVars, cancelVars
  <2>1. TypeOK'
    BY <2>0 DEF Points
  <2>2. OwnerInv'
    BY <2>0 DEF OwnerInv, HoldsMutexOnReturn
  <2>3. OwnWaiterInv'
    BY <2>0 DEF OwnWaiterInv, WaitingPoints
  <2>4. PhaseInv'
    <3>1. state[c] = NoWaiter
      BY <2>0 DEF OwnWaiterInv, WaitingPoints
    <3> QED BY <2>0, <3>1 DEF PhaseInv
  <2>5. UnclaimedInv' /\ QueuedInv'
    BY <2>0 DEF UnclaimedInv, QueuedInv
  <2>6. CancelInv'
    BY <2>0 DEF CancelInv
  <2>7. ClaimInv'
    <3>0. state[c] = NoWaiter
      BY <2>0 DEF OwnWaiterInv, WaitingPoints
    <3>1. \A f \in Coros : Granted(f) => Granted(f)'
      BY <2>0 DEF Granted, CancelClaimed
    <3>2. \A m \in Notifiers : \A v \in ToSet(claimed[m]) : v \in Waiters /\ handle[v] # c
      BY <3>0 DEF ClaimInv, Granted
    <3> QED
      BY <2>0, <3>1, <3>2 DEF ClaimInv
  <2>8. RelockInv'
    BY <2>0 DEF RelockInv, Granted, CancelClaimed
  <2>10. WokenInv'
    <3>1. \A f \in Coros : /\ NotifyWakes(f) => NotifyWakes(f)'
                           /\ NotifyRelocks(f) => NotifyRelocks(f)'
                           /\ CancelWakes(f) => CancelWakes(f)'
      BY <2>0 DEF NotifyWakes, NotifyRelocks, CancelWakes
    <3> QED
      BY <2>0, <3>1 DEF WokenInv
  <2> QED BY <2>1, <2>2, <2>3, <2>4, <2>5, <2>6, <2>7, <2>8, <2>10
       DEF ConditionVariableInductive
<1>3. ASSUME NEW c \in Coros, Release(c), line = <<>>
      PROVE  ConditionVariableInductive'
  <2>0. /\ pc[c] = "holding" /\ owner = c
        /\ owner' = NoCoro
        /\ pc' = [pc EXCEPT ![c] = "idle"]
        /\ UNCHANGED <<state, withToken, immediate, handle, resumed,
             cancelled, phase, requested, callback, kpc, kcb, waiters, line,
             claimed, relock>>
    BY <1>3
       DEF Release, Unlock, OwnerInv, HoldsMutexOnReturn, Goto, KGoto, lockVars,
           notifyVars, waitVars, awaiterVars, waiterVars, cancelVars
  <2>1. TypeOK'
    BY <2>0 DEF Points, WaitPoints
  <2>2. OwnerInv'
    BY <2>0, NullAssumption DEF OwnerInv, HoldsMutexOnReturn
  <2>3. OwnWaiterInv'
    BY <2>0 DEF OwnWaiterInv, WaitingPoints
  <2>4. PhaseInv'
    BY <2>0 DEF PhaseInv
  <2>5. UnclaimedInv' /\ QueuedInv'
    BY <2>0 DEF UnclaimedInv, QueuedInv
  <2>6. CancelInv'
    BY <2>0 DEF CancelInv
  <2>7. ClaimInv'
    BY <2>0 DEF ClaimInv, Granted, CancelClaimed
  <2>8. RelockInv'
    BY <2>0 DEF RelockInv, Granted, CancelClaimed
  <2>10. WokenInv'
    <3>1. \A f \in Coros : /\ NotifyWakes(f) => NotifyWakes(f)'
                           /\ NotifyRelocks(f) => NotifyRelocks(f)'
                           /\ CancelWakes(f) => CancelWakes(f)'
      BY <2>0 DEF NotifyWakes, NotifyRelocks, CancelWakes
    <3> QED
      BY <2>0, <3>1 DEF WokenInv
  <2> QED BY <2>1, <2>2, <2>3, <2>4, <2>5, <2>6, <2>7, <2>8, <2>10
       DEF ConditionVariableInductive
<1>4. ASSUME NEW c \in Coros, Release(c), line # <<>>
      PROVE  ConditionVariableInductive'
  <2> DEFINE d == Head(line)
  <2>w. /\ d \in Coros /\ d \in ToSet(line) /\ pc[d] = "locking" /\ d # c
        /\ Tail(line) \in Seq(Coros) /\ IsInjective(Tail(line))
        /\ d \notin ToSet(Tail(line))
        /\ ToSet(line) = ToSet(Tail(line)) \cup {d}
    BY <1>4, ToSetTail, InjectiveTail DEF OwnerInv, HoldsMutexOnReturn, Release
  <2>0. /\ pc[c] = "holding" /\ owner = c
        /\ owner' = d
        /\ pc' = [pc EXCEPT ![c] = "idle", ![d] = "resume"]
        /\ line' \in Seq(Coros) /\ IsInjective(line')
        /\ ToSet(line) = ToSet(line') \cup {d} /\ d \notin ToSet(line')
        /\ UNCHANGED <<state, withToken, immediate, handle, resumed,
             cancelled, phase, requested, callback, kpc, kcb, waiters,
             claimed, relock>>
    BY <1>4, <2>w
       DEF Release, Unlock, OwnerInv, HoldsMutexOnReturn, notifyVars, awaiterVars,
           waiterVars, cancelVars
  <2> HIDE DEF d
  <2>1. TypeOK'
    BY <2>w, <2>0 DEF Points, WaitPoints
  <2>2. OwnerInv'
    BY <2>0 DEF OwnerInv, HoldsMutexOnReturn
  <2>3. OwnWaiterInv'
    BY <2>0 DEF OwnWaiterInv, WaitingPoints
  <2>4. PhaseInv'
    BY <2>w, <2>0 DEF PhaseInv
  <2>5. UnclaimedInv' /\ QueuedInv'
    BY <2>0 DEF UnclaimedInv, QueuedInv
  <2>6. CancelInv'
    BY <2>w, <2>0 DEF CancelInv
  <2>7. ClaimInv'
    BY <2>w, <2>0 DEF ClaimInv, Granted, CancelClaimed
  <2>8. RelockInv'
    BY <2>w, <2>0 DEF RelockInv, Granted, CancelClaimed
  <2>10. WokenInv'
    <3>1. \A f \in Coros : /\ NotifyWakes(f) => NotifyWakes(f)'
                           /\ NotifyRelocks(f) => NotifyRelocks(f)'
                           /\ CancelWakes(f) => CancelWakes(f)'
      BY <2>0 DEF NotifyWakes, NotifyRelocks, CancelWakes
    <3> QED
      BY <2>0, <3>1 DEF WokenInv
  <2> QED BY <2>1, <2>2, <2>3, <2>4, <2>5, <2>6, <2>7, <2>8, <2>10
       DEF ConditionVariableInductive
<1>5. ASSUME NEW c \in Coros, WaitUnlock(c), line = <<>>
      PROVE  ConditionVariableInductive'
  <2>0. /\ pc[c] \in {"register", "mark"} /\ owner = c
        /\ owner' = NoCoro
        /\ UNCHANGED <<pc, state, withToken, immediate, handle, resumed,
             cancelled, phase, requested, callback, kpc, kcb, waiters, line,
             claimed, relock>>
    BY <1>5
       DEF WaitUnlock, Unlock, Goto, KGoto, lockVars, notifyVars, waitVars,
           awaiterVars, waiterVars, cancelVars
  <2>1. TypeOK'
    BY <2>0
  <2>2. OwnerInv'
    BY <2>0, NullAssumption DEF OwnerInv, HoldsMutexOnReturn
  <2>3. /\ OwnWaiterInv' /\ PhaseInv' /\ UnclaimedInv' /\ CancelInv'
        /\ ClaimInv' /\ RelockInv' /\ QueuedInv' /\ WokenInv'
    BY <2>0
       DEF OwnWaiterInv, PhaseInv, UnclaimedInv, CancelInv, ClaimInv, Granted,
           CancelClaimed, RelockInv, QueuedInv, WokenInv, NotifyWakes,
           NotifyRelocks, CancelWakes
  <2> QED BY <2>1, <2>2, <2>3 DEF ConditionVariableInductive
<1>6. ASSUME NEW c \in Coros, WaitUnlock(c), line # <<>>
      PROVE  ConditionVariableInductive'
  <2> DEFINE d == Head(line)
  <2>w. /\ d \in Coros /\ d \in ToSet(line) /\ pc[d] = "locking" /\ d # c
        /\ Tail(line) \in Seq(Coros) /\ IsInjective(Tail(line))
        /\ d \notin ToSet(Tail(line))
        /\ ToSet(line) = ToSet(Tail(line)) \cup {d}
    BY <1>6, ToSetTail, InjectiveTail DEF OwnerInv, HoldsMutexOnReturn, WaitUnlock
  <2>0. /\ pc[c] \in {"register", "mark"} /\ owner = c
        /\ owner' = d
        /\ pc' = [pc EXCEPT ![d] = "resume"]
        /\ line' \in Seq(Coros) /\ IsInjective(line')
        /\ ToSet(line) = ToSet(line') \cup {d} /\ d \notin ToSet(line')
        /\ UNCHANGED <<state, withToken, immediate, handle, resumed,
             cancelled, phase, requested, callback, kpc, kcb, waiters,
             claimed, relock>>
    BY <1>6, <2>w
       DEF WaitUnlock, Unlock, notifyVars, awaiterVars, waiterVars, cancelVars
  <2> HIDE DEF d
  <2>1. TypeOK'
    BY <2>w, <2>0 DEF Points, WaitPoints
  <2>2. OwnerInv'
    BY <2>0 DEF OwnerInv, HoldsMutexOnReturn
  <2>3. OwnWaiterInv'
    BY <2>0 DEF OwnWaiterInv, WaitingPoints
  <2>4. PhaseInv'
    BY <2>w, <2>0 DEF PhaseInv
  <2>5. UnclaimedInv' /\ QueuedInv'
    BY <2>0 DEF UnclaimedInv, QueuedInv
  <2>6. CancelInv'
    BY <2>w, <2>0 DEF CancelInv
  <2>7. ClaimInv'
    BY <2>w, <2>0 DEF ClaimInv, Granted, CancelClaimed
  <2>8. RelockInv'
    BY <2>w, <2>0 DEF RelockInv, Granted, CancelClaimed
  <2>10. WokenInv'
    <3>1. \A f \in Coros : /\ NotifyWakes(f) => NotifyWakes(f)'
                           /\ NotifyRelocks(f) => NotifyRelocks(f)'
                           /\ CancelWakes(f) => CancelWakes(f)'
      BY <2>0 DEF NotifyWakes, NotifyRelocks, CancelWakes
    <3> QED
      BY <2>0, <3>1 DEF WokenInv
  <2> QED BY <2>1, <2>2, <2>3, <2>4, <2>5, <2>6, <2>7, <2>8, <2>10
       DEF ConditionVariableInductive
<1>7. ASSUME NEW c \in Coros, Wait(c)
      PROVE  ConditionVariableInductive'
  <2>0. /\ pc[c] = "holding" /\ pc' = [pc EXCEPT ![c] = "ready"]
        /\ withToken' \in [Coros -> BOOLEAN]
        /\ UNCHANGED <<state, immediate, handle, resumed, cancelled, phase,
             requested, callback, kpc, kcb, waiters, owner, line, claimed,
             relock>>
    BY <1>7
       DEF Wait, Goto, KGoto, lockVars, notifyVars, waitVars, awaiterVars,
           waiterVars, cancelVars
  <2>1. TypeOK'
    BY <2>0 DEF Points, WaitPoints
  <2>2. OwnerInv'
    BY <2>0 DEF OwnerInv, HoldsMutexOnReturn
  <2>3. OwnWaiterInv'
    BY <2>0 DEF OwnWaiterInv, WaitingPoints
  <2>4. PhaseInv'
    BY <2>0 DEF PhaseInv
  <2>5. UnclaimedInv' /\ QueuedInv'
    BY <2>0 DEF UnclaimedInv, QueuedInv
  <2>6. CancelInv'
    BY <2>0 DEF CancelInv
  <2>7. ClaimInv'
    BY <2>0 DEF ClaimInv, Granted, CancelClaimed
  <2>8. RelockInv'
    BY <2>0 DEF RelockInv, Granted, CancelClaimed
  <2>10. WokenInv'
    <3>1. \A f \in Coros : /\ NotifyWakes(f) => NotifyWakes(f)'
                           /\ NotifyRelocks(f) => NotifyRelocks(f)'
                           /\ CancelWakes(f) => CancelWakes(f)'
      BY <2>0 DEF NotifyWakes, NotifyRelocks, CancelWakes
    <3> QED
      BY <2>0, <3>1 DEF WokenInv
  <2> QED BY <2>1, <2>2, <2>3, <2>4, <2>5, <2>6, <2>7, <2>8, <2>10
       DEF ConditionVariableInductive
<1>8. ASSUME NEW c \in Coros, CheckToken(c, "ready", "suspend"), TokenCancelled(c),
             UNCHANGED <<waiters, lockVars, notifyVars>>
      PROVE  ConditionVariableInductive'
  <2>0. /\ pc[c] = "ready" /\ pc' = [pc EXCEPT ![c] = "resume"]
        /\ immediate' = [immediate EXCEPT ![c] = TRUE]
        /\ UNCHANGED <<state, withToken, handle, resumed, cancelled, phase,
             requested, callback, kpc, kcb, waiters, owner, line, claimed,
             relock>>
    BY <1>8
       DEF CheckToken, Goto, KGoto, lockVars, notifyVars, waitVars, awaiterVars,
           waiterVars, cancelVars
  <2>1. TypeOK'
    BY <2>0 DEF Points, WaitPoints
  <2>2. OwnerInv'
    BY <2>0 DEF OwnerInv, HoldsMutexOnReturn
  <2>3. OwnWaiterInv'
    BY <2>0 DEF OwnWaiterInv, WaitingPoints
  <2>4. PhaseInv'
    <3>1. state[c] = NoWaiter
      BY <2>0 DEF OwnWaiterInv, WaitingPoints
    <3> QED BY <2>0, <3>1 DEF PhaseInv
  <2>5. UnclaimedInv' /\ QueuedInv'
    BY <2>0 DEF UnclaimedInv, QueuedInv
  <2>6. CancelInv'
    BY <2>0 DEF CancelInv
  <2>7. ClaimInv'
    <3>0. state[c] = NoWaiter
      BY <2>0 DEF OwnWaiterInv, WaitingPoints
    <3>1. \A f \in Coros : Granted(f) => Granted(f)'
      BY <2>0 DEF Granted, CancelClaimed
    <3>2. \A m \in Notifiers : \A v \in ToSet(claimed[m]) : v \in Waiters /\ handle[v] # c
      BY <3>0 DEF ClaimInv, Granted
    <3> QED
      BY <2>0, <3>1, <3>2 DEF ClaimInv
  <2>8. RelockInv'
    BY <2>0 DEF RelockInv, Granted, CancelClaimed
  <2>10. WokenInv'
    <3>1. \A f \in Coros : /\ NotifyWakes(f) => NotifyWakes(f)'
                           /\ NotifyRelocks(f) => NotifyRelocks(f)'
                           /\ CancelWakes(f) => CancelWakes(f)'
      BY <2>0 DEF NotifyWakes, NotifyRelocks, CancelWakes
    <3> QED
      BY <2>0, <3>1 DEF WokenInv
  <2> QED BY <2>1, <2>2, <2>3, <2>4, <2>5, <2>6, <2>7, <2>8, <2>10
       DEF ConditionVariableInductive
<1>9. ASSUME NEW c \in Coros, CheckToken(c, "ready", "suspend"), ~TokenCancelled(c),
             UNCHANGED <<waiters, lockVars, notifyVars>>
      PROVE  ConditionVariableInductive'
  <2>0. /\ pc[c] = "ready" /\ pc' = [pc EXCEPT ![c] = "suspend"]
        /\ immediate' = [immediate EXCEPT ![c] = FALSE]
        /\ UNCHANGED <<state, withToken, handle, resumed, cancelled, phase,
             requested, callback, kpc, kcb, waiters, owner, line, claimed,
             relock>>
    BY <1>9
       DEF CheckToken, TokenCancelled, Goto, KGoto, lockVars, notifyVars, waitVars,
           awaiterVars, waiterVars, cancelVars
  <2>1. TypeOK'
    BY <2>0 DEF Points, WaitPoints
  <2>2. OwnerInv'
    BY <2>0 DEF OwnerInv, HoldsMutexOnReturn
  <2>3. OwnWaiterInv'
    BY <2>0 DEF OwnWaiterInv, WaitingPoints
  <2>4. PhaseInv'
    <3>1. state[c] = NoWaiter
      BY <2>0 DEF OwnWaiterInv, WaitingPoints
    <3> QED BY <2>0 DEF PhaseInv
  <2>5. UnclaimedInv' /\ QueuedInv'
    BY <2>0 DEF UnclaimedInv, QueuedInv
  <2>6. CancelInv'
    BY <2>0 DEF CancelInv
  <2>7. ClaimInv'
    <3>0. state[c] = NoWaiter
      BY <2>0 DEF OwnWaiterInv, WaitingPoints
    <3>1. \A f \in Coros : Granted(f) => Granted(f)'
      BY <2>0 DEF Granted, CancelClaimed
    <3>2. \A m \in Notifiers : \A v \in ToSet(claimed[m]) : v \in Waiters /\ handle[v] # c
      BY <3>0 DEF ClaimInv, Granted
    <3> QED
      BY <2>0, <3>1 DEF ClaimInv
  <2>8. RelockInv'
    BY <2>0 DEF RelockInv, Granted, CancelClaimed
  <2>10. WokenInv'
    <3>1. \A f \in Coros : /\ NotifyWakes(f) => NotifyWakes(f)'
                           /\ NotifyRelocks(f) => NotifyRelocks(f)'
                           /\ CancelWakes(f) => CancelWakes(f)'
      BY <2>0 DEF NotifyWakes, NotifyRelocks, CancelWakes
    <3> QED
      BY <2>0, <3>1 DEF WokenInv
  <2> QED BY <2>1, <2>2, <2>3, <2>4, <2>5, <2>6, <2>7, <2>8, <2>10
       DEF ConditionVariableInductive
<1>10. ASSUME NEW c \in Coros, CheckToken(c, "suspend", "enqueue"), TokenCancelled(c),
             UNCHANGED <<waiters, lockVars, notifyVars>>
      PROVE  ConditionVariableInductive'
  <2>0. /\ pc[c] = "suspend" /\ pc' = [pc EXCEPT ![c] = "resume"]
        /\ immediate' = [immediate EXCEPT ![c] = TRUE]
        /\ UNCHANGED <<state, withToken, handle, resumed, cancelled, phase,
             requested, callback, kpc, kcb, waiters, owner, line, claimed,
             relock>>
    BY <1>10
       DEF CheckToken, Goto, KGoto, lockVars, notifyVars, waitVars, awaiterVars,
           waiterVars, cancelVars
  <2>1. TypeOK'
    BY <2>0 DEF Points, WaitPoints
  <2>2. OwnerInv'
    BY <2>0 DEF OwnerInv, HoldsMutexOnReturn
  <2>3. OwnWaiterInv'
    BY <2>0 DEF OwnWaiterInv, WaitingPoints
  <2>4. PhaseInv'
    <3>1. state[c] = NoWaiter
      BY <2>0 DEF OwnWaiterInv, WaitingPoints
    <3> QED BY <2>0, <3>1 DEF PhaseInv
  <2>5. UnclaimedInv' /\ QueuedInv'
    BY <2>0 DEF UnclaimedInv, QueuedInv
  <2>6. CancelInv'
    BY <2>0 DEF CancelInv
  <2>7. ClaimInv'
    <3>0. state[c] = NoWaiter
      BY <2>0 DEF OwnWaiterInv, WaitingPoints
    <3>1. \A f \in Coros : Granted(f) => Granted(f)'
      BY <2>0 DEF Granted, CancelClaimed
    <3>2. \A m \in Notifiers : \A v \in ToSet(claimed[m]) : v \in Waiters /\ handle[v] # c
      BY <3>0 DEF ClaimInv, Granted
    <3> QED
      BY <2>0, <3>1, <3>2 DEF ClaimInv
  <2>8. RelockInv'
    BY <2>0 DEF RelockInv, Granted, CancelClaimed
  <2>10. WokenInv'
    <3>1. \A f \in Coros : /\ NotifyWakes(f) => NotifyWakes(f)'
                           /\ NotifyRelocks(f) => NotifyRelocks(f)'
                           /\ CancelWakes(f) => CancelWakes(f)'
      BY <2>0 DEF NotifyWakes, NotifyRelocks, CancelWakes
    <3> QED
      BY <2>0, <3>1 DEF WokenInv
  <2> QED BY <2>1, <2>2, <2>3, <2>4, <2>5, <2>6, <2>7, <2>8, <2>10
       DEF ConditionVariableInductive
<1>11. ASSUME NEW c \in Coros, CheckToken(c, "suspend", "enqueue"), ~TokenCancelled(c),
             UNCHANGED <<waiters, lockVars, notifyVars>>
      PROVE  ConditionVariableInductive'
  <2>0. /\ pc[c] = "suspend" /\ pc' = [pc EXCEPT ![c] = "enqueue"]
        /\ immediate' = [immediate EXCEPT ![c] = FALSE]
        /\ UNCHANGED <<state, withToken, handle, resumed, cancelled, phase,
             requested, callback, kpc, kcb, waiters, owner, line, claimed,
             relock>>
    BY <1>11
       DEF CheckToken, TokenCancelled, Goto, KGoto, lockVars, notifyVars, waitVars,
           awaiterVars, waiterVars, cancelVars
  <2>1. TypeOK'
    BY <2>0 DEF Points, WaitPoints
  <2>2. OwnerInv'
    BY <2>0 DEF OwnerInv, HoldsMutexOnReturn
  <2>3. OwnWaiterInv'
    BY <2>0 DEF OwnWaiterInv, WaitingPoints
  <2>4. PhaseInv'
    <3>1. state[c] = NoWaiter
      BY <2>0 DEF OwnWaiterInv, WaitingPoints
    <3> QED BY <2>0 DEF PhaseInv
  <2>5. UnclaimedInv' /\ QueuedInv'
    BY <2>0 DEF UnclaimedInv, QueuedInv
  <2>6. CancelInv'
    BY <2>0 DEF CancelInv
  <2>7. ClaimInv'
    <3>0. state[c] = NoWaiter
      BY <2>0 DEF OwnWaiterInv, WaitingPoints
    <3>1. \A f \in Coros : Granted(f) => Granted(f)'
      BY <2>0 DEF Granted, CancelClaimed
    <3>2. \A m \in Notifiers : \A v \in ToSet(claimed[m]) : v \in Waiters /\ handle[v] # c
      BY <3>0 DEF ClaimInv, Granted
    <3> QED
      BY <2>0, <3>1 DEF ClaimInv
  <2>8. RelockInv'
    BY <2>0 DEF RelockInv, Granted, CancelClaimed
  <2>10. WokenInv'
    <3>1. \A f \in Coros : /\ NotifyWakes(f) => NotifyWakes(f)'
                           /\ NotifyRelocks(f) => NotifyRelocks(f)'
                           /\ CancelWakes(f) => CancelWakes(f)'
      BY <2>0 DEF NotifyWakes, NotifyRelocks, CancelWakes
    <3> QED
      BY <2>0, <3>1 DEF WokenInv
  <2> QED BY <2>1, <2>2, <2>3, <2>4, <2>5, <2>6, <2>7, <2>8, <2>10
       DEF ConditionVariableInductive
<1>12. ASSUME NEW c \in Coros, EnqueueWaiter(c)
      PROVE  ConditionVariableInductive'
  <2> DEFINE w == NewAddress
  <2>w. /\ w \in Waiters /\ w \notin ToSet(waiters) /\ state[c] = NoWaiter
        /\ \A n \in Notifiers : w \notin ToSet(claimed[n])
        /\ \A e \in Coros : state[e] # w /\ callback[e] # w /\ kcb[e] # w
    BY <1>12, NewAddressIsFree DEF EnqueueWaiter, OwnWaiterInv, WaitingPoints
  <2>0. /\ pc[c] = "enqueue"
        /\ pc' = [pc EXCEPT ![c] = IF withToken[c] THEN "register" ELSE "mark"]
        /\ state' = [state EXCEPT ![c] = w]
        /\ handle' = [handle EXCEPT ![w] = c]
        /\ resumed' = [resumed EXCEPT ![w] = FALSE]
        /\ cancelled' = [cancelled EXCEPT ![w] = FALSE]
        /\ phase' = [phase EXCEPT ![w] = "waiting_await_suspend"]
        /\ waiters' \in Seq(Waiters) /\ IsInjective(waiters')
        /\ ToSet(waiters') = ToSet(waiters) \cup {w}
        /\ UNCHANGED <<withToken, immediate, requested, callback, kpc, kcb,
             owner, line, claimed, relock>>
    <3>1. /\ Append(waiters, w) \in Seq(Waiters) /\ IsInjective(Append(waiters, w))
          /\ ToSet(Append(waiters, w)) = ToSet(waiters) \cup {w}
      BY <2>w, ToSetAppend, InjectiveAppend DEF UnclaimedInv
    <3>2. NewWaiter(c, w) /\ waiters' = Append(waiters, w) /\ pc[c] = "enqueue"
          /\ UNCHANGED <<lockVars, notifyVars>>
      BY <1>12 DEF EnqueueWaiter
    <3> HIDE DEF w
    <3> QED BY <3>1, <3>2 DEF NewWaiter, lockVars, notifyVars, cancelVars, Goto
  <2> HIDE DEF w
  <2>1. TypeOK'
    BY <2>w, <2>0 DEF Points, WaitPoints, Phases
  <2>2. OwnerInv'
    BY <2>0 DEF OwnerInv, HoldsMutexOnReturn
  <2>3. OwnWaiterInv'
    BY <2>w, <2>0 DEF OwnWaiterInv, WaitingPoints
  <2>4. PhaseInv'
    BY <2>w, <2>0 DEF PhaseInv
  <2>5. UnclaimedInv'
    BY <2>w, <2>0, NullAssumption, ToSetType DEF UnclaimedInv
  <2>6. CancelInv'
    BY <2>w, <2>0 DEF CancelInv
  <2>7. ClaimInv'
    BY <2>w, <2>0 DEF ClaimInv, Granted, CancelClaimed
  <2>8. RelockInv'
    BY <2>w, <2>0 DEF RelockInv, Granted, CancelClaimed
  <2>9. QueuedInv'
    BY <2>0 DEF QueuedInv
  <2>10. WokenInv'
    <3>1. \A f \in Coros \ {c} : /\ NotifyWakes(f) => NotifyWakes(f)'
                                 /\ NotifyRelocks(f) => NotifyRelocks(f)'
                                 /\ CancelWakes(f) => CancelWakes(f)'
      BY <2>0 DEF NotifyWakes, NotifyRelocks, CancelWakes
    <3> QED
      BY <2>w, <2>0, <3>1 DEF WokenInv
  <2> QED
    BY <2>1, <2>2, <2>3, <2>4, <2>5, <2>6, <2>7, <2>8, <2>9, <2>10
       DEF ConditionVariableInductive
<1>13. ASSUME NEW c \in Coros, Register(c), requested[c], owner # c,
             UNCHANGED <<waiters, lockVars, notifyVars>>
      PROVE  ConditionVariableInductive'
  <2>0. /\ pc[c] = "register" /\ owner # c /\ pc' = [pc EXCEPT ![c] = "cb_mark"]
        /\ UNCHANGED <<state, withToken, immediate, handle, resumed,
             cancelled, phase, requested, callback, kpc, kcb, waiters, owner,
             line, claimed, relock>>
    BY <1>13
       DEF Register, Goto, KGoto, lockVars, notifyVars, waitVars, awaiterVars,
           waiterVars, cancelVars
  <2>1. TypeOK'
    BY <2>0 DEF Points, WaitPoints
  <2>2. OwnerInv'
    BY <2>0 DEF OwnerInv, HoldsMutexOnReturn
  <2>3. OwnWaiterInv'
    BY <2>0 DEF OwnWaiterInv, WaitingPoints
  <2>4. PhaseInv'
    BY <2>0 DEF PhaseInv
  <2>5. UnclaimedInv' /\ QueuedInv'
    BY <2>0 DEF UnclaimedInv, QueuedInv
  <2>6. CancelInv'
    BY <2>0 DEF CancelInv
  <2>7. ClaimInv'
    BY <2>0 DEF ClaimInv, Granted, CancelClaimed
  <2>8. RelockInv'
    BY <2>0 DEF RelockInv, Granted, CancelClaimed
  <2>10. WokenInv'
    <3>1. \A f \in Coros : /\ NotifyWakes(f) => NotifyWakes(f)'
                           /\ NotifyRelocks(f) => NotifyRelocks(f)'
                           /\ CancelWakes(f) => CancelWakes(f)'
      BY <2>0 DEF NotifyWakes, NotifyRelocks, CancelWakes
    <3> QED
      BY <2>0, <3>1 DEF WokenInv
  <2> QED BY <2>1, <2>2, <2>3, <2>4, <2>5, <2>6, <2>7, <2>8, <2>10
       DEF ConditionVariableInductive
<1>14. ASSUME NEW c \in Coros, Register(c), ~requested[c], owner # c,
             UNCHANGED <<waiters, lockVars, notifyVars>>
      PROVE  ConditionVariableInductive'
  <2>0. /\ pc[c] = "register" /\ owner # c /\ pc' = [pc EXCEPT ![c] = "mark"]
        /\ callback' = [callback EXCEPT ![c] = state[c]]
        /\ UNCHANGED <<state, withToken, immediate, handle, resumed,
             cancelled, phase, requested, kpc, kcb, waiters, owner, line,
             claimed, relock>>
    BY <1>14
       DEF Register, Goto, KGoto, lockVars, notifyVars, waitVars, awaiterVars,
           waiterVars, cancelVars
  <2>1. TypeOK'
    BY <2>0 DEF Points, WaitPoints
  <2>2. OwnerInv'
    BY <2>0 DEF OwnerInv, HoldsMutexOnReturn
  <2>3. OwnWaiterInv'
    BY <2>0 DEF OwnWaiterInv, WaitingPoints
  <2>4. PhaseInv'
    BY <2>0 DEF PhaseInv
  <2>5. UnclaimedInv'
    BY <2>0 DEF UnclaimedInv
  <2>6. CancelInv'
    BY <2>0 DEF CancelInv
  <2>7. ClaimInv'
    BY <2>0 DEF ClaimInv, Granted, CancelClaimed
  <2>8. RelockInv'
    BY <2>0 DEF RelockInv, Granted, CancelClaimed
  <2>9. QueuedInv'
    BY <2>0 DEF QueuedInv
  <2>10. WokenInv'
    <3>1. \A f \in Coros : /\ NotifyWakes(f) => NotifyWakes(f)'
                           /\ NotifyRelocks(f) => NotifyRelocks(f)'
                           /\ CancelWakes(f) => CancelWakes(f)'
      BY <2>0 DEF NotifyWakes, NotifyRelocks, CancelWakes
    <3> QED
      BY <2>0, <3>1 DEF WokenInv
  <2> QED BY <2>1, <2>2, <2>3, <2>4, <2>5, <2>6, <2>7, <2>8, <2>9, <2>10
       DEF ConditionVariableInductive
<1>15. ASSUME NEW c \in Coros, InlineCallback(c), pc[c] = "cb_mark", owner # c,
             UNCHANGED <<waiters, lockVars, notifyVars>>
      PROVE  ConditionVariableInductive'
  <2>0. /\ pc[c] = "cb_mark" /\ owner # c
        /\ pc' = [pc EXCEPT ![c] = IF resumed[state[c]] THEN "mark" ELSE "cb_store"]
        /\ resumed' = [resumed EXCEPT ![state[c]] = TRUE]
        /\ UNCHANGED <<state, withToken, immediate, handle, cancelled, phase,
             requested, callback, kpc, kcb, waiters, owner, line, claimed,
             relock>>
    BY <1>15
       DEF InlineCallback, MarkResumed, Goto, KGoto, lockVars, notifyVars, waitVars,
           awaiterVars, waiterVars, cancelVars
  <2>1. TypeOK'
    BY <2>0 DEF Points, WaitPoints
  <2>2. OwnerInv'
    BY <2>0 DEF OwnerInv, HoldsMutexOnReturn
  <2>3. OwnWaiterInv'
    BY <2>0 DEF OwnWaiterInv, WaitingPoints
  <2>4. PhaseInv'
    BY <2>0 DEF PhaseInv
  <2>5. UnclaimedInv'
    BY <2>0 DEF UnclaimedInv
  <2>6. CancelInv'
    BY <2>0 DEF CancelInv, OwnWaiterInv, PhaseInv, Phases, WaitingPoints
  <2>7. ClaimInv'
    BY <2>0 DEF ClaimInv, Granted, CancelClaimed
  <2>8. RelockInv'
    BY <2>0 DEF RelockInv, Granted, CancelClaimed
  <2>9. QueuedInv'
    BY <2>0 DEF QueuedInv
  <2>10. WokenInv'
    <3>1. \A f \in Coros : /\ NotifyWakes(f) => NotifyWakes(f)'
                           /\ NotifyRelocks(f) => NotifyRelocks(f)'
                           /\ CancelWakes(f) => CancelWakes(f)'
      BY <2>0 DEF NotifyWakes, NotifyRelocks, CancelWakes
    <3> QED
      BY <2>0, <3>1 DEF WokenInv, OwnWaiterInv
  <2> QED
    BY <2>1, <2>2, <2>3, <2>4, <2>5, <2>6, <2>7, <2>8, <2>9, <2>10
       DEF ConditionVariableInductive
<1>16. ASSUME NEW c \in Coros, InlineCallback(c), pc[c] = "cb_store", owner # c,
             UNCHANGED <<waiters, lockVars, notifyVars>>
      PROVE  ConditionVariableInductive'
  <2>0. /\ pc[c] = "cb_store" /\ owner # c /\ pc' = [pc EXCEPT ![c] = "cb_wake"]
        /\ cancelled' = [cancelled EXCEPT ![state[c]] = TRUE]
        /\ UNCHANGED <<state, withToken, immediate, handle, resumed, phase,
             requested, callback, kpc, kcb, waiters, owner, line, claimed,
             relock>>
    BY <1>16
       DEF InlineCallback, Goto, KGoto, lockVars, notifyVars, waitVars, awaiterVars,
           waiterVars, cancelVars
  <2>1. TypeOK'
    BY <2>0 DEF Points, WaitPoints
  <2>2. OwnerInv'
    BY <2>0 DEF OwnerInv, HoldsMutexOnReturn
  <2>3. OwnWaiterInv'
    BY <2>0 DEF OwnWaiterInv, WaitingPoints
  <2>4. PhaseInv'
    BY <2>0 DEF PhaseInv, CancelInv
  <2>5. UnclaimedInv' /\ QueuedInv'
    BY <2>0 DEF UnclaimedInv, QueuedInv
  <2>6. CancelInv'
    BY <2>0 DEF CancelInv, OwnWaiterInv, WaitingPoints
  <2>7. ClaimInv'
    BY <2>0 DEF ClaimInv, OwnWaiterInv, Granted, CancelClaimed
  <2>8. RelockInv'
    BY <2>0 DEF RelockInv, PhaseInv, CancelInv, Granted, CancelClaimed
  <2>10. WokenInv'
    <3>1. \A f \in Coros : /\ NotifyWakes(f) => NotifyWakes(f)'
                           /\ NotifyRelocks(f) => NotifyRelocks(f)'
                           /\ CancelWakes(f) => CancelWakes(f)'
      BY <2>0 DEF NotifyWakes, NotifyRelocks, CancelWakes
    <3> QED
      BY <2>0, <3>1 DEF WokenInv
  <2> QED BY <2>1, <2>2, <2>3, <2>4, <2>5, <2>6, <2>7, <2>8, <2>10
       DEF ConditionVariableInductive
<1>17. ASSUME NEW c \in Coros, InlineCallback(c), pc[c] = "cb_wake", owner # c,
             UNCHANGED <<waiters, lockVars, notifyVars>>
      PROVE  ConditionVariableInductive'
  <2>0. /\ pc[c] = "cb_wake" /\ owner # c /\ pc' = [pc EXCEPT ![c] = "mark"]
        /\ phase' = [phase EXCEPT ![state[c]] = "wake_requested"]
        /\ UNCHANGED <<state, withToken, immediate, handle, resumed,
             cancelled, requested, callback, kpc, kcb, waiters, owner, line,
             claimed, relock>>
    BY <1>17
       DEF InlineCallback, RequestWake, CancelInv, Goto, KGoto, lockVars,
           notifyVars, waitVars, awaiterVars, waiterVars, cancelVars
  <2>1. TypeOK'
    BY <2>0 DEF Points, WaitPoints, Phases
  <2>2. OwnerInv'
    BY <2>0 DEF OwnerInv, HoldsMutexOnReturn
  <2>3. OwnWaiterInv'
    BY <2>0 DEF OwnWaiterInv, WaitingPoints
  <2>4. PhaseInv'
    BY <2>0 DEF PhaseInv, CancelInv
  <2>5. UnclaimedInv' /\ QueuedInv'
    BY <2>0 DEF UnclaimedInv, QueuedInv
  <2>6. CancelInv'
    BY <2>0 DEF CancelInv, OwnWaiterInv, WaitingPoints
  <2>7. ClaimInv'
    BY <2>0 DEF ClaimInv, CancelInv, Granted, CancelClaimed
  <2>8. RelockInv'
    BY <2>0 DEF RelockInv, Granted, CancelClaimed
  <2>10. WokenInv'
    <3>1. \A f \in Coros : /\ NotifyWakes(f) => NotifyWakes(f)'
                           /\ NotifyRelocks(f) => NotifyRelocks(f)'
                           /\ CancelWakes(f) => CancelWakes(f)'
      BY <2>0 DEF NotifyWakes, NotifyRelocks, CancelWakes
    <3> QED
      BY <2>0, <3>1 DEF WokenInv
  <2> QED BY <2>1, <2>2, <2>3, <2>4, <2>5, <2>6, <2>7, <2>8, <2>10
       DEF ConditionVariableInductive
<1>18. ASSUME NEW c \in Coros, WaitSuspend(c), phase[state[c]] = "waiting_await_suspend"
      PROVE  ConditionVariableInductive'
  <2>0. /\ pc[c] = "mark" /\ owner # c /\ pc' = [pc EXCEPT ![c] = "suspended"]
        /\ phase[state[c]] = "waiting_await_suspend"
        /\ phase' = [phase EXCEPT ![state[c]] = "suspended"]
        /\ UNCHANGED <<state, withToken, immediate, handle, resumed,
             cancelled, requested, callback, kpc, kcb, waiters, owner, line,
             claimed, relock>>
    BY <1>18
       DEF WaitSuspend, TryMarkSuspended, Goto, KGoto, lockVars, notifyVars,
           waitVars, awaiterVars, cancelVars
  <2>1. TypeOK'
    BY <2>0 DEF Points, WaitPoints, Phases
  <2>2. OwnerInv'
    BY <2>0 DEF OwnerInv, HoldsMutexOnReturn
  <2>3. OwnWaiterInv'
    BY <2>0 DEF OwnWaiterInv, WaitingPoints
  <2>4. PhaseInv'
    BY <2>0 DEF PhaseInv, OwnWaiterInv
  <2>5. UnclaimedInv' /\ QueuedInv'
    BY <2>0 DEF UnclaimedInv, QueuedInv
  <2>6. CancelInv'
    BY <2>0 DEF CancelInv, OwnWaiterInv, WaitingPoints
  <2>7. ClaimInv'
    BY <2>0 DEF ClaimInv, Granted, CancelClaimed
  <2>8. RelockInv'
    BY <2>0 DEF RelockInv, Granted, CancelClaimed
  <2>10. WokenInv'
    <3>1. \A f \in Coros : /\ NotifyWakes(f) => NotifyWakes(f)'
                           /\ NotifyRelocks(f) => NotifyRelocks(f)'
                           /\ CancelWakes(f) => CancelWakes(f)'
      BY <2>0 DEF NotifyWakes, NotifyRelocks, CancelWakes
    <3> QED
      BY <2>0, <3>1 DEF WokenInv
  <2> QED BY <2>1, <2>2, <2>3, <2>4, <2>5, <2>6, <2>7, <2>8, <2>10
       DEF ConditionVariableInductive
<1>19. ASSUME NEW c \in Coros, WaitSuspend(c), phase[state[c]] # "waiting_await_suspend",
             owner = NoCoro
      PROVE  ConditionVariableInductive'
  <2>0. /\ pc[c] = "mark" /\ owner # c
        /\ phase[state[c]] # "waiting_await_suspend"
        /\ owner = NoCoro /\ owner' = c
        /\ pc' = [pc EXCEPT ![c] = "resume"]
        /\ UNCHANGED <<state, withToken, immediate, handle, resumed,
             cancelled, phase, requested, callback, kpc, kcb, waiters, line,
             claimed, relock>>
    BY <1>19
       DEF WaitSuspend, LockAndResume, Goto, notifyVars, awaiterVars, waiterVars,
           cancelVars
  <2>1. TypeOK'
    BY <2>0 DEF Points, WaitPoints
  <2>2. OwnerInv'
    BY <2>0, NullAssumption DEF OwnerInv, HoldsMutexOnReturn
  <2>3. OwnWaiterInv'
    BY <2>0 DEF OwnWaiterInv, WaitingPoints
  <2>4. PhaseInv'
    BY <2>0 DEF PhaseInv, Phases
  <2>5. UnclaimedInv' /\ QueuedInv'
    BY <2>0 DEF UnclaimedInv, QueuedInv
  <2>6. CancelInv'
    BY <2>0 DEF CancelInv, OwnWaiterInv, PhaseInv, Phases
  <2>7. ClaimInv'
    <3>0. phase[state[c]] = "wake_requested"
      <4>1. state[c] # NoWaiter /\ state[c] \in Waiters
        BY <2>0 DEF OwnWaiterInv, WaitingPoints
      <4>2. phase[state[c]] \in Phases /\ phase[state[c]] # "suspended"
        BY <2>0, <4>1 DEF PhaseInv
      <4> QED BY <2>0, <4>2 DEF Phases
    <3>1. \A f \in Coros : Granted(f) => Granted(f)'
      BY <2>0 DEF Granted, CancelClaimed
    <3>2. \A m \in Notifiers : \A v \in ToSet(claimed[m]) : v \in Waiters /\ handle[v] # c
      BY <3>0, ToSetType DEF ClaimInv
    <3> QED
      BY <2>0, <3>1, <3>2 DEF ClaimInv
  <2>8. RelockInv'
    BY <2>0 DEF RelockInv, Granted, CancelClaimed
  <2>10. WokenInv'
    <3>1. \A f \in Coros : /\ NotifyWakes(f) => NotifyWakes(f)'
                           /\ NotifyRelocks(f) => NotifyRelocks(f)'
                           /\ CancelWakes(f) => CancelWakes(f)'
      BY <2>0 DEF NotifyWakes, NotifyRelocks, CancelWakes
    <3> QED
      BY <2>0, <3>1 DEF WokenInv
  <2> QED BY <2>1, <2>2, <2>3, <2>4, <2>5, <2>6, <2>7, <2>8, <2>10
       DEF ConditionVariableInductive
<1>20. ASSUME NEW c \in Coros, WaitSuspend(c), phase[state[c]] # "waiting_await_suspend",
             owner # NoCoro
      PROVE  ConditionVariableInductive'
  <2>w. c \notin ToSet(line) /\ Append(line, c) \in Seq(Coros) /\ IsInjective(Append(line, c))
        /\ ToSet(Append(line, c)) = ToSet(line) \cup {c}
    BY <1>20, ToSetAppend, InjectiveAppend
       DEF OwnerInv, HoldsMutexOnReturn, WaitSuspend
  <2>0. /\ pc[c] = "mark" /\ owner # c
        /\ phase[state[c]] # "waiting_await_suspend"
        /\ owner # NoCoro
        /\ pc' = [pc EXCEPT ![c] = "locking"]
        /\ line' \in Seq(Coros) /\ IsInjective(line') /\ ToSet(line') = ToSet(line) \cup {c}
        /\ UNCHANGED <<state, withToken, immediate, handle, resumed,
             cancelled, phase, requested, callback, kpc, kcb, waiters, owner,
             claimed, relock>>
    BY <1>20, <2>w
       DEF WaitSuspend, LockAndResume, Goto, notifyVars, awaiterVars, waiterVars,
           cancelVars
  <2>1. TypeOK'
    BY <2>0 DEF Points
  <2>2. OwnerInv'
    BY <2>0 DEF OwnerInv, HoldsMutexOnReturn
  <2>3. OwnWaiterInv'
    BY <2>0 DEF OwnWaiterInv, WaitingPoints
  <2>4. PhaseInv'
    BY <2>0 DEF PhaseInv, Phases
  <2>5. UnclaimedInv' /\ QueuedInv'
    BY <2>0 DEF UnclaimedInv, QueuedInv
  <2>6. CancelInv'
    BY <2>0 DEF CancelInv, OwnWaiterInv, PhaseInv, Phases
  <2>7. ClaimInv'
    <3>0. phase[state[c]] = "wake_requested"
      <4>1. state[c] # NoWaiter /\ state[c] \in Waiters
        BY <2>0 DEF OwnWaiterInv, WaitingPoints
      <4>2. phase[state[c]] \in Phases /\ phase[state[c]] # "suspended"
        BY <2>0, <4>1 DEF PhaseInv
      <4> QED BY <2>0, <4>2 DEF Phases
    <3>1. \A f \in Coros : Granted(f) => Granted(f)'
      BY <2>0 DEF Granted, CancelClaimed
    <3>2. \A m \in Notifiers : \A v \in ToSet(claimed[m]) : v \in Waiters /\ handle[v] # c
      BY <3>0, ToSetType DEF ClaimInv
    <3> QED
      BY <2>0, <3>1, <3>2 DEF ClaimInv
  <2>8. RelockInv'
    BY <2>0 DEF RelockInv, Granted, CancelClaimed
  <2>10. WokenInv'
    <3>1. \A f \in Coros : /\ NotifyWakes(f) => NotifyWakes(f)'
                           /\ NotifyRelocks(f) => NotifyRelocks(f)'
                           /\ CancelWakes(f) => CancelWakes(f)'
      BY <2>0 DEF NotifyWakes, NotifyRelocks, CancelWakes
    <3> QED
      BY <2>0, <3>1 DEF WokenInv
  <2> QED BY <2>1, <2>2, <2>3, <2>4, <2>5, <2>6, <2>7, <2>8, <2>10
       DEF ConditionVariableInductive
<1>21. ASSUME NEW c \in Coros, Resume(c)
      PROVE  ConditionVariableInductive'
  <2>0. /\ pc[c] = "resume" /\ owner = c /\ pc' = [pc EXCEPT ![c] = "holding"]
        /\ callback' = [callback EXCEPT ![c] = NoWaiter]
        /\ state' = [state EXCEPT ![c] = NoWaiter]
        /\ withToken' = [withToken EXCEPT ![c] = FALSE]
        /\ immediate' = [immediate EXCEPT ![c] = FALSE]
        /\ UNCHANGED <<handle, resumed, cancelled, phase, requested, kpc, kcb,
             waiters, owner, line, claimed, relock>>
    BY <1>21
       DEF Resume, OwnerInv, HoldsMutexOnReturn, Goto, KGoto, lockVars, notifyVars,
           waitVars, awaiterVars, waiterVars, cancelVars
  <2>1. TypeOK'
    BY <2>0 DEF Points
  <2>2. OwnerInv'
    BY <2>0 DEF OwnerInv, HoldsMutexOnReturn
  <2>3. OwnWaiterInv'
    BY <2>0 DEF OwnWaiterInv, WaitingPoints
  <2>4. PhaseInv'
    BY <2>0 DEF PhaseInv
  <2>5. UnclaimedInv'
    BY <2>0 DEF UnclaimedInv, PhaseInv
  <2>6. CancelInv'
    BY <2>0 DEF CancelInv
  <2>7. ClaimInv'
    BY <2>0 DEF ClaimInv, Granted, CancelClaimed
  <2>8. RelockInv'
    BY <2>0 DEF RelockInv, Granted, CancelClaimed
  <2>9. QueuedInv'
    BY <2>0 DEF QueuedInv
  <2>10. WokenInv'
    <3>1. \A f \in Coros \ {c} : /\ NotifyWakes(f) => NotifyWakes(f)'
                                 /\ NotifyRelocks(f) => NotifyRelocks(f)'
                                 /\ CancelWakes(f) => CancelWakes(f)'
      BY <2>0 DEF NotifyWakes, NotifyRelocks, CancelWakes
    <3> QED
      BY <2>0, <3>1 DEF WokenInv
  <2> QED
    BY <2>1, <2>2, <2>3, <2>4, <2>5, <2>6, <2>7, <2>8, <2>9, <2>10
       DEF ConditionVariableInductive
<1>22. ASSUME NEW n \in Notifiers, NotifyOne(n), \A w \in ToSet(waiters) : resumed[w]
      PROVE  ConditionVariableInductive'
  <2>0. /\ \A w \in ToSet(waiters) : resumed[w]
        /\ waiters' \in Seq(Waiters) /\ IsInjective(waiters') /\ ToSet(waiters') = {}
        /\ UNCHANGED <<pc, state, withToken, immediate, handle, resumed,
             cancelled, phase, requested, callback, kpc, kcb, owner, line,
             claimed, relock>>
    <3>1. FirstUnclaimed(waiters) = 0
      <4> DEFINE i == FirstUnclaimed(waiters)
      <4>1. i = 0 \/ (i \in 1..Len(waiters) /\ ~resumed[waiters[i]])
        BY FirstOfQueue
      <4> HIDE DEF i
      <4>2. \A j \in 1..Len(waiters) : waiters[j] \in ToSet(waiters)
        BY DEF ToSet
      <4>3. i = 0
        BY <1>22, <4>1, <4>2
      <4> QED BY <4>3 DEF i
    <3>2. <<>> \in Seq(Waiters) /\ IsInjective(<<>>) /\ ToSet(<<>>) = {}
      BY ToSetEmpty DEF IsInjective
    <3> QED
      BY <1>22, <3>1, <3>2 DEF NotifyOne, lockVars, awaiterVars, cancelVars
  <2>1. TypeOK'
    BY <2>0
  <2>2. OwnerInv' /\ OwnWaiterInv' /\ PhaseInv' /\ CancelInv'
    BY <2>0 DEF OwnerInv, HoldsMutexOnReturn, OwnWaiterInv, PhaseInv, CancelInv
  <2>3. ClaimInv' /\ RelockInv'
    BY <2>0 DEF ClaimInv, RelockInv, Granted, CancelClaimed
  <2>4. WokenInv'
    BY <2>0 DEF WokenInv, NotifyWakes, NotifyRelocks, CancelWakes
  <2>5. UnclaimedInv'
    BY <2>0 DEF UnclaimedInv
  <2>9. QueuedInv'
    BY <2>0 DEF QueuedInv
  <2> QED BY <2>1, <2>2, <2>3, <2>4, <2>5, <2>9 DEF ConditionVariableInductive
<1>23. ASSUME NEW n \in Notifiers, NotifyOne(n), \E w \in ToSet(waiters) : ~resumed[w]
      PROVE  ConditionVariableInductive'
  <2> DEFINE i == FirstUnclaimed(waiters)
             w == waiters[i]
  <2>i. /\ i \in 1..Len(waiters) /\ i # 0 /\ ~resumed[w]
        /\ \A j \in 1..Len(waiters) : j < i => resumed[waiters[j]]
    BY <1>23, FirstOfQueue
  <2>0. /\ claimed[n] = <<>> /\ w \in Waiters /\ w \in ToSet(waiters) /\ ~resumed[w]
        /\ resumed' = [resumed EXCEPT ![w] = TRUE]
        /\ claimed' = [claimed EXCEPT ![n] = <<w>>] /\ claimed'[n] \in Seq(Waiters)
        /\ IsInjective(claimed'[n]) /\ ToSet(claimed'[n]) = {w}
        /\ waiters' \in Seq(Waiters) /\ IsInjective(waiters')
        /\ ToSet(waiters') \subseteq ToSet(waiters)
        /\ \A v \in ToSet(waiters) : ~resumed[v] /\ v # w => v \in ToSet(waiters')
        /\ UNCHANGED <<pc, state, withToken, immediate, handle, cancelled,
             phase, requested, callback, kpc, kcb, owner, line, relock>>
    <3> DEFINE q == SubSeq(waiters, i + 1, Len(waiters))
    <3>1. /\ q \in Seq(Waiters) /\ IsInjective(q) /\ ToSet(q) \subseteq ToSet(waiters)
          /\ \A j \in 1..Len(waiters) : j > i => waiters[j] \in ToSet(q)
      BY <2>i, RestOfQueue DEF UnclaimedInv
    <3>2. \A v \in ToSet(waiters) : ~resumed[v] /\ v # w => v \in ToSet(q)
      <4> SUFFICES ASSUME NEW v \in ToSet(waiters), ~resumed[v], v # w
                   PROVE  v \in ToSet(q)
        OBVIOUS
      <4>0. PICK j \in DOMAIN waiters : v = waiters[j]
        BY DEF ToSet
      <4>1. j \in 1..Len(waiters) /\ i \in Int
        BY <2>i
      <4>2. ~(j < i) /\ j # i
        BY <2>i, <4>0
      <4> HIDE DEF i, q
      <4>3. j > i
        BY <4>1, <4>2
      <4> QED BY <3>1, <4>0, <4>1, <4>3
    <3>3. w \in Waiters /\ w \in ToSet(waiters)
      BY <2>i DEF ToSet
    <3>4. /\ <<w>> \in Seq(Waiters) /\ IsInjective(<<w>>) /\ ToSet(<<w>>) = {w}
      BY <3>3 DEF IsInjective, ToSet
    <3>5. /\ claimed[n] = <<>> /\ resumed' = [resumed EXCEPT ![w] = TRUE]
          /\ claimed' = [claimed EXCEPT ![n] = <<w>>] /\ waiters' = q
          /\ UNCHANGED <<pc, awaiterVars, handle, cancelled, phase, cancelVars,
                         lockVars, relock>>
      BY <1>23, <2>i DEF NotifyOne, MarkResumed
    <3> HIDE DEF i, w, q
    <3>6. claimed'[n] = <<w>>
      BY <3>5
    <3> QED
      BY <2>i, <3>1, <3>2, <3>3, <3>4, <3>5 DEF lockVars, awaiterVars, cancelVars
  <2> HIDE DEF i, w
  <2>1. TypeOK'
    BY <2>0
  <2>2. OwnerInv' /\ OwnWaiterInv'
    BY <2>0 DEF OwnerInv, HoldsMutexOnReturn, OwnWaiterInv
  <2>4. PhaseInv'
    BY <2>0 DEF PhaseInv
  <2>5. UnclaimedInv'
    BY <2>0 DEF UnclaimedInv
  <2>6. CancelInv'
    BY <2>0 DEF CancelInv
  <2>7. ClaimInv'
    <3> DEFINE Claims(m) ==
                 /\ IsInjective(claimed[m])
                 /\ \A v \in ToSet(claimed[m]) :
                      /\ handle[v] \in Coros /\ state[handle[v]] = v
                      /\ Granted(handle[v])
                      /\ phase[v] # "wake_requested"
                      /\ pc[handle[v]] \notin {"locking", "resume"}
                      /\ \A k \in Notifiers : /\ relock[k] # handle[v]
                                              /\ k # m => v \notin ToSet(claimed[k])
    <3>1. \A f \in Coros : Granted(f) => Granted(f)'
      BY <2>0 DEF Granted, CancelClaimed
    <3>2. /\ handle[w] \in Coros /\ state[handle[w]] = w /\ state[handle[w]] # NoWaiter
          /\ phase[w] # "wake_requested" /\ pc[handle[w]] \notin {"locking", "resume"}
      BY <2>0, NullAssumption DEF UnclaimedInv, PhaseInv
    <3>3. \A e \in Coros : state[e] = w => Granted(e)'
      BY <2>0, NullAssumption DEF Granted, CancelClaimed, CancelInv, PhaseInv
    <3>4. \A m \in Notifiers :
            w \notin ToSet(claimed[m]) /\ \A e \in Coros : state[e] = w => relock[m] # e
      BY <2>0, NullAssumption DEF RelockInv, ClaimInv, Granted
    <3>5. ASSUME NEW m \in Notifiers, m # n
          PROVE  claimed'[m] = claimed[m] /\ \A v \in ToSet(claimed[m]) : v # w
      BY <2>0, <3>4, <3>5
    <3>6. ASSUME NEW m \in Notifiers, m # n
          PROVE  Claims(m)'
      <4>1. Claims(m)
        BY DEF ClaimInv
      <4> SUFFICES ASSUME NEW v \in ToSet(claimed[m]), NEW k \in Notifiers, k # m
                   PROVE  /\ IsInjective(claimed[m]) /\ handle[v] \in Coros
                          /\ state[handle[v]] = v /\ Granted(handle[v])'
                          /\ phase[v] # "wake_requested"
                          /\ pc[handle[v]] \notin {"locking", "resume"}
                          /\ relock[k] # handle[v] /\ relock[m] # handle[v]
                          /\ v \notin ToSet(claimed'[k])
        BY <2>0, <3>5, <3>6, <4>1
      <4>2. v \notin ToSet(claimed'[k])
        BY <2>0, <3>5, <3>6, <4>1, SMTT(60)
      <4> QED BY <2>0, <3>1, <4>1, <4>2
    <3>7. Claims(n)'
      <4> PICK e \in Coros : e = handle[w] /\ state[e] = w
        BY <3>2
      <4>1. \A k \in Notifiers : k # n => w \notin ToSet(claimed'[k])
        BY <3>5
      <4>2. \A k \in Notifiers : relock[k] # e
        BY <3>4
      <4>3. Granted(e)'
        BY <3>3
      <4> SUFFICES ASSUME NEW v, v = w
                   PROVE  /\ handle[v] \in Coros /\ state[handle[v]] = v
                          /\ Granted(handle[v])' /\ phase[v] # "wake_requested"
                          /\ pc[handle[v]] \notin {"locking", "resume"}
                          /\ \A k \in Notifiers : /\ relock[k] # handle[v]
                                                  /\ k # n => v \notin ToSet(claimed'[k])
        BY <2>0
      <4> QED BY <2>0, <3>2, <4>1, <4>2, <4>3
    <3> QED
      BY <3>6, <3>7 DEF ClaimInv
  <2>8. RelockInv'
    BY <2>0 DEF RelockInv, Granted, CancelClaimed
  <2>9. QueuedInv'
    BY <2>0 DEF QueuedInv
  <2>10. WokenInv'
    <3>1. \A f \in Coros : /\ NotifyWakes(f) => NotifyWakes(f)'
                           /\ NotifyRelocks(f) => NotifyRelocks(f)'
                           /\ CancelWakes(f) => CancelWakes(f)'
      BY <2>0, ToSetEmpty DEF NotifyWakes, NotifyRelocks, CancelWakes
    <3>4. \A f \in Coros : state[f] = w => NotifyWakes(f)'
      BY <2>0 DEF NotifyWakes
    <3> QED
      BY <2>0, <3>1, <3>4 DEF WokenInv
  <2> QED BY <2>1, <2>2, <2>4, <2>5, <2>6, <2>7, <2>8, <2>9, <2>10
       DEF ConditionVariableInductive
<1>24. ASSUME NEW n \in Notifiers, NotifyAll(n)
      PROVE  ConditionVariableInductive'
  <2>0. /\ claimed[n] = <<>> /\ relock[n] = NoCoro
        /\ resumed' = [w \in Waiters |-> resumed[w] \/ w \in ToSet(waiters)]
        /\ claimed' = [claimed EXCEPT ![n] = Unclaimed(waiters)]
        /\ claimed'[n] \in Seq(Waiters)
        /\ IsInjective(claimed'[n])
        /\ ToSet(claimed'[n]) = {w \in ToSet(waiters) : ~resumed[w]}
        /\ waiters' \in Seq(Waiters) /\ IsInjective(waiters') /\ ToSet(waiters') = {}
        /\ UNCHANGED <<pc, state, withToken, immediate, handle, cancelled,
             phase, requested, callback, kpc, kcb, owner, line, relock>>
    <3>1. /\ Unclaimed(waiters) \in Seq(Waiters) /\ IsInjective(Unclaimed(waiters))
          /\ ToSet(Unclaimed(waiters)) = {w \in ToSet(waiters) : ~resumed[w]}
      BY UnclaimedWaiters DEF UnclaimedInv
    <3>2. claimed' = [claimed EXCEPT ![n] = Unclaimed(waiters)]
      BY <1>24 DEF NotifyAll
    <3>3. claimed'[n] = Unclaimed(waiters)
      BY <3>2
    <3>4. <<>> \in Seq(Waiters) /\ IsInjective(<<>>) /\ ToSet(<<>>) = {}
      BY ToSetEmpty DEF IsInjective
    <3> QED
      BY <1>24, <3>1, <3>4 DEF NotifyAll, lockVars, awaiterVars, cancelVars
  <2>1. TypeOK'
    BY <2>0
  <2>2. OwnerInv' /\ OwnWaiterInv'
    BY <2>0 DEF OwnerInv, HoldsMutexOnReturn, OwnWaiterInv
  <2>4. PhaseInv'
    BY <2>0 DEF PhaseInv
  <2>5. UnclaimedInv'
    BY <2>0 DEF UnclaimedInv
  <2>6. CancelInv'
    BY <2>0 DEF CancelInv, OwnWaiterInv, WaitingPoints
  <2>7. ClaimInv'
    <3>0. \A v \in Waiters : resumed'[v] = (resumed[v] \/ v \in ToSet(waiters))
      BY <2>0
    <3>1. \A f \in Coros : Granted(f) => Granted(f)'
      BY <2>0 DEF Granted, CancelClaimed
    <3>2. ASSUME NEW w \in ToSet(waiters), ~resumed[w]
          PROVE  /\ w \in Waiters /\ handle[w] \in Coros /\ state[handle[w]] = w
                 /\ state[handle[w]] # NoWaiter
                 /\ phase[w] # "wake_requested"
                 /\ pc[handle[w]] \notin {"locking", "resume"}
      BY <3>2, NullAssumption, ToSetType DEF UnclaimedInv, PhaseInv
    <3>3. ASSUME NEW w \in ToSet(waiters), ~resumed[w], NEW e \in Coros, state[e] = w
          PROVE  Granted(e)'
      <4>1. w \in Waiters /\ w # NoWaiter /\ ~cancelled[w]
        BY <3>2, <3>3 DEF PhaseInv
      <4>2. ~CancelClaimed(e)
        BY <3>3 DEF CancelClaimed, CancelInv
      <4> QED BY <2>0, <3>3, <4>1, <4>2 DEF Granted, CancelClaimed
    <3>4. ASSUME NEW w \in ToSet(waiters), ~resumed[w], NEW m \in Notifiers
          PROVE  relock[m] # handle[w] /\ w \notin ToSet(claimed[m])
      BY <3>2, <3>4, NullAssumption DEF RelockInv, ClaimInv, Granted
    <3>5. ASSUME NEW m \in Notifiers, m # n
          PROVE  claimed'[m] = claimed[m]
      BY <2>0, <3>5
    <3> QED
      BY <2>0, <3>1, <3>2, <3>3, <3>4 DEF ClaimInv
  <2>8. RelockInv'
    BY <2>0 DEF RelockInv, Granted, CancelClaimed
  <2>9. QueuedInv'
    <3>1. \A v \in Waiters : resumed'[v] = (resumed[v] \/ v \in ToSet(waiters))
      BY <2>0
    <3> QED BY <2>0 DEF QueuedInv
  <2>10. WokenInv'
    <3>1. \A f \in Coros : /\ NotifyWakes(f) => NotifyWakes(f)'
                           /\ NotifyRelocks(f) => NotifyRelocks(f)'
                           /\ CancelWakes(f) => CancelWakes(f)'
      BY <2>0, ToSetEmpty DEF NotifyWakes, NotifyRelocks, CancelWakes
    <3>4. \A f \in Coros : state[f] \in ToSet(waiters) /\ ~resumed[state[f]] => NotifyWakes(f)'
      BY <2>0 DEF NotifyWakes
    <3> QED
      BY <2>0, <3>1, <3>4 DEF WokenInv
  <2> QED BY <2>1, <2>2, <2>4, <2>5, <2>6, <2>7, <2>8, <2>9, <2>10
       DEF ConditionVariableInductive
<1>25. ASSUME NEW n \in Notifiers, NotifyWake(n), phase[Head(claimed[n])] = "suspended"
      PROVE  ConditionVariableInductive'
  <2> DEFINE w == Head(claimed[n])
             e == handle[w]
  <2>v. /\ w \in Waiters /\ Tail(claimed[n]) \in Seq(Waiters) /\ IsInjective(Tail(claimed[n]))
        /\ ToSet(claimed[n]) = ToSet(Tail(claimed[n])) \cup {w}
        /\ w \notin ToSet(Tail(claimed[n]))
    BY <1>25, ToSetTail, InjectiveTail DEF NotifyWake, ClaimInv
  <2>w. /\ e = handle[w] /\ e \in Coros /\ state[e] = w /\ Granted(e) /\ resumed[w]
        /\ phase[w] # "wake_requested" /\ pc[e] \notin {"locking", "resume"}
        /\ \A m \in Notifiers : relock[m] # e /\ (m # n => w \notin ToSet(claimed[m]))
    BY <2>v DEF ClaimInv, Granted
  <2>0. /\ claimed[n] # <<>> /\ relock[n] = NoCoro
        /\ claimed' = [claimed EXCEPT ![n] = Tail(claimed[n])]
        /\ claimed'[n] \in Seq(Waiters)
        /\ IsInjective(claimed'[n]) /\ ToSet(claimed[n]) = ToSet(claimed'[n]) \cup {w}
        /\ w \notin ToSet(claimed'[n])
        /\ phase[w] = "suspended" /\ pc[e] = "suspended"
        /\ relock' = [relock EXCEPT ![n] = e]
        /\ UNCHANGED <<pc, state, withToken, immediate, handle, resumed,
             cancelled, phase, requested, callback, kpc, kcb, waiters, owner,
             line>>
    <3>1. claimed' = [claimed EXCEPT ![n] = Tail(claimed[n])]
      BY <1>25 DEF NotifyWake
    <3>2. claimed'[n] = Tail(claimed[n])
      BY <3>1
    <3>3. phase' = phase /\ relock' = [relock EXCEPT ![n] = e]
      BY <1>25 DEF NotifyWake, RequestWake, ShouldResumeNow
    <3>4. pc[e] = "suspended"
      BY <1>25, <2>v, <2>w, NullAssumption DEF PhaseInv
    <3> QED
      BY <1>25, <2>v, <3>3, <3>4 DEF NotifyWake, lockVars, awaiterVars, cancelVars
  <2> HIDE DEF w, e
  <2>1. TypeOK'
    BY <2>w, <2>0
  <2>2. /\ OwnerInv' /\ OwnWaiterInv' /\ PhaseInv' /\ UnclaimedInv'
        /\ CancelInv' /\ QueuedInv'
    BY <2>0
       DEF OwnerInv, HoldsMutexOnReturn, OwnWaiterInv, PhaseInv, UnclaimedInv,
           CancelInv, QueuedInv
  <2>7. ClaimInv'
    BY <2>w, <2>0 DEF ClaimInv, Granted, CancelClaimed
  <2>8. RelockInv'
    BY <2>w, <2>0 DEF RelockInv, Granted, CancelClaimed
  <2>10. WokenInv'
    <3>0. \A f \in Coros \ {e} : state[f] # w
      BY <2>v, <2>w, NullAssumption DEF OwnWaiterInv
    <3>w. \A m \in Notifiers : \A v \in ToSet(claimed[m]) : v # w => v \in ToSet(claimed'[m])
      BY <2>0
    <3>1. \A f \in Coros \ {e} : NotifyWakes(f) => NotifyWakes(f)'
      BY <2>0, <3>0 DEF NotifyWakes
    <3>2. \A f \in Coros : NotifyRelocks(f) \/ f = e => NotifyRelocks(f)'
      BY <2>0, NullAssumption DEF NotifyRelocks
    <3>3. \A f \in Coros : CancelWakes(f) => CancelWakes(f)'
      BY <2>0 DEF CancelWakes
    <3> QED
      BY <2>0, <3>1, <3>2, <3>3 DEF WokenInv
  <2> QED BY <2>1, <2>2, <2>7, <2>8, <2>10 DEF ConditionVariableInductive
<1>26. ASSUME NEW n \in Notifiers, NotifyWake(n), phase[Head(claimed[n])] # "suspended"
      PROVE  ConditionVariableInductive'
  <2> DEFINE w == Head(claimed[n])
             e == handle[w]
  <2>v. /\ w \in Waiters /\ Tail(claimed[n]) \in Seq(Waiters) /\ IsInjective(Tail(claimed[n]))
        /\ ToSet(claimed[n]) = ToSet(Tail(claimed[n])) \cup {w}
        /\ w \notin ToSet(Tail(claimed[n]))
    BY <1>26, ToSetTail, InjectiveTail DEF NotifyWake, ClaimInv
  <2>w. /\ e = handle[w] /\ e \in Coros /\ state[e] = w /\ Granted(e) /\ resumed[w]
        /\ phase[w] # "wake_requested" /\ pc[e] \notin {"locking", "resume"}
        /\ \A m \in Notifiers : relock[m] # e /\ (m # n => w \notin ToSet(claimed[m]))
    BY <2>v DEF ClaimInv, Granted
  <2>0. /\ claimed[n] # <<>> /\ relock[n] = NoCoro
        /\ claimed' = [claimed EXCEPT ![n] = Tail(claimed[n])]
        /\ claimed'[n] \in Seq(Waiters)
        /\ IsInjective(claimed'[n]) /\ ToSet(claimed[n]) = ToSet(claimed'[n]) \cup {w}
        /\ w \notin ToSet(claimed'[n])
        /\ phase[w] = "waiting_await_suspend"
        /\ phase' = [phase EXCEPT ![w] = "wake_requested"]
        /\ UNCHANGED <<pc, state, withToken, immediate, handle, resumed,
             cancelled, requested, callback, kpc, kcb, waiters, owner, line,
             relock>>
    <3>1. claimed' = [claimed EXCEPT ![n] = Tail(claimed[n])]
      BY <1>26 DEF NotifyWake
    <3>2. claimed'[n] = Tail(claimed[n])
      BY <3>1
    <3>3. phase[w] = "waiting_await_suspend"
      BY <1>26, <2>v, <2>w DEF Phases
    <3>4. phase' = [phase EXCEPT ![w] = "wake_requested"] /\ relock' = relock
      BY <1>26, <3>3 DEF NotifyWake, RequestWake, ShouldResumeNow
    <3> QED
      BY <1>26, <2>v, <3>3, <3>4 DEF NotifyWake, lockVars, awaiterVars, cancelVars
  <2> HIDE DEF w, e
  <2>1. TypeOK'
    BY <2>0 DEF Phases
  <2>2. OwnerInv' /\ OwnWaiterInv' /\ UnclaimedInv' /\ RelockInv' /\ QueuedInv'
    BY <2>0
       DEF OwnerInv, HoldsMutexOnReturn, OwnWaiterInv, UnclaimedInv, RelockInv,
           Granted, CancelClaimed, QueuedInv
  <2>4. PhaseInv'
    BY <2>w, <2>0 DEF PhaseInv
  <2>6. CancelInv'
    BY <2>w, <2>0 DEF CancelInv, OwnWaiterInv, Granted, CancelClaimed
  <2>7. ClaimInv'
    BY <2>0 DEF ClaimInv, Granted, CancelClaimed
  <2>10. WokenInv'
    <3>0. \A f \in Coros \ {e} : state[f] # w
      BY <2>v, <2>w, NullAssumption DEF OwnWaiterInv
    <3>w. \A m \in Notifiers : \A v \in ToSet(claimed[m]) : v # w => v \in ToSet(claimed'[m])
      BY <2>0
    <3>1. \A f \in Coros \ {e} : NotifyWakes(f) => NotifyWakes(f)'
      BY <2>0, <3>0 DEF NotifyWakes
    <3>2. \A f \in Coros : NotifyRelocks(f) => NotifyRelocks(f)'
      BY <2>0 DEF NotifyRelocks
    <3>3. \A f \in Coros : CancelWakes(f) => CancelWakes(f)'
      BY <2>0 DEF CancelWakes
    <3> QED
      BY <2>w, <2>0, <3>1, <3>2, <3>3 DEF WokenInv
  <2> QED BY <2>1, <2>2, <2>4, <2>6, <2>7, <2>10 DEF ConditionVariableInductive
<1>27. ASSUME NEW n \in Notifiers, NotifyRelock(n), owner = NoCoro
      PROVE  ConditionVariableInductive'
  <2> DEFINE c == relock[n]
  <2>v. /\ relock[n] = c /\ c \in Coros /\ pc[c] = "suspended" /\ Granted(c)
        /\ \A m \in Notifiers : relock[m] = c => m = n
    BY <1>27 DEF NotifyRelock, RelockInv
  <2>0. /\ pc[c] = "suspended"
        /\ relock' = [relock EXCEPT ![n] = NoCoro]
        /\ owner = NoCoro /\ owner' = c
        /\ pc' = [pc EXCEPT ![c] = "resume"]
        /\ UNCHANGED <<state, withToken, immediate, handle, resumed,
             cancelled, phase, requested, callback, kpc, kcb, waiters, line,
             claimed>>
    BY <1>27, <2>v
       DEF NotifyRelock, LockAndResume, Goto, KGoto, lockVars, notifyVars, waitVars,
           awaiterVars, waiterVars, cancelVars
  <2> HIDE DEF c
  <2>1. TypeOK'
    BY <2>v, <2>0 DEF Points, WaitPoints
  <2>2. OwnerInv'
    BY <2>0, NullAssumption DEF OwnerInv, HoldsMutexOnReturn
  <2>3. OwnWaiterInv'
    BY <2>0 DEF OwnWaiterInv, WaitingPoints
  <2>4. PhaseInv'
    BY <2>v, <2>0 DEF PhaseInv, Granted
  <2>5. UnclaimedInv' /\ QueuedInv'
    BY <2>0 DEF UnclaimedInv, QueuedInv
  <2>6. CancelInv'
    BY <2>v, <2>0 DEF CancelInv, Granted, CancelClaimed
  <2>7. ClaimInv'
    BY <2>v, <2>0, NullAssumption DEF ClaimInv, Granted, CancelClaimed
  <2>8. RelockInv'
    BY <2>v, <2>0 DEF RelockInv, Granted, CancelClaimed
  <2>10. WokenInv'
    <3>1. \A f \in Coros : NotifyWakes(f) => NotifyWakes(f)'
      BY <2>0 DEF NotifyWakes
    <3>2. \A f \in Coros \ {c} : NotifyRelocks(f) => NotifyRelocks(f)'
      BY <2>v, <2>0 DEF NotifyRelocks
    <3>3. \A f \in Coros : CancelWakes(f) => CancelWakes(f)'
      BY <2>0 DEF CancelWakes
    <3> QED
      BY <2>0, <3>1, <3>2, <3>3 DEF WokenInv
  <2> QED BY <2>1, <2>2, <2>3, <2>4, <2>5, <2>6, <2>7, <2>8, <2>10
       DEF ConditionVariableInductive
<1>28. ASSUME NEW n \in Notifiers, NotifyRelock(n), owner # NoCoro
      PROVE  ConditionVariableInductive'
  <2> DEFINE c == relock[n]
  <2>v. /\ relock[n] = c /\ c \in Coros /\ pc[c] = "suspended" /\ Granted(c)
        /\ \A m \in Notifiers : relock[m] = c => m = n
    BY <1>28 DEF NotifyRelock, RelockInv
  <2>w. c \notin ToSet(line) /\ Append(line, c) \in Seq(Coros) /\ IsInjective(Append(line, c))
        /\ ToSet(Append(line, c)) = ToSet(line) \cup {c}
    BY <2>v, ToSetAppend, InjectiveAppend DEF OwnerInv, HoldsMutexOnReturn
  <2>0. /\ pc[c] = "suspended"
        /\ relock' = [relock EXCEPT ![n] = NoCoro]
        /\ owner # NoCoro
        /\ pc' = [pc EXCEPT ![c] = "locking"]
        /\ line' \in Seq(Coros) /\ IsInjective(line') /\ ToSet(line') = ToSet(line) \cup {c}
        /\ UNCHANGED <<state, withToken, immediate, handle, resumed,
             cancelled, phase, requested, callback, kpc, kcb, waiters, owner,
             claimed>>
    BY <1>28, <2>v, <2>w
       DEF NotifyRelock, LockAndResume, Goto, KGoto, lockVars, notifyVars, waitVars,
           awaiterVars, waiterVars, cancelVars
  <2> HIDE DEF c
  <2>1. TypeOK'
    BY <2>0 DEF Points
  <2>2. OwnerInv'
    BY <2>0 DEF OwnerInv, HoldsMutexOnReturn
  <2>3. OwnWaiterInv'
    BY <2>0 DEF OwnWaiterInv, WaitingPoints
  <2>4. PhaseInv'
    BY <2>v, <2>0 DEF PhaseInv, Granted
  <2>5. UnclaimedInv' /\ QueuedInv'
    BY <2>0 DEF UnclaimedInv, QueuedInv
  <2>6. CancelInv'
    BY <2>v, <2>0 DEF CancelInv, Granted, CancelClaimed
  <2>7. ClaimInv'
    BY <2>v, <2>0, NullAssumption DEF ClaimInv, Granted, CancelClaimed
  <2>8. RelockInv'
    BY <2>v, <2>0 DEF RelockInv, Granted, CancelClaimed
  <2>10. WokenInv'
    <3>1. \A f \in Coros : NotifyWakes(f) => NotifyWakes(f)'
      BY <2>0 DEF NotifyWakes
    <3>2. \A f \in Coros \ {c} : NotifyRelocks(f) => NotifyRelocks(f)'
      BY <2>v, <2>0 DEF NotifyRelocks
    <3>3. \A f \in Coros : CancelWakes(f) => CancelWakes(f)'
      BY <2>0 DEF CancelWakes
    <3> QED
      BY <2>0, <3>1, <3>2, <3>3 DEF WokenInv
  <2> QED BY <2>1, <2>2, <2>3, <2>4, <2>5, <2>6, <2>7, <2>8, <2>10
       DEF ConditionVariableInductive
<1>29. ASSUME NEW c \in Coros, CancelRelock(c), owner = NoCoro
      PROVE  ConditionVariableInductive'
  <2>v. /\ kpc[c] = "resume" /\ pc[c] = "suspended" /\ state[c] = kcb[c]
        /\ kcb[c] \in Waiters /\ handle[kcb[c]] = c
    BY <1>29 DEF CancelRelock, OwnWaiterInv, CancelInv
  <2>0. /\ kpc[c] = "resume" /\ kpc' = [kpc EXCEPT ![c] = "done"]
        /\ kcb' = [kcb EXCEPT ![c] = NoWaiter]
        /\ pc[c] = "suspended"
        /\ owner = NoCoro /\ owner' = c
        /\ pc' = [pc EXCEPT ![c] = "resume"]
        /\ UNCHANGED <<state, withToken, immediate, handle, resumed,
             cancelled, phase, requested, callback, waiters, line, claimed,
             relock>>
    BY <1>29, <2>v
       DEF CancelRelock, LockAndResume, Goto, KGoto, lockVars, notifyVars, waitVars,
           awaiterVars, waiterVars, cancelVars
  <2>1. TypeOK'
    BY <2>0 DEF Points, WaitPoints, CancelPoints
  <2>2. OwnerInv'
    BY <2>0, NullAssumption DEF OwnerInv, HoldsMutexOnReturn
  <2>3. OwnWaiterInv'
    BY <2>v, <2>0 DEF OwnWaiterInv
  <2>4. PhaseInv'
    BY <2>0 DEF PhaseInv, CancelInv
  <2>5. UnclaimedInv'
    BY <2>0 DEF UnclaimedInv
  <2>6. CancelInv'
    BY <2>0 DEF CancelInv
  <2>7. ClaimInv'
    BY <2>0 DEF ClaimInv, CancelInv, Granted, CancelClaimed
  <2>8. RelockInv'
    BY <2>0 DEF RelockInv, CancelInv, Granted, CancelClaimed
  <2>9. QueuedInv'
    BY <2>0 DEF QueuedInv
  <2>10. WokenInv'
    <3>1. \A f \in Coros : NotifyWakes(f) => NotifyWakes(f)'
      BY <2>0 DEF NotifyWakes
    <3>2. \A f \in Coros : NotifyRelocks(f) => NotifyRelocks(f)'
      BY <2>0 DEF NotifyRelocks
    <3>3. \A f \in Coros \ {c} : CancelWakes(f) => CancelWakes(f)'
      BY <2>0 DEF CancelWakes
    <3> QED
      BY <2>0, <3>1, <3>2, <3>3 DEF WokenInv
  <2> QED BY <2>1, <2>2, <2>3, <2>4, <2>5, <2>6, <2>7, <2>8, <2>9, <2>10
       DEF ConditionVariableInductive
<1>30. ASSUME NEW c \in Coros, CancelRelock(c), owner # NoCoro
      PROVE  ConditionVariableInductive'
  <2>v. /\ kpc[c] = "resume" /\ pc[c] = "suspended" /\ state[c] = kcb[c]
        /\ kcb[c] \in Waiters /\ handle[kcb[c]] = c
    BY <1>30 DEF CancelRelock, OwnWaiterInv, CancelInv
  <2>w. c \notin ToSet(line) /\ Append(line, c) \in Seq(Coros) /\ IsInjective(Append(line, c))
        /\ ToSet(Append(line, c)) = ToSet(line) \cup {c}
    BY <2>v, ToSetAppend, InjectiveAppend DEF OwnerInv, HoldsMutexOnReturn
  <2>0. /\ kpc[c] = "resume" /\ kpc' = [kpc EXCEPT ![c] = "done"]
        /\ kcb' = [kcb EXCEPT ![c] = NoWaiter]
        /\ pc[c] = "suspended"
        /\ owner # NoCoro
        /\ pc' = [pc EXCEPT ![c] = "locking"]
        /\ line' \in Seq(Coros) /\ IsInjective(line') /\ ToSet(line') = ToSet(line) \cup {c}
        /\ UNCHANGED <<state, withToken, immediate, handle, resumed,
             cancelled, phase, requested, callback, waiters, owner, claimed,
             relock>>
    BY <1>30, <2>v, <2>w
       DEF CancelRelock, LockAndResume, Goto, KGoto, lockVars, notifyVars, waitVars,
           awaiterVars, waiterVars, cancelVars
  <2>1. TypeOK'
    BY <2>0 DEF Points, CancelPoints
  <2>2. OwnerInv'
    BY <2>0 DEF OwnerInv, HoldsMutexOnReturn
  <2>3. OwnWaiterInv'
    BY <2>v, <2>0 DEF OwnWaiterInv
  <2>4. PhaseInv'
    BY <2>0 DEF PhaseInv, CancelInv
  <2>5. UnclaimedInv'
    BY <2>0 DEF UnclaimedInv
  <2>6. CancelInv'
    BY <2>0 DEF CancelInv
  <2>7. ClaimInv'
    BY <2>0 DEF ClaimInv, CancelInv, Granted, CancelClaimed
  <2>8. RelockInv'
    BY <2>0 DEF RelockInv, CancelInv, Granted, CancelClaimed
  <2>9. QueuedInv'
    BY <2>0 DEF QueuedInv
  <2>10. WokenInv'
    <3>1. \A f \in Coros : NotifyWakes(f) => NotifyWakes(f)'
      BY <2>0 DEF NotifyWakes
    <3>2. \A f \in Coros : NotifyRelocks(f) => NotifyRelocks(f)'
      BY <2>0 DEF NotifyRelocks
    <3>3. \A f \in Coros \ {c} : CancelWakes(f) => CancelWakes(f)'
      BY <2>0 DEF CancelWakes
    <3> QED
      BY <2>0, <3>1, <3>2, <3>3 DEF WokenInv
  <2> QED BY <2>1, <2>2, <2>3, <2>4, <2>5, <2>6, <2>7, <2>8, <2>9, <2>10
       DEF ConditionVariableInductive
<1>31. ASSUME NEW c \in Coros, CancelRequest(c)
      PROVE  ConditionVariableInductive'
  <2>0. /\ kpc[c] = "idle" /\ kpc' = [kpc EXCEPT ![c] = "swap"]
        /\ requested' = [requested EXCEPT ![c] = TRUE]
        /\ UNCHANGED <<pc, state, withToken, immediate, handle, resumed,
             cancelled, phase, callback, kcb, waiters, owner, line, claimed,
             relock>>
    BY <1>31
       DEF CancelRequest, RequestCancellation, Goto, KGoto, lockVars, notifyVars,
           waitVars, awaiterVars, waiterVars, cancelVars
  <2>1. TypeOK'
    BY <2>0 DEF CancelPoints
  <2>2. OwnerInv' /\ PhaseInv' /\ UnclaimedInv' /\ QueuedInv'
    BY <2>0 DEF OwnerInv, HoldsMutexOnReturn, PhaseInv, UnclaimedInv, QueuedInv
  <2>3. OwnWaiterInv'
    BY <2>0 DEF OwnWaiterInv
  <2>6. CancelInv'
    BY <2>0 DEF CancelInv
  <2>7. ClaimInv'
    BY <2>0 DEF ClaimInv, Granted, CancelClaimed
  <2>8. RelockInv'
    BY <2>0 DEF RelockInv, Granted, CancelClaimed
  <2>10. WokenInv'
    <3>1. \A f \in Coros : /\ NotifyWakes(f) => NotifyWakes(f)'
                           /\ NotifyRelocks(f) => NotifyRelocks(f)'
                           /\ CancelWakes(f) => CancelWakes(f)'
      BY <2>0 DEF NotifyWakes, NotifyRelocks, CancelWakes
    <3> QED
      BY <2>0, <3>1 DEF WokenInv
  <2> QED BY <2>1, <2>2, <2>3, <2>6, <2>7, <2>8, <2>10
       DEF ConditionVariableInductive
<1>32. ASSUME NEW c \in Coros, SwapCallbacks(c), UNCHANGED <<waiters, lockVars, notifyVars>>
      PROVE  ConditionVariableInductive'
  <2>0. /\ kpc[c] = "swap"
        /\ kpc' = [kpc EXCEPT ![c] = IF callback[c] = NoWaiter THEN "done" ELSE "cb_mark"]
        /\ kcb' = [kcb EXCEPT ![c] = callback[c]]
        /\ callback' = [callback EXCEPT ![c] = NoWaiter]
        /\ UNCHANGED <<pc, state, withToken, immediate, handle, resumed,
             cancelled, phase, requested, waiters, owner, line, claimed,
             relock>>
    BY <1>32
       DEF SwapCallbacks, Goto, KGoto, lockVars, notifyVars, waitVars, awaiterVars,
           waiterVars, cancelVars
  <2>1. TypeOK'
    BY <2>0 DEF CancelPoints
  <2>2. OwnerInv' /\ PhaseInv' /\ QueuedInv'
    BY <2>0 DEF OwnerInv, HoldsMutexOnReturn, PhaseInv, QueuedInv
  <2>3. OwnWaiterInv'
    BY <2>0 DEF OwnWaiterInv
  <2>5. UnclaimedInv'
    BY <2>0 DEF UnclaimedInv
  <2>6. CancelInv'
    BY <2>0 DEF CancelInv
  <2>7. ClaimInv'
    BY <2>0 DEF ClaimInv, Granted, CancelClaimed
  <2>8. RelockInv'
    BY <2>0 DEF RelockInv, Granted, CancelClaimed
  <2>10. WokenInv'
    <3>1. \A f \in Coros : /\ NotifyWakes(f) => NotifyWakes(f)'
                           /\ NotifyRelocks(f) => NotifyRelocks(f)'
                           /\ CancelWakes(f) => CancelWakes(f)'
      BY <2>0 DEF NotifyWakes, NotifyRelocks, CancelWakes
    <3> QED
      BY <2>0, <3>1 DEF WokenInv
  <2> QED BY <2>1, <2>2, <2>3, <2>5, <2>6, <2>7, <2>8, <2>10
       DEF ConditionVariableInductive
<1>33. ASSUME NEW c \in Coros, InvokeCallback(c), kpc[c] = "cb_mark", resumed[kcb[c]],
             UNCHANGED <<waiters, lockVars, notifyVars>>
      PROVE  ConditionVariableInductive'
  <2>0. /\ kpc[c] = "cb_mark" /\ kpc' = [kpc EXCEPT ![c] = "done"]
        /\ kcb' = [kcb EXCEPT ![c] = NoWaiter]
        /\ resumed[kcb[c]] /\ resumed' = [resumed EXCEPT ![kcb[c]] = TRUE]
        /\ UNCHANGED <<pc, state, withToken, immediate, handle, cancelled,
             phase, requested, callback, waiters, owner, line, claimed,
             relock>>
    BY <1>33
       DEF InvokeCallback, MarkResumed, Goto, KGoto, lockVars, notifyVars, waitVars,
           awaiterVars, waiterVars, cancelVars
  <2>1. TypeOK'
    BY <2>0 DEF CancelPoints
  <2>2. OwnerInv'
    BY <2>0 DEF OwnerInv, HoldsMutexOnReturn
  <2>3. OwnWaiterInv'
    BY <2>0 DEF OwnWaiterInv
  <2>4. PhaseInv'
    BY <2>0 DEF PhaseInv
  <2>5. UnclaimedInv'
    BY <2>0 DEF UnclaimedInv
  <2>6. CancelInv'
    BY <2>0 DEF CancelInv
  <2>7. ClaimInv'
    BY <2>0 DEF ClaimInv, Granted, CancelClaimed
  <2>8. RelockInv'
    BY <2>0 DEF RelockInv, Granted, CancelClaimed
  <2>9. QueuedInv'
    BY <2>0 DEF QueuedInv
  <2>10. WokenInv'
    <3>1. \A f \in Coros : /\ NotifyWakes(f) => NotifyWakes(f)'
                           /\ NotifyRelocks(f) => NotifyRelocks(f)'
                           /\ CancelWakes(f) => CancelWakes(f)'
      BY <2>0 DEF NotifyWakes, NotifyRelocks, CancelWakes
    <3> QED
      BY <2>0, <3>1 DEF WokenInv
  <2> QED BY <2>1, <2>2, <2>3, <2>4, <2>5, <2>6, <2>7, <2>8, <2>9, <2>10
       DEF ConditionVariableInductive
<1>34. ASSUME NEW c \in Coros, InvokeCallback(c), kpc[c] = "cb_mark", ~resumed[kcb[c]],
             UNCHANGED <<waiters, lockVars, notifyVars>>
      PROVE  ConditionVariableInductive'
  <2>0. /\ kpc[c] = "cb_mark" /\ kpc' = [kpc EXCEPT ![c] = "cb_store"]
        /\ ~resumed[kcb[c]] /\ resumed' = [resumed EXCEPT ![kcb[c]] = TRUE]
        /\ UNCHANGED <<pc, state, withToken, immediate, handle, cancelled,
             phase, requested, callback, kcb, waiters, owner, line, claimed,
             relock>>
    BY <1>34
       DEF InvokeCallback, MarkResumed, Goto, KGoto, lockVars, notifyVars, waitVars,
           awaiterVars, waiterVars, cancelVars
  <2>1. TypeOK'
    BY <2>0 DEF CancelPoints
  <2>2. OwnerInv'
    BY <2>0 DEF OwnerInv, HoldsMutexOnReturn
  <2>3. OwnWaiterInv'
    BY <2>0 DEF OwnWaiterInv
  <2>4. PhaseInv'
    BY <2>0 DEF PhaseInv
  <2>5. UnclaimedInv'
    BY <2>0 DEF UnclaimedInv
  <2>6. CancelInv'
    BY <2>0 DEF CancelInv, OwnWaiterInv, PhaseInv, UnclaimedInv
  <2>7. ClaimInv'
    BY <2>0 DEF ClaimInv, Granted, CancelClaimed
  <2>8. RelockInv'
    BY <2>0 DEF RelockInv, Granted, CancelClaimed
  <2>9. QueuedInv'
    BY <2>0 DEF QueuedInv
  <2>10. WokenInv'
    <3>1. \A f \in Coros : /\ NotifyWakes(f) => NotifyWakes(f)'
                           /\ NotifyRelocks(f) => NotifyRelocks(f)'
                           /\ CancelWakes(f) => CancelWakes(f)'
      BY <2>0 DEF NotifyWakes, NotifyRelocks, CancelWakes
    <3> QED
      BY <2>0, <3>1 DEF WokenInv, OwnWaiterInv, CancelWakes
  <2> QED BY <2>1, <2>2, <2>3, <2>4, <2>5, <2>6, <2>7, <2>8, <2>9, <2>10
       DEF ConditionVariableInductive
<1>35. ASSUME NEW c \in Coros, InvokeCallback(c), kpc[c] = "cb_store",
             UNCHANGED <<waiters, lockVars, notifyVars>>
      PROVE  ConditionVariableInductive'
  <2>0. /\ kpc[c] = "cb_store" /\ kpc' = [kpc EXCEPT ![c] = "cb_wake"]
        /\ cancelled' = [cancelled EXCEPT ![kcb[c]] = TRUE]
        /\ UNCHANGED <<pc, state, withToken, immediate, handle, resumed,
             phase, requested, callback, kcb, waiters, owner, line, claimed,
             relock>>
    BY <1>35
       DEF InvokeCallback, Goto, KGoto, lockVars, notifyVars, waitVars, awaiterVars,
           waiterVars, cancelVars
  <2>1. TypeOK'
    BY <2>0 DEF CancelPoints
  <2>2. OwnerInv' /\ UnclaimedInv' /\ QueuedInv'
    BY <2>0 DEF OwnerInv, HoldsMutexOnReturn, UnclaimedInv, QueuedInv
  <2>3. OwnWaiterInv'
    BY <2>0 DEF OwnWaiterInv
  <2>4. PhaseInv'
    BY <2>0 DEF PhaseInv, CancelInv
  <2>6. CancelInv'
    BY <2>0 DEF CancelInv, OwnWaiterInv
  <2>7. ClaimInv'
    BY <2>0 DEF ClaimInv, OwnWaiterInv, Granted, CancelClaimed
  <2>8. RelockInv'
    BY <2>0 DEF RelockInv, OwnWaiterInv, CancelInv, Granted, CancelClaimed
  <2>10. WokenInv'
    <3>1. \A f \in Coros : /\ NotifyWakes(f) => NotifyWakes(f)'
                           /\ NotifyRelocks(f) => NotifyRelocks(f)'
                           /\ CancelWakes(f) => CancelWakes(f)'
      BY <2>0 DEF NotifyWakes, NotifyRelocks, CancelWakes
    <3> QED
      BY <2>0, <3>1 DEF WokenInv
  <2> QED BY <2>1, <2>2, <2>3, <2>4, <2>6, <2>7, <2>8, <2>10
       DEF ConditionVariableInductive
<1>36. ASSUME NEW c \in Coros, InvokeCallback(c), kpc[c] = "cb_wake",
              phase[kcb[c]] = "suspended",
             UNCHANGED <<waiters, lockVars, notifyVars>>
      PROVE  ConditionVariableInductive'
  <2>0. /\ kpc[c] = "cb_wake" /\ kpc' = [kpc EXCEPT ![c] = "resume"]
        /\ phase[kcb[c]] = "suspended"
        /\ UNCHANGED <<pc, state, withToken, immediate, handle, resumed,
             cancelled, phase, requested, callback, kcb, waiters, owner, line,
             claimed, relock>>
    BY <1>36
       DEF InvokeCallback, RequestWake, ShouldResumeNow, Goto, KGoto, lockVars,
           notifyVars, waitVars, awaiterVars, waiterVars, cancelVars
  <2>1. TypeOK'
    BY <2>0 DEF CancelPoints
  <2>2. OwnerInv' /\ PhaseInv' /\ UnclaimedInv' /\ QueuedInv'
    BY <2>0 DEF OwnerInv, HoldsMutexOnReturn, PhaseInv, UnclaimedInv, QueuedInv
  <2>3. OwnWaiterInv'
    BY <2>0 DEF OwnWaiterInv
  <2>6. CancelInv'
    BY <2>0 DEF CancelInv, OwnWaiterInv, PhaseInv
  <2>7. ClaimInv'
    BY <2>0 DEF ClaimInv, Granted, CancelClaimed
  <2>8. RelockInv'
    BY <2>0 DEF RelockInv, Granted, CancelClaimed
  <2>10. WokenInv'
    <3>1. \A f \in Coros : /\ NotifyWakes(f) => NotifyWakes(f)'
                           /\ NotifyRelocks(f) => NotifyRelocks(f)'
                           /\ CancelWakes(f) => CancelWakes(f)'
      BY <2>0 DEF NotifyWakes, NotifyRelocks, CancelWakes
    <3> QED
      BY <2>0, <3>1 DEF WokenInv
  <2> QED BY <2>1, <2>2, <2>3, <2>6, <2>7, <2>8, <2>10
       DEF ConditionVariableInductive
<1>37. ASSUME NEW c \in Coros, InvokeCallback(c), kpc[c] = "cb_wake",
              phase[kcb[c]] # "suspended",
             UNCHANGED <<waiters, lockVars, notifyVars>>
      PROVE  ConditionVariableInductive'
  <2>0. /\ kpc[c] = "cb_wake" /\ kpc' = [kpc EXCEPT ![c] = "done"]
        /\ phase[kcb[c]] # "suspended"
        /\ kcb' = [kcb EXCEPT ![c] = NoWaiter]
        /\ phase' = [phase EXCEPT ![kcb[c]] = "wake_requested"]
        /\ UNCHANGED <<pc, state, withToken, immediate, handle, resumed,
             cancelled, requested, callback, waiters, owner, line, claimed,
             relock>>
    BY <1>37
       DEF InvokeCallback, RequestWake, ShouldResumeNow, Phases, KGoto, lockVars,
           notifyVars, awaiterVars
  <2>1. TypeOK'
    BY <2>0 DEF CancelPoints, Phases
  <2>2. OwnerInv' /\ QueuedInv'
    BY <2>0 DEF OwnerInv, HoldsMutexOnReturn, QueuedInv
  <2>3. OwnWaiterInv'
    BY <2>0 DEF OwnWaiterInv
  <2>4. PhaseInv'
    BY <2>0 DEF PhaseInv, CancelInv
  <2>5. UnclaimedInv'
    BY <2>0 DEF UnclaimedInv
  <2>6. CancelInv'
    BY <2>0 DEF CancelInv, OwnWaiterInv
  <2>7. ClaimInv'
    BY <2>0 DEF ClaimInv, CancelInv, Granted, CancelClaimed
  <2>8. RelockInv'
    BY <2>0 DEF RelockInv, Granted, CancelClaimed
  <2>10. WokenInv'
    <3>1. \A f \in Coros : NotifyWakes(f) => NotifyWakes(f)'
      BY <2>0 DEF NotifyWakes
    <3>2. \A f \in Coros : NotifyRelocks(f) => NotifyRelocks(f)'
      BY <2>0 DEF NotifyRelocks
    <3>3. \A f \in Coros \ {c} : CancelWakes(f) => CancelWakes(f)'
      BY <2>0 DEF CancelWakes
    <3> QED
      BY <2>0, <3>1, <3>2, <3>3 DEF WokenInv, CancelInv
  <2> QED BY <2>1, <2>2, <2>3, <2>4, <2>5, <2>6, <2>7, <2>8, <2>10
       DEF ConditionVariableInductive
<1>38. CASE UNCHANGED vars
  <2>0. UNCHANGED <<pc, state, withToken, immediate, handle, resumed, cancelled, phase,
                    requested, callback, kpc, kcb, waiters, owner, line, claimed,
                    relock>>
    BY <1>38
       DEF vars, waitVars, lockVars, notifyVars, awaiterVars, waiterVars, cancelVars
  <2>1. TypeOK'
    BY <2>0
  <2>2. OwnerInv'
    BY <2>0 DEF OwnerInv, HoldsMutexOnReturn
  <2>3. OwnWaiterInv' /\ PhaseInv' /\ UnclaimedInv'
    BY <2>0 DEF OwnWaiterInv, PhaseInv, UnclaimedInv
  <2>4. CancelInv' /\ QueuedInv'
    BY <2>0 DEF CancelInv, QueuedInv
  <2>5. ClaimInv' /\ RelockInv'
    BY <2>0 DEF ClaimInv, RelockInv, Granted, CancelClaimed
  <2>6. WokenInv'
    BY <2>0 DEF WokenInv, NotifyWakes, NotifyRelocks, CancelWakes
  <2> QED BY <2>1, <2>2, <2>3, <2>4, <2>5, <2>6
<1> QED
  BY <1>1, <1>2, <1>3, <1>4, <1>5, <1>6, <1>7, <1>8, <1>9, <1>10, <1>11, <1>12,
     <1>13, <1>14, <1>15, <1>16, <1>17, <1>18, <1>19, <1>20, <1>21, <1>22, <1>23,
     <1>24, <1>25, <1>26, <1>27, <1>28, <1>29, <1>30, <1>31, <1>32, <1>33, <1>34,
     <1>35, <1>36, <1>37, <1>38
     DEF Next, CoroStep, WaitToken, WaitRegister, NotifyStep, CancellerStep,
         InlineCallback, InvokeCallback

(* So it holds throughout.                                                 *)
LEMMA Invariance == Spec => []ConditionVariableInductive
<1>1. Init => ConditionVariableInductive
  BY InvariantInit
<1>2. ConditionVariableInductive /\ [Next]_vars => ConditionVariableInductive'
  BY InvariantStep
<1> QED BY <1>1, <1>2, PTL DEF Spec

-----------------------------------------------------------------------------
(* Whoever claims the waiter of a suspended coroutine wakes it, and nobody *)
(* else does.                                                              *)
LEMMA OneResumer ==
  ASSUME ConditionVariableInductive
  PROVE  OneResumerPerSuspension
<1> USE DEF ConditionVariableInductive, TypeOK, WaitTypeOK
<1> SUFFICES ASSUME NEW c \in Coros, pc[c] = "suspended"
             PROVE  IF resumed[state[c]] THEN Cardinality(Resumers(c)) = 1
                    ELSE state[c] \in ToSet(waiters) /\ Resumers(c) = {}
  BY DEF OneResumerPerSuspension
<1>1. state[c] \in Waiters /\ handle[state[c]] = c /\ phase[state[c]] = "suspended"
  BY DEF OwnWaiterInv, PhaseInv, WaitingPoints
<1> DEFINE U(n) == relock[n] = c \/ state[c] \in ToSet(claimed[n])
           K(d) == kpc[d] \in {"cb_store", "cb_wake", "resume"} /\ kcb[d] = state[c]
<1>2. Resumers(c) = {n \in Notifiers : U(n)} \cup {d \in Coros : K(d)}
  BY DEF Resumers
<1>3. ASSUME NEW m \in Notifiers, NEW n \in Notifiers, U(m), U(n), m # n
      PROVE  FALSE
  <2>1. CASE relock[m] = c
    BY <1>1, <1>3, <2>1, NullAssumption, ZenonT(60) DEF ClaimInv, RelockInv
  <2>2. CASE state[c] \in ToSet(claimed[m])
    BY <1>1, <1>3, <2>2 DEF ClaimInv
  <2> QED BY <1>3, <2>1, <2>2
<1>4. \A n \in Notifiers : U(n) => Granted(c)
  BY <1>1, NullAssumption DEF ClaimInv, RelockInv
<1>5. K(c) => resumed[state[c]] /\ ~Granted(c)
  BY <1>1 DEF CancelInv, PhaseInv, Granted, CancelClaimed
<1>6. \A d \in Coros : K(d) => d = c
  BY <1>1 DEF OwnWaiterInv
<1>7. ASSUME resumed[state[c]] PROVE (\E n \in Notifiers : U(n)) \/ K(c)
  BY <1>1, <1>7, NullAssumption
     DEF WokenInv, NotifyWakes, NotifyRelocks, CancelWakes
<1> HIDE DEF U, K
<1>8. CASE resumed[state[c]]
  <2>1. \E x : Resumers(c) = {x}
    <3>1. ASSUME NEW n \in Notifiers, U(n) PROVE Resumers(c) = {n}
      BY <1>2, <1>3, <1>4, <1>5, <1>6, <3>1
    <3>2. ASSUME K(c) PROVE Resumers(c) = {c}
      BY <1>2, <1>4, <1>5, <1>6, <3>2
    <3> QED BY <1>7, <1>8, <3>1, <3>2
  <2> QED BY <1>8, <2>1, FS_Singleton
<1>9. CASE ~resumed[state[c]]
  <2>1. state[c] \in ToSet(waiters)
    BY <1>1, <1>9, NullAssumption DEF QueuedInv
  <2>2. Resumers(c) = {}
    BY <1>2, <1>4, <1>5, <1>6, <1>9 DEF Granted
  <2> QED BY <1>9, <2>1, <2>2
<1> QED BY <1>8, <1>9

(* Every property of ConditionVariableInvariant: the caller of wait()      *)
(* holds the mutex alone when it goes on, each suspension is ended by      *)
(* exactly one thread, and only a suspension is.                           *)
THEOREM WaitsEndOnceWithTheMutex == Spec => []ConditionVariableInvariant
<1>1. ConditionVariableInductive => ResumeOnlySuspended
  BY DEF ConditionVariableInductive, ResumeOnlySuspended, RelockInv, CancelInv,
         OwnWaiterInv
<1>2. ConditionVariableInductive => ConditionVariableInvariant
  BY <1>1, OneResumer
     DEF ConditionVariableInductive, OwnerInv, ConditionVariableInvariant
<1> QED BY <1>2, Invariance, PTL

(* What a notifier has claimed no cancellation has: its notification does  *)
(* not go to a wait that throws.                                           *)
THEOREM NotificationsAreNotWasted == Spec => []NotificationsReachWaiters
<1>1. ASSUME ConditionVariableInductive, NEW n \in Notifiers, NEW w \in ToSet(claimed[n])
      PROVE  resumed[w] /\ ~cancelled[w]
  BY <1>1 DEF ConditionVariableInductive, ClaimInv, Granted
<1>2. ConditionVariableInductive => NotificationsReachWaiters
  BY <1>1 DEF NotificationsReachWaiters
<1> QED BY <1>2, Invariance, PTL

(* notify_one() claims a waiter if any coroutine waits, also one that has  *)
(* released the mutex and has not suspended yet.                           *)
THEOREM NotifyOneWakesAWaiter == Spec => NotifyOneWakesOne
<1> DEFINE Wakes == \A n \in Notifiers :
                      NotifyOne(n) /\ (\E c \in Coros : Waiting(c)) => claimed'[n] # <<>>
<1>1. ASSUME ConditionVariableInductive PROVE Wakes
  <2> SUFFICES ASSUME NEW n \in Notifiers, NotifyOne(n), NEW c \in Coros, Waiting(c)
               PROVE  claimed'[n] # <<>>
    OBVIOUS
  <2> DEFINE i == FirstUnclaimed(waiters)
  <2>1. waiters \in Seq(Waiters) /\ claimed \in [Notifiers -> Seq(Waiters)]
    BY <1>1 DEF ConditionVariableInductive, TypeOK
  <2>2. state[c] \in ToSet(waiters) /\ ~resumed[state[c]]
    BY <1>1 DEF ConditionVariableInductive, QueuedInv, Waiting
  <2>3. i # 0
    BY <2>1, <2>2, FirstOfQueue
  <2>4. claimed' = [claimed EXCEPT ![n] = <<waiters[i]>>]
    BY <2>3 DEF NotifyOne
  <2> HIDE DEF i
  <2> QED BY <2>1, <2>4
<1>2. ConditionVariableInductive /\ [Next]_vars => [Wakes]_vars
  BY <1>1
<1> QED BY <1>2, Invariance, PTL DEF Spec, NotifyOneWakesOne
=============================================================================
